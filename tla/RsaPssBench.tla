------------------------------ MODULE RsaPssBench ------------------------------
(***************************************************************************)
(* src/bench_main.c, the program the build makes, and its copy             *)
(* src/rsaSign_benchmark.c: NUM_ITER times a new RSA key, a signature and  *)
(* its verification, the first failure ending the run.                     *)
(***************************************************************************)
EXTENDS Integers

CONSTANT NUM_ITER

VARIABLES
  at,       \* where main() is
  iter,     \* the loop counter
  rc,       \* sign of the local variable: -1, 0 or 1 for a length
  sig,      \* the pointer: "NULL" or "block"
  blocks,   \* heap blocks allocated and not freed
  signed,   \* whether *sig holds a signature by the present key
  errors,   \* history: calls that returned an error
  passed,   \* history: iterations that printed PASSED
  status    \* exit status: "running", "0" or "1"

vars == <<at, iter, rc, sig, blocks, signed, errors, passed, status>>

Init ==
  /\ at = "loop" /\ iter = 1 /\ rc = 0 /\ sig = "NULL" /\ blocks = 0
  /\ signed = FALSE /\ errors = 0 /\ passed = {} /\ status = "running"

\* A call returned r: an error (below zero, or any value but zero for the key
\* generation) ends the run.
Returns(r, failed, next) ==
  /\ rc' = r
  /\ errors' = errors + (IF failed THEN 1 ELSE 0)
  /\ at' = IF failed THEN "cleanup" ELSE next

EndLoop ==
  /\ at = "loop" /\ iter > NUM_ITER
  /\ at' = "cleanup"
  /\ UNCHANGED <<iter, rc, sig, blocks, signed, errors, passed, status>>

\* Faulty variant: a failed key generation is printed and the run goes on.
MakeRsaKeyGoesOn ==
  /\ at = "loop" /\ iter <= NUM_ITER
  /\ rc' \in {-1, 0}
  /\ errors' = errors + (IF rc' = 0 THEN 0 ELSE 1)
  /\ at' = "malloc" /\ signed' = FALSE
  /\ UNCHANGED <<iter, sig, blocks, passed, status>>

\* Faulty variant: one iteration too many.
MakeRsaKeyOneMore ==
  /\ at = "loop" /\ iter <= NUM_ITER + 1
  /\ \E r \in {-1, 0} : Returns(r, r # 0, "malloc")
  /\ signed' = FALSE
  /\ UNCHANGED <<iter, sig, blocks, passed, status>>

MakeRsaKey ==
  /\ at = "loop" /\ iter <= NUM_ITER
  /\ \E r \in {-1, 0} : Returns(r, r # 0, "malloc")
  /\ signed' = FALSE
  /\ UNCHANGED <<iter, sig, blocks, passed, status>>

\* Faulty variant: the last iteration's buffer is not freed.
MallocOnly ==
  /\ at = "malloc"
  /\ sig' \in {"NULL", "block"}
  /\ blocks' = blocks + (IF sig' = "block" THEN 1 ELSE 0)
  /\ at' = "sign"
  /\ UNCHANGED <<iter, rc, signed, errors, passed, status>>

\* The buffer of the last iteration is freed, a new one allocated; the result
\* is not tested.
Malloc ==
  /\ at = "malloc"
  /\ sig' \in {"NULL", "block"}
  /\ blocks' = blocks - (IF sig = "block" THEN 1 ELSE 0)
                      + (IF sig' = "block" THEN 1 ELSE 0)
  /\ at' = "sign"
  /\ UNCHANGED <<iter, rc, signed, errors, passed, status>>

\* wc_RsaPSS_Sign returns the length, or an error; with no buffer an error.
Sign ==
  /\ at = "sign"
  /\ \E r \in IF sig = "NULL" THEN {-1} ELSE {-1, 1} :
       /\ Returns(r, r < 0, "verify")
       /\ signed' = (r > 0)
  /\ UNCHANGED <<iter, sig, blocks, passed, status>>

\* Faulty variant: the loop counter does not move.
VerifyStays ==
  /\ at = "verify"
  /\ \E r \in {-1, 0} \cup (IF signed THEN {1} ELSE {}) :
       /\ Returns(r, r < 0, "loop")
       /\ passed' = IF r > 0 THEN passed \cup {iter} ELSE passed
  /\ UNCHANGED <<iter, sig, blocks, signed, status>>

\* wc_RsaPSS_Verify returns a length above zero for a good signature, zero is
\* printed as FAILED and the loop goes on.
Verify ==
  /\ at = "verify"
  /\ \E r \in {-1, 0} \cup (IF signed THEN {1} ELSE {}) :
       /\ Returns(r, r < 0, "loop")
       /\ passed' = IF r > 0 THEN passed \cup {iter} ELSE passed
       /\ iter' = IF r < 0 THEN iter ELSE iter + 1
  /\ UNCHANGED <<sig, blocks, signed, status>>

Cleanup ==
  /\ at = "cleanup"
  /\ blocks' = blocks - (IF sig = "block" THEN 1 ELSE 0)
  /\ status' = IF rc = 0 THEN "0" ELSE "1"
  /\ at' = "exit"
  /\ UNCHANGED <<iter, rc, sig, signed, errors, passed>>

Next == EndLoop \/ MakeRsaKey \/ Malloc \/ Sign \/ Verify \/ Cleanup

Spec == Init /\ [][Next]_vars

-----------------------------------------------------------------------------
(* Properties.                                                             *)

TypeOK ==
  /\ at \in {"loop", "malloc", "sign", "verify", "cleanup", "exit"}
  /\ iter \in 1 .. NUM_ITER + 1 /\ rc \in {-1, 0, 1}
  /\ sig \in {"NULL", "block"} /\ blocks \in Nat /\ signed \in BOOLEAN
  /\ errors \in Nat /\ passed \subseteq 1 .. NUM_ITER
  /\ status \in {"running", "0", "1"}

\* One signature buffer at most is allocated, the one sig names, whatever
\* malloc answered in which iteration, and none is when the program ends.
OneBuffer == blocks = IF sig = "block" /\ at # "exit" THEN 1 ELSE 0

\* A failed call is the last one of the run.  The exit status is 0 exactly
\* when none failed and the verdict of the last iteration was FAILED: rc is
\* zero then, and a positive length after a good signature.
StatusIsLastVerdict ==
  /\ errors <= 1
  /\ errors = 1 => at \in {"cleanup", "exit"}
  /\ at = "exit" => (status = "0" <=> errors = 0 /\ NUM_ITER \notin passed)

\* The run ends only after NUM_ITER iterations or with the first error.
Finished == at = "exit" /\ (errors = 1 \/ iter = NUM_ITER + 1)

\* main ends with "return (rc == 0) ? 0 : 1": a run that printed "RSA-PSS test
\* PASSED - signature verified!" in each iteration should return 0.
PassedRunReturnsZero ==
  at = "exit" /\ passed = 1 .. NUM_ITER => status = "0"
=============================================================================
