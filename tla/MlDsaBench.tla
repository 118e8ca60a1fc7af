------------------------------- MODULE MlDsaBench -------------------------------
(***************************************************************************)
(* src/mldsa_benchmark.c: REPEAT_COUNT times a new ML-DSA key, a signature *)
(* and its verification.  src/mldsa.c is the same program with             *)
(* REPEAT_COUNT = 1, the signature freed by the cleanup.                   *)
(***************************************************************************)
EXTENDS Integers

CONSTANT REPEAT_COUNT

VARIABLES
  at,          \* where main() is
  iter,        \* the loop counter
  rc,          \* the local variable: 0, or 1 for any error
  verify_res,  \* set by the verification, kept when that fails
  sig,         \* the pointer: "NULL" or "block"
  blocks,      \* heap blocks allocated and not freed
  passed,      \* history: iterations that printed PASSED
  failed,      \* history: iterations that printed FAILED
  status       \* exit status: "running", "0" or "1"

vars == <<at, iter, rc, verify_res, sig, blocks, passed, failed, status>>

Init ==
  /\ at = "loop" /\ iter = 0 /\ rc = 0 /\ verify_res = 0 /\ sig = "NULL"
  /\ blocks = 0 /\ passed = {} /\ failed = {} /\ status = "running"

\* A call returned r: an error jumps to the cleanup.
Returns(r, next) ==
  /\ rc' = r
  /\ at' = IF r = 0 THEN next ELSE "cleanup"

EndLoop ==
  /\ at = "loop" /\ iter >= REPEAT_COUNT
  /\ at' = "cleanup"
  /\ UNCHANGED <<iter, rc, verify_res, sig, blocks, passed, failed, status>>

MakeKey ==
  /\ at = "loop" /\ iter < REPEAT_COUNT
  /\ \E r \in {0, 1} : Returns(r, "malloc")
  /\ UNCHANGED <<iter, verify_res, sig, blocks, passed, failed, status>>

\* The result is not tested.
Malloc ==
  /\ at = "malloc"
  /\ sig' \in {"NULL", "block"}
  /\ blocks' = blocks + (IF sig' = "block" THEN 1 ELSE 0)
  /\ at' = "sign"
  /\ UNCHANGED <<iter, rc, verify_res, passed, failed, status>>

\* With no buffer to sign into wc_MlDsaKey_Sign returns an error.
Sign ==
  /\ at = "sign"
  /\ \E r \in IF sig = "NULL" THEN {1} ELSE {0, 1} : Returns(r, "verify")
  /\ UNCHANGED <<iter, verify_res, sig, blocks, passed, failed, status>>

\* The call's error does not end the loop; its verdict is left as it was.
Verify ==
  /\ at = "verify"
  /\ \/ rc' = 0 /\ verify_res' \in {0, 1}
     \/ rc' = 1 /\ UNCHANGED verify_res
  /\ at' = "report"
  /\ UNCHANGED <<iter, sig, blocks, passed, failed, status>>

\* Faulty variant: the pointer keeps naming the freed buffer.
ReportKeepsPointer ==
  /\ at = "report"
  /\ IF rc = 0 /\ verify_res = 1
     THEN passed' = passed \cup {iter} /\ UNCHANGED failed
     ELSE failed' = failed \cup {iter} /\ UNCHANGED passed
  /\ blocks' = blocks - 1
  /\ iter' = iter + 1 /\ at' = "loop"
  /\ UNCHANGED <<rc, verify_res, sig, status>>

Report ==
  /\ at = "report"
  /\ IF rc = 0 /\ verify_res = 1
     THEN passed' = passed \cup {iter} /\ UNCHANGED failed
     ELSE failed' = failed \cup {iter} /\ UNCHANGED passed
  /\ blocks' = blocks - 1 /\ sig' = "NULL"
  /\ iter' = iter + 1 /\ at' = "loop"
  /\ UNCHANGED <<rc, verify_res, status>>

\* Faulty variant: the exit status is the verdict alone.
CleanupVerdictOnly ==
  /\ at = "cleanup"
  /\ blocks' = blocks - (IF sig = "block" THEN 1 ELSE 0)
  /\ status' = IF verify_res = 1 THEN "0" ELSE "1"
  /\ at' = "exit"
  /\ UNCHANGED <<iter, rc, verify_res, sig, passed, failed>>

Cleanup ==
  /\ at = "cleanup"
  /\ blocks' = blocks - (IF sig = "block" THEN 1 ELSE 0)
  /\ status' = IF rc = 0 /\ verify_res = 1 THEN "0" ELSE "1"
  /\ at' = "exit"
  /\ UNCHANGED <<iter, rc, verify_res, sig, passed, failed>>

Next == EndLoop \/ MakeKey \/ Malloc \/ Sign \/ Verify \/ Report \/ Cleanup

Spec == Init /\ [][Next]_vars

-----------------------------------------------------------------------------
(* Properties.                                                             *)

TypeOK ==
  /\ at \in {"loop", "malloc", "sign", "verify", "report", "cleanup", "exit"}
  /\ iter \in 0 .. REPEAT_COUNT /\ rc \in {0, 1} /\ verify_res \in {0, 1}
  /\ sig \in {"NULL", "block"} /\ blocks \in 0 .. 1
  /\ passed \subseteq 0 .. REPEAT_COUNT - 1 /\ failed \subseteq 0 .. REPEAT_COUNT - 1
  /\ status \in {"running", "0", "1"}

\* Each signature buffer is freed exactly once: by its iteration, or by the
\* cleanup when the signing of that iteration failed.
BufferOnce == blocks = IF sig = "block" /\ at # "exit" THEN 1 ELSE 0

\* The verdict of an earlier iteration, which verify_res still holds after a
\* failed verification, counts for nothing: the exit status is 0 exactly when
\* the last iteration was reached and itself passed.
StatusIsLastVerdict ==
  status # "running" => (status = "0" <=> REPEAT_COUNT - 1 \in passed)
=============================================================================
