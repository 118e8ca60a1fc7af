------------------------------ MODULE AesGcmBench ------------------------------
(***************************************************************************)
(* src/aes_benchmark.c: ITERATIONS times one plaintext is encrypted and    *)
(* decrypted with AES-GCM.  The results of both calls are assigned to ret  *)
(* and not tested; the check is a comparison of the plaintext with the     *)
(* buffer "decrypted", which outlives the iteration.  The generator is     *)
(* initialised before the loop and never freed.                            *)
(***************************************************************************)
EXTENDS Integers

CONSTANT ITERATIONS

VARIABLES
  at,         \* where main() is
  iter,       \* the loop counter
  rng,        \* whether the generator is initialised
  failed,     \* history: the initialisations that failed
  contexts,   \* AES contexts initialised and not freed
  cipher,     \* cipher and authTag: "garbage" or "sealed"
  decrypted,  \* "garbage" or "plain"
  opened,     \* history: iterations whose decryption succeeded
  matched,    \* history: iterations that printed a match
  status      \* exit status: "running", "0", "-1" or "fault"

vars == <<at, iter, rng, failed, contexts, cipher, decrypted, opened, matched, status>>

Init ==
  /\ at = "start" /\ iter = 0 /\ rng = FALSE /\ failed = {} /\ contexts = 0
  /\ cipher = "garbage" /\ decrypted = "garbage"
  /\ opened = {} /\ matched = {} /\ status = "running"

\* wc_InitRng, with no look at its result, and the calls of
\* wc_RNG_GenerateBlock for key and IV: on a raw generator they may fault.
InitRng ==
  /\ at = "start"
  /\ \/ rng' = TRUE /\ at' = "loop" /\ UNCHANGED <<failed, status>>
     \/ /\ UNCHANGED rng /\ failed' = {"wc_InitRng"}
        /\ \/ at' = "loop" /\ UNCHANGED status
           \/ at' = "exit" /\ status' = "fault"
  /\ UNCHANGED <<iter, contexts, cipher, decrypted, opened, matched>>

EndLoop ==
  /\ at = "loop" /\ iter >= ITERATIONS
  /\ at' = "exit" /\ status' = "0"
  /\ UNCHANGED <<iter, rng, failed, contexts, cipher, decrypted, opened, matched>>

\* wc_AesInit; its failure ends the program.
AesInit ==
  /\ at = "loop" /\ iter < ITERATIONS
  /\ \/ contexts' = contexts + 1 /\ at' = "setKey" /\ UNCHANGED <<failed, status>>
     \/ /\ contexts' = contexts /\ failed' = failed \cup {"wc_AesInit"}
        /\ at' = "exit" /\ status' = "-1"
  /\ UNCHANGED <<iter, rng, cipher, decrypted, opened, matched>>

\* wc_AesGcmSetKey; its failure ends the program, the context is not freed.
SetKey ==
  /\ at = "setKey"
  /\ \/ at' = "encrypt" /\ UNCHANGED <<failed, status>>
     \/ /\ failed' = failed \cup {"wc_AesGcmSetKey"}
        /\ at' = "exit" /\ status' = "-1"
  /\ UNCHANGED <<iter, rng, contexts, cipher, decrypted, opened, matched>>

\* A failed encryption may have written part of its output.
Encrypt ==
  /\ at = "encrypt"
  /\ cipher' \in {"sealed", cipher, "garbage"}
  /\ at' = "decrypt"
  /\ UNCHANGED <<iter, rng, failed, contexts, decrypted, opened, matched, status>>

\* Faulty variant: the plaintext is released before its tag is checked.
DecryptUnchecked ==
  /\ at = "decrypt"
  /\ decrypted' = "plain"
  /\ opened' \in {opened} \cup (IF cipher = "sealed" THEN {opened \cup {iter}} ELSE {})
  /\ at' = "verify"
  /\ UNCHANGED <<iter, rng, failed, contexts, cipher, matched, status>>

\* Only a sealed ciphertext opens.  A failed decryption leaves its output
\* alone or clears it.
Decrypt ==
  /\ at = "decrypt"
  /\ \/ cipher = "sealed" /\ decrypted' = "plain" /\ opened' = opened \cup {iter}
     \/ decrypted' \in {decrypted, "garbage"} /\ UNCHANGED opened
  /\ at' = "verify"
  /\ UNCHANGED <<iter, rng, failed, contexts, cipher, matched, status>>

\* Faulty variant: the context is not freed.
VerifyNoFree ==
  /\ at = "verify"
  /\ matched' = IF decrypted = "plain" THEN matched \cup {iter} ELSE matched
  /\ iter' = iter + 1 /\ at' = "loop"
  /\ UNCHANGED <<rng, failed, contexts, cipher, decrypted, opened, status>>

\* The comparison and wc_AesFree.
Verify ==
  /\ at = "verify"
  /\ matched' = IF decrypted = "plain" THEN matched \cup {iter} ELSE matched
  /\ contexts' = contexts - 1
  /\ iter' = iter + 1 /\ at' = "loop"
  /\ UNCHANGED <<rng, failed, cipher, decrypted, opened, status>>

Next == InitRng \/ EndLoop \/ AesInit \/ SetKey \/ Encrypt \/ Decrypt \/ Verify

Spec == Init /\ [][Next]_vars

-----------------------------------------------------------------------------
(* Properties.                                                             *)

TypeOK ==
  /\ at \in {"start", "loop", "setKey", "encrypt", "decrypt", "verify", "exit"}
  /\ iter \in 0 .. ITERATIONS /\ rng \in BOOLEAN /\ contexts \in 0 .. 1
  /\ failed \subseteq {"wc_InitRng", "wc_AesInit", "wc_AesGcmSetKey"}
  /\ cipher \in {"garbage", "sealed"} /\ decrypted \in {"garbage", "plain"}
  /\ opened \subseteq 0 .. ITERATIONS - 1 /\ matched \subseteq 0 .. ITERATIONS - 1
  /\ status \in {"running", "0", "-1", "fault"}

\* No iteration begins with the context of the one before.  The return after
\* a refused key, and no other, leaves a context behind, and every return the
\* generator, if there was one.
KeptAtEnd ==
  /\ at = "loop" => contexts = 0
  /\ status \in {"0", "-1"} =>
       /\ contexts = IF "wc_AesGcmSetKey" \in failed THEN 1 ELSE 0
       /\ rng <=> "wc_InitRng" \notin failed

\* A decryption that succeeds is reported as a match, and a match is reported
\* only when this iteration's or an earlier one's decryption succeeded.
MatchHasOpening ==
  /\ \A i \in opened : i < iter => i \in matched
  /\ \A i \in matched : \E j \in opened : j <= i
=============================================================================
