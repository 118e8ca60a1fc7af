------------------------------ MODULE MlKemBench ------------------------------
(***************************************************************************)
(* src/mlkem_benchmark.c: ITERATIONS times an ML-KEM key generation, an    *)
(* encapsulation and a decapsulation, none of whose results is tested.     *)
(* The check is a comparison of the two secret buffers, which malloc takes *)
(* from what the last iteration freed.                                     *)
(*                                                                         *)
(* The secret and the ciphertext of iteration i are the number i + 1; 0    *)
(* stands for memory nobody wrote and -(i + 1) for the secret iteration i's *)
(* decapsulation makes up when it rejects a ciphertext: each is derived    *)
(* from random bytes of a new key, so no two of them are equal.  As a      *)
(* ciphertext -(i + 1) is one made for a key that is not Alice's.          *)
(***************************************************************************)
EXTENDS Integers

CONSTANT ITERATIONS

Buffers == {"alice_pub", "ciphertext", "ss_alice", "ss_bob"}

VARIABLES
  at,         \* where main() is
  iter,       \* the loop counter
  rng,        \* whether the generator is initialised and not freed
  AliceKey,   \* "raw", "init", "key" or "freed"
  BobKey,     \* the same, "key" for Alice's present one, or "stale" for another
  live,       \* the buffers malloc returned and free has not taken back
  ciphertext, ss_alice, ss_bob,   \* contents
  keyed,      \* history: iterations in which Bob got Alice's present key
  sealed,     \* history: iterations whose encapsulation succeeded
  opened,     \* history: iterations whose decapsulation answered
  matched,    \* history: iterations that printed a match
  status      \* exit status: "running", "0", "-1" or "fault"

keyVars  == <<rng, AliceKey, BobKey>>
memVars  == <<live, ciphertext, ss_alice, ss_bob>>
histVars == <<keyed, sealed, opened, matched>>
vars     == <<at, iter, keyVars, memVars, histVars, status>>

Init ==
  /\ at = "loop" /\ iter = 0
  /\ rng = FALSE /\ AliceKey = "raw" /\ BobKey = "raw"
  /\ live = {} /\ ciphertext = 0 /\ ss_alice = 0 /\ ss_bob = 0
  /\ keyed = {} /\ sealed = {} /\ opened = {} /\ matched = {} /\ status = "running"

EndLoop ==
  /\ at = "loop" /\ iter >= ITERATIONS
  /\ at' = "exit" /\ status' = "0"
  /\ UNCHANGED <<iter, keyVars, memVars, histVars>>

\* wc_InitRng, whose failure ends the program, and the two key inits.
InitAll ==
  /\ at = "loop" /\ iter < ITERATIONS
  /\ \/ /\ rng' = TRUE /\ AliceKey' = "init" /\ BobKey' = "init"
        /\ at' = "makeKey" /\ UNCHANGED status
     \/ /\ UNCHANGED keyVars
        /\ at' = "exit" /\ status' = "-1"
  /\ UNCHANGED <<iter, memVars, histVars>>

MakeKey ==
  /\ at = "makeKey"
  /\ AliceKey' \in {"key", "init"}
  /\ at' = "malloc"
  /\ UNCHANGED <<iter, rng, BobKey, memVars, histVars, status>>

\* The four mallocs.  A block holds what was last in it, or garbage: the two
\* secrets have one size, so each may get the other's old block.
Malloc ==
  /\ at = "malloc"
  /\ live' \in SUBSET Buffers
  /\ ciphertext' \in {0, ciphertext}
  /\ \/ ss_alice' \in {0, ss_alice} /\ ss_bob' \in {0, ss_bob}
     \/ ss_alice' = ss_bob /\ ss_bob' = ss_alice
  /\ at' = "encode"
  /\ UNCHANGED <<iter, keyVars, histVars, status>>

\* wc_MlKemKey_EncodePublicKey and wc_MlKemKey_DecodePublicKey: Bob's key
\* stays as it is when the second fails, and always with no buffer; becomes
\* Alice's when both succeed; and is read from what the recycled block held
\* when the first fails alone, an older key or garbage.
EncodeDecode ==
  /\ at = "encode"
  /\ \/ BobKey' = BobKey /\ UNCHANGED keyed
     \/ /\ "alice_pub" \in live /\ AliceKey = "key"
        /\ BobKey' = "key" /\ keyed' = keyed \cup {iter}
     \/ "alice_pub" \in live /\ BobKey' = "stale" /\ UNCHANGED keyed
  /\ at' = "encapsulate"
  /\ UNCHANGED <<iter, rng, AliceKey, memVars, sealed, opened, matched, status>>

\* The ciphertext of this iteration, for Alice or for nobody.
NewCiphertext == IF BobKey = "key" THEN iter + 1 ELSE -(iter + 1)

\* Faulty variant: the secret is written to the wrong buffer.
EncapsulateSwapped ==
  /\ at = "encapsulate"
  /\ \/ UNCHANGED <<ciphertext, ss_alice, sealed>>
     \/ /\ BobKey \in {"key", "stale"} /\ {"ciphertext", "ss_alice"} \subseteq live
        /\ ciphertext' = NewCiphertext /\ ss_alice' = iter + 1
        /\ sealed' = sealed \cup {iter}
  /\ at' = "decapsulate"
  /\ UNCHANGED <<iter, keyVars, live, ss_bob, keyed, opened, matched, status>>

Encapsulate ==
  /\ at = "encapsulate"
  /\ \/ UNCHANGED <<ciphertext, ss_bob, sealed>>
     \/ /\ BobKey \in {"key", "stale"} /\ {"ciphertext", "ss_bob"} \subseteq live
        /\ ciphertext' = NewCiphertext /\ ss_bob' = iter + 1
        /\ sealed' = sealed \cup {iter}
  /\ at' = "decapsulate"
  /\ UNCHANGED <<iter, keyVars, live, ss_alice, keyed, opened, matched, status>>

\* Faulty variant: a rejected ciphertext leaves the buffer as it is.
DecapsulateSilent ==
  /\ at = "decapsulate"
  /\ \/ UNCHANGED <<ss_alice, opened>>
     \/ /\ AliceKey = "key" /\ {"ciphertext", "ss_alice"} \subseteq live
        /\ ss_alice' = IF ciphertext = iter + 1 THEN ciphertext ELSE ss_alice
        /\ opened' = opened \cup {iter}
  /\ at' = "compare"
  /\ UNCHANGED <<iter, keyVars, live, ciphertext, ss_bob, keyed, sealed, matched, status>>

\* A ciphertext made for another key, or never written, is rejected: the
\* call answers with a secret of its own.
Decapsulate ==
  /\ at = "decapsulate"
  /\ \/ UNCHANGED <<ss_alice, opened>>
     \/ /\ AliceKey = "key" /\ {"ciphertext", "ss_alice"} \subseteq live
        /\ ss_alice' = IF ciphertext = iter + 1 THEN ciphertext ELSE -(iter + 1)
        /\ opened' = opened \cup {iter}
  /\ at' = "compare"
  /\ UNCHANGED <<iter, keyVars, live, ciphertext, ss_bob, keyed, sealed, matched, status>>

\* memcmp of the two secrets; undefined without the two buffers.  Memory
\* nobody wrote equals nothing.
Compare ==
  /\ at = "compare"
  /\ IF {"ss_alice", "ss_bob"} \subseteq live
     THEN /\ matched' = IF ss_alice = ss_bob /\ ss_bob # 0
                        THEN matched \cup {iter} ELSE matched
          /\ at' = "free" /\ UNCHANGED status
     ELSE at' = "exit" /\ status' = "fault" /\ UNCHANGED matched
  /\ UNCHANGED <<iter, keyVars, memVars, keyed, sealed, opened>>

\* Faulty variant: the ciphertext is not freed.
FreeForgets ==
  /\ at = "free"
  /\ rng' = FALSE /\ AliceKey' = "freed" /\ BobKey' = "freed"
  /\ live' = live \cap {"ciphertext"}
  /\ iter' = iter + 1 /\ at' = "loop"
  /\ UNCHANGED <<ciphertext, ss_alice, ss_bob, histVars, status>>

Free ==
  /\ at = "free"
  /\ rng' = FALSE /\ AliceKey' = "freed" /\ BobKey' = "freed"
  /\ live' = {}
  /\ iter' = iter + 1 /\ at' = "loop"
  /\ UNCHANGED <<ciphertext, ss_alice, ss_bob, histVars, status>>

Next ==
  \/ EndLoop \/ InitAll \/ MakeKey \/ Malloc \/ EncodeDecode
  \/ Encapsulate \/ Decapsulate \/ Compare \/ Free

Spec == Init /\ [][Next]_vars

-----------------------------------------------------------------------------
(* Properties.                                                             *)

Contents == -ITERATIONS .. ITERATIONS

TypeOK ==
  /\ iter \in 0 .. ITERATIONS /\ rng \in BOOLEAN
  /\ AliceKey \in {"raw", "init", "key", "freed"}
  /\ BobKey \in {"raw", "init", "key", "stale", "freed"}
  /\ live \subseteq Buffers /\ ciphertext \in Contents
  /\ ss_alice \in Contents /\ ss_bob \in Contents
  /\ \A done \in {keyed, sealed, opened, matched} : done \subseteq 0 .. ITERATIONS - 1
  /\ at = "exit" <=> status # "running"

\* An iteration whose encapsulation and decapsulation both succeeded reports
\* a match if Bob had Alice's key and a mismatch if he had another: a public
\* key that was not encoded, although nothing tests for it, does not go by
\* unnoticed.
SuccessMatches ==
  \A i \in sealed \cap opened : i < iter => (i \in matched <=> i \in keyed)

\* An iteration in which only one side got a secret reports no match: what
\* the other buffer still holds is never equal to a secret made just now.
OneSideNeverMatches ==
  \A i \in matched : i \in sealed <=> i \in opened

\* Each iteration starts with nothing allocated, and the program returns 0
\* or -1 with nothing allocated.
NothingKept ==
  at = "loop" \/ status \in {"0", "-1"} => live = {} /\ ~rng

\* "Check correctness": the match an iteration prints should be that of the
\* secrets it exchanged.
MatchIsAgreement == matched \subseteq sealed \cap opened
=============================================================================
