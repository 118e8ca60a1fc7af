--------------------------------- MODULE MlKem ---------------------------------
(***************************************************************************)
(* src/mlkem.c: one ML-KEM key exchange between Alice and Bob inside one   *)
(* program.  Each wolfCrypt call may fail; a failure jumps to the cleanup  *)
(* with ret # 0, and ret decides the exit status.                          *)
(***************************************************************************)
EXTENDS Naturals

Buffers == {"alice_pub", "ciphertext", "shared_secret_alice", "shared_secret_bob"}

VARIABLES
  at,        \* where main() is
  ret,       \* the local variable: "0", or "error" for any other value
  rng,       \* "raw", "live" or "freed"
  AliceKey,  \* "raw" (uninitialised), "init", "key" or "freed"
  Bobkey,
  buf,       \* each buffer: "NULL", "live" or "freed"
  secret,    \* the shared secret each side has derived, or "none"
  status     \* exit status: "running", "0" or "1"

vars == <<at, ret, rng, AliceKey, Bobkey, buf, secret, status>>

Init ==
  /\ at = "InitRng" /\ ret = "0" /\ rng = "raw"
  /\ AliceKey = "raw" /\ Bobkey = "raw"
  /\ buf = [b \in Buffers |-> "NULL"]
  /\ secret = [alice |-> "none", bob |-> "none"]
  /\ status = "running"

\* A call that returned 0 leads on, any other to the cleanup.
Returns(r, next) ==
  /\ ret' = r
  /\ at' = IF r = "0" THEN next ELSE "cleanup"

Results == {"0", "error"}

\* No random numbers: the program ends at once.
InitRng ==
  /\ at = "InitRng"
  /\ \E r \in Results :
       /\ ret' = r
       /\ IF r = "0"
          THEN rng' = "live" /\ at' = "InitAlice" /\ UNCHANGED status
          ELSE status' = "1" /\ at' = "exit" /\ UNCHANGED rng
  /\ UNCHANGED <<AliceKey, Bobkey, buf, secret>>

\* A call on one of the keys, which leaves them as given when it succeeds.
KeyCall(alice, bob, next) ==
  /\ \E r \in Results :
       /\ Returns(r, next)
       /\ AliceKey' = IF r = "0" THEN alice ELSE AliceKey
       /\ Bobkey' = IF r = "0" THEN bob ELSE Bobkey
  /\ UNCHANGED <<rng, buf, secret, status>>

InitAlice   == at = "InitAlice" /\ KeyCall("init", Bobkey, "MakeKey")
MakeKey     == at = "MakeKey" /\ KeyCall("key", Bobkey, "Sizes")
EncodeAlice == at = "EncodeAlice" /\ KeyCall(AliceKey, Bobkey, "InitBob")
InitBob     == at = "InitBob" /\ KeyCall(AliceKey, "init", "DecodeAlice")

\* The sizes of the public key, the ciphertext and the secret.
Sizes == at = "Sizes" /\ KeyCall(AliceKey, Bobkey, "Allocate")

\* Bob's key becomes Alice's public key.
DecodeAlice == at = "DecodeAlice" /\ KeyCall(AliceKey, "key", "Encapsulate")

\* Faulty variants: one buffer is not tested; a failure returns at once.
AllocateUntested ==
  /\ at = "Allocate"
  /\ buf' \in [Buffers -> {"NULL", "live"}]
  /\ Returns(IF \A b \in Buffers \ {"ciphertext"} : buf'[b] = "live"
             THEN "0" ELSE "error", "EncodeAlice")
  /\ UNCHANGED <<rng, AliceKey, Bobkey, secret, status>>

AllocateReturns ==
  /\ at = "Allocate"
  /\ buf' \in [Buffers -> {"NULL", "live"}]
  /\ IF \A b \in Buffers : buf'[b] = "live"
     THEN Returns("0", "EncodeAlice") /\ UNCHANGED status
     ELSE ret' = "error" /\ status' = "1" /\ at' = "exit"
  /\ UNCHANGED <<rng, AliceKey, Bobkey, secret>>

\* The four mallocs, then one test of all of them.
Allocate ==
  /\ at = "Allocate"
  /\ buf' \in [Buffers -> {"NULL", "live"}]
  /\ Returns(IF \A b \in Buffers : buf'[b] = "live" THEN "0" ELSE "error",
             "EncodeAlice")
  /\ UNCHANGED <<rng, AliceKey, Bobkey, secret, status>>

Encapsulate ==
  /\ at = "Encapsulate"
  /\ \E r \in Results :
       /\ Returns(r, "Decapsulate")
       /\ secret' = [secret EXCEPT !.bob = IF r = "0" THEN "s" ELSE @]
  /\ UNCHANGED <<rng, AliceKey, Bobkey, buf, status>>

\* Decapsulation answers with a secret of its own when it rejects the
\* ciphertext, and reports no error for it.
Decapsulate ==
  /\ at = "Decapsulate"
  /\ \/ Returns("0", "Compare") /\ secret' \in {[secret EXCEPT !.alice = s] : s \in {"s", "rejected"}}
     \/ Returns("error", "Compare") /\ UNCHANGED secret
  /\ UNCHANGED <<rng, AliceKey, Bobkey, buf, status>>

\* Faulty variant: ret is not set when the secrets differ.
CompareKeepsRet ==
  /\ at = "Compare"
  /\ at' = "cleanup"
  /\ UNCHANGED <<ret, rng, AliceKey, Bobkey, buf, secret, status>>

Compare ==
  /\ at = "Compare"
  /\ ret' = IF secret.alice = secret.bob THEN ret ELSE "error"
  /\ at' = "cleanup"
  /\ UNCHANGED <<rng, AliceKey, Bobkey, buf, secret, status>>

\* cleanup: both keys, initialised or not, the generator, the buffers.
Cleanup ==
  /\ at = "cleanup"
  /\ AliceKey' = "freed" /\ Bobkey' = "freed" /\ rng' = "freed"
  /\ buf' = [b \in Buffers |-> IF buf[b] = "live" THEN "freed" ELSE buf[b]]
  /\ status' = IF ret = "0" THEN "0" ELSE "1"
  /\ at' = "exit"
  /\ UNCHANGED <<ret, secret>>

Next ==
  \/ InitRng \/ InitAlice \/ MakeKey \/ Sizes \/ Allocate \/ EncodeAlice
  \/ InitBob \/ DecodeAlice \/ Encapsulate \/ Decapsulate \/ Compare \/ Cleanup

Spec == Init /\ [][Next]_vars

-----------------------------------------------------------------------------
(* Properties.                                                             *)

KeyStates == {"raw", "init", "key", "freed"}

TypeOK ==
  /\ ret \in Results
  /\ rng \in {"raw", "live", "freed"}
  /\ AliceKey \in KeyStates /\ Bobkey \in KeyStates
  /\ buf \in [Buffers -> {"NULL", "live", "freed"}]
  /\ secret \in [alice : {"none", "s", "rejected"}, bob : {"none", "s"}]
  /\ status \in {"running", "0", "1"}
  /\ at = "exit" <=> status # "running"

\* The exit status is the outcome of the exchange: 0 exactly when both sides
\* hold the same secret, whichever call failed and wherever it jumped.
StatusIsAgreement ==
  status # "running" =>
    (status = "0" <=> secret.alice # "none" /\ secret.alice = secret.bob)

\* Once it has a generator the program leaves nothing behind: keys, generator
\* and buffers are all released, on the way of every goto.
NothingLeft ==
  at = "exit" /\ rng # "raw" =>
    /\ AliceKey = "freed" /\ Bobkey = "freed" /\ rng = "freed"
    /\ \A b \in Buffers : buf[b] # "live"

\* The exchange works only on keys and buffers that exist: no call between
\* the mallocs and the comparison meets a NULL buffer or a missing key.
ExchangeIsReady ==
  /\ at \in {"EncodeAlice", "InitBob", "DecodeAlice", "Encapsulate",
             "Decapsulate", "Compare"} =>
       AliceKey = "key" /\ \A b \in Buffers : buf[b] = "live"
  /\ at \in {"Encapsulate", "Decapsulate"} => Bobkey = "key"
  /\ at = "Compare" => secret.alice # "none" /\ secret.bob # "none"

\* The cleanup says "Free keys": what it frees should be keys by then.
FreesKeys == at = "cleanup" => AliceKey # "raw" /\ Bobkey # "raw"
=============================================================================
