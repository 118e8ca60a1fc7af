----------------------------- MODULE ProgramProofs -----------------------------
(***************************************************************************)
(* What the programs that only compute keep, each of them step by step,    *)
(* for every number of iterations.                                         *)
(***************************************************************************)
EXTENDS MCPrograms, TLAPS

-----------------------------------------------------------------------------
(* bench_main: the buffer, the first error, the last verdict and the exit  *)
(* status.                                                                 *)

RsaInv ==
  /\ Rsa!TypeOK /\ Rsa!OneBuffer
  /\ at \in {"malloc", "sign", "verify"} => iter <= ITERATIONS
  /\ at \notin {"cleanup", "exit"} => errors = 0
  /\ errors \in {0, 1} /\ (errors = 1 => rc # 0)
  /\ passed \subseteq 1 .. iter /\ (iter \in passed => at \in {"cleanup", "exit"})
  /\ at = "loop" => rc \in {0, 1} /\ (rc = 0 <=> iter - 1 \notin passed)
  /\ at \in {"cleanup", "exit"} => (rc = 0 <=> errors = 0 /\ ITERATIONS \notin passed)
  /\ at # "exit" => status = "running"
  /\ at = "exit" => status = IF rc = 0 THEN "0" ELSE "1"

\* The invariant of bench_main holds when it starts.
LEMMA RsaInitially == ASSUME Rsa!Init PROVE RsaInv
<1>0. signed \in BOOLEAN
  BY DEF Rsa!Init
<1>1. Rsa!TypeOK
  BY <1>0, IterationAssumption DEF Rsa!Init, Rsa!TypeOK
<1> QED
  BY <1>1, IterationAssumption DEF Rsa!Init, RsaInv, Rsa!OneBuffer

\* Every step of bench_main keeps its invariant.
LEMMA RsaStep == ASSUME RsaInv, Rsa!Next PROVE RsaInv'
<1> USE IterationAssumption DEF RsaInv, Rsa!TypeOK, Rsa!OneBuffer
<1>1. CASE Rsa!EndLoop
  <2>1. Rsa!TypeOK'
    BY <1>1 DEF Rsa!EndLoop
  <2>2. Rsa!OneBuffer'
    BY <1>1 DEF Rsa!EndLoop
  <2> QED
    BY <2>1, <2>2, <1>1 DEF Rsa!EndLoop
<1>2. CASE Rsa!MakeRsaKey
  <2>1. signed' \in BOOLEAN
    BY <1>2 DEF Rsa!MakeRsaKey
  <2>2. PICK r \in {-1, 0} : Rsa!Returns(r, r # 0, "malloc")
    BY <1>2 DEF Rsa!MakeRsaKey
  <2> QED
    BY <1>2, <2>1, <2>2 DEF Rsa!MakeRsaKey, Rsa!Returns
<1>3. CASE Rsa!Malloc
  BY <1>3 DEF Rsa!Malloc
<1>4. CASE Rsa!Sign
  BY <1>4 DEF Rsa!Sign, Rsa!Returns
<1>5. CASE Rsa!Verify
  BY <1>5 DEF Rsa!Verify, Rsa!Returns
<1>6. CASE Rsa!Cleanup
  BY <1>6 DEF Rsa!Cleanup
<1> QED
  BY <1>1, <1>2, <1>3, <1>4, <1>5, <1>6 DEF Rsa!Next

-----------------------------------------------------------------------------
(* mldsa_benchmark: the buffer, and the verdict of the last iteration.     *)

\* The present values of rc and verify_res are the verdict of the iteration
\* that ended last.
LastPassed == rc = 0 /\ verify_res = 1

DsaInv ==
  /\ Dsa!TypeOK /\ Dsa!BufferOnce
  /\ at \in {"loop", "malloc"} => sig = "NULL"
  /\ at \in {"verify", "report"} => sig = "block"
  /\ at \in {"malloc", "sign", "verify", "report"} => iter < ITERATIONS
  /\ passed \subseteq 0 .. iter - 1
  /\ at = "loop" => (LastPassed <=> iter - 1 \in passed)
  /\ at \in {"cleanup", "exit"} => (LastPassed <=> ITERATIONS - 1 \in passed)
  /\ at # "exit" => status = "running"
  /\ at = "exit" => status = IF LastPassed THEN "0" ELSE "1"

\* The invariant of mldsa_benchmark holds when it starts.
LEMMA DsaInitially == ASSUME Dsa!Init PROVE DsaInv
<1>1. Dsa!TypeOK
  BY IterationAssumption DEF Dsa!Init, Dsa!TypeOK
<1> QED
  BY <1>1, IterationAssumption DEF Dsa!Init, DsaInv, LastPassed, Dsa!TypeOK, Dsa!BufferOnce

\* Every step of mldsa_benchmark keeps its invariant.
LEMMA DsaStep == ASSUME DsaInv, Dsa!Next PROVE DsaInv'
<1> USE IterationAssumption DEF DsaInv, LastPassed, Dsa!TypeOK, Dsa!BufferOnce
<1>1. CASE Dsa!EndLoop
  <2>1. Dsa!TypeOK'
    BY <1>1 DEF Dsa!EndLoop
  <2>2. Dsa!BufferOnce'
    BY <1>1 DEF Dsa!EndLoop
  <2>3. (LastPassed <=> ITERATIONS - 1 \in passed)'
    BY <1>1 DEF Dsa!EndLoop
  <2> QED
    BY <2>1, <2>2, <2>3, <1>1 DEF Dsa!EndLoop
<1>2. CASE Dsa!MakeKey
  BY <1>2 DEF Dsa!MakeKey, Dsa!Returns
<1>3. CASE Dsa!Malloc
  BY <1>3 DEF Dsa!Malloc
<1>4. CASE Dsa!Sign
  BY <1>4 DEF Dsa!Sign, Dsa!Returns
<1>5. CASE Dsa!Verify
  BY <1>5 DEF Dsa!Verify
<1>6. CASE Dsa!Report
  <2>1. iter' = iter + 1 /\ iter \in 0 .. ITERATIONS - 1
    BY <1>6 DEF Dsa!Report
  <2>2. passed' = IF LastPassed THEN passed \cup {iter} ELSE passed
    BY <1>6 DEF Dsa!Report
  <2>3. passed' \subseteq 0 .. iter' - 1 /\ (LastPassed <=> iter' - 1 \in passed')
    BY <2>1, <2>2
  <2>4. failed' \subseteq 0 .. ITERATIONS - 1 /\ passed' \subseteq 0 .. ITERATIONS - 1
    BY <1>6, <2>1 DEF Dsa!Report
  <2> QED
    BY <1>6, <2>1, <2>3, <2>4 DEF Dsa!Report
<1>7. CASE Dsa!Cleanup
  BY <1>7 DEF Dsa!Cleanup
<1> QED
  BY <1>1, <1>2, <1>3, <1>4, <1>5, <1>6, <1>7 DEF Dsa!Next

-----------------------------------------------------------------------------
(* aes_benchmark: the contexts, and what a match says.                     *)

AesInv ==
  /\ Aes!TypeOK /\ Aes!KeptAtEnd
  /\ at = "start" => ~rng /\ failed = {} /\ contexts = 0
  /\ at # "start" => (rng <=> "wc_InitRng" \notin failed)
  /\ at # "exit" => status = "running" /\ "wc_AesGcmSetKey" \notin failed
  /\ at \in {"setKey", "encrypt", "decrypt", "verify"} => contexts = 1 /\ iter < ITERATIONS
  /\ opened \subseteq 0 .. iter /\ matched \subseteq 0 .. iter - 1
  /\ \A n \in opened : n < iter => n \in matched
  /\ \A n \in matched : \E m \in opened : m <= n
  /\ decrypted = "plain" => opened # {}
  /\ iter \in opened => at = "verify" /\ decrypted = "plain"

\* The invariant of aes_benchmark holds when it starts.
LEMMA AesInitially == ASSUME Aes!Init PROVE AesInv
<1>1. rng \in BOOLEAN /\ ~rng
  BY DEF Aes!Init
<1> QED
  BY <1>1, IterationAssumption DEF Aes!Init, AesInv, Aes!TypeOK, Aes!KeptAtEnd

\* Every step of aes_benchmark keeps its invariant.
LEMMA AesStep == ASSUME AesInv, Aes!Next PROVE AesInv'
<1> USE IterationAssumption DEF AesInv, Aes!TypeOK, Aes!KeptAtEnd
<1>0. CASE Aes!InitRng
  <2>1. /\ at = "start" /\ at' \in {"loop", "exit"} /\ contexts = 0 /\ failed = {}
        /\ UNCHANGED <<iter, contexts, cipher, decrypted, opened, matched>>
        /\ at' = "loop" => status' = "running"
        /\ at' = "exit" => status' = "fault"
    BY <1>0 DEF Aes!InitRng
  <2>2. rng' \in BOOLEAN
    BY <1>0, Zenon DEF Aes!InitRng, AesInv, Aes!TypeOK
  <2>3. CASE rng' = TRUE /\ at' = "loop" /\ UNCHANGED <<failed, status>>
    BY <2>1, <2>2, <2>3
  <2>4. CASE rng' = rng /\ failed' = {"wc_InitRng"}
    BY <2>1, <2>2, <2>4
  <2> QED
    BY <1>0, <2>3, <2>4 DEF Aes!InitRng
<1>1. CASE Aes!EndLoop
  BY <1>1 DEF Aes!EndLoop
<1>2. CASE Aes!AesInit
  <2>1. /\ at = "loop" /\ iter < ITERATIONS /\ contexts = 0 /\ rng' = rng
        /\ UNCHANGED <<iter, cipher, decrypted, opened, matched>>
    BY <1>2 DEF Aes!AesInit
  <2>2. CASE contexts' = contexts + 1 /\ at' = "setKey" /\ UNCHANGED <<failed, status>>
    BY <2>1, <2>2
  <2>3. CASE /\ contexts' = contexts /\ failed' = failed \cup {"wc_AesInit"}
             /\ at' = "exit" /\ status' = "-1"
    BY <2>1, <2>3
  <2> QED
    BY <1>2, <2>2, <2>3 DEF Aes!AesInit
<1>3. CASE Aes!SetKey
  <2>1. /\ at = "setKey" /\ contexts = 1 /\ rng' = rng
        /\ UNCHANGED <<iter, contexts, cipher, decrypted, opened, matched>>
    BY <1>3 DEF Aes!SetKey
  <2>2. CASE at' = "encrypt" /\ UNCHANGED <<failed, status>>
    BY <2>1, <2>2
  <2>3. CASE /\ failed' = failed \cup {"wc_AesGcmSetKey"}
             /\ at' = "exit" /\ status' = "-1"
    BY <2>1, <2>3
  <2> QED
    BY <1>3, <2>2, <2>3 DEF Aes!SetKey
<1>4. CASE Aes!Encrypt
  BY <1>4 DEF Aes!Encrypt
<1>5. CASE Aes!Decrypt
  <2>1. /\ at = "decrypt" /\ at' = "verify" /\ iter \notin opened
        /\ UNCHANGED <<iter, rng, failed, contexts, cipher, matched, status>>
    BY <1>5 DEF Aes!Decrypt
  <2>2. CASE decrypted' = "plain" /\ opened' = opened \cup {iter}
    <3>1. opened' \subseteq 0 .. iter /\ opened' \subseteq 0 .. ITERATIONS - 1
      BY <2>1, <2>2
    <3>2. /\ \A n \in opened' : n < iter => n \in matched
          /\ \A n \in matched : \E m \in opened' : m <= n
          /\ opened' # {}
      BY <2>1, <2>2
    <3> QED
      BY <2>1, <2>2, <3>1, <3>2
  <2>3. CASE decrypted' \in {decrypted, "garbage"} /\ UNCHANGED opened
    BY <2>1, <2>3
  <2> QED
    BY <1>5, <2>2, <2>3 DEF Aes!Decrypt
<1>6. CASE Aes!Verify
  <2>1. /\ iter \in Nat /\ iter < ITERATIONS /\ iter' = iter + 1
        /\ UNCHANGED <<rng, failed, cipher, decrypted, opened, status>>
        /\ contexts' = 0 /\ at' = "loop" /\ at = "verify" /\ status # "0"
        /\ matched' = IF decrypted = "plain" THEN matched \cup {iter} ELSE matched
    BY <1>6 DEF Aes!Verify
  <2>2. matched' \subseteq 0 .. iter' - 1 /\ matched' \subseteq 0 .. ITERATIONS - 1
    BY <2>1
  <2>3. \A n \in opened' : n < iter' => n \in matched'
    BY <2>1
  <2>4. \A n \in matched' : \E m \in opened' : m <= n
    <3>1. ASSUME decrypted = "plain" PROVE \E m \in opened : m <= iter
      <4>1. PICK m \in opened : TRUE
        BY <3>1
      <4>2. m <= iter
        BY <2>1
      <4> QED
        BY <4>2
    <3> QED
      BY <2>1, <3>1
  <2>5. opened' \subseteq 0 .. iter' /\ iter' \notin opened'
    BY <2>1
  <2> QED
    BY <2>1, <2>2, <2>3, <2>4, <2>5
<1> QED
  BY <1>0, <1>1, <1>2, <1>3, <1>4, <1>5, <1>6 DEF Aes!Next

-----------------------------------------------------------------------------
(* mlkem: what exists at each call of the exchange, and what ret says.     *)

KemInv ==
  /\ Kem!TypeOK /\ Kem!ExchangeIsReady
  /\ at \in {"InitRng", "InitAlice", "MakeKey", "Sizes", "Allocate",
             "EncodeAlice", "InitBob", "DecodeAlice", "Encapsulate",
             "Decapsulate", "Compare", "cleanup", "exit"}
  /\ at \in {"Sizes", "Allocate"} => AliceKey = "key"
  /\ at = "InitRng" => rng = "raw"
  /\ at \notin {"InitRng", "exit"} => rng = "live"
  /\ Kem!NothingLeft
  /\ at \notin {"cleanup", "exit"} => rc = "0"
  /\ at \notin {"Compare", "cleanup", "exit"} => secret.alice = "none"
  /\ at \notin {"Decapsulate", "Compare", "cleanup", "exit"} => secret.bob = "none"
  /\ at \in {"Decapsulate", "Compare"} => secret.bob = "s"
  /\ at \in {"cleanup", "exit"} =>
       (rc = "0" <=> secret.alice # "none" /\ secret.alice = secret.bob)
  /\ at = "exit" => status = IF rc = "0" THEN "0" ELSE "1"

\* The invariant of mlkem holds when it starts.
LEMMA KemInitially == ASSUME Kem!Init PROVE KemInv
BY DEF Kem!Init, KemInv, Kem!TypeOK, Kem!ExchangeIsReady, Kem!NothingLeft,
     Kem!KeyStates, Kem!Results, Kem!Buffers

\* Every step of mlkem keeps its invariant.
LEMMA KemStep == ASSUME KemInv, Kem!Next PROVE KemInv'
<1> USE DEF KemInv, Kem!TypeOK, Kem!ExchangeIsReady, Kem!NothingLeft,
            Kem!KeyStates, Kem!Results
<1>1. CASE Kem!InitRng
  BY <1>1 DEF Kem!InitRng
<1>2. CASE Kem!InitAlice \/ Kem!MakeKey \/ Kem!Sizes \/ Kem!EncodeAlice
           \/ Kem!InitBob \/ Kem!DecodeAlice
  BY <1>2 DEF Kem!InitAlice, Kem!MakeKey, Kem!Sizes, Kem!EncodeAlice, Kem!InitBob,
       Kem!DecodeAlice, Kem!KeyCall, Kem!Returns
<1>3. CASE Kem!Allocate
  BY <1>3 DEF Kem!Allocate, Kem!Returns
<1>4. CASE Kem!Encapsulate
  BY <1>4 DEF Kem!Encapsulate, Kem!Returns
<1>5. CASE Kem!Decapsulate
  BY <1>5 DEF Kem!Decapsulate, Kem!Returns
<1>6. CASE Kem!Compare
  BY <1>6 DEF Kem!Compare
<1>7. CASE Kem!Cleanup
  BY <1>7 DEF Kem!Cleanup
<1> QED
  BY <1>1, <1>2, <1>3, <1>4, <1>5, <1>6, <1>7 DEF Kem!Next

-----------------------------------------------------------------------------
(* mlkem_benchmark: what the buffers can hold at each call.  What was made *)
(* before the present iteration is within -iter .. iter.                   *)

Older == -iter .. iter

BenchInv ==
  /\ Bench!TypeOK /\ Bench!NothingKept
  /\ at \in {"loop", "makeKey", "malloc", "encode", "encapsulate",
             "decapsulate", "compare", "free", "exit"}
  /\ at \in {"makeKey", "malloc", "encode", "encapsulate", "decapsulate",
             "compare", "free"} => iter < ITERATIONS
  /\ \A n \in sealed \cap opened : n < iter => (n \in matched <=> n \in keyed)
  /\ \A n \in matched : n \in sealed <=> n \in opened
  \* the iterations that have got a key, sealed, opened and matched
  /\ keyed \subseteq 0 .. iter
  /\ iter \in keyed => at \notin {"loop", "makeKey", "malloc", "encode"}
  /\ at = "encapsulate" => (BobKey = "key" <=> iter \in keyed)
  /\ at \in {"makeKey", "malloc", "encode"} => BobKey = "init"
  /\ sealed \subseteq 0 .. iter /\ opened \subseteq 0 .. iter /\ matched \subseteq 0 .. iter
  /\ iter \in sealed => at \in {"decapsulate", "compare", "free", "exit"}
  /\ iter \in opened => at \in {"compare", "free", "exit"}
  /\ iter \in matched => at \in {"free", "exit"}
  /\ at = "free" /\ iter \in sealed \cap opened => (iter \in matched <=> iter \in keyed)
  \* the contents
  /\ at \in {"loop", "makeKey", "malloc", "encode", "encapsulate"} =>
       ciphertext \in Older /\ ss_alice \in Older /\ ss_bob \in Older
  /\ at \in {"decapsulate", "compare"} =>
       IF iter \in sealed
       THEN /\ ciphertext = IF iter \in keyed THEN iter + 1 ELSE -(iter + 1)
            /\ ss_bob = iter + 1
       ELSE ciphertext \in Older /\ ss_bob \in Older
  /\ at = "decapsulate" => ss_alice \in Older
  /\ at = "compare" =>
       IF iter \in opened
       THEN ss_alice = IF iter \in sealed \cap keyed THEN iter + 1 ELSE -(iter + 1)
       ELSE ss_alice \in Older
  /\ at = "free" => /\ ciphertext \in -(iter + 1) .. iter + 1
                    /\ ss_alice \in -(iter + 1) .. iter + 1
                    /\ ss_bob \in -(iter + 1) .. iter + 1

\* The invariant of mlkem_benchmark holds when it starts.
LEMMA BenchInitially == ASSUME Bench!Init PROVE BenchInv
<1>1. rng \in BOOLEAN
  BY DEF Bench!Init
<1> QED
  BY <1>1, IterationAssumption DEF Bench!Init, BenchInv, Bench!TypeOK, Bench!NothingKept,
   Bench!Contents, Older

\* Every step of mlkem_benchmark keeps its invariant.
LEMMA BenchStep == ASSUME BenchInv, Bench!Next PROVE BenchInv'
<1> USE IterationAssumption DEF BenchInv, Bench!TypeOK, Bench!NothingKept,
        Bench!Contents, Older, Bench!keyVars, Bench!memVars, Bench!histVars
<1>1. CASE Bench!EndLoop
  BY <1>1 DEF Bench!EndLoop
<1>2. CASE Bench!InitAll
  <2>1. rng' \in BOOLEAN
    BY <1>2 DEF Bench!InitAll
  <2> QED
    BY <1>2, <2>1 DEF Bench!InitAll
<1>3. CASE Bench!MakeKey
  BY <1>3 DEF Bench!MakeKey
<1>4. CASE Bench!Malloc
  BY <1>4 DEF Bench!Malloc
<1>5. CASE Bench!EncodeDecode
  <2>1. /\ at = "encode" /\ at' = "encapsulate" /\ iter \in Nat /\ iter < ITERATIONS
        /\ UNCHANGED <<iter, rng, AliceKey, live, ciphertext, ss_alice, ss_bob,
                      sealed, opened, matched, status>>
    BY <1>5 DEF Bench!EncodeDecode
  <2>2. CASE BobKey' = BobKey /\ UNCHANGED keyed
    BY <2>1, <2>2
  <2>3. CASE /\ AliceKey = "key" /\ BobKey' = "key" /\ keyed' = keyed \cup {iter}
    <3>1. keyed' \subseteq 0 .. iter /\ keyed' \subseteq 0 .. ITERATIONS - 1
      BY <2>1, <2>3
    <3>2. \A n \in sealed \cap opened : n < iter => (n \in matched <=> n \in keyed')
      BY <2>1, <2>3
    <3> QED
      BY <2>1, <2>3, <3>1, <3>2
  <2>4. CASE BobKey' = "stale" /\ UNCHANGED keyed
    BY <2>1, <2>4
  <2> QED
    BY <1>5, <2>2, <2>3, <2>4 DEF Bench!EncodeDecode
<1>6. CASE Bench!Encapsulate
  BY <1>6 DEF Bench!Encapsulate, Bench!NewCiphertext
<1>7. CASE Bench!Decapsulate
  <2>1. /\ at = "decapsulate" /\ at' = "compare" /\ iter \in Nat /\ iter < ITERATIONS
        /\ UNCHANGED <<iter, rng, AliceKey, BobKey, live, ciphertext, ss_bob, keyed,
                      sealed, matched, status>>
    BY <1>7 DEF Bench!Decapsulate
  <2>2. CASE UNCHANGED <<ss_alice, opened>>
    BY <2>1, <2>2
  <2>3. CASE /\ ss_alice' = IF ciphertext = iter + 1 THEN ciphertext ELSE -(iter + 1)
             /\ opened' = opened \cup {iter}
    <3>1. ss_alice' = IF iter \in sealed \cap keyed THEN iter + 1 ELSE -(iter + 1)
      BY <2>1, <2>3
    <3>2. ss_alice' \in -ITERATIONS .. ITERATIONS
      BY <2>1, <3>1
    <3>3. opened' \subseteq 0 .. iter /\ opened' \subseteq 0 .. ITERATIONS - 1
      BY <2>1, <2>3
    <3>4. /\ \A n \in sealed \cap opened' : n < iter => (n \in matched <=> n \in keyed)
          /\ \A n \in matched : n \in sealed <=> n \in opened'
      BY <2>1, <2>3
    <3> QED
      BY <2>1, <2>3, <3>1, <3>2, <3>3, <3>4
  <2> QED
    BY <1>7, <2>2, <2>3 DEF Bench!Decapsulate
<1>8. CASE Bench!Compare
  BY <1>8 DEF Bench!Compare
<1>9. CASE Bench!Free
  <2>1. /\ at = "free" /\ at' = "loop" /\ iter \in Nat /\ iter < ITERATIONS
        /\ iter' = iter + 1 /\ live' = {} /\ rng' = FALSE
        /\ AliceKey' = "freed" /\ BobKey' = "freed"
        /\ UNCHANGED <<ciphertext, ss_alice, ss_bob, keyed, sealed, opened, matched,
                      status>>
    BY <1>9 DEF Bench!Free
  <2>2. /\ keyed' \subseteq 0 .. iter' /\ iter' \notin keyed'
        /\ sealed' \subseteq 0 .. iter' /\ iter' \notin sealed'
        /\ opened' \subseteq 0 .. iter' /\ iter' \notin opened'
        /\ matched' \subseteq 0 .. iter' /\ iter' \notin matched'
    BY <2>1
  <2>3. \A n \in sealed' \cap opened' : n < iter' => (n \in matched' <=> n \in keyed')
    BY <2>1
  <2>4. ciphertext' \in -iter' .. iter' /\ ss_alice' \in -iter' .. iter' /\ ss_bob' \in -iter' .. iter'
    BY <2>1
  <2>5. rng' \in BOOLEAN
    BY <2>1
  <2> QED
    BY <2>1, <2>2, <2>3, <2>4, <2>5
<1> QED
  BY <1>1, <1>2, <1>3, <1>4, <1>5, <1>6, <1>7, <1>8, <1>9 DEF Bench!Next

-----------------------------------------------------------------------------
(* The programs together: the board runs one of them.                      *)

ProgramInv ==
  /\ program = "bench_main" => RsaInv
  /\ program = "mldsa_benchmark" => DsaInv
  /\ program = "aes_benchmark" => AesInv
  /\ program = "mlkem" => KemInv
  /\ program = "mlkem_benchmark" => BenchInv

\* The program that runs starts in its invariant.
LEMMA ProgramsInitially == ASSUME Init PROVE ProgramInv
BY RsaInitially, DsaInitially, AesInitially, KemInitially, BenchInitially
   DEF Init, ProgramInv

\* A step of nothing keeps the invariants.
LEMMA ProgramsUnchanged == ASSUME ProgramInv, UNCHANGED vars PROVE ProgramInv'
<1> USE DEF vars, sigVars, rsaVars, dsaVars, aesVars, checkVars, keyVars, kemVars,
            heapVars
<1>1. RsaInv => RsaInv'
  BY DEF RsaInv, Rsa!TypeOK, Rsa!OneBuffer
<1>2. DsaInv => DsaInv'
  BY DEF DsaInv, LastPassed, Dsa!TypeOK, Dsa!BufferOnce
<1>3. AesInv => AesInv'
  BY DEF AesInv, Aes!TypeOK, Aes!KeptAtEnd
<1>4. KemInv => KemInv'
  BY DEF KemInv, Kem!TypeOK, Kem!ExchangeIsReady, Kem!NothingLeft
<1>5. BenchInv => BenchInv'
  BY DEF BenchInv, Bench!TypeOK, Bench!NothingKept, Older
<1> QED
  BY <1>1, <1>2, <1>3, <1>4, <1>5 DEF ProgramInv

\* A step keeps the invariant of the program that runs.
LEMMA ProgramsStep == ASSUME ProgramInv, [Next]_vars PROVE ProgramInv'
BY RsaStep, DsaStep, AesStep, KemStep, BenchStep, ProgramsUnchanged
   DEF Next, ProgramInv

\* What the invariants of the programs say of the properties of the board.
LEMMA ProgramPromises ==
  ASSUME ProgramInv
  PROVE  KeptByPrograms /\ StatusIsOutcome /\ MatchesAreBacked /\ ExchangeIsReady
<1>1. KeptByPrograms
  BY DEF ProgramInv, RsaInv, DsaInv, AesInv, KemInv, BenchInv, KeptByPrograms
<1>2. StatusIsOutcome
  BY DEF ProgramInv, RsaInv, DsaInv, LastPassed, KemInv, StatusIsOutcome,
       Rsa!StatusIsLastVerdict, Dsa!StatusIsLastVerdict, Kem!StatusIsAgreement,
       Rsa!TypeOK, Dsa!TypeOK, Kem!TypeOK
<1>3. MatchesAreBacked
  BY DEF ProgramInv, AesInv, BenchInv, MatchesAreBacked, Aes!MatchHasOpening,
       Bench!SuccessMatches, Bench!OneSideNeverMatches
<1>4. ExchangeIsReady
  BY DEF ProgramInv, KemInv, ExchangeIsReady
<1> QED
  BY <1>1, <1>2, <1>3, <1>4
=============================================================================
