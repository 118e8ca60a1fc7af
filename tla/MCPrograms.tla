------------------------------ MODULE MCPrograms ------------------------------
(* Model-checking instance of the programs that only compute: the board    *)
(* holds one of them, runs it from reset to its end, and each call it      *)
(* makes may fail.  Variables a program does not have are "unused".        *)
EXTENDS Integers

CONSTANT ITERATIONS

ASSUME IterationAssumption == ITERATIONS \in Nat \ {0}

VARIABLES
  program,
  at, status, iter, rc,
  sig, blocks, passed,             \* the signature benchmarks
  signed, errors,                  \* bench_main
  verify_res,                      \* mldsa_benchmark
  failed,                          \* mldsa_benchmark, aes_benchmark
  contexts, cipher, decrypted,     \* aes_benchmark
  opened, matched,                 \* aes_benchmark, mlkem_benchmark
  rng,                             \* aes_benchmark, the ML-KEM programs
  AliceKey, BobKey,                \* the ML-KEM programs
  buf, secret,                     \* mlkem
  live, ciphertext, ss_alice, ss_bob, keyed, sealed   \* mlkem_benchmark

sigVars   == <<sig, blocks, passed>>
rsaVars   == <<signed, errors>>
dsaVars   == <<verify_res, failed>>
aesVars   == <<contexts, cipher, decrypted>>
checkVars == <<opened, matched>>
keyVars   == <<AliceKey, BobKey>>
kemVars   == <<buf, secret>>
heapVars  == <<live, ciphertext, ss_alice, ss_bob, keyed, sealed>>
vars      == <<program, at, status, iter, rc, sigVars, rsaVars, dsaVars,
               aesVars, checkVars, rng, keyVars, kemVars, heapVars>>

Rsa   == INSTANCE RsaPssBench WITH NUM_ITER <- ITERATIONS
Dsa   == INSTANCE MlDsaBench WITH REPEAT_COUNT <- ITERATIONS
Aes   == INSTANCE AesGcmBench
Kem   == INSTANCE MlKem WITH ret <- rc, Bobkey <- BobKey
Bench == INSTANCE MlKemBench

Off == "unused"

SigOff   == sig = Off /\ blocks = Off /\ passed = Off
RsaOff   == signed = Off /\ errors = Off
DsaOff   == verify_res = Off /\ failed = Off
RngOff   == rng = Off
AesOff   == contexts = Off /\ cipher = Off /\ decrypted = Off
CheckOff == opened = Off /\ matched = Off
KeyOff   == AliceKey = Off /\ BobKey = Off
KemOff   == buf = Off /\ secret = Off
HeapOff  == /\ live = Off /\ ciphertext = Off /\ ss_alice = Off /\ ss_bob = Off
            /\ keyed = Off /\ sealed = Off

Init ==
  \/ /\ program = "bench_main" /\ Rsa!Init
     /\ DsaOff /\ AesOff /\ CheckOff /\ RngOff /\ KeyOff /\ KemOff /\ HeapOff
  \/ /\ program = "mldsa_benchmark" /\ Dsa!Init
     /\ RsaOff /\ AesOff /\ CheckOff /\ RngOff /\ KeyOff /\ KemOff /\ HeapOff
  \/ /\ program = "aes_benchmark" /\ Aes!Init /\ rc = Off
     /\ SigOff /\ RsaOff /\ verify_res = Off /\ KeyOff /\ KemOff /\ HeapOff
  \/ /\ program = "mlkem" /\ Kem!Init /\ iter = Off
     /\ SigOff /\ RsaOff /\ DsaOff /\ AesOff /\ CheckOff /\ HeapOff
  \/ /\ program = "mlkem_benchmark" /\ Bench!Init /\ rc = Off
     /\ SigOff /\ RsaOff /\ DsaOff /\ AesOff /\ KemOff

Next ==
  \/ /\ program = "bench_main" /\ Rsa!Next
     /\ UNCHANGED <<program, dsaVars, aesVars, checkVars, rng, keyVars, kemVars, heapVars>>
  \/ /\ program = "mldsa_benchmark" /\ Dsa!Next
     /\ UNCHANGED <<program, rsaVars, aesVars, checkVars, rng, keyVars, kemVars, heapVars>>
  \/ /\ program = "aes_benchmark" /\ Aes!Next
     /\ UNCHANGED <<program, rc, sigVars, rsaVars, verify_res, keyVars, kemVars, heapVars>>
  \/ /\ program = "mlkem" /\ Kem!Next
     /\ UNCHANGED <<program, iter, sigVars, rsaVars, dsaVars, aesVars, checkVars, heapVars>>
  \/ /\ program = "mlkem_benchmark" /\ Bench!Next
     /\ UNCHANGED <<program, rc, sigVars, rsaVars, dsaVars, aesVars, kemVars>>

Spec == Init /\ [][Next]_vars

-----------------------------------------------------------------------------
(* The programs' properties, each of the program it belongs to.            *)

\* The variables of the running program have their types.
ProgramTypeOK ==
  CASE program = "bench_main"      -> Rsa!TypeOK
    [] program = "mldsa_benchmark" -> Dsa!TypeOK
    [] program = "aes_benchmark"   -> Aes!TypeOK
    [] program = "mlkem"           -> Kem!TypeOK
    [] program = "mlkem_benchmark" -> Bench!TypeOK

\* What is released, once, on the way of every early return and goto, and what
\* is not: bench_main and mldsa_benchmark release their signature buffer, mlkem
\* its keys, generator and buffers, mlkem_benchmark the generator and the four
\* buffers of each iteration; aes_benchmark keeps its generator, and its
\* context when the key was refused.
KeptByPrograms ==
  CASE program = "bench_main"      -> Rsa!OneBuffer
    [] program = "mldsa_benchmark" -> Dsa!BufferOnce
    [] program = "aes_benchmark"   -> Aes!KeptAtEnd
    [] program = "mlkem"           -> Kem!NothingLeft
    [] program = "mlkem_benchmark" -> Bench!NothingKept
    [] OTHER                       -> TRUE

\* What the exit status says of the run: bench_main's is 0 when no call failed
\* and the last verdict was FAILED, mldsa_benchmark's when the last iteration
\* was reached and passed, mlkem's when both sides hold one secret; and neither
\* in any other case.
StatusIsOutcome ==
  CASE program = "bench_main"      -> Rsa!StatusIsLastVerdict
    [] program = "mldsa_benchmark" -> Dsa!StatusIsLastVerdict
    [] program = "mlkem"           -> Kem!StatusIsAgreement
    [] OTHER                       -> TRUE

\* What a benchmark's "match" says, with results nobody tested and buffers that
\* outlive the iteration: aes_benchmark's that this or an earlier decryption
\* succeeded; mlkem_benchmark's, if either side got a secret in the iteration,
\* that both did and with Alice's key.  Calls that succeeded on this
\* iteration's key print a match.
MatchesAreBacked ==
  CASE program = "aes_benchmark"   -> Aes!MatchHasOpening
    [] program = "mlkem_benchmark" -> Bench!SuccessMatches /\ Bench!OneSideNeverMatches
    [] OTHER                       -> TRUE

\* bench_main: a run whose every iteration printed PASSED should return 0.
PassedRunReturnsZero == program = "bench_main" => Rsa!PassedRunReturnsZero

\* mlkem never uses a missing key or a NULL buffer.
ExchangeIsReady == program = "mlkem" => Kem!ExchangeIsReady

\* mlkem: "Free keys" should free keys.
FreesKeys == program = "mlkem" => Kem!FreesKeys

\* mlkem_benchmark: "Check correctness" should be of this exchange.
MatchIsAgreement == program = "mlkem_benchmark" => Bench!MatchIsAgreement
=============================================================================
