------------------------------ MODULE BoardProofs ------------------------------
(***************************************************************************)
(* The board runs one program at a time: the invariants of the programs,   *)
(* put together, and what the board promises by them.                      *)
(***************************************************************************)
EXTENDS ProgramProofs, BoardPartProofs

\* The programs of MCPrograms, and the straight-line ones.
Computing == {"bench_main", "mldsa_benchmark", "aes_benchmark", "mlkem", "mlkem_benchmark"}
Straight  == {"rsa", "rsaKeydis_benchmark", "blink", "ecc", "test_main"}
Others    == {"timing", "stackheap", "wifi_main", "host"}

BoardInv ==
  /\ program \in Computing \cup Straight \cup Others
  /\ ProgramInv
  /\ IsChain => ChainInv
  /\ program = "timing" => TimeInv
  /\ program = "stackheap" => RamInv
  /\ program = "wifi_main" => WlanInv
  /\ program = "host" => HostInv

\* The programs that are lists of calls.
LEMMA ChainIsStraight == IsChain <=> program \in Straight
BY ChainLists DEF IsChain, Straight

\* The board starts in its invariant, whichever program it holds.
LEMMA BoardInitially == ASSUME BoardInit PROVE BoardInv
<1>1. CASE Init
  <2>1. program \in Computing
    BY <1>1 DEF Init, Computing
  <2> QED
    BY <1>1, <2>1, ProgramsInitially, ChainIsStraight DEF BoardInv, Computing, Straight
<1>2. CASE Chain!Init
  <2>1. IsChain
    BY <1>2 DEF Chain!Init, IsChain
  <2>2. program \in Straight
    BY <2>1, ChainIsStraight
  <2> QED
    BY <1>2, <2>1, <2>2, ChainInitially DEF BoardInv, ProgramInv, Straight
<1>3. ASSUME program \in Others PROVE ProgramInv /\ ~IsChain
  BY <1>3, ChainIsStraight DEF ProgramInv, Straight, Others
<1>4. CASE program = "timing" /\ Time!Init
  BY <1>3, <1>4, TimeInitially DEF BoardInv, Others
<1>5. CASE program = "stackheap" /\ Ram!Init
  BY <1>3, <1>5, RamInitially DEF BoardInv, Others
<1>6. CASE program = "wifi_main" /\ Wlan!Init
  BY <1>3, <1>6, WlanInitially DEF BoardInv, Others
<1>7. CASE program = "host" /\ Host!Init
  BY <1>3, <1>7, HostInitially DEF BoardInv, Others
<1> QED
  BY <1>1, <1>2, <1>4, <1>5, <1>6, <1>7 DEF BoardInit

\* The program stays the program, and each step is one of its steps.
LEMMA BoardSteps ==
  ASSUME [BoardNext]_boardVars
  PROVE  /\ program' = program
         /\ program \in Computing => [Next]_vars
         /\ IsChain =>
              Chain!Next \/ UNCHANGED <<program, at, made, failed, decryptedLen, printed, status>>
         /\ program = "timing" => Time!Next \/ UNCHANGED timeVars
         /\ program = "stackheap" => Ram!Next \/ UNCHANGED ramVars
         /\ program = "wifi_main" => Wlan!Next \/ UNCHANGED <<at, wlanVars>>
         /\ program = "host" => Host!Next \/ UNCHANGED hostVars
<1>1. CASE Next
  <2>1. program' = program /\ program \in Computing
    BY <1>1 DEF Next, Computing
  <2> QED
    BY <1>1, <2>1, ChainIsStraight DEF Computing, Straight
<1>2. CASE program \in DOMAIN Chain!Chain /\ Chain!Next
  <2>1. program' = program
    BY <1>2 DEF Chain!Next, Chain!NextCall, Chain!Finish
  <2>2. program \in Straight
    BY <1>2, ChainIsStraight DEF IsChain
  <2> QED
    BY <1>2, <2>1, <2>2 DEF Computing, Straight
<1>3. CASE /\ UNCHANGED <<program, status, failed, restVars, chainVars>>
           /\ \/ program = "timing" /\ Time!Next
              \/ program = "stackheap" /\ Ram!Next
              \/ program = "wifi_main" /\ Wlan!Next
              \/ program = "host" /\ Host!Next
  <2>1. program \notin Straight /\ program \notin Computing
    BY <1>3 DEF Straight, Computing
  <2> QED
    BY <1>3, <2>1, ChainIsStraight
<1>4. CASE UNCHANGED boardVars
  BY <1>4 DEF boardVars, vars, chainVars, dsaVars
<1> QED
  BY <1>1, <1>2, <1>3, <1>4 DEF BoardNext

\* A step of the board keeps the invariant.
LEMMA BoardStep == ASSUME BoardInv, [BoardNext]_boardVars PROVE BoardInv'
<1>1. program' = program /\ (IsChain' <=> IsChain)
  BY BoardSteps DEF IsChain
<1>2. ProgramInv'
  <2>1. CASE program \in Computing
    BY <2>1, BoardSteps, ProgramsStep DEF BoardInv
  <2>2. CASE program \notin Computing
    BY <2>2, <1>1 DEF ProgramInv, Computing
  <2> QED
    BY <2>1, <2>2
<1>3. ASSUME IsChain PROVE ChainInv'
  BY <1>3, BoardSteps, ChainStep, ChainUnchanged DEF BoardInv
<1>4. ASSUME program = "timing" PROVE TimeInv'
  BY <1>4, BoardSteps, TimeStep, TimeUnchanged DEF BoardInv
<1>5. ASSUME program = "stackheap" PROVE RamInv'
  BY <1>5, BoardSteps, RamStep, RamUnchanged DEF BoardInv
<1>6. ASSUME program = "wifi_main" PROVE WlanInv'
  BY <1>6, BoardSteps, WlanStep, WlanUnchanged DEF BoardInv
<1>7. ASSUME program = "host" PROVE HostInv'
  BY <1>7, BoardSteps, HostStep, HostUnchanged DEF BoardInv
<1> QED
  BY <1>1, <1>2, <1>3, <1>4, <1>5, <1>6, <1>7 DEF BoardInv

\* The invariant holds throughout.
LEMMA BoardInvariant == BoardSpec => []BoardInv
<1>1. BoardInv /\ [BoardNext]_boardVars => BoardInv'
  BY BoardStep
<1> QED
  BY BoardInitially, <1>1, PTL DEF BoardSpec

-----------------------------------------------------------------------------
(* What the invariant says.                                                *)

\* The variables of the running program have their types, whatever the
\* program.
THEOREM BoardTypes == BoardSpec => []BoardTypeOK
<1>1. ASSUME BoardInv PROVE BoardTypeOK
  <2> USE <1>1 DEF BoardInv
  <2>1. CASE IsChain
    <3>1. program \in Straight
      BY <2>1, ChainIsStraight
    <3> QED
      BY <2>1, <3>1 DEF BoardTypeOK, ChainInv, Straight
  <2>2. CASE program \in Others
    <3>1. ~IsChain
      BY <2>2, ChainIsStraight DEF Others, Straight
    <3> QED
      BY <2>2, <3>1 DEF BoardTypeOK, Others, TimeInv, RamInv, WlanInv, HostInv
  <2>3. CASE program \in Computing
    <3>1. ~IsChain
      BY <2>3, ChainIsStraight DEF Computing, Straight
    <3>2. ProgramTypeOK
      BY <2>3 DEF Computing, ProgramInv, ProgramTypeOK, RsaInv, DsaInv, AesInv, KemInv,
           BenchInv
    <3> QED
      BY <2>3, <3>1, <3>2 DEF BoardTypeOK, Computing
  <2> QED
    BY <2>1, <2>2, <2>3, ChainIsStraight
<1> QED
  BY <1>1, BoardInvariant, PTL

\* What each program still holds when it ends.  aes_benchmark keeps its context when its key was
\* refused and its generator always, rsa and rsaKeydis_benchmark every struct
\* whose initialisation did not fail, stackheap its RSA key; bench_main,
\* mldsa_benchmark, mlkem, mlkem_benchmark, blink and ecc none of the blocks
\* and structs modelled.
THEOREM WhatIsKept == BoardSpec => []KeptAtEnd
<1>1. ASSUME BoardInv PROVE KeptAtEnd
  <2>1. KeptByPrograms
    BY <1>1, ProgramPromises DEF BoardInv
  <2>2. IsChain => Chain!KeptAtEnd
    BY <1>1 DEF BoardInv, ChainInv
  <2> QED
    BY <1>1, <2>1, <2>2, RamPromises DEF BoardInv, KeptAtEnd
<1> QED
  BY <1>1, BoardInvariant, PTL

\* What the exit status says, for every number of iterations: bench_main's 0
\* that no call failed and the last verdict was FAILED, mldsa_benchmark's 0
\* that the last iteration passed, mlkem's 0 that the secrets agree.
THEOREM StatusSaysWhat == BoardSpec => []StatusIsOutcome
<1>1. ASSUME BoardInv PROVE StatusIsOutcome
  BY <1>1, ProgramPromises DEF BoardInv
<1> QED
  BY <1>1, BoardInvariant, PTL

\* What a program prints of its outcome is true: rsa's SUCCESS is a full
\* round trip; aes_benchmark's match has this or an earlier decryption behind
\* it; mlkem_benchmark's has both calls and Alice's key, or neither call.
THEOREM PrintsAreTrue == BoardSpec => []ReportIsTrue
<1>1. ASSUME BoardInv PROVE ReportIsTrue
  <2>1. MatchesAreBacked
    BY <1>1, ProgramPromises DEF BoardInv
  <2>2. IsChain => Chain!SuccessIsRoundTrip
    BY <1>1 DEF BoardInv, ChainInv, Chain!SuccessIsRoundTrip
  <2> QED
    BY <2>1, <2>2 DEF ReportIsTrue
<1> QED
  BY <1>1, BoardInvariant, PTL

\* mlkem's exchange never uses a missing key or a NULL buffer.
THEOREM ExchangeIsSound == BoardSpec => []ExchangeIsReady
<1>1. ASSUME BoardInv PROVE ExchangeIsReady
  BY <1>1, ProgramPromises DEF BoardInv
<1> QED
  BY <1>1, BoardInvariant, PTL

\* A straight-line program uses or frees a raw struct only after the call
\* that should have initialised it failed.
THEOREM FaultsAreExplained == BoardSpec => []FaultNeedsFailedInit
<1>1. ASSUME BoardInv PROVE FaultNeedsFailedInit
  BY <1>1 DEF BoardInv, ChainInv, FaultNeedsFailedInit
<1> QED
  BY <1>1, BoardInvariant, PTL

\* blink's times are off by whole turns of the low register, at most one for
\* each torn read, whatever the width of the register.
THEOREM TimesAreOffByTurns == BoardSpec => []OffByTurns
<1>1. ASSUME BoardInv PROVE OffByTurns
  BY <1>1, TimePromises DEF BoardInv, OffByTurns
<1> QED
  BY <1>1, BoardInvariant, PTL

\* stackheap's heap and stack stay within what is asked of them, for every
\* image the linker accepts, every key and every depth of stack frames.
THEOREM HeapAndStackAreBounded == BoardSpec => []HeapAndStackBounded
<1>1. ASSUME BoardInv PROVE HeapAndStackBounded
  BY <1>1, RamPromises DEF BoardInv, HeapAndStackBounded
<1> QED
  BY <1>1, BoardInvariant, PTL

\* wifi_main ends with the chip and the link down, joined or not, for every
\* number of attempts.
THEOREM WifiMainShutsDown == BoardSpec => []ChipDownAtExit
<1>1. ASSUME BoardInv PROVE ChipDownAtExit
  BY <1>1 DEF BoardInv, WlanInv, ChipDownAtExit, Wlan!ChipDownAtExit
<1> QED
  BY <1>1, BoardInvariant, PTL

\* host has a key when neither read timed out and only then, for every
\* length of the ciphertext.
THEOREM KeyIsNeverGuessed == BoardSpec => []KeyNeedsBothReads
<1>1. ASSUME BoardInv PROVE KeyNeedsBothReads
  BY <1>1 DEF BoardInv, HostInv, KeyNeedsBothReads
<1> QED
  BY <1>1, BoardInvariant, PTL
=============================================================================
