---------------------------- MODULE BoardPartProofs ----------------------------
(***************************************************************************)
(* What the straight-line programs, wifi_main, stackheap, blink's timing   *)
(* and the script on the PC keep, each of them step by step, for every     *)
(* layout of the memory, every width of the timer's registers and every    *)
(* length of a ciphertext.                                                 *)
(***************************************************************************)
EXTENDS MCBoard, SequenceTheorems, FiniteSetTheorems, WellFoundedInduction, TLAPS

-----------------------------------------------------------------------------
(* The straight-line programs: what each call finds.                       *)

Initialisers == {"wc_InitRng", "wc_InitRsaKey", "wc_ecc_init"}

Calls == Chain!Chain[program]

\* While the program runs, the structs it has come past are initialised,
\* unless the call that initialises one of them failed.
StructsAreReady ==
  \/ failed \cap Initialisers # {}
  \/ \A n \in 1 .. at - 1 : Calls[n].name \in Initialisers => Calls[n].makes \subseteq made

Structs == {"key", "rng", "eccPriv", "eccPeer"}

\* The programs that free nothing, and where they initialise what they keep.
Keeps    == program \in {"rsa", "rsaKeydis_benchmark"}
KeyPlace == IF program = "rsa" THEN 1 ELSE 2
RngPlace == IF program = "rsa" THEN 2 ELSE 1

\* What a program holds of its structs at each call: those it keeps from their
\* initialisation on, if that did not fail; and never one it does not free.
StructsHeld ==
  /\ Keeps /\ status # "fault" =>
       /\ "wc_InitRsaKey" \in failed => at > KeyPlace
       /\ "wc_InitRng" \in failed => at > RngPlace
       /\ "key" \in made <=> at > KeyPlace /\ "wc_InitRsaKey" \notin failed
       /\ "rng" \in made <=> at > RngPlace /\ "wc_InitRng" \notin failed
  /\ program \in {"blink", "ecc"} => made \cap Structs \subseteq Chain!Frees[program]

ChainInv ==
  /\ Chain!TypeOK /\ Chain!FaultNeedsFailedInit /\ StructsHeld /\ Chain!KeptAtEnd
  /\ status = "running" => StructsAreReady /\ printed = "nothing"
  /\ program = "rsa" =>
       /\ "plain" \in made =>
            decryptedLen = 1 /\ at = 8 /\ {"private", "ciphertext"} \subseteq made
       /\ "ciphertext" \in made => "public" \in made
       /\ Chain!SuccessIsRoundTrip

\* The list of calls, spelt out.
LEMMA ChainLists ==
  /\ Chain!Chain["rsa"] = Chain!Rsa
  /\ Chain!Chain["rsaKeydis_benchmark"] = Chain!RsaKeydis
  /\ Chain!Chain["blink"] = Chain!Blink
  /\ Chain!Chain["ecc"] = Chain!Ecc
  /\ Chain!Chain["test_main"] = Chain!TestMain
  /\ DOMAIN Chain!Chain = {"rsa", "rsaKeydis_benchmark", "blink", "ecc", "test_main"}
BY DEF Chain!Chain

\* Every call uses structs that earlier calls initialise, and what is freed
\* at the end was initialised by the calls.
LEMMA StructsComeFirst ==
  ASSUME IsChain
  PROVE  /\ Len(Calls) \in 1 .. 7
         /\ \A n \in 1 .. Len(Calls) : \A s \in Calls[n].uses :
              \E m \in 1 .. n - 1 : Calls[m].name \in Initialisers /\ s \in Calls[m].makes
         /\ \A s \in Chain!Frees[program] :
              \E m \in 1 .. Len(Calls) : Calls[m].name \in Initialisers /\ s \in Calls[m].makes
<1> USE DEF Initialisers, Calls, Chain!Call, Chain!InitRng, Chain!InitRsaKey,
            Chain!MakeRsaKey, Chain!Encrypt, Chain!Decrypt, Chain!Frees
<1>1. CASE program = "rsa"
  BY <1>1, ChainLists DEF Chain!Rsa
<1>2. CASE program = "rsaKeydis_benchmark"
  BY <1>2, ChainLists DEF Chain!RsaKeydis
<1>3. CASE program = "blink"
  BY <1>3, ChainLists DEF Chain!Blink
<1>4. CASE program = "ecc"
  BY <1>4, ChainLists DEF Chain!Ecc
<1>5. CASE program = "test_main"
  BY <1>5, ChainLists DEF Chain!TestMain
<1> QED
  BY <1>1, <1>2, <1>3, <1>4, <1>5, ChainLists DEF IsChain

\* The invariant of a straight-line program holds when it starts.
LEMMA ChainInitially == ASSUME Chain!Init PROVE ChainInv
<1>1. IsChain
  BY DEF Chain!Init, IsChain
<1>2. StructsAreReady
  BY DEF Chain!Init, StructsAreReady
<1>3. Chain!TypeOK
  BY <1>1, StructsComeFirst DEF Chain!Init, Chain!TypeOK, Calls
<1>4. StructsHeld /\ Chain!KeptAtEnd
  BY DEF Chain!Init, StructsHeld, KeyPlace, RngPlace, Chain!KeptAtEnd
<1> QED
  BY <1>2, <1>3, <1>4 DEF Chain!Init, ChainInv, Chain!FaultNeedsFailedInit,
   Chain!SuccessIsRoundTrip

\* A fault has a failed initialisation before it.
LEMMA RawStructsExplained ==
  ASSUME IsChain, StructsAreReady, NEW n \in 1 .. Len(Calls), n = at,
         ~ (Calls[n].uses \subseteq made)
  PROVE  failed \cap Initialisers # {}
<1>1. PICK s \in Calls[n].uses : s \notin made
  OBVIOUS
<1>2. PICK m \in 1 .. n - 1 : Calls[m].name \in Initialisers /\ s \in Calls[m].makes
  BY <1>1, StructsComeFirst
<1> QED
  BY <1>1, <1>2 DEF StructsAreReady

\* rsa's decryption is its last call, and the only one that makes "plain".
LEMMA RsaCalls ==
  ASSUME program = "rsa", NEW n \in 1 .. Len(Calls)
  PROVE  /\ Len(Calls) = 7
         /\ Calls[n] = Chain!Decrypt <=> n = 7
         /\ "plain" \in Calls[n].makes <=> n = 7
         /\ n = 7 => {"private", "ciphertext"} \subseteq Calls[n].needs
         /\ "ciphertext" \in Calls[n].makes => "public" \in Calls[n].needs
<1> USE DEF Calls, Chain!Call, Chain!InitRng, Chain!InitRsaKey,
            Chain!MakeRsaKey, Chain!Encrypt, Chain!Decrypt
<1>1. Len(Calls) = 7
  BY ChainLists DEF Chain!Rsa
<1>2. n \in {1, 2, 3, 4, 5, 6, 7}
  BY <1>1
<1> HIDE DEF Calls
<1>3. /\ Calls[1] = Chain!InitRsaKey /\ Calls[2] = Chain!InitRng
      /\ Calls[3] = Chain!Call("wc_RsaSetRNG", {"key", "rng"}, {}, {})
      /\ Calls[4] = Chain!MakeRsaKey
      /\ Calls[5] = Chain!Call("wc_RsaKeyToPublicDer", {"key"}, {"public"}, {"der"})
      /\ Calls[6] = Chain!Encrypt /\ Calls[7] = Chain!Decrypt
  BY ChainLists DEF Calls, Chain!Rsa
<1>4. ASSUME n # 7
      PROVE  /\ Calls[n].name # "wc_RsaPrivateDecrypt" /\ "plain" \notin Calls[n].makes
             /\ "ciphertext" \in Calls[n].makes => "public" \in Calls[n].needs
  <2>1. CASE n = 1
    BY <2>1, <1>3
  <2>2. CASE n = 2
    BY <2>2, <1>3
  <2>3. CASE n = 3
    BY <2>3, <1>3
  <2>4. CASE n = 4
    BY <2>4, <1>3
  <2>5. CASE n = 5
    BY <2>5, <1>3
  <2>6. CASE n = 6
    BY <2>6, <1>3
  <2> QED
    BY <1>2, <1>4, <2>1, <2>2, <2>3, <2>4, <2>5, <2>6
<1>5. /\ Calls[7].name = "wc_RsaPrivateDecrypt" /\ "plain" \in Calls[7].makes
      /\ {"private", "ciphertext"} \subseteq Calls[7].needs
      /\ "ciphertext" \notin Calls[7].makes
  BY <1>3
<1> QED
  BY <1>1, <1>3, <1>4, <1>5

\* In rsa and rsaKeydis_benchmark one call, and no other, initialises the key,
\* and one the generator.
LEMMA KeeperCalls ==
  ASSUME Keeps, NEW n \in 1 .. Len(Calls)
  PROVE  /\ Len(Calls) >= 2
         /\ Calls[n].name = "wc_InitRsaKey" <=> n = KeyPlace
         /\ "key" \in Calls[n].makes <=> n = KeyPlace
         /\ Calls[n].name = "wc_InitRng" <=> n = RngPlace
         /\ "rng" \in Calls[n].makes <=> n = RngPlace
<1> USE DEF Calls, Keeps, KeyPlace, RngPlace, Chain!Call, Chain!InitRng,
            Chain!InitRsaKey, Chain!MakeRsaKey, Chain!Encrypt, Chain!Decrypt
<1>1. CASE program = "rsa"
  <2>1. Calls = Chain!Rsa
    BY <1>1, ChainLists
  <2>2. n \in {1, 2, 3, 4, 5, 6, 7} /\ Len(Calls) >= 2
    BY <2>1 DEF Chain!Rsa
  <2>3. /\ Calls[1].name = "wc_InitRsaKey" /\ Calls[1].makes = {"key"}
        /\ Calls[2].name = "wc_InitRng" /\ Calls[2].makes = {"rng"}
    BY <2>1 DEF Chain!Rsa
  <2>4. \A m \in {3, 4, 5, 6, 7} :
          /\ Calls[m].name \notin {"wc_InitRsaKey", "wc_InitRng"}
          /\ Calls[m].makes \cap {"key", "rng"} = {}
    BY <2>1 DEF Chain!Rsa
  <2> HIDE DEF Calls
  <2> QED
    BY <1>1, <2>2, <2>3, <2>4
<1>2. CASE program = "rsaKeydis_benchmark"
  <2>1. Calls = Chain!RsaKeydis
    BY <1>2, ChainLists
  <2>2. n \in {1, 2, 3, 4, 5, 6} /\ Len(Calls) >= 2
    BY <2>1 DEF Chain!RsaKeydis
  <2>3. /\ Calls[2].name = "wc_InitRsaKey" /\ Calls[2].makes = {"key"}
        /\ Calls[1].name = "wc_InitRng" /\ Calls[1].makes = {"rng"}
    BY <2>1 DEF Chain!RsaKeydis
  <2>4. \A m \in {3, 4, 5, 6} :
          /\ Calls[m].name \notin {"wc_InitRsaKey", "wc_InitRng"}
          /\ Calls[m].makes \cap {"key", "rng"} = {}
    BY <2>1 DEF Chain!RsaKeydis
  <2> HIDE DEF Calls
  <2> QED
    BY <1>2, <2>2, <2>3, <2>4
<1> QED
  BY <1>1, <1>2

\* blink and ecc free every struct their calls initialise.
LEMMA FreedStructs ==
  ASSUME program \in {"blink", "ecc"}, NEW n \in 1 .. Len(Calls)
  PROVE  Calls[n].makes \cap Structs \subseteq Chain!Frees[program]
<1> USE DEF Calls, Structs, Chain!Frees, Chain!Call, Chain!InitRng, Chain!InitRsaKey,
            Chain!Encrypt, Chain!Decrypt
<1>1. CASE program = "blink"
  BY <1>1, ChainLists DEF Chain!Blink
<1>2. CASE program = "ecc"
  BY <1>2, ChainLists DEF Chain!Ecc
<1> QED
  BY <1>1, <1>2

\* Every step of a straight-line program keeps its invariant.
LEMMA ChainStep == ASSUME IsChain, ChainInv, Chain!Next PROVE ChainInv'
<1> DEFINE Broken == failed \cap Initialisers # {}
<1>a. Len(Calls) \in 1 .. 7 /\ at \in 1 .. Len(Calls) + 1
  BY StructsComeFirst DEF ChainInv, Chain!TypeOK, Calls
<1>1. CASE Chain!NextCall
  <2>1. /\ status = "running" /\ at \in 1 .. Len(Calls) /\ at' = at + 1
        /\ program' = program /\ printed' = printed /\ Calls' = Calls
    BY <1>1, <1>a DEF Chain!NextCall, Calls
  <2> DEFINE call == Calls[at]
  <2>2. PICK r \in Chain!Outcomes(call) :
          /\ made' = IF r = "ok" THEN made \cup call.makes ELSE made
          /\ failed' = IF r = "error" THEN failed \cup {call.name} ELSE failed
          /\ decryptedLen' = IF call = Chain!Decrypt THEN Chain!Word(r) ELSE decryptedLen
          /\ status' = IF r = "fault" THEN "fault" ELSE status
    BY <1>1 DEF Chain!NextCall, Calls
  <2>3. r = "fault" => ~ (call.uses \subseteq made)
    BY <2>2 DEF Chain!Outcomes
  <2>4. r = "ok" => call.needs \subseteq made
    BY <2>2 DEF Chain!Outcomes
  <2>5. StructsAreReady
    BY <2>1 DEF ChainInv
  <2>6. r = "fault" => Broken
    <3> SUFFICES ASSUME r = "fault" PROVE Broken
      OBVIOUS
    <3> HIDE DEF Calls
    <3> QED
      BY <2>1, <2>3, <2>5, RawStructsExplained
  <2>7. Chain!FaultNeedsFailedInit'
    BY <2>1, <2>2, <2>6 DEF Chain!FaultNeedsFailedInit, Initialisers
  <2>8. StructsAreReady'
    <3>1. CASE Broken
      BY <3>1, <2>2 DEF StructsAreReady
    <3>2. CASE ~Broken /\ r = "error" /\ call.name \in Initialisers
      BY <3>2, <2>2 DEF StructsAreReady
    <3>3. CASE ~Broken /\ ~(r = "error" /\ call.name \in Initialisers)
      <4>1. r = "ok" \/ call.name \notin Initialisers
        BY <3>3, <2>6, <2>2 DEF Chain!Outcomes
      <4>2. \A n \in 1 .. at - 1 :
               Calls[n].name \in Initialisers => Calls[n].makes \subseteq made'
        BY <3>3, <2>2, <2>5 DEF StructsAreReady
      <4>3. call.name \in Initialisers => call.makes \subseteq made'
        BY <4>1, <2>2
      <4>4. \A n \in 1 .. at' - 1 : n \in 1 .. at - 1 \/ n = at
        BY <2>1
      <4> HIDE DEF Calls
      <4> QED
        BY <4>2, <4>3, <4>4, <2>1 DEF StructsAreReady
    <3> QED
      BY <3>1, <3>2, <3>3
  <2>9. Chain!TypeOK'
    <3>1. at' \in 1 .. Len(Calls) + 1
      BY <2>1, <1>a
    <3>2. decryptedLen' \in {0, 1, WORD - 1}
      BY <2>2 DEF Chain!Word, ChainInv, Chain!TypeOK
    <3>3. status' \in {"running", "fault"}
      BY <2>1, <2>2
    <3> QED
      BY <3>1, <3>2, <3>3, <2>1 DEF ChainInv, Chain!TypeOK, Calls
  <2>10. ASSUME program = "rsa"
         PROVE  /\ "plain" \in made' =>
                     decryptedLen' = 1 /\ at' = 8 /\ {"private", "ciphertext"} \subseteq made'
                /\ "ciphertext" \in made' => "public" \in made'
    <3> HIDE DEF Calls
    <3>1. /\ Len(Calls) = 7
          /\ call = Chain!Decrypt <=> at = 7
          /\ "plain" \in call.makes <=> at = 7
          /\ at = 7 => {"private", "ciphertext"} \subseteq call.needs
          /\ "ciphertext" \in call.makes => "public" \in call.needs
      BY <2>10, <2>1, RsaCalls
    <3>2. "plain" \notin made
      BY <2>10, <2>1, <3>1 DEF ChainInv
    <3>3. "ciphertext" \in made => "public" \in made
      BY <2>10 DEF ChainInv
    <3>4. CASE r = "ok"
      BY <3>4, <3>1, <3>2, <3>3, <2>1, <2>2, <2>4 DEF Chain!Word
    <3>5. CASE r # "ok"
      BY <3>5, <3>2, <3>3, <2>2
    <3> QED
      BY <3>4, <3>5
  <2>11. StructsHeld' /\ Chain!KeptAtEnd'
    <3> HIDE DEF Calls
    <3>1. ASSUME Keeps, status' # "fault"
          PROVE  /\ "wc_InitRsaKey" \in failed' => at' > KeyPlace
                 /\ "wc_InitRng" \in failed' => at' > RngPlace
                 /\ "key" \in made' <=> at' > KeyPlace /\ "wc_InitRsaKey" \notin failed'
                 /\ "rng" \in made' <=> at' > RngPlace /\ "wc_InitRng" \notin failed'
      <4>1. /\ call.name = "wc_InitRsaKey" <=> at = KeyPlace
            /\ "key" \in call.makes <=> at = KeyPlace
            /\ call.name = "wc_InitRng" <=> at = RngPlace
            /\ "rng" \in call.makes <=> at = RngPlace
        BY <3>1, <2>1, KeeperCalls
      <4>2. /\ "wc_InitRsaKey" \in failed => at > KeyPlace
            /\ "wc_InitRng" \in failed => at > RngPlace
            /\ "key" \in made <=> at > KeyPlace /\ "wc_InitRsaKey" \notin failed
            /\ "rng" \in made <=> at > RngPlace /\ "wc_InitRng" \notin failed
        BY <3>1, <2>1 DEF ChainInv, StructsHeld
      <4>3. KeyPlace \in {1, 2} /\ RngPlace \in {1, 2} /\ at \in Nat /\ at' = at + 1
        BY <2>1, <1>a DEF KeyPlace, RngPlace
      <4>4. r \in {"ok", "error"}
        BY <3>1, <2>2 DEF Chain!Outcomes
      <4> HIDE DEF call
      <4>5. CASE r = "ok"
        <5>1. failed' = failed /\ made' = made \cup call.makes
          BY <4>5, <2>2
        <5> QED
          BY <5>1, <4>1, <4>2, <4>3
      <4>6. CASE r = "error"
        <5>1. failed' = failed \cup {call.name} /\ made' = made
          BY <4>6, <2>2
        <5> QED
          BY <5>1, <4>1, <4>2, <4>3
      <4> QED
        BY <4>4, <4>5, <4>6
    <3>2. ASSUME program \in {"blink", "ecc"}
          PROVE  made' \cap Structs \subseteq Chain!Frees[program]
      <4>1. call.makes \cap Structs \subseteq Chain!Frees[program]
        BY <3>2, <2>1, FreedStructs
      <4>2. made \cap Structs \subseteq Chain!Frees[program]
        BY <3>2 DEF ChainInv, StructsHeld
      <4> HIDE DEF call
      <4> QED
        BY <4>1, <4>2, <2>2
    <3>3. status' \in {"running", "fault"}
      BY <2>1, <2>2
    <3>4. Keeps' = Keeps /\ KeyPlace' = KeyPlace /\ RngPlace' = RngPlace
      BY <2>1 DEF Keeps, KeyPlace, RngPlace
    <3>5. StructsHeld'
      BY <3>1, <3>2, <3>4, <2>1 DEF StructsHeld
    <3> QED
      BY <3>3, <3>5 DEF Chain!KeptAtEnd
  <2>12. Chain!SuccessIsRoundTrip' \/ program # "rsa"
    BY <2>1 DEF ChainInv, Chain!SuccessIsRoundTrip
  <2> HIDE DEF Calls
  <2> QED
    BY <2>1, <2>7, <2>8, <2>9, <2>10, <2>11, <2>12 DEF ChainInv
<1>2. CASE Chain!Finish
  <2> HIDE DEF Calls
  <2>1. /\ status = "running" /\ at = Len(Calls) + 1 /\ printed' = Chain!Prints
        /\ made' = made \ Chain!Frees[program]
        /\ UNCHANGED <<program, at, failed, decryptedLen>> /\ Calls' = Calls
    BY <1>2 DEF Chain!Finish, Calls
  <2>2. /\ status' \in {"0", "1", "fault"}
        /\ status' = "fault" => ~ (Chain!Frees[program] \subseteq made)
    BY <1>2 DEF Chain!Finish
  <2>3. Chain!FaultNeedsFailedInit'
    <3> SUFFICES ASSUME status' = "fault" PROVE Broken
      BY <2>1 DEF Chain!FaultNeedsFailedInit, Initialisers
    <3>1. PICK s \in Chain!Frees[program] : s \notin made
      BY <2>2
    <3>2. PICK m \in 1 .. Len(Calls) : Calls[m].name \in Initialisers /\ s \in Calls[m].makes
      BY <3>1, StructsComeFirst
    <3> QED
      BY <2>1, <3>1, <3>2 DEF ChainInv, StructsAreReady
  <2>4. Chain!TypeOK'
    BY <2>1, <2>2 DEF ChainInv, Chain!TypeOK, Chain!Prints, Chain!RsaPrints, Calls
  <2>5. ASSUME program = "rsa"
        PROVE  /\ "plain" \in made' =>
                    decryptedLen' = 1 /\ at' = 8 /\ {"private", "ciphertext"} \subseteq made'
               /\ "ciphertext" \in made' => "public" \in made'
               /\ Chain!SuccessIsRoundTrip'
    <3>1. made' = made
      BY <2>5, <2>1 DEF Chain!Frees
    <3>2. printed' = Chain!RsaPrints
      BY <2>5, <2>1 DEF Chain!Prints
    <3> QED
      BY <2>5, <2>1, <3>1, <3>2 DEF ChainInv, Chain!RsaPrints, Chain!SuccessIsRoundTrip
  <2>6. StructsHeld'
    <3>1. ASSUME Keeps PROVE made' = made
      BY <3>1, <2>1 DEF Keeps, Chain!Frees
    <3>2. Keeps' = Keeps /\ KeyPlace' = KeyPlace /\ RngPlace' = RngPlace
      BY <2>1 DEF Keeps, KeyPlace, RngPlace
    <3>3. Keeps => /\ "wc_InitRsaKey" \in failed => at > KeyPlace
                   /\ "wc_InitRng" \in failed => at > RngPlace
                   /\ "key" \in made <=> at > KeyPlace /\ "wc_InitRsaKey" \notin failed
                   /\ "rng" \in made <=> at > RngPlace /\ "wc_InitRng" \notin failed
      BY <2>1 DEF ChainInv, StructsHeld
    <3>4. program \in {"blink", "ecc"} => made' \cap Structs \subseteq Chain!Frees[program]
      BY <2>1 DEF ChainInv, StructsHeld
    <3> QED
      BY <3>1, <3>2, <3>3, <3>4, <2>1 DEF StructsHeld
  <2>7. Chain!KeptAtEnd'
    <3>1. program \in {"blink", "ecc"} => made' \cap Structs = {}
      BY <2>1 DEF ChainInv, StructsHeld
    <3>2. ASSUME Keeps, status' # "fault" PROVE at' > KeyPlace /\ at' > RngPlace
      <4>1. Len(Calls) >= 2 /\ KeyPlace \in {1, 2} /\ RngPlace \in {1, 2}
        BY <3>2, <1>a, KeeperCalls DEF KeyPlace, RngPlace
      <4> QED
        BY <4>1, <2>1, <1>a
    <3>3. Keeps' = Keeps /\ KeyPlace' = KeyPlace /\ RngPlace' = RngPlace
      BY <2>1 DEF Keeps, KeyPlace, RngPlace
    <3> QED
      BY <3>1, <3>2, <3>3, <2>1, <2>6 DEF StructsHeld, Structs, Keeps, Chain!KeptAtEnd
  <2> QED
    BY <2>1, <2>2, <2>3, <2>4, <2>5, <2>6, <2>7 DEF ChainInv
<1> QED
  BY <1>1, <1>2 DEF Chain!Next

\* A step of nothing keeps the invariant.
LEMMA ChainUnchanged ==
  ASSUME ChainInv, UNCHANGED <<program, at, made, failed, decryptedLen, printed, status>>
  PROVE  ChainInv'
BY DEF ChainInv, Chain!TypeOK, Chain!FaultNeedsFailedInit, Chain!SuccessIsRoundTrip,
     Chain!KeptAtEnd, StructsAreReady, StructsHeld, Keeps, KeyPlace, RngPlace, Calls

-----------------------------------------------------------------------------
(* wifi_main: the join is bounded, and the chip is taken down.             *)

WlanInv ==
  /\ Wlan!TypeOK
  /\ wifi = "sleep" => retry < MAX_RETRY
  /\ at = "exit" => ~arch /\ ~link

\* The invariant of wifi_main holds when it starts.
LEMMA WlanInitially == ASSUME Wlan!Init PROVE WlanInv
<1>1. arch \in BOOLEAN
  BY DEF Wlan!Init, Wlan!MainInit
<1> QED
  BY <1>1, RetryAssumption DEF Wlan!Init, Wlan!MainInit, Wlan!WifiInit, WlanInv, Wlan!TypeOK

\* Every step of wifi_main keeps its invariant.
LEMMA WlanStep == ASSUME WlanInv, Wlan!Next PROVE WlanInv'
<1> USE RetryAssumption DEF WlanInv, Wlan!TypeOK, Wlan!wifiVars
<1>1. CASE Wlan!Boot
  <2>1. arch' \in BOOLEAN
    BY <1>1 DEF Wlan!Boot
  <2> QED
    BY <1>1, <2>1 DEF Wlan!Boot
<1>2. CASE Wlan!Join
  <2>1. at = "wifi" /\ Wlan!WifiStep /\ UNCHANGED <<at, arch, lock>>
    BY <1>2 DEF Wlan!Join
  <2> QED
    BY <2>1 DEF Wlan!WifiStep, Wlan!WifiConnect, Wlan!JoinSucceeds, Wlan!JoinFails,
         Wlan!SleepEnds, Wlan!GiveUp
<1>3. CASE Wlan!JoinReturned
  BY <1>3 DEF Wlan!JoinReturned
<1>4. CASE Wlan!ArchDeinit
  <2>1. arch' \in BOOLEAN /\ ~arch' /\ ~link'
    BY <1>4 DEF Wlan!ArchDeinit
  <2> QED
    BY <1>4, <2>1 DEF Wlan!ArchDeinit
<1> QED
  BY <1>1, <1>2, <1>3, <1>4 DEF Wlan!Next

\* A step of nothing keeps the invariant.
LEMMA WlanUnchanged == ASSUME WlanInv, UNCHANGED <<at, wlanVars>> PROVE WlanInv'
BY DEF WlanInv, Wlan!TypeOK, wlanVars

-----------------------------------------------------------------------------
(* stackheap: how far the heap and the stack can come.                     *)

\* The least-number principle, for a set.
LEMMA LeastExists == ASSUME NEW T \in SUBSET Nat, T # {} PROVE \E m \in T : \A n \in T : m <= n
<1> DEFINE R == OpToRel(<, Nat)
<1>1. IsWellFoundedOn(R, Nat)
  BY NatLessThanWellFounded
<1>2. \E x \in T : \A y \in T : ~(<<y, x>> \in R)
  <2> HIDE DEF R
  <2> QED BY <1>1, WFMin
<1>3. PICK x \in T : \A y \in T : ~(<<y, x>> \in R)
  BY <1>2
<1>4. ASSUME NEW y \in T, y < x PROVE FALSE
  <2>1. <<y, x>> \in R
    BY <1>4 DEF OpToRel
  <2> QED BY <2>1, <1>3
<1> HIDE DEF R
<1> QED BY <1>3, <1>4

\* The greatest element of a bounded set.
LEMMA GreatestExists ==
  ASSUME NEW S \in SUBSET Nat, S # {}, NEW b \in Nat, \A x \in S : x <= b
  PROVE  \E x \in S : \A y \in S : x >= y
<1> DEFINE T == {u \in Nat : \A x \in S : x <= u}
<1>1. PICK u \in T : \A n \in T : u <= n
  BY LeastExists
<1>2. u \in S
  <2> SUFFICES ASSUME u \notin S PROVE FALSE
    OBVIOUS
  <2>1. \A x \in S : x <= u - 1
    OBVIOUS
  <2>2. u > 0
    <3>1. PICK x \in S : TRUE
      OBVIOUS
    <3> QED
      BY <3>1
  <2>3. u - 1 \in T
    BY <2>1, <2>2
  <2> QED
    BY <1>1, <2>3
<1> QED
  BY <1>1, <1>2

\* The largest demand on the heap is one of them, and none is larger.
LEMMA DemandBounds ==
  /\ Ram!LargestDemand \in Nat /\ Ram!LargestDemand >= 65536
  /\ \A k \in KeySizes : k + 16 <= Ram!LargestDemand
<1> DEFINE S == {65536} \cup {k + 16 : k \in KeySizes}
<1>1. S \in SUBSET Nat /\ S # {}
  BY LayoutAssumption
<1>2. \E x \in S : \A y \in S : x >= y
  <2> DEFINE b == 65536 + RAM + 16
  <2>1. b \in Nat /\ \A x \in S : x <= b
    BY LayoutAssumption
  <2> HIDE DEF S, b
  <2> QED
    BY <1>1, <2>1, GreatestExists
<1>3. Ram!LargestDemand = CHOOSE x \in S : \A y \in S : x >= y
  BY DEF Ram!LargestDemand, Ram!Max, Ram!Sizes
<1>4. Ram!LargestDemand \in S /\ \A y \in S : Ram!LargestDemand >= y
  <2> HIDE DEF S
  <2> QED
    BY <1>2, <1>3
<1> QED
  BY <1>1, <1>4

\* The new top of the heap, without the maximum.
LEMMA GrownTop ==
  ASSUME NEW n \in Nat, top \in Nat, image + block + key \in Nat
  PROVE  Ram!Grown(n) = IF top >= image + block + key + n THEN top
                                                         ELSE image + block + key + n
<1> DEFINE e == image + block + key + n
<1>1. e \in Nat
  OBVIOUS
<1>2. Ram!Grown(n) = CHOOSE x \in {top, e} : \A y \in {top, e} : x >= y
  BY DEF Ram!Grown, Ram!Max
<1> HIDE DEF e
<1>3. PICK m \in {top, e} : \A y \in {top, e} : m >= y
  BY <1>1
<1>4. \A m1, m2 \in {top, e} : 
         (\A y \in {top, e} : m1 >= y) /\ (\A y \in {top, e} : m2 >= y) => m1 = m2
  BY <1>1
<1>5. (CHOOSE x \in {top, e} : \A y \in {top, e} : x >= y) = m
  BY <1>3, <1>4
<1>6. m = IF top >= e THEN top ELSE e
  BY <1>1, <1>3
<1> QED
  BY <1>2, <1>5, <1>6 DEF e

\* What main() and the calls under it have taken of the stack.
StackInUse == (depth * FRAME) + IF step = "rsaEnds" THEN RSA_STACK ELSE 0

\* The heap ends at the image or below the limit, no higher than was asked for.
TopBounded ==
  /\ top \in Nat /\ image <= top /\ top <= image + Ram!LargestDemand
  /\ top = image \/ top <= limit

RamInv ==
  /\ Ram!TypeOK /\ Ram!Links(image)
  /\ step # "stress" => block = 0
  /\ block > 0 => i <= Len(Ram!Sizes)
  /\ step \in {"check", "stress", "rsa"} => key = 0
  /\ key \in {0} \cup KeySizes
  /\ TopBounded
  /\ step = "recurse" => depth < Ram!MAX_DEPTH
  /\ step = "unwind" => depth > 0
  /\ step \notin {"recurse", "unwind"} => depth = 0
  /\ sp = Ram!StackTop - Ram!MainFrame - StackInUse

\* The invariant of stackheap holds when it starts.
LEMMA RamInitially == ASSUME Ram!Init PROVE RamInv
<1>1. image \in Images /\ image \in Nat /\ Ram!Links(image)
  BY LayoutAssumption DEF Ram!Init
<1>2. Ram!TypeOK
  BY <1>1 DEF Ram!Init, Ram!TypeOK, Ram!Steps, Ram!Sizes, Ram!MAX_DEPTH
<1>3. StackInUse = 0
  BY LayoutAssumption DEF Ram!Init, StackInUse
<1>4. sp = Ram!StackTop - Ram!MainFrame - StackInUse
  BY <1>3, LayoutAssumption DEF Ram!Init, Ram!StackTop, Ram!MainFrame
<1>5. TopBounded
  BY <1>1, DemandBounds DEF Ram!Init, TopBounded
<1> QED
  BY <1>1, <1>2, <1>4, <1>5 DEF Ram!Init, RamInv

\* The heap grows by no more than the largest demand, and only below the limit.
LEMMA TopStaysLow ==
  ASSUME TopBounded, image \in Nat, limit \in Int, NEW n \in Nat, block \in Nat, key \in Nat,
         block + key + n <= Ram!LargestDemand, Ram!Fits(n) \/ block + key + n = 0
  PROVE  /\ Ram!Grown(n) \in Nat /\ image <= Ram!Grown(n)
         /\ Ram!Grown(n) <= image + Ram!LargestDemand
         /\ Ram!Grown(n) = image \/ Ram!Grown(n) <= limit
<1>1. top \in Nat /\ image + block + key \in Nat
  BY DEF TopBounded
<1>2. Ram!Grown(n) = IF top >= image + block + key + n THEN top
                                                       ELSE image + block + key + n
  BY <1>1, GrownTop
<1> QED
  BY <1>1, <1>2, DemandBounds DEF TopBounded, Ram!Fits

\* Every step of stackheap keeps its invariant.
LEMMA RamStep == ASSUME RamInv, Ram!Next PROVE RamInv'
<1> USE LayoutAssumption DEF Ram!MAX_DEPTH, Ram!Steps, Ram!StackTop, Ram!MainFrame
<1>1. /\ image \in Nat /\ block \in Nat /\ key \in Nat /\ RAM \in Nat /\ FRAME \in Nat
      /\ RSA_STACK \in Nat /\ depth \in 0 .. 5 /\ Ram!LargestDemand \in Nat
      /\ key + 16 <= Ram!LargestDemand /\ TopBounded /\ limit \in Int
  BY DemandBounds DEF RamInv, Ram!TypeOK, Ram!Sizes, Ram!HeapLimit, Ram!StackLimit
<1>2. ASSUME NEW from \in {"check", "recheck"}, NEW to \in {"stress", "idle"},
             from = "check" <=> to = "stress", Ram!CheckHeap(from, to)
      PROVE  RamInv'
  <2>1. /\ step = from /\ step' \in {to, "panic"}
        /\ UNCHANGED <<image, limit, i, block, key, depth, sp>>
    BY <1>2 DEF Ram!CheckHeap
  <2>2. top' = top \/ (Ram!Fits(16) /\ top' = Ram!Grown(16))
    BY <1>2 DEF Ram!CheckHeap
  <2>3. block = 0
    BY <2>1 DEF RamInv
  <2>4. TopBounded'
    <3>1. CASE top' = top
      BY <3>1, <2>1, <1>1 DEF TopBounded, Ram!LargestDemand
    <3>2. CASE Ram!Fits(16) /\ top' = Ram!Grown(16)
      BY <3>2, <2>1, <2>3, <1>1, TopStaysLow DEF TopBounded, Ram!LargestDemand
    <3> QED
      BY <2>2, <3>1, <3>2
  <2>5. StackInUse' = StackInUse
    BY <2>1 DEF StackInUse
  <2>6. Ram!TypeOK'
    BY <2>1 DEF RamInv, Ram!TypeOK
  <2> QED
    BY <2>1, <2>3, <2>4, <2>5, <2>6, <1>2 DEF RamInv, Ram!Links
<1>3. CASE Ram!StressAlloc
  <2>1. /\ step = "stress" /\ block = 0 /\ i \in 1 .. 7 /\ Ram!Sizes[i] \in Nat
        /\ Ram!Sizes[i] <= 65536
        /\ UNCHANGED <<image, limit, i, key, depth, sp>>
    BY <1>3 DEF Ram!StressAlloc, RamInv, Ram!TypeOK, Ram!Sizes
  <2>2. \/ /\ block' = Ram!Sizes[i] /\ top' = Ram!Grown(Ram!Sizes[i]) /\ step' = step
           /\ Ram!Fits(Ram!Sizes[i])
        \/ UNCHANGED <<block, top>> /\ step' \in {"rsa", "panic"}
    BY <1>3 DEF Ram!StressAlloc
  <2>3. key = 0
    BY <2>1 DEF RamInv
  <2>4. TopBounded'
    <3>1. CASE top' = top
      BY <3>1, <2>1, <1>1 DEF TopBounded, Ram!LargestDemand
    <3>2. CASE Ram!Fits(Ram!Sizes[i]) /\ top' = Ram!Grown(Ram!Sizes[i])
      BY <3>2, <2>1, <2>3, <1>1, DemandBounds, TopStaysLow DEF TopBounded, Ram!LargestDemand
    <3> QED
      BY <2>2, <3>1, <3>2
  <2>5. StackInUse' = StackInUse
    BY <2>1, <2>2 DEF StackInUse
  <2>6. Ram!TypeOK'
    BY <2>1, <2>2 DEF RamInv, Ram!TypeOK, Ram!Sizes
  <2>7. (block > 0 => i <= Len(Ram!Sizes))'
    BY <2>1, <2>2 DEF Ram!Sizes
  <2> QED
    BY <2>1, <2>2, <2>3, <2>4, <2>5, <2>6, <2>7 DEF RamInv, Ram!Links
<1>4. CASE Ram!StressFree
  <2>1. i' \in 1 .. Len(Ram!Sizes) + 1
    BY <1>4 DEF Ram!StressFree, RamInv, Ram!TypeOK, Ram!Sizes
  <2> QED
    BY <1>4, <2>1 DEF Ram!StressFree, RamInv, Ram!TypeOK, Ram!Links, StackInUse,
       TopBounded, Ram!LargestDemand
<1>5. CASE Ram!StressEnds
  BY <1>5 DEF Ram!StressEnds, RamInv, Ram!TypeOK, Ram!Links, StackInUse,
       TopBounded, Ram!LargestDemand
<1>6. CASE Ram!MakeRsaKey
  <2>1. PICK n \in {0} \cup KeySizes :
          key' = key + n /\ top' = Ram!Grown(n) /\ (Ram!Fits(n) \/ n = 0)
    BY <1>6 DEF Ram!MakeRsaKey
  <2>2. /\ step = "rsa" /\ sp' = sp - RSA_STACK /\ step' = "rsaEnds"
        /\ UNCHANGED <<image, limit, i, block, depth>>
    BY <1>6 DEF Ram!MakeRsaKey
  <2>3. key = 0 /\ block = 0 /\ depth = 0 /\ sp = RAM - 2048 - StackInUse
    BY <2>2 DEF RamInv
  <2>4. n \in Nat /\ n <= Ram!LargestDemand
    BY <2>1, DemandBounds
  <2>5. TopBounded'
    BY <2>1, <2>2, <2>3, <2>4, <1>1, TopStaysLow DEF TopBounded, Ram!LargestDemand
  <2>6. StackInUse = 0 /\ StackInUse' = RSA_STACK
    BY <2>2, <2>3 DEF StackInUse
  <2>7. sp' = RAM - 2048 - StackInUse'
    BY <2>2, <2>3, <2>6
  <2>8. Ram!TypeOK' /\ Ram!Links(image)'
    BY <2>2 DEF RamInv, Ram!TypeOK, Ram!Links
  <2> QED
    BY <2>1, <2>2, <2>3, <2>4, <2>5, <2>7, <2>8 DEF RamInv
<1>7. CASE Ram!RsaReturns
  <2>1. StackInUse = RSA_STACK /\ StackInUse' = 0 /\ sp = RAM - 2048 - StackInUse
    BY <1>7 DEF Ram!RsaReturns, StackInUse, RamInv
  <2>2. sp' = RAM - 2048 - StackInUse'
    BY <1>7, <2>1 DEF Ram!RsaReturns
  <2> QED
    BY <1>7, <2>2 DEF Ram!RsaReturns, RamInv, Ram!TypeOK, Ram!Links,
       TopBounded, Ram!LargestDemand
<1>8. CASE Ram!Recurse \/ Ram!Unwind
  <2>1. /\ step \in {"recurse", "unwind"} /\ step' \in {"recurse", "unwind", "recheck"}
        /\ UNCHANGED <<image, limit, i, block, key, top>>
    BY <1>8 DEF Ram!Recurse, Ram!Unwind
  <2>2. \/ step = "recurse" /\ depth' = depth + 1 /\ sp' = sp - FRAME
        \/ step = "unwind" /\ depth' = depth - 1 /\ sp' = sp + FRAME
    BY <1>8 DEF Ram!Recurse, Ram!Unwind
  <2>3. /\ depth' \in 0 .. 5
        /\ step' = "recurse" => depth' < 5
        /\ step' = "unwind" => depth' > 0
        /\ step' = "recheck" => depth' = 0
    BY <1>8 DEF Ram!Recurse, Ram!Unwind, RamInv, Ram!TypeOK
  <2>4. sp = RAM - 2048 - (depth * FRAME)
    BY <2>1, <1>1 DEF RamInv, StackInUse
  <2>5. sp' = RAM - 2048 - (depth' * FRAME)
    BY <2>2, <2>3, <2>4, <1>1
  <2>6. StackInUse' = depth' * FRAME
    BY <2>1, <2>3, <1>1 DEF StackInUse
  <2>7. Ram!TypeOK' /\ Ram!Links(image)'
    BY <2>1, <2>3 DEF RamInv, Ram!TypeOK, Ram!Links
  <2>8. block = 0 /\ TopBounded'
    BY <2>1 DEF RamInv, TopBounded, Ram!LargestDemand
  <2> QED
    BY <2>1, <2>3, <2>5, <2>6, <2>7, <2>8 DEF RamInv
<1> QED
  BY <1>2, <1>3, <1>4, <1>5, <1>6, <1>7, <1>8 DEF Ram!Next

\* A step of nothing keeps the invariant.
LEMMA RamUnchanged == ASSUME RamInv, UNCHANGED ramVars PROVE RamInv'
BY DEF RamInv, Ram!TypeOK, Ram!Links, StackInUse, TopBounded, Ram!LargestDemand, ramVars

\* What the invariant says of the heap and of the stack.
LEMMA RamPromises == ASSUME RamInv PROVE Ram!HeapAndStackBounded /\ Ram!OnlyKeyIsKept
<1>1. step = "rsaEnds" => depth = 0
  BY DEF RamInv
<1>2. StackInUse \in {RSA_STACK} \cup {d * FRAME : d \in 0 .. Ram!MAX_DEPTH}
  <2>1. depth \in 0 .. 5 /\ depth * FRAME \in Nat
    BY LayoutAssumption DEF RamInv, Ram!TypeOK, Ram!MAX_DEPTH
  <2>2. CASE step = "rsaEnds"
    BY <1>1, <2>2, LayoutAssumption DEF StackInUse
  <2>3. CASE step # "rsaEnds"
    <3>1. StackInUse = depth * FRAME
      BY <2>1, <2>3 DEF StackInUse
    <3> QED
      BY <3>1, <2>1 DEF Ram!MAX_DEPTH
  <2> QED
    BY <2>2, <2>3
<1>3. StackInUse \in Nat /\ Ram!StackTop - Ram!MainFrame - sp = StackInUse
  <2>1. StackInUse \in Nat
    BY LayoutAssumption DEF RamInv, Ram!TypeOK, Ram!MAX_DEPTH, StackInUse
  <2>2. sp = RAM - 2048 - StackInUse
    BY DEF RamInv, Ram!StackTop, Ram!MainFrame
  <2> QED
    BY <2>1, <2>2, LayoutAssumption DEF Ram!StackTop, Ram!MainFrame
<1>4. Ram!HeapAndStackBounded
  BY <1>2, <1>3 DEF RamInv, TopBounded, Ram!HeapAndStackBounded
<1>5. Ram!OnlyKeyIsKept
  <2> SUFFICES ASSUME step = "idle" PROVE StackInUse = 0
    BY LayoutAssumption DEF Ram!OnlyKeyIsKept, RamInv, Ram!StackTop, Ram!MainFrame
  <2> QED
    BY LayoutAssumption DEF RamInv, StackInUse
<1> QED
  BY <1>4, <1>5

-----------------------------------------------------------------------------
(* Quotients and remainders.                                               *)

\* Euclidean division.
LEMMA Division ==
  ASSUME NEW a \in Int, NEW b \in Nat \ {0}
  PROVE  /\ a \div b \in Int /\ a % b \in 0 .. b - 1 /\ a = b * (a \div b) + (a % b)
         /\ a \in Nat => a \div b \in Nat
BY SMT

\* A multiple of a number is no less than the number.
LEMMA Grows == ASSUME NEW b \in Nat \ {0}, NEW c \in Int, c >= 1 PROVE b * c >= b /\ b * c \in Int
OBVIOUS

\* A remainder is the only number of its range that makes up the dividend.
LEMMA UniqueRemainder ==
  ASSUME NEW a \in Int, NEW b \in Nat \ {0}, NEW q \in Int, NEW r \in 0 .. b - 1,
         a = b * q + r
  PROVE  a % b = r
<1> DEFINE p == a \div b
           s == a % b
<1>1. p \in Int /\ s \in 0 .. b - 1 /\ a = b * p + s
  BY Division
<1> HIDE DEF p, s
<1>2. b * q - b * p = s - r
  BY <1>1
<1>3. b * (q - p) = s - r /\ b * (p - q) = r - s
  BY <1>1, <1>2
<1>4. ~ (q - p >= 1)
  BY <1>1, <1>3, Grows
<1>5. ~ (p - q >= 1)
  BY <1>1, <1>3, Grows
<1>6. q = p
  BY <1>1, <1>4, <1>5
<1>7. s = r
  BY <1>1, <1>6
<1> QED
  BY <1>7 DEF s

\* Numbers less than b apart have neighbouring quotients by b.
LEMMA QuotientsAreNear == 
  ASSUME NEW a \in Nat, NEW b \in Nat \ {0}, NEW c \in Nat, c - a < b, a - c < b
  PROVE  (c \div b) - (a \div b) \in {-1, 0, 1}
<1> DEFINE p == a \div b
           s == a % b
           q == c \div b
           t == c % b
<1>1. p \in Int /\ s \in 0 .. b - 1 /\ a = b * p + s
  BY Division
<1>2. q \in Int /\ t \in 0 .. b - 1 /\ c = b * q + t
  BY Division
<1> HIDE DEF p, q, s, t
<1>3. b * (q - p) = c - a + s - t /\ b * (p - q) = a - c + t - s
  BY <1>1, <1>2
<1>4. ~ (q - p >= 2)
  <2> SUFFICES ASSUME q - p >= 2 PROVE FALSE
    OBVIOUS
  <2>1. b * (q - p - 1) >= b
    BY <1>1, <1>2, Grows
  <2>2. b * (q - p - 1) = b * (q - p) - b
    BY <1>1, <1>2
  <2> QED
    BY <2>1, <2>2, <1>1, <1>2, <1>3
<1>5. ~ (p - q >= 2)
  <2> SUFFICES ASSUME p - q >= 2 PROVE FALSE
    OBVIOUS
  <2>1. b * (p - q - 1) >= b
    BY <1>1, <1>2, Grows
  <2>2. b * (p - q - 1) = b * (p - q) - b
    BY <1>1, <1>2
  <2> QED
    BY <2>1, <2>2, <1>1, <1>2, <1>3
<1>6. q - p \in {-1, 0, 1}
  BY <1>1, <1>2, <1>4, <1>5
<1> QED
  BY <1>6 DEF p, q

-----------------------------------------------------------------------------
(* host: where in the stream the reads are.                                *)

\* The n-th byte that the board sends: a length, and as many bytes.
Byte(n) == IF n = 1 THEN CipherLen \div BASE
           ELSE IF n = 2 THEN CipherLen % BASE ELSE BASE + n - 2

\* With l on the line and c to come, the script has read the first bytes of
\* the stream, as many as off.
InStream(l, c, off) ==
  /\ l \in Seq(Nat) /\ c \in Seq(Nat)
  /\ Len(l) + Len(c) = CipherLen + 2 - off
  /\ \A n \in 1 .. Len(l) : l[n] = Byte(n + off)
  /\ \A n \in 1 .. Len(c) : c[n] = Byte(n + off + Len(l))

ReadUpTo(off) == InStream(line, coming, off)

\* The second read starts where the first one ended, with the length it took
\* what it got for.
HostInv ==
  /\ Host!TypeOK /\ Host!KeyNeedsBothReads
  /\ line \in Seq(Nat) /\ coming \in Seq(Nat)
  /\ stage = "length" => timeouts = 0 /\ ReadUpTo(0)
  /\ stage = "cipher" =>
       \/ timeouts = 0 /\ enc_len = CipherLen /\ ReadUpTo(2)
       \/ timeouts = 1 /\ enc_len = 0 /\ ReadUpTo(0)
       \/ timeouts = 1 /\ enc_len = CipherLen \div BASE /\ ReadUpTo(1)

\* The two bytes of the length make up the length.
LEMMA LengthBytes ==
  /\ CipherLen \div BASE \in Nat /\ CipherLen % BASE \in 0 .. BASE - 1
  /\ CipherLen = BASE * (CipherLen \div BASE) + (CipherLen % BASE)
<1>1. CipherLen \in Nat /\ BASE \in Nat \ {0}
  BY BytesAssumption
<1> HIDE BytesAssumption
<1>2. CipherLen = BASE * (CipherLen \div BASE) + (CipherLen % BASE)
  BY <1>1, Division
<1>3. CipherLen \div BASE \in Nat
  BY <1>1, Division
<1>4. CipherLen % BASE \in 0 .. BASE - 1
  BY <1>1, Division
<1> QED
  BY <1>2, <1>3, <1>4

\* The bytes of the ciphertext.
LEMMA CipherBytes ==
  /\ Host!Cipher \in Seq(Nat) /\ Len(Host!Cipher) = CipherLen
  /\ \A n \in 1 .. CipherLen : Host!Cipher[n] = BASE + n
BY BytesAssumption DEF Host!Cipher

\* The invariant of host holds when it starts.
LEMMA HostInitially == ASSUME Host!Init PROVE HostInv
<1> DEFINE L == <<CipherLen \div BASE, CipherLen % BASE>>
<1>1. L \in Seq(Nat) /\ Len(L) = 2 /\ L[1] = Byte(1) /\ L[2] = Byte(2)
  BY LengthBytes, BytesAssumption DEF Byte
<1>2. coming = L \o Host!Cipher
  BY DEF Host!Init
<1> HIDE DEF L
<1>3. /\ coming \in Seq(Nat) /\ Len(coming) = CipherLen + 2
      /\ \A n \in 1 .. Len(coming) : coming[n] = IF n <= 2 THEN L[n] ELSE Host!Cipher[n - 2]
  <2>1. coming \in Seq(Nat) /\ Len(coming) = CipherLen + 2
    <3>1. Len(coming) = Len(L) + Len(Host!Cipher) /\ coming \in Seq(Nat)
      BY <1>1, <1>2, CipherBytes, ConcatProperties
    <3> QED
      BY <3>1, <1>1, CipherBytes, BytesAssumption
  <2>2. \A n \in 1 .. Len(coming) : coming[n] = IF n <= 2 THEN L[n] ELSE Host!Cipher[n - 2]
    BY <2>1, <1>1, <1>2, CipherBytes, ConcatProperties, BytesAssumption
  <2> QED
    BY <2>1, <2>2
<1>4. \A n \in 1 .. Len(coming) : coming[n] = Byte(n)
  <2> TAKE n \in 1 .. Len(coming)
  <2>1. CASE n <= 2
    <3>1. n \in {1, 2}
      BY <2>1
    <3> QED
      BY <3>1, <1>1, <1>3
  <2>2. CASE n > 2
    BY <2>2, <1>3, CipherBytes, BytesAssumption DEF Byte
  <2> QED
    BY <2>1, <2>2, BytesAssumption
<1>5. line \in Seq(Nat) /\ Len(line) = 0
  BY DEF Host!Init
<1>6. ReadUpTo(0)
  BY <1>3, <1>4, <1>5, BytesAssumption DEF ReadUpTo, InStream
<1> QED
  BY <1>3, <1>5, <1>6, BytesAssumption
     DEF Host!Init, HostInv, Host!TypeOK, Host!KeyNeedsBothReads

\* A byte that arrives is the next of the stream.
LEMMA ArrivesInOrder ==
  ASSUME NEW off \in 0 .. 2, ReadUpTo(off), Host!Arrives
  PROVE  ReadUpTo(off)'
<1>1. /\ line \in Seq(Nat) /\ coming \in Seq(Nat) /\ Len(coming) \in Nat \ {0}
      /\ line' = Append(line, Head(coming)) /\ coming' = Tail(coming)
  BY DEF Host!Arrives, ReadUpTo, InStream
<1>2. /\ line' \in Seq(Nat) /\ Len(line') = Len(line) + 1
      /\ \A n \in 1 .. Len(line) : line'[n] = line[n]
      /\ line'[Len(line) + 1] = coming[1]
  BY <1>1
<1>3. /\ coming' \in Seq(Nat) /\ Len(coming') = Len(coming) - 1
      /\ \A n \in 1 .. Len(coming') : coming'[n] = coming[n + 1]
  BY <1>1
<1>4. \A n \in 1 .. Len(line') : line'[n] = Byte(n + off)
  <2> TAKE n \in 1 .. Len(line')
  <2>1. CASE n <= Len(line)
    BY <2>1, <1>1, <1>2 DEF ReadUpTo, InStream
  <2>2. CASE n = Len(line) + 1
    <3>1. coming[1] = Byte(1 + off + Len(line))
      BY <1>1 DEF ReadUpTo, InStream
    <3>2. 1 + off + Len(line) = n + off
      BY <2>2, <1>1
    <3> QED
      BY <3>1, <3>2, <2>2, <1>2
  <2> QED
    BY <2>1, <2>2, <1>1, <1>2
<1>5. \A n \in 1 .. Len(coming') : coming'[n] = Byte(n + off + Len(line'))
  <2> TAKE n \in 1 .. Len(coming')
  <2>1. coming'[n] = Byte((n + 1) + off + Len(line))
    BY <1>1, <1>3 DEF ReadUpTo, InStream
  <2>2. n \in Nat /\ off \in Nat /\ Len(line) \in Nat
    BY <1>1, <1>3
  <2>3. (n + 1) + off + Len(line) = n + off + Len(line')
    <3>1. Len(line') = Len(line) + 1
      BY <1>2
    <3> QED
      BY <2>2, <3>1
  <2> QED
    BY <2>1, <2>3
<1>6. Len(line') + Len(coming') = CipherLen + 2 - off
  BY <1>1, <1>2, <1>3, BytesAssumption DEF ReadUpTo, InStream
<1> QED
  BY <1>2, <1>3, <1>4, <1>5, <1>6 DEF ReadUpTo, InStream

\* A read of k bytes moves on by k bytes.
LEMMA ReadMovesOn ==
  ASSUME NEW off \in 0 .. 2, NEW l, NEW c, InStream(l, c, off), NEW k \in 0 .. Len(l)
  PROVE  InStream(SubSeq(l, k + 1, Len(l)), c, off + k)
<1> DEFINE s == SubSeq(l, k + 1, Len(l))
<1>1. /\ l \in Seq(Nat) /\ c \in Seq(Nat) /\ Len(l) \in Nat /\ Len(c) \in Nat
      /\ k \in Nat /\ k <= Len(l) /\ off \in Nat
  BY DEF InStream
<1>2. /\ s \in Seq(Nat)
      /\ Len(s) = IF k + 1 <= Len(l) THEN Len(l) - (k + 1) + 1 ELSE 0
      /\ \A n \in 1 .. Len(l) - (k + 1) + 1 : s[n] = l[k + 1 + n - 1]
  <2>1. \A n \in k + 1 .. Len(l) : l[n] \in Nat
    BY <1>1
  <2> QED
    BY <1>1, <2>1, SubSeqProperties
<1> HIDE DEF s
<1>3. Len(s) = Len(l) - k
  BY <1>1, <1>2
<1>4. \A n \in 1 .. Len(s) : s[n] = Byte(n + (off + k))
  <2> TAKE n \in 1 .. Len(s)
  <2>1. s[n] = l[k + n] /\ k + n \in 1 .. Len(l)
    BY <1>1, <1>2, <1>3
  <2>2. l[k + n] = Byte((k + n) + off)
    BY <2>1 DEF InStream
  <2>3. (k + n) + off = n + (off + k)
    BY <1>1, <1>3
  <2> QED
    BY <2>1, <2>2, <2>3
<1>5. \A n \in 1 .. Len(c) : c[n] = Byte(n + (off + k) + Len(s))
  <2> TAKE n \in 1 .. Len(c)
  <2>1. c[n] = Byte(n + off + Len(l))
    BY DEF InStream
  <2>2. n + off + Len(l) = n + (off + k) + Len(s)
    BY <1>1, <1>3
  <2> QED
    BY <2>1, <2>2
<1>6. Len(s) + Len(c) = CipherLen + 2 - (off + k)
  <2>1. Len(l) + Len(c) = CipherLen + 2 - off
    BY DEF InStream
  <2> QED
    BY <2>1, <1>1, <1>3, BytesAssumption
<1>7. InStream(s, c, off + k)
  BY <1>1, <1>2, <1>4, <1>5, <1>6 DEF InStream
<1> QED
  BY <1>7 DEF s

\* How many bytes a read of n gets.
BytesRead(n) == IF n <= Len(line) THEN n ELSE Len(line)

\* What a serial read takes off the line, and what it leaves.
LEMMA SerialReads ==
  ASSUME NEW off \in 0 .. 2, ReadUpTo(off), NEW n \in Nat, Host!SerialRead(n),
         timeouts \in Nat, NEW k, k = BytesRead(n)
  PROVE  /\ k \in 0 .. Len(line) /\ k \in 0 .. n
         /\ InStream(line', coming', off + k)
         /\ Host!Taken(n) \in Seq(Nat) /\ Len(Host!Taken(n)) = k
         /\ \A m \in 1 .. k : Host!Taken(n)[m] = Byte(m + off)
         /\ timeouts' = timeouts + IF k = n THEN 0 ELSE 1
<1>1. line \in Seq(Nat) /\ Len(line) \in Nat
  BY DEF ReadUpTo, InStream
<1>2. k \in 0 .. Len(line) /\ k \in 0 .. n /\ k \in Nat
  BY <1>1 DEF BytesRead
<1>3. SubSeq(line, n + 1, Len(line)) = SubSeq(line, k + 1, Len(line))
  <2>1. CASE n <= Len(line)
    BY <2>1 DEF BytesRead
  <2>2. CASE n > Len(line)
    <3>1. SubSeq(line, n + 1, Len(line)) = << >>
      BY <2>2, <1>1, SubSeqEmpty
    <3>2. SubSeq(line, Len(line) + 1, Len(line)) = << >>
      BY <1>1, SubSeqEmpty
    <3>3. k = Len(line)
      BY <2>2, <1>1 DEF BytesRead
    <3> QED
      BY <3>1, <3>2, <3>3
  <2>3. n <= Len(line) \/ n > Len(line)
    BY <1>1
  <2> QED
    BY <2>1, <2>2, <2>3
<1>4. Host!Taken(n) = SubSeq(line, 1, k)
  BY DEF Host!Taken, BytesRead
<1>5. timeouts' = timeouts + IF k = n THEN 0 ELSE 1
  BY <1>1 DEF Host!SerialRead, BytesRead
<1>6. InStream(line', coming', off + k)
  <2>1. k \in 0 .. Len(line)
    BY <1>2
  <2>2. InStream(SubSeq(line, k + 1, Len(line)), coming, off + k)
    BY <2>1, ReadMovesOn DEF ReadUpTo
  <2>3. line' = SubSeq(line, k + 1, Len(line)) /\ coming' = coming
    BY <1>3 DEF Host!SerialRead
  <2> QED
    BY <2>2, <2>3
<1>7. \A m \in 1 .. k : line[m] \in Nat /\ line[m] = Byte(m + off)
  <2>1. \A m \in 1 .. Len(line) : line[m] = Byte(m + off)
    BY DEF ReadUpTo, InStream
  <2>2. \A m \in 1 .. Len(line) : line[m] \in Nat
    BY <1>1
  <2>3. \A m \in 1 .. k : m \in 1 .. Len(line)
    BY <1>1, <1>2
  <2> QED
    BY <2>1, <2>2, <2>3
<1>8. /\ SubSeq(line, 1, k) \in Seq(Nat)
      /\ Len(SubSeq(line, 1, k)) = IF 1 <= k THEN k - 1 + 1 ELSE 0
      /\ \A m \in 1 .. k - 1 + 1 : SubSeq(line, 1, k)[m] = line[1 + m - 1]
  BY <1>2, <1>7, SubSeqProperties
<1>9. Len(SubSeq(line, 1, k)) = k
  BY <1>2, <1>8
<1>10. \A m \in 1 .. k : SubSeq(line, 1, k)[m] = Byte(m + off)
  BY <1>2, <1>7, <1>8
<1> QED
  BY <1>2, <1>4, <1>5, <1>6, <1>8, <1>9, <1>10

\* Half a length, or none, never leads to the ciphertext.
LEMMA NotTheCipher ==
  ASSUME NEW t \in Seq(Nat), NEW off \in {0, 1},
         \A m \in 1 .. Len(t) : t[m] = Byte(m + off),
         off = 0 => Len(t) = 0
  PROVE  t # Host!Cipher
<1>1. CASE Len(t) = 0
  BY <1>1, CipherBytes, BytesAssumption
<1>2. CASE Len(t) # 0
  <2>1. off = 1 /\ t[1] = Byte(2) /\ 1 \in 1 .. CipherLen
    BY <1>2, BytesAssumption
  <2>2. t[1] < BASE
    BY <2>1, LengthBytes, BytesAssumption DEF Byte
  <2>3. Host!Cipher[1] = BASE + 1
    BY <2>1, CipherBytes
  <2> QED
    BY <2>2, <2>3, BytesAssumption
<1> QED
  BY <1>1, <1>2

\* Every step of host keeps its invariant.
LEMMA HostStep == ASSUME HostInv, Host!Next PROVE HostInv'
<1> USE BytesAssumption
<1>1. CASE Host!Arrives
  <2>1. UNCHANGED <<stage, enc_len, timeouts>>
    BY <1>1 DEF Host!Arrives
  <2>2. /\ line' \in Seq(Nat) /\ coming' \in Seq(Nat)
        /\ Len(line') + Len(coming') = Len(line) + Len(coming)
    <3>1. line \in Seq(Nat) /\ coming \in Seq(Nat) /\ coming # << >>
          /\ line' = Append(line, Head(coming)) /\ coming' = Tail(coming)
      BY <1>1 DEF Host!Arrives, HostInv
    <3>2. Head(coming) \in Nat /\ Tail(coming) \in Seq(Nat)
          /\ Len(coming) = 1 + Len(Tail(coming))
      BY <3>1
    <3>3. /\ line' \in Seq(Nat) /\ coming' \in Seq(Nat)
          /\ Len(line') = Len(line) + 1 /\ Len(coming) = 1 + Len(coming')
      BY <3>1, <3>2
    <3> QED
      BY <3>1, <3>3
  <2>3. \A off \in 0 .. 2 : ReadUpTo(off) => ReadUpTo(off)'
    BY <1>1, ArrivesInOrder
  <2>4. CipherLen \div BASE \in Nat
    BY LengthBytes
  <2> HIDE DEF ReadUpTo
  <2> QED
    BY <2>1, <2>2, <2>3 DEF HostInv, Host!TypeOK, Host!KeyNeedsBothReads
<1>2. CASE Host!ReadLength
  <2>1. /\ stage = "length" /\ stage' = "cipher" /\ timeouts = 0 /\ timeouts \in Nat
        /\ Host!SerialRead(2) /\ enc_len' = Host!FromBytes(Host!Taken(2)) /\ ReadUpTo(0)
    BY <1>2 DEF Host!ReadLength, HostInv
  <2> DEFINE k == BytesRead(2)
             t == Host!Taken(2)
  <2>2. /\ k \in 0 .. Len(line) /\ k \in 0 .. 2 /\ InStream(line', coming', 0 + k)
        /\ t \in Seq(Nat) /\ Len(t) = k
        /\ \A m \in 1 .. k : t[m] = Byte(m + 0)
        /\ timeouts' = timeouts + IF k = 2 THEN 0 ELSE 1
    BY <2>1, SerialReads
  <2>3. k \in {0, 1, 2} /\ 0 + k = k /\ \A m \in 1 .. k : t[m] = Byte(m)
    BY <2>2
  <2> HIDE DEF k, t
  <2>4. enc_len' = CASE k = 0 -> 0
                     [] k = 1 -> CipherLen \div BASE
                     [] k = 2 -> CipherLen
    <3>1. CASE k = 0
      BY <3>1, <2>1, <2>2, <2>3 DEF Host!FromBytes, t
    <3>2. CASE k = 1
      BY <3>2, <2>1, <2>2, <2>3 DEF Host!FromBytes, Byte, t
    <3>3. CASE k = 2
      <4>1. t[1] = CipherLen \div BASE /\ t[2] = CipherLen % BASE
        BY <3>3, <2>3 DEF Byte
      <4>2. enc_len' = BASE * t[1] + t[2]
        BY <3>3, <2>1, <2>2 DEF Host!FromBytes, t
      <4> QED
        BY <3>3, <4>1, <4>2, LengthBytes
    <3> QED
      BY <2>3, <3>1, <3>2, <3>3
  <2>5. /\ line' \in Seq(Nat) /\ coming' \in Seq(Nat)
        /\ Len(line') + Len(coming') <= CipherLen + 2
    BY <2>2, <2>3 DEF InStream
  <2> QED
    BY <2>1, <2>2, <2>3, <2>4, <2>5
       DEF HostInv, Host!TypeOK, Host!KeyNeedsBothReads, ReadUpTo
<1>3. CASE Host!ReadCipher
  <2>1. /\ stage = "cipher" /\ Host!SerialRead(enc_len)
        /\ stage' = IF Host!Taken(enc_len) = Host!Cipher THEN "key" ELSE "error"
    BY <1>3 DEF Host!ReadCipher
  <2>2. PICK off \in 0 .. 2 :
          /\ ReadUpTo(off) /\ enc_len \in Nat /\ timeouts \in {0, 1}
          /\ off = 0 => enc_len = 0
          /\ off = 2 => enc_len = CipherLen
          /\ off = 2 <=> timeouts = 0
    BY <2>1, LengthBytes DEF HostInv
  <2> DEFINE k == BytesRead(enc_len)
             t == Host!Taken(enc_len)
  <2>3. /\ k \in 0 .. Len(line) /\ k \in 0 .. enc_len /\ InStream(line', coming', off + k)
        /\ t \in Seq(Nat) /\ Len(t) = k
        /\ \A m \in 1 .. k : t[m] = Byte(m + off)
        /\ timeouts' = timeouts + IF k = enc_len THEN 0 ELSE 1
    BY <2>1, <2>2, SerialReads
  <2>4. k \in Nat /\ k <= enc_len
    BY <2>2, <2>3
  <2>5. stage' = IF t = Host!Cipher THEN "key" ELSE "error"
    BY <2>1
  <2> HIDE DEF k, t
  <2>6. timeouts' \in 0 .. 2
    BY <2>2, <2>3
  <2>7. t = Host!Cipher <=> timeouts' = 0
    <3>1. CASE off \in {0, 1}
      <4>1. t # Host!Cipher
        BY <3>1, <2>2, <2>3, <2>4, NotTheCipher
      <4> QED
        BY <4>1, <3>1, <2>2, <2>3
    <3>2. CASE off = 2 /\ k = enc_len
      <4>1. Len(t) = CipherLen /\ \A m \in 1 .. CipherLen : t[m] = BASE + m
        BY <3>2, <2>2, <2>3 DEF Byte
      <4>2. t = Host!Cipher
        BY <4>1, <2>3, CipherBytes, SeqEqual
      <4> QED
        BY <4>2, <3>2, <2>2, <2>3
    <3>3. CASE off = 2 /\ k # enc_len
      <4>1. Len(t) # CipherLen
        BY <3>3, <2>2, <2>3
      <4> QED
        BY <4>1, <3>3, <2>2, <2>3, CipherBytes
    <3> QED
      BY <3>1, <3>2, <3>3
  <2>8. /\ line' \in Seq(Nat) /\ coming' \in Seq(Nat)
        /\ Len(line') + Len(coming') <= CipherLen + 2
    BY <2>2, <2>3, <2>4 DEF InStream
  <2> QED
    BY <2>5, <2>6, <2>7, <2>8 DEF HostInv, Host!TypeOK, Host!KeyNeedsBothReads
<1> QED
  BY <1>1, <1>2, <1>3 DEF Host!Next

\* A step of nothing keeps the invariant.
LEMMA HostUnchanged == ASSUME HostInv, UNCHANGED hostVars PROVE HostInv'
BY DEF HostInv, Host!TypeOK, Host!KeyNeedsBothReads, ReadUpTo, InStream, hostVars

-----------------------------------------------------------------------------
(* blink's timing: when the halves of its two reads are taken.             *)

Two == {"start", "end"}

TimeInv ==
  /\ Time!TypeOK /\ DOMAIN read = Two
  /\ \A p \in Two : \A g \in DOMAIN read[p] : read[p][g] \in 0 .. now
  /\ \A p \in Two : \A g, h \in DOMAIN read[p] : read[p][g] - read[p][h] <= READ_TICKS
  /\ phase # "done" => \A g \in DOMAIN read[phase] : now - read[phase][g] <= READ_TICKS
  /\ phase = "start" => DOMAIN read["end"] = {}
  /\ phase # "start" => DOMAIN read["start"] = Time!Halves
  /\ phase = "done" => DOMAIN read["end"] = Time!Halves
  /\ \A g \in DOMAIN read["start"], h \in DOMAIN read["end"] :
       read["start"][g] <= read["end"][h]

\* The invariant of blink's timing holds when it starts.
LEMMA TimeInitially == ASSUME Time!Init PROVE TimeInv
<1>1. /\ DOMAIN read = Two /\ phase = "start" /\ now \in 0 .. MAX_TIME
      /\ DOMAIN read["start"] = {} /\ DOMAIN read["end"] = {}
  BY DEF Time!Init, Two
<1> QED
  BY <1>1 DEF TimeInv, Time!TypeOK, Two

\* Every step of blink's timing keeps its invariant.
LEMMA TimeStep == ASSUME TimeInv, Time!Next PROVE TimeInv'
<1> USE TimerAssumption DEF Two, Time!Halves
<1>0. /\ now \in Nat /\ now <= MAX_TIME /\ MAX_TIME \in Nat /\ READ_TICKS \in Nat
      /\ phase \in {"start", "end", "done"} /\ DOMAIN read = Two
      /\ \A p \in Two : DOMAIN read[p] \subseteq Time!Halves
  BY DEF TimeInv, Time!TypeOK
<1>1. CASE Time!Tick
  <2>1. /\ phase # "done" /\ now' = now + 1 /\ now' <= MAX_TIME
        /\ read' = read /\ phase' = phase
        /\ \A h \in DOMAIN read[phase] : now - read[phase][h] < READ_TICKS
    BY <1>1, <1>0 DEF Time!Tick
  <2>2. \A h \in DOMAIN read[phase] : now' - read[phase][h] <= READ_TICKS
    BY <2>1, <1>0 DEF TimeInv
  <2>3. \A p \in Two : \A g \in DOMAIN read[p] : read[p][g] \in 0 .. now'
    BY <2>1, <1>0 DEF TimeInv
  <2> QED
    BY <2>1, <2>2, <2>3, <1>0 DEF TimeInv, Time!TypeOK
<1>2. ASSUME NEW h \in Time!Halves, Time!ReadHalf(h) PROVE TimeInv'
  <2>1. /\ phase \in Two /\ h \notin DOMAIN read[phase] /\ now' = now
        /\ read' = [read EXCEPT ![phase] =
                      [g \in DOMAIN read[phase] \cup {h} |->
                         IF g = h THEN now ELSE read[phase][g]]]
        /\ phase' = IF DOMAIN read'[phase] # Time!Halves THEN phase
                    ELSE IF phase = "start" THEN "end" ELSE "done"
    BY <1>2, <1>0 DEF Time!ReadHalf
  <2>2. /\ DOMAIN read' = Two
        /\ DOMAIN read'[phase] = DOMAIN read[phase] \cup {h}
        /\ \A g \in DOMAIN read[phase] \cup {h} :
             read'[phase][g] = IF g = h THEN now ELSE read[phase][g]
        /\ \A p \in Two : p # phase => read'[p] = read[p]
    BY <2>1, <1>0
  <2>3. \A p \in Two : DOMAIN read'[p] \subseteq Time!Halves
    BY <2>2, <1>0
  <2>4. \A g \in DOMAIN read'[phase] :
          read'[phase][g] \in 0 .. now /\ now - read'[phase][g] <= READ_TICKS
    BY <2>1, <2>2, <1>0 DEF TimeInv
  <2>5. \A p \in Two : \A g \in DOMAIN read'[p] : read'[p][g] \in 0 .. now
    BY <2>2, <2>4 DEF TimeInv
  <2>6. \A p \in Two : \A g, k \in DOMAIN read'[p] : read'[p][g] - read'[p][k] <= READ_TICKS
    <3> SUFFICES ASSUME NEW p \in Two, NEW g \in DOMAIN read'[p], NEW k \in DOMAIN read'[p]
                 PROVE  read'[p][g] - read'[p][k] <= READ_TICKS
      OBVIOUS
    <3>1. CASE p = phase
      <4>1. read'[p][g] \in 0 .. now /\ read'[p][k] \in 0 .. now /\ now - read'[p][k] <= READ_TICKS
        BY <3>1, <2>4
      <4> QED
        BY <4>1, <1>0
    <3>2. CASE p # phase
      BY <3>2, <2>2 DEF TimeInv
    <3> QED
      BY <3>1, <3>2
  <2>7. phase' \in {"start", "end", "done"}
    BY <2>1
  <2>8. phase' # "done" => \A g \in DOMAIN read'[phase'] : now - read'[phase'][g] <= READ_TICKS
    <3>1. CASE phase' = phase
      BY <3>1, <2>4
    <3>2. CASE phase = "start" /\ phase' = "end"
      <4>1. DOMAIN read'["end"] = {}
        BY <3>2, <2>2 DEF TimeInv
      <4> QED
        BY <3>2, <4>1
    <3> QED
      BY <3>1, <3>2, <2>1
  <2>9. /\ phase' = "start" => DOMAIN read'["end"] = {}
        /\ phase' # "start" => DOMAIN read'["start"] = Time!Halves
        /\ phase' = "done" => DOMAIN read'["end"] = Time!Halves
    BY <2>1, <2>2 DEF TimeInv
  <2>10. \A g \in DOMAIN read'["start"], k \in DOMAIN read'["end"] :
           read'["start"][g] <= read'["end"][k]
    <3>1. CASE phase = "start"
      <4>1. DOMAIN read'["end"] = {}
        BY <3>1, <2>2 DEF TimeInv
      <4> QED
        BY <4>1
    <3>2. CASE phase = "end"
      <4> SUFFICES ASSUME NEW g \in DOMAIN read["start"], NEW k \in DOMAIN read'["end"]
                   PROVE  read["start"][g] <= read'["end"][k]
        BY <3>2, <2>2
      <4>1. read["start"][g] \in 0 .. now
        BY DEF TimeInv
      <4>2. CASE k = h
        BY <4>1, <4>2, <3>2, <2>2, <1>0
      <4>3. CASE k # h
        BY <4>3, <3>2, <2>2 DEF TimeInv
      <4> QED
        BY <4>2, <4>3
    <3> QED
      BY <3>1, <3>2, <2>1
  <2> QED
    BY <1>0, <2>1, <2>2, <2>3, <2>5, <2>6, <2>7, <2>8, <2>9, <2>10 DEF TimeInv, Time!TypeOK
<1> QED
  BY <1>1, <1>2 DEF Time!Next

\* A step of nothing keeps the invariant.
LEMMA TimeUnchanged == ASSUME TimeInv, UNCHANGED timeVars PROVE TimeInv'
BY DEF TimeInv, Time!TypeOK, timeVars

\* The least and the greatest of two numbers.
LEMMA BetweenTwo ==
  ASSUME NEW a \in Int, NEW b \in Int
  PROVE  Time!Min({a, b}) \in Int /\ Time!Min({a, b}) <= a
         /\ Time!Max({a, b}) \in Int /\ a <= Time!Max({a, b})
<1>1. \E x \in {a, b} : \A y \in {a, b} : x <= y
  OBVIOUS
<1>2. Time!Min({a, b}) \in {a, b} /\ \A y \in {a, b} : Time!Min({a, b}) <= y
  BY <1>1 DEF Time!Min
<1>3. \E x \in {a, b} : \A y \in {a, b} : x >= y
  OBVIOUS
<1>4. Time!Max({a, b}) \in {a, b} /\ \A y \in {a, b} : Time!Max({a, b}) >= y
  BY <1>3 DEF Time!Max
<1> QED
  BY <1>2, <1>4

\* Timer counts as FiniteSets does.
LEMMA SameCount == ASSUME NEW S PROVE Time!Cardinality(S) = Cardinality(S)
BY Zenon DEF Time!Cardinality, Cardinality

\* How many of the two reads are torn.
LEMMA TornReads ==
  LET torn == Time!Cardinality({p \in Two : Time!Torn(p)})
  IN  torn = (IF Time!Torn("start") THEN 1 ELSE 0) + IF Time!Torn("end") THEN 1 ELSE 0
<1> DEFINE T == {p \in Two : Time!Torn(p)}
<1>0. Time!Cardinality(T) = Cardinality(T)
  BY SameCount
<1>1. Cardinality({}) = 0 /\ \A x : Cardinality({x}) = 1 /\ IsFiniteSet({x})
  BY FS_EmptySet, FS_Singleton
<1>2. Cardinality({"start"} \cup {"end"}) = 2
  <2>1. "end" \notin {"start"} /\ IsFiniteSet({"start"}) /\ Cardinality({"start"}) = 1
    BY <1>1
  <2>2. Cardinality({"start"} \cup {"end"}) = Cardinality({"start"}) + 1
    BY <2>1, FS_AddElement
  <2> QED
    BY <2>1, <2>2
<1>3. CASE Time!Torn("start") /\ Time!Torn("end")
  <2>1. T = {"start"} \cup {"end"}
    BY <1>3 DEF Two
  <2>2. Cardinality(T) = 2
    BY <2>1, <1>2
  <2> QED
    BY <1>0, <2>2, <1>3
<1>4. CASE Time!Torn("start") /\ ~Time!Torn("end")
  <2>1. T = {"start"}
    BY <1>4 DEF Two
  <2>2. Cardinality(T) = 1
    BY <2>1, <1>1
  <2> QED
    BY <1>0, <2>2, <1>4
<1>5. CASE ~Time!Torn("start") /\ Time!Torn("end")
  <2>1. T = {"end"}
    BY <1>5 DEF Two
  <2>2. Cardinality(T) = 1
    BY <2>1, <1>1
  <2> QED
    BY <1>0, <2>2, <1>5
<1>6. CASE ~Time!Torn("start") /\ ~Time!Torn("end")
  <2>1. T = {}
    BY <1>6 DEF Two
  <2>2. Cardinality(T) = 0
    BY <2>1, <1>1
  <2> QED
    BY <1>0, <2>2, <1>6
<1> QED
  BY <1>3, <1>4, <1>5, <1>6

\* The turns by which a word is off the time its low half was read at.
Turns(p) == (read[p].high \div LOW) - (read[p].low \div LOW)

\* A word is the time its low half was read at and whole turns, one at most.
LEMMA WordIsOffByTurns ==
  ASSUME NEW p, read[p].low \in Nat, read[p].high \in Nat,
         read[p].high - read[p].low <= READ_TICKS, read[p].low - read[p].high <= READ_TICKS
  PROVE  /\ Turns(p) \in {-1, 0, 1} /\ (Time!Torn(p) <=> Turns(p) # 0)
         /\ Time!Value(p) = read[p].low + LOW * Turns(p)
<1> DEFINE l == read[p].low
           h == read[p].high
<1>1. l \in Nat /\ h \in Nat /\ h - l < LOW /\ l - h < LOW /\ LOW \in Nat \ {0}
  BY TimerAssumption
<1>2. /\ l \div LOW \in Int /\ h \div LOW \in Int
      /\ l % LOW \in Int /\ l = LOW * (l \div LOW) + (l % LOW)
  <2>1. h \in Int /\ l \in Int /\ LOW \in Nat \ {0}
    BY <1>1
  <2> HIDE DEF l, h
  <2>2. h \div LOW \in Int
    BY <2>1, Division
  <2>3. l \div LOW \in Int /\ l % LOW \in 0 .. LOW - 1 /\ l = LOW * (l \div LOW) + (l % LOW)
    BY <2>1, Division
  <2> QED
    BY <2>1, <2>2, <2>3
<1>3. Turns(p) = (h \div LOW) - (l \div LOW)
  BY DEF Turns
<1>4. Time!Value(p) = (l % LOW) + LOW * (h \div LOW)
  BY DEF Time!Value
<1>5. Time!Torn(p) <=> l \div LOW # h \div LOW
  BY DEF Time!Torn
<1> HIDE DEF l, h
<1>6. Turns(p) \in {-1, 0, 1}
  BY <1>1, <1>3, QuotientsAreNear
<1>7. Time!Torn(p) <=> Turns(p) # 0
  BY <1>2, <1>3, <1>5
<1>8. Time!Value(p) = l + LOW * Turns(p)
  <2> DEFINE a == l \div LOW
             b == h \div LOW
             r == l % LOW
  <2>1. a \in Int /\ b \in Int /\ r \in Int /\ l = LOW * a + r /\ LOW \in Int
    BY <1>1, <1>2
  <2>2. Time!Value(p) = r + LOW * b /\ Turns(p) = b - a
    BY <1>3, <1>4
  <2> HIDE DEF a, b, r
  <2> QED
    BY <2>1, <2>2
<1> QED
  BY <1>6, <1>7, <1>8 DEF l

\* What the invariant says of the difference of the two words.
LEMMA TimePromises == ASSUME TimeInv PROVE Time!OffByTurns
<1> SUFFICES ASSUME phase = "done" PROVE Time!OffByTurns
  BY DEF Time!OffByTurns
<1> DEFINE sl == read["start"].low
           sh == read["start"].high
           el == read["end"].low
           eh == read["end"].high
           M  == LOW * LOW
           d  == Turns("start")
           e  == Turns("end")
<1>1. /\ now \in Nat /\ now <= MAX_TIME /\ MAX_TIME \in Nat
      /\ LOW \in Nat \ {0} /\ READ_TICKS \in Nat
  BY TimerAssumption DEF TimeInv, Time!TypeOK
<1>2. /\ DOMAIN read["start"] = {"low", "high"} /\ DOMAIN read["end"] = {"low", "high"}
  BY DEF TimeInv, Time!Halves
<1>3. /\ sl \in 0 .. now /\ sh \in 0 .. now /\ el \in 0 .. now /\ eh \in 0 .. now
      /\ sl - sh <= READ_TICKS /\ sh - sl <= READ_TICKS
      /\ el - eh <= READ_TICKS /\ eh - el <= READ_TICKS
      /\ sl <= el /\ sl <= eh /\ sh <= el /\ sh <= eh
  BY <1>2 DEF TimeInv, Two
<1>4. /\ d \in {-1, 0, 1} /\ (Time!Torn("start") <=> d # 0)
      /\ Time!Value("start") = sl + LOW * d
  BY <1>1, <1>3, WordIsOffByTurns
<1>5. /\ e \in {-1, 0, 1} /\ (Time!Torn("end") <=> e # 0)
      /\ Time!Value("end") = el + LOW * e
  BY <1>1, <1>3, WordIsOffByTurns
<1>6. M \in Nat \ {0} /\ MAX_TIME < M
  <2>1. M >= LOW /\ M \in Int
    BY <1>1, Grows
  <2> QED
    BY <2>1, <1>1, TimerAssumption
<1> DEFINE x == el - sl
           y == (el + LOW * e) - (sl + LOW * d)
           k == d - e
<1>7. x \in 0 .. M - 1
  BY <1>1, <1>3, <1>6
<1>8. Time!Cycles = y % M
  BY <1>4, <1>5 DEF Time!Cycles
<1>9. y \in Int /\ y = x - k * LOW /\ k \in Int
  <2>1. el \in Int /\ sl \in Int /\ d \in Int /\ e \in Int /\ LOW \in Int
    BY <1>1, <1>3, <1>4, <1>5
  <2> HIDE DEF el, sl, d, e
  <2> QED
    BY <2>1
<1> HIDE DEF M, x, y, k, d, e, sl, sh, el, eh
<1>10. ((y % M) + k * LOW) % M = x
  <2> DEFINE q == y \div M
             r == y % M
  <2>1. q \in Int /\ r \in Int /\ y = M * q + r
    <3>1. y \in Int /\ M \in Nat \ {0}
      BY <1>6, <1>9
    <3>2. y \div M \in Int /\ y % M \in 0 .. M - 1
      BY <3>1, Division
    <3>3. y = M * (y \div M) + (y % M)
      BY <3>1, Division
    <3> QED
      BY <3>1, <3>2, <3>3
  <2> HIDE DEF q, r
  <2>2. r + k * LOW = M * (-q) + x
    BY <2>1, <1>1, <1>6, <1>7, <1>9
  <2>3. r + k * LOW \in Int /\ -q \in Int
    BY <2>1, <1>1, <1>9
  <2>4. (r + k * LOW) % M = x
    BY <2>2, <2>3, <1>6, <1>7, UniqueRemainder
  <2> QED
    BY <2>4 DEF r
<1> DEFINE torn == Time!Cardinality({p \in {"start", "end"} : Time!Torn(p)})
<1>11. k \in -torn .. torn
  <2>1. torn = (IF d # 0 THEN 1 ELSE 0) + IF e # 0 THEN 1 ELSE 0
    BY <1>4, <1>5, TornReads DEF Two
  <2> HIDE DEF torn
  <2> QED
    BY <2>1, <1>4, <1>5 DEF k
<1>12. x \in Time!Min({el, eh}) - Time!Max({sl, sh}) .. Time!Max({el, eh}) - Time!Min({sl, sh})
  <2>1. el \in Int /\ eh \in Int /\ sl \in Int /\ sh \in Int
    BY <1>1, <1>3
  <2>2. /\ Time!Min({el, eh}) \in Int /\ Time!Min({el, eh}) <= el
        /\ Time!Max({el, eh}) \in Int /\ el <= Time!Max({el, eh})
    BY <2>1, BetweenTwo
  <2>3. /\ Time!Min({sl, sh}) \in Int /\ Time!Min({sl, sh}) <= sl
        /\ Time!Max({sl, sh}) \in Int /\ sl <= Time!Max({sl, sh})
    BY <2>1, BetweenTwo
  <2> QED
    BY <2>1, <2>2, <2>3 DEF x
<1>13. (Time!Cycles + k * LOW) % (LOW * LOW) = x
  BY <1>8, <1>10 DEF M
<1>14. \E m \in -torn .. torn :
         (Time!Cycles + m * LOW) % (LOW * LOW)
           \in Time!Min({el, eh}) - Time!Max({sl, sh}) .. Time!Max({el, eh}) - Time!Min({sl, sh})
  BY <1>11, <1>12, <1>13
<1> QED
  BY <1>14 DEF Time!OffByTurns, el, eh, sl, sh
=============================================================================
