-------------------------------- MODULE MCBoard --------------------------------
(* Model-checking instance of every program that opens no connection:      *)
(* those of MCPrograms and the straight-line programs, blink's timing, the *)
(* memory test, the Wi-Fi demonstration and the script on the PC.          *)
EXTENDS MCPrograms

CONSTANTS
  WORD,
  LOW, READ_TICKS, MAX_TIME,
  RAM, STACK_SIZE, HEAP_SIZE, Images, KeySizes, RSA_STACK, FRAME,
  MAX_RETRY,
  BASE, CipherLen

ASSUME TimerAssumption ==
  /\ LOW \in Nat \ {0} /\ READ_TICKS \in Nat /\ READ_TICKS < LOW
  /\ MAX_TIME \in Nat /\ MAX_TIME < LOW * LOW   \* the 64-bit timer does not wrap

ASSUME LayoutAssumption ==
  /\ RAM \in Nat /\ STACK_SIZE \in 0 .. RAM /\ HEAP_SIZE \in Nat
  /\ Images \subseteq 0 .. RAM /\ KeySizes \subseteq 0 .. RAM
  /\ RSA_STACK \in Nat /\ FRAME \in Nat

ASSUME RetryAssumption == MAX_RETRY \in Nat

ASSUME BytesAssumption == BASE \in Nat \ {0} /\ CipherLen \in Nat \ {0}

VARIABLES
  made, decryptedLen, printed,                          \* CallChain
  now, phase, read,                                     \* Timer
  image, limit, step, i, block, key, top, depth, sp,    \* StackHeap
  wifi, retry, link, failures, wifiRet, arch, lock,     \* WifiMain
  stage, line, coming, enc_len, timeouts                \* HostScript

chainVars == <<made, decryptedLen, printed>>
timeVars  == <<now, phase, read>>
ramVars   == <<image, limit, step, i, block, key, top, depth, sp>>
wlanVars  == <<wifi, retry, link, failures, wifiRet, arch, lock>>
hostVars  == <<stage, line, coming, enc_len, timeouts>>

Chain == INSTANCE CallChain
Time  == INSTANCE Timer
Ram   == INSTANCE StackHeap
Wlan  == INSTANCE WifiMain
Host  == INSTANCE HostScript

ChainOff == made = Off /\ decryptedLen = Off /\ printed = Off
TimeOff  == now = Off /\ phase = Off /\ read = Off
RamOff   == /\ image = Off /\ limit = Off /\ step = Off /\ i = Off /\ block = Off
            /\ key = Off /\ top = Off /\ depth = Off /\ sp = Off
WlanOff  == /\ wifi = Off /\ retry = Off /\ link = Off /\ failures = Off
            /\ wifiRet = Off /\ arch = Off /\ lock = Off
HostOff  == /\ stage = Off /\ line = Off /\ coming = Off /\ enc_len = Off
            /\ timeouts = Off

\* Off is everything of MCPrograms that the new programs do not share.
RestOff == /\ iter = Off /\ rc = Off /\ verify_res = Off
           /\ SigOff /\ RsaOff /\ AesOff /\ CheckOff /\ RngOff /\ KeyOff /\ KemOff
           /\ HeapOff
restVars == <<iter, rc, verify_res, sigVars, rsaVars, aesVars, checkVars,
              rng, keyVars, kemVars, heapVars>>

BoardInit ==
  \/ Init /\ ChainOff /\ TimeOff /\ RamOff /\ WlanOff /\ HostOff
  \/ Chain!Init /\ RestOff /\ TimeOff /\ RamOff /\ WlanOff /\ HostOff
  \/ /\ status = Off /\ failed = Off /\ RestOff /\ ChainOff
     /\ \/ program = "timing" /\ Time!Init /\ at = Off /\ RamOff /\ WlanOff /\ HostOff
        \/ program = "stackheap" /\ Ram!Init /\ at = Off /\ TimeOff /\ WlanOff /\ HostOff
        \/ program = "wifi_main" /\ Wlan!Init /\ TimeOff /\ RamOff /\ HostOff
        \/ program = "host" /\ Host!Init /\ at = Off /\ TimeOff /\ RamOff /\ WlanOff

BoardNext ==
  \/ /\ Next
     /\ UNCHANGED <<chainVars, timeVars, ramVars, wlanVars, hostVars>>
  \/ /\ program \in DOMAIN Chain!Chain /\ Chain!Next
     /\ UNCHANGED <<restVars, timeVars, ramVars, wlanVars, hostVars>>
  \/ /\ UNCHANGED <<program, status, failed, restVars, chainVars>>
     /\ \/ /\ program = "timing" /\ Time!Next
           /\ UNCHANGED <<at, ramVars, wlanVars, hostVars>>
        \/ /\ program = "stackheap" /\ Ram!Next
           /\ UNCHANGED <<at, timeVars, wlanVars, hostVars>>
        \/ /\ program = "wifi_main" /\ Wlan!Next
           /\ UNCHANGED <<timeVars, ramVars, hostVars>>
        \/ /\ program = "host" /\ Host!Next
           /\ UNCHANGED <<at, timeVars, ramVars, wlanVars>>

boardVars == <<vars, chainVars, timeVars, ramVars, wlanVars, hostVars>>

\* A program runs on its own; the calls it makes return and its sleeps end.
BoardSpec == BoardInit /\ [][BoardNext]_boardVars /\ WF_boardVars(BoardNext)

-----------------------------------------------------------------------------
(* The programs' properties, each of the program it belongs to.            *)

IsChain == program \in DOMAIN Chain!Chain

\* The variables of the running program have their types.
BoardTypeOK ==
  CASE IsChain                 -> Chain!TypeOK
    [] program = "timing"      -> Time!TypeOK
    [] program = "stackheap"   -> Ram!TypeOK
    [] program = "wifi_main"   -> Wlan!TypeOK
    [] program = "host"        -> Host!TypeOK
    [] OTHER                   -> ProgramTypeOK

\* Every program comes to its end whichever of its calls fail: its exit, its
\* idle loop, a panic or a fault.
EveryProgramEnds ==
  <>(CASE program = "bench_main" -> Rsa!Finished
       [] program = "timing"     -> phase = "done"
       [] program = "stackheap"  -> step \in {"idle", "panic"}
       [] program = "wifi_main"  -> at = "exit"
       [] program = "host"       -> stage \in {"key", "error"}
       [] OTHER                  -> status # "running")

\* What the printed outcomes say: rsa prints SUCCESS for a full round trip and
\* for nothing else, and a match in a benchmark has the calls behind it that
\* MatchesAreBacked names.
ReportIsTrue ==
  /\ IsChain => Chain!SuccessIsRoundTrip
  /\ MatchesAreBacked

\* blink: "Print decrypted message" should print the message.
PrintsMessage == IsChain => Chain!PrintsMessage

\* The straight-line programs use a raw struct only after a failed init.
FaultNeedsFailedInit == IsChain => Chain!FaultNeedsFailedInit

\* blink's times are off by whole turns of the low register, one a torn read.
OffByTurns == program = "timing" => Time!OffByTurns

\* stackheap's heap and stack stay within their demands, whatever the image.
HeapAndStackBounded == program = "stackheap" => Ram!HeapAndStackBounded

\* What each program still holds when it ends, on which way out: what
\* KeptByPrograms says; nothing in blink and ecc, every initialised struct in
\* rsa and rsaKeydis_benchmark; and in stackheap the RSA key alone.
KeptAtEnd ==
  /\ KeptByPrograms
  /\ IsChain => Chain!KeptAtEnd
  /\ program = "stackheap" => Ram!OnlyKeyIsKept

\* wifi_main ends with the chip down, joined or not.
ChipDownAtExit == program = "wifi_main" => Wlan!ChipDownAtExit

\* host prints the board's key when neither of its reads timed out, only then.
KeyNeedsBothReads == program = "host" => Host!KeyNeedsBothReads
=============================================================================
