---------------------------- MODULE ClientMainProofs ----------------------------
(***************************************************************************)
(* What the main() of the clients keeps, whatever the test it runs does.   *)
(***************************************************************************)
EXTENDS ClientMain, TLAPS

\* The loop of wolf_wifiConnect: its counter is the number of failed attempts.
JoinInv ==
  /\ wifi \in {"idle", "loop", "sleep", "returned"}
  /\ retry \in Nat /\ failures \in Nat
  /\ wifi = "idle" => failures = 0 /\ ~link
  /\ wifi = "loop" => failures = retry /\ retry <= MAX_RETRY /\ ~link
  /\ wifi = "sleep" => failures = retry + 1 /\ retry < MAX_RETRY /\ ~link
  /\ WifiResult

\* Which of chip, link and lock main() has at each place.
MainInv ==
  /\ JoinInv /\ arch \in BOOLEAN
  /\ at \in {"boot", "wifi", "test", "deinit", "exit"}
  /\ at = "boot" => wifi = "idle"
  /\ at \in {"wifi", "test", "deinit"} => arch
  /\ at \in {"test", "deinit"} => wifi = "returned" /\ link
  /\ at = "exit" => (arch <=> wifiRet = "WOLF_FAIL")
  /\ lock = (IF at = "test" THEN 1 ELSE 0)
  /\ link => arch

\* main() starts in its invariant.
LEMMA MainInitially == ASSUME MainInit PROVE MainInv
BY RetryAssumption DEF MainInit, WifiInit, MainInv, JoinInv, WifiResult

\* A step of the join keeps the join's invariant.
LEMMA JoinKeepsJoinInv ==
  ASSUME JoinInv, WifiStep, arch, arch' = arch
  PROVE  JoinInv'
<1>1. CASE WifiConnect
  BY <1>1, RetryAssumption DEF WifiConnect, JoinInv, WifiResult
<1>2. CASE JoinSucceeds
  BY <1>2, RetryAssumption DEF JoinSucceeds, JoinInv, WifiResult
<1>3. CASE JoinFails
  BY <1>3, RetryAssumption DEF JoinFails, JoinInv, WifiResult
<1>4. CASE SleepEnds
  BY <1>4, RetryAssumption DEF SleepEnds, JoinInv, WifiResult
<1>5. CASE GiveUp
  BY <1>5, RetryAssumption DEF GiveUp, JoinInv, WifiResult
<1> QED
  BY <1>1, <1>2, <1>3, <1>4, <1>5 DEF WifiStep

\* Every step of main(), and any step that leaves its variables alone.
LEMMA MainKeepsMainInv ==
  ASSUME MainInv,
         Boot \/ Join \/ Joined \/ TestReturned \/ ArchDeinit \/ UNCHANGED mainVars
  PROVE  MainInv'
<1>1. CASE Boot
  BY <1>1 DEF Boot, MainInv, JoinInv, WifiResult, wifiVars
<1>2. CASE Join
  <2>1. arch /\ arch' = arch /\ at' = at /\ lock' = lock /\ at = "wifi" /\ WifiStep
    BY <1>2 DEF Join, MainInv
  <2>2. JoinInv'
    BY <2>1, JoinKeepsJoinInv DEF MainInv
  <2> QED
    BY <2>1, <2>2 DEF MainInv
<1>3. CASE Joined
  BY <1>3 DEF Joined, MainInv, JoinInv, WifiResult, wifiVars
<1>4. CASE TestReturned
  BY <1>4 DEF TestReturned, MainInv, JoinInv, WifiResult, wifiVars
<1>5. CASE ArchDeinit
  BY <1>5 DEF ArchDeinit, MainInv, JoinInv, WifiResult
<1>6. CASE UNCHANGED mainVars
  BY <1>6 DEF mainVars, wifiVars, MainInv, JoinInv, WifiResult
<1> QED
  BY <1>1, <1>2, <1>3, <1>4, <1>5, <1>6
=============================================================================
