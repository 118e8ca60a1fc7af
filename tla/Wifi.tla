--------------------------------- MODULE Wifi ---------------------------------
(***************************************************************************)
(* Joining the network: wolf_wifiConnect of src/wifi.c, a join attempt     *)
(* repeated up to MAX_RETRY times with a second's sleep after each failed  *)
(* one.  The join itself is the SDK's cyw43_arch_wifi_connect_timeout_ms,  *)
(* which succeeds or fails (a timeout is a failure).                       *)
(***************************************************************************)
EXTENDS Integers

CONSTANT MAX_RETRY

ASSUME RetryAssumption == MAX_RETRY \in Nat

VARIABLES
  wifi,      \* where wolf_wifiConnect is
  retry,     \* its loop counter
  link,      \* whether the station is joined
  failures,  \* history: failed attempts
  wifiRet    \* what wolf_wifiConnect returned

wifiVars == <<wifi, retry, link, failures, wifiRet>>

WifiInit ==
  wifi = "idle" /\ retry = 0 /\ link = FALSE /\ failures = 0 /\ wifiRet = "none"

\* The call: station mode is enabled and the loop entered.
WifiConnect ==
  /\ wifi = "idle"
  /\ wifi' = "loop" /\ retry' = 0
  /\ UNCHANGED <<link, failures, wifiRet>>

JoinSucceeds ==
  /\ wifi = "loop" /\ retry < MAX_RETRY
  /\ link' = TRUE /\ wifiRet' = "WOLF_SUCCESS" /\ wifi' = "returned"
  /\ UNCHANGED <<retry, failures>>

JoinFails ==
  /\ wifi = "loop" /\ retry < MAX_RETRY
  /\ failures' = failures + 1 /\ wifi' = "sleep"
  /\ UNCHANGED <<retry, link, wifiRet>>

\* sleep_ms(1000) ends and the loop counter advances.
SleepEnds ==
  /\ wifi = "sleep"
  /\ retry' = retry + 1 /\ wifi' = "loop"
  /\ UNCHANGED <<link, failures, wifiRet>>

\* Faulty variant: one attempt too few.
GiveUpEarly ==
  /\ wifi = "loop" /\ retry + 1 >= MAX_RETRY
  /\ wifiRet' = "WOLF_FAIL" /\ wifi' = "returned"
  /\ UNCHANGED <<retry, link, failures>>

GiveUp ==
  /\ wifi = "loop" /\ retry >= MAX_RETRY
  /\ wifiRet' = "WOLF_FAIL" /\ wifi' = "returned"
  /\ UNCHANGED <<retry, link, failures>>

WifiStep == WifiConnect \/ JoinSucceeds \/ JoinFails \/ SleepEnds \/ GiveUp
=============================================================================
