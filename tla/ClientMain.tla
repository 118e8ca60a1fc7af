------------------------------ MODULE ClientMain ------------------------------
(***************************************************************************)
(* The main() the TCP and the TLS client share: initialise the Wi-Fi chip, *)
(* join the network, take the lwIP lock, run the test, release the lock,   *)
(* shut the chip down.                                                     *)
(***************************************************************************)
EXTENDS Integers, Wifi

VARIABLES
  at,     \* where main() is
  arch,   \* whether the Wi-Fi architecture is initialised
  lock    \* depth of cyw43_arch_lwip_begin

mainVars == <<at, arch, lock, wifiVars>>

MainInit == WifiInit /\ at = "boot" /\ arch = FALSE /\ lock = 0

\* blink(20, 1): WOLF_BLINK_INIT initialises the architecture.
Boot ==
  /\ at = "boot"
  /\ arch' = TRUE /\ at' = "wifi"
  /\ UNCHANGED <<lock, wifiVars>>

Join == at = "wifi" /\ WifiStep /\ UNCHANGED <<at, arch, lock>>

\* Faulty variants: cyw43_arch_lwip_begin is left out; the result of
\* wolf_wifiConnect is ignored.
JoinedNoBegin ==
  /\ at = "wifi" /\ wifi = "returned"
  /\ at' = IF wifiRet = "WOLF_SUCCESS" THEN "test" ELSE "exit"
  /\ UNCHANGED <<arch, lock, wifiVars>>

JoinedIgnoresResult ==
  /\ at = "wifi" /\ wifi = "returned"
  /\ lock' = lock + 1 /\ at' = "test"
  /\ UNCHANGED <<arch, wifiVars>>

\* A failure to join returns from main at once; success takes the lwIP lock.
Joined ==
  /\ at = "wifi" /\ wifi = "returned"
  /\ IF wifiRet = "WOLF_SUCCESS"
     THEN lock' = lock + 1 /\ at' = "test"
     ELSE lock' = lock /\ at' = "exit"
  /\ UNCHANGED <<arch, wifiVars>>

\* The test function has returned: the lock is released.
TestReturned ==
  /\ at = "test"
  /\ lock' = lock - 1 /\ at' = "deinit"
  /\ UNCHANGED <<arch, wifiVars>>

\* cyw43_arch_deinit takes the interface, and so the link, down.
ArchDeinit ==
  /\ at = "deinit"
  /\ arch' = FALSE /\ link' = FALSE /\ at' = "exit"
  /\ UNCHANGED <<lock, wifi, retry, failures, wifiRet>>

-----------------------------------------------------------------------------

\* What wolf_wifiConnect returns is the truth about the link for as long as
\* the chip is up, and it gives up only after MAX_RETRY attempts that each
\* failed.
WifiResult ==
  arch /\ wifi = "returned" =>
    /\ wifiRet = (IF link THEN "WOLF_SUCCESS" ELSE "WOLF_FAIL")
    /\ ~link => failures = MAX_RETRY
=============================================================================
