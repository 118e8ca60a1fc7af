------------------------------- MODULE WifiMain -------------------------------
(***************************************************************************)
(* src/wifi_main.c: initialise the chip, join, blink, disconnect.  Unlike  *)
(* the clients, main() does not look at the result of the join.            *)
(***************************************************************************)
EXTENDS ClientMain

Init == MainInit

\* Faulty variant: a failed join returns at once, as in the clients.
JoinReturnedEarly ==
  /\ at = "wifi" /\ wifi = "returned"
  /\ at' = IF wifiRet = "WOLF_SUCCESS" THEN "deinit" ELSE "exit"
  /\ UNCHANGED <<arch, lock, wifiVars>>

JoinReturned ==
  /\ at = "wifi" /\ wifi = "returned"
  /\ at' = "deinit"
  /\ UNCHANGED <<arch, lock, wifiVars>>

Next == Boot \/ Join \/ JoinReturned \/ ArchDeinit

-----------------------------------------------------------------------------
(* Properties.                                                             *)

TypeOK ==
  /\ at \in {"boot", "wifi", "deinit", "exit"} /\ arch \in BOOLEAN /\ lock = 0
  /\ wifi \in {"idle", "loop", "sleep", "returned"} /\ retry \in 0 .. MAX_RETRY

\* The chip is down and the link with it when the program ends, also after a
\* join that failed, where the clients leave the chip up.
ChipDownAtExit == at = "exit" => ~arch /\ ~link
=============================================================================
