-------------------------------- MODULE Nesting --------------------------------
(***************************************************************************)
(* What a program promises of the resources it acquires: each is used on   *)
(* top of those it already holds, and they are given back from the top.    *)
(* Of those that go, some kinds may get lost: still there, and out of the  *)
(* program's reach for good.                                               *)
(***************************************************************************)
EXTENDS SequencesExt

CONSTANTS
  Resources,
  Losable     \* the resources the program may lose

VARIABLES
  held,   \* the resources, in the order they were acquired
  lost    \* those the program can no longer give back

nestVars == <<held, lost>>

Init == held = << >> /\ lost = {}

Acquire(r) ==
  /\ r \notin ToSet(held) \cup lost
  /\ held' = Append(held, r)
  /\ lost' = lost

Release ==
  /\ IsStrictPrefix(held', held)
  /\ lost \subseteq lost'
  /\ lost' \ lost \subseteq Losable \cap (ToSet(held) \ ToSet(held'))

Next == Release \/ \E r \in Resources : Acquire(r)

Spec == Init /\ [][Next]_nestVars
=============================================================================
