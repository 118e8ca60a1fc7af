--------------------------------- MODULE Timer ---------------------------------
(***************************************************************************)
(* How src/blink.c times an operation: the 64-bit microsecond timer is     *)
(* read as timerawl | (timerawh << 32), two reads of two registers with    *)
(* the timer running, before the operation and after it, and the           *)
(* difference is printed.  C leaves the order of the two reads open.       *)
(***************************************************************************)
EXTENDS Integers, FiniteSetsExt

CONSTANTS
  LOW,         \* 2^32, what timerawl counts to
  READ_TICKS,  \* most ticks between the two halves of one read, below LOW
  MAX_TIME     \* bound: the time at which the model stops

VARIABLES
  now,    \* the timer
  phase,  \* "start" and "end" (the two reads), "done"
  read    \* for each of the two, the times its halves were read at so far

vars == <<now, phase, read>>

Halves == {"low", "high"}

\* The program may reach the measurement at any time.
Init ==
  /\ now \in 0 .. MAX_TIME
  /\ phase = "start"
  /\ read = [start |-> << >>, end |-> << >>]

\* A microsecond passes; an interrupt can stretch a read only so far.
Tick ==
  /\ phase # "done" /\ now < MAX_TIME
  /\ \A h \in DOMAIN read[phase] : now - read[phase][h] < READ_TICKS
  /\ now' = now + 1
  /\ UNCHANGED <<phase, read>>

ReadHalf(h) ==
  /\ phase # "done" /\ h \notin DOMAIN read[phase]
  /\ read' = [read EXCEPT ![phase] =
                [g \in DOMAIN @ \cup {h} |-> IF g = h THEN now ELSE @[g]]]
  /\ phase' = IF DOMAIN read'[phase] # Halves THEN phase
              ELSE IF phase = "start" THEN "end" ELSE "done"
  /\ UNCHANGED now

Next == Tick \/ \E h \in Halves : ReadHalf(h)

\* Faulty variant: the low half is not cut to its register.
ValueUncut(p) == read[p].low + LOW * (read[p].high \div LOW)

\* The word a read puts together.
Value(p) == (read[p].low % LOW) + LOW * (read[p].high \div LOW)

\* cycles = end - start, in 64 bits.
Cycles == (Value("end") - Value("start")) % (LOW * LOW)

-----------------------------------------------------------------------------
(* Properties.                                                             *)

TypeOK ==
  /\ now \in 0 .. MAX_TIME /\ phase \in {"start", "end", "done"}
  /\ \A p \in {"start", "end"} : DOMAIN read[p] \subseteq Halves

\* The low half of a read wrapped between its two halves.
Torn(p) == read[p].low \div LOW # read[p].high \div LOW

\* The printed time lies between the shortest and the longest the operation
\* can have taken, up to one whole turn of the low register, 71 minutes, for
\* each of the two reads that was torn: an error that no measurement in
\* between shows and no test of seconds meets.
OffByTurns ==
  phase = "done" =>
    LET torn     == Cardinality({p \in {"start", "end"} : Torn(p)})
        Early(p) == Min({read[p].low, read[p].high})
        Late(p)  == Max({read[p].low, read[p].high})
    IN  \E k \in -torn .. torn :
          (Cycles + k * LOW) % (LOW * LOW)
            \in Early("end") - Late("start") .. Late("end") - Early("start")
=============================================================================
