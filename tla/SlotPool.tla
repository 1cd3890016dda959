------------------------------ MODULE SlotPool ------------------------------
(***************************************************************************)
(* What WithMaxConcurrentScans promises: at most Slots scans at a time;    *)
(* the others wait for a slot or give up.  Slots = 0 is a client without a *)
(* limit.  That those that wait are served in the order in which they came *)
(* is no promise of the option but of the Go runtime, whose channels queue *)
(* their senders.                                                          *)
(***************************************************************************)
EXTENDS Naturals, Sequences, FiniteSets, SequencesExt

CONSTANTS Scans, Slots

VARIABLES
  holders,   \* the scans that have a slot
  waiting    \* the scans that wait for one, first come first

Init == holders = {} /\ waiting = <<>>

\* A scan that finds a free slot takes it; nobody can be waiting then.
Enter(s) ==
  /\ s \notin holders
  /\ Slots = 0 \/ (waiting = <<>> /\ Cardinality(holders) < Slots)
  /\ holders' = holders \cup {s}
  /\ UNCHANGED waiting

Wait(s) ==
  /\ s \notin holders /\ s \notin ToSet(waiting)
  /\ Slots # 0 /\ Cardinality(holders) = Slots
  /\ waiting' = Append(waiting, s)
  /\ UNCHANGED holders

\* A scan whose context is done leaves the queue and nobody loses a turn.
GiveUp(i) ==
  /\ waiting' = RemoveAt(waiting, i)
  /\ UNCHANGED holders

\* A freed slot goes to the first in the queue in the same step.
Leave(s) ==
  /\ s \in holders
  /\ IF waiting = <<>>
       THEN holders' = holders \ {s} /\ UNCHANGED waiting
       ELSE /\ holders' = (holders \ {s}) \cup {Head(waiting)}
            /\ waiting' = Tail(waiting)

Next ==
  \/ \E s \in Scans : Enter(s) \/ Wait(s) \/ Leave(s)
  \/ \E i \in DOMAIN waiting : GiveUp(i)

Spec == Init /\ [][Next]_<<holders, waiting>>
=============================================================================
