------------------------- MODULE DeadlineConnProofs -------------------------
(***************************************************************************)
(* The safety properties of DeadlineConn, for every ioTimeout, every       *)
(* salvage timeout and every bound on the context's deadline.              *)
(***************************************************************************)
EXTENDS DeadlineConn, TLAPS

\* The abort deadline and the watcher are the context's doing: before ctx is
\* done the watcher has not run and nobody sets abortDeadline.
WatcherFollowsContext ==
  ctxErr = "nil" => watcher = "waiting" /\ deadline # Abort /\ pc # "reinstate"

\* What refresh has computed, and then set, is within the context's deadline.
RefreshWithinContext ==
  /\ pc = "set" /\ ctxLeft # None => t <= ctxLeft
  /\ pc \in {"recheck", "io"} /\ ctxLeft # None => deadline <= ctxLeft

\* A deadline is either the context's or ioTimeout ahead of the moment refresh
\* read the clock.
DeadlineOrigin ==
  /\ pc = "set" => t = ctxLeft \/ t + age = ioTimeout
  /\ pc \in {"recheck", "io"} =>
       deadline = Abort \/ deadline = ctxLeft \/ deadline + age = ioTimeout
  /\ pc = "failed" /\ cause = "deadline" =>
       ctxErr # "nil" \/ ctxLeft = 0 \/ age = ioTimeout

\* Blame is laid once, at the end.
BlameAtEnd == pc # "ended" => blame = "none"

IInv ==
  /\ TypeOK /\ AbortReachesIO /\ WatcherFollowsContext
  /\ RefreshWithinContext /\ DeadlineOrigin
  /\ BlameAtEnd /\ TimeoutIsTransport

USE DEF Abort, None

\* The strengthened invariant holds initially.
LEMMA InitIInv == Init => IInv
<1> SUFFICES ASSUME Init PROVE IInv
    OBVIOUS
<1>1. salvaging \in BOOLEAN
      BY Zenon DEF Init
<1> QED
  BY <1>1, TimeAssumption DEF TimeAssumption, Init, IInv, TypeOK, AbortReachesIO,
     WatcherFollowsContext, RefreshWithinContext, DeadlineOrigin, BlameAtEnd,
     TimeoutIsTransport, PCs, Refreshing

\* Every step of refresh, I/O, watcher, context and clock preserves it.
LEMMA NextIInv == IInv /\ [Next]_vars => IInv'
<1> USE TimeAssumption DEF TimeAssumption, PCs, Refreshing, limit
<1> SUFFICES ASSUME IInv, [Next]_vars PROVE IInv'
    OBVIOUS
<1> USE DEF IInv, TypeOK, AbortReachesIO, WatcherFollowsContext,
        RefreshWithinContext, DeadlineOrigin, BlameAtEnd, TimeoutIsTransport
<1>1. CASE Check
      BY <1>1 DEF Check
<1>2. CASE Compute
      BY <1>2 DEF Compute, Earlier
<1>3. CASE Set
      BY <1>3 DEF Set
<1>4. CASE SetFails
      BY <1>4 DEF SetFails
<1>5. CASE Recheck
      BY <1>5 DEF Recheck
<1>6. CASE Reinstate
      BY <1>6 DEF Reinstate
<1>7. CASE IOSucceeds
      BY <1>7 DEF IOSucceeds
<1>8. CASE IOTimesOut
      BY <1>8 DEF IOTimesOut
<1>9. CASE PeerFails
      BY <1>9 DEF PeerFails
<1>10. CASE Classify
      BY <1>10 DEF Classify, ctxError
<1>11. CASE Salvage
      BY <1>11 DEF Salvage, ctxError
<1>12. CASE WatcherRuns
      BY <1>12 DEF WatcherRuns
<1>13. CASE Cancel
      BY <1>13 DEF Cancel
<1>14. CASE TimerFires
      BY <1>14 DEF TimerFires
<1>15. CASE Tick
      BY <1>15 DEF Tick, Sooner
<1>16. CASE Return
  <2>1. salvaging' \in BOOLEAN
        BY <1>16, Zenon DEF Return
  <2> QED
    BY <1>16, <2>1 DEF Return
<1>17. CASE UNCHANGED vars
      BY <1>17 DEF vars
<1> QED
  BY <1>1, <1>2, <1>3, <1>4, <1>5, <1>6, <1>7, <1>8, <1>9, <1>10, <1>11,
     <1>12, <1>13, <1>14, <1>15, <1>16, <1>17 DEF Next, Goroutine, Network

\* The strengthened invariant is an invariant.
THEOREM Invariance == Spec => []IInv
BY InitIInv, NextIInv, PTL DEF Spec

\* Types, and with them: no connection deadline is ever further ahead than
\* ioTimeout (deadlineConn.refresh).
THEOREM TypeCorrect == Spec => []TypeOK
<1>1. IInv => TypeOK
      BY DEF IInv
<1> QED
  BY <1>1, Invariance, PTL

\* The race between refresh and the cancel watcher is closed, for every
\* interleaving: no refresh overwrites an abort for good.
THEOREM AbortIsNeverLost == Spec => []AbortReachesIO
<1>1. IInv => AbortReachesIO
      BY DEF IInv
<1> QED
  BY <1>1, Invariance, PTL

\* An operation in progress never has a deadline beyond the context's.
THEOREM DeadlinesRespectContext == Spec => []WithinContext
<1>1. IInv => WithinContext
      BY DEF IInv, RefreshWithinContext, WithinContext
<1> QED
  BY <1>1, Invariance, PTL

\* A timeout that is reported as a transport failure has lasted ioTimeout, in
\* whatever order the timers of context and connection fire (ctxError).
THEOREM TimeoutsAreBlamedRight == Spec => []TimeoutIsTransport
<1>1. IInv => TimeoutIsTransport
      BY DEF IInv
<1> QED
  BY <1>1, Invariance, PTL

=============================================================================
