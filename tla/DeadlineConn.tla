---------------------------- MODULE DeadlineConn ----------------------------
(***************************************************************************)
(* The deadlines of one connection: deadlineConn.refresh step by step      *)
(* (src/conn.go), the context.AfterFunc watcher of scanStream that sets    *)
(* abortDeadline from another goroutine, the clock, and the way ctxError   *)
(* tells a timeout of the context from one of ioTimeout (src/client.go).   *)
(*                                                                         *)
(* An instant is the time left until it, which Tick counts down; 0 is an   *)
(* instant that has come.  Abort and None are negative and stay put.       *)
(***************************************************************************)
EXTENDS Integers

CONSTANTS
  IOTimeout,        \* cfg.ioTimeout
  SalvageTimeout,   \* the two seconds recoverStreamError allows for a reply
  MaxContext        \* bound on the time a context deadline lies ahead

ASSUME TimeAssumption ==
  /\ IOTimeout \in Nat \ {0} /\ SalvageTimeout \in Nat \ {0}
  /\ MaxContext \in Nat

Abort == -1    \* abortDeadline
None  == -2    \* no deadline

VARIABLES
  pc,         \* where the goroutine is in refresh, in its I/O or after it
  ctxErr,     \* ctx.Err()
  ctxLeft,    \* time left until the context's deadline
  ioTimeout,  \* the field of deadlineConn; recoverStreamError lowers it
  salvaging,  \* recoverStreamError is looking for a reply
  t,          \* refresh's local variable
  deadline,   \* the connection's deadline
  watcher,    \* the AfterFunc: "waiting" or "ran"
  cause,      \* history: what made the last operation fail
  age,        \* history: time since refresh read the clock, up to ioTimeout
  blame       \* the error class the operation ends with

limit == <<ioTimeout, salvaging>>
vars == <<pc, ctxErr, ctxLeft, limit, t, deadline, watcher, cause, age, blame>>

Refreshing == {"check", "compute", "set", "recheck", "reinstate"}
PCs == Refreshing \cup {"io", "failed", "ended"}

-----------------------------------------------------------------------------
(* refresh, one access to shared state per step.                           *)

Check ==
  /\ pc = "check"
  /\ IF ctxErr # "nil" THEN pc' = "failed" /\ cause' = "context"
                       ELSE pc' = "compute" /\ cause' = cause
  /\ UNCHANGED <<ctxErr, ctxLeft, limit, t, deadline, watcher, age, blame>>

\* ioTimeout alone.
EarlierIgnoringContext == ioTimeout

\* The later of the two.
EarlierIsLater == IF ctxLeft # None /\ ctxLeft > ioTimeout THEN ctxLeft ELSE ioTimeout

\* min(now + ioTimeout, context deadline)
Earlier == IF ctxLeft # None /\ ctxLeft < ioTimeout THEN ctxLeft ELSE ioTimeout

Compute ==
  /\ pc = "compute"
  /\ t' = Earlier /\ age' = 0
  /\ pc' = "set"
  /\ UNCHANGED <<ctxErr, ctxLeft, limit, deadline, watcher, cause, blame>>

\* The connection is left without a deadline.
SetSkipped ==
  /\ pc = "set"
  /\ pc' = "recheck"
  /\ UNCHANGED <<ctxErr, ctxLeft, limit, t, deadline, watcher, cause, age,
                 blame>>

Set ==
  /\ pc = "set"
  /\ deadline' = t
  /\ pc' = "recheck"
  /\ UNCHANGED <<ctxErr, ctxLeft, limit, t, watcher, cause, age, blame>>

\* SetDeadline itself fails.
SetFails ==
  /\ pc = "set"
  /\ pc' = "failed" /\ cause' = "peer"
  /\ UNCHANGED <<ctxErr, ctxLeft, limit, t, deadline, watcher, age, blame>>

\* No second look at the context.
RecheckMissing ==
  /\ pc = "recheck"
  /\ pc' = "io"
  /\ UNCHANGED <<ctxErr, ctxLeft, limit, t, deadline, watcher, cause, age,
                 blame>>

\* The watcher may have set abortDeadline just before Set overwrote it.
Recheck ==
  /\ pc = "recheck"
  /\ pc' = (IF ctxErr # "nil" THEN "reinstate" ELSE "io")
  /\ UNCHANGED <<ctxErr, ctxLeft, limit, t, deadline, watcher, cause, age,
                 blame>>

Reinstate ==
  /\ pc = "reinstate"
  /\ deadline' = Abort
  /\ pc' = "failed" /\ cause' = "context"
  /\ UNCHANGED <<ctxErr, ctxLeft, limit, t, watcher, age, blame>>

-----------------------------------------------------------------------------
(* The Read or Write itself.                                               *)

\* It succeeds and another one follows.
IOSucceeds ==
  /\ pc = "io"
  /\ pc' = "check"
  /\ UNCHANGED <<ctxErr, ctxLeft, limit, t, deadline, watcher, cause, age,
                 blame>>

IOTimesOut ==
  /\ pc = "io" /\ deadline \in {Abort, 0}
  /\ pc' = "failed" /\ cause' = "deadline"
  /\ UNCHANGED <<ctxErr, ctxLeft, limit, t, deadline, watcher, age, blame>>

PeerFails ==
  /\ pc = "io"
  /\ pc' = "failed" /\ cause' = "peer"
  /\ UNCHANGED <<ctxErr, ctxLeft, limit, t, deadline, watcher, age, blame>>

-----------------------------------------------------------------------------
(* Classification.                                                         *)

\* ctx.Err() alone.
ctxErrorTimerOnly == ctxErr

ctxError ==
  IF ctxErr # "nil" THEN ctxErr
  ELSE IF ctxLeft = 0 THEN "DeadlineExceeded" ELSE "nil"

\* wrapWriteErr, wrapReadErr: the context's error first.
Classify ==
  /\ pc = "failed"
  /\ blame' = (IF ctxError # "nil" THEN ctxError ELSE "ConnectionError")
  /\ pc' = "ended"
  /\ UNCHANGED <<ctxErr, ctxLeft, limit, t, deadline, watcher, cause, age>>

\* recoverStreamError: no context error, so a reply is looked for, briefly.
Salvage ==
  /\ pc = "failed" /\ ctxError = "nil" /\ ~salvaging
  /\ salvaging' = TRUE
  /\ ioTimeout' = (IF SalvageTimeout < ioTimeout THEN SalvageTimeout ELSE ioTimeout)
  /\ pc' = "check"
  /\ UNCHANGED <<ctxErr, ctxLeft, t, deadline, watcher, cause, age, blame>>

-----------------------------------------------------------------------------
(* The watcher, the context and the clock.                                 *)

\* context.AfterFunc runs in a goroutine of its own once ctx is done.
WatcherRuns ==
  /\ ctxErr # "nil" /\ watcher = "waiting"
  /\ watcher' = "ran" /\ deadline' = Abort
  /\ UNCHANGED <<pc, ctxErr, ctxLeft, limit, t, cause, age, blame>>

Cancel ==
  /\ ctxErr = "nil" /\ pc # "ended"
  /\ ctxErr' = "Canceled"
  /\ UNCHANGED <<pc, ctxLeft, limit, t, deadline, watcher, cause, age, blame>>

TimerFires ==
  /\ ctxErr = "nil" /\ ctxLeft = 0
  /\ ctxErr' = "DeadlineExceeded"
  /\ UNCHANGED <<pc, ctxLeft, limit, t, deadline, watcher, cause, age, blame>>

Sooner(x) == IF x > 0 THEN x - 1 ELSE x

Tick ==
  /\ pc # "ended"
  /\ ctxLeft' = Sooner(ctxLeft)
  /\ t' = Sooner(t)
  /\ deadline' = Sooner(deadline)
  /\ age' = (IF age < ioTimeout THEN age + 1 ELSE age)
  /\ UNCHANGED <<pc, ctxErr, limit, watcher, cause, blame>>

-----------------------------------------------------------------------------
Init ==
  /\ pc = "check"
  /\ ctxErr = "nil" /\ ctxLeft \in {None} \cup (0 .. MaxContext)
  /\ ioTimeout = IOTimeout /\ salvaging = FALSE /\ t = 0 /\ deadline = None
  /\ watcher = "waiting"
  /\ cause = "none" /\ age = 0 /\ blame = "none"

\* stop, Close, and the next call on a connection of its own.
Return ==
  /\ pc = "ended"
  /\ pc' = "check"
  /\ ctxErr' = "nil" /\ ctxLeft' \in {None} \cup (0 .. MaxContext)
  /\ ioTimeout' = IOTimeout /\ salvaging' = FALSE /\ t' = 0 /\ deadline' = None
  /\ watcher' = "waiting"
  /\ cause' = "none" /\ age' = 0 /\ blame' = "none"

Goroutine ==
  Check \/ Compute \/ Set \/ SetFails \/ Recheck \/ Reinstate \/ IOTimesOut
  \/ Classify \/ Salvage

Network == IOSucceeds \/ PeerFails

Next ==
  \/ Goroutine \/ Network \/ WatcherRuns \/ Cancel \/ TimerFires \/ Tick \/ Return

Spec == Init /\ [][Next]_vars

\* Goroutines run; neither the peer nor the clock is of any help.
FairSpec == Spec /\ WF_vars(Goroutine) /\ WF_vars(WatcherRuns)

-----------------------------------------------------------------------------
(* Properties.                                                             *)

\* The variables stay in their types: a connection deadline is never further
\* ahead than ioTimeout.
TypeOK ==
  /\ pc \in PCs
  /\ ctxErr \in {"nil", "Canceled", "DeadlineExceeded"}
  /\ ctxLeft \in {None} \cup (0 .. MaxContext)
  /\ ioTimeout \in 1 .. IOTimeout /\ salvaging \in BOOLEAN
  /\ t \in 0 .. IOTimeout
  /\ deadline \in {None, Abort} \cup (0 .. IOTimeout)
  /\ watcher \in {"waiting", "ran"}
  /\ cause \in {"none", "context", "deadline", "peer"}
  /\ age \in 0 .. IOTimeout
  /\ blame \in {"none", "Canceled", "DeadlineExceeded", "ConnectionError"}

\* The race of refresh with the cancel watcher is closed: an operation in
\* progress under a context that is done has the abort deadline, or the
\* watcher is still to set it.  No refresh overwrites an abort for good.
AbortReachesIO ==
  pc = "io" /\ ctxErr # "nil" => deadline = Abort \/ watcher = "waiting"

\* An operation in progress never has a deadline beyond the context's.
WithinContext ==
  pc = "io" /\ ctxLeft # None => deadline <= ctxLeft

\* A timeout is reported as a transport failure only if the operation was
\* given all of ioTimeout: one that the context's deadline cut short is
\* reported as the context's, whichever timer fired first (ctxError).
TimeoutIsTransport ==
  blame = "ConnectionError" /\ cause = "deadline" => age = ioTimeout

\* A cancelled call ends without the help of the clock or of the peer.
CancelIsPrompt == (ctxErr # "nil") ~> (pc = "ended")

\* If time passes a stalled operation ends, with no help from the peer.
StallEnds == WF_vars(Tick) => ((pc = "io") ~> (pc # "io"))

=============================================================================
