----------------------------- MODULE FakeClamd -----------------------------
(***************************************************************************)
(* The goroutines of the fake daemon (src/internal/clamdtest/fake.go): the *)
(* accept loop of serve, one handleConn per connection, any number of      *)
(* callers of Close, and the WaitGroup that ties them together.  Clients   *)
(* connect, send their request, stall or go away as they like; tests       *)
(* replace the handler at any time.                                        *)
(*                                                                         *)
(* What a request says and what its stream holds is in Framing; here a     *)
(* request arrives, or does not.                                           *)
(***************************************************************************)
EXTENDS Naturals, FiniteSets

CONSTANTS
  Conns,       \* the connections clients may open
  Closers,     \* the goroutines that call Close
  Responses    \* what handlers may answer

ASSUME FakeAssumption ==
  /\ IsFiniteSet(Conns)
  /\ Responses \subseteq [hang : BOOLEAN, delay : BOOLEAN, drip : BOOLEAN, data : Nat]
  /\ Responses # {}

VARIABLES
  listening,  \* the listener is open
  done,       \* the channel done is closed
  wg,         \* the counter of the WaitGroup
  handler,    \* what the installed handler answers
  server,     \* serve: "accept", "spawn" or "exited"
  st,         \* where each connection is
  next,       \* what follows the delay of its response
  left,       \* bytes of it not yet written
  once,       \* closeOnce: "new", "running" or "done"
  closer      \* where each caller of Close is

connVars  == <<st, next, left>>
closeVars == <<once, closer>>
vars == <<listening, done, wg, handler, server, connVars, closeVars>>

Sleeping == {"hang", "delay", "drip"}      \* selects and receives on done
OnSocket == {"reading", "write", "dripWrite"}
Running  == {"started"} \cup Sleeping \cup OnSocket \cup {"closing", "closed"}
Outside  == {"idle", "queued", "reset", "gone"}    \* no goroutine of its own

Goto(c, s) == st' = [st EXCEPT ![c] = s]

-----------------------------------------------------------------------------
(* Clients and tests.                                                      *)

Connect(c) ==
  /\ st[c] = "idle"
  /\ Goto(c, IF listening THEN "queued" ELSE "reset")
  /\ UNCHANGED <<listening, done, wg, handler, server, next, left, closeVars>>

SetHandler ==
  /\ handler' \in Responses
  /\ UNCHANGED <<listening, done, wg, server, connVars, closeVars>>

-----------------------------------------------------------------------------
(* serve.                                                                  *)

Accept ==
  /\ server = "accept" /\ listening
  /\ \E c \in Conns : st[c] = "queued" /\ Goto(c, "accepted")
  /\ server' = "spawn"
  /\ UNCHANGED <<listening, done, wg, handler, next, left, closeVars>>

\* go func() instead of f.wg.Go(func()).
SpawnUncounted ==
  /\ server = "spawn"
  /\ \E c \in Conns : st[c] = "accepted" /\ Goto(c, "started")
  /\ server' = "accept"
  /\ wg' = wg
  /\ UNCHANGED <<listening, done, handler, next, left, closeVars>>

Spawn ==
  /\ server = "spawn"
  /\ \E c \in Conns : st[c] = "accepted" /\ Goto(c, "started")
  /\ server' = "accept"
  /\ wg' = wg + 1
  /\ UNCHANGED <<listening, done, handler, next, left, closeVars>>

\* Any error of Accept ends serve; once the listener is closed there is one.
AcceptFails ==
  /\ server = "accept"
  /\ server' = "exited" /\ wg' = wg - 1
  /\ UNCHANGED <<listening, done, handler, connVars, closeVars>>

-----------------------------------------------------------------------------
(* handleConn.                                                             *)

handlerOnly == <<listening, done, handler, server, closeVars>>

\* SetDeadline(now + connSafetyDeadline), then readCommand and readChunks.
StartReading(c) ==
  /\ st[c] = "started"
  /\ Goto(c, "reading")
  /\ UNCHANGED <<wg, next, left, handlerOnly>>

\* What to do with a response once it is due.
Reply(r) == CASE r.data = 0 -> "closing" [] r.data > 0 /\ r.drip -> "drip" [] OTHER -> "write"

\* The request is complete: getHandler()(req).
Handle(c) ==
  /\ st[c] = "reading"
  /\ next' = [next EXCEPT ![c] = Reply(handler)]
  /\ left' = [left EXCEPT ![c] = handler.data]
  /\ Goto(c, CASE handler.hang -> "hang"
               [] ~handler.hang /\ handler.delay -> "delay"
               [] OTHER -> Reply(handler))
  /\ UNCHANGED <<wg, handlerOnly>>

\* time.After of the delay.
Delayed(c) ==
  /\ st[c] = "delay"
  /\ Goto(c, next[c])
  /\ UNCHANGED <<wg, next, left, handlerOnly>>

\* time.After of the interval before the next byte.
DripDue(c) ==
  /\ st[c] = "drip"
  /\ Goto(c, "dripWrite")
  /\ UNCHANGED <<wg, next, left, handlerOnly>>

\* <-f.done, but not in the select with the delay.
DoneIgnoredByDelay(c) ==
  /\ st[c] \in Sleeping \ {"delay"} /\ done
  /\ Goto(c, "closing")
  /\ UNCHANGED <<wg, next, left, handlerOnly>>

\* <-f.done, but not in the select of the drip.
DoneIgnoredByDrip(c) ==
  /\ st[c] \in Sleeping \ {"drip"} /\ done
  /\ Goto(c, "closing")
  /\ UNCHANGED <<wg, next, left, handlerOnly>>

DoneSeen(c) ==
  /\ st[c] \in Sleeping /\ done
  /\ Goto(c, "closing")
  /\ UNCHANGED <<wg, next, left, handlerOnly>>

\* The client makes room, and the bytes are written.
Written(c) ==
  /\ st[c] \in {"write", "dripWrite"}
  /\ LET rest == IF st[c] = "write" THEN 0 ELSE left[c] - 1
     IN  /\ left' = [left EXCEPT ![c] = rest]
         /\ Goto(c, IF rest = 0 THEN "closing" ELSE "drip")
  /\ UNCHANGED <<wg, next, handlerOnly>>

\* The client went away, or sent what is no request, or got an early reply.
SocketFails(c) ==
  /\ st[c] \in OnSocket
  /\ Goto(c, "closing")
  /\ UNCHANGED <<wg, next, left, handlerOnly>>

\* The deadline covers the request only.
SafetyDeadlineReadOnly(c) ==
  /\ st[c] = "reading"
  /\ Goto(c, "closing")
  /\ UNCHANGED <<wg, next, left, handlerOnly>>

\* connSafetyDeadline ends whatever is pending on the socket.
SafetyDeadline(c) ==
  /\ st[c] \in OnSocket
  /\ Goto(c, "closing")
  /\ UNCHANGED <<wg, next, left, handlerOnly>>

\* The deferred conn.Close, and then the end of the goroutine in wg.Go.
CloseConn(c) ==
  /\ st[c] = "closing"
  /\ Goto(c, "closed")
  /\ UNCHANGED <<wg, next, left, handlerOnly>>

ConnDone(c) ==
  /\ st[c] = "closed"
  /\ Goto(c, "gone") /\ wg' = wg - 1
  /\ UNCHANGED <<next, left, handlerOnly>>

-----------------------------------------------------------------------------
(* Close.                                                                  *)

closeOnly == <<wg, handler, server, next, left>>

\* closeOnce.Do: the first caller runs the body, the others wait for it.
CallClose(k) ==
  /\ closer[k] = "idle"
  /\ closer' = [closer EXCEPT ![k] = IF once = "new" THEN "closeDone" ELSE "blocked"]
  /\ once' = (IF once = "new" THEN "running" ELSE once)
  /\ UNCHANGED <<listening, done, st, closeOnly>>

CloseDone(k) ==
  /\ closer[k] = "closeDone"
  /\ done' = TRUE
  /\ closer' = [closer EXCEPT ![k] = "closeListener"]
  /\ UNCHANGED <<listening, once, st, closeOnly>>

\* Connections nobody has accepted yet are reset.
CloseListener(k) ==
  /\ closer[k] = "closeListener"
  /\ listening' = FALSE
  /\ st' = [c \in Conns |-> IF st[c] = "queued" THEN "reset" ELSE st[c]]
  /\ closer' = [closer EXCEPT ![k] = "wait"]
  /\ UNCHANGED <<done, once, closeOnly>>

WaitReturns(k) ==
  /\ closer[k] = "wait" /\ wg = 0
  /\ once' = "done"
  /\ closer' = [closer EXCEPT ![k] = "returned"]
  /\ UNCHANGED <<listening, done, st, closeOnly>>

OnceReturns(k) ==
  /\ closer[k] = "blocked" /\ once = "done"
  /\ closer' = [closer EXCEPT ![k] = "returned"]
  /\ UNCHANGED <<listening, done, once, st, closeOnly>>

-----------------------------------------------------------------------------
\* serve is not counted: the f.wg.Add(1) of New is missing.
StartUncounted == 0

\* f.wg.Add(1) before go f.serve().
Start == 1

Init ==
  /\ listening = TRUE /\ done = FALSE /\ wg = Start
  /\ handler \in Responses
  /\ server = "accept"
  /\ st = [c \in Conns |-> "idle"]
  /\ next = [c \in Conns |-> "closing"] /\ left = [c \in Conns |-> 0]
  /\ once = "new" /\ closer = [k \in Closers |-> "idle"]

\* serve by itself; Accept of an open listener need not fail.
Serve == Accept \/ Spawn \/ (AcceptFails /\ ~listening)

\* handleConn by itself.  How long a test makes its delays is up to the test.
ConnStep(c) == StartReading(c) \/ DoneSeen(c) \/ CloseConn(c) \/ ConnDone(c)
Timer(c)    == Delayed(c) \/ DripDue(c)

Closing(k) == CloseDone(k) \/ CloseListener(k) \/ WaitReturns(k) \/ OnceReturns(k)

Client(c) == Connect(c) \/ Handle(c) \/ Written(c) \/ SocketFails(c)

Next ==
  \/ Accept \/ Spawn \/ AcceptFails \/ SetHandler
  \/ \E c \in Conns : Client(c) \/ ConnStep(c) \/ Timer(c) \/ SafetyDeadline(c)
  \/ \E k \in Closers : CallClose(k) \/ Closing(k)

Spec == Init /\ [][Next]_vars

\* Goroutines run; clients owe nothing, and no timer is waited for.
FairSpec ==
  /\ Spec
  /\ WF_vars(Serve)
  /\ \A c \in Conns : WF_vars(ConnStep(c))
  /\ \A k \in Closers : WF_vars(Closing(k))

-----------------------------------------------------------------------------
(* Properties.                                                             *)

\* The variables stay in their types, and the WaitGroup counts exactly the
\* goroutines that are alive, so that its counter is never negative and never
\* raised from zero while somebody waits (the panics of sync.WaitGroup).
TypeOK ==
  /\ listening \in BOOLEAN /\ done \in BOOLEAN
  /\ handler \in Responses
  /\ server \in {"accept", "spawn", "exited"}
  /\ st \in [Conns -> Running \cup Outside \cup {"accepted"}]
  /\ next \in [Conns -> {"closing", "drip", "write"}] /\ left \in [Conns -> Nat]
  /\ once \in {"new", "running", "done"}
  /\ closer \in [Closers ->
       {"idle", "closeDone", "closeListener", "wait", "blocked", "returned"}]
  /\ wg = Cardinality({c \in Conns : st[c] \in Running})
            + (IF server = "exited" THEN 0 ELSE 1)

\* When Close has returned, to whichever of its callers, nothing of the fake
\* runs any more: serve is gone, every connection is closed, and no connection
\* is accepted later (Close: "waits for connection goroutines to finish").
ClosedIsQuiet ==
  (\E k \in Closers : closer[k] = "returned") =>
    /\ ~listening /\ server = "exited"
    /\ \A c \in Conns : st[c] \in Outside \ {"queued"}

\* A handler that hangs, delays or drips ends when the fake is closed, with no
\* help from client, deadline or the timer it sleeps on (the selects on f.done
\* in handleConn), unless it gets stuck for good in a write to its client.
DoneWakesHandlers ==
  \A c \in Conns :
    (done /\ st[c] \in Sleeping) ~> (st[c] = "gone" \/ [](st[c] \in OnSocket))

\* Close returns to all its callers, also with clients that never send their
\* request or never read the reply, if connSafetyDeadline is enforced; it does
\* not wait for the delays of the responses.
CloseReturns ==
  (\A c \in Conns : WF_vars(SafetyDeadline(c))) =>
    \A k \in Closers : (closer[k] # "idle") ~> (closer[k] = "returned")

=============================================================================
