-------------------------- MODULE FakeClamdProofs --------------------------
(***************************************************************************)
(* The WaitGroup of the fake daemon counts its goroutines, and after Close *)
(* none is left, for any number of connections and callers.                *)
(***************************************************************************)
EXTENDS FakeClamd, FiniteSetTheorems, TLAPS

-----------------------------------------------------------------------------
(* The invariant.                                                          *)

Live    == {c \in Conns : st[c] \in Running}
Serving == IF server = "exited" THEN 0 ELSE 1

\* Nothing of the fake runs, and nothing will.
Quiet ==
  /\ ~listening /\ server = "exited"
  /\ \A c \in Conns : st[c] \in Outside \ {"queued"}

\* The types without the counter.
TypeInv ==
  /\ listening \in BOOLEAN /\ done \in BOOLEAN
  /\ handler \in Responses
  /\ server \in {"accept", "spawn", "exited"}
  /\ st \in [Conns -> Running \cup Outside \cup {"accepted"}]
  /\ next \in [Conns -> {"closing", "drip", "write"}] /\ left \in [Conns -> Nat]
  /\ once \in {"new", "running", "done"}
  /\ closer \in [Closers ->
       {"idle", "closeDone", "closeListener", "wait", "blocked", "returned"}]

CountInv == wg = Cardinality(Live) + Serving

\* A response that is dripped has a byte to go: the counter of the loop over
\* its data does not run below zero.
DripInv ==
  \A c \in Conns :
    st[c] \in {"drip", "dripWrite"} \/ (st[c] = "delay" /\ next[c] = "drip")
      => left[c] > 0

\* serve has at most one connection in hand, and does not leave with it.
AcceptInv ==
  /\ \A c \in Conns : st[c] = "accepted" => server = "spawn"
  /\ \A c, d \in Conns : st[c] = "accepted" /\ st[d] = "accepted" => c = d

\* Waiting starts after the listener is closed, and nobody queues then.
CloseInv ==
  /\ \A k \in Closers : closer[k] = "wait" => ~listening
  /\ ~listening => \A c \in Conns : st[c] # "queued"
  /\ once = "done" => Quiet
  /\ \A k \in Closers : closer[k] = "returned" => Quiet

IInv == TypeInv /\ CountInv /\ DripInv /\ AcceptInv /\ CloseInv

-----------------------------------------------------------------------------
(* Counting.                                                               *)

LEMMA LiveFinite == IsFiniteSet(Live) /\ Cardinality(Live) \in Nat
  <1>1. IsFiniteSet(Conns)
    BY FakeAssumption DEF FakeAssumption
  <1>2. IsFiniteSet(Live)
    BY <1>1, FS_Subset DEF Live
  <1> QED
    BY <1>2, FS_CardinalityType

\* A connection that moves between two places of its goroutine, or between two
\* without one, leaves the count as it is.
LEMMA CountSame ==
  ASSUME st \in [Conns -> Running \cup Outside \cup {"accepted"}],
         NEW c \in Conns, NEW s,
         st' = [st EXCEPT ![c] = s],
         (st[c] \in Running) <=> (s \in Running)
  PROVE  Live' = Live
  BY DEF Live

LEMMA CountUp ==
  ASSUME st \in [Conns -> Running \cup Outside \cup {"accepted"}],
         NEW c \in Conns, NEW s,
         st' = [st EXCEPT ![c] = s],
         st[c] \notin Running, s \in Running
  PROVE  Cardinality(Live') = Cardinality(Live) + 1
  <1>1. Live' = Live \cup {c} /\ c \notin Live
    BY DEF Live
  <1> QED
    BY <1>1, LiveFinite, FS_AddElement

LEMMA CountDown ==
  ASSUME st \in [Conns -> Running \cup Outside \cup {"accepted"}],
         NEW c \in Conns, NEW s,
         st' = [st EXCEPT ![c] = s],
         st[c] \in Running, s \notin Running
  PROVE  Cardinality(Live') = Cardinality(Live) - 1
  <1>1. Live' = Live \ {c} /\ c \in Live
    BY DEF Live
  <1> QED
    BY <1>1, LiveFinite, FS_RemoveElement

\* A counter of zero means that neither serve nor a handler is alive.
LEMMA ZeroMeansNone ==
  ASSUME CountInv, wg = 0
  PROVE  server = "exited" /\ Live = {}
  <1>1. Cardinality(Live) \in Nat /\ IsFiniteSet(Live)
    BY LiveFinite
  <1>2. Serving \in {0, 1} /\ (Serving = 0 => server = "exited")
    BY DEF Serving
  <1>3. Cardinality(Live) = 0 /\ Serving = 0
    BY <1>1, <1>2 DEF CountInv
  <1> QED
    BY <1>1, <1>2, <1>3, FS_EmptySet

-----------------------------------------------------------------------------
(* The steps.                                                              *)

LEMMA InitEstablishes == Init => IInv
  <1> SUFFICES ASSUME Init PROVE IInv
    OBVIOUS
  <1>1. TypeInv
    BY DEF Init, TypeInv, Outside
  <1>2. Live = {}
    BY DEF Init, Live, Running, Sleeping, OnSocket
  <1>3. CountInv
    BY <1>2, FS_EmptySet DEF Init, CountInv, Serving, Start
  <1>4. DripInv /\ AcceptInv /\ CloseInv
    BY DEF Init, DripInv, AcceptInv, CloseInv
  <1> QED
    BY <1>1, <1>3, <1>4 DEF IInv

\* What a step of a live handler that stays alive does to the invariant.
LEMMA HandlerStep ==
  ASSUME IInv, NEW c \in Conns, NEW s \in Running,
         st[c] \in Running, st' = [st EXCEPT ![c] = s],
         next' \in [Conns -> {"closing", "drip", "write"}], left' \in [Conns -> Nat],
         \A d \in Conns \ {c} : next'[d] = next[d] /\ left'[d] = left[d],
         s \in {"drip", "dripWrite"} \/ (s = "delay" /\ next'[c] = "drip") => left'[c] > 0,
         UNCHANGED <<wg, handlerOnly>>
  PROVE  IInv'
  <1>1. UNCHANGED <<wg, listening, done, handler, server, once, closer>>
    BY DEF handlerOnly, closeVars
  <1>2. s \notin {"accepted", "queued"} /\ s \notin Outside /\ st[c] \notin Outside
    BY DEF Running, Outside, Sleeping, OnSocket
  <1>3. TypeInv'
    BY <1>1 DEF IInv, TypeInv
  <1>4. Live' = Live
    BY CountSame DEF IInv, TypeInv
  <1>5. CountInv'
    BY <1>1, <1>4 DEF IInv, CountInv, Serving
  <1>6. ~Quiet
    BY <1>2 DEF Quiet
  <1>7. AcceptInv'
    BY <1>1, <1>2 DEF IInv, AcceptInv, TypeInv
  <1>8. CloseInv'
    BY <1>1, <1>2, <1>6 DEF IInv, CloseInv, TypeInv
  <1>9. DripInv'
    BY DEF IInv, DripInv, TypeInv
  <1> QED
    BY <1>3, <1>5, <1>7, <1>8, <1>9 DEF IInv

LEMMA HandlerSteps ==
  ASSUME IInv, NEW c \in Conns,
         \/ StartReading(c) \/ Delayed(c) \/ DripDue(c) \/ DoneSeen(c) \/ CloseConn(c)
         \/ Handle(c) \/ Written(c) \/ SocketFails(c) \/ SafetyDeadline(c)
  PROVE  IInv'
  <1> USE DEF Goto
  <1>1. /\ {"reading", "closing", "closed", "drip", "write", "dripWrite", "hang", "delay",
            "started"} \subseteq Running
        /\ Sleeping \subseteq Running /\ OnSocket \subseteq Running
    BY DEF Running, Sleeping, OnSocket
  <1>2. /\ next \in [Conns -> {"closing", "drip", "write"}] /\ left \in [Conns -> Nat]
        /\ handler \in Responses
    BY DEF IInv, TypeInv
  <1>3. ASSUME StartReading(c) \/ DripDue(c) \/ DoneSeen(c) \/ CloseConn(c)
               \/ SocketFails(c) \/ SafetyDeadline(c)
        PROVE  IInv'
    <2>1. \E s \in {"reading", "dripWrite", "closing", "closed"} :
            st' = [st EXCEPT ![c] = s] /\ (s = "dripWrite" => left[c] > 0)
      BY <1>3 DEF IInv, DripInv, StartReading, DripDue, DoneSeen, CloseConn, SocketFails, SafetyDeadline
    <2>2. st[c] \in Running
      BY <1>1, <1>3
      DEF StartReading, DripDue, DoneSeen, CloseConn, SocketFails, SafetyDeadline
    <2>3. UNCHANGED <<wg, next, left, handlerOnly>>
      BY <1>3 DEF StartReading, DripDue, DoneSeen, CloseConn, SocketFails, SafetyDeadline
    <2> QED
      BY <1>1, <1>2, <2>1, <2>2, <2>3, HandlerStep
  <1>4. ASSUME Delayed(c) PROVE IInv'
    <2>1. next[c] \in Running /\ st[c] \in Running
      BY <1>1, <1>2, <1>4 DEF Delayed
    <2>2. next[c] \in {"drip", "dripWrite"} => left[c] > 0
      BY <1>2, <1>4 DEF Delayed, IInv, DripInv
    <2>3. next[c] # "delay"
      BY <1>2
    <2> QED
      BY <1>2, <1>4, <2>1, <2>2, <2>3, HandlerStep DEF Delayed
  <1>5. ASSUME Handle(c) PROVE IInv'
    <2>1. handler.data \in Nat
      BY <1>2, FakeAssumption DEF FakeAssumption
    <2>2. Reply(handler) \in {"closing", "drip", "write"}
      BY <2>1 DEF Reply
    <2>3. next' \in [Conns -> {"closing", "drip", "write"}] /\ left' \in [Conns -> Nat]
      BY <1>2, <1>5, <2>1, <2>2 DEF Handle
    <2>4. /\ next'[c] = Reply(handler) /\ left'[c] = handler.data
          /\ \A d \in Conns \ {c} : next'[d] = next[d] /\ left'[d] = left[d]
      BY <1>2, <1>5 DEF Handle
    <2>5. Reply(handler) = "drip" => handler.data > 0
      BY <2>1 DEF Reply
    <2>6. \E s \in {"hang", "delay", "closing", "drip", "write"} :
            st' = [st EXCEPT ![c] = s] /\ (s = "drip" => Reply(handler) = "drip")
      BY <1>5, <2>2 DEF Handle
    <2>7. st[c] \in Running /\ UNCHANGED <<wg, handlerOnly>>
      BY <1>1, <1>5 DEF Handle
    <2> QED
      BY <1>1, <2>3, <2>4, <2>5, <2>6, <2>7, HandlerStep
  <1>6. ASSUME Written(c) PROVE IInv'
    <2> DEFINE rest == IF st[c] = "write" THEN 0 ELSE left[c] - 1
    <2>1. left' = [left EXCEPT ![c] = rest] /\ rest \in Nat
      BY <1>2, <1>6 DEF Written, IInv, DripInv
    <2>2. \E s \in {"closing", "drip"} :
            st' = [st EXCEPT ![c] = s] /\ (s = "drip" => rest # 0)
      BY <1>6 DEF Written
    <2>3. st[c] \in Running /\ UNCHANGED <<wg, handlerOnly>> /\ next' = next
      BY <1>1, <1>6 DEF Written
    <2>4. /\ left' \in [Conns -> Nat] /\ left'[c] = rest
          /\ next' \in [Conns -> {"closing", "drip", "write"}]
          /\ \A d \in Conns \ {c} : next'[d] = next[d] /\ left'[d] = left[d]
      BY <1>2, <2>1, <2>3
    <2>5. PICK s \in {"closing", "drip"} :
            st' = [st EXCEPT ![c] = s] /\ (s = "drip" => rest # 0)
      BY <2>2
    <2> HIDE DEF rest
    <2>6. s \in Running /\ s # "dripWrite" /\ s # "delay"
      BY <1>1, <2>5
    <2>7. s = "drip" => left'[c] > 0
      BY <2>1, <2>4, <2>5
    <2> QED
      BY <2>3, <2>4, <2>5, <2>6, <2>7, HandlerStep
  <1> QED
    BY <1>3, <1>4, <1>5, <1>6

\* The end of the goroutine.
LEMMA ConnDoneStep ==
  ASSUME IInv, NEW c \in Conns, ConnDone(c)
  PROVE  IInv'
  <1>1. /\ st' = [st EXCEPT ![c] = "gone"] /\ st[c] = "closed" /\ wg' = wg - 1
        /\ UNCHANGED <<next, left, listening, done, handler, server, once, closer>>
    BY DEF ConnDone, Goto, handlerOnly, closeVars
  <1>2. "closed" \in Running /\ "gone" \notin Running /\ "gone" \in Outside
        /\ "closed" \notin Outside
    BY DEF Running, Outside, Sleeping, OnSocket
  <1>3. TypeInv'
    BY <1>1, <1>2 DEF IInv, TypeInv
  <1>4. Cardinality(Live') = Cardinality(Live) - 1
    BY <1>1, <1>2, CountDown DEF IInv, TypeInv
  <1>5. CountInv'
    BY <1>1, <1>4, LiveFinite DEF IInv, CountInv, Serving
  <1>6. ~Quiet
    BY <1>1, <1>2 DEF Quiet
  <1>7. AcceptInv' /\ DripInv'
    BY <1>1 DEF IInv, AcceptInv, DripInv, TypeInv
  <1>8. CloseInv'
    BY <1>1, <1>2, <1>6 DEF IInv, CloseInv, TypeInv
  <1> QED
    BY <1>3, <1>5, <1>7, <1>8 DEF IInv

LEMMA ConnectStep ==
  ASSUME IInv, NEW c \in Conns, Connect(c)
  PROVE  IInv'
  <1>1. PICK s \in {"queued", "reset"} :
          st' = [st EXCEPT ![c] = s] /\ (s = "queued" <=> listening)
    BY DEF Connect, Goto
  <1>2. /\ st[c] = "idle"
        /\ UNCHANGED <<wg, next, left, listening, done, handler, server, once, closer>>
    BY DEF Connect, closeVars
  <1>3. {"queued", "reset", "idle"} \subseteq Outside
        /\ "idle" \notin Running /\ s \notin Running
    BY DEF Running, Outside, Sleeping, OnSocket
  <1>4. TypeInv'
    BY <1>1, <1>2, <1>3 DEF IInv, TypeInv
  <1>5. Live' = Live
    BY <1>1, <1>2, <1>3, CountSame DEF IInv, TypeInv
  <1>6. CountInv'
    BY <1>2, <1>5 DEF IInv, CountInv, Serving
  <1>7. AcceptInv' /\ DripInv'
    BY <1>1, <1>2 DEF IInv, AcceptInv, DripInv, TypeInv
  <1>8. Quiet => Quiet'
    BY <1>1, <1>2, <1>3 DEF IInv, Quiet, TypeInv
  <1>9. CloseInv'
    BY <1>1, <1>2, <1>8 DEF IInv, CloseInv, TypeInv
  <1> QED
    BY <1>4, <1>6, <1>7, <1>9 DEF IInv

LEMMA AcceptStep == IInv /\ Accept => IInv'
  <1> SUFFICES ASSUME IInv, Accept PROVE IInv'
    OBVIOUS
  <1>1. PICK c \in Conns : st[c] = "queued" /\ st' = [st EXCEPT ![c] = "accepted"]
    BY DEF Accept, Goto
  <1>2. /\ server = "accept" /\ listening /\ server' = "spawn"
        /\ UNCHANGED <<wg, next, left, listening, done, handler, once, closer>>
    BY DEF Accept, closeVars
  <1>3. "queued" \notin Running /\ "accepted" \notin Running
    BY DEF Running, Sleeping, OnSocket
  <1>4. TypeInv'
    BY <1>1, <1>2 DEF IInv, TypeInv
  <1>5. Live' = Live
    BY <1>1, <1>3, CountSame DEF IInv, TypeInv
  <1>6. CountInv'
    BY <1>2, <1>5 DEF IInv, CountInv, Serving
  <1>7. AcceptInv' /\ DripInv'
    BY <1>1, <1>2 DEF IInv, AcceptInv, DripInv, TypeInv
  <1>8. CloseInv'
    BY <1>2 DEF IInv, CloseInv, Quiet
  <1> QED
    BY <1>4, <1>6, <1>7, <1>8 DEF IInv

LEMMA SpawnStep == IInv /\ Spawn => IInv'
  <1> SUFFICES ASSUME IInv, Spawn PROVE IInv'
    OBVIOUS
  <1>1. PICK c \in Conns : st[c] = "accepted" /\ st' = [st EXCEPT ![c] = "started"]
    BY DEF Spawn, Goto
  <1>2. /\ server = "spawn" /\ server' = "accept" /\ wg' = wg + 1
        /\ UNCHANGED <<next, left, listening, done, handler, once, closer>>
    BY DEF Spawn, closeVars
  <1>3. "started" \in Running /\ "accepted" \notin Running
    BY DEF Running, Sleeping, OnSocket
  <1>4. TypeInv'
    BY <1>1, <1>2, <1>3 DEF IInv, TypeInv
  <1>5. Cardinality(Live') = Cardinality(Live) + 1
    BY <1>1, <1>3, CountUp DEF IInv, TypeInv
  <1>6. CountInv'
    BY <1>2, <1>5, LiveFinite DEF IInv, CountInv, Serving
  <1>7. AcceptInv' /\ DripInv'
    BY <1>1, <1>2 DEF IInv, AcceptInv, DripInv, TypeInv
  <1>8. CloseInv'
    BY <1>1, <1>2 DEF IInv, CloseInv, Quiet, TypeInv
  <1> QED
    BY <1>4, <1>6, <1>7, <1>8 DEF IInv

LEMMA AcceptFailsStep == IInv /\ AcceptFails => IInv'
  <1> SUFFICES ASSUME IInv, AcceptFails PROVE IInv'
    OBVIOUS
  <1>1. /\ server = "accept" /\ server' = "exited" /\ wg' = wg - 1
        /\ UNCHANGED <<st, next, left, listening, done, handler, once, closer>>
    BY DEF AcceptFails, closeVars, connVars
  <1>2. TypeInv'
    BY <1>1 DEF IInv, TypeInv
  <1>3. CountInv'
    BY <1>1, LiveFinite DEF IInv, CountInv, Serving, Live
  <1>4. AcceptInv' /\ DripInv'
    BY <1>1 DEF IInv, AcceptInv, DripInv
  <1>5. CloseInv'
    BY <1>1 DEF IInv, CloseInv, Quiet
  <1> QED
    BY <1>2, <1>3, <1>4, <1>5 DEF IInv

LEMMA SetHandlerStep == IInv /\ SetHandler => IInv'
  BY DEF IInv, SetHandler, TypeInv, CountInv, Live, Serving, AcceptInv, DripInv, CloseInv,
         Quiet, connVars, closeVars

\* Steps of Close that touch neither goroutines nor connections.
LEMMA CloserStep ==
  ASSUME IInv, NEW k \in Closers,
         CallClose(k) \/ CloseDone(k) \/ WaitReturns(k) \/ OnceReturns(k)
  PROVE  IInv'
  <1>1. UNCHANGED <<listening, st, wg, handler, server, next, left>>
    BY DEF CallClose, CloseDone, WaitReturns, OnceReturns, closeOnly
  <1>2. TypeInv'
    <2>1. done' \in BOOLEAN
      BY DEF IInv, TypeInv, CallClose, CloseDone, WaitReturns, OnceReturns
    <2>2. once' \in {"new", "running", "done"}
      BY DEF IInv, TypeInv, CallClose, CloseDone, WaitReturns, OnceReturns
    <2>3. closer' \in [Closers ->
            {"idle", "closeDone", "closeListener", "wait", "blocked", "returned"}]
      BY DEF IInv, TypeInv, CallClose, CloseDone, WaitReturns, OnceReturns
    <2> QED
      BY <1>1, <2>1, <2>2, <2>3 DEF IInv, TypeInv
  <1>3. CountInv' /\ AcceptInv' /\ DripInv'
    BY <1>1 DEF IInv, CountInv, Live, Serving, AcceptInv, DripInv
  <1>4. Quiet => Quiet'
    BY <1>1 DEF Quiet
  <1>5. CloseInv'
    <2>1. CASE CallClose(k) \/ CloseDone(k)
      BY <1>1, <1>4, <2>1 DEF IInv, CloseInv, TypeInv, CallClose, CloseDone
    <2>2. CASE WaitReturns(k)
      <3>1. server = "exited" /\ Live = {}
        BY <2>2, ZeroMeansNone DEF IInv, WaitReturns
      <3>2. ~listening
        BY <2>2 DEF IInv, CloseInv, WaitReturns
      <3>3. \A c \in Conns : st[c] \notin Running /\ st[c] # "accepted" /\ st[c] # "queued"
        BY <3>1, <3>2 DEF Live, IInv, AcceptInv, CloseInv
      <3>4. Quiet
        BY <3>1, <3>2, <3>3 DEF Quiet, IInv, TypeInv
      <3> QED
        BY <1>1, <1>4, <2>2, <3>4 DEF IInv, CloseInv, TypeInv, WaitReturns
    <2>3. CASE OnceReturns(k)
      BY <1>1, <1>4, <2>3 DEF IInv, CloseInv, TypeInv, OnceReturns
    <2> QED
      BY <2>1, <2>2, <2>3
  <1> QED
    BY <1>2, <1>3, <1>5 DEF IInv

LEMMA CloseListenerStep ==
  ASSUME IInv, NEW k \in Closers, CloseListener(k)
  PROVE  IInv'
  <1>1. /\ listening' = FALSE
        /\ st' = [c \in Conns |-> IF st[c] = "queued" THEN "reset" ELSE st[c]]
        /\ closer' = [closer EXCEPT ![k] = "wait"] /\ closer[k] = "closeListener"
        /\ UNCHANGED <<done, once, wg, handler, server, next, left>>
    BY DEF CloseListener, closeOnly
  <1>2. "reset" \in Outside /\ "reset" \notin Running /\ "queued" \notin Running
    BY DEF Running, Outside, Sleeping, OnSocket
  <1>3. TypeInv'
    BY <1>1, <1>2 DEF IInv, TypeInv
  <1>4. Live' = Live
    BY <1>1, <1>2 DEF Live
  <1>5. CountInv'
    BY <1>1, <1>4 DEF IInv, CountInv, Serving
  <1>6. AcceptInv' /\ DripInv'
    BY <1>1 DEF IInv, AcceptInv, DripInv
  <1>7. Quiet => Quiet'
    BY <1>1, <1>2 DEF Quiet
  <1>8. CloseInv'
    BY <1>1, <1>7 DEF IInv, CloseInv, TypeInv
  <1> QED
    BY <1>3, <1>5, <1>6, <1>8 DEF IInv

LEMMA Invariance == Spec => []IInv
  <1>1. IInv /\ [Next]_vars => IInv'
    <2> SUFFICES ASSUME IInv, [Next]_vars PROVE IInv'
      OBVIOUS
    <2>1. CASE UNCHANGED vars
      BY <2>1 DEF IInv, TypeInv, CountInv, Live, Serving, AcceptInv, DripInv, CloseInv, Quiet,
                  vars, connVars, closeVars
    <2>2. ASSUME NEW c \in Conns,
                 Client(c) \/ ConnStep(c) \/ Timer(c) \/ SafetyDeadline(c)
          PROVE  IInv'
      BY <2>2, HandlerSteps, ConnDoneStep, ConnectStep DEF Client, ConnStep, Timer
    <2>3. ASSUME NEW k \in Closers, CallClose(k) \/ Closing(k) PROVE IInv'
      BY <2>3, CloserStep, CloseListenerStep DEF Closing
    <2> QED
      BY <2>1, <2>2, <2>3, AcceptStep, SpawnStep, AcceptFailsStep, SetHandlerStep DEF Next
  <1> QED
    BY <1>1, InitEstablishes, PTL DEF Spec

-----------------------------------------------------------------------------
(* The theorems.                                                           *)

\* For any number of connections and callers of Close, the WaitGroup counts the
\* goroutines that are alive (New, serve, handleConn).
THEOREM FakeTypeCorrect == Spec => []TypeOK
  <1>1. IInv => TypeOK
    BY DEF IInv, TypeInv, CountInv, Live, Serving, TypeOK
  <1> QED
    BY <1>1, Invariance, PTL

\* When Close has returned to anyone, nothing of the fake runs or will run
\* (Close).
THEOREM CloseLeavesNothing == Spec => []ClosedIsQuiet
  <1>1. IInv => ClosedIsQuiet
    BY DEF IInv, CloseInv, Quiet, ClosedIsQuiet
  <1> QED
    BY <1>1, Invariance, PTL

=============================================================================
