------------------------------ MODULE ScanSlots -----------------------------
(***************************************************************************)
(* Scan, ScanBytes and ScanFile (src/client.go) called from many           *)
(* goroutines: the checks before a slot is asked for, acquireScanSlot and  *)
(* releaseScanSlot on the shared channel, the file that ScanFile opens,    *)
(* the connection that scanStream holds, and the order in which the        *)
(* deferred calls give all of it back.                                     *)
(*                                                                         *)
(* What happens on the connection and what a call returns is modelled in   *)
(* ScanStream; here streaming is one stretch of time that ends.  The       *)
(* channel is the Go runtime's: a count of buffered elements, and a FIFO   *)
(* of blocked senders, the first of which a receive completes.             *)
(***************************************************************************)
EXTENDS Naturals, Sequences, FiniteSets, SequencesExt

CONSTANTS
  Scans,               \* the goroutines that scan
  MaxConcurrentScans,  \* cfg.maxConcurrentScans; 0 leaves sem nil
  Targets              \* what a path may turn out to name, see PathKinds

PathKinds == {"missing", "regular", "oversized", "special"}

ASSUME ScansAssumption == IsFiniteSet(Scans)
ASSUME SlotsAssumption == MaxConcurrentScans \in Nat
ASSUME TargetsAssumption == Targets \subseteq PathKinds

VARIABLES
  pc,       \* where each goroutine is
  op,       \* the method it called; ScanBytes goes on as Scan
  ctxDone,  \* its context is done
  path,     \* what its path names at the moment
  fd,       \* what its open descriptor refers to, or "none"
  conn,     \* it holds a connection to the daemon
  sem,      \* elements in the channel
  sendq     \* goroutines blocked in the select of acquireScanSlot

channel == <<sem, sendq>>
vars == <<pc, op, ctxDone, path, fd, conn, sem, sendq>>

BeforeOpen == {"acquire", "select", "queued", "open"}
Streaming  == {"stream", "closeConn"}
Holding    == {"open", "fstat", "dial", "closeFile", "release"} \cup Streaming
PCs        == {"idle", "done"} \cup BeforeOpen \cup Holding

Goto(s, label) == pc' = [pc EXCEPT ![s] = label]

-----------------------------------------------------------------------------
(* The calls, up to the request for a slot.                                *)

\* Scan refuses a nil reader and ScanBytes data beyond the limit; then they
\* are the same call.
CallScan(s) ==
  /\ pc[s] = "idle"
  /\ op' = [op EXCEPT ![s] = "Scan"]
  /\ Goto(s, "acquire") \/ Goto(s, "done")
  /\ UNCHANGED <<ctxDone, path, fd, conn, channel>>

\* The file is opened before the slot is asked for.
CallScanFileOpensFirst(s) ==
  /\ pc[s] = "idle"
  /\ op' = [op EXCEPT ![s] = "ScanFile"]
  /\ \E target \in Targets :
       /\ path' = [path EXCEPT ![s] = target]
       /\ fd' = [fd EXCEPT ![s] = IF target = "regular" THEN target ELSE "none"]
       /\ Goto(s, IF target = "regular" THEN "acquire" ELSE "done")
  /\ UNCHANGED <<ctxDone, conn, channel>>

\* os.Stat and checkScanTarget: only a regular file within the limit goes on.
CallScanFile(s) ==
  /\ pc[s] = "idle"
  /\ op' = [op EXCEPT ![s] = "ScanFile"]
  /\ \E target \in Targets :
       /\ path' = [path EXCEPT ![s] = target]
       /\ Goto(s, IF target = "regular" THEN "acquire" ELSE "done")
  /\ UNCHANGED <<ctxDone, fd, conn, channel>>

-----------------------------------------------------------------------------
(* acquireScanSlot and releaseScanSlot.                                    *)

\* What follows once acquireScanSlot has returned nil.
AfterAcquire(s) == IF op[s] = "ScanFile" THEN "open" ELSE "dial"

CheckContext(s) ==
  /\ pc[s] = "acquire"
  /\ Goto(s, CASE ctxDone[s] -> "done"
               [] ~ctxDone[s] /\ MaxConcurrentScans = 0 -> AfterAcquire(s)
               [] OTHER -> "select")
  /\ UNCHANGED <<op, ctxDone, path, fd, conn, channel>>

\* The capacity is not looked at.
SelectSlotUnbounded(s) ==
  /\ pc[s] = "select"
  /\ sem' = sem + 1
  /\ Goto(s, AfterAcquire(s))
  /\ UNCHANGED <<op, ctxDone, path, fd, conn, sendq>>

\* Room in the channel: the send proceeds, also if ctx is done as well.
SelectSlot(s) ==
  /\ pc[s] = "select" /\ sem < MaxConcurrentScans
  /\ sem' = sem + 1
  /\ Goto(s, AfterAcquire(s))
  /\ UNCHANGED <<op, ctxDone, path, fd, conn, sendq>>

SelectDone(s) ==
  /\ pc[s] = "select" /\ ctxDone[s]
  /\ Goto(s, "done")
  /\ UNCHANGED <<op, ctxDone, path, fd, conn, channel>>

\* Neither case is ready: the goroutine blocks.
Park(s) ==
  /\ pc[s] = "select" /\ sem = MaxConcurrentScans /\ ~ctxDone[s]
  /\ sendq' = Append(sendq, s)
  /\ Goto(s, "queued")
  /\ UNCHANGED <<op, ctxDone, path, fd, conn, sem>>

\* The goroutine leaves but its place in the queue stays.
QueuedDoneStays(s) ==
  /\ pc[s] = "queued" /\ ctxDone[s]
  /\ Goto(s, "done")
  /\ UNCHANGED <<op, ctxDone, path, fd, conn, channel>>

\* A send without the ctx.Done() case.
QueuedDoneNever(s) == FALSE /\ UNCHANGED vars

\* ctx.Done() wakes a blocked goroutine, which takes itself off the queue.
QueuedDone(s) ==
  /\ pc[s] = "queued" /\ ctxDone[s]
  /\ \E i \in DOMAIN sendq :
       sendq[i] = s /\ sendq' = RemoveAt(sendq, i)
  /\ Goto(s, "done")
  /\ UNCHANGED <<op, ctxDone, path, fd, conn, sem>>

\* The receive frees its slot and leaves the wakeup to chance.
ReleaseNoHandOver(s) ==
  /\ pc[s] = "release"
  /\ Goto(s, "done")
  /\ sem' = (IF MaxConcurrentScans = 0 THEN sem ELSE sem - 1)
  /\ UNCHANGED <<op, ctxDone, path, fd, conn, sendq>>

\* The blocked sender that came last is served.
ReleaseToLast(s) ==
  /\ pc[s] = "release"
  /\ IF sendq = <<>>
       THEN /\ Goto(s, "done")
            /\ sem' = (IF MaxConcurrentScans = 0 THEN sem ELSE sem - 1)
            /\ UNCHANGED sendq
       ELSE LET t == sendq[Len(sendq)]
            IN  /\ pc' = [pc EXCEPT ![s] = "done", ![t] = AfterAcquire(t)]
                /\ sendq' = SubSeq(sendq, 1, Len(sendq) - 1)
                /\ UNCHANGED sem
  /\ UNCHANGED <<op, ctxDone, path, fd, conn>>

\* A receive from the nil channel blocks for ever.
ReleaseNilBlocks(s) ==
  /\ pc[s] = "release" /\ MaxConcurrentScans # 0
  /\ Goto(s, "done")
  /\ UNCHANGED <<op, ctxDone, path, fd, conn, channel>>

\* <-c.sem takes an element out and completes the first blocked send, which
\* puts one in.
Release(s) ==
  /\ pc[s] = "release"
  /\ IF sendq = <<>>
       THEN /\ Goto(s, "done")
            /\ sem' = (IF MaxConcurrentScans = 0 THEN sem ELSE sem - 1)
            /\ UNCHANGED sendq
       ELSE LET t == Head(sendq)
            IN  /\ pc' = [pc EXCEPT ![s] = "done", ![t] = AfterAcquire(t)]
                /\ sendq' = Tail(sendq)
                /\ UNCHANGED sem
  /\ UNCHANGED <<op, ctxDone, path, fd, conn>>

-----------------------------------------------------------------------------
(* ScanFile's descriptor.                                                  *)

\* A plain open of a FIFO waits for a writer that may never come.
OpenBlocking(s) ==
  /\ pc[s] = "open"
  /\ \/ /\ path[s] \in {"regular", "oversized"}
        /\ fd' = [fd EXCEPT ![s] = path[s]]
        /\ Goto(s, "fstat")
     \/ /\ path[s] = "missing"
        /\ Goto(s, "release") /\ UNCHANGED fd
  /\ UNCHANGED <<op, ctxDone, path, conn, channel>>

\* The return after a failed open is not covered by the deferred release.
OpenSkipsRelease(s) ==
  /\ pc[s] = "open"
  /\ \/ /\ path[s] # "missing"
        /\ fd' = [fd EXCEPT ![s] = path[s]]
        /\ Goto(s, "fstat")
     \/ Goto(s, "done") /\ UNCHANGED fd
  /\ UNCHANGED <<op, ctxDone, path, conn, channel>>

\* openScanTarget: O_NONBLOCK, so that whatever the path names by now opens
\* at once, or fails.
Open(s) ==
  /\ pc[s] = "open"
  /\ \/ /\ path[s] # "missing"
        /\ fd' = [fd EXCEPT ![s] = path[s]]
        /\ Goto(s, "fstat")
     \/ Goto(s, "release") /\ UNCHANGED fd
  /\ UNCHANGED <<op, ctxDone, path, conn, channel>>

\* The descriptor is trusted to be what os.Stat saw.
FstatTrusting(s) ==
  /\ pc[s] = "fstat"
  /\ Goto(s, "dial")
  /\ UNCHANGED <<op, ctxDone, path, fd, conn, channel>>

\* A refused descriptor is not closed.
FstatLeaks(s) ==
  /\ pc[s] = "fstat"
  /\ (fd[s] = "regular" /\ Goto(s, "dial")) \/ Goto(s, "release")
  /\ UNCHANGED <<op, ctxDone, path, fd, conn, channel>>

\* f.Stat() and checkScanTarget on the open descriptor.
Fstat(s) ==
  /\ pc[s] = "fstat"
  /\ (fd[s] = "regular" /\ Goto(s, "dial")) \/ Goto(s, "closeFile")
  /\ UNCHANGED <<op, ctxDone, path, fd, conn, channel>>

-----------------------------------------------------------------------------
(* scanStream, seen from outside, and the deferred calls.                  *)

\* The deferred calls after the one on the connection.
Unwind(s) == IF fd[s] = "none" THEN "release" ELSE "closeFile"

Dial(s) ==
  /\ pc[s] = "dial"
  /\ conn' = [conn EXCEPT ![s] = TRUE]
  /\ Goto(s, "stream")
  /\ UNCHANGED <<op, ctxDone, path, fd, channel>>

DialFails(s) ==
  /\ pc[s] = "dial"
  /\ Goto(s, Unwind(s))
  /\ UNCHANGED <<op, ctxDone, path, fd, conn, channel>>

StreamEnds(s) ==
  /\ pc[s] = "stream"
  /\ Goto(s, "closeConn")
  /\ UNCHANGED <<op, ctxDone, path, fd, conn, channel>>

CloseConn(s) ==
  /\ pc[s] = "closeConn"
  /\ conn' = [conn EXCEPT ![s] = FALSE]
  /\ Goto(s, Unwind(s))
  /\ UNCHANGED <<op, ctxDone, path, fd, channel>>

CloseFile(s) ==
  /\ pc[s] = "closeFile"
  /\ fd' = [fd EXCEPT ![s] = "none"]
  /\ Goto(s, "release")
  /\ UNCHANGED <<op, ctxDone, path, conn, channel>>

\* The caller has its result and may call again with a new context.
Return(s) ==
  /\ pc[s] = "done"
  /\ Goto(s, "idle")
  /\ op' = [op EXCEPT ![s] = "none"]
  /\ ctxDone' = [ctxDone EXCEPT ![s] = FALSE]
  /\ path' = [path EXCEPT ![s] = "missing"]
  /\ UNCHANGED <<fd, conn, channel>>

-----------------------------------------------------------------------------
(* The environment.                                                        *)

\* The context is cancelled or its deadline timer fires.
Cancel(s) ==
  /\ pc[s] \notin {"idle", "done"} /\ ~ctxDone[s]
  /\ ctxDone' = [ctxDone EXCEPT ![s] = TRUE]
  /\ UNCHANGED <<pc, op, path, fd, conn, channel>>

\* Somebody replaces what the path names; once the file is open that changes
\* nothing any more.
SwapPath(s) ==
  /\ op[s] = "ScanFile" /\ pc[s] \in BeforeOpen
  /\ \E target \in Targets : path' = [path EXCEPT ![s] = target]
  /\ UNCHANGED <<pc, op, ctxDone, fd, conn, channel>>

-----------------------------------------------------------------------------
Init ==
  /\ pc = [s \in Scans |-> "idle"]
  /\ op = [s \in Scans |-> "none"]
  /\ ctxDone = [s \in Scans |-> FALSE]
  /\ path = [s \in Scans |-> "missing"]
  /\ fd = [s \in Scans |-> "none"]
  /\ conn = [s \in Scans |-> FALSE]
  /\ sem = 0 /\ sendq = <<>>

Call(s) == CallScan(s) \/ CallScanFile(s)

\* Steps that only wait for the scheduler.
Library(s) ==
  \/ CheckContext(s) \/ SelectSlot(s) \/ SelectDone(s) \/ Park(s)
  \/ QueuedDone(s) \/ Open(s) \/ Fstat(s) \/ CloseConn(s) \/ CloseFile(s)
  \/ Release(s)

\* Steps that wait for the daemon, the network or the caller's reader.
Remote(s) == Dial(s) \/ DialFails(s) \/ StreamEnds(s)

Environment(s) == Cancel(s) \/ SwapPath(s)

Next ==
  \E s \in Scans : Call(s) \/ Library(s) \/ Remote(s) \/ Return(s) \/ Environment(s)

Spec == Init /\ [][Next]_vars

\* Goroutines are scheduled, and a call whose context is done does not stay
\* on the wire (CancelledReturns of ScanStream); a scan that nobody cancels
\* may stream for ever.
FairSpec ==
  Spec /\ \A s \in Scans :
            WF_vars(Library(s)) /\ WF_vars(ctxDone[s] /\ Remote(s))

-----------------------------------------------------------------------------
(* Properties.                                                             *)

\* The variables stay in their types; the channel never holds more elements
\* than its capacity, and none at all when it is nil.
TypeOK ==
  /\ pc \in [Scans -> PCs]
  /\ op \in [Scans -> {"none", "Scan", "ScanFile"}]
  /\ ctxDone \in [Scans -> BOOLEAN]
  /\ path \in [Scans -> PathKinds]
  /\ fd \in [Scans -> {"none"} \cup (PathKinds \ {"missing"})]
  /\ conn \in [Scans -> BOOLEAN]
  /\ sem \in 0 .. MaxConcurrentScans
  /\ sendq \in Seq(Scans)

Holders == {s \in Scans : pc[s] \in Holding}

\* The channel counts exactly the goroutines between acquireScanSlot and
\* releaseScanSlot: no slot is lost or given twice, whatever races.
SemCountsHolders == MaxConcurrentScans # 0 => sem = Cardinality(Holders)

\* The queue holds exactly the blocked goroutines, each once, and nobody is
\* blocked while a slot is free (no lost wakeup).
QueueIsBlocked ==
  /\ ToSet(sendq) = {s \in Scans : pc[s] = "queued"}
  /\ \A i, j \in DOMAIN sendq : sendq[i] = sendq[j] => i = j
  /\ sendq # <<>> => sem = MaxConcurrentScans

\* Open descriptors and connections stay within the slots: queued scans
\* accumulate neither, and a slot is not given away before both are closed
\* (ScanFile's comment and the order of the deferred calls).
ResourcesWithinSlots ==
  MaxConcurrentScans # 0 =>
    /\ Cardinality({s \in Scans : fd[s] # "none"}) <= MaxConcurrentScans
    /\ Cardinality({s \in Scans : conn[s]}) <= MaxConcurrentScans

\* ScanFile connects to the daemon only for a descriptor that is a regular
\* file within the limit, whatever happened to the path since os.Stat.
OnlyRegularStreamed ==
  \A s \in Scans : conn[s] /\ op[s] = "ScanFile" => fd[s] = "regular"

\* A scan that has returned holds nothing.
DoneHoldsNothing ==
  \A s \in Scans : pc[s] \in {"idle", "done"} => fd[s] = "none" /\ ~conn[s]

\* The slots are a pool: bounded, given to those that wait before anybody else,
\* in the order in which the runtime queued them.
Pool == INSTANCE SlotPool WITH
          Slots <- MaxConcurrentScans, holders <- Holders, waiting <- sendq
ImplementsPool == Pool!Spec

\* A cancelled call returns although no other scan ever ends: it is not kept
\* by the queue, by a path swapped for a FIFO, or by its own stream.
CancelledReturns ==
  \A s \in Scans : ctxDone[s] ~> (pc[s] = "done")

\* If every stream ends (EveryCallReturns of ScanStream) then every call
\* returns: the queue starves nobody.
EveryCallReturns ==
  (\A s \in Scans : WF_vars(Remote(s))) =>
    \A s \in Scans : (pc[s] # "idle") ~> (pc[s] = "done")

=============================================================================
