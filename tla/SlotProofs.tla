----------------------------- MODULE SlotProofs -----------------------------
(***************************************************************************)
(* The accounting of slots, descriptors and connections in ScanSlots for   *)
(* every number of goroutines and slots, the proof that the channel        *)
(* implements SlotPool, and what the uploads of Upload, which share such a *)
(* pool, are answered.                                                     *)
(***************************************************************************)
EXTENDS ScanSlots, Upload, FiniteSetTheorems, SequenceTheorems, TLAPS

\* What a goroutine holds depends on where it is: a connection while it
\* streams, a descriptor from the open to the deferred close, and ScanFile
\* gets past the fstat with a regular file only.
ProgressInv ==
  \A s \in Scans :
    /\ conn[s] => pc[s] \in Streaming
    /\ fd[s] # "none" => pc[s] \in {"fstat", "dial", "closeFile"} \cup Streaming
    /\ op[s] = "ScanFile" /\ pc[s] \in {"dial"} \cup Streaming => fd[s] = "regular"
    /\ MaxConcurrentScans = 0 => pc[s] \notin {"select", "queued"}

Queued == {s \in Scans : pc[s] = "queued"}
Distinct(q) == \A i, j \in DOMAIN q : q[i] = q[j] => i = j

IInv == TypeOK /\ ProgressInv /\ SemCountsHolders /\ QueueIsBlocked

-----------------------------------------------------------------------------
(* Queues.                                                                 *)

\* A goroutine that blocks joins the queue at its end.
LEMMA JoinQueue ==
  ASSUME NEW S, NEW q \in Seq(S), NEW x \in S, x \notin ToSet(q), Distinct(q)
  PROVE  /\ Append(q, x) \in Seq(S) /\ Distinct(Append(q, x))
         /\ ToSet(Append(q, x)) = ToSet(q) \cup {x}
<1> DEFINE r == Append(q, x)
<1>1. /\ r \in Seq(S) /\ Len(r) = Len(q) + 1 /\ r[Len(q) + 1] = x
      /\ \A i \in 1 .. Len(q) : r[i] = q[i]
      BY AppendProperties
<1>2. DOMAIN r = 1 .. Len(q) + 1 /\ DOMAIN q = 1 .. Len(q) /\ Len(q) \in Nat
      BY <1>1
<1> HIDE DEF r
<1>3. Distinct(r)
      BY <1>1, <1>2 DEF Distinct, ToSet
<1>4. ToSet(r) = ToSet(q) \cup {x}
      BY <1>1, <1>2 DEF ToSet
<1> QED
  BY <1>1, <1>3, <1>4 DEF r

\* The first in the queue leaves it.
LEMMA LeaveHead ==
  ASSUME NEW S, NEW q \in Seq(S), q # <<>>, Distinct(q)
  PROVE  /\ Tail(q) \in Seq(S) /\ Distinct(Tail(q))
         /\ Head(q) \in S /\ Head(q) \in ToSet(q)
         /\ ToSet(Tail(q)) = ToSet(q) \ {Head(q)}
<1> DEFINE r == Tail(q)
<1>1. /\ r \in Seq(S) /\ Len(r) = Len(q) - 1
      /\ \A i \in 1 .. Len(r) : r[i] = q[i + 1]
      BY HeadTailProperties
<1>2. /\ DOMAIN r = 1 .. Len(q) - 1 /\ DOMAIN q = 1 .. Len(q)
      /\ Len(q) \in Nat /\ Len(q) > 0 /\ Head(q) = q[1]
      BY <1>1
<1> HIDE DEF r
<1>3. Distinct(r)
  <2> SUFFICES ASSUME NEW i \in DOMAIN r, NEW j \in DOMAIN r, r[i] = r[j]
               PROVE  i = j
      BY DEF Distinct
  <2>1. /\ q[i + 1] = q[j + 1] /\ i + 1 \in DOMAIN q /\ j + 1 \in DOMAIN q
        /\ i \in Nat /\ j \in Nat
        BY <1>1, <1>2
  <2>2. i + 1 = j + 1
        BY <2>1 DEF Distinct
  <2> QED
    BY <2>1, <2>2
<1>4. ToSet(r) = ToSet(q) \ {q[1]}
  <2>1. ASSUME NEW y \in ToSet(r) PROVE y \in ToSet(q) \ {q[1]}
        BY <1>1, <1>2, <2>1 DEF ToSet, Distinct
  <2>2. ASSUME NEW y \in ToSet(q) \ {q[1]} PROVE y \in ToSet(r)
    <3>1. PICK i \in 2 .. Len(q) : y = q[i]
          BY <1>2, <2>2 DEF ToSet
    <3>2. i - 1 \in DOMAIN r /\ r[i - 1] = y
          BY <1>1, <1>2, <3>1
    <3> QED
      BY <3>2 DEF ToSet
  <2> QED
    BY <2>1, <2>2
<1>5. Head(q) \in S /\ Head(q) \in ToSet(q)
      BY <1>2, HeadTailProperties DEF ToSet
<1> QED
  BY <1>1, <1>2, <1>3, <1>4, <1>5 DEF r

\* Anyone leaves the queue; the others keep their order.
LEMMA LeaveQueue ==
  ASSUME NEW S, NEW q \in Seq(S), NEW i \in DOMAIN q, Distinct(q)
  PROVE  /\ RemoveAt(q, i) \in Seq(S) /\ Distinct(RemoveAt(q, i))
         /\ ToSet(RemoveAt(q, i)) = ToSet(q) \ {q[i]}
<1> DEFINE front == SubSeq(q, 1, i - 1)
           back  == SubSeq(q, i + 1, Len(q))
           r     == RemoveAt(q, i)
<1>1. /\ DOMAIN q = 1 .. Len(q) /\ Len(q) \in Nat /\ i \in 1 .. Len(q)
      /\ \A k \in 1 .. Len(q) : q[k] \in S
      OBVIOUS
<1>2. /\ front \in Seq(S) /\ Len(front) = i - 1
      /\ \A k \in 1 .. i - 1 : front[k] = q[k]
      BY <1>1, SubSeqProperties
<1>3. /\ back \in Seq(S) /\ Len(back) = Len(q) - i
      /\ \A k \in 1 .. Len(q) - i : back[k] = q[i + k]
      BY <1>1, SubSeqProperties
<1> HIDE DEF front, back
<1>4. /\ r \in Seq(S) /\ Len(r) = Len(q) - 1
      /\ \A k \in 1 .. Len(q) - 1 : r[k] = IF k < i THEN q[k] ELSE q[k + 1]
  <2>1. r = front \o back
        BY DEF RemoveAt, front, back
  <2> HIDE DEF r
  <2>2. /\ r \in Seq(S) /\ Len(r) = Len(front) + Len(back)
        /\ \A k \in 1 .. Len(front) + Len(back) :
             r[k] = IF k <= Len(front) THEN front[k] ELSE back[k - Len(front)]
        BY <1>2, <1>3, <2>1, ConcatProperties
  <2>3. Len(r) = Len(q) - 1
        BY <1>1, <1>2, <1>3, <2>2
  <2>4. ASSUME NEW k \in 1 .. Len(q) - 1
        PROVE  r[k] = IF k < i THEN q[k] ELSE q[k + 1]
    <3>1. CASE k < i
          BY <1>1, <1>2, <1>3, <2>2, <3>1
    <3>2. CASE ~(k < i)
      <4>1. r[k] = back[k - (i - 1)] /\ k - (i - 1) \in 1 .. Len(q) - i
        <5>1. k \in 1 .. Len(front) + Len(back) /\ ~(k <= Len(front))
              BY <1>1, <1>2, <1>3, <3>2
        <5>2. r[k] = back[k - Len(front)]
              BY <2>2, <5>1
        <5> QED
          BY <1>1, <1>2, <3>2, <5>2
      <4>2. back[k - (i - 1)] = q[i + (k - (i - 1))] /\ i + (k - (i - 1)) = k + 1
            BY <1>1, <1>3, <4>1
      <4> QED
        BY <3>2, <4>1, <4>2
    <3> QED
      BY <3>1, <3>2
  <2> QED
    BY <2>2, <2>3, <2>4
<1>5. DOMAIN r = 1 .. Len(q) - 1
      BY <1>4
<1> HIDE DEF r
<1>6. Distinct(r)
  <2> SUFFICES ASSUME NEW j \in DOMAIN r, NEW k \in DOMAIN r, r[j] = r[k]
               PROVE  j = k
      BY DEF Distinct
  <2> DEFINE m == IF j < i THEN j ELSE j + 1
             n == IF k < i THEN k ELSE k + 1
  <2>1. r[j] = q[m] /\ r[k] = q[n]
        BY <1>4, <1>5
  <2>2. m \in DOMAIN q /\ n \in DOMAIN q
        BY <1>1, <1>5
  <2>3. m = n
    <3> HIDE DEF m, n
    <3> QED
      BY <2>1, <2>2 DEF Distinct
  <2>4. i \in Nat /\ j \in Nat /\ k \in Nat
        BY <1>1, <1>5
  <2> QED
    BY <2>3, <2>4
<1>7. ToSet(r) = ToSet(q) \ {q[i]}
  <2>1. ASSUME NEW y \in ToSet(r) PROVE y \in ToSet(q) \ {q[i]}
    <3>1. PICK k \in 1 .. Len(q) - 1 : y = r[k]
          BY <1>5, <2>1 DEF ToSet
    <3>2. \E m \in 1 .. Len(q) : y = q[m] /\ m # i
      <4> DEFINE m == IF k < i THEN k ELSE k + 1
      <4>1. y = q[m]
            BY <1>4, <3>1
      <4>2. m \in 1 .. Len(q) /\ m # i
            BY <1>1, <3>1
      <4> QED
        BY <4>1, <4>2
    <3> QED
      BY <1>1, <3>2 DEF ToSet, Distinct
  <2>2. ASSUME NEW y \in ToSet(q) \ {q[i]} PROVE y \in ToSet(r)
    <3>1. PICK m \in 1 .. Len(q) : y = q[m] /\ m # i
          BY <1>1, <2>2 DEF ToSet
    <3>2. \E k \in 1 .. Len(q) - 1 : r[k] = y
      <4>1. CASE m < i
            BY <1>1, <1>4, <3>1, <4>1
      <4>2. CASE m > i
        <5>1. m - 1 \in 1 .. Len(q) - 1 /\ r[m - 1] = y
              BY <1>1, <1>4, <3>1, <4>2
        <5> QED
          BY <5>1
      <4> QED
        BY <1>1, <3>1, <4>1, <4>2
    <3> QED
      BY <1>5, <3>2 DEF ToSet
  <2> QED
    BY <2>1, <2>2
<1> QED
  BY <1>4, <1>6, <1>7 DEF r

-----------------------------------------------------------------------------
(* Slots.                                                                  *)

\* The goroutines with a slot can be counted.
LEMMA HoldersFinite ==
  IsFiniteSet(Holders) /\ Cardinality(Holders) \in Nat
<1>1. Holders \subseteq Scans
      BY DEF Holders
<1>2. IsFiniteSet(Holders)
      BY <1>1, ScansAssumption, FS_Subset DEF ScansAssumption
<1> QED
  BY <1>2, FS_CardinalityType

\* A step of a goroutine that neither acquires nor gives back a slot, and does
\* not touch the channel.
LEMMA KeepsSlot ==
  ASSUME IInv, NEW s \in Scans, NEW label, Goto(s, label),
         label \in Holding <=> pc[s] \in Holding,
         label # "queued", pc[s] # "queued", UNCHANGED channel
  PROVE  SemCountsHolders' /\ QueueIsBlocked' /\ UNCHANGED <<Holders, sendq>>
<1>1. pc' = [pc EXCEPT ![s] = label] /\ pc \in [Scans -> PCs]
      BY DEF Goto, IInv, TypeOK
<1>2. sem' = sem /\ sendq' = sendq
      BY DEF channel
<1>3. Holders' = Holders
      BY <1>1 DEF Holders
<1>4. {t \in Scans : pc[t] = "queued"}' = {t \in Scans : pc[t] = "queued"}
      BY <1>1
<1> QED
  BY <1>2, <1>3, <1>4 DEF IInv, SemCountsHolders, QueueIsBlocked

\* A goroutine that takes a slot while there is room.
LEMMA TakesSlot ==
  ASSUME IInv, NEW s \in Scans, pc[s] = "select", sem < MaxConcurrentScans,
         sem' = sem + 1, NEW label \in Holding, Goto(s, label), sendq' = sendq
  PROVE  SemCountsHolders' /\ QueueIsBlocked' /\ Holders' = Holders \cup {s}
<1>1. /\ pc' = [pc EXCEPT ![s] = label] /\ pc \in [Scans -> PCs]
      /\ sem \in Nat /\ MaxConcurrentScans \in Nat
      BY SlotsAssumption DEF Goto, IInv, TypeOK, SlotsAssumption
<1>2. s \notin Holders /\ label # "queued"
      BY DEF Holders, Holding, Streaming
<1>3. Holders' = Holders \cup {s}
      BY <1>1 DEF Holders
<1>4. Cardinality(Holders') = Cardinality(Holders) + 1
      BY <1>2, <1>3, HoldersFinite, FS_AddElement
<1>5. {t \in Scans : pc[t] = "queued"}' = {t \in Scans : pc[t] = "queued"}
      BY <1>1, <1>2
<1>6. sendq = <<>>
      BY <1>1 DEF IInv, QueueIsBlocked
<1>7. SemCountsHolders'
      BY <1>1, <1>4 DEF IInv, SemCountsHolders
<1>8. QueueIsBlocked'
      BY <1>5, <1>6 DEF IInv, QueueIsBlocked
<1> QED
  BY <1>3, <1>7, <1>8

-----------------------------------------------------------------------------
(* The induction step.                                                     *)

Flags == ctxDone \in [Scans -> BOOLEAN] /\ conn \in [Scans -> BOOLEAN]

\* The Boolean arrays keep their type.
LEMMA FlagsStep ==
  ASSUME IInv, NEW s \in Scans,
         Call(s) \/ Library(s) \/ Remote(s) \/ Return(s) \/ Environment(s)
  PROVE  Flags'
<1>1. /\ \/ ctxDone' = ctxDone
         \/ ctxDone' = [ctxDone EXCEPT ![s] = TRUE]
         \/ ctxDone' = [ctxDone EXCEPT ![s] = FALSE]
      /\ \/ conn' = conn
         \/ conn' = [conn EXCEPT ![s] = TRUE]
         \/ conn' = [conn EXCEPT ![s] = FALSE]
      BY Zenon
      DEF Call, Library, Remote, Environment, CallScan, CallScanFile,
          CheckContext, SelectSlot, SelectDone, Park, QueuedDone, Release, Open,
          Fstat, Dial, DialFails, StreamEnds, CloseConn, CloseFile, Return,
          Cancel, SwapPath
<1>2. ctxDone \in [Scans -> BOOLEAN] /\ conn \in [Scans -> BOOLEAN]
      BY DEF IInv, TypeOK
<1>3. \A f \in [Scans -> BOOLEAN] :
        /\ [f EXCEPT ![s] = TRUE] \in [Scans -> BOOLEAN]
        /\ [f EXCEPT ![s] = FALSE] \in [Scans -> BOOLEAN]
      BY Zenon
<1> QED
  BY <1>1, <1>2, <1>3 DEF Flags

\* Every step preserves the strengthened invariant.
LEMMA NextIInv == IInv /\ [Next]_vars => IInv'
<1> SUFFICES ASSUME IInv, [Next]_vars PROVE IInv'
    OBVIOUS
<1>1. CASE UNCHANGED vars
      BY <1>1 DEF vars, IInv, TypeOK, ProgressInv, SemCountsHolders,
         QueueIsBlocked, Holders
<1>2. CASE Next
  <2>1. PICK s \in Scans :
          Call(s) \/ Library(s) \/ Remote(s) \/ Return(s) \/ Environment(s)
        BY <1>2 DEF Next
  <2>0. Flags'
        BY <2>1, FlagsStep
  <2> USE SlotsAssumption, TargetsAssumption
      DEF SlotsAssumption, TargetsAssumption, Flags
  <2>3. CASE CallScan(s)
    <3>1. SemCountsHolders' /\ QueueIsBlocked'
          BY <2>3, KeepsSlot DEF CallScan, Holding, Streaming
    <3> QED
      BY <2>0, <2>3, <3>1
         DEF CallScan, Goto, channel, IInv, TypeOK, ProgressInv, PCs,
             BeforeOpen, Holding, Streaming, PathKinds
  <2>4. CASE CallScanFile(s)
    <3>1. SemCountsHolders' /\ QueueIsBlocked'
          BY <2>4, KeepsSlot DEF CallScanFile, Holding, Streaming
    <3> QED
      BY <2>0, <2>4, <3>1
         DEF CallScanFile, Goto, channel, IInv, TypeOK, ProgressInv, PCs,
             BeforeOpen, Holding, Streaming, PathKinds
  <2>5. CASE CheckContext(s)
    <3>1. CASE MaxConcurrentScans # 0
      <4>1. SemCountsHolders' /\ QueueIsBlocked'
        <5>1. Goto(s, "done") \/ Goto(s, "select")
              BY <2>5, <3>1 DEF CheckContext
        <5> QED
          BY <2>5, <5>1, KeepsSlot DEF CheckContext, Holding, Streaming
      <4> QED
        BY <2>0, <2>5, <3>1, <4>1
           DEF CheckContext, Goto, channel, IInv, TypeOK, ProgressInv, PCs,
               BeforeOpen, Holding, Streaming
    <3>2. CASE MaxConcurrentScans = 0
          BY <2>0, <2>5, <3>2
             DEF CheckContext, Goto, channel, AfterAcquire, IInv, TypeOK,
                 ProgressInv, SemCountsHolders, QueueIsBlocked, PCs, BeforeOpen,
                 Holding, Streaming
    <3> QED
      BY <3>1, <3>2
  <2>6. CASE SelectDone(s)
    <3>1. SemCountsHolders' /\ QueueIsBlocked'
          BY <2>6, KeepsSlot DEF SelectDone, Holding, Streaming
    <3> QED
      BY <2>0, <2>6, <3>1
         DEF SelectDone, Goto, channel, IInv, TypeOK, ProgressInv, PCs,
             BeforeOpen, Holding, Streaming, PathKinds
  <2>7. CASE Open(s)
    <3>1. SemCountsHolders' /\ QueueIsBlocked'
          BY <2>7, KeepsSlot DEF Open, Holding, Streaming
    <3> QED
      BY <2>0, <2>7, <3>1
         DEF Open, Goto, channel, IInv, TypeOK, ProgressInv, PCs, BeforeOpen,
             Holding, Streaming, PathKinds
  <2>8. CASE Fstat(s)
    <3>1. SemCountsHolders' /\ QueueIsBlocked'
          BY <2>8, KeepsSlot DEF Fstat, Holding, Streaming
    <3> QED
      BY <2>0, <2>8, <3>1
         DEF Fstat, Goto, channel, IInv, TypeOK, ProgressInv, PCs, BeforeOpen,
             Holding, Streaming, PathKinds
  <2>9. CASE Dial(s)
    <3>1. SemCountsHolders' /\ QueueIsBlocked'
          BY <2>9, KeepsSlot DEF Dial, Holding, Streaming
    <3> QED
      BY <2>0, <2>9, <3>1
         DEF Dial, Goto, channel, IInv, TypeOK, ProgressInv, PCs, BeforeOpen,
             Holding, Streaming, PathKinds
  <2>10. CASE DialFails(s)
    <3>1. SemCountsHolders' /\ QueueIsBlocked'
          BY <2>10, KeepsSlot DEF DialFails, Unwind, Holding, Streaming
    <3> QED
      BY <2>0, <2>10, <3>1
         DEF DialFails, Unwind, Goto, channel, IInv, TypeOK, ProgressInv, PCs,
             BeforeOpen, Holding, Streaming, PathKinds
  <2>11. CASE StreamEnds(s)
    <3>1. SemCountsHolders' /\ QueueIsBlocked'
          BY <2>11, KeepsSlot DEF StreamEnds, Holding, Streaming
    <3> QED
      BY <2>0, <2>11, <3>1
         DEF StreamEnds, Goto, channel, IInv, TypeOK, ProgressInv, PCs,
             BeforeOpen, Holding, Streaming, PathKinds
  <2>12. CASE CloseConn(s)
    <3>1. SemCountsHolders' /\ QueueIsBlocked'
          BY <2>12, KeepsSlot DEF CloseConn, Unwind, Holding, Streaming
    <3> QED
      BY <2>0, <2>12, <3>1
         DEF CloseConn, Unwind, Goto, channel, IInv, TypeOK, ProgressInv, PCs,
             BeforeOpen, Holding, Streaming, PathKinds
  <2>13. CASE CloseFile(s)
    <3>1. SemCountsHolders' /\ QueueIsBlocked'
          BY <2>13, KeepsSlot DEF CloseFile, Holding, Streaming
    <3> QED
      BY <2>0, <2>13, <3>1
         DEF CloseFile, Goto, channel, IInv, TypeOK, ProgressInv, PCs,
             BeforeOpen, Holding, Streaming, PathKinds
  <2>14. CASE Return(s)
    <3>1. SemCountsHolders' /\ QueueIsBlocked'
          BY <2>14, KeepsSlot DEF Return, Holding, Streaming
    <3> QED
      BY <2>0, <2>14, <3>1
         DEF Return, Goto, channel, IInv, TypeOK, ProgressInv, PCs, BeforeOpen,
             Holding, Streaming, PathKinds
  <2>15. CASE Cancel(s)
        BY <2>0, <2>15 DEF Cancel, channel, IInv, TypeOK, ProgressInv,
           SemCountsHolders, QueueIsBlocked, Holders, PathKinds
  <2>16. CASE SwapPath(s)
        BY <2>0, <2>16 DEF SwapPath, channel, IInv, TypeOK, ProgressInv,
           SemCountsHolders, QueueIsBlocked, Holders, PathKinds
  <2>17. CASE SelectSlot(s)
    <3>1. SemCountsHolders' /\ QueueIsBlocked'
          BY <2>17, TakesSlot DEF SelectSlot, AfterAcquire, Holding
    <3> QED
      BY <2>0, <2>17, <3>1
         DEF SelectSlot, AfterAcquire, Goto, IInv, TypeOK, ProgressInv, PCs,
             BeforeOpen, Holding, Streaming, PathKinds
  <2>18. CASE Park(s)
    <3>1. /\ pc' = [pc EXCEPT ![s] = "queued"] /\ pc \in [Scans -> PCs]
          /\ sendq' = Append(sendq, s) /\ sendq \in Seq(Scans) /\ sem' = sem
          BY <2>18 DEF Park, Goto, IInv, TypeOK
    <3>2. Holders' = Holders
          BY <2>18, <3>1 DEF Park, Holders, Holding, Streaming
    <3>3. Queued' = Queued \cup {s} /\ s \notin Queued
          BY <2>18, <3>1 DEF Park, Queued
    <3>4. ToSet(sendq) = Queued /\ Distinct(sendq)
          BY DEF IInv, QueueIsBlocked, Queued, Distinct
    <3>5. sendq' \in Seq(Scans) /\ Distinct(sendq') /\ ToSet(sendq') = Queued'
          BY <3>1, <3>3, <3>4, JoinQueue
    <3>6. QueueIsBlocked'
          BY <2>18, <3>1, <3>5 DEF Park, QueueIsBlocked, Queued, Distinct
    <3> QED
      BY <2>0, <2>18, <3>1, <3>2, <3>5, <3>6
         DEF Park, IInv, TypeOK, ProgressInv, SemCountsHolders, PCs,
             BeforeOpen, Holding, Streaming, PathKinds
  <2>19. CASE QueuedDone(s)
    <3>1. PICK i \in DOMAIN sendq : sendq[i] = s /\ sendq' = RemoveAt(sendq, i)
          BY <2>19 DEF QueuedDone
    <3>2. /\ pc' = [pc EXCEPT ![s] = "done"] /\ pc \in [Scans -> PCs]
          /\ sendq \in Seq(Scans) /\ sem' = sem
          BY <2>19 DEF QueuedDone, Goto, IInv, TypeOK
    <3>3. Holders' = Holders
          BY <2>19, <3>2 DEF QueuedDone, Holders, Holding, Streaming
    <3>4. Queued' = Queued \ {s}
          BY <2>19, <3>2 DEF QueuedDone, Queued
    <3>5. ToSet(sendq) = Queued /\ Distinct(sendq)
          BY DEF IInv, QueueIsBlocked, Queued, Distinct
    <3>6. sendq' \in Seq(Scans) /\ Distinct(sendq') /\ ToSet(sendq') = Queued'
          BY <3>1, <3>2, <3>4, <3>5, LeaveQueue
    <3>7. sendq # <<>>
          BY <3>1
    <3>8. QueueIsBlocked'
          BY <3>2, <3>6, <3>7 DEF IInv, QueueIsBlocked, Queued, Distinct
    <3> QED
      BY <2>0, <2>19, <3>2, <3>3, <3>6, <3>8
         DEF QueuedDone, IInv, TypeOK, ProgressInv, SemCountsHolders, PCs,
             BeforeOpen, Holding, Streaming, PathKinds
  <2>20. CASE Release(s)
    <3>1. /\ pc \in [Scans -> PCs] /\ sem \in Nat /\ sem <= MaxConcurrentScans
          /\ sendq \in Seq(Scans) /\ pc[s] = "release" /\ s \in Holders
          BY <2>20 DEF Release, IInv, TypeOK, Holders, Holding
    <3>2. CASE sendq = <<>>
      <4>1. /\ pc' = [pc EXCEPT ![s] = "done"] /\ sendq' = <<>>
            /\ sem' = (IF MaxConcurrentScans = 0 THEN sem ELSE sem - 1)
            BY <2>20, <3>2 DEF Release, Goto
      <4>2. Holders' = Holders \ {s}
            BY <3>1, <4>1 DEF Holders, Holding, Streaming
      <4>3. Cardinality(Holders') = Cardinality(Holders) - 1
            BY <3>1, <4>2, HoldersFinite, FS_RemoveElement
      <4>4. SemCountsHolders'
            BY <3>1, <4>1, <4>3, HoldersFinite DEF IInv, SemCountsHolders
      <4>5. MaxConcurrentScans # 0 => sem > 0
        <5>1. Cardinality(Holders) # 0
              BY <3>1, HoldersFinite, FS_EmptySet
        <5> QED
          BY <3>1, <5>1, HoldersFinite DEF IInv, SemCountsHolders
      <4>6. QueueIsBlocked'
        <5>1. {t \in Scans : pc[t] = "queued"}' = {t \in Scans : pc[t] = "queued"}
              BY <3>1, <4>1
        <5> QED
          BY <3>2, <4>1, <5>1 DEF IInv, QueueIsBlocked
      <4> QED
        BY <2>0, <2>20, <3>1, <4>1, <4>4, <4>5, <4>6
           DEF Release, IInv, TypeOK, ProgressInv, PCs, BeforeOpen, Holding,
               Streaming, PathKinds
    <3>3. CASE sendq # <<>>
      <4> DEFINE t == Head(sendq)
      <4>1. /\ pc' = [pc EXCEPT ![s] = "done", ![t] = AfterAcquire(t)]
            /\ sendq' = Tail(sendq) /\ sem' = sem
            BY <2>20, <3>3 DEF Release
      <4>2. ToSet(sendq) = Queued /\ Distinct(sendq)
            BY DEF IInv, QueueIsBlocked, Queued, Distinct
      <4>3. /\ t \in Scans /\ t \in Queued
            /\ Tail(sendq) \in Seq(Scans) /\ Distinct(Tail(sendq))
            /\ ToSet(Tail(sendq)) = Queued \ {t}
            BY <3>1, <3>3, <4>2, LeaveHead
      <4> HIDE DEF t
      <4>4. pc[t] = "queued" /\ t # s /\ AfterAcquire(t) \in {"open", "dial"}
            BY <3>1, <4>3 DEF Queued, AfterAcquire
      <4>5. /\ pc' \in [Scans -> PCs] /\ pc'[s] = "done" /\ pc'[t] = AfterAcquire(t)
            /\ \A u \in Scans \ {s, t} : pc'[u] = pc[u]
            BY <3>1, <4>1, <4>3, <4>4 DEF PCs, BeforeOpen, Holding
      <4>6. Holders' = (Holders \ {s}) \cup {t} /\ t \notin Holders
            BY <3>1, <4>3, <4>4, <4>5 DEF Holders, Holding, Streaming
      <4>7. Cardinality(Holders') = Cardinality(Holders)
        <5>1. /\ IsFiniteSet(Holders \ {s})
              /\ Cardinality(Holders \ {s}) = Cardinality(Holders) - 1
              BY <3>1, HoldersFinite, FS_RemoveElement
        <5>2. Cardinality((Holders \ {s}) \cup {t}) = Cardinality(Holders \ {s}) + 1
              BY <4>6, <5>1, FS_AddElement
        <5> QED
          BY <4>6, <5>1, <5>2, HoldersFinite
      <4>8. SemCountsHolders'
            BY <4>1, <4>7 DEF IInv, SemCountsHolders
      <4>9. Queued' = Queued \ {t}
            BY <3>1, <4>3, <4>4, <4>5 DEF Queued
      <4>10. QueueIsBlocked'
             BY <3>3, <4>1, <4>3, <4>9 DEF IInv, QueueIsBlocked, Queued, Distinct
      <4>11. ProgressInv'
        <5>1. UNCHANGED <<op, fd, conn>>
              BY <2>20 DEF Release
        <5>2. MaxConcurrentScans # 0
              BY <4>3, <4>4 DEF IInv, ProgressInv
        <5>3. /\ fd[t] = "none" /\ ~conn[t] /\ fd[s] = "none" /\ ~conn[s]
              /\ op[t] = "ScanFile" => AfterAcquire(t) = "open"
              BY <3>1, <4>3, <4>4 DEF IInv, ProgressInv, Streaming, AfterAcquire
        <5> QED
          BY <4>3, <4>4, <4>5, <5>1, <5>2, <5>3 DEF IInv, ProgressInv, Streaming
      <4> QED
        BY <2>0, <2>20, <4>1, <4>3, <4>5, <4>8, <4>10, <4>11
           DEF Release, IInv, TypeOK
    <3> QED
      BY <3>2, <3>3
  <2> QED
    BY <2>1, <2>3, <2>4, <2>5, <2>6, <2>7, <2>8, <2>9, <2>10, <2>11, <2>12,
       <2>13, <2>14, <2>15, <2>16, <2>17, <2>18, <2>19, <2>20
       DEF Call, Library, Remote, Environment
<1> QED
  BY <1>1, <1>2

\* The induction starts.
LEMMA InitIInv == Init => IInv
<1> SUFFICES ASSUME Init PROVE IInv
    OBVIOUS
<1>1. ctxDone \in [Scans -> BOOLEAN] /\ conn \in [Scans -> BOOLEAN]
      BY Zenon DEF Init
<1>2. Holders = {} /\ Cardinality(Holders) = 0
      BY FS_EmptySet DEF Init, Holders, Holding, Streaming
<1>3. ToSet(sendq) = {} /\ sendq \in Seq(Scans)
      BY DEF Init, ToSet
<1>4. QueueIsBlocked
      BY <1>3 DEF Init, QueueIsBlocked
<1>5. TypeOK
      BY <1>1, <1>3, SlotsAssumption
      DEF SlotsAssumption, Init, TypeOK, PCs, PathKinds
<1> QED
  BY <1>2, <1>4, <1>5 DEF Init, IInv, ProgressInv, SemCountsHolders, Streaming

\* The strengthened invariant holds throughout every behaviour of any number
\* of goroutines that scan.
THEOREM SlotsInvariance == Spec => []IInv
<1>1. Init => IInv
      BY InitIInv
<1>2. IInv /\ [Next]_vars => IInv'
      BY NextIInv
<1> QED
  BY <1>1, <1>2, PTL DEF Spec

-----------------------------------------------------------------------------
(* What follows from it.                                                   *)

\* The channel stays within its capacity.
THEOREM SlotsTypeCorrect == Spec => []TypeOK
<1>1. IInv => TypeOK
      BY DEF IInv
<1> QED
  BY <1>1, SlotsInvariance, PTL

\* No slot is lost or given twice.
THEOREM SlotsAreCounted == Spec => []SemCountsHolders
<1>1. IInv => SemCountsHolders
      BY DEF IInv
<1> QED
  BY <1>1, SlotsInvariance, PTL

\* No wakeup is lost and no goroutine is queued twice.
THEOREM NoLostWakeup == Spec => []QueueIsBlocked
<1>1. IInv => QueueIsBlocked
      BY DEF IInv
<1> QED
  BY <1>1, SlotsInvariance, PTL

\* The limit on scans bounds descriptors and connections as well.
THEOREM ResourcesAreBounded == Spec => []ResourcesWithinSlots
<1>1. IInv => ResourcesWithinSlots
  <2> SUFFICES ASSUME IInv, MaxConcurrentScans # 0 PROVE ResourcesWithinSlots
      BY DEF ResourcesWithinSlots
  <2> DEFINE fds   == {s \in Scans : fd[s] # "none"}
             conns == {s \in Scans : conn[s]}
  <2>1. fds \subseteq Holders /\ conns \subseteq Holders
        BY DEF IInv, ProgressInv, Holders, Holding
  <2>2. /\ IsFiniteSet(fds) /\ Cardinality(fds) <= Cardinality(Holders)
        /\ IsFiniteSet(conns) /\ Cardinality(conns) <= Cardinality(Holders)
        BY <2>1, HoldersFinite, FS_Subset
  <2>3. Cardinality(Holders) <= MaxConcurrentScans
        BY DEF IInv, SemCountsHolders, TypeOK
  <2>4. Cardinality(fds) \in Nat /\ Cardinality(conns) \in Nat
        BY <2>2, FS_CardinalityType
  <2> HIDE DEF fds, conns
  <2>5. /\ Cardinality(fds) <= MaxConcurrentScans
        /\ Cardinality(conns) <= MaxConcurrentScans
        BY <2>2, <2>3, <2>4, HoldersFinite, SlotsAssumption DEF SlotsAssumption
  <2> QED
    BY <2>5 DEF ResourcesWithinSlots, fds, conns
<1> QED
  BY <1>1, SlotsInvariance, PTL

\* Nothing but a regular file within the limit is ever streamed by ScanFile.
THEOREM ScanFileStreamsRegular == Spec => []OnlyRegularStreamed
<1>1. IInv => OnlyRegularStreamed
      BY DEF IInv, ProgressInv, OnlyRegularStreamed
<1> QED
  BY <1>1, SlotsInvariance, PTL

\* No way out of a call leaks a descriptor or a connection.
THEOREM NothingLeaks == Spec => []DoneHoldsNothing
<1>1. IInv => DoneHoldsNothing
      BY DEF IInv, ProgressInv, Streaming, DoneHoldsNothing
<1> QED
  BY <1>1, SlotsInvariance, PTL

\* SlotPool counts as ScanSlots does.
LEMMA SameCardinality == Pool!Cardinality(Holders) = Cardinality(Holders)
BY Zenon DEF Cardinality, Pool!Cardinality

\* What a step of Next does to the pool: nothing, or what SlotPool allows.
LEMMA PoolStep ==
  IInv /\ [Next]_vars => [Pool!Next]_<<Holders, sendq>>
<1> SUFFICES ASSUME IInv, [Next]_vars PROVE [Pool!Next]_<<Holders, sendq>>
    OBVIOUS
<1>1. CASE UNCHANGED vars
      BY <1>1 DEF vars, Holders
<1>2. CASE Next
  <2>1. PICK s \in Scans :
          Call(s) \/ Library(s) \/ Remote(s) \/ Return(s) \/ Environment(s)
        BY <1>2 DEF Next
  <2>2. CASE \/ Call(s) \/ SelectDone(s) \/ Open(s) \/ Fstat(s) \/ CloseConn(s)
             \/ CloseFile(s) \/ Remote(s) \/ Return(s)
    <3>1. PICK label : /\ Goto(s, label) /\ UNCHANGED channel
                       /\ label \in Holding <=> pc[s] \in Holding
                       /\ label # "queued" /\ pc[s] # "queued"
      <4>1. CASE Call(s)
            BY <4>1 DEF Call, CallScan, CallScanFile, Holding, Streaming
      <4>2. CASE SelectDone(s) \/ Open(s) \/ Fstat(s) \/ Return(s)
            BY <4>2 DEF SelectDone, Open, Fstat, Return, Holding, Streaming
      <4>3. CASE CloseConn(s) \/ CloseFile(s) \/ Remote(s)
            BY <4>3 DEF CloseConn, CloseFile, Remote, Dial, DialFails,
               StreamEnds, Unwind, Holding, Streaming
      <4> QED
        BY <2>2, <4>1, <4>2, <4>3
    <3> QED
      BY <3>1, KeepsSlot
  <2>3. CASE Environment(s)
        BY <2>3 DEF Environment, Cancel, SwapPath, channel, Holders
  <2>4. CASE CheckContext(s)
    <3>1. CASE Goto(s, "done") \/ Goto(s, "select")
          BY <2>4, <3>1, KeepsSlot DEF CheckContext, Holding, Streaming
    <3>2. CASE MaxConcurrentScans = 0 /\ Goto(s, AfterAcquire(s))
      <4>1. Holders' = Holders \cup {s} /\ s \notin Holders /\ sendq' = sendq
            BY <2>4, <3>2 DEF CheckContext, Goto, AfterAcquire, channel, IInv,
               TypeOK, Holders, Holding, Streaming
      <4> QED
        BY <3>2, <4>1 DEF Pool!Next, Pool!Enter
    <3> QED
      BY <2>4, <3>1, <3>2 DEF CheckContext
  <2>5. CASE SelectSlot(s)
    <3>1. Holders' = Holders \cup {s} /\ sendq' = sendq
          BY <2>5, TakesSlot DEF SelectSlot, AfterAcquire, Holding
    <3>2. /\ s \notin Holders /\ sendq = <<>>
          /\ Cardinality(Holders) < MaxConcurrentScans
          BY <2>5, SlotsAssumption DEF SlotsAssumption, SelectSlot, IInv, TypeOK,
             QueueIsBlocked, SemCountsHolders, Holders, Holding, Streaming
    <3> QED
      BY <3>1, <3>2, SameCardinality DEF Pool!Next, Pool!Enter
  <2>6. CASE Park(s)
    <3>1. Holders' = Holders /\ s \notin Holders /\ sendq' = Append(sendq, s)
          BY <2>6 DEF Park, Goto, IInv, TypeOK, Holders, Holding, Streaming
    <3>2. s \notin ToSet(sendq) /\ MaxConcurrentScans # 0
          BY <2>6 DEF Park, IInv, QueueIsBlocked, ProgressInv
    <3>3. Cardinality(Holders) = MaxConcurrentScans
          BY <2>6, <3>2 DEF Park, IInv, SemCountsHolders
    <3> QED
      BY <3>1, <3>2, <3>3, SameCardinality
         DEF Pool!Next, Pool!Wait, Pool!ToSet, ToSet
  <2>7. CASE QueuedDone(s)
    <3>1. Holders' = Holders
          BY <2>7 DEF QueuedDone, Goto, IInv, TypeOK, Holders, Holding, Streaming
    <3>2. PICK i \in DOMAIN sendq : sendq' = RemoveAt(sendq, i)
          BY <2>7 DEF QueuedDone
    <3> QED
      BY <3>1, <3>2 DEF Pool!Next, Pool!GiveUp, Pool!RemoveAt, RemoveAt
  <2>8. CASE Release(s)
    <3>1. s \in Holders /\ pc \in [Scans -> PCs]
          BY <2>8 DEF Release, IInv, TypeOK, Holders, Holding
    <3>2. CASE sendq = <<>>
      <4>1. Holders' = Holders \ {s} /\ sendq' = sendq
            BY <2>8, <3>1, <3>2 DEF Release, Goto, Holders, Holding, Streaming
      <4> QED
        BY <3>1, <3>2, <4>1 DEF Pool!Next, Pool!Leave
    <3>3. CASE sendq # <<>>
      <4> DEFINE t == Head(sendq)
      <4>1. /\ pc' = [pc EXCEPT ![s] = "done", ![t] = AfterAcquire(t)]
            /\ sendq' = Tail(sendq)
            BY <2>8, <3>3 DEF Release
      <4>2. t \in Scans /\ pc[t] = "queued"
        <5>1. t \in Scans /\ t \in ToSet(sendq)
              BY <3>3, LeaveHead DEF IInv, TypeOK, QueueIsBlocked, Distinct
        <5> QED
          BY <5>1 DEF IInv, QueueIsBlocked
      <4> HIDE DEF t
      <4>3. AfterAcquire(t) \in Holding /\ t # s
            BY <2>8, <4>2 DEF Release, AfterAcquire, Holding
      <4>4. Holders' = (Holders \ {s}) \cup {t}
            BY <3>1, <4>1, <4>2, <4>3 DEF Holders, Holding, Streaming
      <4> QED
        BY <3>1, <3>3, <4>1, <4>4 DEF Pool!Next, Pool!Leave, t
    <3> QED
      BY <3>2, <3>3
  <2> QED
    BY <2>1, <2>2, <2>3, <2>4, <2>5, <2>6, <2>7, <2>8 DEF Library
<1> QED
  BY <1>1, <1>2

\* The channel, its select and its deferred receive are a pool of slots that
\* serves its queue in the order of the runtime's list of blocked senders, for
\* every number of goroutines and slots.
THEOREM ChannelIsPool == Spec => ImplementsPool
<1>1. Init => Pool!Init
      BY DEF Init, Pool!Init, Holders, Holding, Streaming
<1>2. IInv /\ [Next]_vars => [Pool!Next]_<<Holders, sendq>>
      BY PoolStep
<1> QED
  BY <1>1, <1>2, SlotsInvariance, PTL DEF Spec, ImplementsPool, Pool!Spec

-----------------------------------------------------------------------------
(* Upload: what has been decided about a request, from where it is.        *)

Stages == {"idle", "body", "acquire", "slot", "returned", "done"}

UploadTypes ==
  /\ st \in [Requests -> Stages]
  /\ ctxErr \in [Requests -> {"nil"} \cup ContextErrors]
  /\ kind \in [Requests -> BodyKinds]
  /\ result \in [Requests -> [verdict : Verdicts, err : SUBSET ErrorTags]]
  /\ status \in [Requests -> Nat]
  /\ retry \in [Requests -> BOOLEAN]

\* What Scan has returned says of its body.
Tells(res, k) ==
  /\ res.verdict = "clean" => k = "harmless"
  /\ "ErrSizeLimitExceeded" \in res.err => k = "large"

\* Nothing is said before a request is done, only files reach Scan, and what
\* Scan returned is true of the file of that request.
Decided(r) ==
  /\ st[r] # "done" => status[r] = 0 /\ ~retry[r]
  /\ st[r] \in {"acquire", "slot", "returned"} => kind[r] \notin {"huge", "nofield"}
  /\ st[r] = "returned" => Tells(result[r], kind[r])

\* AnsweredRight about one request.
Right(r) ==
  /\ status[r] = 200 => kind[r] = "harmless" /\ result[r] = Verdict("clean")
  /\ status[r] = 413 => kind[r] \in {"large", "huge"}
  /\ retry[r] => status[r] = 503 /\ "Canceled" \notin result[r].err

UploadInv == UploadTypes /\ \A r \in Requests : Decided(r) /\ Right(r)

\* The requests that are in Scan are those that have a slot or wait for one,
\* and no slot is free while one waits: a body on its way keeps no slot, and
\* a scan that has returned has given its own back.
InScanHasSlot ==
  /\ holders \cup ToSet(waiting) = {r \in Requests : st[r] = "slot"}
  /\ holders \cap ToSet(waiting) = {}
  /\ MaxScans # 0 => Cardinality(holders) <= MaxScans
  /\ waiting # <<>> => MaxScans # 0 /\ Cardinality(holders) = MaxScans

PoolInv == UploadTypes /\ waiting \in Seq(Requests) /\ Distinct(waiting) /\ InScanHasSlot

\* Another request's step leaves a request as it was.
Same(r) ==
  /\ st'[r] = st[r] /\ kind'[r] = kind[r] /\ result'[r] = result[r]
  /\ status'[r] = status[r] /\ retry'[r] = retry[r]

LEMMA SameKeeps ==
  ASSUME NEW r \in Requests, Same(r), Decided(r), Right(r)
  PROVE  Decided(r)' /\ Right(r)'
BY DEF Same, Decided, Right

\* What a scan may return is a result, and true of its body.
LEMMA ReturnTells ==
  ASSUME UploadTypes, NEW r \in Requests, kind[r] \notin {"huge", "nofield"},
         NEW res \in MayReturn(r)
  PROVE  res \in [verdict : Verdicts, err : SUBSET ErrorTags] /\ Tells(res, kind[r])
<1>1. kind[r] \in {"harmless", "infected", "large"}
  BY DEF UploadTypes, BodyKinds
<1>2. CASE \E err \in ScanErrors : res = Failure(err)
  BY <1>2, UploadAssumption DEF Failure, Tells, Verdicts
<1>3. CASE ctxErr[r] # "nil" /\ res = Failure({ctxErr[r]})
  BY <1>3 DEF UploadTypes, Failure, Tells, Verdicts, ErrorTags, ContextErrors
<1>4. CASE kind[r] = "harmless" /\ res = Verdict("clean")
  BY <1>4 DEF Verdict, NoError, Tells, Verdicts
<1>5. CASE kind[r] # "harmless" /\ res = Verdict("infected")
  BY <1>5 DEF Verdict, NoError, Tells, Verdicts
<1>6. CASE /\ kind[r] = "large"
           /\ res \in {Failure({"ErrSizeLimitExceeded"}),
                       Failure({"ErrSizeLimitExceeded", "ClamdError"})}
  BY <1>6 DEF Failure, Tells, Verdicts, ErrorTags
<1> QED
  BY <1>1, <1>2, <1>3, <1>4, <1>5, <1>6 DEF MayReturn

LEMMA UploadInitial == UploadInit => UploadInv
BY DEF UploadInit, UploadInv, UploadTypes, Decided, Right, Stages, BodyKinds, NoResult,
       Failure, NoError, Verdicts

\* A request that goes on to say nothing yet.
LEMMA GoesOn ==
  ASSUME UploadTypes, NEW r \in Requests, Decided(r), Right(r), st[r] # "done",
         NEW s \in Stages, s # "done", Moves(r, s),
         UNCHANGED <<status, retry>>,
         kind' \in [Requests -> BodyKinds],
         s \in {"acquire", "slot", "returned"} => kind'[r] \notin {"huge", "nofield"},
         s = "returned" => Tells(result'[r], kind'[r])
  PROVE  Decided(r)' /\ Right(r)'
<1>1. st'[r] = s /\ status'[r] = 0 /\ ~retry'[r]
  BY DEF UploadTypes, Moves, Decided
<1> QED
  BY <1>1 DEF Decided, Right

LEMMA UploadStep == UploadInv /\ UploadNext => UploadInv'
<1> SUFFICES ASSUME UploadInv, UploadNext
             PROVE  UploadInv'
  OBVIOUS
<1> USE DEF UploadInv
<1>1. CASE AllAnswered
  BY <1>1 DEF AllAnswered, uploadVars, UploadTypes, Decided, Right
<1>2. ASSUME NEW r \in Requests, NEW s \in Requests, s # r,
             \/ Arrive(r) \/ BodyRead(r) \/ ReadTimesOut(r) \/ BodyCut(r)
             \/ Handler(r) \/ ContextEnds(r)
      PROVE  Same(s)
  BY <1>2 DEF Same, UploadTypes, Arrive, BodyRead, ReadTimesOut, BodyCut, Handler, Refused,
              Acquire, GivesUp, ScanReturns, Respond, ContextEnds, Reply, Returns, Moves
<1>3. ASSUME NEW r \in Requests, UploadTypes', Decided(r)', Right(r)',
             \/ Arrive(r) \/ BodyRead(r) \/ ReadTimesOut(r) \/ BodyCut(r)
             \/ Handler(r) \/ ContextEnds(r)
      PROVE  UploadInv'
  BY <1>2, <1>3, SameKeeps
<1>4. ASSUME NEW r \in Requests, Arrive(r) PROVE UploadInv'
  <2>1. kind' \in [Requests -> BodyKinds]
    BY <1>4, UploadAssumption DEF Arrive, UploadTypes
  <2>2. UploadTypes'
    BY <1>4, <2>1 DEF Arrive, Moves, UploadTypes, Stages
  <2>3. Decided(r)' /\ Right(r)'
    BY <1>4, <2>1, GoesOn DEF Arrive, Stages
  <2> QED
    BY <1>3, <1>4, <2>2, <2>3
<1>5. ASSUME NEW r \in Requests, NEW code \in Nat \ {0, 200}, Reply(r, code),
             code = 413 => kind[r] \in {"large", "huge"}, st[r] # "done",
             UNCHANGED <<ctxErr, kind, result, retry>>
      PROVE  UploadTypes' /\ Decided(r)' /\ Right(r)'
  <2>1. st'[r] = "done" /\ status'[r] = code /\ ~retry'[r] /\ kind'[r] = kind[r]
    BY <1>5 DEF Reply, Moves, UploadTypes, Decided
  <2>2. UploadTypes'
    BY <1>5 DEF UploadTypes, Reply, Moves, Stages
  <2> QED
    BY <1>5, <2>1, <2>2 DEF Decided, Right
<1>6. ASSUME NEW r \in Requests, BodyRead(r) PROVE UploadInv'
  <2>1. CASE kind[r] = "huge"
    <3>1. Reply(r, 413) /\ st[r] # "done" /\ UNCHANGED <<ctxErr, kind, result, retry>>
      BY <1>6, <2>1 DEF BodyRead
    <3> QED
      BY <1>3, <1>5, <1>6, <2>1, <3>1
  <2>2. CASE kind[r] = "nofield"
    <3>1. Reply(r, 400) /\ st[r] # "done" /\ UNCHANGED <<ctxErr, kind, result, retry>>
      BY <1>6, <2>2 DEF BodyRead
    <3> QED
      BY <1>3, <1>5, <1>6, <3>1
  <2>3. CASE kind[r] \notin {"huge", "nofield"}
    <3>1. /\ Moves(r, "acquire") /\ st[r] = "body"
          /\ UNCHANGED <<ctxErr, kind, result, status, retry>>
      BY <1>6, <2>3 DEF BodyRead
    <3>2. UploadTypes'
      BY <3>1 DEF UploadTypes, Moves, Stages
    <3>3. Decided(r)' /\ Right(r)'
      BY <2>3, <3>1, GoesOn DEF Stages, UploadTypes
    <3> QED
      BY <1>3, <1>6, <3>2, <3>3
  <2> QED
    BY <2>1, <2>2, <2>3
<1>7. ASSUME NEW r \in Requests, ReadTimesOut(r) PROVE UploadInv'
  BY <1>3, <1>5, <1>7 DEF ReadTimesOut
<1>8. ASSUME NEW r \in Requests, BodyCut(r) PROVE UploadInv'
  BY <1>3, <1>5, <1>8 DEF BodyCut
<1>9. ASSUME NEW r \in Requests, Acquire(r) PROVE UploadInv'
  <2>1. Moves(r, "slot") /\ st[r] = "acquire" /\ UNCHANGED <<ctxErr, kind, result, status, retry>>
    BY <1>9 DEF Acquire
  <2>2. UploadTypes'
    BY <2>1 DEF UploadTypes, Moves, Stages
  <2>3. Decided(r)' /\ Right(r)'
    BY <2>1, GoesOn DEF Stages, UploadTypes, Decided
  <2> QED
    BY <1>3, <1>9, <2>2, <2>3 DEF Handler
<1>10. ASSUME NEW r \in Requests, st[r] \in {"acquire", "slot"},
              NEW res \in [verdict : Verdicts, err : SUBSET ErrorTags], Tells(res, kind[r]),
              Returns(r, res), UNCHANGED <<ctxErr, kind, status, retry>>
       PROVE  UploadTypes' /\ Decided(r)' /\ Right(r)'
  <2>1. Moves(r, "returned") /\ result' = [result EXCEPT ![r] = res]
    BY <1>10 DEF Returns
  <2>2. result'[r] = res /\ kind'[r] = kind[r] /\ kind[r] \notin {"huge", "nofield"}
    BY <1>10, <2>1 DEF UploadTypes, Decided
  <2>3. UploadTypes'
    BY <1>10, <2>1 DEF UploadTypes, Moves, Stages
  <2>4. Decided(r)' /\ Right(r)'
    BY <1>10, <2>1, <2>2, GoesOn DEF Stages, UploadTypes
  <2> QED
    BY <2>3, <2>4
<1>11. ASSUME NEW r \in Requests, ctxErr[r] # "nil"
       PROVE  /\ Failure({ctxErr[r]}) \in [verdict : Verdicts, err : SUBSET ErrorTags]
              /\ Tells(Failure({ctxErr[r]}), kind[r])
  BY <1>11 DEF UploadTypes, Failure, Tells, Verdicts, ErrorTags, ContextErrors
<1>12. ASSUME NEW r \in Requests, Refused(r) PROVE UploadInv'
  BY <1>3, <1>10, <1>11, <1>12 DEF Refused, Handler
<1>13. ASSUME NEW r \in Requests, GivesUp(r) PROVE UploadInv'
  BY <1>3, <1>10, <1>11, <1>13 DEF GivesUp, Handler
<1>14. ASSUME NEW r \in Requests, ScanReturns(r) PROVE UploadInv'
  <2>1. PICK res \in MayReturn(r) : Returns(r, res)
    BY <1>14 DEF ScanReturns
  <2>2. st[r] = "slot" /\ UNCHANGED <<ctxErr, kind, status, retry>>
    BY <1>14 DEF ScanReturns
  <2>3. res \in [verdict : Verdicts, err : SUBSET ErrorTags] /\ Tells(res, kind[r])
    BY <2>2, ReturnTells DEF Decided
  <2> QED
    BY <1>3, <1>10, <1>14, <2>1, <2>2, <2>3 DEF Handler
<1>15. ASSUME NEW r \in Requests, Respond(r) PROVE UploadInv'
  <2> DEFINE err == result[r].err
  <2>1. /\ result[r] \in [verdict : Verdicts, err : SUBSET ErrorTags]
        /\ Tells(result[r], kind[r]) /\ kind[r] \notin {"huge", "nofield"}
        /\ st[r] = "returned" /\ UNCHANGED <<ctxErr, kind, result>>
    BY <1>15 DEF Respond, UploadTypes, Decided
  <2>2. PICK code \in {200, 400, 413, 503} :
          /\ Reply(r, code)
          /\ code = 413 => "ErrSizeLimitExceeded" \in err
          /\ code = 200 => err = NoError /\ result[r].verdict = "clean"
          /\ code # 503 => err = NoError \/ "ErrSizeLimitExceeded" \in err
    BY <1>15 DEF Respond
  <2>3. retry' = [retry EXCEPT ![r] = "ErrSizeLimitExceeded" \notin err /\ IsRetryable(err)]
    BY <1>15 DEF Respond
  <2>4. /\ st'[r] = "done" /\ status'[r] = code /\ kind'[r] = kind[r] /\ result'[r] = result[r]
    BY <2>1, <2>2 DEF Reply, Moves, UploadTypes
  <2>5. retry'[r] <=> "ErrSizeLimitExceeded" \notin err /\ IsRetryable(err)
    <3> DEFINE b == "ErrSizeLimitExceeded" \notin err /\ IsRetryable(err)
    <3>1. retry' = [retry EXCEPT ![r] = b] /\ retry \in [Requests -> BOOLEAN]
      BY <2>3 DEF UploadTypes
    <3> HIDE DEF b
    <3>2. retry'[r] = b
      BY <3>1
    <3> QED
      BY <3>2 DEF b
  <2>6. UploadTypes'
    <3>1. retry' \in [Requests -> BOOLEAN]
      BY <2>3, Zenon DEF UploadTypes
    <3>2. st' \in [Requests -> Stages] /\ status' \in [Requests -> Nat]
      BY <2>2 DEF UploadTypes, Reply, Moves, Stages
    <3> QED
      BY <2>1, <3>1, <3>2 DEF UploadTypes
  <2>7. code = 200 => kind[r] = "harmless" /\ result[r] = Verdict("clean")
    BY <2>1, <2>2 DEF Tells, Verdict, NoError
  <2>8. code = 413 => kind[r] = "large"
    BY <2>1, <2>2 DEF Tells
  <2>9. retry'[r] => code = 503 /\ "Canceled" \notin err
    BY <2>2, <2>5 DEF IsRetryable
  <2>10. Decided(r)' /\ Right(r)'
    BY <2>4, <2>7, <2>8, <2>9 DEF Decided, Right
  <2> QED
    BY <1>3, <1>15, <2>6, <2>10 DEF Handler
<1>16. ASSUME NEW r \in Requests, ContextEnds(r) PROVE UploadInv'
  <2>1. UNCHANGED <<st, kind, result, status, retry>>
    BY <1>16 DEF ContextEnds
  <2>2. ctxErr' \in [Requests -> {"nil"} \cup ContextErrors]
    BY <1>16 DEF ContextEnds, UploadTypes
  <2> QED
    BY <2>1, <2>2 DEF UploadTypes, Decided, Right
<1> QED
  BY <1>1, <1>4, <1>6, <1>7, <1>8, <1>9, <1>12, <1>13, <1>14, <1>15, <1>16
     DEF UploadNext, Handler

-----------------------------------------------------------------------------
(* Upload: the slots.                                                      *)

LEMMA PoolInitial == UploadInit => PoolInv
<1> SUFFICES ASSUME UploadInit PROVE PoolInv
  OBVIOUS
<1>1. UploadTypes
  BY UploadInitial DEF UploadInv
<1>2. holders = {} /\ waiting = <<>> /\ waiting \in Seq(Requests)
  BY DEF UploadInit, Slots!Init
<1>3. ToSet(waiting) = {} /\ Distinct(waiting)
  BY <1>2 DEF ToSet, Distinct
<1>4. Cardinality(holders) = 0
  BY <1>2, FS_EmptySet
<1>5. {r \in Requests : st[r] = "slot"} = {}
  BY DEF UploadInit
<1> QED
  BY <1>1, <1>2, <1>3, <1>4, <1>5, UploadAssumption DEF PoolInv, InScanHasSlot

\* The requests in Scan after one of them went somewhere.
LEMMA InScanMoves ==
  ASSUME UploadTypes, NEW r \in Requests, NEW s \in Stages, Moves(r, s)
  PROVE  {q \in Requests : st'[q] = "slot"} =
           IF s = "slot" THEN {q \in Requests : st[q] = "slot"} \cup {r}
                         ELSE {q \in Requests : st[q] = "slot"} \ {r}
BY DEF UploadTypes, Moves

\* A step outside Scan does not touch the slots.
LEMMA OutsideScan ==
  ASSUME PoolInv, UploadTypes', NEW r \in Requests, st[r] # "slot",
         NEW s \in Stages, s # "slot", Moves(r, s), UNCHANGED slotVars
  PROVE  PoolInv'
<1>1. {q \in Requests : st'[q] = "slot"} = {q \in Requests : st[q] = "slot"}
  BY InScanMoves DEF PoolInv
<1> QED
  BY <1>1 DEF PoolInv, InScanHasSlot, slotVars

\* SlotPool counts as Upload does.
LEMMA UploadCardinality == Slots!Cardinality(holders) = Cardinality(holders)
BY Zenon DEF Cardinality, Slots!Cardinality

LEMMA UploadPoolStep == PoolInv /\ UploadInv /\ UploadNext => PoolInv'
<1> SUFFICES ASSUME PoolInv, UploadInv, UploadNext
             PROVE  PoolInv'
  OBVIOUS
<1> DEFINE InScan == {q \in Requests : st[q] = "slot"}
<1>1. UploadTypes /\ UploadTypes'
  BY UploadStep DEF UploadInv
<1>2. /\ waiting \in Seq(Requests) /\ Distinct(waiting)
      /\ holders \cup ToSet(waiting) = InScan /\ holders \cap ToSet(waiting) = {}
      /\ MaxScans # 0 => Cardinality(holders) <= MaxScans
      /\ waiting # <<>> => MaxScans # 0 /\ Cardinality(holders) = MaxScans
  BY DEF PoolInv, InScanHasSlot
<1>3. IsFiniteSet(holders) /\ MaxScans \in Nat
  BY <1>2, UploadAssumption, FS_Subset
<1>4. Cardinality(holders) \in Nat
  BY <1>3, FS_CardinalityType
<1>5. ASSUME NEW r \in Requests, Arrive(r) PROVE PoolInv'
  BY <1>1, <1>5, OutsideScan DEF Arrive, Stages
<1>6. ASSUME NEW r \in Requests,
             BodyRead(r) \/ ReadTimesOut(r) \/ BodyCut(r) \/ Refused(r) \/ Respond(r)
      PROVE  PoolInv'
  <2>1. st[r] # "slot" /\ UNCHANGED slotVars
    BY <1>6 DEF BodyRead, ReadTimesOut, BodyCut, Refused, Respond
  <2>2. Moves(r, "done") \/ Moves(r, "acquire") \/ Moves(r, "returned")
    BY <1>6 DEF BodyRead, ReadTimesOut, BodyCut, Refused, Respond, Reply, Returns
  <2> QED
    BY <1>1, <2>1, <2>2, OutsideScan DEF Stages
<1>7. ASSUME NEW r \in Requests, Acquire(r) PROVE PoolInv'
  <2>1. r \notin InScan /\ {q \in Requests : st'[q] = "slot"} = InScan \cup {r}
    BY <1>1, <1>7, InScanMoves DEF Acquire, Stages
  <2>2. r \notin holders /\ r \notin ToSet(waiting)
    BY <1>2, <2>1
  <2>3. CASE Slots!Enter(r)
    <3>1. /\ holders' = holders \cup {r} /\ waiting' = waiting
          /\ MaxScans = 0 \/ (waiting = <<>> /\ Cardinality(holders) < MaxScans)
      BY <2>3, UploadCardinality DEF Slots!Enter
    <3>2. Cardinality(holders') = Cardinality(holders) + 1
      BY <1>3, <2>2, <3>1, FS_AddElement
    <3>3. waiting = <<>>
      BY <1>2, <1>3, <3>1
    <3> QED
      BY <1>1, <1>2, <1>3, <1>4, <2>1, <2>2, <3>1, <3>2, <3>3 DEF PoolInv, InScanHasSlot
  <2>4. CASE Slots!Wait(r)
    <3>1. /\ waiting' = Append(waiting, r) /\ holders' = holders
          /\ MaxScans # 0 /\ Cardinality(holders) = MaxScans
      BY <2>4, UploadCardinality DEF Slots!Wait
    <3>2. /\ waiting' \in Seq(Requests) /\ Distinct(waiting')
          /\ ToSet(waiting') = ToSet(waiting) \cup {r}
      BY <1>2, <2>2, <3>1, JoinQueue
    <3> QED
      BY <1>1, <1>2, <1>3, <2>1, <2>2, <3>1, <3>2 DEF PoolInv, InScanHasSlot
  <2> QED
    BY <1>7, <2>3, <2>4 DEF Acquire
<1>8. ASSUME NEW r \in Requests, GivesUp(r) PROVE PoolInv'
  <2>1. {q \in Requests : st'[q] = "slot"} = InScan \ {r}
    BY <1>1, <1>8, InScanMoves DEF GivesUp, Returns, Stages
  <2>2. PICK i \in DOMAIN waiting :
          waiting[i] = r /\ waiting' = RemoveAt(waiting, i) /\ holders' = holders
    BY <1>8 DEF GivesUp, Slots!GiveUp, Slots!RemoveAt, RemoveAt
  <2>3. /\ waiting' \in Seq(Requests) /\ Distinct(waiting')
        /\ ToSet(waiting') = ToSet(waiting) \ {r}
    BY <1>2, <2>2, LeaveQueue
  <2>4. r \in ToSet(waiting) /\ waiting # <<>>
    BY <2>2 DEF ToSet
  <2>5. holders \cup (ToSet(waiting) \ {r}) = InScan \ {r}
    BY <1>2, <2>4
  <2> QED
    BY <1>1, <1>2, <2>1, <2>2, <2>3, <2>4, <2>5 DEF PoolInv, InScanHasSlot
<1>9. ASSUME NEW r \in Requests, ScanReturns(r) PROVE PoolInv'
  <2>1. {q \in Requests : st'[q] = "slot"} = InScan \ {r}
    BY <1>1, <1>9, InScanMoves DEF ScanReturns, Returns, Stages
  <2>2. r \in holders /\ Slots!Leave(r)
    BY <1>9 DEF ScanReturns
  <2>3. /\ IsFiniteSet(holders \ {r}) /\ Cardinality(holders \ {r}) = Cardinality(holders) - 1
    BY <1>3, <2>2, FS_RemoveElement
  <2>4. CASE waiting = <<>>
    <3>1. holders' = holders \ {r} /\ waiting' = waiting
      BY <2>2, <2>4 DEF Slots!Leave
    <3>2. ToSet(waiting) = {}
      BY <2>4 DEF ToSet
    <3> QED
      BY <1>1, <1>2, <1>3, <1>4, <2>1, <2>2, <2>3, <2>4, <3>1, <3>2 DEF PoolInv, InScanHasSlot
  <2>5. CASE waiting # <<>>
    <3> DEFINE h == Head(waiting)
    <3>1. holders' = (holders \ {r}) \cup {h} /\ waiting' = Tail(waiting)
      BY <2>2, <2>5 DEF Slots!Leave
    <3>2. /\ waiting' \in Seq(Requests) /\ Distinct(waiting') /\ h \in ToSet(waiting)
          /\ ToSet(waiting') = ToSet(waiting) \ {h}
      BY <1>2, <2>5, <3>1, LeaveHead
    <3> HIDE DEF h
    <3>3. h \notin holders \ {r} /\ h # r
      BY <1>2, <2>2, <3>2
    <3>4. Cardinality(holders') = Cardinality(holders)
      <4>1. Cardinality(holders') = Cardinality(holders \ {r}) + 1
        BY <2>3, <3>1, <3>3, FS_AddElement
      <4> QED
        BY <1>4, <2>3, <4>1
    <3>5. holders' \cup ToSet(waiting') = InScan \ {r} /\ holders' \cap ToSet(waiting') = {}
      BY <1>2, <2>2, <3>1, <3>2, <3>3
    <3> QED
      BY <1>1, <1>2, <2>1, <2>5, <3>2, <3>4, <3>5 DEF PoolInv, InScanHasSlot
  <2> QED
    BY <2>4, <2>5
<1>10. ASSUME NEW r \in Requests, ContextEnds(r) PROVE PoolInv'
  BY <1>1, <1>10 DEF ContextEnds, PoolInv, InScanHasSlot, slotVars
<1>11. CASE AllAnswered
  BY <1>1, <1>11 DEF AllAnswered, uploadVars, PoolInv, InScanHasSlot
<1> QED
  BY <1>5, <1>6, <1>7, <1>8, <1>9, <1>10, <1>11 DEF UploadNext, Handler

\* The invariants of Upload hold together.
LEMMA UploadInvariance == UploadSpec => [](UploadInv /\ PoolInv)
<1>1. UploadInit => UploadInv /\ PoolInv
  BY UploadInitial, PoolInitial
<1>2. UploadInv /\ PoolInv /\ [UploadNext]_uploadVars => UploadInv' /\ PoolInv'
  <2> SUFFICES ASSUME UploadInv, PoolInv, [UploadNext]_uploadVars
               PROVE  UploadInv' /\ PoolInv'
    OBVIOUS
  <2>1. CASE UNCHANGED uploadVars
    BY <2>1 DEF uploadVars, UploadInv, PoolInv, InScanHasSlot, UploadTypes, Decided, Right
  <2>2. CASE UploadNext
    BY <2>2, UploadStep, UploadPoolStep
  <2> QED
    BY <2>1, <2>2
<1> QED
  BY <1>1, <1>2, PTL DEF UploadSpec

\* For any number of uploads that share a client: one is accepted only if it
\* is harmless and its own scan said so, it is called too large only if it is,
\* and Retry-After goes only with a 503 and never to a request whose scan was
\* cancelled (uploadHandler).
THEOREM UploadsAreAnsweredRight == UploadSpec => []AnsweredRight
<1>1. UploadInv /\ PoolInv => AnsweredRight
  BY DEF UploadInv, Right, AnsweredRight
<1> QED
  BY <1>1, UploadInvariance, PTL

\* Exactly the requests that are in Scan have a slot or wait for one, and none
\* waits while a slot is free: reading a body keeps no slot from the others,
\* and no return from Scan, not even of a request that gave up, loses one.
THEOREM UploadsShareSlots == UploadSpec => []InScanHasSlot
<1>1. UploadInv /\ PoolInv => InScanHasSlot
  BY DEF PoolInv
<1> QED
  BY <1>1, UploadInvariance, PTL

=============================================================================
