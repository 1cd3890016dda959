-------------------------- MODULE ScanStreamProofs --------------------------
(***************************************************************************)
(* The safety properties of ScanStream for inputs of every size, every     *)
(* chunk size and limit, every reply a daemon may send and every way a     *)
(* reader may end, and the proof that it implements FailClosed.            *)
(***************************************************************************)
EXTENDS ScanStream, RepliesProofs

\* How far the stream has come: what is buffered and sent is part of the
\* input, io.EOF is seen at its end only, and the terminator is written after
\* the last byte, never on the way to recoverStreamError.
StreamInv ==
  /\ sent + buf <= size
  /\ body <= sent
  /\ eof => end = NoError /\ sent + buf = size
  /\ pc = "terminator" => eof /\ buf = 0
  /\ term => end = NoError /\ sent = size
  /\ term => pc \in {"reply", "wrapRead", "close", "done"}
  /\ pc \in {"reply", "wrapRead"} => term

\* The daemon judges a stream whose terminator it has read, and reads no more.
JudgeInv ==
  /\ judged => term /\ body = sent /\ srv # "reading"
  /\ srv = "judging" => judged

\* A reply that can be read up to its NUL is the one the daemon meant.
ReplyInv ==
  /\ pc = "dial" => srv = "none"
  /\ srv \in {"none", "reading", "judging"} => ~reply.nul
  /\ reply.nul => reply.line = meant
  /\ reply.nul => judged \/ meant \in EarlyReplies \cup {SizeLimitReply}

\* Past fill, everything read is within the limit.
LimitInv ==
  MaxStreamSize # NoSizeLimit =>
    /\ sent <= MaxStreamSize
    /\ pc \notin {"fill", "read", "close", "done"} => sent + buf <= MaxStreamSize
    /\ pc \in {"close", "done"} /\ sent + buf > MaxStreamSize =>
         res = Failure({"ErrSizeLimitExceeded"})

\* A context that made an operation fail is still over when it is blamed.
BlameInv ==
  aborted =>
    \/ pc \in {"recover", "wrapWrite", "wrapRead"} /\ ContextOver
    \/ pc \in {"close", "done"} /\ \E err \in ContextErrors : res = Failure({err})

\* The daemon has said all it has to say when a call returns clean.
CleanInv == res.verdict = "clean" => srv \in {"replied", "closed"}

IInv ==
  /\ TypeOK /\ StreamInv /\ JudgeInv /\ ReplyInv /\ LimitInv /\ BlameInv
  /\ CleanInv /\ CleanMeansScanned

-----------------------------------------------------------------------------
(* Results and replies.                                                    *)

\* The fail-closed shapes of a return value, none of which is "no result yet".
LEMMA FailureType ==
  ASSUME NEW err \in SUBSET ErrorTags, err # NoError
  PROVE  /\ Failure(err) \in Results /\ Failure(err) # Pending
         /\ Failure(err).verdict = "unknown"
BY DEF Results, Pending, Failure, Verdict, NoError

\* A verdict comes with a nil error.
LEMMA VerdictType ==
  ASSUME NEW v \in {"clean", "infected"}
  PROVE  /\ Verdict(v) \in Results /\ Verdict(v) # Pending
         /\ Verdict(v).verdict = v
BY DEF Results, Pending, Failure, Verdict, NoError

\* resultFromLine returns a verdict or an error, never the two nor neither.
LEMMA ResultFromLineType ==
  ASSUME NEW line, NEW terminated \in BOOLEAN
  PROVE  /\ ResultFromLine(line, terminated) \in Results
         /\ ResultFromLine(line, terminated) # Pending
<1> DEFINE resp == ParseScanResponse(line)
<1>1. /\ {"ProtocolError"} \in SUBSET ErrorTags /\ {"ProtocolError"} # NoError
      /\ ClamdErrorFrom(resp) \in SUBSET ErrorTags /\ ClamdErrorFrom(resp) # NoError
      BY DEF ErrorTags, NoError, ClamdErrorFrom
<1> HIDE DEF resp
<1>2. /\ Failure({"ProtocolError"}) \in Results /\ Failure({"ProtocolError"}) # Pending
      /\ Failure(ClamdErrorFrom(resp)) \in Results
      /\ Failure(ClamdErrorFrom(resp)) # Pending
      BY <1>1, FailureType
<1>3. \A v \in {"clean", "infected"} : Verdict(v) \in Results /\ Verdict(v) # Pending
      BY VerdictType
<1> QED
  BY <1>2, <1>3 DEF ResultFromLine, resp

\* The daemon's size-limit reply is a reply.
LEMMA SizeLimitReplyType == SizeLimitReply \in Seq(Lexemes)
<1> DEFINE x == "size limit exceeded"
<1>1. "text" \in Lexemes /\ "SP" \in Lexemes /\ x \in Lexemes /\ "ERROR" \in Lexemes
      BY DEF Lexemes
<1> HIDE DEF x
<1>2. <<"text", "SP", x, "text", "SP", "ERROR">> \in Seq(Lexemes)
      BY <1>1
<1> QED
  BY <1>2 DEF SizeLimitReply, x

\* The daemon's size-limit reply is not a clean one.
LEMMA SizeLimitNotClean == ~SaysClean(SizeLimitReply)
<1> SUFFICES ASSUME SaysClean(SizeLimitReply) PROVE FALSE
    OBVIOUS
<1>1. SizeLimitReply \in Seq(Lexemes)
      BY SizeLimitReplyType
<1>2. Len(SizeLimitReply) = 6
      BY DEF SizeLimitReply
<1>3. SizeLimitReply[1] = "text"
      BY DEF SizeLimitReply
<1>4. PICK k \in 0 .. 6 : SubSeq(SizeLimitReply, 1, k) \in CleanLines
      BY <1>2 DEF SaysClean
<1> DEFINE start == SubSeq(SizeLimitReply, 1, k)
<1>5. Len(start) = k
      BY <1>1, <1>2, <1>4, SubSeqProperties
<1>6. k > 0 => start[1] = "text"
      BY <1>1, <1>2, <1>3, <1>4, SubSeqProperties
<1>7. start \in {<<"OK">>, <<"stream:", "SP", "OK">>}
      BY <1>4 DEF CleanLines
<1> HIDE DEF start
<1> QED
  BY <1>5, <1>6, <1>7

\* No result yet is no verdict.
LEMMA PendingIs == Pending.verdict = "unknown" /\ Pending \notin Results
<1>1. Pending.verdict = "unknown" /\ Pending.err = NoError
      BY DEF Pending, Failure
<1>2. \A v : Verdict(v).verdict = v
      BY DEF Verdict
<1>3. \A err : Failure(err).err = err
      BY DEF Failure
<1> QED
  BY <1>1, <1>2, <1>3 DEF Results

\* A reply without its NUL is a reply.
LEMMA CutReplyType ==
  ASSUME NEW line \in Seq(Lexemes)
  PROVE  /\ [line |-> line, nul |-> FALSE] \in [line : Seq(Lexemes), nul : BOOLEAN]
         /\ [line |-> line, nul |-> TRUE] \in [line : Seq(Lexemes), nul : BOOLEAN]
BY Zenon

\* ctxError is nil exactly while the context allows I/O.
LEMMA ctxErrorIs ==
  ASSUME ctxErr \in {"nil"} \cup ContextErrors, due \in BOOLEAN
  PROVE  /\ ctxError \in {"nil"} \cup ContextErrors
         /\ ContextOver <=> ctxError # "nil"
BY DEF ctxError, ContextOver, ContextErrors

-----------------------------------------------------------------------------
(* The induction step.                                                     *)

Booleans ==
  /\ armed \in BOOLEAN /\ due \in BOOLEAN /\ eof \in BOOLEAN
  /\ term \in BOOLEAN /\ judged \in BOOLEAN /\ aborted \in BOOLEAN

\* The Boolean variables keep their type.
LEMMA BooleansStep == Booleans /\ [Next]_vars => Booleans'
<1> SUFFICES ASSUME Booleans, [Next]_vars PROVE Booleans'
    OBVIOUS
<1> USE DEF Booleans, ctxVars, sourceVars, streamVars, daemonVars, daemonOnly
<1>1. CASE Cancel
      BY <1>1, Zenon DEF Cancel
<1>2. CASE DeadlinePasses
      BY <1>2, Zenon DEF DeadlinePasses
<1>3. CASE TimerFires
      BY <1>3, Zenon DEF TimerFires
<1>4. CASE StartIO
      BY <1>4, Zenon DEF StartIO
<1>5. CASE IOAborts
      BY <1>5, Zenon DEF IOAborts, IOFails
<1>6. CASE IOTransportFails
      BY <1>6, Zenon DEF IOTransportFails, IOFails
<1>7. CASE Dial
      BY <1>7, Zenon DEF Dial
<1>8. CASE DialFails
      BY <1>8, Zenon DEF DialFails, Finish, ContextOver
<1>9. CASE DialReturnsNil
      BY <1>9, Zenon DEF DialReturnsNil
<1>10. CASE CommandWritten
      BY <1>10, Zenon DEF CommandWritten
<1>11. CASE ReadRefused
      BY <1>11, Zenon DEF ReadRefused, FillReturns
<1>12. CASE ReadStarts
      BY <1>12, Zenon DEF ReadStarts
<1>13. CASE ReadData
      BY <1>13, Zenon DEF ReadData, FillReturns
<1>14. CASE ReadEnd
      BY <1>14, Zenon DEF ReadEnd, FillReturns
<1>15. CASE ReadEmpty
      BY <1>15, Zenon DEF ReadEmpty, FillReturns
<1>16. CASE ReadInvalid
      BY <1>16, Zenon DEF ReadInvalid, FillReturns
<1>17. CASE ChunkWritten
      BY <1>17, Zenon DEF ChunkWritten
<1>18. CASE TerminatorWritten
      BY <1>18, Zenon DEF TerminatorWritten
<1>19. CASE VerdictRead
      BY <1>19, Zenon DEF VerdictRead
<1>20. CASE Recover
      BY <1>20, Zenon DEF Recover
<1>21. CASE SalvageRead
      BY <1>21, Zenon DEF SalvageRead
<1>22. CASE WrapWrite
      BY <1>22, Zenon DEF WrapWrite
<1>23. CASE WrapRead
      BY <1>23, Zenon DEF WrapRead
<1>24. CASE Close
      BY <1>24, Zenon DEF Close
<1>25. CASE DaemonReads
      BY <1>25, Zenon DEF DaemonReads
<1>26. CASE DaemonSeesEnd
      BY <1>26, Zenon DEF DaemonSeesEnd
<1>27. CASE DaemonReplies
      BY <1>27, Zenon DEF DaemonReplies
<1>28. CASE DaemonRepliesEarly
      BY <1>28, Zenon DEF DaemonRepliesEarly
<1>29. CASE DaemonCloses
      BY <1>29, Zenon DEF DaemonCloses
<1>30. CASE ReplyLost
      BY <1>30, Zenon DEF ReplyLost
<1>31. CASE Return
      BY <1>31, Zenon DEF Return
<1>32. CASE UNCHANGED vars
      BY <1>32, Zenon DEF vars
<1> QED
  BY <1>1, <1>2, <1>3, <1>4, <1>5, <1>6, <1>7, <1>8, <1>9, <1>10, <1>11,
     <1>12, <1>13, <1>14, <1>15, <1>16, <1>17, <1>18, <1>19, <1>20, <1>21,
     <1>22, <1>23, <1>24, <1>25, <1>26, <1>27, <1>28, <1>29, <1>30, <1>31,
     <1>32
     DEF Next, Context, Library, Dialling, Source, Daemon

\* Returning an error from anywhere but fill: the context is blamed if it was
\* the cause.
LEMMA FailStep ==
  ASSUME IInv, Booleans', pc \notin {"fill", "read", "close", "done"},
         NEW err \in SUBSET ErrorTags, err # NoError, Finish(Failure(err)),
         aborted' => \E e \in ContextErrors : err = {e},
         rerr' = rerr,
         UNCHANGED <<ctxVars, sourceVars, streamVars, daemonVars>>
  PROVE  IInv'
<1>1. /\ res' = Failure(err) /\ pc' = "close"
      /\ res' \in Results /\ res' # Pending /\ res'.verdict = "unknown"
      BY FailureType DEF Finish
<1> USE DEF IInv, ctxVars, sourceVars, streamVars, daemonVars
<1>2. TypeOK'
      BY <1>1 DEF Booleans, TypeOK, PCs
<1>3. StreamInv' /\ JudgeInv' /\ ReplyInv'
      BY <1>1 DEF TypeOK, PCs, Blocking, Writing, Reading, StreamInv, JudgeInv, ReplyInv
<1>4. LimitInv'
  <2>1. MaxStreamSize # NoSizeLimit =>
          sent <= MaxStreamSize /\ sent + buf <= MaxStreamSize
        BY DEF LimitInv
  <2>2. MaxStreamSize # NoSizeLimit => ~(sent + buf > MaxStreamSize)
        BY <2>1, ConfigAssumption DEF ConfigAssumption, NoSizeLimit, TypeOK
  <2> QED
    BY <1>1, <2>1, <2>2 DEF LimitInv
<1>5. BlameInv' /\ CleanInv' /\ CleanMeansScanned'
      BY <1>1 DEF BlameInv, CleanInv, CleanMeansScanned
<1> QED
  BY <1>2, <1>3, <1>4, <1>5

\* An operation of the connection fails; if the context made it fail then the
\* context is over, and stays so until it is blamed.
LEMMA IOFailStep ==
  ASSUME IInv, Booleans', pc \in Blocking, IOFails, aborted' => ContextOver
  PROVE  IInv'
<1>1. /\ rerr' = "io"
      /\ UNCHANGED <<ctxVars, sourceVars, streamVars, daemonVars, res>>
      BY DEF IOFails
<1>2. \/ pc \in {"command", "salvage"} /\ pc' = "wrapWrite"
      \/ pc \in {"chunk", "terminator"} /\ pc' = "recover"
      \/ pc = "reply" /\ pc' = "wrapRead"
      BY DEF IOFails, Blocking, Writing, Reading
<1> USE DEF IInv, ctxVars, sourceVars, streamVars, daemonVars
<1>3. TypeOK'
      BY <1>1, <1>2 DEF Booleans, TypeOK, PCs
<1>4. StreamInv' /\ JudgeInv' /\ ReplyInv'
      BY <1>1, <1>2 DEF StreamInv, JudgeInv, ReplyInv
<1>5. LimitInv'
      BY <1>1, <1>2 DEF LimitInv
<1>6. BlameInv' /\ CleanInv' /\ CleanMeansScanned'
      BY <1>1, <1>2 DEF BlameInv, CleanInv, CleanMeansScanned, ContextOver
<1> QED
  BY <1>3, <1>4, <1>5, <1>6

\* What StreamAll does with the result of fill.
LEMMA FillStep ==
  ASSUME IInv, Booleans', pc \in {"fill", "read"},
         NEW n \in 0 .. ChunkSize, sent + n <= size,
         NEW atEOF \in BOOLEAN, atEOF => end = NoError /\ sent + n = size,
         NEW err \in SUBSET ErrorTags, err = NoError /\ n = 0 => atEOF,
         FillReturns(n, atEOF, err),
         UNCHANGED <<armed, ctxVars, sourceVars, daemonVars, rerr, aborted>>
  PROVE  IInv'
<1> USE ConfigAssumption DEF ConfigAssumption, NoSizeLimit
<1>1. /\ buf' = n /\ eof' = atEOF /\ empty' = 0 /\ sent' = sent /\ term' = term
      BY DEF FillReturns
<1>2. CASE OverLimit(n)
  <2>1. res' = Failure({"ErrSizeLimitExceeded"}) /\ pc' = "close"
        BY <1>2 DEF FillReturns, Finish
  <2>2. {"ErrSizeLimitExceeded"} \in SUBSET ErrorTags /\ {"ErrSizeLimitExceeded"} # NoError
        BY DEF ErrorTags, NoError
  <2>3. res' \in Results /\ res' # Pending /\ res'.verdict = "unknown"
        BY <2>1, <2>2, FailureType
  <2> QED
    BY <1>1, <1>2, <2>1, <2>3
       DEF OverLimit, Booleans,
        IInv, TypeOK, StreamInv, JudgeInv, ReplyInv, LimitInv, BlameInv,
        CleanInv, CleanMeansScanned, ContextOver,
        ctxVars, sourceVars, streamVars, daemonVars, daemonOnly,
        PCs, Blocking, Writing, Reading, ServerStates, ContextErrors
<1>3. CASE ~OverLimit(n) /\ err # NoError
  <2>1. res' = Failure(err) /\ pc' = "close"
        BY <1>3 DEF FillReturns, Finish
  <2>2. res' \in Results /\ res' # Pending /\ res'.verdict = "unknown"
        BY <1>3, <2>1, FailureType
  <2> QED
    BY <1>1, <1>3, <2>1, <2>2
       DEF OverLimit, Booleans,
        IInv, TypeOK, StreamInv, JudgeInv, ReplyInv, LimitInv, BlameInv,
        CleanInv, CleanMeansScanned, ContextOver,
        ctxVars, sourceVars, streamVars, daemonVars, daemonOnly,
        PCs, Blocking, Writing, Reading, ServerStates, ContextErrors
<1>4. CASE ~OverLimit(n) /\ err = NoError
  <2>1. pc' = (IF n > 0 THEN "chunk" ELSE "terminator") /\ res' = res
        BY <1>4 DEF FillReturns
  <2> QED
    BY <1>1, <1>4, <2>1
       DEF OverLimit, Booleans,
        IInv, TypeOK, StreamInv, JudgeInv, ReplyInv, LimitInv, BlameInv,
        CleanInv, CleanMeansScanned, ContextOver,
        ctxVars, sourceVars, streamVars, daemonVars, daemonOnly,
        PCs, Blocking, Writing, Reading, ServerStates, ContextErrors
<1> QED
  BY <1>2, <1>3, <1>4

\* Nothing has been received at the start.
LEMMA NoReplyType ==
  NoReply \in [line : Seq(Lexemes), nul : BOOLEAN] /\ NoReply.nul = FALSE
<1>1. <<>> \in Seq(Lexemes)
      OBVIOUS
<1> QED
  BY <1>1, CutReplyType DEF NoReply

\* The daemon answers, in whole or in part.
LEMMA SendStep ==
  ASSUME IInv, Booleans', srv \in {"reading", "judging"},
         NEW text \in Seq(Lexemes), Send(text),
         judged \/ text \in EarlyReplies \cup {SizeLimitReply},
         body' \in Nat, body' <= sent, judged => body' = body,
         UNCHANGED <<judged, daemonOnly>>
  PROVE  IInv'
<1>1. meant' = text /\ srv' = "replied"
      BY DEF Send
<1>2. /\ reply' \in [line : Seq(Lexemes), nul : BOOLEAN]
      /\ reply'.nul => reply'.line = text
  <2>1. CASE reply' = [line |-> text, nul |-> TRUE]
        BY <2>1, CutReplyType
  <2>2. CASE \E n \in 0 .. Len(text) :
               reply' = [line |-> SubSeq(text, 1, n), nul |-> FALSE]
    <3>1. PICK n \in 0 .. Len(text) :
            reply' = [line |-> SubSeq(text, 1, n), nul |-> FALSE]
          BY <2>2
    <3>2. SubSeq(text, 1, n) \in Seq(Lexemes)
          BY SubSeqProperties
    <3> QED
      BY <3>1, <3>2, CutReplyType
  <2> QED
    BY <2>1, <2>2 DEF Send
<1>3. res'.verdict # "clean"
      BY DEF IInv, CleanInv, daemonOnly
<1> QED
  BY <1>1, <1>2, <1>3, ConfigAssumption
     DEF ConfigAssumption, NoSizeLimit, Booleans,
         IInv, TypeOK, StreamInv, JudgeInv, ReplyInv, LimitInv, BlameInv,
         CleanInv, CleanMeansScanned, ContextOver,
         ctxVars, sourceVars, streamVars, daemonVars, daemonOnly,
         PCs, Blocking, Writing, Reading, ServerStates, ContextErrors

\* Every step preserves the strengthened invariant.
LEMMA NextIInv == IInv /\ [Next]_vars => IInv'
<1> SUFFICES ASSUME IInv, [Next]_vars PROVE IInv'
    OBVIOUS
<1>0. Booleans'
      BY BooleansStep DEF Booleans, IInv, TypeOK
<1> USE ConfigAssumption, EnvironmentAssumption
    DEF ConfigAssumption, EnvironmentAssumption, NoSizeLimit
<1>1. CASE IOAborts
      BY <1>0, <1>1, IOFailStep DEF IOAborts
<1>2. CASE IOTransportFails
  <2>1. ~aborted'
        BY <1>2 DEF IOTransportFails, IInv, BlameInv, Blocking, Writing, Reading
  <2> QED
    BY <1>0, <1>2, <2>1, IOFailStep DEF IOTransportFails
<1>3. CASE Dial
  <2>1. res = Pending /\ Pending.verdict = "unknown"
        BY <1>3, PendingIs DEF IInv, TypeOK, Dial
  <2> QED
    BY <1>0, <1>3, <2>1 DEF Dial, Booleans,
         IInv, TypeOK, StreamInv, JudgeInv, ReplyInv, LimitInv, BlameInv,
         CleanInv, CleanMeansScanned, ContextOver,
         ctxVars, sourceVars, streamVars, daemonVars, daemonOnly,
         PCs, Blocking, Writing, Reading, ServerStates, ContextErrors
<1>4. CASE DialFails
  <2>1. PICK err \in DialErrors :
          Finish(Failure(IF ctxError # "nil" THEN {ctxError}
                                             ELSE {"ConnectionError"} \cup err))
        BY <1>4 DEF DialFails
  <2> DEFINE e == IF ctxError # "nil" THEN {ctxError} ELSE {"ConnectionError"} \cup err
  <2>2. /\ ctxError \in {"nil"} \cup ContextErrors
        /\ ContextOver <=> ctxError # "nil"
        BY ctxErrorIs DEF IInv, TypeOK
  <2>3. e \in SUBSET ErrorTags /\ e # NoError
        BY <2>2 DEF ErrorTags, ContextErrors, NoError
  <2>4. aborted' => \E x \in ContextErrors : e = {x}
        BY <1>4, <2>2 DEF DialFails
  <2> HIDE DEF e
  <2> QED
    BY <1>0, <1>4, <2>1, <2>3, <2>4, FailStep DEF DialFails, e
<1>5. CASE DialReturnsNil
  <2>1. {"ConnectionError"} \in SUBSET ErrorTags /\ {"ConnectionError"} # NoError
        BY DEF ErrorTags, NoError
  <2>2. ~aborted'
        BY <1>5 DEF DialReturnsNil, IInv, BlameInv
  <2> QED
    BY <1>0, <1>5, <2>1, <2>2, FailStep DEF DialReturnsNil
<1>6. CASE ReadRefused
  <2>1. {ctxErr} \in SUBSET ErrorTags /\ {ctxErr} # NoError
        BY <1>6 DEF ReadRefused, IInv, TypeOK, ErrorTags, ContextErrors, NoError
  <2>2. buf \in 0 .. ChunkSize /\ sent + buf <= size
        BY DEF IInv, TypeOK, StreamInv
  <2> QED
    BY <1>0, <1>6, <2>1, <2>2, FillStep DEF ReadRefused
<1>7. CASE ReadData
  <2>1. PICK n \in 1 .. ChunkSize :
          /\ buf + n <= ChunkSize /\ sent + buf + n <= size
          /\ IF buf + n = ChunkSize
               THEN FillReturns(buf + n, FALSE, NoError)
               ELSE /\ pc' = "fill" /\ buf' = buf + n /\ empty' = 0
                    /\ UNCHANGED <<eof, sent, term, res>>
        BY <1>7 DEF ReadData
  <2>2. CASE buf + n = ChunkSize
    <3>1. buf + n \in 0 .. ChunkSize /\ buf + n # 0 /\ sent + (buf + n) <= size
          BY <2>1 DEF IInv, TypeOK
    <3>2. NoError \in SUBSET ErrorTags
          BY DEF NoError
    <3> DEFINE m == buf + n
    <3> HIDE DEF m
    <3> QED
      BY <1>0, <1>7, <2>1, <2>2, <3>1, <3>2, FillStep DEF ReadData
  <2>3. CASE buf + n # ChunkSize
        BY <1>0, <1>7, <2>1, <2>3 DEF ReadData, Booleans,
         IInv, TypeOK, StreamInv, JudgeInv, ReplyInv, LimitInv, BlameInv,
         CleanInv, CleanMeansScanned, ContextOver,
         ctxVars, sourceVars, streamVars, daemonVars, daemonOnly,
         PCs, Blocking, Writing, Reading, ServerStates, ContextErrors
  <2> QED
    BY <2>2, <2>3
<1>8. CASE ReadEnd
  <2>1. PICK n \in 0 .. ChunkSize :
          /\ buf + n <= ChunkSize /\ sent + buf + n = size
          /\ FillReturns(buf + n, end = NoError, end)
        BY <1>8 DEF ReadEnd
  <2>2. buf + n \in 0 .. ChunkSize /\ sent + (buf + n) = size /\ size <= size
        BY <2>1 DEF IInv, TypeOK
  <2>3. end \in SUBSET ErrorTags
        BY DEF IInv, TypeOK
  <2> QED
    BY <1>0, <1>8, <2>1, <2>2, <2>3, FillStep DEF ReadEnd
<1>9. CASE ReadEmpty
  <2>1. CASE empty + 1 >= MaxConsecutiveEmptyReads
    <3>1. {"InputError"} \in SUBSET ErrorTags /\ {"InputError"} # NoError
          BY DEF ErrorTags, NoError
    <3>2. buf \in 0 .. ChunkSize /\ sent + buf <= size
          BY DEF IInv, TypeOK, StreamInv
    <3> QED
      BY <1>0, <1>9, <2>1, <3>1, <3>2, FillStep DEF ReadEmpty
  <2>2. CASE ~ (empty + 1 >= MaxConsecutiveEmptyReads)
        BY <1>0, <1>9, <2>2 DEF ReadEmpty, Booleans,
         IInv, TypeOK, StreamInv, JudgeInv, ReplyInv, LimitInv, BlameInv,
         CleanInv, CleanMeansScanned, ContextOver,
         ctxVars, sourceVars, streamVars, daemonVars, daemonOnly,
         PCs, Blocking, Writing, Reading, ServerStates, ContextErrors
  <2> QED
    BY <2>1, <2>2
<1>10. CASE ReadInvalid
  <2>1. {"InputError"} \in SUBSET ErrorTags /\ {"InputError"} # NoError
        BY DEF ErrorTags, NoError
  <2>2. buf \in 0 .. ChunkSize /\ sent + buf <= size
        BY DEF IInv, TypeOK, StreamInv
  <2> QED
    BY <1>0, <1>10, <2>1, <2>2, FillStep DEF ReadInvalid
<1>11. CASE VerdictRead
  <2> DEFINE r == ReadLine(reply.line, reply.nul, MaxLineResponse)
  <2>1. ~aborted'
        BY <1>11 DEF VerdictRead, IInv, BlameInv
  <2>2. /\ pc = "reply" /\ armed' = FALSE
        /\ UNCHANGED <<ctxVars, sourceVars, streamVars, daemonVars, aborted>>
        BY <1>11 DEF VerdictRead
  <2>3. reply.line \in Seq(Lexemes) /\ reply.nul \in BOOLEAN
        BY DEF IInv, TypeOK
  <2>4. CASE r.err = "nil"
    <3>1. Finish(ResultFromLine(r.line, r.terminated)) /\ rerr' = rerr
          BY <1>11, <2>4 DEF VerdictRead
    <3>2. r.terminated \in BOOLEAN
          BY <2>3, <2>4, ReadLineTerminated
    <3>3. res' \in Results /\ res' # Pending /\ pc' = "close"
          BY <3>1, <3>2, ResultFromLineType DEF Finish
    <3>4. res'.verdict = "clean" => reply.nul /\ SaysClean(reply.line)
          BY <2>3, <2>4, <3>1, CleanNeedsCompleteOK DEF Finish
    <3>5. res'.verdict = "clean" =>
            /\ term /\ SaysClean(meant) /\ srv \in {"replied", "closed"}
            /\ judged \/ meant \in EarlyReplies
          BY <2>2, <3>4, SizeLimitNotClean
             DEF IInv, TypeOK, ServerStates, StreamInv, ReplyInv
    <3> HIDE DEF r
    <3> QED
      BY <1>0, <2>1, <2>2, <3>1, <3>3, <3>5 DEF Booleans,
         IInv, TypeOK, StreamInv, JudgeInv, ReplyInv, LimitInv, BlameInv,
         CleanInv, CleanMeansScanned, ContextOver,
         ctxVars, sourceVars, streamVars, daemonVars, daemonOnly,
         PCs, Blocking, Writing, Reading, ServerStates, ContextErrors
  <2>5. CASE r.err # "nil"
    <3>1. pc' = "wrapRead" /\ rerr' = r.err /\ res' = res
          BY <1>11, <2>5 DEF VerdictRead
    <3>2. r.err \in {"EOF", "ErrResponseTooLarge", "ErrMalformedReply"}
          BY <2>5 DEF ReadLine, FinishLine
    <3> HIDE DEF r
    <3> QED
      BY <1>0, <2>1, <2>2, <3>1, <3>2 DEF Booleans,
         IInv, TypeOK, StreamInv, JudgeInv, ReplyInv, LimitInv, BlameInv,
         CleanInv, CleanMeansScanned, ContextOver,
         ctxVars, sourceVars, streamVars, daemonVars, daemonOnly,
         PCs, Blocking, Writing, Reading, ServerStates, ContextErrors
  <2> QED
    BY <2>4, <2>5
<1>12. CASE Recover
  <2>1. /\ ctxError \in {"nil"} \cup ContextErrors
        /\ ContextOver <=> ctxError # "nil"
        BY ctxErrorIs DEF IInv, TypeOK
  <2>2. CASE ctxError # "nil"
    <3>1. {ctxError} \in SUBSET ErrorTags /\ {ctxError} # NoError
          BY <2>1, <2>2 DEF ErrorTags, ContextErrors, NoError
    <3> QED
      BY <1>0, <1>12, <2>1, <2>2, <3>1, FailStep DEF Recover
  <2>3. CASE ctxError = "nil"
    <3>1. ~ContextOver
          BY <2>1, <2>3
    <3> QED
      BY <1>0, <1>12, <2>3, <3>1 DEF Recover, Booleans,
         IInv, TypeOK, StreamInv, JudgeInv, ReplyInv, LimitInv, BlameInv,
         CleanInv, CleanMeansScanned, ContextOver,
         ctxVars, sourceVars, streamVars, daemonVars, daemonOnly,
         PCs, Blocking, Writing, Reading, ServerStates, ContextErrors
  <2> QED
    BY <2>2, <2>3
<1>13. CASE SalvageRead
  <2> DEFINE r    == ReadLine(reply.line, reply.nul, MaxLineResponse)
             resp == ParseScanResponse(r.line)
  <2>1. ~aborted'
        BY <1>13 DEF SalvageRead, IInv, BlameInv
  <2>2. \/ Finish(Failure(ClamdErrorFrom(resp)))
        \/ Finish(Verdict("infected"))
        \/ Finish(Failure({"ProtocolError"}))
        \/ pc' = "wrapWrite" /\ res' = res
        BY <1>13, Zenon DEF SalvageRead
  <2>3. /\ {"ProtocolError"} \in SUBSET ErrorTags /\ {"ProtocolError"} # NoError
        /\ ClamdErrorFrom(resp) \in SUBSET ErrorTags /\ ClamdErrorFrom(resp) # NoError
        BY DEF ErrorTags, NoError, ClamdErrorFrom
  <2> HIDE DEF r, resp
  <2>4. CASE Finish(Failure(ClamdErrorFrom(resp)))
        BY <1>0, <1>13, <2>1, <2>3, <2>4, FailStep DEF SalvageRead
  <2>5. CASE Finish(Failure({"ProtocolError"}))
        BY <1>0, <1>13, <2>1, <2>3, <2>5, FailStep DEF SalvageRead
  <2>6. CASE Finish(Verdict("infected"))
    <3>1. /\ res' = Verdict("infected") /\ pc' = "close"
          /\ res' \in Results /\ res' # Pending /\ res'.verdict = "infected"
          BY <2>6, VerdictType DEF Finish
    <3>2. /\ pc = "salvage" /\ armed' = FALSE
          /\ UNCHANGED <<ctxVars, sourceVars, streamVars, daemonVars, rerr, aborted>>
          BY <1>13 DEF SalvageRead
    <3> QED
      BY <1>0, <2>1, <3>1, <3>2 DEF Booleans,
         IInv, TypeOK, StreamInv, JudgeInv, ReplyInv, LimitInv, BlameInv,
         CleanInv, CleanMeansScanned, ContextOver,
         ctxVars, sourceVars, streamVars, daemonVars, daemonOnly,
         PCs, Blocking, Writing, Reading, ServerStates, ContextErrors
  <2>7. CASE pc' = "wrapWrite" /\ res' = res
    <3>2. /\ pc = "salvage" /\ armed' = FALSE
          /\ UNCHANGED <<ctxVars, sourceVars, streamVars, daemonVars, rerr, aborted>>
          BY <1>13 DEF SalvageRead
    <3> QED
      BY <1>0, <2>1, <2>7, <3>2 DEF Booleans,
         IInv, TypeOK, StreamInv, JudgeInv, ReplyInv, LimitInv, BlameInv,
         CleanInv, CleanMeansScanned, ContextOver,
         ctxVars, sourceVars, streamVars, daemonVars, daemonOnly,
         PCs, Blocking, Writing, Reading, ServerStates, ContextErrors
  <2> QED
    BY <2>2, <2>4, <2>5, <2>6, <2>7
<1>14. CASE WrapWrite
  <2> DEFINE e == WrapWriteErr(ctxError)
  <2>1. /\ ctxError \in {"nil"} \cup ContextErrors
        /\ ContextOver <=> ctxError # "nil"
        BY ctxErrorIs DEF IInv, TypeOK
  <2>2. e \in SUBSET ErrorTags /\ e # NoError
        BY <2>1 DEF WrapWriteErr, ErrorTags, ContextErrors, NoError
  <2>3. aborted' => \E x \in ContextErrors : e = {x}
        BY <1>14, <2>1 DEF WrapWrite, WrapWriteErr, IInv, BlameInv
  <2>4. Finish(Failure(e))
        BY <1>14 DEF WrapWrite
  <2> HIDE DEF e
  <2> QED
    BY <1>0, <1>14, <2>2, <2>3, <2>4, FailStep DEF WrapWrite
<1>15. CASE WrapRead
  <2> DEFINE e == WrapReadErr(ctxError, rerr)
  <2>1. /\ ctxError \in {"nil"} \cup ContextErrors
        /\ ContextOver <=> ctxError # "nil"
        BY ctxErrorIs DEF IInv, TypeOK
  <2>2. e \in SUBSET ErrorTags /\ e # NoError
        BY <2>1 DEF WrapReadErr, ErrorTags, ContextErrors, NoError
  <2>3. aborted' => \E x \in ContextErrors : e = {x}
        BY <1>15, <2>1 DEF WrapRead, WrapReadErr, IInv, BlameInv
  <2>4. Finish(Failure(e))
        BY <1>15 DEF WrapRead
  <2> HIDE DEF e
  <2> QED
    BY <1>0, <1>15, <2>2, <2>3, <2>4, FailStep DEF WrapRead
<1>16. CASE DaemonReads
  <2>1. PICK n \in 1 .. (sent - body) :
          /\ body' = body + n
          /\ IF StreamMaxLength > 0 /\ body + n > StreamMaxLength
               THEN Send(SizeLimitReply)
               ELSE UNCHANGED <<srv, reply, meant>>
        BY <1>16 DEF DaemonReads
  <2>2. body' \in Nat /\ body' <= sent /\ ~judged /\ srv = "reading"
        BY <1>16, <2>1 DEF DaemonReads, IInv, TypeOK, JudgeInv
  <2>3. CASE Send(SizeLimitReply)
        BY <1>0, <1>16, <2>2, <2>3, SizeLimitReplyType, SendStep DEF DaemonReads
  <2>4. CASE UNCHANGED <<srv, reply, meant>>
        BY <1>0, <1>16, <2>1, <2>2, <2>4 DEF DaemonReads, Booleans,
         IInv, TypeOK, StreamInv, JudgeInv, ReplyInv, LimitInv, BlameInv,
         CleanInv, CleanMeansScanned, ContextOver,
         ctxVars, sourceVars, streamVars, daemonVars, daemonOnly,
         PCs, Blocking, Writing, Reading, ServerStates, ContextErrors
  <2> QED
    BY <2>1, <2>3, <2>4
<1>17. CASE DaemonReplies
  <2>1. PICK text \in FinalReplies : Send(text)
        BY <1>17 DEF DaemonReplies
  <2>2. /\ judged /\ srv = "judging" /\ body' = body /\ body \in Nat
        /\ body <= sent /\ text \in Seq(Lexemes)
        BY <1>17, <2>1 DEF DaemonReplies, IInv, TypeOK, JudgeInv, StreamInv
  <2> QED
    BY <1>0, <1>17, <2>1, <2>2, SendStep DEF DaemonReplies
<1>18. CASE DaemonRepliesEarly
  <2>1. PICK text \in EarlyReplies : Send(text)
        BY <1>18 DEF DaemonRepliesEarly
  <2>2. /\ ~judged /\ srv = "reading" /\ body' = body /\ body \in Nat
        /\ body <= sent /\ text \in Seq(Lexemes)
        BY <1>18, <2>1 DEF DaemonRepliesEarly, IInv, TypeOK, JudgeInv, StreamInv
  <2> QED
    BY <1>0, <1>18, <2>1, <2>2, SendStep DEF DaemonRepliesEarly
<1>19. CASE ReplyLost
  <2>1. PICK n \in 0 .. Len(reply.line) :
          reply' = [line |-> SubSeq(reply.line, 1, n), nul |-> FALSE]
        BY <1>19 DEF ReplyLost
  <2>2. /\ reply' \in [line : Seq(Lexemes), nul : BOOLEAN]
        /\ reply'.nul = FALSE
        BY <2>1, CutReplyType, SubSeqProperties DEF IInv, TypeOK
  <2>3. UNCHANGED <<srv, body, meant, judged, pc, armed, ctxErr, due, size, end,
                    empty, buf, eof, sent, term, rerr, res, aborted>>
        BY <1>19 DEF ReplyLost, daemonOnly, ctxVars, sourceVars, streamVars
  <2>4. TypeOK'
        BY <2>2, <2>3 DEF IInv, TypeOK
  <2>5. StreamInv' /\ JudgeInv' /\ ReplyInv' /\ LimitInv'
        BY <2>2, <2>3 DEF IInv, StreamInv, JudgeInv, ReplyInv, LimitInv
  <2>6. BlameInv' /\ CleanInv' /\ CleanMeansScanned'
        BY <2>3 DEF IInv, BlameInv, CleanInv, CleanMeansScanned, ContextOver
  <2> QED
    BY <2>4, <2>5, <2>6 DEF IInv
<1>20. CASE Return
  <2>1. reply'.nul = FALSE /\ reply' \in [line : Seq(Lexemes), nul : BOOLEAN]
        BY <1>20, NoReplyType DEF Return
  <2>2. res' = Pending /\ res'.verdict = "unknown"
        BY <1>20, PendingIs DEF Return
  <2>3. meant' \in Seq(Lexemes)
        BY <1>20 DEF Return
  <2> QED
    BY <1>0, <1>20, <2>1, <2>2, <2>3 DEF Return, Booleans,
         IInv, TypeOK, StreamInv, JudgeInv, ReplyInv, LimitInv, BlameInv,
         CleanInv, CleanMeansScanned, ContextOver,
         ctxVars, sourceVars, streamVars, daemonVars, daemonOnly,
         PCs, Blocking, Writing, Reading, ServerStates, ContextErrors
<1> USE DEF Booleans,
        IInv, TypeOK, StreamInv, JudgeInv, ReplyInv, LimitInv, BlameInv,
        CleanInv, CleanMeansScanned, ContextOver,
        ctxVars, sourceVars, streamVars, daemonVars, daemonOnly,
        PCs, Blocking, Writing, Reading, ServerStates, ContextErrors
<1>21. CASE Cancel
      BY <1>0, <1>21 DEF Cancel
<1>22. CASE DeadlinePasses
      BY <1>0, <1>22 DEF DeadlinePasses
<1>23. CASE TimerFires
      BY <1>0, <1>23 DEF TimerFires
<1>24. CASE StartIO
      BY <1>0, <1>24 DEF StartIO
<1>25. CASE CommandWritten
      BY <1>0, <1>25 DEF CommandWritten
<1>26. CASE ReadStarts
      BY <1>0, <1>26 DEF ReadStarts
<1>27. CASE ChunkWritten
      BY <1>0, <1>27 DEF ChunkWritten
<1>28. CASE TerminatorWritten
      BY <1>0, <1>28 DEF TerminatorWritten
<1>29. CASE Close
      BY <1>0, <1>29 DEF Close
<1>30. CASE DaemonSeesEnd
      BY <1>0, <1>30 DEF DaemonSeesEnd
<1>31. CASE DaemonCloses
      BY <1>0, <1>31 DEF DaemonCloses
<1>32. CASE UNCHANGED vars
      BY <1>0, <1>32 DEF vars
<1> QED
  BY <1>1, <1>2, <1>3, <1>4, <1>5, <1>6, <1>7, <1>8, <1>9, <1>10, <1>11,
     <1>12, <1>13, <1>14, <1>15, <1>16, <1>17, <1>18, <1>19, <1>20, <1>21,
     <1>22, <1>23, <1>24, <1>25, <1>26, <1>27, <1>28, <1>29, <1>30, <1>31,
     <1>32
     DEF Next, Context, Library, Dialling, Source, Daemon

\* The induction starts.
LEMMA InitIInv == Init => IInv
<1> SUFFICES ASSUME Init PROVE IInv
    OBVIOUS
<1>1. /\ armed \in BOOLEAN /\ due \in BOOLEAN /\ eof \in BOOLEAN
      /\ term \in BOOLEAN /\ judged \in BOOLEAN /\ aborted \in BOOLEAN
      BY Zenon DEF Init
<1>2. reply.nul = FALSE /\ reply \in [line : Seq(Lexemes), nul : BOOLEAN]
      BY NoReplyType DEF Init
<1>3. res = Pending /\ res.verdict = "unknown"
      BY PendingIs DEF Init
<1>4. meant \in Seq(Lexemes)
      BY DEF Init
<1> QED
  BY <1>1, <1>2, <1>3, <1>4, ConfigAssumption, EnvironmentAssumption
     DEF ConfigAssumption, EnvironmentAssumption, NoSizeLimit, Init,
         IInv, TypeOK, StreamInv, JudgeInv, ReplyInv, LimitInv, BlameInv,
         CleanInv, CleanMeansScanned,
         PCs, Blocking, Writing, Reading, ServerStates, ContextErrors

\* The strengthened invariant holds throughout every behaviour of scanStream,
\* its daemon, its reader and its context.
THEOREM StreamInvariance == Spec => []IInv
<1>1. Init => IInv
      BY InitIInv
<1>2. IInv /\ [Next]_vars => IInv'
      BY NextIInv
<1> QED
  BY <1>1, <1>2, PTL DEF Spec

-----------------------------------------------------------------------------
(* What follows from it.                                                   *)

\* Results keep their fail-closed shape and frames their size.
THEOREM StreamTypeCorrect == Spec => []TypeOK
<1>1. IInv => TypeOK
      BY DEF IInv
<1> QED
  BY <1>1, StreamInvariance, PTL

\* No daemon ever judges a part of an input.
THEOREM DaemonJudgesWholeInput == Spec => []JudgesWholeInput
<1>1. IInv => JudgesWholeInput
      BY DEF IInv, TypeOK, JudgeInv, StreamInv, JudgesWholeInput
<1> QED
  BY <1>1, StreamInvariance, PTL

\* The library is fail-closed: a clean verdict stands for the daemon's complete
\* OK reply about the complete input.
THEOREM CleanIsScanned == Spec => []CleanMeansScanned
<1>1. IInv => CleanMeansScanned
      BY DEF IInv
<1> QED
  BY <1>1, StreamInvariance, PTL

\* An oversized input is reported as such and as nothing else.
THEOREM OversizeIsReported == Spec => []OversizeReported
<1>1. IInv => OversizeReported
      BY DEF IInv, LimitInv, OversizeReported
<1> QED
  BY <1>1, StreamInvariance, PTL

\* What the context ended is blamed on the context alone.
THEOREM ContextIsBlamed == Spec => []ContextBlamed
<1>1. IInv => ContextBlamed
      BY DEF IInv, BlameInv, ContextBlamed
<1> QED
  BY <1>1, StreamInvariance, PTL

-----------------------------------------------------------------------------
(* ScanStream implements FailClosed: the abstract state is computed from   *)
(* what the daemon has said and what the call returns.                     *)


\* Where the daemon has yet to speak it has said nothing; what can be read of
\* its reply is the beginning of what it set out to say.
SaidInv ==
  /\ srv \in {"none", "reading", "judging"} => meant = <<>>
  /\ meant \in Answers \cup {<<>>}
  /\ Len(reply.line) <= Len(meant)
  /\ \A i \in 1 .. Len(reply.line) : reply.line[i] = meant[i]

CleanAnswers == {text \in Answers : SaysClean(text)}
FoundAnswers == {text \in Answers : Contains(text, "FOUND")}
verdict      == IF res = Pending THEN "none" ELSE res.verdict

-----------------------------------------------------------------------------
(* What replies are taken for.                                             *)

\* A line that ends in " FOUND" has a FOUND in it.
LEMMA FoundSuffix ==
  ASSUME NEW line \in Seq(Lexemes), IsSuffix(<<"SP", "FOUND">>, line)
  PROVE  Contains(line, "FOUND")
<1> DEFINE s == <<"SP", "FOUND">>
           a == Reverse(s)
           b == Reverse(line)
<1>1. Len(s) = 2 /\ s[2] = "FOUND"
      OBVIOUS
<1>2. a = [i \in 1 .. 2 |-> s[(2 - i) + 1]]
      BY <1>1 DEF Reverse
<1>3. a = <<"FOUND", "SP">>
      BY <1>2
<1>4. /\ b \in Seq(Lexemes) /\ Len(b) = Len(line)
      /\ \A i \in 1 .. Len(line) : b[i] = line[(Len(line) - i) + 1]
  <2>1. b = [i \in 1 .. Len(line) |-> line[(Len(line) - i) + 1]]
        BY DEF Reverse
  <2>2. \A i \in 1 .. Len(line) : line[(Len(line) - i) + 1] \in Lexemes
        OBVIOUS
  <2> QED
    BY <2>1, <2>2
<1>5. 2 <= Len(b) /\ SubSeq(a, 1, 2) = SubSeq(b, 1, 2)
  <2>1. Len(a) <= Len(b) /\ SubSeq(a, 1, Len(a)) = SubSeq(b, 1, Len(a))
        BY Zenon DEF IsSuffix, IsPrefix
  <2>2. Len(a) = 2
        BY <1>3
  <2> QED
    BY <2>1, <2>2, Zenon
<1>6. SubSeq(<<"FOUND", "SP">>, 1, 2)[1] = "FOUND"
      OBVIOUS
<1> HIDE DEF a, b, s
<1>7. SubSeq(b, 1, 2)[1] = b[1]
      BY <1>4, <1>5, SubSeqProperties
<1>8. line[Len(line)] = "FOUND" /\ Len(line) \in 1 .. Len(line)
      BY <1>3, <1>4, <1>5, <1>6, <1>7
<1> QED
  BY <1>8, Zenon DEF Contains

\* Trimming adds nothing to a line.
LEMMA TrimmedContains ==
  ASSUME NEW line \in Seq(Lexemes), NEW cutset, NEW e,
         Contains(TrimRight(line, cutset), e)
  PROVE  TrimRight(line, cutset) \in Seq(Lexemes) /\ Contains(line, e)
<1>1. PICK k \in 0 .. Len(line) : TrimRight(line, cutset) = SubSeq(line, 1, k)
      BY TrimRightIs
<1>2. /\ SubSeq(line, 1, k) \in Seq(Lexemes) /\ Len(SubSeq(line, 1, k)) = k
      /\ \A i \in 1 .. k : SubSeq(line, 1, k)[i] = line[i]
      BY <1>1, SubSeqProperties
<1>3. PICK i \in 1 .. k : SubSeq(line, 1, k)[i] = e
      BY <1>1, <1>2 DEF Contains
<1>4. i \in 1 .. Len(line) /\ line[i] = e
      BY <1>1, <1>2, <1>3
<1> QED
  BY <1>1, <1>2, <1>4 DEF Contains

\* A trimmed line is a line.
LEMMA TrimmedType ==
  ASSUME NEW line \in Seq(Lexemes), NEW cutset
  PROVE  TrimRight(line, cutset) \in Seq(Lexemes)
<1>1. PICK k \in 0 .. Len(line) : TrimRight(line, cutset) = SubSeq(line, 1, k)
      BY TrimRightIs
<1> QED
  BY <1>1, SubSeqProperties

\* An infected line has a FOUND in it.
LEMMA InfectedLineContains ==
  ASSUME NEW line \in Seq(Lexemes),
         ParseScanResponse(line).outcome = OutcomeInfected
  PROVE  Contains(line, "FOUND")
<1>1. IsSuffix(<<"SP", "FOUND">>, TrimRight(line, Blanks))
      BY DEF ParseScanResponse, OutcomeUnknown, OutcomeClean, OutcomeInfected,
             OutcomeError
<1>2. TrimRight(line, Blanks) \in Seq(Lexemes)
      BY TrimmedType
<1> QED
  BY <1>1, <1>2, FoundSuffix, TrimmedContains

\* What ReadLine makes of a reply is infected only if the daemon meant to say
\* FOUND, also where the reply was cut short.
LEMMA InfectedIsMeant ==
  ASSUME IInv, SaidInv, NEW r, r = ReadLine(reply.line, reply.nul, MaxLineResponse),
         r.err = "nil", ParseScanResponse(r.line).outcome = OutcomeInfected
  PROVE  meant \in FoundAnswers
<1>1. reply.line \in Seq(Lexemes) /\ reply.nul \in BOOLEAN /\ meant \in Seq(Lexemes)
      BY DEF IInv, TypeOK
<1>2. r.line = TrimRight(reply.line, LineEnds)
  <2>1. r.line = FinishLine(reply.line).line /\ FinishLine(reply.line).err = "nil"
        BY <1>1, ReadLineTerminated
  <2> QED
    BY <2>1 DEF FinishLine
<1>3. r.line \in Seq(Lexemes)
      BY <1>1, <1>2, TrimmedType
<1>4. Contains(reply.line, "FOUND")
      BY <1>1, <1>2, <1>3, InfectedLineContains, TrimmedContains
<1>5. PICK i \in 1 .. Len(reply.line) : reply.line[i] = "FOUND"
      BY <1>4 DEF Contains
<1>6. i \in 1 .. Len(meant) /\ meant[i] = "FOUND"
      BY <1>1, <1>5 DEF SaidInv
<1>7. Contains(meant, "FOUND") /\ meant # <<>>
      BY <1>1, <1>6 DEF Contains
<1> QED
  BY <1>7 DEF SaidInv, FoundAnswers

\* A daemon that said something clean said something.
LEMMA CleanIsSomething ==
  ASSUME SaidInv, SaysClean(meant)
  PROVE  meant \in CleanAnswers
<1>1. meant # <<>>
  <2> SUFFICES ASSUME meant = <<>> PROVE FALSE
      OBVIOUS
  <2>1. SubSeq(<<>>, 1, 0) \in CleanLines
        BY DEF SaysClean
  <2>2. SubSeq(<<>>, 1, 0) = <<>>
        OBVIOUS
  <2> QED
    BY <2>1, <2>2 DEF CleanLines
<1> QED
  BY <1>1 DEF SaidInv, CleanAnswers

-----------------------------------------------------------------------------
(* The invariant on what was said.                                         *)

\* Everything the daemon may send is a reply.
LEMMA AnswersType == Answers \subseteq Seq(Lexemes)
BY SizeLimitReplyType, EnvironmentAssumption DEF EnvironmentAssumption, Answers

\* What is sent is the beginning of what is meant.
LEMMA SendSaid ==
  ASSUME NEW text \in Answers, Send(text)
  PROVE  SaidInv'
<1>1. meant' = text /\ srv' = "replied"
      BY DEF Send
<1>2. text \in Seq(Lexemes)
      BY AnswersType
<1>3. PICK n \in 0 .. Len(text) : reply'.line = SubSeq(text, 1, n)
  <2>1. CASE reply' = [line |-> text, nul |-> TRUE]
    <3>1. text = SubSeq(text, 1, Len(text)) /\ Len(text) \in 0 .. Len(text)
          BY <1>2
    <3> QED
      BY <2>1, <3>1
  <2>2. CASE \E n \in 0 .. Len(text) :
               reply' = [line |-> SubSeq(text, 1, n), nul |-> FALSE]
        BY <2>2
  <2> QED
    BY <2>1, <2>2 DEF Send
<1>4. /\ Len(SubSeq(text, 1, n)) = n
      /\ \A i \in 1 .. n : SubSeq(text, 1, n)[i] = text[i]
      BY <1>2, SubSeqProperties
<1> QED
  BY <1>1, <1>2, <1>3, <1>4 DEF SaidInv

\* Every step preserves it.
LEMMA SaidStep == IInv /\ SaidInv /\ [Next]_vars => SaidInv'
<1> SUFFICES ASSUME IInv, SaidInv, [Next]_vars PROVE SaidInv'
    OBVIOUS
<1>1. CASE UNCHANGED <<srv, reply, meant>>
      BY <1>1 DEF SaidInv
<1>2. CASE Dial
      BY <1>2 DEF Dial, SaidInv, IInv, ReplyInv
<1>3. CASE DaemonReads
  <2>1. CASE Send(SizeLimitReply)
        BY <2>1, SendSaid DEF Answers
  <2> QED
    BY <1>1, <1>3, <2>1 DEF DaemonReads
<1>4. CASE DaemonSeesEnd
      BY <1>4 DEF DaemonSeesEnd, SaidInv
<1>5. CASE DaemonReplies
      BY <1>5, SendSaid DEF DaemonReplies, Answers
<1>6. CASE DaemonRepliesEarly
      BY <1>6, SendSaid DEF DaemonRepliesEarly, Answers
<1>7. CASE DaemonCloses
      BY <1>7 DEF DaemonCloses, SaidInv
<1>8. CASE ReplyLost
  <2>1. PICK n \in 0 .. Len(reply.line) :
          reply' = [line |-> SubSeq(reply.line, 1, n), nul |-> FALSE]
        BY <1>8 DEF ReplyLost
  <2>2. reply.line \in Seq(Lexemes) /\ meant \in Seq(Lexemes)
        BY DEF IInv, TypeOK
  <2>3. /\ Len(SubSeq(reply.line, 1, n)) = n
        /\ \A i \in 1 .. n : SubSeq(reply.line, 1, n)[i] = reply.line[i]
        BY <2>2, SubSeqProperties
  <2>4. reply'.line = SubSeq(reply.line, 1, n)
        BY <2>1
  <2>5. srv' = srv /\ meant' = meant
        BY <1>8 DEF ReplyLost
  <2> QED
    BY <2>2, <2>3, <2>4, <2>5 DEF SaidInv
<1>9. CASE Return
  <2>1. meant' = <<>> /\ reply'.line = <<>>
        BY <1>9 DEF Return, NoReply
  <2> QED
    BY <2>1 DEF SaidInv
<1>10. CASE \/ Context \/ Library \/ DialFails \/ DialReturnsNil \/ Source
            \/ IOTransportFails \/ UNCHANGED vars
  <2>1. UNCHANGED <<srv, reply, meant>>
    <3> USE DEF daemonVars
    <3>1. CASE Context
          BY <3>1 DEF Context, Cancel, DeadlinePasses, TimerFires
    <3>2. CASE StartIO \/ IOAborts \/ IOTransportFails \/ CommandWritten \/ ReadStarts
          BY <3>2, Zenon DEF StartIO, IOAborts, IOTransportFails, IOFails, CommandWritten,
             ReadStarts
    <3>3. CASE ReadRefused \/ ChunkWritten \/ TerminatorWritten \/ Close
          BY <3>3, Zenon DEF ReadRefused, ChunkWritten, TerminatorWritten, Close
    <3>4. CASE VerdictRead \/ Recover \/ SalvageRead \/ WrapWrite \/ WrapRead
          BY <3>4, Zenon DEF VerdictRead, Recover, SalvageRead, WrapWrite, WrapRead
    <3>5. CASE DialFails \/ DialReturnsNil
          BY <3>5, Zenon DEF DialFails, DialReturnsNil
    <3>6. CASE Source
          BY <3>6, Zenon DEF Source, ReadData, ReadEnd, ReadEmpty, ReadInvalid
    <3>7. CASE UNCHANGED vars
          BY <3>7 DEF vars
    <3> QED
      BY <1>10, <3>1, <3>2, <3>3, <3>4, <3>5, <3>6, <3>7 DEF Library
  <2> QED
    BY <1>1, <2>1
<1> QED
  BY <1>2, <1>3, <1>4, <1>5, <1>6, <1>7, <1>8, <1>9, <1>10
     DEF Next, Dialling, Daemon

\* Before the first step nothing has been said.
LEMMA SaidInit == Init => SaidInv
BY DEF Init, SaidInv, NoReply

-----------------------------------------------------------------------------
(* Every step of a call is a step of the abstract scan, or none.           *)

\* Nothing the caller or the daemon could tell has changed.
LEMMA HiddenStep ==
  ASSUME UNCHANGED <<size, end, sent, term, body, judged, meant, res>>
  PROVE  UNCHANGED FC!vars
<1>1. size' = size /\ end' = end /\ sent' = sent /\ term' = term /\ body' = body
        /\ judged' = judged /\ meant' = meant /\ res' = res
      OBVIOUS
<1> QED
  BY <1>1, Zenon DEF FC!vars, FC!input, Pending, Failure, NoError

\* A call gets its result.
LEMMA ReturnStep ==
  ASSUME IInv, IInv', SaidInv, res = Pending, res' # Pending,
         UNCHANGED <<size, end, sent, term, body, judged, meant>>,
         res'.verdict = "infected" => meant \in FoundAnswers
  PROVE  FC!Return
<1>1. Pending' = Pending
      BY DEF Pending, Failure, NoError
<1>2. verdict = "none" /\ verdict' = res'.verdict
      BY <1>1 DEF verdict
<1>3. res' \in Results
      BY <1>1 DEF IInv, TypeOK
<1>4. verdict' \in {"unknown", "clean", "infected"}
      BY <1>2, <1>3 DEF Results, Verdict, Failure
<1>5. ASSUME res'.verdict = "clean" PROVE meant \in CleanAnswers /\ term
  <2>1. term /\ SaysClean(meant)
        BY <1>5 DEF IInv, CleanMeansScanned
  <2> QED
    BY <2>1, CleanIsSomething
<1>6. \/ verdict' = "unknown"
      \/ verdict' = "infected" /\ meant \in FoundAnswers
      \/ verdict' = "clean" /\ meant \in CleanAnswers /\ term
      BY <1>2, <1>4, <1>5
<1>7. size' = size /\ end' = end /\ sent' = sent /\ term' = term /\ body' = body
        /\ judged' = judged /\ meant' = meant
      OBVIOUS
<1> QED
  BY <1>2, <1>6, <1>7, Zenon
     DEF FC!Return, FC!input, verdict, CleanAnswers, FoundAnswers, NoError

\* A frame is handed over.
LEMMA HandOverStep ==
  ASSUME IInv, IInv', ChunkWritten
  PROVE  [FC!Next]_FC!vars
<1>1. /\ pc = "chunk" /\ sent' = sent + buf
      /\ size' = size /\ end' = end /\ term' = term /\ body' = body
      /\ judged' = judged /\ meant' = meant /\ res' = res
      BY DEF ChunkWritten, sourceVars, daemonVars
<1>2. /\ sent \in Nat /\ buf \in Nat /\ size \in Nat /\ sent + buf <= size
      /\ res = Pending /\ ~term
      BY <1>1 DEF IInv, TypeOK, StreamInv
<1>3. CASE buf = 0
  <2>1. sent' = sent
        BY <1>1, <1>2, <1>3
  <2> QED
    BY <1>1, <2>1, HiddenStep
<1>4. CASE buf # 0
  <2>1. sent' \in sent + 1 .. size
        BY <1>1, <1>2, <1>4
  <2>2. MaxStreamSize >= 0 => sent' <= MaxStreamSize
        BY ConfigAssumption DEF ConfigAssumption, NoSizeLimit, IInv, LimitInv
  <2>3. FC!HandOver
        BY <1>1, <1>2, <2>1, <2>2, Zenon
           DEF FC!HandOver, FC!input, Pending, Failure, NoError
  <2> QED
    BY <2>3 DEF FC!Next
<1> QED
  BY <1>3, <1>4

\* The terminator is written.
LEMMA FinishStep ==
  ASSUME IInv, TerminatorWritten
  PROVE  FC!Finish
<1>1. /\ pc = "terminator" /\ term' = TRUE /\ sent' = sent
      /\ size' = size /\ end' = end /\ body' = body
      /\ judged' = judged /\ meant' = meant /\ res' = res
      BY DEF TerminatorWritten, sourceVars, daemonVars
<1>2. res = Pending /\ ~term /\ end = NoError /\ sent = size
      BY <1>1 DEF IInv, TypeOK, StreamInv
<1> QED
  BY <1>1, <1>2, Zenon DEF FC!Finish, FC!input, Pending, Failure, NoError

\* The daemon says something, having taken in no more.
LEMMA SayStep ==
  ASSUME NEW text, meant = <<>>, meant' = text,
         text \in (IF judged THEN Answers ELSE Interruptions),
         UNCHANGED <<size, end, sent, term, body, judged, res>>
  PROVE  FC!Say
<1>1. size' = size /\ end' = end /\ sent' = sent /\ term' = term /\ body' = body
        /\ judged' = judged /\ res' = res
      OBVIOUS
<1> QED
  BY <1>1, Zenon DEF FC!Say, FC!input, Pending, Failure, NoError

\* A step of the goroutine that ends in an error or goes on.
LEMMA ErrorStep ==
  ASSUME IInv, IInv', SaidInv, pc \notin {"close", "done"},
         res' = res \/ \E err : res' = Failure(err),
         UNCHANGED <<sourceVars, daemonVars, sent, term>>
  PROVE  [FC!Next]_FC!vars
<1>1. UNCHANGED <<size, end, sent, term, body, judged, meant>> /\ res = Pending
      BY DEF sourceVars, daemonVars, IInv, TypeOK
<1>2. CASE res' = res
      BY <1>1, <1>2, HiddenStep
<1>3. CASE res' # res
  <2>1. res'.verdict = "unknown"
        BY <1>3 DEF Failure
  <2> QED
    BY <1>1, <1>3, <2>1, ReturnStep DEF FC!Next
<1> QED
  BY <1>2, <1>3

\* The step simulation.
LEMMA FailClosedStep ==
  IInv /\ IInv' /\ SaidInv /\ [Next]_vars => [FC!Next]_FC!vars
<1> SUFFICES ASSUME IInv, IInv', SaidInv, [Next]_vars PROVE [FC!Next]_FC!vars
    OBVIOUS
<1>1. CASE \/ Context \/ StartIO \/ IOAborts \/ IOTransportFails \/ Dial
           \/ CommandWritten \/ ReadStarts
           \/ Close \/ DaemonCloses \/ ReplyLost \/ UNCHANGED vars
  <2>1. UNCHANGED <<size, end, sent, term, body, judged, meant, res>>
    <3> USE DEF sourceVars, streamVars, daemonVars, daemonOnly
    <3>1. CASE Context \/ UNCHANGED vars
          BY <3>1, Zenon DEF Context, Cancel, DeadlinePasses, TimerFires, vars
    <3>2. CASE StartIO \/ IOAborts \/ IOTransportFails
          BY <3>2, Zenon DEF StartIO, IOAborts, IOTransportFails, IOFails
    <3>3. CASE Dial \/ CommandWritten \/ ReadStarts
          BY <3>3, Zenon DEF Dial, CommandWritten, ReadStarts
    <3>4. CASE Close \/ DaemonCloses \/ ReplyLost
          BY <3>4, Zenon DEF Close, DaemonCloses, ReplyLost
    <3> QED
      BY <1>1, <3>1, <3>2, <3>3, <3>4
  <2> QED
    BY <2>1, HiddenStep
<1>2. CASE \/ DialFails \/ DialReturnsNil \/ ReadRefused \/ Source \/ Recover
           \/ WrapWrite \/ WrapRead
  <2>1. CASE DialFails \/ DialReturnsNil
        BY <2>1, ErrorStep DEF DialFails, DialReturnsNil, Finish, streamVars
  <2>2. CASE Recover \/ WrapWrite \/ WrapRead
        BY <2>2, ErrorStep DEF Recover, WrapWrite, WrapRead, Finish, streamVars
  <2>3. \A n, atEOF, err : FillReturns(n, atEOF, err) =>
          /\ res' = res \/ \E e : res' = Failure(e)
          /\ sent' = sent /\ term' = term
        BY DEF FillReturns, Finish
  <2>4. CASE ReadRefused \/ Source
    <3>1. res' = res \/ \E e : res' = Failure(e)
          BY <2>3, <2>4 DEF ReadRefused, Source, ReadData, ReadEnd, ReadEmpty, ReadInvalid
    <3>2. pc \in {"fill", "read"} /\ UNCHANGED <<sourceVars, daemonVars>>
          BY <2>4, Zenon DEF ReadRefused, Source, ReadData, ReadEnd, ReadEmpty, ReadInvalid
    <3>3. UNCHANGED <<sent, term>>
          BY <2>3, <2>4 DEF ReadRefused, Source, ReadData, ReadEnd, ReadEmpty, ReadInvalid
    <3> QED
      BY <3>1, <3>2, <3>3, ErrorStep
  <2> QED
    BY <1>2, <2>1, <2>2, <2>4
<1>3. CASE VerdictRead \/ SalvageRead
  <2> DEFINE r    == ReadLine(reply.line, reply.nul, MaxLineResponse)
             resp == ParseScanResponse(r.line)
  <2>1. /\ pc \in {"reply", "salvage"}
        /\ UNCHANGED <<size, end, sent, term, body, judged, meant>>
        BY <1>3, Zenon DEF VerdictRead, SalvageRead, sourceVars, streamVars, daemonVars
  <2>2. res = Pending
        BY <2>1 DEF IInv, TypeOK
  <2>3. ASSUME res' # res, res'.verdict = "infected"
        PROVE  r.err = "nil" /\ resp.outcome = OutcomeInfected
    <3>1. \A err : Failure(err).verdict = "unknown"
          BY DEF Failure
    <3>2. Verdict("clean").verdict = "clean"
          BY DEF Verdict
    <3>3. CASE VerdictRead
      <4>1. r.err = "nil" /\ res' = ResultFromLine(r.line, r.terminated)
            BY <2>3, <3>3 DEF VerdictRead, Finish
      <4> HIDE DEF r
      <4> QED
        BY <2>3, <3>1, <3>2, <4>1 DEF ResultFromLine
    <3>4. CASE SalvageRead
      <4>1. CASE r.err = "nil" /\ resp.outcome = OutcomeInfected
            BY <4>1
      <4>2. CASE ~(r.err = "nil" /\ resp.outcome = OutcomeInfected)
        <5>1. res' = res \/ \E err : res' = Failure(err)
              BY <3>4, <4>2, Zenon DEF SalvageRead, Finish
        <5> QED
          BY <2>3, <3>1, <5>1
      <4> QED
        BY <4>1, <4>2
    <3> QED
      BY <1>3, <3>3, <3>4
  <2>4. CASE res' = res
        BY <2>1, <2>4, HiddenStep
  <2>5. CASE res' # res
    <3>1. res'.verdict = "infected" => meant \in FoundAnswers
          BY <2>3, <2>5, InfectedIsMeant
    <3>2. res' # Pending
          BY <2>2, <2>5
    <3> QED
      BY <2>1, <2>2, <3>1, <3>2, ReturnStep DEF FC!Next
  <2> QED
    BY <2>4, <2>5
<1>4. CASE DaemonReads
  <2>1. PICK n \in 1 .. (sent - body) :
          /\ body' = body + n
          /\ Send(SizeLimitReply) \/ UNCHANGED <<srv, reply, meant>>
        BY <1>4 DEF DaemonReads
  <2>2. meant = <<>> /\ ~judged
        BY <1>4 DEF DaemonReads, SaidInv, IInv, JudgeInv
  <2>3. /\ size' = size /\ end' = end /\ judged' = judged /\ res' = res
        /\ sent' = sent /\ term' = term
        BY <1>4 DEF DaemonReads, daemonOnly, sourceVars, streamVars
  <2>4. meant' \in Interruptions \cup {<<>>}
        BY <2>1, <2>2 DEF Send, Interruptions
  <2>5. body' \in body + 1 .. sent
    <3>1. sent \in Nat /\ body \in Nat
          BY DEF IInv, TypeOK
    <3> QED
      BY <2>1, <3>1
  <2>6. FC!TakeIn
        BY <2>2, <2>3, <2>4, <2>5, Zenon DEF FC!TakeIn, FC!input, Pending, Failure, NoError
  <2> QED
    BY <2>6 DEF FC!Next
<1>5. CASE DaemonSeesEnd
  <2>1. meant = <<>> /\ ~judged /\ term /\ body = size
        BY <1>5 DEF DaemonSeesEnd, SaidInv, IInv, JudgeInv, StreamInv
  <2>2. /\ size' = size /\ end' = end /\ res' = res /\ body' = body /\ meant' = meant
        /\ sent' = sent /\ term' = term /\ judged' = TRUE
        BY <1>5, Zenon DEF DaemonSeesEnd, daemonOnly, sourceVars, streamVars
  <2>3. FC!Judge
        BY <2>1, <2>2, Zenon DEF FC!Judge, FC!input, Pending, Failure, NoError
  <2> QED
    BY <2>3 DEF FC!Next
<1>6. CASE DaemonReplies
  <2>1. PICK text \in FinalReplies : Send(text)
        BY <1>6 DEF DaemonReplies
  <2>2. /\ meant = <<>> /\ judged /\ meant' = text /\ text \in Answers
        /\ UNCHANGED <<size, end, sent, term, body, judged, res>>
        BY <1>6, <2>1 DEF DaemonReplies, Send, daemonOnly, sourceVars, streamVars, Answers, SaidInv,
           IInv, JudgeInv
  <2> QED
    BY <2>2, SayStep DEF FC!Next
<1>7. CASE DaemonRepliesEarly
  <2>1. PICK text \in EarlyReplies : Send(text)
        BY <1>7 DEF DaemonRepliesEarly
  <2>2. /\ meant = <<>> /\ ~judged /\ meant' = text /\ text \in Interruptions
        /\ UNCHANGED <<size, end, sent, term, body, judged, res>>
        BY <1>7, <2>1 DEF DaemonRepliesEarly, Send, daemonOnly, sourceVars, streamVars, Interruptions,
           SaidInv, IInv, JudgeInv
  <2> QED
    BY <2>2, SayStep DEF FC!Next
<1>8. CASE Return
  <2>1. /\ size' \in Nat /\ body' = 0 /\ judged' = FALSE /\ meant' = <<>>
        /\ res' = Pending /\ sent' = 0 /\ term' = FALSE
        BY <1>8, EnvironmentAssumption DEF EnvironmentAssumption, Return
  <2>2. res # Pending /\ res \in Results
        BY <1>8 DEF Return, IInv, TypeOK
  <2>3. res.verdict # "none"
        BY <2>2 DEF Results, Verdict, Failure
  <2>4. FC!NewScan
        BY <2>1, <2>2, <2>3, Zenon DEF FC!NewScan, Pending, Failure, NoError
  <2> QED
    BY <2>4 DEF FC!Next
<1>9. CASE ChunkWritten
      BY <1>9, HandOverStep
<1>10. CASE TerminatorWritten
      BY <1>10, FinishStep DEF FC!Next
<1> QED
  BY <1>1, <1>2, <1>3, <1>4, <1>5, <1>6, <1>7, <1>8, <1>9, <1>10
     DEF Next, Library, Dialling, Daemon

\* scanStream keeps the fail-closed promise of FailClosed, for every input,
\* configuration, daemon, reader and context: in particular no OK, however
\* early it was given, becomes a clean verdict before the terminator is written
\* behind the last byte of the input.
THEOREM ScanIsFailClosed == Spec => ImplementsFailClosed
<1>1. Init => FC!Init
  <2> SUFFICES ASSUME Init PROVE FC!Init
      OBVIOUS
  <2>1. /\ size \in Nat /\ sent = 0 /\ term = FALSE /\ body = 0 /\ judged = FALSE
        /\ meant = <<>> /\ res = Pending
        BY EnvironmentAssumption DEF EnvironmentAssumption, Init
  <2> QED
    BY <2>1, Zenon DEF FC!Init
<1>2. Init => SaidInv
      BY SaidInit
<1>3. IInv /\ SaidInv /\ [Next]_vars => SaidInv'
      BY SaidStep
<1>4. IInv /\ IInv' /\ SaidInv /\ [Next]_vars => [FC!Next]_FC!vars
      BY FailClosedStep
<1> QED
  BY <1>1, <1>2, <1>3, <1>4, StreamInvariance, PTL
     DEF Spec, ImplementsFailClosed, FC!Spec

=============================================================================
