----------------------------- MODULE ScanStream -----------------------------
(***************************************************************************)
(* One run of scanStream (src/client.go): dial, INSTREAM, StreamAll over   *)
(* the caller's reader, the verdict line, recoverStreamError, close.  The  *)
(* call shares its connection with the daemon and races the caller's       *)
(* context; daemon, context, reader and network each take steps of their   *)
(* own.                                                                    *)
(*                                                                         *)
(* Data is abstracted to byte counts: the reader will hand over size bytes *)
(* and then end with end (NoError is io.EOF), sent counts the payload of   *)
(* the frames written whole, body the payload the daemon has taken in.     *)
(* The deadline arithmetic of an I/O operation is the business of          *)
(* DeadlineConn; here an operation is refused, succeeds, fails on its own  *)
(* or is aborted by the context.                                           *)
(***************************************************************************)
EXTENDS Outcomes, Integers, FiniteSets

CONSTANTS
  ChunkSize,                 \* cfg.chunkSize: payload bytes of one frame
  MaxStreamSize,             \* cfg.maxStreamSize: bytes, or NoSizeLimit
  MaxConsecutiveEmptyReads,  \* maxConsecutiveEmptyReads of package proto
  MaxLineResponse,           \* content bound of ReadLine
  MaxInput,                  \* bound on the size of the inputs explored
  SourceEnds,                \* the errors readers end with; NoError is io.EOF
  DialErrors,                \* sentinels in the chain of a dial failure
  SocketBuffer,              \* payload the connection holds before writes block
  StreamMaxLength,           \* the daemon's stream limit; 0 is none
  FinalReplies,              \* what the daemon may answer to a complete stream
  EarlyReplies,              \* what it may answer before the stream ended
  Tcp                        \* unread data at a close resets the connection

NoSizeLimit == -1

SizeLimitReply == <<"text", "SP", "size limit exceeded", "text", "SP", "ERROR">>

ASSUME ConfigAssumption ==
  /\ ChunkSize \in Nat \ {0}
  /\ MaxStreamSize \in (Nat \ {0}) \cup {NoSizeLimit}
  /\ MaxConsecutiveEmptyReads \in Nat \ {0}
  /\ MaxLineResponse \in Nat

ASSUME EnvironmentAssumption ==
  /\ MaxInput \in Nat
  /\ SourceEnds \subseteq SUBSET ErrorTags
  /\ DialErrors \subseteq SUBSET ErrorTags
  /\ SocketBuffer \in Nat /\ SocketBuffer >= ChunkSize
  /\ StreamMaxLength \in Nat
  /\ FinalReplies \subseteq Seq(Lexemes)
  /\ EarlyReplies \subseteq Seq(Lexemes)
  /\ Tcp \in BOOLEAN

VARIABLES
  pc,       \* where the calling goroutine is
  armed,    \* the I/O operation at pc has passed deadlineConn.refresh
  ctxErr,   \* ctx.Err(): "nil" until the context is done
  due,      \* the context's deadline has passed, its timer may not have fired
  size,     \* the bytes the reader delivers before it ends
  end,      \* how it ends
  empty,    \* fill's count of consecutive (0, nil) reads
  buf,      \* payload bytes in StreamAll's buffer
  eof,      \* fill has seen io.EOF
  sent,     \* StreamAll's total
  term,     \* the zero-length terminator has been written
  srv,      \* the daemon's side of the connection
  body,     \* payload bytes the daemon has taken in
  reply,    \* the reply as it can be read from the connection
  rerr,     \* the error of the failed reply read
  res,      \* what the call returns
  meant,    \* history: the reply the daemon set out to send
  judged,   \* history: the daemon has answered a terminated stream
  aborted   \* history: the context made an I/O operation fail

ctxVars    == <<ctxErr, due>>
sourceVars == <<size, end>>
streamVars == <<empty, buf, eof, sent, term>>
daemonVars == <<srv, body, reply, meant, judged>>
vars == <<pc, armed, ctxVars, sourceVars, streamVars, daemonVars,
          rerr, res, aborted>>

NoReply == [line |-> <<>>, nul |-> FALSE]
Pending == Failure(NoError)    \* no result yet

Writing  == {"command", "chunk", "terminator"}
Reading  == {"salvage", "reply"}
Blocking == Writing \cup Reading
PCs == {"dial", "fill", "read", "recover", "wrapWrite", "wrapRead",
        "close", "done"} \cup Blocking
ServerStates == {"none", "reading", "judging", "replied", "closed"}

-----------------------------------------------------------------------------
(* The caller's context.                                                   *)

Cancel ==
  /\ pc # "done" /\ ctxErr = "nil"
  /\ ctxErr' = "Canceled"
  /\ UNCHANGED <<pc, armed, due, sourceVars, streamVars, daemonVars, rerr,
                 res, aborted>>

DeadlinePasses ==
  /\ pc # "done" /\ ~due
  /\ due' = TRUE
  /\ UNCHANGED <<pc, armed, ctxErr, sourceVars, streamVars, daemonVars, rerr,
                 res, aborted>>

TimerFires ==
  /\ due /\ ctxErr = "nil"
  /\ ctxErr' = "DeadlineExceeded"
  /\ UNCHANGED <<pc, armed, due, sourceVars, streamVars, daemonVars, rerr,
                 res, aborted>>

\* ctxError with ctx.Err() alone: a passed deadline is nobody's doing until
\* the timer has fired.
ctxErrorTimerOnly == ctxErr

ctxError ==
  IF ctxErr # "nil" THEN ctxErr
  ELSE IF due THEN "DeadlineExceeded" ELSE "nil"

\* The context allows no more I/O: refresh sees it done or derives a
\* connection deadline from it that has passed.
ContextOver == ctxErr # "nil" \/ due

-----------------------------------------------------------------------------
(* Helpers of the calling goroutine.                                       *)

\* return r: the deferred stop and Close come next.
Finish(r) == res' = r /\ pc' = "close"

\* deadlineConn.refresh lets the operation at pc start.
StartIO ==
  /\ pc \in Blocking /\ ~armed
  /\ ~ContextOver
  /\ armed' = TRUE
  /\ UNCHANGED <<pc, ctxVars, sourceVars, streamVars, daemonVars, rerr, res,
                 aborted>>

\* Where a failed Read or Write of the connection leads.
IOFails ==
  /\ armed' = FALSE
  /\ pc' = CASE pc = "command"                -> "wrapWrite"
             [] pc \in {"chunk", "terminator"} -> "recover"
             [] pc = "salvage"                -> "wrapWrite"
             [] pc = "reply"                  -> "wrapRead"
  /\ rerr' = "io"
  /\ UNCHANGED <<ctxVars, sourceVars, streamVars, daemonVars, res>>

\* The context is observed only between operations: no AfterFunc watcher.
IOAbortsUnwatched ==
  /\ pc \in Blocking /\ ~armed /\ ContextOver
  /\ aborted' = TRUE
  /\ IOFails

\* refresh finds the context done, its own deadline is in the past, or the
\* AfterFunc watcher or the connection deadline ends the pending operation.
IOAborts ==
  /\ pc \in Blocking /\ ContextOver
  /\ aborted' = TRUE
  /\ IOFails

\* The peer reset or closed the connection, or ioTimeout elapsed.
IOTransportFails ==
  /\ pc \in Blocking /\ armed
  /\ aborted' = aborted
  /\ IOFails

-----------------------------------------------------------------------------
(* dial and the INSTREAM command.                                          *)

Dial ==
  /\ pc = "dial"
  /\ pc' = "command" /\ srv' = "reading"
  /\ UNCHANGED <<armed, ctxVars, sourceVars, streamVars, body, reply, meant,
                 judged, rerr, res, aborted>>

\* The caller's context takes priority; the dial-timeout sub-context is not
\* consulted, so its expiry stays a ConnectionError.
DialFails ==
  /\ pc = "dial"
  /\ \E err \in DialErrors :
       Finish(Failure(IF ctxError # "nil" THEN {ctxError}
                                          ELSE {"ConnectionError"} \cup err))
  /\ aborted' = ContextOver
  /\ UNCHANGED <<armed, ctxVars, sourceVars, streamVars, daemonVars, rerr>>

\* A DialFunc that returns neither a connection nor an error.
DialReturnsNil ==
  /\ pc = "dial"
  /\ Finish(Failure({"ConnectionError"}))
  /\ UNCHANGED <<armed, ctxVars, sourceVars, streamVars, daemonVars, rerr,
                 aborted>>

\* Over TCP a write still succeeds after the peer has closed.
Writable(n) ==
  \/ srv # "closed" /\ sent + n - body <= SocketBuffer
  \/ srv = "closed" /\ Tcp

CommandWritten ==
  /\ pc = "command" /\ armed /\ Writable(0)
  /\ pc' = "fill" /\ armed' = FALSE
  /\ UNCHANGED <<ctxVars, sourceVars, streamVars, daemonVars, rerr, res,
                 aborted>>

-----------------------------------------------------------------------------
(* StreamAll: fill the buffer, check the limit, write the frame.           *)

\* The limit compared before the buffered bytes are added.
OverLimitByTotal(n) == MaxStreamSize # NoSizeLimit /\ sent > MaxStreamSize

OverLimit(n) == MaxStreamSize # NoSizeLimit /\ sent + n > MaxStreamSize

\* A failing reader is reported before the limit is looked at.
FillReturnsSourceErrorFirst(n, atEOF, err) ==
  /\ buf' = n /\ eof' = atEOF /\ empty' = 0
  /\ CASE err # NoError -> Finish(Failure(err))
       [] err = NoError /\ OverLimit(n) ->
            Finish(Failure({"ErrSizeLimitExceeded"}))
       [] OTHER ->
            pc' = (IF n > 0 THEN "chunk" ELSE "terminator") /\ res' = res
  /\ UNCHANGED <<sent, term>>

\* fill has returned n, atEOF and err: the limit first, then the reader's
\* error, then the frame; recoverStreamError maps the two failures at once.
FillReturns(n, atEOF, err) ==
  /\ buf' = n /\ eof' = atEOF /\ empty' = 0
  /\ CASE OverLimit(n) -> Finish(Failure({"ErrSizeLimitExceeded"}))
       [] ~OverLimit(n) /\ err # NoError -> Finish(Failure(err))
       [] OTHER ->
            pc' = (IF n > 0 THEN "chunk" ELSE "terminator") /\ res' = res
  /\ UNCHANGED <<sent, term>>

\* ctxReader.Read refuses to read on for a context that is done.
ReadRefused ==
  /\ pc = "fill" /\ ctxErr # "nil"
  /\ FillReturns(buf, FALSE, {ctxErr})
  /\ UNCHANGED <<armed, ctxVars, sourceVars, daemonVars, rerr, aborted>>

\* ctxReader.Read calls the caller's reader, which may block.
ReadStarts ==
  /\ pc = "fill" /\ ctxErr = "nil"
  /\ pc' = "read"
  /\ UNCHANGED <<armed, ctxVars, sourceVars, streamVars, daemonVars, rerr, res,
                 aborted>>

\* The reader delivers n bytes and no error; a full buffer is a frame.
ReadData ==
  /\ pc = "read"
  /\ \E n \in 1 .. ChunkSize :
       /\ buf + n <= ChunkSize /\ sent + buf + n <= size
       /\ IF buf + n = ChunkSize
            THEN FillReturns(buf + n, FALSE, NoError)
            ELSE /\ pc' = "fill" /\ buf' = buf + n /\ empty' = 0
                 /\ UNCHANGED <<eof, sent, term, res>>
  /\ UNCHANGED <<armed, ctxVars, sourceVars, daemonVars, rerr, aborted>>

\* Every error ends the input as io.EOF does.
ReadEndAnyError ==
  /\ pc = "read"
  /\ \E n \in 0 .. ChunkSize :
       /\ buf + n <= ChunkSize /\ sent + buf + n = size
       /\ FillReturns(buf + n, TRUE, NoError)
  /\ UNCHANGED <<armed, ctxVars, sourceVars, daemonVars, rerr, aborted>>

\* The reader ends, with its last bytes or after them.
ReadEnd ==
  /\ pc = "read"
  /\ \E n \in 0 .. ChunkSize :
       /\ buf + n <= ChunkSize /\ sent + buf + n = size
       /\ FillReturns(buf + n, end = NoError, end)
  /\ UNCHANGED <<armed, ctxVars, sourceVars, daemonVars, rerr, aborted>>

\* A reader that returns (0, nil) is asked again, for ever.
ReadEmptyForever ==
  /\ pc = "read"
  /\ pc' = "fill"
  /\ UNCHANGED <<armed, ctxVars, sourceVars, streamVars, daemonVars, rerr, res,
                 aborted>>

ReadEmpty ==
  /\ pc = "read"
  /\ IF empty + 1 >= MaxConsecutiveEmptyReads
       THEN FillReturns(buf, FALSE, {"InputError"})
       ELSE /\ empty' = empty + 1 /\ pc' = "fill"
            /\ UNCHANGED <<buf, eof, sent, term, res>>
  /\ UNCHANGED <<armed, ctxVars, sourceVars, daemonVars, rerr, aborted>>

\* The count is used unchecked.
ReadInvalidUnchecked ==
  /\ pc = "read"
  /\ FillReturns(ChunkSize + 1, FALSE, NoError)
  /\ UNCHANGED <<armed, ctxVars, sourceVars, daemonVars, rerr, aborted>>

\* The reader returns a count outside [0, len(p)].
ReadInvalid ==
  /\ pc = "read"
  /\ FillReturns(buf, FALSE, {"InputError"})
  /\ UNCHANGED <<armed, ctxVars, sourceVars, daemonVars, rerr, aborted>>

ChunkWritten ==
  /\ pc = "chunk" /\ armed /\ Writable(buf)
  /\ sent' = sent + buf /\ buf' = 0
  /\ pc' = (IF eof THEN "terminator" ELSE "fill") /\ armed' = FALSE
  /\ UNCHANGED <<ctxVars, sourceVars, empty, eof, term, daemonVars, rerr, res,
                 aborted>>

TerminatorWritten ==
  /\ pc = "terminator" /\ armed /\ Writable(0)
  /\ term' = TRUE
  /\ pc' = "reply" /\ armed' = FALSE
  /\ UNCHANGED <<ctxVars, sourceVars, empty, buf, eof, sent, daemonVars, rerr,
                 res, aborted>>

-----------------------------------------------------------------------------
(* The verdict, and the salvage of a reply that cut the stream short.      *)

\* ReadLine can return: its NUL, the end of the connection or one byte too
\* many has arrived.
ReplyReadable ==
  reply.nul \/ srv = "closed" \/ Len(reply.line) > MaxLineResponse

VerdictRead ==
  /\ pc = "reply" /\ armed /\ ReplyReadable
  /\ LET r == ReadLine(reply.line, reply.nul, MaxLineResponse)
     IN  IF r.err = "nil"
           THEN Finish(ResultFromLine(r.line, r.terminated)) /\ rerr' = rerr
           ELSE pc' = "wrapRead" /\ rerr' = r.err /\ res' = res
  /\ armed' = FALSE
  /\ UNCHANGED <<ctxVars, sourceVars, streamVars, daemonVars, aborted>>

\* recoverStreamError after a write failure: the context first, then a reply
\* that may be waiting.
Recover ==
  /\ pc = "recover"
  /\ IF ctxError # "nil" THEN Finish(Failure({ctxError}))
                         ELSE pc' = "salvage" /\ res' = res
  /\ UNCHANGED <<armed, ctxVars, sourceVars, streamVars, daemonVars, rerr,
                 aborted>>

\* The salvaged reply treated like the verdict of a finished stream.
SalvageReadAsVerdict ==
  /\ pc = "salvage" /\ armed /\ ReplyReadable
  /\ LET r == ReadLine(reply.line, reply.nul, MaxLineResponse)
     IN  IF r.err = "nil"
           THEN Finish(ResultFromLine(r.line, r.terminated))
           ELSE pc' = "wrapWrite" /\ res' = res
  /\ armed' = FALSE
  /\ UNCHANGED <<ctxVars, sourceVars, streamVars, daemonVars, rerr, aborted>>

SalvageRead ==
  /\ pc = "salvage" /\ armed /\ ReplyReadable
  /\ LET r    == ReadLine(reply.line, reply.nul, MaxLineResponse)
         resp == ParseScanResponse(r.line)
     IN  CASE r.err = "nil" /\ resp.outcome = OutcomeError ->
                Finish(Failure(ClamdErrorFrom(resp)))
           [] r.err = "nil" /\ resp.outcome = OutcomeInfected ->
                Finish(Verdict("infected"))
           [] r.err = "nil" /\ resp.outcome = OutcomeClean ->
                Finish(Failure({"ProtocolError"}))
           [] OTHER -> pc' = "wrapWrite" /\ res' = res
  /\ armed' = FALSE
  /\ UNCHANGED <<ctxVars, sourceVars, streamVars, daemonVars, rerr, aborted>>

WrapWrite ==
  /\ pc = "wrapWrite"
  /\ Finish(Failure(WrapWriteErr(ctxError)))
  /\ UNCHANGED <<armed, ctxVars, sourceVars, streamVars, daemonVars, rerr,
                 aborted>>

WrapRead ==
  /\ pc = "wrapRead"
  /\ Finish(Failure(WrapReadErr(ctxError, rerr)))
  /\ UNCHANGED <<armed, ctxVars, sourceVars, streamVars, daemonVars, rerr,
                 aborted>>

\* The deferred conn.Close; what is in flight still reaches the daemon.
Close ==
  /\ pc = "close"
  /\ pc' = "done"
  /\ UNCHANGED <<armed, ctxVars, sourceVars, streamVars, daemonVars, rerr, res,
                 aborted>>

-----------------------------------------------------------------------------
(* The daemon, as internal/clamdtest emulates it, with the misbehaviour    *)
(* the client is meant to survive: it may answer early, answer with        *)
(* anything, cut a reply short, go away at any time.                       *)

daemonOnly == <<pc, armed, ctxVars, sourceVars, streamVars, rerr, res, aborted>>

\* The daemon sends text and its NUL, or only part of it.
Send(text) ==
  /\ meant' = text /\ srv' = "replied"
  /\ reply' \in {[line |-> SubSeq(text, 1, n), nul |-> FALSE] : n \in 0 .. Len(text)}
                \cup {[line |-> text, nul |-> TRUE]}

DaemonReads ==
  /\ srv = "reading" /\ body < sent
  /\ \E n \in 1 .. (sent - body) :
       /\ body' = body + n
       /\ IF StreamMaxLength > 0 /\ body + n > StreamMaxLength
            THEN Send(SizeLimitReply)
            ELSE UNCHANGED <<srv, reply, meant>>
  /\ UNCHANGED <<judged, daemonOnly>>

DaemonSeesEnd ==
  /\ srv = "reading" /\ term /\ body = sent
  /\ srv' = "judging" /\ judged' = TRUE
  /\ UNCHANGED <<body, reply, meant, daemonOnly>>

DaemonReplies ==
  /\ srv = "judging"
  /\ \E text \in FinalReplies : Send(text)
  /\ UNCHANGED <<body, judged, daemonOnly>>

DaemonRepliesEarly ==
  /\ srv = "reading"
  /\ \E text \in EarlyReplies : Send(text)
  /\ UNCHANGED <<body, judged, daemonOnly>>

\* The daemon closes the connection: after its reply, or by giving up.
DaemonCloses ==
  /\ srv \in {"reading", "judging", "replied"}
  /\ srv' = "closed"
  /\ UNCHANGED <<body, reply, meant, judged, daemonOnly>>

\* A close with unread data resets the connection and drops what the client
\* has not yet read of the reply.
ReplyLost ==
  /\ Tcp /\ srv = "closed" /\ body < sent
  /\ \E n \in 0 .. Len(reply.line) :
       reply' = [line |-> SubSeq(reply.line, 1, n), nul |-> FALSE]
  /\ UNCHANGED <<srv, body, meant, judged, daemonOnly>>

-----------------------------------------------------------------------------
Init ==
  /\ pc = "dial" /\ armed = FALSE
  /\ ctxErr = "nil" /\ due = FALSE
  /\ size \in 0 .. MaxInput /\ end \in SourceEnds
  /\ empty = 0 /\ buf = 0 /\ eof = FALSE /\ sent = 0 /\ term = FALSE
  /\ srv = "none" /\ body = 0 /\ reply = NoReply
  /\ rerr = "nil" /\ res = Pending
  /\ meant = <<>> /\ judged = FALSE /\ aborted = FALSE

\* The caller takes the result; the next call starts from scratch.
Return ==
  /\ pc = "done"
  /\ pc' = "dial" /\ armed' = FALSE
  /\ ctxErr' = "nil" /\ due' = FALSE
  /\ size' \in 0 .. MaxInput /\ end' \in SourceEnds
  /\ empty' = 0 /\ buf' = 0 /\ eof' = FALSE /\ sent' = 0 /\ term' = FALSE
  /\ srv' = "none" /\ body' = 0 /\ reply' = NoReply
  /\ rerr' = "nil" /\ res' = Pending
  /\ meant' = <<>> /\ judged' = FALSE /\ aborted' = FALSE

Context == Cancel \/ DeadlinePasses \/ TimerFires

\* The steps the calling goroutine takes by itself.
Library ==
  \/ StartIO \/ IOAborts
  \/ CommandWritten \/ ReadRefused \/ ReadStarts \/ ChunkWritten
  \/ TerminatorWritten \/ VerdictRead \/ Recover \/ SalvageRead
  \/ WrapWrite \/ WrapRead \/ Close

Dialling == Dial \/ DialFails \/ DialReturnsNil

Source == ReadData \/ ReadEnd \/ ReadEmpty \/ ReadInvalid

Daemon ==
  \/ DaemonReads \/ DaemonSeesEnd \/ DaemonReplies \/ DaemonRepliesEarly
  \/ DaemonCloses \/ ReplyLost

Next ==
  \/ Context \/ Library \/ Dialling \/ Source \/ IOTransportFails \/ Daemon
  \/ Return

Spec == Init /\ [][Next]_vars

\* The goroutine runs, dialFunc honours its context, a Read of the caller's
\* reader returns, an expired context fires its timer.  Nothing is assumed of
\* the daemon or the network, nor of ioTimeout.
Fairness ==
  WF_vars(Library) /\ WF_vars(Dialling) /\ WF_vars(Source) /\ WF_vars(TimerFires)

FairSpec == Spec /\ Fairness

-----------------------------------------------------------------------------
(* Properties.                                                             *)

\* The variables stay in their types: a frame never exceeds the chunk size, a
\* verdict never comes with an error and an error always leaves the verdict
\* unknown (the fail-closed shape of ScanResult, src/result.go).
TypeOK ==
  /\ pc \in PCs /\ armed \in BOOLEAN
  /\ ctxErr \in {"nil"} \cup ContextErrors /\ due \in BOOLEAN
  /\ size \in Nat /\ end \in SUBSET ErrorTags
  /\ empty \in 0 .. MaxConsecutiveEmptyReads - 1
  /\ buf \in 0 .. ChunkSize /\ eof \in BOOLEAN
  /\ sent \in Nat /\ term \in BOOLEAN
  /\ srv \in ServerStates /\ body \in Nat
  /\ reply \in [line : Seq(Lexemes), nul : BOOLEAN]
  /\ rerr \in {"nil", "io", "EOF", "ErrResponseTooLarge", "ErrMalformedReply"}
  /\ res \in Results \cup {Pending}
  /\ (res = Pending) <=> (pc \notin {"close", "done"})
  /\ meant \in Seq(Lexemes) /\ judged \in BOOLEAN /\ aborted \in BOOLEAN

\* A daemon that judges a stream judges the whole input of a reader that
\* ended with io.EOF: a partial payload is never mistaken for a complete one
\* (recoverStreamError's and StreamAll's comments), however the call ended.
JudgesWholeInput == judged => end = NoError /\ body = size

\* VerdictClean is returned only when the whole input was sent and terminated
\* and the daemon's full reply was an OK line; the daemon has then judged the
\* whole input, or it answered before it could have seen the end
\* (scanStream, resultFromLine, ADR-0007).
CleanMeansScanned ==
  res.verdict = "clean" =>
    /\ term /\ end = NoError /\ sent = size
    /\ SaysClean(meant)
    /\ judged => body = size
    /\ judged \/ meant \in EarlyReplies

\* What a call means to its caller, in the terms of FailClosed.
Answers       == FinalReplies \cup EarlyReplies \cup {SizeLimitReply}
Interruptions == EarlyReplies \cup {SizeLimitReply}

FC == INSTANCE FailClosed WITH
        CleanAnswers <- {text \in Answers : SaysClean(text)},
        FoundAnswers <- {text \in Answers : Contains(text, "FOUND")},
        Silent       <- <<>>,
        complete     <- end = NoError,
        finished     <- term,
        said         <- meant,
        verdict      <- IF res = Pending THEN "none" ELSE res.verdict

\* However dial, stream, salvage, context, reader and daemon interleave, a call
\* keeps the fail-closed promise: no more than the limit is handed over, and the
\* terminator only behind the whole of an input that ended with io.EOF; the
\* daemon judges whole inputs only; the one result a call returns is clean only
\* if the stream was finished and the daemon said OK, infected only if it said
\* FOUND (scanStream, recoverStreamError: "OK" for a stream we never finished
\* sending is inconsistent; ADR-0001).
ImplementsFailClosed == FC!Spec

\* A call that took more than the limit out of its reader reports exactly
\* that, even if the reader failed or the context ended in the same fill
\* (StreamAll: "The size limit is checked first").
OversizeReported ==
  pc = "done" /\ MaxStreamSize # NoSizeLimit /\ sent + buf > MaxStreamSize =>
    res = Failure({"ErrSizeLimitExceeded"})

\* An operation that the context ended is blamed on the context alone, also
\* when the connection's deadline fires before the context's timer (ctxError,
\* wrapWriteErr, wrapReadErr, recoverStreamError).
ContextBlamed ==
  pc = "done" /\ aborted => \E err \in ContextErrors : res = Failure({err})

\* The README's error table and the changelog: an input error is never
\* retryable.
InputErrorsNotRetryable == "InputError" \in res.err => ~IsRetryable(res.err)

\* A cancelled call returns, whatever daemon and network do or fail to do,
\* once a Read in progress has returned (Scan's comment).
CancelledReturns == (ctxErr # "nil") ~> (pc = "done")

\* If a stalled operation fails in the end, which is what ioTimeout is for,
\* then every call returns, also with a reader that makes no progress (fill's
\* comment).
EveryCallReturns == WF_vars(IOTransportFails) => []<>(pc = "done")

=============================================================================
