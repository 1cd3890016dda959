---------------------------- MODULE AdminCommand ----------------------------
(***************************************************************************)
(* Ping, Version, Stats and Reload (src/commands.go): one command, one     *)
(* reply.  The reply is read as the code reads it: ReadLine and ReadBlock  *)
(* take byte after byte out of a bufio.Reader, which refills itself with   *)
(* one Read of the connection, whose deadline is refreshed for that Read.  *)
(* The daemon sends its reply in pieces of any size at any pace, and may   *)
(* stop or close after any of them.                                        *)
(*                                                                         *)
(* Replies are sequences of the lexemes of Replies, the two fixed replies  *)
(* and NUL; lengths count lexemes.  Time passes while a Read waits.        *)
(***************************************************************************)
EXTENDS Outcomes, Integers

CONSTANTS
  MaxLineResponse, MaxBlockResponse,  \* content bounds of the two readers
  IOTimeout,                          \* cfg.ioTimeout
  MaxContext,                         \* bound on a context deadline's distance
  DialErrors,                         \* sentinels in the chain of a dial failure
  Scripts                             \* what the daemon may have to send

Commands == {"PING", "VERSION", "STATS", "RELOAD"}
Symbols  == Lexemes \cup {"PONG", "RELOADING", "NUL"}
None     == -1    \* a context without a deadline

ASSUME AdminAssumption ==
  /\ MaxLineResponse \in Nat /\ MaxBlockResponse \in Nat
  /\ IOTimeout \in Nat \ {0} /\ MaxContext \in Nat
  /\ DialErrors \subseteq SUBSET ErrorTags
  /\ Scripts \subseteq Seq(Symbols)

VARIABLES
  pc,       \* where the calling goroutine is
  cmd,      \* the command
  ctxErr,   \* ctx.Err()
  ctxLeft,  \* time left until the context's deadline
  script,   \* all the daemon would send
  arrived,  \* how much of it has arrived
  closed,   \* the daemon has closed the connection
  got,      \* how much of it has been read off the connection
  line,     \* buf of ReadLine and ReadBlock
  left,     \* time left until the connection's deadline
  out,      \* what the reader returned
  res,      \* what the call returns
  cause,    \* history: what ended the call early
  idle,     \* history: time since the last Read that delivered
  elapsed   \* history: time spent waiting for the reply

ctxVars    == <<ctxErr, ctxLeft>>
daemonVars == <<script, arrived, closed>>
clocks     == <<idle, elapsed>>
vars == <<pc, cmd, ctxVars, daemonVars, got, line, left, out, res, cause, clocks>>

NoOutput == [err |-> "nil", line |-> <<>>]

\* The two shapes of a return value.
Value(v)   == [value |-> v, err |-> NoError]
Error(err) == [value |-> <<>>, err |-> err]

ContextOver == ctxErr # "nil" \/ ctxLeft = 0
ctxError    == IF ctxErr = "nil" /\ ctxLeft = 0 THEN "DeadlineExceeded" ELSE ctxErr
Refusal     == IF ContextOver THEN "context" ELSE "peer"

-----------------------------------------------------------------------------
(* dial and the command.                                                   *)

Answer(a) == res' = a /\ pc' = "done"
Fails(err) == Answer(Error(err))

Dial ==
  /\ pc = "dial"
  /\ pc' = "write"
  /\ UNCHANGED <<cmd, ctxVars, daemonVars, got, line, left, out, res, cause, clocks>>

DialFails ==
  /\ pc = "dial"
  /\ \E err \in DialErrors :
       Fails(IF ctxError # "nil" THEN {ctxError} ELSE {"ConnectionError"} \cup err)
  /\ cause' = Refusal
  /\ UNCHANGED <<cmd, ctxVars, daemonVars, got, line, left, out, clocks>>

\* A DialFunc that returns neither a connection nor an error.
DialReturnsNil ==
  /\ pc = "dial"
  /\ Fails({"ConnectionError"})
  /\ UNCHANGED <<cmd, ctxVars, daemonVars, got, line, left, out, cause, clocks>>

CommandWritten ==
  /\ pc = "write" /\ ~ContextOver
  /\ pc' = "read"
  /\ UNCHANGED <<cmd, ctxVars, daemonVars, got, line, left, out, res, cause, clocks>>

WriteFails ==
  /\ pc = "write"
  /\ pc' = "wrapWrite" /\ cause' = Refusal
  /\ UNCHANGED <<cmd, ctxVars, daemonVars, got, line, left, out, res, clocks>>

WrapWrite ==
  /\ pc = "wrapWrite"
  /\ Fails(WrapWriteErr(ctxError))
  /\ UNCHANGED <<cmd, ctxVars, daemonVars, got, line, left, out, cause, clocks>>

-----------------------------------------------------------------------------
(* ReadLine and ReadBlock over bufio.Reader and deadlineConn.              *)

Block == cmd = "STATS"

Limit == IF Block THEN MaxBlockResponse ELSE MaxLineResponse

Returns(o) == out' = o /\ pc' = "returned"
ReadFails(err, why) == Returns([err |-> err, line |-> <<>>]) /\ cause' = why

\* The content is complete: ReadLine trims and checks it, ReadBlock does not.
Content == IF Block THEN [err |-> "nil", line |-> line] ELSE FinishLine(line)

\* Whatever the daemon sends is kept.
TakeByteUnbounded ==
  /\ pc = "read" /\ Len(line) < got
  /\ IF script[Len(line) + 1] = "NUL"
       THEN Returns(Content) /\ line' = line
       ELSE line' = Append(line, script[Len(line) + 1]) /\ UNCHANGED <<out, pc>>
  /\ UNCHANGED <<cmd, ctxVars, daemonVars, got, left, res, cause, clocks>>

\* A full buffer ends the reply as a NUL does.
TakeByteTruncating ==
  /\ pc = "read" /\ Len(line) < got
  /\ IF script[Len(line) + 1] = "NUL" \/ Len(line) >= Limit
       THEN Returns(Content) /\ line' = line
       ELSE line' = Append(line, script[Len(line) + 1]) /\ UNCHANGED <<out, pc>>
  /\ UNCHANGED <<cmd, ctxVars, daemonVars, got, left, res, cause, clocks>>

\* br.ReadByte with something in the buffer.
TakeByte ==
  /\ pc = "read" /\ Len(line) < got
  /\ LET b == script[Len(line) + 1]
     IN  CASE b = "NUL" -> Returns(Content) /\ line' = line
           [] b # "NUL" /\ Len(line) >= Limit ->
                Returns([err |-> "ErrResponseTooLarge", line |-> <<>>]) /\ line' = line
           [] OTHER -> line' = Append(line, b) /\ UNCHANGED <<out, pc>>
  /\ UNCHANGED <<cmd, ctxVars, daemonVars, got, left, res, cause, clocks>>

Earlier == IF ctxLeft # None /\ ctxLeft < IOTimeout THEN ctxLeft ELSE IOTimeout

\* One deadline for the whole reply.
RefillOnce ==
  /\ pc = "read" /\ Len(line) = got
  /\ IF ContextOver THEN ReadFails("io", "context") /\ left' = left
                    ELSE /\ pc' = "wait" /\ left' = (IF got = 0 THEN Earlier ELSE left)
                         /\ UNCHANGED <<out, cause>>
  /\ UNCHANGED <<cmd, ctxVars, daemonVars, got, line, res, clocks>>

\* br.ReadByte with nothing in the buffer: refresh, then Read.
Refill ==
  /\ pc = "read" /\ Len(line) = got
  /\ IF ContextOver THEN ReadFails("io", "context") /\ left' = left
                    ELSE pc' = "wait" /\ left' = Earlier /\ UNCHANGED <<out, cause>>
  /\ UNCHANGED <<cmd, ctxVars, daemonVars, got, line, res, clocks>>

ReadDelivers ==
  /\ pc = "wait"
  /\ got' \in got + 1 .. arrived
  /\ pc' = "read" /\ idle' = 0
  /\ UNCHANGED <<cmd, ctxVars, daemonVars, line, left, out, res, cause, elapsed>>

ReadSeesEOF ==
  /\ pc = "wait" /\ closed /\ got = arrived
  /\ Returns(IF line # <<>> THEN Content ELSE [err |-> "EOF", line |-> <<>>])
  /\ UNCHANGED <<cmd, ctxVars, daemonVars, got, line, left, res, cause, clocks>>

\* The end of the context alone.
ReadTimesOutByContext ==
  /\ pc = "wait" /\ ctxErr # "nil"
  /\ ReadFails("io", "context")
  /\ UNCHANGED <<cmd, ctxVars, daemonVars, got, line, left, res, clocks>>

\* The deadline of the connection, or the abort of the AfterFunc watcher.
ReadTimesOut ==
  /\ pc = "wait" /\ (left = 0 \/ ctxErr # "nil")
  /\ ReadFails("io", IF ContextOver THEN "context" ELSE "timeout")
  /\ UNCHANGED <<cmd, ctxVars, daemonVars, got, line, left, res, clocks>>

ReadBreaks ==
  /\ pc = "wait"
  /\ ReadFails("io", "peer")
  /\ UNCHANGED <<cmd, ctxVars, daemonVars, got, line, left, res, clocks>>

-----------------------------------------------------------------------------
(* What the four commands make of the reply.                               *)

\* A reply is compared as far as the expected one goes.
ExpectPrefix(reply, want) ==
  LET resp == ParseScanResponse(reply)
  IN  CASE IsPrefix(want, reply) -> Value(<<>>)
        [] ~IsPrefix(want, reply) /\ resp.outcome = OutcomeError ->
             Error(ClamdErrorFrom(resp))
        [] OTHER -> Error({"ProtocolError"})

ExpectReply(reply, want) ==
  LET resp == ParseScanResponse(reply)
  IN  CASE reply = want -> Value(<<>>)
        [] reply # want /\ resp.outcome = OutcomeError -> Error(ClamdErrorFrom(resp))
        [] OTHER -> Error({"ProtocolError"})

\* Version and Stats: any text but an ERROR or nothing.
ReportFrom(reply) ==
  LET resp == ParseScanResponse(reply)
  IN  CASE resp.outcome = OutcomeError -> Error(ClamdErrorFrom(resp))
        [] resp.outcome # OutcomeError /\ reply = <<>> -> Error({"ProtocolError"})
        [] OTHER -> Value(reply)

\* wrapReadErr looks at the context first.
Interpret ==
  /\ pc = "returned"
  /\ IF out.err # "nil" THEN Fails(WrapReadErr(ctxError, out.err))
     ELSE Answer(CASE cmd = "PING"   -> ExpectReply(out.line, <<"PONG">>)
                   [] cmd = "RELOAD" -> ExpectReply(out.line, <<"RELOADING">>)
                   [] OTHER          -> ReportFrom(out.line))
  /\ UNCHANGED <<cmd, ctxVars, daemonVars, got, line, left, out, cause, clocks>>

-----------------------------------------------------------------------------
(* The daemon, the context and the clock.                                  *)

goroutineVars == <<pc, cmd, got, line, out, res, cause>>

DaemonSends ==
  /\ pc \in {"read", "wait"} /\ ~closed /\ arrived < Len(script)
  /\ arrived' \in arrived + 1 .. Len(script)
  /\ UNCHANGED <<goroutineVars, ctxVars, script, closed, left, clocks>>

DaemonCloses ==
  /\ pc \in {"read", "wait"} /\ ~closed
  /\ closed' = TRUE
  /\ UNCHANGED <<goroutineVars, ctxVars, script, arrived, left, clocks>>

Cancel ==
  /\ pc # "done" /\ ctxErr = "nil"
  /\ ctxErr' = "Canceled"
  /\ UNCHANGED <<goroutineVars, ctxLeft, daemonVars, left, clocks>>

TimerFires ==
  /\ ctxErr = "nil" /\ ctxLeft = 0
  /\ ctxErr' = "DeadlineExceeded"
  /\ UNCHANGED <<goroutineVars, ctxLeft, daemonVars, left, clocks>>

\* A deadline that has come is acted on before time passes.
Tick ==
  /\ pc = "wait" /\ left > 0
  /\ left' = left - 1
  /\ ctxLeft' = (IF ctxLeft = None THEN None ELSE ctxLeft - 1)
  /\ idle' = idle + 1 /\ elapsed' = elapsed + 1
  /\ UNCHANGED <<goroutineVars, ctxErr, daemonVars>>

Terminated == pc = "done" /\ UNCHANGED vars

-----------------------------------------------------------------------------
Init ==
  /\ pc = "dial" /\ cmd \in Commands
  /\ ctxErr = "nil" /\ ctxLeft \in {None} \cup (0 .. MaxContext)
  /\ script \in Scripts /\ arrived = 0 /\ closed = FALSE
  /\ got = 0 /\ line = <<>> /\ left = 0
  /\ out = NoOutput /\ res = Error(NoError)
  /\ cause = "none" /\ idle = 0 /\ elapsed = 0

\* net.Dialer and a write of a few bytes return by themselves.
Goroutine ==
  \/ Dial \/ DialFails \/ DialReturnsNil \/ CommandWritten \/ WriteFails
  \/ WrapWrite \/ TakeByte \/ Refill \/ ReadDelivers \/ ReadSeesEOF
  \/ ReadTimesOut \/ Interpret

Daemon == DaemonSends \/ DaemonCloses \/ ReadBreaks

Next == Goroutine \/ Daemon \/ Cancel \/ TimerFires \/ Tick \/ Terminated

Spec == Init /\ [][Next]_vars

\* The goroutine runs and the clock moves; nothing is expected of the daemon.
FairSpec == Spec /\ WF_vars(Goroutine) /\ WF_vars(Tick)

-----------------------------------------------------------------------------
(* Properties.                                                             *)

\* What the daemon sent, as one reply: up to its first NUL, or all of it.
Nul     == SelectInSeq(script, LAMBDA x : x = "NUL")
Ended   == Nul \in 1 .. arrived
Sent    == SubSeq(script, 1, IF Ended THEN Nul - 1 ELSE arrived)

\* The variables stay in their types; the reader never holds more content
\* than its bound (MaxLineResponse: "cannot make us buffer more").
TypeOK ==
  /\ pc \in {"dial", "write", "wrapWrite", "read", "wait", "returned", "done"}
  /\ cmd \in Commands
  /\ ctxErr \in {"nil"} \cup ContextErrors /\ ctxLeft \in {None} \cup (0 .. MaxContext)
  /\ script \in Seq(Symbols) /\ arrived \in 0 .. Len(script) /\ closed \in BOOLEAN
  /\ got \in 0 .. arrived
  /\ line \in Seq(Symbols \ {"NUL"}) /\ Len(line) <= Limit
  /\ left \in 0 .. IOTimeout
  /\ out.err \in {"nil", "io", "EOF", "ErrResponseTooLarge", "ErrMalformedReply"}
  /\ cause \in {"none", "context", "timeout", "peer"}
  /\ idle \in Nat /\ elapsed \in Nat

\* However a reply is cut into pieces, the loops over bufio.Reader return
\* what ReadLine and ReadBlock of Replies say of it as a whole: bytes are
\* neither lost at a refill nor taken from behind the NUL.
ReadsOneReply ==
  pc = "returned" /\ out.err # "io" =>
    LET whole == IF Block THEN ReadBlock(Sent, Ended, MaxBlockResponse)
                          ELSE ReadLine(Sent, Ended, MaxLineResponse)
    IN  out.err = whole.err /\ out.line = whole.line

\* A command succeeds only on a reply that is over and within its bound, that
\* is no ERROR, and that is the fixed reply to the letter where there is one
\* (expectReply; command: "expectReply still demands an exact match").
SuccessIsEarned ==
  pc = "done" /\ res.err = NoError =>
    /\ Ended \/ closed
    /\ Len(Sent) \in 1 .. Limit
    /\ TrimRight(Sent, Blanks) # <<"ERROR">>
    /\ ~IsSuffix(<<"SP", "ERROR">>, TrimRight(Sent, Blanks))
    /\ cmd = "PING"    => TrimRight(Sent, LineEnds) = <<"PONG">>
    /\ cmd = "RELOAD"  => TrimRight(Sent, LineEnds) = <<"RELOADING">>
    /\ cmd = "VERSION" => res.value = TrimRight(Sent, LineEnds)
    /\ cmd = "STATS"   => res.value = Sent

\* A daemon that drips its reply stretches the call, but the read limit
\* bounds how often it can: one ioTimeout per byte and one more.
DripBounded == elapsed <= IOTimeout * (Limit + 1)

\* A failure names what happened: the context's end is the context's, and a
\* timeout is a transport failure only if nothing arrived for all of
\* ioTimeout, so that a slow reply is not taken for a stalled one (WithIOTimeout).
FailureIsBlamedRight ==
  pc = "done" =>
    /\ cause = "context" => \E err \in ContextErrors : res.err = {err}
    /\ cause = "timeout" /\ "ConnectionError" \in res.err => idle = IOTimeout

\* Every command returns, though the daemon may do nothing at all, or drip.
EveryCommandReturns == <>(pc = "done")

=============================================================================
