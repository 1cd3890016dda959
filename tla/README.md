# go-clamav in TLA+

go-clamav is a client library for `clamd`. A program hands it a reader, a byte
slice or a path; the library streams the content to the daemon over a fresh
connection and returns `VerdictClean`, `VerdictInfected` or an error. Its one
promise is to be *fail-closed*: whatever goes wrong, nothing that was not
scanned comes back as clean. The modules here model how it keeps that promise
against a slow or failing reader, a daemon that answers early, wrongly, in part
or not at all, a network that breaks, contexts that end at any moment, and many
goroutines that scan at once.

## The system

| Part | State | Operations | What makes it correct |
| --- | --- | --- | --- |
| `Scan`, `ScanBytes`, `ScanFile` (`client.go`, `scanfile_unix.go`) | the channel `sem` shared by all goroutines; per call a slot, a descriptor, a connection | check the target, acquire a slot, open, fstat, scan, deferred closes and release | slots are neither lost nor given twice; what a call holds is bounded by the slots and always given back; what is streamed is what was checked; a cancelled call leaves the queue |
| `scanStream`, `recoverStreamError` (`client.go`) | the connection, the position in the protocol | command, stream, read the verdict, salvage an early reply, close | a clean verdict only for a complete stream and a complete OK reply; the error names the real cause |
| `StreamAll`, `fill` (`internal/proto/proto.go`) | buffer, total, empty-read count | read, check the limit, write a frame, terminate | no partial payload is ever terminated; the limit holds; a reader without progress does not hang the call |
| `ReadLine`, `ReadBlock`, `ParseScanResponse` (`internal/proto/response.go`) | the `bufio.Reader` of a call | read up to a NUL, classify | only an allowlisted, terminated line is clean; a reply in pieces is read as one |
| `deadlineConn`, the `AfterFunc` watcher, `ctxError` (`conn.go`, `client.go`) | the connection deadline, set by two goroutines | refresh before every operation; abort on cancellation | an abort is never overwritten for good; timeouts are blamed on the context exactly when it caused them |
| `dial` (`conn.go`) | none | one connection per call | context errors take priority, a nil connection is an error |
| errors and results (`errors.go`, `result.go`) | none | `IsRetryable`, wrapping | one error shape for each cause |
| `Ping`, `Version`, `Stats`, `Reload` (`commands.go`) | the connection of a call | one command, one reply | fixed replies are matched exactly; a peer that drips cannot hold a call for ever; failures are blamed right |
| `New`, options, `ParseAddress` (`options.go`, `address.go`, `client.go`) | the configuration | parse the address, apply options in order, validate | exactly the usable configurations reach a call |
| the daemon, as its clients see it | payload taken in, reply | read frames, enforce its own limit, answer, close | (the environment) |
| the fake daemon of the tests (`internal/clamdtest/fake.go`) | listener, `done`, `WaitGroup`, `closeOnce`, a handler under a mutex | accept, one goroutine per connection, hang, delay, drip, `Close` | `Close` returns to all callers and leaves nothing running; frames are decoded as they were meant |
| the upload example (`examples/httpupload`) | a client shared by all requests | read the body, scan, answer | nothing is accepted that was not scanned clean; nobody waits for another client's body |
| other examples, samples, scripts | none | straight-line programs and test data | (not modelled) |

The parts meet in a call: a goroutine passes through the slot pool, opens its
file, dials, and then shares the connection with two other parties, the daemon
at its far end and the cancel watcher, which may set the deadline at any time.
The hard part is concurrency (goroutines on the channel; the watcher against
`refresh`; the context's timer against the connection's deadline), partial
failure (each step of a call may fail with resources in hand, the reply may be
cut anywhere), and time (what ends a call that nobody cancels).
`PROJECT.json` lists these hazards at their lines with the properties that
would catch them.

## Modules

* **`Replies`** – replies as sequences of lexemes (`OK`, `FOUND`, `ERROR`, a
  blank, a line end, other text, ...), with `ReadLine`, `ReadBlock`,
  `finishLine` and `ParseScanResponse` on them. `SaysClean` is the reference definition of a
  clean reply that the theorems and `CleanMeansScanned` use: an allowlisted
  line, followed by nothing but blanks and line ends.
* **`Outcomes`** – errors as the set of sentinels and types that `errors.Is` and
  `errors.As` find in them, so that wrapping is set union; `resultFromLine`,
  `clamdErrorFrom`, `wrapWriteErr`, `wrapReadErr`, `IsRetryable`.
* **`ScanStream`** – one call of `scanStream`, with the daemon, the reader and
  the context as processes of their own. Each I/O operation of the goroutine is
  a program counter value; `armed` says that `refresh` has let it start. An
  operation succeeds, is aborted by the context (`IOAborts`), or fails by
  itself (`IOTransportFails`: reset, close or `ioTimeout`). Payload is a count
  of bytes: `size` is what the reader would deliver, `buf` what `fill` has
  buffered, `sent` what was framed, `body` what the daemon took in. The daemon
  may answer before the end, with any of the given replies, in whole or in
  part; over TCP a close with unread data may drop the reply. After a call has
  returned the next one starts (`Return`), with a new input and context.
* **`FailClosed`** – what a scan promises, as a specification: an input is
  handed over, and its end only behind its last byte and only if it is proper;
  the daemon takes in what was handed over, judges only what it has whole and
  with its end, and says something; the caller gets clean only if the input was
  handed over with its end and the daemon said OK. The daemon may speak before
  it has the end. An `OK` of that kind counts for nothing as long as the stream
  is unfinished, which is what `recoverStreamError` refuses; an early `OK` that
  the client reads only after it has written the terminator looks like any
  other, to the code and to this specification.
  `ScanStream` implements it (`ImplementsFailClosed`): `finished` is `term`, the
  terminator, `said` is what the daemon means to answer, `verdict` appears with
  the result of the call, and reads, deadlines and the context's end are
  stuttering steps.
* **`Framing`** – the same stream as bytes: `StreamAll`'s frames with a length
  prefix of four digits that wraps, the clamping of the chunk size, writes that
  break after any number of bytes, and `readChunks` of the fake daemon decoding
  what arrives. `ScanStream` counts bytes; this module justifies counting them.
* **`DeadlineConn`** – the five steps of `refresh`, each an access to shared
  state, against the watcher, the context's timer and a clock. Instants are
  kept as the time left until them, so that `Tick` keeps the model finite.
  `Salvage` is the read of `recoverStreamError` with its shorter timeout.
* **`ScanSlots`** – any number of goroutines in `Scan`, `ScanBytes` and
  `ScanFile`. The channel is that of the Go runtime: a count and a FIFO of
  blocked senders, where a receive completes the first blocked send in the same
  step. `select` may take either ready case. A path may be swapped until the
  file is open. What happens on the wire is one interval here; `ScanStream`
  says how it ends.
* **`SlotPool`** – what `WithMaxConcurrentScans` promises, as a specification:
  bounded holders, and waiting for those that find no slot. That the queue is
  served first come, first served is the Go runtime's doing, not a promise of
  the option. `ScanSlots` implements it with
  `holders <- Holders, waiting <- sendq` (`ImplementsPool`).
* **`AdminCommand`** – one of `Ping`, `Version`, `Stats`, `Reload`. The reply
  comes in pieces; `TakeByte` is one turn of the loop of `ReadLine` or
  `ReadBlock` on what `bufio.Reader` holds, `Refill` its `Read` of the
  connection, with a deadline of its own. `ReadsOneReply` says that the loops
  compute the functions of `Replies`, for any cutting into pieces. `idle` and
  `elapsed` are clocks that only the properties read.
* **`Config`** – `New`: `parseAddress`, the options in order, `validate`. Its
  `Usable` is the conjunction of what the other modules assume of a client's
  configuration.
* **`FakeClamd`** – the goroutines of the fake daemon: `serve` between `Accept`
  and `wg.Go`, `handleConn` at each point where it can wait, callers of `Close`
  at each step of the function inside `closeOnce.Do`.
* **`Upload`** – the handler of `examples/httpupload`, many requests on one
  client, over the abstract parts: slots are the actions of `SlotPool`, and
  what `Scan` may return is what `FailClosed` allows for the body.
* **`MC...`** – the values for TLC. `DeadlineConn` is checked as it is.
* **`RepliesProofs`, `DeadlineConnProofs`, `ScanStreamProofs`, `SlotProofs`,
  `FramingProofs`, `FakeClamdProofs`, `ConfigProofs`, `AdminCommandProofs`** –
  theorems. `SlotProofs` is about both modules that share slots, `ScanSlots` and
  `Upload`; their names are kept apart so that it can extend both.

Definitions that no property or action uses in the specification itself
(`...Unchecked`, `...Missing`, `...Leaks` and the like) are wrong versions of
the definition that follows them. `PROJECT.json` pairs each with the property
that must fail when it takes the place of the right one.

## Runs

| Run | Bounds | Shows |
| --- | --- | --- |
| `stream_safety` | inputs of 0..5 bytes, frames of 2, client limit 4, daemon limit 3, socket buffer 3, two empty reads, five final and two early replies, TCP | no partial payload judged, no wrong clean verdict, the blame; refinement of `FailClosed` |
| `stream_progress` | inputs of 0..3 bytes, no limits, socket buffer of one frame | a cancelled call returns; every call returns if stalls time out |
| `stream_retryable` | as `stream_safety` | *violated*, see Findings |
| `slots_safety` | four goroutines, two slots, symmetry | accounting of slots, queue, descriptors, connections; refinement of `SlotPool` |
| `slots_progress` | three goroutines, one slot, paths that become FIFOs | cancelled calls return although nobody else does; no starvation |
| `slots_unlimited` | two goroutines, nil channel | neither acquire nor release blocks |
| `conn_deadlines` | `ioTimeout` 3, salvage 2, context deadline 0..5 ahead or none | the race of `refresh` and watcher, the blame for timeouts, promptness |
| `admin_commands` | all four commands, line limit 3 and block limit 4 lexemes, `ioTimeout` 2, context deadline 0..5 ahead or none, eleven replies cut in every way | replies in pieces are read as one; success is earned; a drip is bounded; the blame; every command returns |
| `framing` | bytes with two values, a prefix of four of them, chunks of at most 3, inputs of up to 5 bytes and of 16 and 17 equal ones, chunk sizes -1..17, client limit 3 or none, early reply and daemon limit on and off | the daemon decodes what the reader delivered and sees an end exactly where one was written |
| `fake_shutdown` | two connections, two callers of `Close`, four responses that hang, delay and drip, write, or say nothing | a closed fake ends every handler that sleeps, without its timer; `Close` returns to both and leaves nothing running |
| `config` | every address shape, every sequence of up to three options with values on both sides of each bound | `New` accepts exactly the usable configurations |
| `uploads` | two requests, one slot, every kind of body | what is accepted was scanned clean; nobody waits for another's body |

The bounds make the boundaries happen: inputs end inside, at and past a frame,
below, at and above each limit, and the client's limit is above the daemon's so
that both speak; the socket buffer holds less than two frames so that writes
block; a reply may be as long as the read limit or longer, and `FoundOK`, a
detection whose signature begins with `OK`, reads as clean when it is cut in
the right place. Four goroutines on two slots is the least number with two
holders and a queue in which somebody can be overtaken or leave from the
middle. The context's deadline lies before and after `ioTimeout` in
`conn_deadlines`, and the salvage timeout is the shorter one, as in the code.
In `framing` a chunk of sixteen bytes, which the clamp must not let through, has
the length prefix of a terminator, and every payload byte is also a digit of a
prefix. In `admin_commands` the replies include both fixed ones, each at its
limit and past it, with text after them and with bytes behind the NUL, and the
deadline of the context falls before, on and between the deadlines of single
reads. Three options are enough for a bad value to be given and replaced with
a good one in between; two uploads on one slot for one to wait while the other
holds it.
`MaxInput` is the only bound on the environment in `ScanStream`, `MaxContext`
in `DeadlineConn` and `AdminCommand`, `MaxOptions` in `Config`; `ScanSlots`,
`FakeClamd` and `Upload` need none.

### Fairness

Safety needs none. For progress:

* `ScanStream`: the goroutine is scheduled (`Library`, with `IOAborts`: the
  deadline of a connection ends a pending operation, which `CancelIsPrompt` of
  `DeadlineConn` justifies); `dialFunc` returns, which `net.Dialer` guarantees
  under the dial timeout; a `Read` of the caller's reader returns, which the
  comment on `Scan` demands of callers; a timer that is due fires. Nothing is
  assumed of daemon or network. `EveryCallReturns` assumes in its own statement
  that an operation that is stalled for good fails, which is `StallEnds` of
  `DeadlineConn`.
* `DeadlineConn`: goroutine and watcher are scheduled; `StallEnds` assumes in
  its statement that the clock moves.
* `ScanSlots`: goroutines are scheduled, a cancelled scan does not stay on the
  wire (`CancelledReturns` of `ScanStream`); `EveryCallReturns` assumes in its
  statement that streams end.
* `AdminCommand`: the goroutine is scheduled and the clock moves. Nothing is
  assumed of the daemon: that it cannot drip for ever follows from the limit.
* `Framing`: both ends run. A write that breaks is never required.
* `FakeClamd`: goroutines run. Nothing is assumed of clients, no timer of a
  delay or a drip need fire, and `Accept` need not fail while the listener is
  open; a closed one makes it fail. `DoneWakesHandlers` therefore rests on the
  `<-f.done` of each `select` alone, and takes a handler to its end or to a
  client that never lets go of the socket. `CloseReturns` assumes in its
  statement that `connSafetyDeadline` is enforced, as the kernel does, which
  rules the second out.
* `Upload`: handlers run and scans end (`EveryCallReturns` of `ScanSlots`). No
  client need send its body and no timer need fire; the part of
  `UploadsAnswered` that rests on `ReadTimeout` says so in its statement.

### Findings

`stream_retryable` violates `InputErrorsNotRetryable`. `README.md` and
`CHANGELOG.md` of the library say that input errors are never retryable. A
reader that fails by a deadline of its own returns an error whose chain holds
`context.DeadlineExceeded`; `recoverStreamError` wraps it with `%w`, and
`IsRetryable` answers true for any such chain. The disagreement is about the
advice to the caller; no verdict is affected.

## Proofs

TLAPS checks every theorem for all values of the constants under the `ASSUME`s
of the modules: positive chunk size and empty-read limit, a positive size limit
or `NoSizeLimit`, replies that are sequences of lexemes, positive timeouts,
finite sets of goroutines and connections. These are types, and what `New`
validates: `Config` shows that it does.

* **`RepliesProofs`** – `CleanNeedsCompleteOK`: whatever bytes arrive and
  however they end, reading and classifying them yields clean only for a reply
  that arrived with its NUL and `SaysClean`. The lemmas say what trimming
  returns and that an unclean rest survives it.
* **`ScanStreamProofs`** – `TypeOK`, `JudgesWholeInput`, `CleanMeansScanned`,
  `OversizeReported` and `ContextBlamed` from one inductive
  invariant `IInv`. None is inductive by itself. `JudgesWholeInput` needs that
  the terminator is written only where `fill` has seen `io.EOF` and the buffer
  is empty (`StreamInv`), and that the daemon stops reading when it judges
  (`JudgeInv`). `CleanMeansScanned` needs in addition that a reply read up to
  its NUL is the one the daemon meant (`ReplyInv`) and that the daemon's story
  is over when a clean result exists (`CleanInv`). `OversizeReported` needs
  that everything buffered past `fill` is within the limit (`LimitInv`),
  `ContextBlamed` that a context that was over stays over until it is blamed
  (`BlameInv`). The proof has one case per action; `IOFailStep`, `FailStep`,
  `FillStep` and `SendStep` carry what several of them share.
  The refinement `ScanIsFailClosed` needs `IInv`, and `SaidInv` on top of it:
  what the daemon says is silence until it has decided, comes from the replies
  it may give, and a verdict held by the goroutine is backed by what was said.
  One lemma per group of actions shows that a step is a step of `FailClosed` or
  leaves its variables alone: a frame is a `HandOver` (`HandOverStep`, from
  `LimitInv`), the terminator is `Finish` (`FinishStep`, from `StreamInv`), and a
  clean result finds `finished` (`ReturnStep`, from `CleanMeansScanned`).
* **`DeadlineConnProofs`** – `TypeOK`, `AbortReachesIO`, `WithinContext` and
  `TimeoutIsTransport`. The strengthening says that only a context that is done
  sets the abort deadline, and that a deadline is the context's or `ioTimeout`
  ahead of the moment `refresh` read the clock.
* **`SlotProofs`** – of `ScanSlots`: `TypeOK`, `SemCountsHolders`,
  `QueueIsBlocked`, `ResourcesWithinSlots`, `OnlyRegularStreamed`,
  `DoneHoldsNothing`, and the refinement `ChannelIsPool`. `ProgressInv` ties
  what a goroutine holds to where it is; counting is done with the cardinality
  theorems, and three lemmas say what joining and leaving a queue does to it.
  Of `Upload`: `AnsweredRight`, for any number of requests, slots and errors.
  It is not inductive: `Decided` adds that a result is one that the scan of this
  body may have (`Tells`) and that there is no status before the handler is
  done. `UploadsShareSlots` says that exactly the requests in `Scan` hold a slot
  or wait for one, and that none waits while one is free. `Upload` takes the
  slots as the actions of `SlotPool`; `ChannelIsPool` is what justifies that.
* **`FramingProofs`** – `TypeInv`, `DecodesWhatWasRead` and
  `CompleteFeedsDaemon`, for bytes of every base, every input, chunk size and
  limit, and writes that break anywhere. `DecodesWhatWasRead` speaks of the
  decoder's past and says nothing of what is on the wire, so the invariant is
  about the stream that `StreamAll` sets out to write. `Pay[j]` and `At[j]` are
  where frame `j` begins in the input and in the stream, closed forms and not
  sums, so that no induction is needed. `Holds` says that the wire agrees with
  every frame it overlaps, `ClientAt` that the client has written `k` frames
  and what it has buffered is frame `k`, `DaemonAt` that the decoder stands at
  the beginning or behind the prefix of a frame `f`, with the payload before it
  in hand and no terminator behind it. A header and a payload that are read are
  then those of frame `f`; `NumberOfHeader` says that `Uint32` gives back what
  `PutUint32` was given, which is where the clamp to `MaxChunkSize` is needed:
  the assumption is that `MaxChunkSize` fits into four bytes, as 16 MiB does.
  `CompleteFeedsDaemon` is the safety part of `CompleteIsUnderstood`: behind a
  stream that `StreamAll` calls complete, every read of the daemon finds its
  bytes.
* **`AdminCommandProofs`** – `TypeOK`, `ReadsOneReply`, `SuccessIsEarned`,
  `DripBounded` and `FailureIsBlamedRight`. The invariant says that the buffer
  is the beginning of what was sent, without a NUL (`LineInv`); that a `Read`
  waits with an empty buffer, until the context's deadline or for all of
  `ioTimeout` (`WaitInv`); that each byte has bought one `ioTimeout`
  (`TimeInv`); and that whoever is blamed was at fault (`BlameInv`).
  `ReadsOneReply` rests on `ReturnInv`, the three ways a reply ends, and
  `SuccessIsEarned` on lemmas about trimming twice and about suffixes.
* **`FakeClamdProofs`** – `TypeOK`, which says that the `WaitGroup` counts the
  live goroutines, and `ClosedIsQuiet`. The invariant adds that `serve` has at
  most one connection in hand (`AcceptInv`), that a wait starts only after the
  listener is closed and its queue reset (`CloseInv`), and that a drip has a
  byte to go (`DripInv`).
* **`ConfigProofs`** – `NewDecides`. The invariant is about the options applied
  so far: what is left is the rest of the list, and each field holds what the
  last of them said.

The constants of `Upload` are as weak as the example is: any finite set of
requests, any number of slots, any errors that `Scan` may return. The one
exclusion, that `ScanErrors` leaves out `ErrSizeLimitExceeded`, says that this
error is returned for bodies above a limit only, which is `OversizeReported` of
`ScanStream` and the daemon's own limit.

Only model-checked: every liveness property (fairness is out of the prover's
reach), and the `_retryable` run. Every invariant that a run checks is also a
theorem.

## What is left out

Messages, signatures and `Raw`; the text of commands, which `readCommand` of
the fake matches, and of the fake's default replies; connections of a custom
`DialFunc` that deliver a whole frame and still report an error; readers that
panic; `scanfile_other.go`, whose plain open may block on systems without unix
FIFOs; the clock of the dial timeout, which is one of the reasons for which a
dial fails here. Counters of bytes are unbounded in the models; the code's
`int64` totals cannot overflow within a limit, and without one not in practice.

## Not modelled

* `clamd` itself is not in the repository. Every module that needs a daemon lets
  it misbehave in any way that the client is meant to survive.
* `examples/basicscan`, `examples/mockscan` and the health check of
  `examples/httpupload` are straight-line programs without state: one call of
  the library, one line of output.
* `internal/clamdtest/zipcrypto.go` and `samples.go` build the inputs of
  integration tests: an archive format, CRC tables and a stream cipher on 32-bit
  products, which exceed the integers TLC computes with and say nothing about
  the library.
* Scripts, containers and hooks.

## Plan

1. `ScanSlots` composed with the phases of `ScanStream`, so that the fairness
   assumed of the wire there is a property here. Each is checked by itself now
   and the link between them is the text under *Fairness*.
2. A theorem that ties what `Upload` lets a scan return to `FailClosed`, so that
   the one assumption the server makes of the daemon, that it judges right, is
   all that is left between `AnsweredRight` and `ScanIsFailClosed`.
