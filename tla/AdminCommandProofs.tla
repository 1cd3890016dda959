------------------------- MODULE AdminCommandProofs -------------------------
(***************************************************************************)
(* The admin commands, for all limits, timeouts and replies: what the      *)
(* loops over bufio.Reader return, how long they can be kept waiting, and  *)
(* who is blamed when they fail.                                           *)
(***************************************************************************)
EXTENDS AdminCommand, RepliesProofs

-----------------------------------------------------------------------------
(* The invariant.                                                          *)

ReadErrors == {"nil", "io", "EOF", "ErrResponseTooLarge", "ErrMalformedReply"}
Before     == {"dial", "write", "wrapWrite"}

\* The time n reads may take.
Budget(n) == IOTimeout * n

\* What is buffered is the beginning of what the daemon sent.
LineInv ==
  /\ Len(line) <= got
  /\ \A i \in 1 .. Len(line) : line[i] = script[i]
  /\ pc \in Before => got = 0 /\ elapsed = 0
  /\ pc \in Before \cup {"read"} => idle = 0

\* A Read waits with an empty buffer, for the context or for all of ioTimeout.
WaitInv ==
  pc = "wait" =>
    /\ got = Len(line)
    /\ ctxLeft # None => left <= ctxLeft
    /\ idle + left = IOTimeout \/ (ctxLeft # None /\ left = ctxLeft)

\* One ioTimeout for each byte that has come, and one for the next.
TimeInv ==
  /\ pc = "read" /\ Len(line) = got => elapsed <= Budget(Len(line))
  /\ pc = "read" => elapsed <= Budget(Len(line) + 1)
  /\ pc = "wait" => elapsed + left <= Budget(Len(line) + 1)
  /\ elapsed <= Budget(Limit + 1)

\* The context is blamed while it is over, a stall for as long as it took.
BlameInv ==
  /\ pc \in {"dial", "write", "read", "wait"} => cause = "none"
  /\ cause = "context" /\ pc # "done" =>
       ContextOver /\ (pc = "wrapWrite" \/ (pc = "returned" /\ out.err = "io"))
  /\ cause = "context" /\ pc = "done" => \E err \in ContextErrors : res.err = {err}
  /\ cause = "timeout" => idle = IOTimeout

IInv == TypeOK /\ LineInv /\ WaitInv /\ TimeInv /\ BlameInv

-----------------------------------------------------------------------------
(* Facts about the constants and the helpers.                              *)

LEMMA LimitType == Limit \in Nat /\ IOTimeout \in Nat \ {0} /\ MaxContext \in Nat
  BY AdminAssumption DEF Limit, AdminAssumption

LEMMA BudgetGrows ==
  ASSUME NEW m \in Nat, NEW n \in Nat, m <= n
  PROVE  /\ Budget(m) \in Nat /\ Budget(n) \in Nat
         /\ Budget(m) <= Budget(n) /\ Budget(n + 1) = Budget(n) + IOTimeout
  <1>1. IOTimeout \in Nat
    BY LimitType
  <1>2. PICK d \in Nat : n = m + d
    <2>1. n - m \in Nat /\ n = m + (n - m)
      OBVIOUS
    <2> QED
      BY <2>1
  <1>3. IOTimeout * (m + d) = IOTimeout * m + IOTimeout * d
    BY <1>1, <1>2
  <1>4. IOTimeout * d \in Nat /\ IOTimeout * m \in Nat /\ IOTimeout * n \in Nat
    BY <1>1, <1>2
  <1>5. IOTimeout * (n + 1) = IOTimeout * n + IOTimeout
    BY <1>1
  <1> QED
    BY <1>2, <1>3, <1>4, <1>5 DEF Budget

LEMMA BudgetType == \A n \in Nat : Budget(n) \in Nat
  BY BudgetGrows

LEMMA ContentErr == Content.err \in {"nil", "ErrMalformedReply"}
  BY DEF Content, FinishLine

LEMMA EarlierIs ==
  ASSUME ctxLeft \in {None} \cup (0 .. MaxContext)
  PROVE  /\ Earlier \in 0 .. IOTimeout
         /\ ctxLeft # None => Earlier <= ctxLeft
         /\ Earlier = IOTimeout \/ (ctxLeft # None /\ Earlier = ctxLeft)
  BY LimitType DEF Earlier, None

\* ctxError is nil exactly while the context is live.
LEMMA CtxErrorIs ==
  ASSUME ctxErr \in {"nil"} \cup ContextErrors
  PROVE  /\ ContextOver => ctxError \in ContextErrors /\ ctxError # "nil"
         /\ ctxError # "nil" => ContextOver
  BY DEF ContextOver, ctxError, ContextErrors

-----------------------------------------------------------------------------
(* The steps.                                                              *)

LEMMA InitEstablishes == Init => IInv
  <1> SUFFICES ASSUME Init PROVE IInv
    OBVIOUS
  <1>1. TypeOK
    <2>1. script \in Seq(Symbols) /\ Len(script) \in Nat
      BY AdminAssumption DEF Init, AdminAssumption
    <2>2. line \in Seq(Symbols \ {"NUL"}) /\ Len(line) = 0
      BY DEF Init
    <2>3. out.err = "nil"
      BY DEF Init, NoOutput
    <2>4. /\ pc = "dial" /\ cmd \in Commands /\ ctxErr = "nil"
          /\ ctxLeft \in {None} \cup (0 .. MaxContext)
      BY DEF Init
    <2>5. /\ arrived = 0 /\ got = 0 /\ left = 0 /\ cause = "none" /\ idle = 0 /\ elapsed = 0
      BY DEF Init
    <2>6. closed \in BOOLEAN
      BY DEF Init
    <2> QED
      BY <2>1, <2>2, <2>3, <2>4, <2>5, <2>6, LimitType DEF TypeOK
  <1>2. LineInv /\ WaitInv /\ BlameInv
    BY DEF Init, LineInv, WaitInv, BlameInv, Before
  <1>3. TimeInv
    BY LimitType, BudgetType DEF Init, TimeInv
  <1> QED
    BY <1>1, <1>2, <1>3 DEF IInv

\* Before the reply: dial and the command.
LEMMA BeforeStep ==
  ASSUME IInv,
         Dial \/ DialFails \/ DialReturnsNil \/ CommandWritten \/ WriteFails \/ WrapWrite
  PROVE  IInv'
  <1> USE DEF ctxVars, daemonVars, clocks
  <1>1. UNCHANGED <<cmd, ctxErr, ctxLeft, script, arrived, closed, got, line, left, out,
                    idle, elapsed>>
    BY DEF Dial, DialFails, DialReturnsNil, CommandWritten, WriteFails, WrapWrite
  <1>2. pc \in Before /\ pc' \in {"write", "wrapWrite", "read", "done"}
    BY DEF Dial, DialFails, DialReturnsNil, CommandWritten, WriteFails, WrapWrite, Before,
           Fails, Answer
  <1>3. cause' \in {cause, "context", "peer"}
    BY DEF Dial, DialFails, DialReturnsNil, CommandWritten, WriteFails, WrapWrite, Refusal
  <1>4. TypeOK'
    BY <1>1, <1>2, <1>3 DEF IInv, TypeOK, Limit, Block
  <1>5. LineInv' /\ WaitInv'
    BY <1>1, <1>2 DEF IInv, LineInv, WaitInv, Before
  <1>6. TimeInv'
    <2>1. elapsed = 0 /\ elapsed' = 0 /\ Len(line') \in Nat
      BY <1>1, <1>2 DEF IInv, LineInv, TypeOK
    <2>2. Limit' = Limit
      BY <1>1 DEF Limit, Block
    <2> QED
      BY <1>1, <1>2, <2>1, <2>2, LimitType, BudgetType DEF TimeInv, Before
  <1>7. BlameInv'
    <2>1. ctxErr \in {"nil"} \cup ContextErrors
      BY DEF IInv, TypeOK
    <2>2. CASE Dial \/ CommandWritten
      BY <1>1, <2>2 DEF IInv, BlameInv, Dial, CommandWritten
    <2>3. CASE DialReturnsNil
      BY <1>1, <2>3 DEF IInv, BlameInv, DialReturnsNil, Fails, Answer, Error
    <2>4. CASE DialFails
      <3>1. PICK err \in DialErrors :
              Fails(IF ctxError # "nil" THEN {ctxError} ELSE {"ConnectionError"} \cup err)
        BY <2>4 DEF DialFails
      <3>2. /\ pc' = "done" /\ cause' = Refusal
            /\ ctxError # "nil" => res'.err = {ctxError}
        BY <2>4, <3>1 DEF DialFails, Fails, Answer, Error
      <3> QED
        BY <2>1, <3>2, CtxErrorIs DEF BlameInv, Refusal
    <2>5. CASE WriteFails
      BY <1>1, <2>5 DEF BlameInv, WriteFails, Refusal, ContextOver
    <2>6. CASE WrapWrite
      <3>1. /\ pc = "wrapWrite" /\ pc' = "done" /\ cause' = cause
            /\ ctxError # "nil" => res'.err = {ctxError}
        BY <2>6 DEF WrapWrite, Fails, Answer, Error, WrapWriteErr
      <3> QED
        BY <1>1, <2>1, <3>1, CtxErrorIs DEF IInv, BlameInv
    <2> QED
      BY <2>2, <2>3, <2>4, <2>5, <2>6
  <1> QED
    BY <1>4, <1>5, <1>6, <1>7 DEF IInv

\* A byte out of the buffer.
LEMMA TakeByteStep == IInv /\ TakeByte => IInv'
  <1> SUFFICES ASSUME IInv, TakeByte PROVE IInv'
    OBVIOUS
  <1> DEFINE n == Len(line)
             b == script[n + 1]
  <1>1. /\ UNCHANGED <<cmd, ctxErr, ctxLeft, script, arrived, closed, got, left, res, cause,
                       idle, elapsed>>
        /\ pc = "read" /\ n < got
    BY DEF TakeByte, ctxVars, daemonVars, clocks
  <1>2. /\ n \in Nat /\ got \in Nat /\ arrived \in Nat /\ n + 1 \in 1 .. Len(script)
        /\ line \in Seq(Symbols \ {"NUL"}) /\ b \in Symbols /\ n <= Limit
        /\ Limit \in Nat /\ Limit' = Limit /\ elapsed \in Nat
    BY <1>1, LimitType DEF IInv, TypeOK, Limit, Block
  <1>3. CASE b = "NUL" \/ n >= Limit
    <2>1. line' = line /\ pc' = "returned" /\ out'.err \in ReadErrors
      BY <1>3, ContentErr DEF TakeByte, Returns, ReadErrors
    <2>2. TypeOK'
      BY <1>1, <1>2, <2>1 DEF IInv, TypeOK, ReadErrors
    <2>3. LineInv' /\ WaitInv' /\ BlameInv'
      BY <1>1, <2>1 DEF IInv, LineInv, WaitInv, BlameInv, Before
    <2>4. TimeInv'
      BY <1>1, <1>2, <2>1 DEF IInv, TimeInv
    <2> QED
      BY <2>2, <2>3, <2>4 DEF IInv
  <1>4. CASE b # "NUL" /\ n < Limit
    <2>1. line' = Append(line, b) /\ UNCHANGED <<out, pc>>
      BY <1>2, <1>4 DEF TakeByte
    <2>2. /\ line' \in Seq(Symbols \ {"NUL"}) /\ Len(line') = n + 1 /\ line'[n + 1] = b
          /\ \A i \in 1 .. n : line'[i] = line[i]
      BY <1>2, <1>4, <2>1
    <2>3. TypeOK'
      BY <1>1, <1>2, <1>4, <2>1, <2>2 DEF IInv, TypeOK
    <2>4. \A i \in 1 .. n + 1 : line'[i] = script'[i]
      BY <1>1, <1>2, <2>2 DEF IInv, LineInv
    <2>5. LineInv' /\ WaitInv' /\ BlameInv'
      BY <1>1, <1>2, <2>1, <2>2, <2>4 DEF IInv, LineInv, WaitInv, BlameInv, Before
    <2>6. Budget(n + 1) <= Budget(n + 2) /\ Budget(n + 1) \in Nat /\ Budget(n + 2) \in Nat
      BY <1>2, BudgetGrows
    <2>7. elapsed <= Budget(n + 1) /\ elapsed <= Budget(Limit + 1)
      BY <1>1 DEF IInv, TimeInv
    <2>8. elapsed <= Budget(n + 2) /\ (n + 1) + 1 = n + 2
      BY <1>2, <2>6, <2>7
    <2> QED
      BY <1>1, <1>2, <2>1, <2>2, <2>3, <2>5, <2>7, <2>8 DEF IInv, TimeInv
  <1> QED
    BY <1>2, <1>3, <1>4

LEMMA RefillStep == IInv /\ Refill => IInv'
  <1> SUFFICES ASSUME IInv, Refill PROVE IInv'
    OBVIOUS
  <1>1. /\ UNCHANGED <<cmd, ctxErr, ctxLeft, script, arrived, closed, got, line, res, idle,
                       elapsed>>
        /\ pc = "read" /\ Len(line) = got
    BY DEF Refill, ctxVars, daemonVars, clocks
  <1>2. /\ ctxLeft \in {None} \cup (0 .. MaxContext) /\ Len(line) \in Nat /\ Limit \in Nat
        /\ Limit' = Limit /\ elapsed \in Nat /\ Len(line) <= Limit
    BY <1>1, LimitType DEF IInv, TypeOK, Limit, Block
  <1>3. CASE ContextOver
    <2>1. pc' = "returned" /\ out'.err = "io" /\ cause' = "context" /\ left' = left
      BY <1>3 DEF Refill, ReadFails, Returns
    <2>2. TypeOK'
      BY <1>1, <1>2, <2>1 DEF IInv, TypeOK
    <2>3. LineInv' /\ WaitInv' /\ BlameInv'
      BY <1>1, <1>3, <2>1 DEF IInv, LineInv, WaitInv, BlameInv, ContextOver, Before
    <2>4. TimeInv'
      BY <1>1, <1>2, <2>1 DEF IInv, TimeInv
    <2> QED
      BY <2>2, <2>3, <2>4 DEF IInv
  <1>4. CASE ~ContextOver
    <2>1. pc' = "wait" /\ left' = Earlier /\ UNCHANGED <<out, cause>>
      BY <1>4 DEF Refill
    <2>2. /\ Earlier \in 0 .. IOTimeout
          /\ ctxLeft # None => Earlier <= ctxLeft
          /\ Earlier = IOTimeout \/ (ctxLeft # None /\ Earlier = ctxLeft)
          /\ IOTimeout \in Nat
      BY <1>2, EarlierIs, LimitType
    <2>3. TypeOK'
      BY <1>1, <1>2, <2>1, <2>2 DEF IInv, TypeOK
    <2>4. idle = 0
      BY <1>1 DEF IInv, LineInv
    <2>5. LineInv' /\ WaitInv' /\ BlameInv'
      BY <1>1, <2>1, <2>2, <2>4 DEF IInv, LineInv, WaitInv, BlameInv, Before
    <2>6. elapsed <= Budget(Len(line)) /\ elapsed <= Budget(Limit + 1)
      BY <1>1 DEF IInv, TimeInv
    <2>7. Budget(Len(line) + 1) = Budget(Len(line)) + IOTimeout /\ Budget(Len(line)) \in Nat
      BY <1>2, BudgetGrows
    <2>8. elapsed + Earlier <= Budget(Len(line) + 1)
      BY <1>2, <2>2, <2>6, <2>7
    <2> QED
      BY <1>1, <1>2, <2>1, <2>3, <2>5, <2>6, <2>8 DEF IInv, TimeInv
  <1> QED
    BY <1>3, <1>4

LEMMA DeliverStep == IInv /\ ReadDelivers => IInv'
  <1> SUFFICES ASSUME IInv, ReadDelivers PROVE IInv'
    OBVIOUS
  <1>1. /\ UNCHANGED <<cmd, ctxErr, ctxLeft, script, arrived, closed, line, left, out, res,
                       cause, elapsed>>
        /\ pc = "wait" /\ pc' = "read" /\ idle' = 0 /\ got' \in got + 1 .. arrived
    BY DEF ReadDelivers, ctxVars, daemonVars
  <1>2. /\ got \in Nat /\ arrived \in Nat /\ got' \in Nat /\ Limit' = Limit
        /\ got = Len(line) /\ elapsed \in Nat /\ left \in Nat
    BY <1>1, LimitType DEF IInv, TypeOK, WaitInv, Limit, Block
  <1>3. TypeOK'
    BY <1>1, <1>2 DEF IInv, TypeOK
  <1>4. LineInv' /\ WaitInv' /\ BlameInv'
    BY <1>1, <1>2 DEF IInv, LineInv, WaitInv, BlameInv, Before
  <1>5. Budget(Len(line) + 1) \in Nat
    <2>1. Len(line) + 1 \in Nat
      BY <1>2
    <2> QED
      BY <2>1, BudgetType
  <1>6. elapsed <= Budget(Len(line) + 1)
    BY <1>1, <1>2, <1>5 DEF IInv, TimeInv
  <1> QED
    BY <1>1, <1>2, <1>3, <1>4, <1>6 DEF IInv, TimeInv

\* A Read that ends without a byte.
LEMMA ReadEndsStep == IInv /\ (ReadSeesEOF \/ ReadTimesOut \/ ReadBreaks) => IInv'
  <1> SUFFICES ASSUME IInv, ReadSeesEOF \/ ReadTimesOut \/ ReadBreaks PROVE IInv'
    OBVIOUS
  <1>1. /\ UNCHANGED <<cmd, ctxErr, ctxLeft, script, arrived, closed, got, line, left, res,
                       idle, elapsed>>
        /\ pc = "wait" /\ pc' = "returned"
    BY DEF ReadSeesEOF, ReadTimesOut, ReadBreaks, ReadFails, Returns, ctxVars, daemonVars,
           clocks
  <1>2. out'.err \in ReadErrors /\ cause' \in {"none", "context", "timeout", "peer"}
    BY <1>1, ContentErr
    DEF ReadSeesEOF, ReadTimesOut, ReadBreaks, ReadFails, Returns, ReadErrors, IInv, BlameInv
  <1>3. Limit' = Limit
    BY <1>1 DEF Limit, Block
  <1>4. TypeOK'
    BY <1>1, <1>2, <1>3 DEF IInv, TypeOK, ReadErrors
  <1>5. LineInv' /\ WaitInv'
    BY <1>1 DEF IInv, LineInv, WaitInv, Before
  <1>6. TimeInv'
    BY <1>1, <1>3 DEF IInv, TimeInv
  <1>7. BlameInv'
    <2>1. CASE ReadSeesEOF \/ ReadBreaks
      BY <1>1, <2>1 DEF ReadSeesEOF, ReadBreaks, ReadFails, IInv, BlameInv
    <2>2. CASE ReadTimesOut
      <3>1. /\ left = 0 \/ ctxErr # "nil"
            /\ cause' = IF ContextOver THEN "context" ELSE "timeout"
        BY <2>2 DEF ReadTimesOut, ReadFails, Returns
      <3>2. out'.err = "io"
        BY <2>2 DEF ReadTimesOut, ReadFails, Returns
      <3>3. ContextOver' = ContextOver
        BY <1>1 DEF ContextOver
      <3>4. ~ContextOver => idle = IOTimeout
        <4>1. idle + left = IOTimeout \/ (ctxLeft # None /\ left = ctxLeft)
          BY <1>1 DEF IInv, WaitInv
        <4>2. idle \in Nat /\ left \in Nat /\ IOTimeout \in Nat
          BY LimitType DEF IInv, TypeOK
        <4> QED
          BY <3>1, <4>1, <4>2 DEF ContextOver
      <3> QED
        BY <1>1, <3>1, <3>2, <3>3, <3>4 DEF BlameInv
    <2> QED
      BY <2>1, <2>2
  <1> QED
    BY <1>4, <1>5, <1>6, <1>7 DEF IInv

LEMMA InterpretStep == IInv /\ Interpret => IInv'
  <1> SUFFICES ASSUME IInv, Interpret PROVE IInv'
    OBVIOUS
  <1>1. /\ UNCHANGED <<cmd, ctxErr, ctxLeft, script, arrived, closed, got, line, left, out,
                       cause, idle, elapsed>>
        /\ pc = "returned" /\ pc' = "done"
    BY DEF Interpret, Fails, Answer, ctxVars, daemonVars, clocks
  <1>2. Limit' = Limit
    BY <1>1 DEF Limit, Block
  <1>3. TypeOK' /\ LineInv' /\ WaitInv' /\ TimeInv'
    BY <1>1, <1>2 DEF IInv, TypeOK, LineInv, WaitInv, TimeInv, Before
  <1>4. BlameInv'
    <2>1. CASE cause = "context"
      <3>1. ContextOver /\ out.err = "io"
        BY <1>1, <2>1 DEF IInv, BlameInv
      <3>2. ctxError \in ContextErrors /\ ctxError # "nil"
        BY <3>1, CtxErrorIs DEF IInv, TypeOK
      <3>3. res'.err = {ctxError}
        BY <3>1, <3>2 DEF Interpret, Fails, Answer, Error, WrapReadErr
      <3> QED
        BY <1>1, <2>1, <3>2, <3>3 DEF BlameInv
    <2>2. CASE cause # "context"
      BY <1>1, <2>2 DEF IInv, BlameInv
    <2> QED
      BY <2>1, <2>2
  <1> QED
    BY <1>3, <1>4 DEF IInv

\* The daemon and the context.
LEMMA EnvironmentStep ==
  IInv /\ (DaemonSends \/ DaemonCloses \/ Cancel \/ TimerFires) => IInv'
  <1> SUFFICES ASSUME IInv, DaemonSends \/ DaemonCloses \/ Cancel \/ TimerFires PROVE IInv'
    OBVIOUS
  <1>1. UNCHANGED <<pc, cmd, ctxLeft, script, got, line, left, out, res, cause, idle, elapsed>>
    BY DEF DaemonSends, DaemonCloses, Cancel, TimerFires, goroutineVars, ctxVars, daemonVars,
           clocks
  <1>2. Limit' = Limit
    BY <1>1 DEF Limit, Block
  <1>3. /\ arrived' \in 0 .. Len(script) /\ arrived' >= arrived /\ closed' \in BOOLEAN
        /\ arrived \in Nat /\ got \in Nat
    <2>1. arrived \in 0 .. Len(script) /\ got \in 0 .. arrived /\ closed \in BOOLEAN
          /\ Len(script) \in Nat
      BY DEF IInv, TypeOK
    <2>2. arrived' = arrived \/ arrived' \in arrived + 1 .. Len(script)
      BY DEF DaemonSends, DaemonCloses, Cancel, TimerFires, daemonVars
    <2>3. closed' = closed \/ closed' = TRUE
      BY DEF DaemonSends, DaemonCloses, Cancel, TimerFires, daemonVars
    <2>4. closed' \in BOOLEAN
      BY <2>1, <2>3
    <2> QED
      BY <2>1, <2>2, <2>4
  <1>4. /\ ctxErr' \in {"nil"} \cup ContextErrors
        /\ ctxErr # "nil" => ctxErr' # "nil"
    BY DEF DaemonSends, DaemonCloses, Cancel, TimerFires, IInv, TypeOK, ctxVars, ContextErrors
  <1>5. TypeOK'
    BY <1>1, <1>2, <1>3, <1>4 DEF IInv, TypeOK
  <1>6. LineInv' /\ WaitInv' /\ TimeInv'
    BY <1>1, <1>2 DEF IInv, LineInv, WaitInv, TimeInv
  <1>7. ContextOver => ContextOver'
    BY <1>1, <1>4 DEF ContextOver
  <1>8. BlameInv'
    BY <1>1, <1>7 DEF IInv, BlameInv
  <1> QED
    BY <1>5, <1>6, <1>8 DEF IInv

LEMMA TickStep == IInv /\ Tick => IInv'
  <1> SUFFICES ASSUME IInv, Tick PROVE IInv'
    OBVIOUS
  <1>1. /\ UNCHANGED <<pc, cmd, got, line, out, res, cause, ctxErr, script, arrived, closed>>
        /\ pc = "wait" /\ left > 0 /\ left' = left - 1
        /\ ctxLeft' = (IF ctxLeft = None THEN None ELSE ctxLeft - 1)
        /\ idle' = idle + 1 /\ elapsed' = elapsed + 1
    BY DEF Tick, goroutineVars, daemonVars
  <1>2. /\ left \in Nat /\ left <= IOTimeout /\ IOTimeout \in Nat /\ MaxContext \in Nat
        /\ ctxLeft \in {None} \cup (0 .. MaxContext) /\ idle \in Nat /\ elapsed \in Nat
        /\ ctxLeft # None => left <= ctxLeft
        /\ idle + left = IOTimeout \/ (ctxLeft # None /\ left = ctxLeft)
    BY <1>1, LimitType DEF IInv, TypeOK, WaitInv
  <1>3. /\ ctxLeft' \in {None} \cup (0 .. MaxContext) /\ left' \in 0 .. IOTimeout
        /\ ctxLeft = None <=> ctxLeft' = None
    BY <1>1, <1>2 DEF None
  <1>4. Limit' = Limit /\ Limit \in Nat /\ Len(line) \in Nat /\ Len(line) <= Limit
    BY <1>1, LimitType DEF Limit, Block, IInv, TypeOK
  <1>5. TypeOK'
    BY <1>1, <1>2, <1>3, <1>4 DEF IInv, TypeOK
  <1>6. LineInv' /\ BlameInv'
    BY <1>1 DEF IInv, LineInv, BlameInv, Before
  <1>7. WaitInv'
    BY <1>1, <1>2, <1>3 DEF IInv, WaitInv, None
  <1>8. /\ Budget(Len(line) + 1) <= Budget(Limit + 1)
        /\ Budget(Len(line) + 1) \in Nat /\ Budget(Limit + 1) \in Nat
    BY <1>4, BudgetGrows
  <1>9. elapsed + left <= Budget(Len(line) + 1)
    BY <1>1 DEF IInv, TimeInv
  <1>10. elapsed' + left' = elapsed + left /\ elapsed' <= Budget(Limit + 1)
    BY <1>1, <1>2, <1>8, <1>9
  <1>11. TimeInv'
    BY <1>1, <1>4, <1>9, <1>10 DEF TimeInv
  <1> QED
    BY <1>5, <1>6, <1>7, <1>11 DEF IInv

LEMMA Invariance == Spec => []IInv
  <1>1. IInv /\ [Next]_vars => IInv'
    <2> SUFFICES ASSUME IInv, [Next]_vars PROVE IInv'
      OBVIOUS
    <2>1. CASE UNCHANGED vars
      BY <2>1 DEF IInv, TypeOK, LineInv, WaitInv, TimeInv, BlameInv, Limit, Block, ContextOver,
                  vars, ctxVars, daemonVars, clocks
    <2>2. CASE Goroutine
      BY <2>2, BeforeStep, TakeByteStep, RefillStep, DeliverStep, ReadEndsStep, InterpretStep
      DEF Goroutine
    <2>3. CASE Daemon \/ Cancel \/ TimerFires \/ Tick
      BY <2>3, ReadEndsStep, EnvironmentStep, TickStep DEF Daemon
    <2> QED
      BY <2>1, <2>2, <2>3 DEF Next, Terminated
  <1> QED
    BY <1>1, InitEstablishes, PTL DEF Spec

-----------------------------------------------------------------------------
(* What the reader returns is the reply.                                   *)

\* The end of the reply: its NUL, the limit, or the end of the connection.
ReturnInv ==
  pc = "returned" =>
    \/ out.err = "io"
    \/ out.err = "ErrResponseTooLarge" /\ out.line = <<>> /\ Len(Sent) > Limit
    \/ out.err = "EOF" /\ out.line = <<>> /\ ~Ended /\ Sent = <<>>
    \/ out = Content /\ Sent = line /\ (Ended \/ (closed /\ line # <<>>))

\* The smallest element exists.
LEMMA MinOfNats ==
  ASSUME NEW I \in SUBSET Nat, I # {}
  PROVE  Min(I) \in I /\ \A i \in I : Min(I) <= i
  <1>1. PICK m \in I : \A i \in I : ~(<<i, m>> \in OpToRel(<, Nat))
    BY NatLessThanWellFounded, WFMin
  <1>2. \A i \in I : m <= i
    <2> SUFFICES ASSUME NEW i \in I, ~(m <= i) PROVE FALSE
      OBVIOUS
    <2>1. i < m /\ i \in Nat /\ m \in Nat
      OBVIOUS
    <2>2. <<i, m>> \in OpToRel(<, Nat)
      BY <2>1 DEF OpToRel
    <2> QED
      BY <1>1, <2>2
  <1> QED
    BY <1>2, Zenon DEF Min

\* Nul is the place of the first NUL, 0 if there is none.
LEMMA NulIs ==
  ASSUME script \in Seq(Symbols)
  PROVE  /\ Nul \in 0 .. Len(script)
         /\ Nul > 0 => script[Nul] = "NUL"
         /\ \A i \in 1 .. Len(script) : script[i] = "NUL" => Nul > 0 /\ Nul <= i
  <1> DEFINE I == {i \in 1 .. Len(script) : script[i] = "NUL"}
  <1>1. Nul = IF I # {} THEN Min(I) ELSE 0
    BY DEF Nul, SelectInSeq
  <1>2. Len(script) \in Nat /\ I \in SUBSET Nat
    OBVIOUS
  <1>3. I # {} => Min(I) \in I /\ \A i \in I : Min(I) <= i
    <2> HIDE DEF I
    <2> QED
      BY <1>2, MinOfNats
  <1>4. CASE I = {}
    BY <1>1, <1>2, <1>4
  <1>5. CASE I # {}
    <2>1. Nul \in I /\ \A i \in I : Nul <= i
      BY <1>1, <1>3, <1>5
    <2> HIDE DEF Nul
    <2> QED
      BY <1>2, <2>1
  <1> QED
    BY <1>4, <1>5

\* A buffer without a NUL that the next byte or the end of the stream
\* completes is all of the reply.
LEMMA SentIsLine ==
  ASSUME IInv, arrived = Len(line) \/ (Len(line) < arrived /\ script[Len(line) + 1] = "NUL")
  PROVE  Sent = line /\ (Ended <=> Len(line) < arrived)
  <1> DEFINE n == Len(line)
  <1>1. /\ script \in Seq(Symbols) /\ line \in Seq(Symbols \ {"NUL"}) /\ n \in Nat
        /\ arrived \in 0 .. Len(script) /\ Len(script) \in Nat /\ n <= arrived
        /\ \A i \in 1 .. n : line[i] = script[i]
    BY DEF IInv, TypeOK, LineInv
  <1>2. \A i \in 1 .. n : script[i] # "NUL"
    BY <1>1
  <1>3. SubSeq(script, 1, n) = line
    <2>1. /\ SubSeq(script, 1, n) \in Seq(Symbols) /\ Len(SubSeq(script, 1, n)) = n
          /\ \A i \in 1 .. n : SubSeq(script, 1, n)[i] = script[i]
      BY <1>1
    <2> QED
      BY <1>1, <2>1
  <1>4. CASE arrived = n
    <2>1. ~Ended
      BY <1>1, <1>2, <1>4, NulIs DEF Ended
    <2> QED
      BY <1>3, <1>4, <2>1 DEF Sent
  <1>5. CASE n < arrived /\ script[n + 1] = "NUL"
    <2>1. Nul = n + 1
      BY <1>1, <1>2, <1>5, NulIs
    <2>2. Ended
      BY <1>1, <1>5, <2>1 DEF Ended
    <2>3. Nul - 1 = n
      BY <1>1, <2>1
    <2> QED
      BY <1>3, <1>5, <2>2, <2>3 DEF Sent
  <1> QED
    BY <1>1, <1>4, <1>5

\* A byte past the limit makes the reply too large, whatever follows it.
LEMMA SentTooLarge ==
  ASSUME IInv, Len(line) < arrived, script[Len(line) + 1] # "NUL", Len(line) >= Limit
  PROVE  Len(Sent) > Limit
  <1> DEFINE n == Len(line)
             m == IF Ended THEN Nul - 1 ELSE arrived
  <1>1. /\ script \in Seq(Symbols) /\ line \in Seq(Symbols \ {"NUL"}) /\ n \in Nat
        /\ arrived \in 0 .. Len(script) /\ Len(script) \in Nat /\ Limit \in Nat
        /\ \A i \in 1 .. n : line[i] = script[i]
    BY LimitType DEF IInv, TypeOK, LineInv
  <1>2. \A i \in 1 .. n + 1 : script[i] # "NUL"
    BY <1>1
  <1>3. Nul \in 0 .. Len(script) /\ (Nul > 0 => script[Nul] = "NUL")
    BY <1>1, NulIs
  <1>4. Ended => Nul > n + 1
    BY <1>1, <1>2, <1>3 DEF Ended
  <1>5. m \in 0 .. Len(script) /\ m >= n + 1
    BY <1>1, <1>3, <1>4 DEF Ended
  <1>6. Len(SubSeq(script, 1, m)) = m
    <2> HIDE DEF m
    <2> QED
      BY <1>1, <1>5
  <1> QED
    BY <1>1, <1>5, <1>6 DEF Sent

\* What the reply and the content are depends on these only.
LEMMA SameReply ==
  ASSUME UNCHANGED <<cmd, script, arrived, line>>
  PROVE  Sent' = Sent /\ (Ended' <=> Ended) /\ Limit' = Limit /\ Content' = Content
  <1>1. Nul' = Nul
    BY DEF Nul, SelectInSeq
  <1>2. Ended' <=> Ended
    BY <1>1 DEF Ended
  <1>3. Sent' = Sent
    BY <1>1, <1>2 DEF Sent
  <1>4. (Block' <=> Block) /\ Limit' = Limit
    BY DEF Block, Limit
  <1>5. Content' = Content
    BY <1>4 DEF Content
  <1> QED
    BY <1>2, <1>3, <1>4, <1>5

LEMMA SentType == IInv => Sent \in Seq(Symbols) /\ Len(Sent) \in Nat
  <1> SUFFICES ASSUME IInv PROVE Sent \in Seq(Symbols)
    OBVIOUS
  <1> DEFINE m == IF Ended THEN Nul - 1 ELSE arrived
  <1>1. script \in Seq(Symbols) /\ arrived \in 0 .. Len(script) /\ Len(script) \in Nat
    BY DEF IInv, TypeOK
  <1>2. m \in 0 .. Len(script)
    BY <1>1 DEF Ended
  <1>3. SubSeq(script, 1, m) \in Seq(Symbols)
    <2> HIDE DEF m
    <2> QED
      BY <1>1, <1>2
  <1> QED
    BY <1>3 DEF Sent

LEMMA ReturnStep == IInv /\ ReturnInv /\ [Next]_vars => ReturnInv'
  <1> SUFFICES ASSUME IInv, ReturnInv, [Next]_vars, pc' = "returned" PROVE ReturnInv'
    BY DEF ReturnInv
  <1>1. CASE TakeByte
    <2>1. /\ UNCHANGED <<cmd, script, arrived, closed>> /\ Len(line) < got
      BY <1>1 DEF TakeByte, daemonVars
    <2>2. got <= arrived /\ Len(line) < arrived /\ pc = "read"
      BY <1>1, <2>1 DEF IInv, TypeOK, TakeByte
    <2>3. line' = line
      BY <1>1, <2>2 DEF TakeByte
    <2>4. Sent' = Sent /\ (Ended' <=> Ended) /\ Limit' = Limit /\ Content' = Content
      BY <2>1, <2>3, SameReply
    <2>5. CASE script[Len(line) + 1] = "NUL"
      <3>1. out' = Content
        BY <1>1, <2>5 DEF TakeByte, Returns
      <3> QED
        BY <2>2, <2>3, <2>4, <2>5, <3>1, SentIsLine DEF ReturnInv
    <2>6. CASE script[Len(line) + 1] # "NUL"
      <3>1. out' = [err |-> "ErrResponseTooLarge", line |-> <<>>] /\ Len(line) >= Limit
        BY <1>1, <2>2, <2>6 DEF TakeByte, Returns
      <3> QED
        BY <2>2, <2>4, <2>6, <3>1, SentTooLarge DEF ReturnInv
    <2> QED
      BY <2>5, <2>6
  <1>2. CASE ReadSeesEOF
    <2>1. /\ UNCHANGED <<cmd, script, arrived, closed, line>> /\ got = arrived /\ closed
          /\ pc = "wait"
      BY <1>2 DEF ReadSeesEOF, daemonVars
    <2>2. arrived = Len(line)
      BY <2>1 DEF IInv, WaitInv
    <2>3. Sent' = Sent /\ (Ended' <=> Ended) /\ Limit' = Limit /\ Content' = Content
      BY <2>1, SameReply
    <2>4. Sent = line /\ ~Ended
      BY <2>2, SentIsLine DEF IInv, TypeOK
    <2>5. out' = IF line # <<>> THEN Content ELSE [err |-> "EOF", line |-> <<>>]
      BY <1>2 DEF ReadSeesEOF, Returns
    <2> QED
      BY <2>1, <2>3, <2>4, <2>5 DEF ReturnInv
  <1>3. CASE Refill \/ ReadTimesOut \/ ReadBreaks
    BY <1>3 DEF Refill, ReadTimesOut, ReadBreaks, ReadFails, Returns, ReturnInv
  <1>4. CASE UNCHANGED vars \/ TimerFires \/ Cancel
    <2>1. UNCHANGED <<pc, cmd, script, arrived, closed, line, out>>
      BY <1>4 DEF vars, TimerFires, Cancel, goroutineVars, daemonVars
    <2>2. Sent' = Sent /\ (Ended' <=> Ended) /\ Limit' = Limit /\ Content' = Content
      BY <2>1, SameReply
    <2> QED
      BY <2>1, <2>2 DEF ReturnInv
  <1>5. CASE Dial \/ DialFails \/ DialReturnsNil \/ CommandWritten \/ WriteFails
             \/ WrapWrite \/ ReadDelivers \/ Interpret
    BY <1>5 DEF Dial, DialFails, DialReturnsNil, CommandWritten, WriteFails, WrapWrite,
                ReadDelivers, Interpret, Fails, Answer
  <1>6. CASE DaemonSends \/ DaemonCloses \/ Tick
    BY <1>6 DEF DaemonSends, DaemonCloses, Tick, goroutineVars
  <1> QED
    BY <1>1, <1>2, <1>3, <1>4, <1>5, <1>6 DEF Next, Goroutine, Daemon, Terminated

LEMMA ReturnInvariance == Spec => [](IInv /\ ReturnInv)
  <1>1. Init => ReturnInv
    BY DEF Init, ReturnInv
  <1> QED
    BY <1>1, Invariance, ReturnStep, PTL DEF Spec

-----------------------------------------------------------------------------
(* What success takes.                                                     *)

\* Line ends taken off first make no difference to a line without its blanks.
LEMMA TrimTwice ==
  ASSUME NEW S, NEW text \in Seq(S)
  PROVE  /\ TrimRight(text, LineEnds) \in Seq(S)
         /\ TrimRight(text, Blanks) \in Seq(S)
         /\ Len(TrimRight(text, LineEnds)) <= Len(text)
         /\ TrimRight(TrimRight(text, LineEnds), Blanks) = TrimRight(text, Blanks)
  <1>1. PICK j \in 0 .. Len(text) :
          /\ TrimRight(text, LineEnds) = SubSeq(text, 1, j)
          /\ \A i \in j + 1 .. Len(text) : text[i] \in LineEnds
    BY TrimRightIs
  <1> DEFINE t == SubSeq(text, 1, j)
  <1>2. t \in Seq(S) /\ Len(t) = j /\ \A i \in 1 .. j : t[i] = text[i]
    BY <1>1, SubSeqProperties
  <1>3. PICK k \in 0 .. Len(t) :
          /\ TrimRight(t, Blanks) = SubSeq(t, 1, k)
          /\ k > 0 => t[k] \notin Blanks
          /\ \A i \in k + 1 .. Len(t) : t[i] \in Blanks
    <2> HIDE DEF t
    <2> QED
      BY <1>2, TrimRightIs
  <1>4. PICK m \in 0 .. Len(text) :
          /\ TrimRight(text, Blanks) = SubSeq(text, 1, m)
          /\ m > 0 => text[m] \notin Blanks
          /\ \A i \in m + 1 .. Len(text) : text[i] \in Blanks
    BY TrimRightIs
  <1>5. LineEnds \subseteq Blanks /\ Len(text) \in Nat
    BY DEF LineEnds, Blanks
  <1>6. \A i \in k + 1 .. Len(text) : text[i] \in Blanks
    BY <1>1, <1>2, <1>3, <1>5
  <1>7. k > 0 => text[k] \notin Blanks
    BY <1>2, <1>3
  <1>8. k \in 0 .. Len(text) /\ j \in Nat /\ k <= j
    BY <1>1, <1>2, <1>3, <1>5
  <1>9. k = m
    <2>1. ~(k < m)
      BY <1>4, <1>5, <1>6, <1>8
    <2>2. ~(m < k)
      BY <1>4, <1>5, <1>7, <1>8
    <2> QED
      BY <1>4, <1>5, <1>8, <2>1, <2>2
  <1>10. SubSeq(t, 1, k) = SubSeq(text, 1, k)
    <2>1. /\ SubSeq(t, 1, k) \in Seq(S) /\ Len(SubSeq(t, 1, k)) = k
          /\ \A i \in 1 .. k : SubSeq(t, 1, k)[i] = t[i]
      <3> HIDE DEF t
      <3> QED
        BY <1>2, <1>3, SubSeqProperties
    <2>2. /\ SubSeq(text, 1, k) \in Seq(S) /\ Len(SubSeq(text, 1, k)) = k
          /\ \A i \in 1 .. k : SubSeq(text, 1, k)[i] = text[i]
      BY <1>8, SubSeqProperties
    <2>3. \A i \in 1 .. k : t[i] = text[i]
      BY <1>2, <1>8
    <2> HIDE DEF t
    <2> QED
      BY <2>1, <2>2, <2>3
  <1>11. TrimRight(text, Blanks) \in Seq(S)
    BY <1>4, SubSeqProperties
  <1> HIDE DEF t
  <1> QED
    BY <1>1, <1>2, <1>3, <1>4, <1>9, <1>10, <1>11 DEF t

\* A suffix of two has its second element at the end.
LEMMA SuffixLast ==
  ASSUME NEW S, NEW text \in Seq(S), NEW x, NEW y, IsSuffix(<<x, y>>, text)
  PROVE  Len(text) >= 2 /\ text[Len(text)] = y
  <1> DEFINE a == Reverse(<<x, y>>)
             b == Reverse(text)
  <1>1. a = <<y, x>>
    BY DEF Reverse
  <1>2. b \in Seq(S) /\ Len(b) = Len(text) /\ \A i \in 1 .. Len(text) :
          b[i] = text[(Len(text) - i) + 1]
    <2>1. b = [i \in 1 .. Len(text) |-> text[(Len(text) - i) + 1]]
      BY DEF Reverse
    <2>2. \A i \in 1 .. Len(text) : text[(Len(text) - i) + 1] \in S
      OBVIOUS
    <2> QED
      BY <2>1, <2>2
  <1>3. 2 <= Len(b) /\ SubSeq(a, 1, 2) = SubSeq(b, 1, 2)
    <2>1. Len(a) <= Len(b) /\ SubSeq(a, 1, Len(a)) = SubSeq(b, 1, Len(a))
      BY Zenon DEF IsSuffix, IsPrefix
    <2>2. Len(a) = 2
      BY <1>1
    <2> QED
      BY <2>1, <2>2, Zenon
  <1>4. SubSeq(<<y, x>>, 1, 2)[1] = y
    OBVIOUS
  <1> HIDE DEF a, b
  <1>5. SubSeq(b, 1, 2)[1] = b[1]
    BY <1>2, <1>3, SubSeqProperties
  <1> QED
    BY <1>1, <1>2, <1>3, <1>4, <1>5

\* The reply is no ERROR.
NoErrorReply(text) ==
  /\ TrimRight(text, Blanks) # <<"ERROR">>
  /\ ~IsSuffix(<<"SP", "ERROR">>, TrimRight(text, Blanks))

\* ParseScanResponse sees every ERROR; a FOUND in its place is none.
LEMMA ErrorIsSeen ==
  ASSUME NEW S, NEW text \in Seq(S), ParseScanResponse(text).outcome # OutcomeError
  PROVE  NoErrorReply(text)
  <1> DEFINE t == TrimRight(text, Blanks)
  <1>1. t \in Seq(S)
    BY TrimTwice
  <1>2. CASE IsSuffix(<<"SP", "FOUND">>, t)
    <2>1. Len(t) >= 2 /\ t[Len(t)] = "FOUND"
      <3> HIDE DEF t
      <3> QED
        BY <1>1, <1>2, SuffixLast
    <2>2. ~IsSuffix(<<"SP", "ERROR">>, t)
      <3> SUFFICES ASSUME IsSuffix(<<"SP", "ERROR">>, t) PROVE FALSE
        OBVIOUS
      <3>1. t[Len(t)] = "ERROR"
        <4> HIDE DEF t
        <4> QED
          BY <1>1, SuffixLast
      <3> QED
        BY <2>1, <3>1
    <2>3. t # <<"ERROR">>
      <3> HIDE DEF t
      <3> QED
        BY <2>1
    <2> QED
      BY <2>2, <2>3 DEF NoErrorReply
  <1>3. CASE ~IsSuffix(<<"SP", "FOUND">>, t)
    <2>1. SUFFICES ASSUME t = <<"ERROR">> \/ IsSuffix(<<"SP", "ERROR">>, t)
                   PROVE  FALSE
      BY DEF NoErrorReply
    <2>2. t[Len(t)] = "ERROR"
      <3>1. t = <<"ERROR">> => t[Len(t)] = "ERROR"
        OBVIOUS
      <3>2. IsSuffix(<<"SP", "ERROR">>, t) => t[Len(t)] = "ERROR"
        <4> HIDE DEF t
        <4> QED
          BY <1>1, SuffixLast
      <3> QED
        BY <2>1, <3>1, <3>2
    <2>3. t \notin CleanLines
      <3>1. <<"OK">>[Len(<<"OK">>)] = "OK"
        OBVIOUS
      <3>2. <<"stream:", "SP", "OK">>[Len(<<"stream:", "SP", "OK">>)] = "OK"
        OBVIOUS
      <3>3. "OK" # "ERROR"
        OBVIOUS
      <3> HIDE DEF t
      <3>4. t # <<"OK">> /\ t # <<"stream:", "SP", "OK">>
        BY <2>2, <3>1, <3>2, <3>3, Zenon
      <3> QED
        BY <3>4 DEF CleanLines
    <2>4. ParseScanResponse(text).outcome = OutcomeError
      BY <1>3, <2>1, <2>3 DEF ParseScanResponse, OutcomeError
    <2> QED
      BY <2>4
  <1> QED
    BY <1>2, <1>3

\* A fixed reply is none either.
LEMMA FixedIsNoError ==
  ASSUME NEW S, NEW text \in Seq(S), NEW x \in {"PONG", "RELOADING"},
         TrimRight(text, LineEnds) = <<x>>
  PROVE  NoErrorReply(text)
  <1> DEFINE t == TrimRight(text, Blanks)
             u == <<x>>
  <1>1. t \in Seq(S) /\ t = TrimRight(u, Blanks)
    BY TrimTwice
  <1>2. u \in Seq({"PONG", "RELOADING"}) /\ Len(u) = 1 /\ u[1] = x
    OBVIOUS
  <1>3. u # <<"ERROR">>
    <2>1. <<"ERROR">>[1] = "ERROR" /\ u[1] # "ERROR"
      BY <1>2
    <2> QED
      BY <2>1, Zenon
  <1> HIDE DEF t, u
  <1>4. SubSeq(u, 1, 1) = u
    BY <1>2, SubSeqProperties
  <1>5. PICK k \in 0 .. Len(u) :
          /\ TrimRight(u, Blanks) = SubSeq(u, 1, k)
          /\ \A i \in k + 1 .. Len(u) : u[i] \in Blanks
    BY <1>2, TrimRightIs
  <1>6. u[1] \notin Blanks
    BY <1>2 DEF Blanks
  <1>7. k = 1
    BY <1>2, <1>5, <1>6
  <1>8. t = u
    BY <1>1, <1>4, <1>5, <1>7
  <1>9. t # <<"ERROR">> /\ Len(t) = 1
    BY <1>2, <1>3, <1>8
  <1>10. ~IsSuffix(<<"SP", "ERROR">>, t)
    BY <1>1, <1>9, SuffixLast
  <1> QED
    BY <1>9, <1>10 DEF t, NoErrorReply

\* What the reader hands to the four commands.
LEMMA ReplyInHand ==
  ASSUME IInv, ReturnInv, pc = "returned", out.err = "nil"
  PROVE  /\ Sent \in Seq(Symbols) /\ Sent = line /\ Len(Sent) <= Limit /\ Limit \in Nat
         /\ Ended \/ closed
         /\ Block => out.line = Sent
         /\ ~Block => out.line = TrimRight(Sent, LineEnds)
  <1>1. out = Content /\ Sent = line /\ (Ended \/ closed)
    BY DEF ReturnInv
  <1>2. Sent \in Seq(Symbols) /\ Len(Sent) <= Limit /\ Limit \in Nat
    BY <1>1, SentType, LimitType DEF IInv, TypeOK
  <1>3. Block => out.line = Sent
    BY <1>1 DEF Content
  <1>4. ~Block => out.line = TrimRight(Sent, LineEnds)
    BY <1>1 DEF Content, FinishLine
  <1> QED
    BY <1>1, <1>2, <1>3, <1>4

\* What a call that succeeds has in hand.
LEMMA SuccessTakes ==
  ASSUME NEW reply, NEW want
  PROVE  /\ ExpectReply(reply, want).err = NoError => reply = want
         /\ ReportFrom(reply).err = NoError =>
              /\ ParseScanResponse(reply).outcome # OutcomeError
              /\ reply # <<>> /\ ReportFrom(reply).value = reply
  BY DEF ExpectReply, ReportFrom, Value, Error, NoError, ClamdErrorFrom

LEMMA EarnedStep == IInv /\ ReturnInv /\ SuccessIsEarned /\ [Next]_vars => SuccessIsEarned'
  <1> SUFFICES ASSUME IInv, ReturnInv, SuccessIsEarned, [Next]_vars,
                      pc' = "done", res'.err = NoError
               PROVE  SuccessIsEarned'
    BY DEF SuccessIsEarned
  <1>1. CASE Interpret
    <2>1. UNCHANGED <<cmd, script, arrived, closed, line>> /\ pc = "returned"
      BY <1>1 DEF Interpret, daemonVars
    <2>2. Sent' = Sent /\ (Ended' <=> Ended) /\ Limit' = Limit
      BY <2>1, SameReply
    <2>3. out.err = "nil"
      <3>1. out.err # "nil" => res' = Error(WrapReadErr(ctxError, out.err))
        BY <1>1 DEF Interpret, Fails, Answer
      <3>2. WrapReadErr(ctxError, out.err) # NoError
        BY DEF WrapReadErr, NoError
      <3> QED
        BY <3>1, <3>2 DEF Error
    <2>4. /\ Sent \in Seq(Symbols) /\ Len(Sent) <= Limit /\ Limit \in Nat
          /\ Ended \/ closed
          /\ Block => out.line = Sent
          /\ ~Block => out.line = TrimRight(Sent, LineEnds)
      BY <2>1, <2>3, ReplyInHand
    <2>5. /\ TrimRight(Sent, LineEnds) \in Seq(Symbols)
          /\ Len(TrimRight(Sent, LineEnds)) <= Len(Sent) /\ Len(Sent) \in Nat
          /\ TrimRight(TrimRight(Sent, LineEnds), Blanks) = TrimRight(Sent, Blanks)
      BY <2>4, TrimTwice
    <2>6. cmd \in Commands
      BY DEF IInv, TypeOK
    <2>7. SUFFICES /\ Len(Sent) >= 1 /\ NoErrorReply(Sent)
                   /\ cmd = "PING"    => TrimRight(Sent, LineEnds) = <<"PONG">>
                   /\ cmd = "RELOAD"  => TrimRight(Sent, LineEnds) = <<"RELOADING">>
                   /\ cmd = "VERSION" => res'.value = TrimRight(Sent, LineEnds)
                   /\ cmd = "STATS"   => res'.value = Sent
      BY <2>1, <2>2, <2>4, <2>5 DEF SuccessIsEarned, NoErrorReply
    <2>8. CASE cmd \in {"PING", "RELOAD"}
      <3>1. PICK x \in {"PONG", "RELOADING"} :
              /\ res' = ExpectReply(out.line, <<x>>)
              /\ cmd = "PING" => x = "PONG"
              /\ cmd = "RELOAD" => x = "RELOADING"
        BY <1>1, <2>3, <2>8 DEF Interpret, Answer
      <3>2. TrimRight(Sent, LineEnds) = <<x>>
        BY <2>4, <2>8, <3>1, SuccessTakes DEF Block
      <3>3. NoErrorReply(Sent)
        BY <2>4, <3>2, FixedIsNoError
      <3>4. Len(Sent) >= 1
        BY <2>5, <3>2
      <3> QED
        BY <2>8, <3>1, <3>2, <3>3, <3>4
    <2>9. CASE cmd \in {"VERSION", "STATS"}
      <3>1. res' = ReportFrom(out.line)
        BY <1>1, <2>3, <2>9 DEF Interpret, Answer
      <3>2. /\ ParseScanResponse(out.line).outcome # OutcomeError
            /\ out.line # <<>> /\ res'.value = out.line
        BY <3>1, SuccessTakes
      <3>3. out.line \in Seq(Symbols) /\ Len(out.line) <= Len(Sent) /\ Len(out.line) >= 1
        BY <2>4, <2>5, <3>2
      <3>4. NoErrorReply(out.line)
        BY <3>2, <3>3, ErrorIsSeen
      <3>5. NoErrorReply(Sent)
        BY <2>4, <2>5, <3>4 DEF NoErrorReply
      <3> QED
        BY <2>4, <2>5, <2>9, <3>2, <3>3, <3>5 DEF Block
    <2> QED
      BY <2>6, <2>8, <2>9 DEF Commands
  <1>2. CASE DialFails \/ DialReturnsNil \/ WrapWrite
    <2>1. \E e, err : res' = Error({e} \cup err)
      <3>1. CASE DialFails
        <4>1. PICK err \in DialErrors :
                res' = Error(IF ctxError # "nil" THEN {ctxError} ELSE {"ConnectionError"} \cup err)
          BY <3>1 DEF DialFails, Fails, Answer
        <4>2. {ctxError} = {ctxError} \cup {}
          OBVIOUS
        <4> QED
          BY <4>1, <4>2
      <3>2. CASE DialReturnsNil
        <4>1. {"ConnectionError"} = {"ConnectionError"} \cup {}
          OBVIOUS
        <4> QED
          BY <3>2, <4>1 DEF DialReturnsNil, Fails, Answer
      <3>3. CASE WrapWrite
        <4>1. \A e : {e} = {e} \cup {}
          OBVIOUS
        <4> QED
          BY <3>3, <4>1 DEF WrapWrite, WrapWriteErr, Fails, Answer
      <3> QED
        BY <1>2, <3>1, <3>2, <3>3
    <2>2. \A e, err : Error({e} \cup err).err # NoError
      BY DEF Error, NoError
    <2> QED
      BY <2>1, <2>2
  <1>3. CASE UNCHANGED vars \/ TimerFires \/ Cancel
    <2>1. UNCHANGED <<pc, cmd, script, arrived, closed, line, res>>
      BY <1>3 DEF vars, TimerFires, Cancel, goroutineVars, daemonVars
    <2>2. Sent' = Sent /\ (Ended' <=> Ended) /\ Limit' = Limit
      BY <2>1, SameReply
    <2> QED
      BY <2>1, <2>2 DEF SuccessIsEarned
  <1>4. CASE Dial \/ CommandWritten \/ WriteFails \/ TakeByte \/ Refill \/ ReadDelivers
             \/ ReadSeesEOF \/ ReadTimesOut \/ ReadBreaks
    BY <1>4 DEF Dial, CommandWritten, WriteFails, TakeByte, Refill, ReadDelivers, ReadSeesEOF,
                ReadTimesOut, ReadBreaks, ReadFails, Returns
  <1>5. CASE DaemonSends \/ DaemonCloses \/ Tick
    BY <1>5 DEF DaemonSends, DaemonCloses, Tick, goroutineVars
  <1> QED
    BY <1>1, <1>2, <1>3, <1>4, <1>5 DEF Next, Goroutine, Daemon, Terminated

-----------------------------------------------------------------------------
(* The theorems.                                                           *)

\* The types hold, and no reply makes the reader hold more content than its
\* bound (ReadLine, ReadBlock).
THEOREM AdminTypeCorrect == Spec => []TypeOK
  <1>1. IInv => TypeOK
    BY DEF IInv
  <1> QED
    BY <1>1, Invariance, PTL

\* However a daemon drips its reply, a command waits at most one ioTimeout per
\* byte of the limit and one more (ReadLine over deadlineConn.Read).
THEOREM DripIsBounded == Spec => []DripBounded
  <1>1. IInv => DripBounded
    BY DEF IInv, TimeInv, Budget, DripBounded
  <1> QED
    BY <1>1, Invariance, PTL

\* The context's end is reported as the context's, and a timeout is one of the
\* transport only after a silence of ioTimeout (wrapReadErr, wrapWriteErr).
THEOREM BlamesRight == Spec => []FailureIsBlamedRight
  <1>1. IInv => FailureIsBlamedRight
    BY DEF IInv, BlameInv, FailureIsBlamedRight
  <1> QED
    BY <1>1, Invariance, PTL

\* The loops over bufio.Reader return what the functions of Replies say of the
\* reply as a whole, for every reply, every limit and every cutting into
\* pieces (ReadLine, ReadBlock).
THEOREM PiecesAreOneReply == Spec => []ReadsOneReply
  <1>1. IInv /\ ReturnInv => ReadsOneReply
    <2> SUFFICES ASSUME IInv, ReturnInv, pc = "returned", out.err # "io"
                 PROVE  LET whole == IF Block THEN ReadBlock(Sent, Ended, MaxBlockResponse)
                                       ELSE ReadLine(Sent, Ended, MaxLineResponse)
                        IN  out.err = whole.err /\ out.line = whole.line
      BY DEF ReadsOneReply
    <2>1. Len(line) \in Nat /\ Len(line) <= Limit /\ Limit \in Nat
      BY LimitType DEF IInv, TypeOK
    <2>2. CASE out.err = "ErrResponseTooLarge" /\ out.line = <<>> /\ Len(Sent) > Limit
      <3>1. Len(Sent) \in Nat /\ ~(Len(Sent) <= Limit)
        BY <2>1, <2>2, SentType
      <3> QED
        BY <2>2, <3>1 DEF ReadBlock, ReadLine, Limit
    <2>3. CASE out.err = "EOF" /\ out.line = <<>> /\ ~Ended /\ Sent = <<>>
      <3>1. Len(Sent) = 0 /\ Len(Sent) <= Limit /\ ~(Len(Sent) > Limit)
        BY <2>1, <2>3
      <3> QED
        BY <2>3, <3>1 DEF ReadBlock, ReadLine, Limit
    <2>4. CASE out = Content /\ Sent = line /\ (Ended \/ (closed /\ line # <<>>))
      <3>1. ~(Len(Sent) > Limit) /\ ~(~Ended /\ Sent = <<>>)
        BY <2>1, <2>4
      <3>2. CASE Block
        BY <2>4, <3>1, <3>2 DEF ReadBlock, Limit, Content
      <3>3. CASE ~Block
        BY <2>4, <3>1, <3>3 DEF ReadLine, Limit, Content
      <3> QED
        BY <3>2, <3>3
    <2> QED
      BY <2>2, <2>3, <2>4 DEF ReturnInv
  <1> QED
    BY <1>1, ReturnInvariance, PTL

\* No command succeeds but on a reply that is over, within its limit, no ERROR,
\* and the fixed one to the letter where there is one (expectReply, Version,
\* Stats).
THEOREM SuccessEarned == Spec => []SuccessIsEarned
  <1>1. Init => SuccessIsEarned
    BY DEF Init, SuccessIsEarned
  <1> QED
    BY <1>1, ReturnInvariance, EarnedStep, PTL DEF Spec

=============================================================================
