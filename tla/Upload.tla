------------------------------- MODULE Upload -------------------------------
(***************************************************************************)
(* The upload endpoint of examples/httpupload: requests that share one     *)
(* client.  The whole body is read before Scan asks for a slot, under the  *)
(* server's ReadTimeout; the context of the scan starts before the body.   *)
(*                                                                         *)
(* The slots are SlotPool, which ScanSlots implements; what Scan returns   *)
(* is what FailClosed allows, which ScanStream implements.  An upload is   *)
(* the kind of its body: a file that is harmless, infected, larger than    *)
(* maxUploadBytes or the daemon's own limit ("large"), or than the cap on  *)
(* the body ("huge"), or a form without the field.                         *)
(***************************************************************************)
EXTENDS Outcomes, FiniteSets

CONSTANTS
  Requests,
  MaxScans,   \* given to WithMaxConcurrentScans
  Kinds,      \* the bodies clients may send
  ScanErrors  \* what Scan may fail with besides the context and the size

BodyKinds == {"harmless", "infected", "large", "huge", "nofield"}

ASSUME UploadAssumption ==
  /\ IsFiniteSet(Requests) /\ MaxScans \in Nat
  /\ Kinds \subseteq BodyKinds
  /\ ScanErrors \subseteq (SUBSET (ErrorTags \ {"ErrSizeLimitExceeded"})) \ {NoError}

VARIABLES
  st,        \* where each handler is
  ctxErr,    \* ctx.Err() of its context
  kind,      \* the body its client sends
  result,    \* what Scan returned
  status,    \* the HTTP status, 0 before there is one
  retry,     \* Retry-After is set
  holders, waiting   \* the slots of the client

uploadVars == <<st, ctxErr, kind, result, status, retry, holders, waiting>>

Slots == INSTANCE SlotPool WITH Scans <- Requests, Slots <- MaxScans

NoResult == Failure(NoError)
slotVars == <<holders, waiting>>

Moves(r, s) == st' = [st EXCEPT ![r] = s]

\* http.Error or WriteHeader, and the handler is over.
Reply(r, code) == status' = [status EXCEPT ![r] = code] /\ Moves(r, "done")

-----------------------------------------------------------------------------
(* The body.                                                               *)

Arrive(r) ==
  /\ st[r] = "idle"
  /\ \E k \in Kinds : kind' = [kind EXCEPT ![r] = k]
  /\ Moves(r, "body")
  /\ UNCHANGED <<ctxErr, result, status, retry, slotVars>>

\* FormFile has the body, or as much of it as MaxBytesReader lets through.
BodyRead(r) ==
  /\ st[r] = "body"
  /\ CASE kind[r] = "huge"    -> Reply(r, 413)
       [] kind[r] = "nofield" -> Reply(r, 400)
       [] OTHER -> Moves(r, "acquire") /\ UNCHANGED status
  /\ UNCHANGED <<ctxErr, kind, result, retry, slotVars>>

\* A server without a ReadTimeout.
ReadTimesOutNever(r) == FALSE /\ UNCHANGED uploadVars

\* The client trickles or stalls until ReadTimeout expires.
ReadTimesOut(r) ==
  /\ st[r] = "body"
  /\ Reply(r, 408)
  /\ UNCHANGED <<ctxErr, kind, result, retry, slotVars>>

\* The client goes away in the middle of the body.
BodyCut(r) ==
  /\ st[r] = "body"
  /\ Reply(r, 400)
  /\ UNCHANGED <<ctxErr, kind, result, retry, slotVars>>

-----------------------------------------------------------------------------
(* Scan.                                                                   *)

Returns(r, res) == result' = [result EXCEPT ![r] = res] /\ Moves(r, "returned")

Refused(r) ==
  /\ st[r] = "acquire" /\ ctxErr[r] # "nil"
  /\ Returns(r, Failure({ctxErr[r]}))
  /\ UNCHANGED <<ctxErr, kind, status, retry, slotVars>>

Acquire(r) ==
  /\ st[r] = "acquire" /\ ctxErr[r] = "nil"
  /\ Slots!Enter(r) \/ Slots!Wait(r)
  /\ Moves(r, "slot")
  /\ UNCHANGED <<ctxErr, kind, result, status, retry>>

GivesUp(r) ==
  /\ st[r] = "slot" /\ ctxErr[r] # "nil"
  /\ \E i \in DOMAIN waiting : waiting[i] = r /\ Slots!GiveUp(i)
  /\ Returns(r, Failure({ctxErr[r]}))
  /\ UNCHANGED <<ctxErr, kind, status, retry>>

\* What a scan of a body may come to with a daemon that judges right: no clean
\* verdict but for a harmless one; what is above a limit may be found infected
\* on the way there.
MayReturn(r) ==
  {Failure(err) : err \in ScanErrors}
    \cup {Failure({ctxErr[r]}) : x \in {ctxErr[r]} \ {"nil"}}
    \cup CASE kind[r] = "harmless" -> {Verdict("clean")}
           [] kind[r] = "infected" -> {Verdict("infected")}
           [] OTHER -> {Verdict("infected"), Failure({"ErrSizeLimitExceeded"}),
                        Failure({"ErrSizeLimitExceeded", "ClamdError"})}

\* The deferred releaseScanSlot is missing.
ScanReturnsKeeping(r) ==
  /\ st[r] = "slot" /\ r \in holders
  /\ \E res \in MayReturn(r) : Returns(r, res)
  /\ UNCHANGED <<ctxErr, kind, status, retry, slotVars>>

ScanReturns(r) ==
  /\ st[r] = "slot" /\ r \in holders
  /\ \E res \in MayReturn(r) : Returns(r, res)
  /\ Slots!Leave(r)
  /\ UNCHANGED <<ctxErr, kind, status, retry>>

-----------------------------------------------------------------------------
(* The answer.                                                             *)

\* Everything that is not infected is let through.
RespondUnlessInfected(r) ==
  /\ st[r] = "returned"
  /\ CASE "ErrSizeLimitExceeded" \in result[r].err -> Reply(r, 413)
       [] result[r].verdict = "infected"           -> Reply(r, 400)
       [] OTHER                                    -> Reply(r, 200)
  /\ UNCHANGED <<ctxErr, kind, result, retry, slotVars>>

\* An unknown verdict is turned down, with or without an error.
Respond(r) ==
  /\ st[r] = "returned"
  /\ LET err == result[r].err
     IN  /\ CASE "ErrSizeLimitExceeded" \in err -> Reply(r, 413)
              [] err # NoError /\ "ErrSizeLimitExceeded" \notin err -> Reply(r, 503)
              [] err = NoError /\ result[r].verdict = "infected" -> Reply(r, 400)
              [] err = NoError /\ result[r].verdict = "clean" -> Reply(r, 200)
              [] OTHER -> Reply(r, 503)
         /\ retry' = [retry EXCEPT ![r] =
                        "ErrSizeLimitExceeded" \notin err /\ IsRetryable(err)]
  /\ UNCHANGED <<ctxErr, kind, result, slotVars>>

-----------------------------------------------------------------------------
\* The client disconnects, or the two minutes are over.
ContextEnds(r) ==
  /\ st[r] \notin {"idle", "done"} /\ ctxErr[r] = "nil"
  /\ \E err \in ContextErrors : ctxErr' = [ctxErr EXCEPT ![r] = err]
  /\ UNCHANGED <<st, kind, result, status, retry, slotVars>>

UploadInit ==
  /\ st = [r \in Requests |-> "idle"]
  /\ ctxErr = [r \in Requests |-> "nil"]
  /\ kind = [r \in Requests |-> "nofield"]
  /\ result = [r \in Requests |-> NoResult]
  /\ status = [r \in Requests |-> 0] /\ retry = [r \in Requests |-> FALSE]
  /\ Slots!Init

Handler(r) ==
  Refused(r) \/ Acquire(r) \/ GivesUp(r) \/ ScanReturns(r) \/ Respond(r)

AllAnswered == (\A r \in Requests : st[r] = "done") /\ UNCHANGED uploadVars

UploadNext ==
  \/ \E r \in Requests :
       \/ Arrive(r) \/ BodyRead(r) \/ ReadTimesOut(r) \/ BodyCut(r)
       \/ Handler(r) \/ ContextEnds(r)
  \/ AllAnswered

UploadSpec == UploadInit /\ [][UploadNext]_uploadVars

\* Handlers run and scans end.  No timer is assumed to fire, and no client to
\* send its body.
FairUploads == UploadSpec /\ \A r \in Requests : WF_uploadVars(Handler(r))

-----------------------------------------------------------------------------
(* Properties.                                                             *)

\* An upload is accepted only if it is harmless and its own scan found it so,
\* however many share the client; it is called too large only if it is;
\* Retry-After goes only with a 503, and never to a request whose scan was
\* cancelled.
AnsweredRight ==
  \A r \in Requests :
    /\ status[r] = 200 => kind[r] = "harmless" /\ result[r] = Verdict("clean")
    /\ status[r] = 413 => kind[r] \in {"large", "huge"}
    /\ retry[r] => status[r] = 503 /\ "Canceled" \notin result[r].err

\* An upload whose body is there is answered though every other client may
\* stop sending: a body on its way holds no slot, and no timer is needed.  With
\* ReadTimeout every request is answered (main: "a client trickling its upload
\* pins a goroutine").
UploadsAnswered ==
  \A r \in Requests :
    /\ (st[r] \in {"acquire", "slot", "returned"}) ~> (st[r] = "done")
    /\ WF_uploadVars(ReadTimesOut(r)) => ((st[r] = "body") ~> (st[r] = "done"))

=============================================================================
