------------------------------ MODULE Outcomes ------------------------------
(***************************************************************************)
(* What a scan returns: the verdict and the error, and how the client      *)
(* derives both (src/result.go, src/errors.go and the mapping functions at *)
(* the end of src/client.go).                                              *)
(*                                                                         *)
(* An error is the set of the sentinels and types that errors.Is and       *)
(* errors.As find in its chain; nil is the empty set.  "InputError" stands *)
(* for the errors that carry none of the library's own types: a failing    *)
(* reader, a path that cannot be used, a nil reader.                       *)
(***************************************************************************)
EXTENDS Replies

Verdicts == {"unknown", "clean", "infected"}

ContextErrors == {"Canceled", "DeadlineExceeded"}

ErrorTags == ContextErrors \cup
  {"ErrSizeLimitExceeded", "ClamdError", "ProtocolError", "ConnectionError",
   "InputError"}

NoError == {}

\* The two shapes of a return value: a verdict with a nil error, or the zero
\* ScanResult with an error.
Verdict(v)   == [verdict |-> v, err |-> NoError]
Failure(err) == [verdict |-> "unknown", err |-> err]

Results == {Verdict(v) : v \in {"clean", "infected"}}
             \cup {Failure(err) : err \in (SUBSET ErrorTags) \ {NoError}}

IsRetryable(err) ==
  /\ err # NoError
  /\ "Canceled" \notin err
  /\ "ErrSizeLimitExceeded" \notin err
  /\ \/ "DeadlineExceeded" \in err
     \/ /\ err \cap {"ClamdError", "ProtocolError"} = {}
        /\ "ConnectionError" \in err

ClamdErrorFrom(resp) ==
  IF resp.sizeLimit THEN {"ErrSizeLimitExceeded", "ClamdError"} ELSE {"ClamdError"}

\* A clean verdict from a reply that ended at EOF: the check of ADR-0007 is gone.
ResultFromLineAnyEnd(line, terminated) ==
  LET resp == ParseScanResponse(line)
  IN  CASE resp.outcome = OutcomeClean    -> Verdict("clean")
        [] resp.outcome = OutcomeInfected -> Verdict("infected")
        [] resp.outcome = OutcomeError    -> Failure(ClamdErrorFrom(resp))
        [] OTHER                          -> Failure({"ProtocolError"})

ResultFromLine(line, terminated) ==
  LET resp == ParseScanResponse(line)
  IN  CASE resp.outcome = OutcomeClean ->
             IF terminated THEN Verdict("clean") ELSE Failure({"ProtocolError"})
        [] resp.outcome = OutcomeInfected -> Verdict("infected")
        [] resp.outcome = OutcomeError    -> Failure(ClamdErrorFrom(resp))
        [] OTHER                          -> Failure({"ProtocolError"})

-----------------------------------------------------------------------------
(* Wrapping a transport failure: ctxErr is what ctxError(ctx) returned,    *)
(* "nil" when the context is live and its deadline has not passed.         *)

WrapWriteErr(ctxErr) ==
  IF ctxErr # "nil" THEN {ctxErr} ELSE {"ConnectionError"}

\* rerr is the error of the reply reader.
WrapReadErr(ctxErr, rerr) ==
  IF ctxErr # "nil" THEN {ctxErr}
  ELSE IF rerr \in {"ErrResponseTooLarge", "ErrMalformedReply"}
    THEN {"ProtocolError"}
    ELSE {"ConnectionError"}

=============================================================================
