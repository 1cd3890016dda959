---------------------------- MODULE MCScanStream ----------------------------
(***************************************************************************)
(* Small instances of ScanStream for TLC.                                  *)
(***************************************************************************)
EXTENDS ScanStream

\* io.EOF, a plain read failure, and the failure of a reader that is itself
\* under a deadline, such as the body of an HTTP response.
MCSourceEnds == { NoError, {"InputError"}, {"InputError", "DeadlineExceeded"} }

\* A refused connection, and the expiry of the dial-timeout sub-context.
MCDialErrors == { NoError, {"DeadlineExceeded"} }

OK        == <<"stream:", "SP", "OK">>
FoundOK   == <<"stream:", "SP", "OK", "SP", "FOUND">>
EngineErr == <<"text", "SP", "ERROR">>
TwoLines  == <<"OK", "EOL", "OK">>
Flood     == <<"text", "text", "text", "text", "text", "text", "text">>

\* FoundOK is a detection whose signature begins with "OK": cut short it
\* reads as a clean reply.
MCFinalReplies == {OK, FoundOK, EngineErr, TwoLines, Flood}
MCEarlyReplies == {OK, FoundOK}

\* Enough for progress, which does not depend on what a reply says.
MCFewReplies == {<<"OK">>}
MCFewEnds    == { NoError, {"InputError"} }

MCNoSizeLimit == NoSizeLimit
=============================================================================
