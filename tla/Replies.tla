------------------------------ MODULE Replies ------------------------------
(***************************************************************************)
(* How package proto reads and classifies one clamd reply: ReadLine with   *)
(* finishLine, and ParseScanResponse (src/internal/proto/response.go).     *)
(*                                                                         *)
(* A reply is a sequence of lexemes, the byte runs the classifier tells    *)
(* apart.  "text" is any run of bytes that is none of the others and holds *)
(* no blank and no line end, so that "stream: OK.Custom-1 FOUND" is        *)
(*   <<"stream:", "SP", "OK", "text", "SP", "FOUND">>                      *)
(* and its prefixes are the replies a connection cut mid-reply leaves.     *)
(* The NUL that ends a z-form reply is not a lexeme but a flag beside the  *)
(* content.  Lengths count lexemes.                                        *)
(***************************************************************************)
EXTENDS Naturals, Sequences, SequencesExt

Lexemes == {"stream:", "OK", "FOUND", "ERROR", "size limit exceeded",
            "text", "SP", "EOL"}

\* What TrimRight(line, " \t\r\n\x00") and trimEOL strip from the right.
Blanks   == {"SP", "EOL"}
LineEnds == {"EOL"}

TrimRight(line, cutset) ==
  SubSeq(line, 1, SelectLastInSeq(line, LAMBDA x : x \notin cutset))

-----------------------------------------------------------------------------
(* ReadLine: what has arrived up to the NUL or the end of the stream.      *)

FinishLine(content) ==
  LET trimmed == TrimRight(content, LineEnds)
  IN  IF \E i \in DOMAIN trimmed : trimmed[i] \in LineEnds
        THEN [err |-> "ErrMalformedReply", line |-> <<>>]
        ELSE [err |-> "nil", line |-> trimmed]

\* content is everything before the NUL (nul = TRUE) or before the peer
\* closed the connection (nul = FALSE); max is the bound on the content.
\* A content longer than max is rejected before its end is seen.
ReadLine(content, nul, max) ==
  LET finished == FinishLine(content)
  IN  CASE Len(content) > max ->
             [err |-> "ErrResponseTooLarge", line |-> <<>>, terminated |-> FALSE]
        [] Len(content) <= max /\ ~nul /\ content = <<>> ->
             [err |-> "EOF", line |-> <<>>, terminated |-> FALSE]
        [] OTHER ->
             [err |-> finished.err, line |-> finished.line,
              terminated |-> nul /\ finished.err = "nil"]

\* ReadBlock keeps the content as it is, and does not say how it ended.
ReadBlock(content, nul, max) ==
  CASE Len(content) > max -> [err |-> "ErrResponseTooLarge", line |-> <<>>]
    [] Len(content) <= max /\ ~nul /\ content = <<>> ->
         [err |-> "EOF", line |-> <<>>]
    [] OTHER -> [err |-> "nil", line |-> content]

-----------------------------------------------------------------------------
(* ParseScanResponse: FOUND before ERROR before the exact OK allowlist.    *)

OutcomeUnknown  == "OutcomeUnknown"
OutcomeClean    == "OutcomeClean"
OutcomeInfected == "OutcomeInfected"
OutcomeError    == "OutcomeError"

CleanLines == { <<"OK">>, <<"stream:", "SP", "OK">> }

ParseScanResponse(line) ==
  LET trimmed == TrimRight(line, Blanks)
  IN  CASE IsSuffix(<<"SP", "FOUND">>, trimmed) ->
             [outcome |-> OutcomeInfected, sizeLimit |-> FALSE]
        [] /\ ~IsSuffix(<<"SP", "FOUND">>, trimmed)
           /\ trimmed = <<"ERROR">> \/ IsSuffix(<<"SP", "ERROR">>, trimmed) ->
             [outcome |-> OutcomeError,
              sizeLimit |-> Contains(trimmed, "size limit exceeded")]
        [] trimmed \in CleanLines ->
             [outcome |-> OutcomeClean, sizeLimit |-> FALSE]
        [] OTHER ->
             [outcome |-> OutcomeUnknown, sizeLimit |-> FALSE]

-----------------------------------------------------------------------------
\* The reference for a clean reply: an OK line and nothing else but blanks
\* after it (ADR-0005).
SaysClean(text) ==
  \E k \in 0 .. Len(text) :
    /\ SubSeq(text, 1, k) \in CleanLines
    /\ \A i \in k + 1 .. Len(text) : text[i] \in Blanks

=============================================================================
