----------------------------- MODULE FailClosed -----------------------------
(***************************************************************************)
(* What a scan promises, without connections, frames, contexts or reads:   *)
(* an input is handed over to a daemon, which takes it in and says         *)
(* something about it, and the caller gets a verdict or learns that there  *)
(* is none.  The promise is to fail closed: whatever goes wrong, a clean   *)
(* verdict stands for an input that was handed over to its last byte and   *)
(* its end, and an OK from the daemon (ADR-0001, ADR-0005 and ADR-0007).   *)
(*                                                                         *)
(* What the daemon says once it has the end is about the whole input.  It  *)
(* may also speak before that.  An OK of that kind is refused as long as   *)
(* the input is not handed over; afterwards it reads like any other.       *)
(***************************************************************************)
EXTENDS Integers

CONSTANTS
  MaxStreamSize,   \* most that may be handed over; negative is unlimited
  Answers,         \* what the daemon may say
  Interruptions,   \* what it may say without having seen the end
  CleanAnswers,    \* what says clean
  FoundAnswers,    \* what speaks of a detection
  Silent           \* it has said nothing

VARIABLES
  size,      \* the length of the input
  complete,  \* the input has a proper end
  sent,      \* how much of it was handed over
  finished,  \* its end was handed over, too
  body,      \* how much of it the daemon has
  judged,    \* the daemon has seen the end
  said,      \* what the daemon says
  verdict    \* what the caller has got; "none" during the call

input == <<size, complete>>
vars  == <<input, sent, finished, body, judged, said, verdict>>

Init ==
  /\ size \in Nat /\ complete \in BOOLEAN
  /\ sent = 0 /\ finished = FALSE
  /\ body = 0 /\ judged = FALSE /\ said = Silent /\ verdict = "none"

\* More of the input is on its way to the daemon.
HandOver ==
  /\ verdict = "none" /\ ~finished
  /\ sent' \in sent + 1 .. size
  /\ MaxStreamSize >= 0 => sent' <= MaxStreamSize
  /\ UNCHANGED <<input, finished, body, judged, said, verdict>>

\* The end follows the last byte, and only where there is a proper end.
Finish ==
  /\ verdict = "none" /\ ~finished
  /\ complete /\ sent = size
  /\ finished' = TRUE
  /\ UNCHANGED <<input, sent, body, judged, said, verdict>>

\* The daemon takes in more of what is on its way, and may object.
TakeIn ==
  /\ ~judged /\ said = Silent
  /\ body' \in body + 1 .. sent
  /\ said' \in Interruptions \cup {Silent}
  /\ UNCHANGED <<input, sent, finished, judged, verdict>>

\* Only an input that has been taken in whole, with its end, is judged.
Judge ==
  /\ ~judged /\ said = Silent
  /\ finished /\ body = size
  /\ judged' = TRUE
  /\ UNCHANGED <<input, sent, finished, body, said, verdict>>

Say ==
  /\ said = Silent
  /\ said' \in (IF judged THEN Answers ELSE Interruptions)
  /\ UNCHANGED <<input, sent, finished, body, judged, verdict>>

\* There is always the option of no verdict.
Return ==
  /\ verdict = "none"
  /\ \/ verdict' = "unknown"
     \/ verdict' = "infected" /\ said \in FoundAnswers
     \/ verdict' = "clean" /\ said \in CleanAnswers /\ finished
  /\ UNCHANGED <<input, sent, finished, body, judged, said>>

NewScan ==
  /\ verdict # "none"
  /\ size' \in Nat /\ complete' \in BOOLEAN
  /\ sent' = 0 /\ finished' = FALSE
  /\ body' = 0 /\ judged' = FALSE /\ said' = Silent /\ verdict' = "none"

Next == HandOver \/ Finish \/ TakeIn \/ Judge \/ Say \/ Return \/ NewScan

Spec == Init /\ [][Next]_vars

=============================================================================
