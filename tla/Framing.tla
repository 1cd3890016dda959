------------------------------ MODULE Framing ------------------------------
(***************************************************************************)
(* The bytes of an INSTREAM stream: the frames that StreamAll writes       *)
(* (src/internal/proto/proto.go) and their decoding by readChunks of the   *)
(* fake daemon (src/internal/clamdtest/fake.go), which follows clamd.      *)
(*                                                                         *)
(* ScanStream counts bytes; here they have values, the length prefix has   *)
(* four digits and wraps, a payload byte may look like part of a header,   *)
(* and a failing write may leave any part of a frame behind.  The fill of  *)
(* a chunk is one step: how it comes about is in ScanStream.               *)
(***************************************************************************)
EXTENDS Integers, Sequences, SequencesExt

CONSTANTS
  Base,                \* bytes are 0 .. Base - 1
  MaxChunkSize, DefaultChunkSize,
  MaxFakeChunk,        \* the daemon's own cap on a chunk
  Inputs,              \* what readers may deliver
  ChunkSizes,          \* chunk sizes StreamAll may be called with
  MaxSizes,            \* values of maxBytes; negative is unlimited
  StreamLimits,        \* SetStreamLimit; 0 disables it
  EarlyAfters          \* SetEarlyReply; negative is none

Byte == 0 .. Base - 1
chunkHeaderSize == 4

ASSUME FramingAssumption ==
  /\ Base \in Nat \ {0, 1}
  /\ MaxChunkSize \in 1 .. Base * Base * Base * Base - 1
  /\ DefaultChunkSize \in 1 .. MaxChunkSize
  /\ MaxFakeChunk \in Nat /\ MaxFakeChunk >= MaxChunkSize
  /\ Inputs \subseteq Seq(Byte) /\ ChunkSizes \subseteq Int /\ MaxSizes \subseteq Int
  /\ StreamLimits \subseteq Nat /\ EarlyAfters \subseteq Int

VARIABLES
  pc,         \* where StreamAll is; "complete" and "failed" are its returns
  data,       \* what the reader delivers if it does not fail
  chunkSize,  \* the parameter, clamped
  maxBytes,   \* the parameter
  buf,        \* the payload in the buffer
  eof,        \* fill has seen io.EOF
  total,      \* payload bytes written
  wire,       \* bytes written and not yet read by the daemon
  daemon,     \* "header", "payload", "judging", "replied" or "dropped"
  need,       \* length of the chunk the daemon expects
  body,       \* payload it has decoded
  streamLimit, earlyAfter   \* its script

config     == <<data, chunkSize, maxBytes, streamLimit, earlyAfter>>
daemonVars == <<daemon, need, body>>
vars == <<pc, config, buf, eof, total, wire, daemonVars>>

-----------------------------------------------------------------------------
(* StreamAll.                                                              *)

\* The sizes are used as they come.
ClampMissing(size) == IF size <= 0 THEN DefaultChunkSize ELSE size

Clamp(size) ==
  CASE size <= 0           -> DefaultChunkSize
    [] size > MaxChunkSize -> MaxChunkSize
    [] OTHER               -> size

\* binary.BigEndian.PutUint32(uint32(n)): what does not fit is cut off.
Header(n) ==
  LET hi == n \div Base
      up == hi \div Base
  IN  <<(up \div Base) % Base, up % Base, hi % Base, n % Base>>

\* n bytes are in the buffer, and the reader's last word was end: nil (the
\* buffer is full), io.EOF or an error.  The limit is checked first.
Fill ==
  /\ pc = "fill"
  /\ \E n \in 0 .. chunkSize, end \in {"nil", "EOF", "error"} :
       /\ total + n <= Len(data)
       /\ end = "nil" => n = chunkSize
       /\ end = "EOF" => total + n = Len(data)
       /\ buf' = SubSeq(data, total + 1, total + n) /\ eof' = (end = "EOF")
       /\ pc' = IF (maxBytes >= 0 /\ total + n > maxBytes) \/ end = "error" THEN "failed"
                ELSE IF n = 0 THEN "terminator" ELSE "frame"
  /\ UNCHANGED <<config, total, wire, daemonVars>>

Frame == IF pc = "frame" THEN Header(Len(buf)) \o buf ELSE Header(0)

WriteFrame ==
  /\ pc = "frame"
  /\ wire' = wire \o Frame
  /\ total' = total + Len(buf) /\ buf' = <<>>
  /\ pc' = (IF eof THEN "terminator" ELSE "fill")
  /\ UNCHANGED <<config, eof, daemonVars>>

\* The end of the input goes unsaid when it coincides with that of a frame.
WriteTerminatorUnlessFull ==
  /\ pc = "terminator"
  /\ wire' = (IF total > 0 /\ total % chunkSize = 0 THEN wire ELSE wire \o Frame)
  /\ pc' = "complete"
  /\ UNCHANGED <<config, buf, eof, total, daemonVars>>

WriteTerminator ==
  /\ pc = "terminator"
  /\ wire' = wire \o Frame
  /\ pc' = "complete"
  /\ UNCHANGED <<config, buf, eof, total, daemonVars>>

\* The rest of the stream is sent although a frame was not written in full.
WriteBreaksOn ==
  /\ pc \in {"frame", "terminator"}
  /\ \E k \in 0 .. Len(Frame) : wire' = wire \o SubSeq(Frame, 1, k)
  /\ total' = total + Len(buf) /\ buf' = <<>>
  /\ pc' = CASE pc = "terminator" -> "failed"
             [] pc = "frame" /\ eof -> "terminator"
             [] OTHER -> "fill"
  /\ UNCHANGED <<config, eof, daemonVars>>

\* Write fails or comes up short after k bytes; nothing more is written.
WriteBreaks ==
  /\ pc \in {"frame", "terminator"}
  /\ \E k \in 0 .. Len(Frame) : wire' = wire \o SubSeq(Frame, 1, k)
  /\ pc' = "failed"
  /\ UNCHANGED <<config, buf, eof, total, daemonVars>>

-----------------------------------------------------------------------------
(* readChunks.                                                             *)

Take(n) == wire' = SubSeq(wire, n + 1, Len(wire))

\* binary.BigEndian.Uint32.
Number(digits) ==
  ((digits[1] * Base + digits[2]) * Base + digits[3]) * Base + digits[4]

ReadHeader ==
  /\ daemon = "header" /\ Len(wire) >= chunkHeaderSize
  /\ need' = Number(SubSeq(wire, 1, chunkHeaderSize)) /\ Take(chunkHeaderSize)
  /\ daemon' = CASE need' = 0            -> "judging"
                 [] need' > MaxFakeChunk -> "dropped"
                 [] OTHER                -> "payload"
  /\ UNCHANGED <<pc, config, buf, eof, total, body>>

\* The early reply and the stream limit are checked on the same chunk; either
\* is a reply in the middle of the stream.
ReadPayload ==
  /\ daemon = "payload" /\ Len(wire) >= need
  /\ body' = body \o SubSeq(wire, 1, need) /\ Take(need)
  /\ daemon' = (IF \/ earlyAfter >= 0 /\ Len(body') > earlyAfter
                   \/ streamLimit > 0 /\ Len(body') > streamLimit
                  THEN "replied" ELSE "header")
  /\ UNCHANGED <<pc, config, buf, eof, total, need>>

\* io.ReadFull at the end of what a failed client has written.
ReadEOF ==
  /\ pc = "failed"
  /\ \/ daemon = "header" /\ Len(wire) < chunkHeaderSize
     \/ daemon = "payload" /\ Len(wire) < need
  /\ daemon' = "dropped"
  /\ UNCHANGED <<pc, config, buf, eof, total, wire, need, body>>

-----------------------------------------------------------------------------
Init ==
  /\ pc = "fill" /\ data \in Inputs
  /\ chunkSize \in {Clamp(size) : size \in ChunkSizes} /\ maxBytes \in MaxSizes
  /\ streamLimit \in StreamLimits /\ earlyAfter \in EarlyAfters
  /\ buf = <<>> /\ eof = FALSE /\ total = 0 /\ wire = <<>>
  /\ daemon = "header" /\ need = 0 /\ body = <<>>

StreamAll == Fill \/ WriteFrame \/ WriteTerminator
Daemon    == ReadHeader \/ ReadPayload \/ ReadEOF

\* StreamAll has returned.
Terminated == pc \in {"complete", "failed"} /\ UNCHANGED vars

Next == StreamAll \/ WriteBreaks \/ Daemon \/ Terminated

Spec == Init /\ [][Next]_vars
FairSpec == Spec /\ WF_vars(StreamAll) /\ WF_vars(Daemon)

-----------------------------------------------------------------------------
(* Properties.                                                             *)

\* What the daemon has decoded is what the reader delivered, from its first
\* byte on, within the client's limit; a terminator is understood exactly
\* where StreamAll wrote one, after the last byte of an input that ended with
\* io.EOF.  No length wraps around, no payload byte is taken for a header, no
\* part of a frame for a whole one (StreamAll: "On any error the zero-length
\* terminator is NOT written").
DecodesWhatWasRead ==
  /\ IsPrefix(body, data)
  /\ maxBytes >= 0 => Len(body) <= maxBytes
  /\ daemon = "judging" => eof /\ body = data
  /\ daemon = "dropped" => pc = "failed"

\* A stream that StreamAll calls complete is understood as complete, or was
\* answered before its end: the client never waits for the verdict of a daemon
\* that waits for more of the stream.
CompleteIsUnderstood == (pc = "complete") ~> (daemon \in {"judging", "replied"})

=============================================================================
