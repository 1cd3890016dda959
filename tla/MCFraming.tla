----------------------------- MODULE MCFraming -----------------------------
(***************************************************************************)
(* A small instance of Framing for TLC: two-valued bytes, so that a chunk  *)
(* of sixteen wraps to a terminator.  Only inputs of one repeated byte are *)
(* that long.                                                              *)
(***************************************************************************)
EXTENDS Framing

MCInputs       == UNION {[1 .. n -> Byte] : n \in {0, 1, 2, 3, 5}}
                    \cup UNION {{[i \in 1 .. n |-> b] : b \in Byte} : n \in {16, 17}}
MCChunkSizes   == {-1, 0, 1, 3, 16, 17}
MCMaxSizes     == {-1, 3}
MCStreamLimits == {0, 2}
MCEarlyAfters  == {-1, 1}
=============================================================================
