---------------------------- MODULE MCScanSlots -----------------------------
(***************************************************************************)
(* Small instances of ScanSlots for TLC.  Goroutines are interchangeable,  *)
(* which the safety runs use; liveness is checked without the reduction.   *)
(***************************************************************************)
EXTENDS ScanSlots, TLC

CONSTANTS s1, s2, s3, s4

Two   == {s1, s2}
Three == {s1, s2, s3}
Four  == {s1, s2, s3, s4}

\* A path that names a directory or a FIFO is refused like one that names an
\* oversized file.
FileOrFifo == {"regular", "special"}
NotOversized == PathKinds \ {"oversized"}

Interchangeable == Permutations(Scans)
=============================================================================
