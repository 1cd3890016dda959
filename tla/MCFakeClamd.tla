---------------------------- MODULE MCFakeClamd ----------------------------
(***************************************************************************)
(* A small instance of FakeClamd for TLC.                                  *)
(***************************************************************************)
EXTENDS FakeClamd

CONSTANTS c1, c2, k1, k2

MCConns   == {c1, c2}
MCClosers == {k1, k2}

Response(hang, delay, drip, data) ==
  [hang |-> hang, delay |-> delay, drip |-> drip, data |-> data]

\* A hang, a delayed drip of two bytes, a plain reply, nothing.
MCResponses ==
  { Response(TRUE, FALSE, FALSE, 1), Response(FALSE, TRUE, TRUE, 2),
    Response(FALSE, FALSE, FALSE, 1), Response(FALSE, FALSE, FALSE, 0) }
=============================================================================
