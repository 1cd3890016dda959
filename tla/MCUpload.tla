------------------------------ MODULE MCUpload ------------------------------
(***************************************************************************)
(* A small instance of Upload for TLC.                                     *)
(***************************************************************************)
EXTENDS Upload

CONSTANTS r1, r2

MCRequests   == {r1, r2}
MCKinds      == BodyKinds
MCScanErrors == { {"ConnectionError"}, {"ClamdError"} }
=============================================================================
