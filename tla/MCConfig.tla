------------------------------ MODULE MCConfig ------------------------------
(***************************************************************************)
(* A small instance of Config for TLC: around each bound that validate     *)
(* checks, the values on both sides of it.                                 *)
(***************************************************************************)
EXTENDS Config

MCDefaults ==
  [f \in Fields |-> CASE f = "maxConcurrentScans" -> 0
                      [] OTHER -> 2]

MCValues ==
  [f \in Fields |-> CASE f \in Timeouts -> {0, 1}
                      [] f = "chunkSize" -> {0, 1, MaxChunkSize, MaxChunkSize + 1}
                      [] f = "maxStreamSize" -> {-2, NoSizeLimit, 0, 1}
                      [] f = "maxConcurrentScans" -> {-1, 0, 1}
                      [] f = "dialFunc" -> {NilFunc, 1}]
=============================================================================
