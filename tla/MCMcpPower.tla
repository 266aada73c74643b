---------------------------- MODULE MCMcpPower ----------------------------
(***************************************************************************)
(* A small instance of McpPower for TLC: two probes, every board.          *)
(***************************************************************************)
EXTENDS McpPower
=============================================================================
