------------------------------ MODULE MCMcpEcc ------------------------------
(***************************************************************************)
(* A small instance of McpEcc for TLC.                                     *)
(***************************************************************************)
EXTENDS McpEcc
=============================================================================
