----------------------------- MODULE MCMcpLife -----------------------------
(***************************************************************************)
(* Small instances of McpLife for TLC; the .cfg files give the constants.  *)
(***************************************************************************)
EXTENDS McpLife
=============================================================================
