------------------------------ MODULE MCMcpRx ------------------------------
(***************************************************************************)
(* Small instances of McpRx for TLC; the .cfg files give the constants.    *)
(***************************************************************************)
EXTENDS McpRx
=============================================================================
