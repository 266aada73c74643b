------------------------------ MODULE MCMcpTx ------------------------------
(***************************************************************************)
(* Small instances of McpTx for TLC; the .cfg files give the constants.    *)
(***************************************************************************)
EXTENDS McpTxInv
=============================================================================
