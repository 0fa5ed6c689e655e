------------------------------ MODULE MCLspClient ------------------------------
(* Instances of LspClient for TLC. *)
EXTENDS LspClient
=============================================================================
