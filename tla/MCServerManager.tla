-------------------------- MODULE MCServerManager --------------------------
(* Instances of ServerManager for TLC. *)
EXTENDS ServerManager

=============================================================================
