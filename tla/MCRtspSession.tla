--------------------------- MODULE MCRtspSession ---------------------------
(* Instances of RtspSession for TLC. *)
EXTENDS RtspSession

CONSTANTS c1, c2

\* One end over TCP, the other over UDP.
OneOverTCP == {{c1}, {c2}}
AllOverTCP == {Conns}
=============================================================================
