----------------------------- MODULE MCTsPacket -----------------------------
(* An instance of TsPacket: sizes around those that fill one and two        *)
(* packets, with each of the headers, and the largest a PES header tells.  *)
EXTENDS TsPacket

MCSizes == {0, 1, 2} \cup 156..171 \cup 340..355 \cup {3000, 65527, 65528}
=============================================================================
