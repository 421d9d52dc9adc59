-------------------------- MODULE MCAVPacketQueue --------------------------
(* Instances of AVPacketQueue for TLC.                                     *)
EXTENDS AVPacketQueue

CONSTANTS tcp, udpAudio, udpVideo

Starts == [m \in Media |-> IF m = "audio" THEN 2 ELSE 1]

\* Where the RTP timestamps start over: after a stream of LastClock, or within it.
Late == [m \in Media |-> TsMod - 1]
Early == [m \in Media |-> IF m = "audio" THEN 4 ELSE 5]

Interleaving == [g \in {tcp} |-> Media]
TwoSockets == [g \in {udpAudio, udpVideo} |-> IF g = udpAudio THEN {"audio"} ELSE {"video"}]
=============================================================================
