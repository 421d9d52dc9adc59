------------------------------ MODULE MCFanout ------------------------------
(* A small instance of Fanout: a header for video and one for audio, key    *)
(* frames, other frames and audio, numbered as they are sent.               *)
EXTENDS Fanout

CONSTANTS r, f, t, Numbers

MCHeaders == [k \in HeaderKinds |-> {<<k, n>> : n \in Numbers}]
MCOrder == <<"vsh", "ash">>
MCKeys == {<<"key", n>> : n \in Numbers}
MCOthers == {<<"inter", n>> : n \in Numbers} \cup {<<"audio", n>> : n \in Numbers}
MCVideo == MCKeys \cup {<<"inter", n>> : n \in Numbers}
=============================================================================
