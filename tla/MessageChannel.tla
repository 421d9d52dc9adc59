--------------------------- MODULE MessageChannel ---------------------------
(***************************************************************************)
(* What an RTMP connection promises in one direction: the receiver is given *)
(* the messages the sender has written, each once, in the order in which   *)
(* their last bytes were written.                                          *)
(***************************************************************************)
EXTENDS Naturals, Sequences

VARIABLES written, received

Init == written = <<>> /\ received = <<>>

Write ==
  /\ Len(written') = Len(written) + 1
  /\ SubSeq(written', 1, Len(written)) = written
  /\ UNCHANGED received

Deliver ==
  /\ Len(received) < Len(written)
  /\ received' = Append(received, written[Len(received) + 1])
  /\ UNCHANGED written

Next == Write \/ Deliver

Spec == Init /\ [][Next]_<<written, received>>
=============================================================================
