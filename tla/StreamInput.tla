---------------------------- MODULE StreamInput ----------------------------
(***************************************************************************)
(* What a stream promises about its input: one slot that a source takes    *)
(* only when it is free, and that is emptied before another may take it.   *)
(* Nobody is ever replaced in one step, so delIn's cleanup has its place   *)
(* between any two inputs.                                                 *)
(***************************************************************************)
CONSTANTS Sources, None
VARIABLE input

Init == input = None

Take(s) ==
  /\ input = None
  /\ input' = s

Leave ==
  /\ input # None
  /\ input' = None

Next == Leave \/ \E s \in Sources : Take(s)

Spec == Init /\ [][Next]_input
=============================================================================
