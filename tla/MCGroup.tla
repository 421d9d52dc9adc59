------------------------------ MODULE MCGroup ------------------------------
(* Instances of Group for TLC.  The sets are given by each cfg.            *)
EXTENDS Group, TLC

\* Sessions of one kind are interchangeable (safety runs only).
Symmetry ==
  Permutations(RtmpPubs) \cup Permutations(RtspPubs) \cup Permutations(RtmpSubs)
    \cup Permutations(Pulls) \cup Permutations(Pushers)
=============================================================================
