----------------------------- MODULE SeqNumber -----------------------------
(***************************************************************************)
(* RTP sequence numbers (pkg/rtprtcp/rtp.go): CompareSeq and SubSeq on     *)
(* SeqModulus numbers (2^16 in the code), with a Window of a quarter       *)
(* of them (16384) that tells a wrap from a large difference.  SubSeq is   *)
(* named SeqDiff here, for SubSeq is an operator of Sequences.             *)
(***************************************************************************)
EXTENDS Integers

CONSTANTS Window

ASSUME WindowPositive == Window \in Nat \ {0}

SeqModulus == 4 * Window

CompareSeq(a, b) ==
  IF a = b THEN 0
  ELSE IF a > b THEN (IF a - b < Window THEN 1 ELSE -1)
  ELSE IF b - a < Window THEN -1
  ELSE 1

\* SubSeq: a - b, negative when a is the earlier one.
SeqDiff(a, b) ==
  IF a > b THEN (IF a - b < Window THEN a - b ELSE a - b - SeqModulus)
  ELSE IF b - a < Window THEN a - b
  ELSE SeqModulus - (b - a)

Sign(d) == IF d > 0 THEN 1 ELSE IF d < 0 THEN -1 ELSE 0
=============================================================================
