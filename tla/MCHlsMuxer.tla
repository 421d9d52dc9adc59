---------------------------- MODULE MCHlsMuxer ----------------------------
(* Instances of HlsMuxer for TLC.                                          *)
EXTENDS HlsMuxer

\* A step within a fragment, one that fills it (two of them without a key frame
\* are a jump that forces a split), and one back.
Mixed == {1, 5, -6}
=============================================================================
