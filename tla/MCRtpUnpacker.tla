--------------------------- MODULE MCRtpUnpacker ---------------------------
(* Instances of RtpReceiver for TLC.                                       *)
EXTENDS RtpReceiver

\* Key frames of several packets, aggregated and single ones, and a packet nobody
\* can parse.
MixedFrames ==
  << <<"single">>, <<"bad">>, <<"start", "mid", "end">>, <<"single">>,
     <<"start", "end">>, <<"stap">>, <<"single">> >>

\* What NothingGivenUpNeedlessly (RtpReceiverProofs) assumes of the list holds in the run,
\* and would not with a list of one less.
ASSUME RoomEnough == RoomForLate
=============================================================================
