----------------------------- MODULE GopWindow -----------------------------
(***************************************************************************)
(* What a GOP cache promises: the last GopNum groups of pictures, oldest   *)
(* first, each from its key frame on, and the latest header of each kind,  *)
(* all of it since the input came.                                         *)
(***************************************************************************)
EXTENDS Integers, Sequences

CONSTANTS
  HeaderKinds,   \* metadata and the sequence headers
  Headers,       \* [kind |-> the headers of that kind]
  Keys,          \* key frames
  Others,        \* every other audio or video message
  GopNum,        \* how many GOPs are kept
  None

VARIABLES gops, header

vars == <<gops, header>>

Init ==
  /\ gops = <<>>
  /\ header = [k \in HeaderKinds |-> None]

FeedHeader(k, h) ==
  /\ header' = [header EXCEPT ![k] = h]
  /\ UNCHANGED gops

\* A key frame opens a GOP; the oldest one makes room for it.
FeedKey(m) ==
  /\ \/ GopNum > 0 /\ Len(gops) < GopNum /\ gops' = Append(gops, <<m>>)
     \/ GopNum > 0 /\ Len(gops) = GopNum /\ gops' = Append(Tail(gops), <<m>>)
     \/ GopNum = 0 /\ UNCHANGED gops
  /\ UNCHANGED header

\* Anything else belongs to the GOP that is open, if there is one.
FeedOther(m) ==
  /\ gops # <<>>
  /\ gops' = [gops EXCEPT ![Len(gops)] = Append(@, m)]
  /\ UNCHANGED header

Clear ==
  /\ gops' = <<>>
  /\ header' = [k \in HeaderKinds |-> None]

Next ==
  \/ \E k \in HeaderKinds : \E h \in Headers[k] : FeedHeader(k, h)
  \/ \E m \in Keys : FeedKey(m)
  \/ \E m \in Others : FeedOther(m)
  \/ Clear

Spec == Init /\ [][Next]_vars
=============================================================================
