------------------------------ MODULE GopCache ------------------------------
(***************************************************************************)
(* The GOP cache of a group (pkg/logic/gop_cache.go): a ring of            *)
(* gopSize = gopNum + 1 slots of which one is always free, so that an      *)
(* empty ring and a full one differ.  A slot is cleared when it is opened  *)
(* again, not when its GOP leaves the ring; Clear only resets the two      *)
(* indices.  A message stands for the bytes its LazyGet returns.           *)
(***************************************************************************)
EXTENDS Integers, Sequences

CONSTANTS
  HeaderKinds,   \* metadata, video and AAC sequence headers
  Headers,       \* [kind |-> the headers of that kind]
  Keys,          \* video key frames
  Others,        \* other video messages, and audio messages
  GopNum,        \* gopNum of NewGOPCache
  MaxGopLen,     \* bound of the model: messages in one GOP
  None

ASSUME GopNumNat == GopNum \in Nat
ASSUME MaxGopLenNat == MaxGopLen \in Nat \ {0}
ASSUME NoneFresh == \A k \in HeaderKinds : None \notin Headers[k]

VARIABLES gopRing, gopRingFirst, gopRingLast, header

vars == <<gopRing, gopRingFirst, gopRingLast, header>>

gopSize == GopNum + 1
Msgs == Keys \cup Others

TypeOK ==
  /\ gopRing \in [0 .. gopSize - 1 -> Seq(Msgs)]
  /\ gopRingFirst \in 0 .. gopSize - 1
  /\ gopRingLast \in 0 .. gopSize - 1
  /\ header \in [HeaderKinds -> {None} \cup UNION {Headers[k] : k \in HeaderKinds}]

Init ==
  /\ gopRing = [i \in 0 .. gopSize - 1 |-> <<>>]
  /\ gopRingFirst = 0
  /\ gopRingLast = 0
  /\ header = [k \in HeaderKinds |-> None]

isGOPRingFull == (gopRingLast + 1) % gopSize = gopRingFirst
isGOPRingEmpty == gopRingFirst = gopRingLast

GetGOPCount == (gopRingLast + gopSize - gopRingFirst) % gopSize

\* nil (None) outside the window.
GetGOPDataAt(pos) ==
  IF pos < 0 \/ pos >= GetGOPCount THEN None
  ELSE gopRing[(pos + gopRingFirst) % gopSize]

\* Feed of metadata and of a sequence header.
FeedHeader(k, h) ==
  /\ header' = [header EXCEPT ![k] = h]
  /\ UNCHANGED <<gopRing, gopRingFirst, gopRingLast>>

\* A key frame opens the slot at gopRingLast; the first GOP leaves a full ring.
feedNewGOP(m) ==
  /\ gopRingFirst' = IF isGOPRingFull THEN (gopRingFirst + 1) % gopSize ELSE gopRingFirst
  /\ gopRing' = [gopRing EXCEPT ![gopRingLast] = <<m>>]
  /\ gopRingLast' = (gopRingLast + 1) % gopSize

feedLastGOP(m) ==
  LET open == (gopRingLast - 1 + gopSize) % gopSize
  IN /\ ~isGOPRingEmpty
     /\ Len(gopRing[open]) < MaxGopLen
     /\ gopRing' = [gopRing EXCEPT ![open] = Append(@, m)]
     /\ UNCHANGED <<gopRingFirst, gopRingLast>>

\* Feed of any other message (a cache of no GOP keeps none).
FeedMsg(m) ==
  /\ gopSize > 1
  /\ \/ m \in Keys /\ feedNewGOP(m)
     \/ m \in Others /\ feedLastGOP(m)
  /\ UNCHANGED header

\* Mutant: one of the indices is forgotten.
Clear_KeepsFirst ==
  /\ header' = [k \in HeaderKinds |-> None]
  /\ gopRingLast' = 0
  /\ UNCHANGED <<gopRing, gopRingFirst>>

\* Clear: the slots keep their data, the window over them is emptied.
Clear ==
  /\ header' = [k \in HeaderKinds |-> None]
  /\ gopRingLast' = 0
  /\ gopRingFirst' = 0
  /\ UNCHANGED gopRing

Next ==
  \/ \E k \in HeaderKinds : \E h \in Headers[k] : FeedHeader(k, h)
  \/ \E m \in Msgs : FeedMsg(m)
  \/ Clear

Spec == Init /\ [][Next]_vars
-----------------------------------------------------------------------------
\* The GOPs a fresh player is given, as broadcastRTMP reads them.
Gops == [i \in 1 .. GetGOPCount |-> GetGOPDataAt(i - 1)]

\* The ring implements the window: a player that joins gets the last GOPs in
\* the order they came, whole, with nothing of the GOPs their slots held before
\* and nothing fed before Clear (GetGOPCount, GetGOPDataAt, Feed, Clear).
Window == INSTANCE GopWindow WITH gops <- Gops
ImplementsWindow == Window!Spec

\* What is played from the cache can be decoded: every GOP in the window begins
\* with its key frame and holds no second one.
GopsDecodable ==
  \A i \in DOMAIN Gops :
    /\ Gops[i] # <<>>
    /\ \A j \in DOMAIN Gops[i] : Gops[i][j] \in Keys <=> j = 1
=============================================================================
