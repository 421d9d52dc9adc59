---------------------------- MODULE ChunkDivider ----------------------------
(***************************************************************************)
(* The chunks of an RTMP message (pkg/rtmp/chunk_divider.go).              *)
(*                                                                         *)
(* A message is a header (csid, ts, type, len) and its number n; the i-th  *)
(* unit of its body is <<n, i>>.  A chunk is what is on the wire: a header *)
(* with its fmt, the fields fmt has (0 for the others) and the extended    *)
(* timestamp as a sequence of at most one, and a part of a body.  The      *)
(* message stream id is left out: one chunk stream carries one of them.    *)
(***************************************************************************)
EXTENDS Integers, Sequences

CONSTANTS
  MaxTs,  \* maxTimestampInMessageHeader, 2^24 - 1
  TsMod,  \* how many timestamps there are, 2^32
  None

ASSUME TimestampConstants == MaxTs \in Nat \ {0} /\ TsMod \in Nat /\ MaxTs < TsMod

Body(m) == [i \in 1..m.len |-> <<m.n, i>>]

Smaller(a, b) == IF a < b THEN a ELSE b

shownTimestamp(header, prevHeader) ==
  IF prevHeader = None \/ header.ts > MaxTs THEN header.ts
  ELSE (header.ts - prevHeader.ts) % TsMod

\* The more a header has in common with the one before, the less of it is written.
\* A timestamp beyond MaxTs is absolute in every format; only such a one is extended.
calcHeader(header, prevHeader) ==
  LET fmt == IF prevHeader = None THEN 0
             ELSE IF header.len # prevHeader.len \/ header.type # prevHeader.type THEN 1
             ELSE IF header.ts # prevHeader.ts THEN 2 ELSE 3
      timestamp == shownTimestamp(header, prevHeader)
  IN [csid |-> header.csid, fmt |-> fmt,
      field |-> IF fmt <= 2 THEN Smaller(timestamp, MaxTs) ELSE 0,
      len |-> IF fmt <= 1 THEN header.len ELSE 0,
      type |-> IF fmt <= 1 THEN header.type ELSE "none",
      ext |-> IF timestamp > MaxTs THEN <<timestamp>> ELSE <<>>]

numOfChunk(m, chunkSize) ==
  m.len \div chunkSize + (IF m.len % chunkSize # 0 THEN 1 ELSE 0)

\* The first chunk refers to no other message, the others to their own.
message2Chunks(m, chunkSize) ==
  [i \in 1..numOfChunk(m, chunkSize) |->
     [header |-> calcHeader(m, IF i = 1 THEN None ELSE m),
      body |-> SubSeq(Body(m), (i - 1) * chunkSize + 1, Smaller(i * chunkSize, m.len))]]
=============================================================================
