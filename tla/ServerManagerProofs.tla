------------------------ MODULE ServerManagerProofs ------------------------
(* Proofs about ServerManager, for every value of its constants.           *)
EXTENDS ServerManager, SequenceTheorems, TLAPS

----------------------------------------------------------------------------
(* The sessions of a group and the groups of the map.                      *)

\* The variables NoLostSession and NoGhostSession speak of, and their types.
TableType ==
  /\ groupMap \in [Names -> {"absent", "live", "disposed"}]
  /\ input \in [Names -> Pubs \cup {None}]
  /\ outs \in [Names -> SUBSET Subs]
  /\ conn \in [Sessions -> {"new", "refused", "described", "in", "gone"}]
  /\ stream \in [Sessions -> Names \cup {None}]

tableVars == <<groupMap, input, outs, conn, stream, closed>>

\* A session that has reached its callback has a name.
Named == \A s \in Sessions : conn[s] # "new" /\ conn[s] # "gone" => stream[s] \in Names

TableInv == TableType /\ Named /\ NoLostSession /\ NoGhostSession

LEMMA TableInit == Init => TableInv
BY SessionKinds DEF Init, TableInv, TableType, Named, NoLostSession, NoGhostSession

\* A step that leaves the tables alone keeps the invariant.
LEMMA TableStutter == TableInv /\ UNCHANGED tableVars => TableInv'
BY DEF TableInv, TableType, Named, NoLostSession, NoGhostSession, tableVars

\* A publisher is accepted by a name without an input, and refused by any other.
LEMMA TableNewPub ==
  ASSUME TableInv, NEW s \in Pubs, NEW n \in Names, NewPub(s, n)
  PROVE  TableInv'
<1> USE SessionKinds DEF TableInv, Sessions
<1>1. /\ conn[s] = "new" /\ s \in Sessions /\ s \notin Subs /\ s # None
      /\ groupMap' = [groupMap EXCEPT ![n] = IF @ = "absent" THEN "live" ELSE @]
      /\ stream' = [stream EXCEPT ![s] = n]
      /\ outs' = outs
  BY DEF NewPub, getOrCreateGroup
<1>2. groupMap'[n] # "absent" /\ \A m \in Names : groupMap[m] # "absent" => groupMap'[m] # "absent"
  BY <1>1 DEF TableType
<1>3. CASE input[n] = None /\ input' = [input EXCEPT ![n] = s]
           /\ conn' = [conn EXCEPT ![s] = "in"] /\ closed' = closed
  <2>1. TableType' /\ Named'
    BY <1>1, <1>3 DEF TableType, Named
  <2>2. NoLostSession'
    BY <1>1, <1>2, <1>3 DEF TableType, NoLostSession
  <2>3. NoGhostSession'
    BY <1>1, <1>3 DEF TableType, NoGhostSession
  <2>4. QED
    BY <2>1, <2>2, <2>3
<1>4. CASE input' = input /\ conn' = [conn EXCEPT ![s] = "refused"] /\ closed' = closed \cup {s}
  <2>1. TableType' /\ Named'
    BY <1>1, <1>4 DEF TableType, Named
  <2>2. NoLostSession'
    BY <1>1, <1>2, <1>4 DEF TableType, NoLostSession
  <2>3. NoGhostSession'
    BY <1>1, <1>4 DEF TableType, NoGhostSession
  <2>4. QED
    BY <2>1, <2>2, <2>3
<1>5. QED
  BY <1>3, <1>4 DEF NewPub

\* A player is put into its group's table, or its nil table ends the process.
LEMMA TableNewSub ==
  ASSUME TableInv, NEW s \in Subs, NEW n \in Names, NewSub(s, n),
         conn[s] = "new" \/ (conn[s] = "described" /\ stream[s] = n)
  PROVE  TableInv'
<1> USE SessionKinds DEF TableInv, Sessions
<1>1. /\ s \in Sessions /\ s \notin Pubs /\ s # None
      /\ groupMap' = [groupMap EXCEPT ![n] = IF @ = "absent" THEN "live" ELSE @]
      /\ stream' = [stream EXCEPT ![s] = n]
      /\ input' = input /\ closed' = closed
  BY DEF NewSub, getOrCreateGroup
<1>2. groupMap'[n] # "absent" /\ \A m \in Names : groupMap[m] # "absent" => groupMap'[m] # "absent"
  BY <1>1 DEF TableType
<1>3. CASE outs' = [outs EXCEPT ![n] = @ \cup {s}] /\ conn' = [conn EXCEPT ![s] = "in"]
  <2>1. TableType' /\ Named'
    BY <1>1, <1>3 DEF TableType, Named
  <2>2. NoLostSession'
    BY <1>1, <1>2, <1>3 DEF TableType, NoLostSession
  <2>3. NoGhostSession'
    BY <1>1, <1>3 DEF TableType, NoGhostSession
  <2>4. QED
    BY <2>1, <2>2, <2>3
<1>4. CASE outs' = outs /\ conn' = conn
  <2>1. TableType' /\ Named'
    BY <1>1, <1>4 DEF TableType, Named
  <2>2. NoLostSession'
    BY <1>1, <1>2, <1>4 DEF TableType, NoLostSession
  <2>3. NoGhostSession'
    BY <1>1, <1>4 DEF TableType, NoGhostSession
  <2>4. QED
    BY <2>1, <2>2, <2>3
<1>5. QED
  BY <1>3, <1>4 DEF NewSub

LEMMA TableDescribe ==
  ASSUME TableInv, NEW s \in Subs, NEW n \in Names, OnNewRTSPSubSessionDescribe(s, n)
  PROVE  TableInv'
<1> USE SessionKinds DEF TableInv, Sessions
<1>1. /\ s \in Sessions /\ s \notin Pubs /\ s # None /\ conn[s] = "new"
      /\ groupMap' = [groupMap EXCEPT ![n] = IF @ = "absent" THEN "live" ELSE @]
      /\ stream' = [stream EXCEPT ![s] = n]
      /\ input' = input /\ outs' = outs /\ closed' = closed
      /\ conn' = [conn EXCEPT ![s] = IF input[n] \in RtspPubs THEN "described" ELSE "refused"]
  BY DEF OnNewRTSPSubSessionDescribe, getOrCreateGroup
<1>2. \A m \in Names : groupMap[m] # "absent" => groupMap'[m] # "absent"
  BY <1>1 DEF TableType
<1>3. TableType' /\ Named'
  BY <1>1 DEF TableType, Named
<1>4. NoLostSession'
  BY <1>1, <1>2 DEF TableType, NoLostSession
<1>5. NoGhostSession'
  BY <1>1 DEF TableType, NoGhostSession
<1>6. QED
  BY <1>3, <1>4, <1>5

LEMMA TableDelPub ==
  ASSUME TableInv, NEW s \in Pubs, DelPub(s)
  PROVE  TableInv'
<1> USE SessionKinds DEF TableInv, Sessions
<1>1. /\ s \in Sessions /\ s \notin Subs /\ s # None /\ conn[s] \in {"in", "refused"}
      /\ conn' = [conn EXCEPT ![s] = "gone"]
      /\ groupMap' = groupMap /\ stream' = stream /\ closed' = closed /\ outs' = outs
  BY DEF DelPub, Gone
<1>2. stream[s] \in Names
  BY <1>1 DEF Named
<1>3. /\ input[stream[s]] = s => input' = [input EXCEPT ![stream[s]] = None]
      /\ input[stream[s]] # s => input' = input
  BY DEF DelPub
<1>4. TableType' /\ Named'
  BY <1>1, <1>2, <1>3 DEF TableType, Named
<1>5. ASSUME NEW t \in Sessions, conn'[t] = "in", t \notin closed'
      PROVE  /\ groupMap'[stream'[t]] # "absent"
             /\ t = input'[stream'[t]] \/ t \in outs'[stream'[t]]
  <2>1. t # s /\ conn[t] = "in" /\ stream[t] \in Names
    BY <1>1, <1>5 DEF TableType, Named
  <2>2. groupMap[stream[t]] # "absent" /\ (t = input[stream[t]] \/ t \in outs[stream[t]])
    BY <1>1, <1>5, <2>1 DEF NoLostSession
  <2>3. t = input[stream[t]] => t = input'[stream[t]]
    BY <1>2, <1>3, <2>1 DEF TableType
  <2>4. QED
    BY <1>1, <2>2, <2>3
<1>6. NoGhostSession'
  BY <1>1, <1>2, <1>3 DEF TableType, NoGhostSession
<1>7. QED
  BY <1>4, <1>5, <1>6 DEF NoLostSession

LEMMA TableDelSub ==
  ASSUME TableInv, NEW s \in Subs, DelSub(s), conn[s] \in {"described", "refused", "in"}
  PROVE  TableInv'
<1> USE SessionKinds DEF TableInv, Sessions
<1>1. /\ s \in Sessions /\ s \notin Pubs /\ s # None
      /\ conn' = [conn EXCEPT ![s] = "gone"]
      /\ groupMap' = groupMap /\ stream' = stream /\ closed' = closed /\ input' = input
      /\ outs' = [outs EXCEPT ![stream[s]] = @ \ {s}]
  BY DEF DelSub, Gone
<1>2. stream[s] \in Names
  BY <1>1 DEF Named
<1>3. TableType' /\ Named'
  BY <1>1, <1>2 DEF TableType, Named
<1>4. NoLostSession'
  BY <1>1, <1>2 DEF TableType, NoLostSession
<1>5. NoGhostSession'
  BY <1>1, <1>2 DEF TableType, NoGhostSession
<1>6. QED
  BY <1>3, <1>4, <1>5

\* The ticker erases groups that nobody belongs to, and closes whom it drops.
LEMMA TableTick ==
  ASSUME TableInv, iterateGroup
  PROVE  TableInv'
<1> USE SessionKinds DEF TableInv, Sessions
<1>1. PICK silent \in SUBSET Droppable :
        /\ closed' = closed \cup silent
        /\ input' = [n \in Names |-> IF input[n] \in silent \cap RtspPubs
                                     THEN None ELSE input[n]]
        /\ outs' = [n \in Names |-> outs[n] \ silent]
  BY DEF iterateGroup
<1>2. /\ groupMap' = [n \in Names |-> IF n \in EmptyGroups THEN "absent" ELSE groupMap[n]]
      /\ conn' = conn /\ stream' = stream
  BY DEF iterateGroup
<1>3. \A n \in Names : n \in EmptyGroups => input[n] = None /\ outs[n] = {}
  BY DEF EmptyGroups, IsTotalEmpty
<1>4. TableType' /\ Named'
  BY <1>1, <1>2 DEF TableType, Named
<1>5. ASSUME NEW s \in Sessions, conn'[s] = "in", s \notin closed'
      PROVE  /\ groupMap'[stream'[s]] # "absent"
             /\ s = input'[stream'[s]] \/ s \in outs'[stream'[s]]
  <2>1. s \notin silent /\ stream[s] \in Names /\ s # None
    BY <1>1, <1>2, <1>5 DEF Named
  <2>2. groupMap[stream[s]] # "absent" /\ (s = input[stream[s]] \/ s \in outs[stream[s]])
    BY <1>1, <1>2, <1>5 DEF NoLostSession
  <2>3. QED
    BY <1>1, <1>2, <1>3, <2>1, <2>2
<1>6. NoGhostSession'
  BY <1>1, <1>2 DEF TableType, NoGhostSession
<1>7. QED
  BY <1>4, <1>5, <1>6 DEF NoLostSession

\* Group.Dispose closes whom it drops; RTSP players stay.
LEMMA TableDispose ==
  ASSUME TableInv, NEW c \in Callers, NEW n \in Names, DisposeGroup(c, n)
  PROVE  TableInv'
<1> USE SessionKinds DEF TableInv, Sessions
<1>1. /\ groupMap' = [groupMap EXCEPT ![n] = "disposed"]
      /\ closed' = closed \cup (({input[n]} \ {None}) \cup (outs[n] \ RtspSubs))
      /\ input' = [input EXCEPT ![n] = None]
      /\ outs' = [outs EXCEPT ![n] = @ \cap RtspSubs]
      /\ conn' = conn /\ stream' = stream
  BY DEF DisposeGroup
<1>2. TableType' /\ Named'
  BY <1>1 DEF TableType, Named
<1>3. NoLostSession'
  BY <1>1 DEF TableType, NoLostSession, Named
<1>4. NoGhostSession'
  BY <1>1 DEF TableType, NoGhostSession
<1>5. QED
  BY <1>2, <1>3, <1>4

LEMMA TableNext == TableInv /\ [Next]_vars => TableInv'
<1> SUFFICES ASSUME TableInv, [Next]_vars PROVE TableInv'
  OBVIOUS
<1>1. CASE \E s \in Pubs : PubNext(s)
  BY <1>1, TableNewPub, TableDelPub
  DEF PubNext, OnNewRTMPPubSession, OnNewRTSPPubSession, OnDelRTMPPubSession, OnDelRTSPPubSession
<1>2. CASE \E s \in Subs : SubNew(s)
  <2>1. PICK s \in Subs : SubNew(s)
    BY <1>2
  <2>2. CASE \E n \in Names : conn[s] = "new" /\ NewSub(s, n)
    <3>1. PICK n \in Names : conn[s] = "new" /\ NewSub(s, n)
      BY <2>2
    <3>2. QED
      BY <3>1, TableNewSub
  <2>3. CASE \E n \in Names : OnNewRTSPSubSessionDescribe(s, n)
    BY <2>3, TableDescribe
  <2>4. CASE OnNewRTSPSubSessionPlay(s)
    <3>1. stream[s] \in Names /\ conn[s] = "described" /\ NewSub(s, stream[s])
      BY <2>4 DEF OnNewRTSPSubSessionPlay, TableInv, Named, Sessions
    <3>2. QED
      BY <3>1, TableNewSub
  <2>5. QED
    BY <2>1, <2>2, <2>3, <2>4
    DEF SubNew, OnNewRTMPSubSession, OnNewHTTPFLVSubSession, OnNewHTTPTSSubSession
<1>3. CASE \E s \in Subs : SubDel(s)
  BY <1>3, TableDelSub
  DEF SubDel, OnDelRTMPSubSession, OnDelHTTPFLVSubSession, OnDelHTTPTSSubSession, OnDelRTSPSubSession
<1>4. CASE iterateGroup
  BY <1>4, TableTick
<1>5. CASE \E c \in Callers, n \in Names : DisposeGroup(c, n)
  BY <1>5, TableDispose
<1>6. CASE UNCHANGED tableVars
  BY <1>6, TableStutter
<1>7. CASE TickFires \/ \E n \in Names : CleanupCheck(n) \/ CleanupRemove(n)
  BY <1>6, <1>7
  DEF TickFires, CleanupCheck, CleanupRemove, groupVars, sessVars, tableVars
<1>8. CASE \E c \in Callers : DisposeLock(c) \/ DisposeUnlock(c) \/ Exit(c)
  BY <1>6, <1>8 DEF DisposeLock, DisposeUnlock, Exit, groupVars, sessVars, tableVars
<1>9. CASE Post \/ UNCHANGED vars
  BY <1>6, <1>9 DEF Post, vars, groupVars, sessVars, tableVars
<1>10. QED
  BY <1>1, <1>2, <1>3, <1>4, <1>5, <1>7, <1>8, <1>9 DEF Next, Disposing

\* Whoever is connected and not closed is found under his name, for any number of
\* names, sessions and callers of Dispose: the ticker erases no group, and a shutdown
\* empties none, that somebody who is not told belongs to.
THEOREM NobodyLost == Spec => []NoLostSession
<1>1. TableInv => NoLostSession
  BY DEF TableInv
<1>2. QED
  BY <1>1, TableInit, TableNext, PTL DEF Spec

\* No group has a session in its tables that was deleted, or that belongs to another name.
THEOREM NoGhosts == Spec => []NoGhostSession
<1>1. TableInv => NoGhostSession
  BY DEF TableInv
<1>2. QED
  BY <1>1, TableInit, TableNext, PTL DEF Spec

----------------------------------------------------------------------------
(* The notifications: why a stop finds its start before it.                *)

NoteType ==
  /\ conn \in [Sessions -> {"new", "refused", "described", "in", "gone"}]
  /\ queue \in Seq(Events)
  /\ start \in [Sessions -> {"none", "queued", "told", "lost"}]

\* Who has been in a group and is not an RTSP player had a start, if any is told.
Began ==
  \A s \in Sessions \ RtspSubs :
    KindOf(s) \in NotifyOn /\ conn[s] \in {"in", "refused", "gone"} => start[s] # "none"

\* A start that waits is in the queue.
Queued ==
  \A s \in Sessions : start[s] = "queued" => \E j \in DOMAIN queue : queue[j] = Event(s, "start")

\* A stop in the queue is of a session that is gone, so no start follows it.
Ended ==
  \A i \in DOMAIN queue :
    queue[i].what = "stop" /\ queue[i].who \notin RtspSubs => conn[queue[i].who] = "gone"

NoteInv == NoteType /\ Began /\ Queued /\ Ended /\ StopAfterStart

LEMMA NoteInit == Init => NoteInv
BY DEF Init, NoteInv, NoteType, Began, Queued, Ended, StopAfterStart

LEMMA NoteStutter == NoteInv /\ UNCHANGED <<conn, noteVars>> => NoteInv'
BY DEF NoteInv, NoteType, Began, Queued, Ended, StopAfterStart, noteVars

\* What a longer queue has, by index.
LEMMA Longer ==
  ASSUME queue \in Seq(Events), NEW e \in Events, queue' = Append(queue, e)
  PROVE  /\ queue' \in Seq(Events)
         /\ DOMAIN queue' = 1 .. Len(queue) + 1
         /\ DOMAIN queue = 1 .. Len(queue) /\ Len(queue) \in Nat
         /\ \A i \in DOMAIN queue : i \in DOMAIN queue' /\ queue'[i] = queue[i]
         /\ queue'[Len(queue) + 1] = e
<1>1. /\ queue' \in Seq(Events) /\ Len(queue') = Len(queue) + 1
      /\ \A i \in 1 .. Len(queue) : queue'[i] = queue[i]
      /\ queue'[Len(queue) + 1] = e
  BY AppendProperties
<1>2. /\ DOMAIN queue = 1 .. Len(queue) /\ Len(queue) \in Nat
      /\ DOMAIN queue' = 1 .. Len(queue')
  BY <1>1, LenProperties
<1>3. QED
  BY <1>1, <1>2

\* A start joins the queue, or is lost to a full one.
LEMMA NoteStart ==
  ASSUME NoteInv, NEW s \in Sessions, asyncPost(s, "start"),
         s \in RtspSubs \/ conn[s] = "new",
         NEW c \in {"in", "refused"}, conn' = [conn EXCEPT ![s] = c]
  PROVE  NoteInv'
<1> USE DEF NoteInv
<1> DEFINE e == Event(s, "start")
<1>1. e \in Events /\ e.who = s /\ e.what = "start"
  BY DEF Event, Events
<1>2. conn' \in [Sessions -> {"new", "refused", "described", "in", "gone"}]
  BY DEF NoteType
<1>3. CASE KindOf(s) \in NotifyOn /\ ~Full
  <2>1. queue' = Append(queue, e) /\ start' = [start EXCEPT ![s] = "queued"]
    BY <1>3 DEF asyncPost
  <2>2. /\ queue' \in Seq(Events)
        /\ DOMAIN queue' = 1 .. Len(queue) + 1
        /\ DOMAIN queue = 1 .. Len(queue) /\ Len(queue) \in Nat
        /\ \A i \in DOMAIN queue : i \in DOMAIN queue' /\ queue'[i] = queue[i]
        /\ queue'[Len(queue) + 1] = e
    BY <1>1, <2>1, Longer DEF NoteType
  <2> HIDE DEF e
  <2>3. NoteType' /\ Began'
    BY <1>2, <2>1, <2>2 DEF NoteType, Began, KindOf
  <2>4. Queued'
    <3>1. ASSUME NEW t \in Sessions, start'[t] = "queued"
          PROVE  \E j \in DOMAIN queue' : queue'[j] = Event(t, "start")
      <4>1. CASE t = s
        BY <2>2, <4>1 DEF e
      <4>2. CASE t # s
        BY <2>1, <2>2, <3>1, <4>2 DEF NoteType, Queued
      <4>3. QED
        BY <4>1, <4>2
    <3>2. QED
      BY <3>1 DEF Queued, Event
  <2>5. ASSUME NEW i \in DOMAIN queue', queue'[i].what = "stop", queue'[i].who \notin RtspSubs
        PROVE  /\ i \in DOMAIN queue /\ queue'[i] = queue[i]
               /\ queue[i].who # s /\ queue[i].who \in Sessions
    <3>1. i \in DOMAIN queue /\ queue'[i] = queue[i]
      BY <1>1, <2>2, <2>5
    <3>2. queue[i] \in Events
      BY <3>1 DEF NoteType
    <3>3. queue[i].who \in Sessions
      BY <2>5, <3>1, <3>2 DEF Events
    <3>4. QED
      BY <2>5, <3>1, <3>3 DEF Ended
  <2>6. Ended'
    BY <2>5 DEF Ended, NoteType
  <2>7. StopAfterStart'
    <3>1. ASSUME NEW i \in DOMAIN queue', queue'[i].what = "stop", queue'[i].who \notin RtspSubs
          PROVE  \/ start'[queue'[i].who] \in {"told", "lost"}
                 \/ \E j \in 1 .. i - 1 : queue'[j] = Event(queue'[i].who, "start")
      <4>1. /\ i \in DOMAIN queue /\ queue'[i] = queue[i]
            /\ queue[i].who # s /\ queue[i].who \in Sessions
        BY <2>5, <3>1
      <4>2. CASE start[queue[i].who] \in {"told", "lost"}
        BY <2>1, <4>1, <4>2 DEF NoteType
      <4>3. CASE \E j \in 1 .. i - 1 : queue[j] = Event(queue[i].who, "start")
        BY <2>2, <4>1, <4>3
      <4>4. QED
        BY <3>1, <4>1, <4>2, <4>3 DEF StopAfterStart
    <3>2. QED
      BY <3>1 DEF StopAfterStart, Event
  <2>8. QED
    BY <2>3, <2>4, <2>6, <2>7
<1>4. CASE ~(KindOf(s) \in NotifyOn /\ ~Full)
  <2>1. /\ queue' = queue
        /\ \/ KindOf(s) \notin NotifyOn /\ start' = start
           \/ start' = [start EXCEPT ![s] = "lost"]
    BY <1>4 DEF asyncPost, noteVars
  <2>2. \A i \in DOMAIN queue : queue[i].what = "stop" => queue[i].who \in Sessions
    <3>1. \A i \in DOMAIN queue : queue[i] \in Events
      BY DEF NoteType
    <3>2. QED
      BY <3>1 DEF Events
  <2>3. NoteType' /\ Began' /\ Queued'
    BY <1>2, <2>1 DEF NoteType, Began, Queued, KindOf, Event
  <2>4. Ended'
    BY <2>1, <2>2 DEF NoteType, Ended
  <2>5. StopAfterStart'
    BY <2>1, <2>2 DEF NoteType, StopAfterStart, Event
  <2>6. QED
    BY <2>3, <2>4, <2>5
<1>5. QED
  BY <1>3, <1>4

\* A stop joins the queue after its start, or the start is told or lost already.
LEMMA NoteStop ==
  ASSUME NoteInv, NEW s \in Sessions, asyncPost(s, "stop") \/ UNCHANGED noteVars,
         s \in RtspSubs \/ conn[s] \in {"in", "refused"},
         conn' = [conn EXCEPT ![s] = "gone"]
  PROVE  NoteInv'
<1> USE DEF NoteInv
<1> DEFINE e == Event(s, "stop")
<1>1. e \in Events /\ e.who = s /\ e.what = "stop"
  BY DEF Event, Events
<1>2. conn' \in [Sessions -> {"new", "refused", "described", "in", "gone"}]
  BY DEF NoteType
<1>3. \A i \in DOMAIN queue : queue[i].what = "stop" => queue[i].who \in Sessions
  <2>1. \A i \in DOMAIN queue : queue[i] \in Events
    BY DEF NoteType
  <2>2. QED
    BY <2>1 DEF Events
<1>4. start' = start
  BY DEF asyncPost, noteVars
<1>5. Began'
  BY <1>2, <1>4 DEF NoteType, Began, KindOf
<1>6. CASE queue' = queue
  <2>1. NoteType' /\ Queued'
    BY <1>2, <1>4, <1>6 DEF NoteType, Queued, Event
  <2>2. Ended'
    BY <1>3, <1>6 DEF NoteType, Ended
  <2>3. StopAfterStart'
    BY <1>4, <1>6 DEF StopAfterStart, Event
  <2>4. QED
    BY <1>5, <2>1, <2>2, <2>3
<1>7. CASE KindOf(s) \in NotifyOn /\ queue' = Append(queue, e)
  <2>1. /\ queue' \in Seq(Events)
        /\ DOMAIN queue' = 1 .. Len(queue) + 1
        /\ DOMAIN queue = 1 .. Len(queue) /\ Len(queue) \in Nat
        /\ \A i \in DOMAIN queue : i \in DOMAIN queue' /\ queue'[i] = queue[i]
        /\ queue'[Len(queue) + 1] = e
    BY <1>1, <1>7, Longer DEF NoteType
  <2> HIDE DEF e
  <2>2. NoteType' /\ Queued'
    BY <1>2, <1>4, <2>1 DEF NoteType, Queued, Event
  <2>3. Ended'
    BY <1>1, <1>3, <2>1 DEF NoteType, Ended
  <2>4. ASSUME NEW i \in DOMAIN queue', queue'[i].what = "stop", queue'[i].who \notin RtspSubs
        PROVE  \/ start'[queue'[i].who] \in {"told", "lost"}
               \/ \E j \in 1 .. i - 1 : queue'[j] = Event(queue'[i].who, "start")
    <3>1. CASE i \in DOMAIN queue
      <4>1. \/ start[queue[i].who] \in {"told", "lost"}
            \/ \E j \in 1 .. i - 1 : queue[j] = Event(queue[i].who, "start")
        BY <2>1, <2>4, <3>1 DEF StopAfterStart
      <4>2. QED
        BY <1>4, <2>1, <3>1, <4>1
    <3>2. CASE i = Len(queue) + 1
      <4>1. queue'[i].who = s /\ s \notin RtspSubs
        BY <1>1, <2>1, <2>4, <3>2
      <4>2. start[s] \in {"queued", "told", "lost"}
        BY <1>7, <4>1 DEF Began, NoteType
      <4>3. CASE start[s] = "queued"
        BY <2>1, <3>2, <4>1, <4>3 DEF Queued
      <4>4. QED
        BY <1>4, <4>1, <4>2, <4>3
    <3>3. QED
      BY <2>1, <3>1, <3>2
  <2>5. StopAfterStart'
    BY <2>4 DEF StopAfterStart, Event
  <2>6. QED
    BY <1>5, <2>2, <2>3, <2>5
<1>8. QED
  BY <1>6, <1>7 DEF asyncPost, noteVars

LEMMA NoteUpdate ==
  ASSUME NoteInv, asyncPost(None, "update") \/ UNCHANGED noteVars, UNCHANGED conn
  PROVE  NoteInv'
<1> USE DEF NoteInv
<1> DEFINE e == Event(None, "update")
<1>1. e \in Events /\ e.what = "update"
  BY DEF Event, Events
<1>2. start' = start
  BY DEF asyncPost, noteVars
<1>3. CASE queue' = queue
  BY <1>2, <1>3, NoteStutter DEF noteVars
<1>4. CASE queue' = Append(queue, e)
  <2>1. /\ queue' \in Seq(Events)
        /\ DOMAIN queue' = 1 .. Len(queue) + 1
        /\ DOMAIN queue = 1 .. Len(queue) /\ Len(queue) \in Nat
        /\ \A i \in DOMAIN queue : i \in DOMAIN queue' /\ queue'[i] = queue[i]
        /\ queue'[Len(queue) + 1] = e
    BY <1>1, <1>4, Longer DEF NoteType
  <2> HIDE DEF e
  <2>2. NoteType' /\ Began' /\ Queued'
    BY <1>2, <2>1 DEF NoteType, Began, Queued, KindOf, Event
  <2>3. \A i \in DOMAIN queue' : queue'[i].what = "stop" => i \in DOMAIN queue /\ queue'[i] = queue[i]
    BY <1>1, <2>1
  <2>4. Ended'
    BY <2>3 DEF Ended
  <2>5. ASSUME NEW i \in DOMAIN queue', queue'[i].what = "stop", queue'[i].who \notin RtspSubs
        PROVE  \/ start'[queue'[i].who] \in {"told", "lost"}
               \/ \E j \in 1 .. i - 1 : queue'[j] = Event(queue'[i].who, "start")
    <3>1. \/ start[queue[i].who] \in {"told", "lost"}
          \/ \E j \in 1 .. i - 1 : queue[j] = Event(queue[i].who, "start")
      BY <2>3, <2>5 DEF StopAfterStart
    <3>2. QED
      BY <1>2, <2>1, <2>3, <2>5, <3>1
  <2>6. StopAfterStart'
    BY <2>5 DEF StopAfterStart, Event
  <2>7. QED
    BY <2>2, <2>4, <2>6
<1>5. QED
  BY <1>3, <1>4 DEF asyncPost, noteVars

\* The oldest event leaves: if it was a start, that start is told from now on.
LEMMA NotePost == NoteInv /\ Post => NoteInv'
<1> SUFFICES ASSUME NoteInv, Post PROVE NoteInv'
  OBVIOUS
<1> USE DEF NoteInv
<1> DEFINE h == Head(queue)
<1>1. queue # <<>> /\ queue' = Tail(queue) /\ conn' = conn
      /\ start' = IF h.what # "start" THEN start ELSE [start EXCEPT ![h.who] = "told"]
  BY DEF Post, sessVars
<1>2. queue \in Seq(Events) /\ Len(queue) \in Nat /\ DOMAIN queue = 1 .. Len(queue)
  BY LenProperties DEF NoteType
<1>3. /\ h \in Events /\ h = queue[1] /\ Len(queue) > 0
      /\ queue' \in Seq(Events) /\ Len(queue') = Len(queue) - 1
      /\ \A i \in 1 .. Len(queue') : queue'[i] = queue[i + 1]
  BY <1>1, <1>2, HeadTailProperties, EmptySeq
<1>4. DOMAIN queue' = 1 .. Len(queue) - 1
  BY <1>3, LenProperties
<1> HIDE DEF h
<1>5. \A i \in DOMAIN queue' : i \in 1 .. Len(queue') /\ i + 1 \in DOMAIN queue /\ queue'[i] = queue[i + 1]
  BY <1>2, <1>3, <1>4
<1>6. h.what = "start" => h.who \in Sessions /\ h = Event(h.who, "start")
  BY <1>3 DEF Events, Event
<1>7. NoteType' /\ Began'
  BY <1>1, <1>3, <1>6 DEF NoteType, Began, KindOf
<1>8. \A s \in Sessions : start'[s] # "told" => start'[s] = start[s] /\ h # Event(s, "start")
  BY <1>1, <1>6 DEF NoteType, Event
<1>9. \A j \in DOMAIN queue : queue[j] # h => j - 1 \in DOMAIN queue' /\ queue'[j - 1] = queue[j]
  BY <1>2, <1>3, <1>4
<1>10. Queued'
  <2>1. ASSUME NEW s \in Sessions, start'[s] = "queued"
        PROVE  \E j \in DOMAIN queue' : queue'[j] = Event(s, "start")
    <3>1. PICK j \in DOMAIN queue : queue[j] = Event(s, "start")
      BY <1>8, <2>1 DEF Queued
    <3>2. QED
      BY <1>8, <1>9, <2>1, <3>1
  <2>2. QED
    BY <2>1 DEF Queued, Event
<1>11. Ended'
  BY <1>1, <1>5 DEF Ended
<1>12. StopAfterStart'
  <2>1. ASSUME NEW i \in DOMAIN queue', queue'[i].what = "stop", queue'[i].who \notin RtspSubs
        PROVE  \/ start'[queue'[i].who] \in {"told", "lost"}
               \/ \E j \in 1 .. i - 1 : queue'[j] = Event(queue'[i].who, "start")
    <3> DEFINE s == queue'[i].who
    <3>1. s \in Sessions
      BY <1>3, <2>1, <1>5, ElementOfSeq DEF Events
    <3>2. CASE start[s] \in {"told", "lost"}
      BY <1>1, <3>1, <3>2, <1>6 DEF NoteType
    <3>3. CASE \E j \in 1 .. i : queue[j] = Event(s, "start")
      <4>1. PICK j \in 1 .. i : queue[j] = Event(s, "start")
        BY <3>3
      <4>2. CASE h = Event(s, "start")
        BY <1>1, <3>1, <4>2 DEF NoteType, Event
      <4>3. CASE h # Event(s, "start")
        <5>1. j \in DOMAIN queue /\ i \in Nat
          BY <1>2, <1>3, <1>4
        <5>2. j - 1 \in DOMAIN queue' /\ queue'[j - 1] = Event(s, "start")
          BY <1>9, <4>1, <4>3, <5>1
        <5>3. j - 1 \in 1 .. i - 1
          BY <1>3, <1>4, <5>1, <5>2
        <5>4. QED
          BY <5>2, <5>3
      <4>4. QED
        BY <4>2, <4>3
    <3>4. QED
      <4>1. i + 1 \in DOMAIN queue /\ queue[i + 1] = queue'[i] /\ (i + 1) - 1 = i
        BY <1>4, <1>5, <1>2
      <4>2. start[s] \in {"told", "lost"} \/ \E j \in 1 .. i : queue[j] = Event(s, "start")
        BY <2>1, <4>1 DEF StopAfterStart
      <4>3. QED
        BY <3>2, <3>3, <4>2
  <2>2. QED
    BY <2>1 DEF StopAfterStart, Event
<1>13. QED
  BY <1>7, <1>10, <1>11, <1>12

LEMMA NoteNewPub ==
  ASSUME NoteInv, NEW s \in Pubs, NEW n \in Names, NewPub(s, n)
  PROVE  NoteInv'
<1>1. s \in Sessions /\ conn[s] = "new" /\ asyncPost(s, "start")
  BY DEF NewPub, Sessions
<1>2. CASE conn' = [conn EXCEPT ![s] = "in"]
  BY <1>1, <1>2, NoteStart
<1>3. CASE conn' = [conn EXCEPT ![s] = "refused"]
  BY <1>1, <1>3, NoteStart
<1>4. QED
  BY <1>2, <1>3 DEF NewPub

LEMMA NoteNewSub ==
  ASSUME NoteInv, NEW s \in Subs, NEW n, NewSub(s, n), s \in RtspSubs \/ conn[s] = "new"
  PROVE  NoteInv'
<1>1. s \in Sessions
  BY DEF Sessions
<1>2. CASE conn' = [conn EXCEPT ![s] = "in"] /\ asyncPost(s, "start")
  BY <1>1, <1>2, NoteStart
<1>3. CASE UNCHANGED <<conn, noteVars>>
  BY <1>3, NoteStutter
<1>4. QED
  BY <1>2, <1>3 DEF NewSub

\* DESCRIBE changes only where an RTSP player stands, which Began leaves out.
LEMMA NoteDescribe ==
  ASSUME NoteInv, NEW s \in Subs, NEW n \in Names, OnNewRTSPSubSessionDescribe(s, n)
  PROVE  NoteInv'
<1> USE DEF NoteInv
<1>1. /\ s \in RtspSubs /\ s \in Sessions /\ conn[s] = "new"
      /\ queue' = queue /\ start' = start
      /\ conn' = [conn EXCEPT ![s] = IF input[n] \in RtspPubs THEN "described" ELSE "refused"]
  BY DEF OnNewRTSPSubSessionDescribe, noteVars, Sessions
<1>2. NoteType' /\ Began' /\ Queued'
  BY <1>1 DEF NoteType, Began, Queued, KindOf, Event
<1>3. \A i \in DOMAIN queue : queue[i].what = "stop" => queue[i].who \in Sessions
  <2>1. \A i \in DOMAIN queue : queue[i] \in Events
    BY DEF NoteType
  <2>2. QED
    BY <2>1 DEF Events
<1>4. Ended' /\ StopAfterStart'
  BY <1>1, <1>3 DEF NoteType, Ended, StopAfterStart, Event
<1>5. QED
  BY <1>2, <1>4

\* Gone is what the deletion of every kind of session does to the notifications.
LEMMA NoteGone ==
  ASSUME NoteInv, NEW s \in Sessions, Gone(s), s \in RtspSubs \/ conn[s] \in {"in", "refused"}
  PROVE  NoteInv'
BY NoteStop DEF Gone

LEMMA NoteNext == NoteInv /\ [Next]_vars => NoteInv'
<1> SUFFICES ASSUME NoteInv, [Next]_vars PROVE NoteInv'
  OBVIOUS
<1>1. CASE \E s \in Pubs : PubNext(s)
  <2>1. PICK s \in Pubs : PubNext(s)
    BY <1>1
  <2>2. CASE \E n \in Names : NewPub(s, n)
    BY <2>2, NoteNewPub
  <2>3. CASE DelPub(s)
    BY <2>3, NoteGone DEF DelPub, Sessions
  <2>4. QED
    BY <2>1, <2>2, <2>3
    DEF PubNext, OnNewRTMPPubSession, OnNewRTSPPubSession, OnDelRTMPPubSession, OnDelRTSPPubSession
<1>2. CASE \E s \in Subs : SubNew(s)
  <2>1. PICK s \in Subs : SubNew(s)
    BY <1>2
  <2>2. CASE \E n \in Names : conn[s] = "new" /\ NewSub(s, n)
    <3>1. PICK n \in Names : conn[s] = "new" /\ NewSub(s, n)
      BY <2>2
    <3>2. QED
      BY <3>1, NoteNewSub
  <2>3. CASE \E n \in Names : OnNewRTSPSubSessionDescribe(s, n)
    BY <2>3, NoteDescribe
  <2>4. CASE OnNewRTSPSubSessionPlay(s)
    <3>1. s \in RtspSubs /\ NewSub(s, stream[s])
      BY <2>4 DEF OnNewRTSPSubSessionPlay
    <3>2. QED
      BY <3>1, NoteNewSub
  <2>5. QED
    BY <2>1, <2>2, <2>3, <2>4
    DEF SubNew, OnNewRTMPSubSession, OnNewHTTPFLVSubSession, OnNewHTTPTSSubSession
<1>3. CASE \E s \in Subs : SubDel(s)
  <2>1. PICK s \in Subs : SubDel(s)
    BY <1>3
  <2>2. s \in Sessions /\ Gone(s) /\ (s \in RtspSubs \/ conn[s] \in {"in", "refused"})
    BY <2>1
    DEF SubDel, DelSub, Sessions, OnDelRTMPSubSession, OnDelHTTPFLVSubSession,
        OnDelHTTPTSSubSession, OnDelRTSPSubSession
  <2>3. QED
    BY <2>2, NoteGone
<1>4. CASE iterateGroup
  BY <1>4, NoteUpdate DEF iterateGroup
<1>5. CASE Post
  BY <1>5, NotePost
<1>6. CASE TickFires \/ \E n \in Names : CleanupCheck(n) \/ CleanupRemove(n)
  BY <1>6, NoteStutter DEF TickFires, CleanupCheck, CleanupRemove, sessVars
<1>7. CASE \E c \in Callers : DisposeLock(c) \/ Disposing(c) \/ Exit(c)
  BY <1>7, NoteStutter
  DEF DisposeLock, Disposing, DisposeGroup, DisposeUnlock, Exit, sessVars
<1>8. CASE UNCHANGED vars
  BY <1>8, NoteStutter DEF vars, sessVars
<1>9. QED
  BY <1>1, <1>2, <1>3, <1>4, <1>5, <1>6, <1>7, <1>8 DEF Next

\* A stop is told only of a session whose start was told before it or lost to a full
\* queue, for any number of sessions and any capacity of the queue.
THEOREM StopsFollowStarts == Spec => []StopAfterStart
<1>1. NoteInv => StopAfterStart
  BY DEF NoteInv
<1>2. QED
  BY <1>1, NoteInit, NoteNext, PTL DEF Spec
=============================================================================
