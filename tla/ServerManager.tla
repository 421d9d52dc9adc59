--------------------------- MODULE ServerManager ---------------------------
(***************************************************************************)
(* The ServerManager (pkg/logic/server_manager.go): the map from stream    *)
(* names to groups, the callbacks of the protocol servers, the one second  *)
(* ticker, the shutdown, the notifications (http_notify.go) and the        *)
(* deferred removal of HLS files (group.go, disposeHLSMuxer).              *)
(*                                                                         *)
(* A group is kept as far as the manager tells groups apart: its input,    *)
(* its players and its HLS muxer; module Group has the rest.  Callbacks    *)
(* hold sm.mutex, so each is one action; Dispose holds it over several.    *)
(* A session is one Go object and lives once; it may reach its callback    *)
(* after Dispose, which closes the listeners and no accepted connection.   *)
(***************************************************************************)
EXTENDS Naturals, Sequences, FiniteSets

CONSTANTS
  Names,                         \* stream names
  RtmpPubs, RtspPubs,            \* sessions by kind
  RtmpSubs, FlvSubs, TsSubs, RtspSubs,
  Callers,                       \* goroutines that call Dispose
  NotifyOn,                      \* the kinds of events whose URL is configured
  MaxTaskLen,                    \* capacity of taskQueue (1024 in the code)
  None

Pubs == RtmpPubs \cup RtspPubs
NilSets == RtmpSubs \cup FlvSubs \cup TsSubs  \* Dispose sets these tables to nil
Subs == NilSets \cup RtspSubs
Sessions == Pubs \cup Subs

ASSUME SessionKinds ==
  /\ RtmpPubs \cap RtspPubs = {}
  /\ Pubs \cap Subs = {}
  /\ NilSets \cap RtspSubs = {}
  /\ None \notin Sessions \cup Names \cup Callers

VARIABLES
  groupMap,    \* "absent", "live", or "disposed" and still in the map
  input, outs, muxer, exits,     \* of a name's group; exits: sends to its exitChan
  conn, stream, closed,          \* sessions
  loop, holder, pc, todo,        \* RunLoop, sm.mutex, the callers of Dispose
  crashed,
  queue, start,                  \* taskQueue; what became of each session's start event
  waiting, checked, files        \* clean-up tasks by name, and the name's directory

groupVars == <<groupMap, input, outs, muxer, exits>>
sessVars  == <<conn, stream, closed>>
loopVars  == <<loop, holder, pc, todo, crashed>>
noteVars  == <<queue, start>>
fileVars  == <<waiting, checked, files>>
vars      == <<groupVars, sessVars, loopVars, noteVars, fileVars>>

Events == [who : Sessions, what : {"start", "stop"}] \cup {[who |-> None, what |-> "update"]}

TypeOK ==
  /\ groupMap \in [Names -> {"absent", "live", "disposed"}]
  /\ input \in [Names -> Pubs \cup {None}]
  /\ outs \in [Names -> SUBSET Subs]
  /\ muxer \in [Names -> BOOLEAN]
  /\ exits \in [Names -> Nat]
  /\ conn \in [Sessions -> {"new", "refused", "described", "in", "gone"}]
  /\ stream \in [Sessions -> Names \cup {None}]
  /\ closed \subseteq Sessions
  /\ loop \in {"select", "tick", "stuck", "returned"}
  /\ holder \in Callers \cup {None}
  /\ pc \in [Callers -> {"idle", "groups", "send", "done"}]
  /\ todo \subseteq Names
  /\ crashed \in BOOLEAN
  /\ queue \in Seq(Events)
  /\ start \in [Sessions -> {"none", "queued", "told", "lost"}]
  /\ waiting \in [Names -> Nat]
  /\ checked \in [Names -> Nat]
  /\ files \in [Names -> BOOLEAN]

Init ==
  /\ groupMap = [n \in Names |-> "absent"]
  /\ input = [n \in Names |-> None]
  /\ outs = [n \in Names |-> {}]
  /\ muxer = [n \in Names |-> FALSE]
  /\ exits = [n \in Names |-> 0]
  /\ conn = [s \in Sessions |-> "new"]
  /\ stream = [s \in Sessions |-> None]
  /\ closed = {}
  /\ loop = "select"
  /\ holder = None
  /\ pc = [c \in Callers |-> "idle"]
  /\ todo = {}
  /\ crashed = FALSE
  /\ queue = <<>>
  /\ start = [s \in Sessions |-> "none"]
  /\ waiting = [n \in Names |-> 0]
  /\ checked = [n \in Names |-> 0]
  /\ files = [n \in Names |-> FALSE]

\* Entry returns with RunLoop, and the process ends; a panic ends it too.
Running == ~crashed /\ loop # "returned"

----------------------------------------------------------------------------
(* Notifications: a bounded queue that callbacks never wait for.           *)

Event(s, ev) == [who |-> s, what |-> ev]
KindOf(s) == IF s \in Pubs THEN "pub" ELSE IF s \in Subs THEN "sub" ELSE "update"
Full == Len(queue) >= MaxTaskLen

asyncPost(s, ev) ==
  \/ /\ KindOf(s) \in NotifyOn
     /\ queue' = IF Full THEN queue ELSE Append(queue, Event(s, ev))
     /\ start' = IF ev # "start" THEN start
                 ELSE [start EXCEPT ![s] = IF Full THEN "lost" ELSE "queued"]
  \/ /\ KindOf(s) \notin NotifyOn
     /\ UNCHANGED noteVars

\* HTTPNotify.RunLoop: one POST after another; an error is logged, not retried.
Post ==
  /\ Running
  /\ queue # <<>>
  /\ queue' = Tail(queue)
  /\ start' = IF Head(queue).what # "start" THEN start
              ELSE [start EXCEPT ![Head(queue).who] = "told"]
  /\ UNCHANGED <<groupVars, sessVars, loopVars, fileVars>>

----------------------------------------------------------------------------
(* Groups.                                                                 *)

\* sm.mutex can be taken (iterateGroup, stuck in Group.Dispose, holds it).
Free == holder = None /\ loop # "stuck" /\ Running

getOrCreateGroup(n) ==
  /\ groupMap' = [groupMap EXCEPT ![n] = IF @ = "absent" THEN "live" ELSE @]
  /\ exits' = [exits EXCEPT ![n] = IF groupMap[n] = "absent" THEN 0 ELSE @]

\* Mutant: iterateGroup does not see the RTSP players.
IsTotalEmpty_NoRtspSubs(n) ==
  input[n] = None /\ outs[n] \subseteq RtspSubs /\ ~muxer[n]

IsTotalEmpty(n) == input[n] = None /\ outs[n] = {} /\ ~muxer[n]

\* disposeHLSMuxer for the names in N: the clean-up is scheduled for later.
disposeHLSMuxer(N) ==
  /\ muxer' = [n \in Names |-> muxer[n] /\ n \notin N]
  /\ waiting' = [n \in Names |-> waiting[n] + (IF n \in N /\ muxer[n] THEN 1 ELSE 0)]
  /\ UNCHANGED <<checked, files>>

\* Mutant: the task is given up whenever the stream has a group.
CleanupCheck_AnyGroup(n) ==
  /\ Running
  /\ waiting[n] > 0
  /\ waiting' = [waiting EXCEPT ![n] = @ - 1]
  /\ checked' = [checked EXCEPT ![n] = @ + (IF groupMap[n] # "absent" THEN 0 ELSE 1)]
  /\ UNCHANGED <<groupVars, sessVars, loopVars, noteVars, files>>

\* The deferred task: it looks whether the name has a live muxer by now (without
\* sm.mutex), and gives up if so ...
CleanupCheck(n) ==
  /\ Running
  /\ waiting[n] > 0
  /\ waiting' = [waiting EXCEPT ![n] = @ - 1]
  /\ checked' = [checked EXCEPT ![n] =
                   @ + (IF groupMap[n] # "absent" /\ muxer[n] THEN 0 ELSE 1)]
  /\ UNCHANGED <<groupVars, sessVars, loopVars, noteVars, files>>

\* ... and otherwise removes the directory, whatever it holds then.
CleanupRemove(n) ==
  /\ Running
  /\ checked[n] > 0
  /\ checked' = [checked EXCEPT ![n] = @ - 1]
  /\ files' = [files EXCEPT ![n] = FALSE]
  /\ UNCHANGED <<groupVars, sessVars, loopVars, noteVars, waiting>>

----------------------------------------------------------------------------
(* Callbacks of the servers.                                               *)

\* Mutant: "the callback can be left out when res is false".
NewPub_TellsAccepted(s, n) ==
  /\ Free
  /\ conn[s] = "new"
  /\ getOrCreateGroup(n)
  /\ stream' = [stream EXCEPT ![s] = n]
  /\ \/ /\ input[n] = None
        /\ input' = [input EXCEPT ![n] = s]
        /\ muxer' = [muxer EXCEPT ![n] = TRUE]
        /\ files' = [files EXCEPT ![n] = TRUE]
        /\ conn' = [conn EXCEPT ![s] = "in"]
        /\ asyncPost(s, "start")
        /\ UNCHANGED closed
     \/ /\ input[n] # None
        /\ conn' = [conn EXCEPT ![s] = "refused"]
        /\ closed' = closed \cup {s}
        /\ UNCHANGED <<input, muxer, files, noteVars>>
  /\ UNCHANGED <<outs, loopVars, waiting, checked>>

\* The start is told whether the publisher is accepted or not.
NewPub(s, n) ==
  /\ Free
  /\ conn[s] = "new"
  /\ getOrCreateGroup(n)
  /\ stream' = [stream EXCEPT ![s] = n]
  /\ \/ /\ input[n] = None
        /\ input' = [input EXCEPT ![n] = s]
        /\ muxer' = [muxer EXCEPT ![n] = TRUE]
        /\ files' = [files EXCEPT ![n] = TRUE]
        /\ conn' = [conn EXCEPT ![s] = "in"]
        /\ UNCHANGED closed
     \/ /\ input[n] # None
        /\ conn' = [conn EXCEPT ![s] = "refused"]
        /\ closed' = closed \cup {s}
        /\ UNCHANGED <<input, muxer, files>>
  /\ asyncPost(s, "start")
  /\ UNCHANGED <<outs, loopVars, waiting, checked>>

OnNewRTMPPubSession(s, n) == s \in RtmpPubs /\ NewPub(s, n)
OnNewRTSPPubSession(s, n) == s \in RtspPubs /\ NewPub(s, n)

\* An erased group is not found: then nothing is deleted and no stop is told.
Gone(s) ==
  /\ Free
  /\ conn' = [conn EXCEPT ![s] = "gone"]
  /\ IF groupMap[stream[s]] = "absent" THEN UNCHANGED noteVars ELSE asyncPost(s, "stop")
  /\ UNCHANGED <<groupMap, exits, stream, closed, loopVars>>

DelPub(s) ==
  /\ conn[s] \in {"in", "refused"}
  /\ Gone(s)
  /\ \/ /\ input[stream[s]] = s
        /\ input' = [input EXCEPT ![stream[s]] = None]
        /\ disposeHLSMuxer({stream[s]})
     \/ /\ input[stream[s]] # s
        /\ UNCHANGED <<input, muxer, fileVars>>
  /\ UNCHANGED outs

OnDelRTMPPubSession(s) == s \in RtmpPubs /\ DelPub(s)
OnDelRTSPPubSession(s) == s \in RtspPubs /\ DelPub(s)

\* A disposed group's tables are nil: the assignment panics, the process ends.
NewSub(s, n) ==
  /\ Free
  /\ getOrCreateGroup(n)
  /\ stream' = [stream EXCEPT ![s] = n]
  /\ \/ /\ groupMap[n] = "disposed" /\ s \in NilSets
        /\ crashed' = TRUE
        /\ UNCHANGED <<outs, conn, noteVars>>
     \/ /\ groupMap[n] # "disposed" \/ s \in RtspSubs
        /\ outs' = [outs EXCEPT ![n] = @ \cup {s}]
        /\ conn' = [conn EXCEPT ![s] = "in"]
        /\ asyncPost(s, "start")
        /\ UNCHANGED crashed
  /\ UNCHANGED <<input, muxer, closed, loop, holder, pc, todo, fileVars>>

OnNewRTMPSubSession(s, n)    == s \in RtmpSubs /\ conn[s] = "new" /\ NewSub(s, n)
OnNewHTTPFLVSubSession(s, n) == s \in FlvSubs /\ conn[s] = "new" /\ NewSub(s, n)
OnNewHTTPTSSubSession(s, n)  == s \in TsSubs /\ conn[s] = "new" /\ NewSub(s, n)

\* DESCRIBE is answered with the publisher's SDP, if that is an RTSP publisher.
OnNewRTSPSubSessionDescribe(s, n) ==
  /\ s \in RtspSubs
  /\ Free
  /\ conn[s] = "new"
  /\ getOrCreateGroup(n)
  /\ stream' = [stream EXCEPT ![s] = n]
  /\ conn' = [conn EXCEPT ![s] = IF input[n] \in RtspPubs THEN "described" ELSE "refused"]
  /\ UNCHANGED <<input, outs, muxer, closed, loopVars, noteVars, fileVars>>

OnNewRTSPSubSessionPlay(s) ==
  s \in RtspSubs /\ conn[s] = "described" /\ NewSub(s, stream[s])

DelSub(s) ==
  /\ Gone(s)
  /\ outs' = [outs EXCEPT ![stream[s]] = @ \ {s}]
  /\ UNCHANGED <<input, muxer, fileVars>>

OnDelRTMPSubSession(s)    == s \in RtmpSubs /\ conn[s] = "in" /\ DelSub(s)
OnDelHTTPFLVSubSession(s) == s \in FlvSubs /\ conn[s] = "in" /\ DelSub(s)
OnDelHTTPTSSubSession(s)  == s \in TsSubs /\ conn[s] = "in" /\ DelSub(s)
OnDelRTSPSubSession(s) ==
  s \in RtspSubs /\ conn[s] \in {"described", "refused", "in"} /\ DelSub(s)

----------------------------------------------------------------------------
(* RunLoop's ticker.                                                       *)

TickFires ==
  /\ Running
  /\ loop = "select"
  /\ loop' = "tick"
  /\ UNCHANGED <<groupVars, sessVars, holder, pc, todo, crashed, noteVars,
                 fileVars>>

\* Group.Tick closes the silent sessions: an RTMP publisher stays until its OnDel,
\* an RTSP publisher is dropped without delIn, players leave their table.  An RTSP
\* player among them blocks the ticker for good, which module Group shows.
Droppable == (UNION {outs[n] \cup {input[n]} : n \in Names}) \ ({None} \cup RtspSubs)

EmptyGroups == {n \in Names : groupMap[n] # "absent" /\ IsTotalEmpty(n)}

\* A group's RunLoop takes one exit, exitChan keeps one more: a third send waits.
ExitBlocks(n) == exits[n] >= 2

iterateGroup ==
  /\ Free
  /\ loop = "tick"
  /\ loop' = IF \E n \in EmptyGroups : ExitBlocks(n) THEN "stuck" ELSE "select"
  /\ groupMap' = [n \in Names |-> IF n \in EmptyGroups THEN "absent" ELSE groupMap[n]]
  /\ exits' = [n \in Names |-> IF n \in EmptyGroups THEN exits[n] + 1 ELSE exits[n]]
  /\ \E silent \in SUBSET Droppable :
       /\ closed' = closed \cup silent
       /\ input' = [n \in Names |-> IF input[n] \in silent \cap RtspPubs
                                    THEN None ELSE input[n]]
       /\ outs' = [n \in Names |-> outs[n] \ silent]
  /\ \/ asyncPost(None, "update")    \* every updateIntervalSec ticks
     \/ UNCHANGED noteVars
  /\ UNCHANGED <<muxer, conn, stream, holder, pc, todo, crashed, fileVars>>

----------------------------------------------------------------------------
(* Dispose, by each of its callers (the signal handler, logic.Dispose).    *)

Step(c, from, to) == pc[c] = from /\ pc' = [pc EXCEPT ![c] = to]

\* The listeners are closed, which no accepted connection notices; then the mutex.
DisposeLock(c) ==
  /\ Free
  /\ Step(c, "idle", "groups")
  /\ holder' = c
  /\ todo' = {n \in Names : groupMap[n] # "absent"}
  /\ UNCHANGED <<groupVars, sessVars, loop, crashed, noteVars, fileVars>>

\* Group.Dispose: RTSP players are neither closed nor dropped.
DisposeGroup(c, n) ==
  /\ Running
  /\ pc[c] = "groups"
  /\ n \in todo
  /\ ~ExitBlocks(n)
  /\ todo' = todo \ {n}
  /\ groupMap' = [groupMap EXCEPT ![n] = "disposed"]
  /\ exits' = [exits EXCEPT ![n] = @ + 1]
  /\ closed' = closed \cup (({input[n]} \ {None}) \cup (outs[n] \ RtspSubs))
  /\ input' = [input EXCEPT ![n] = None]
  /\ outs' = [outs EXCEPT ![n] = @ \cap RtspSubs]
  /\ disposeHLSMuxer({n})
  /\ UNCHANGED <<conn, stream, loop, holder, pc, crashed, noteVars>>

\* Mutant: the mutex is given back only when Dispose returns.
DisposeUnlock_Deferred(c) ==
  /\ Running
  /\ Step(c, "groups", "send")
  /\ todo = {}
  /\ UNCHANGED <<groupVars, sessVars, loop, holder, todo, crashed, noteVars,
                 fileVars>>

DisposeUnlock(c) ==
  /\ Running
  /\ Step(c, "groups", "send")
  /\ todo = {}
  /\ holder' = None
  /\ UNCHANGED <<groupVars, sessVars, loop, todo, crashed, noteVars, fileVars>>

\* sm.exitChan has no buffer: the send needs RunLoop at its select.
Exit(c) ==
  /\ Running
  /\ Step(c, "send", "done")
  /\ loop = "select"
  /\ loop' = "returned"
  /\ UNCHANGED <<groupVars, sessVars, holder, todo, crashed, noteVars, fileVars>>

----------------------------------------------------------------------------

PubNext(s) ==
  \/ \E n \in Names : OnNewRTMPPubSession(s, n) \/ OnNewRTSPPubSession(s, n)
  \/ OnDelRTMPPubSession(s) \/ OnDelRTSPPubSession(s)

SubNew(s) ==
  \/ \E n \in Names :
       \/ OnNewRTMPSubSession(s, n) \/ OnNewHTTPFLVSubSession(s, n)
       \/ OnNewHTTPTSSubSession(s, n) \/ OnNewRTSPSubSessionDescribe(s, n)
  \/ OnNewRTSPSubSessionPlay(s)

SubDel(s) ==
  \/ OnDelRTMPSubSession(s) \/ OnDelHTTPFLVSubSession(s)
  \/ OnDelHTTPTSSubSession(s) \/ OnDelRTSPSubSession(s)

Disposing(c) ==
  DisposeUnlock(c) \/ \E n \in Names : DisposeGroup(c, n)

Next ==
  \/ \E s \in Pubs : PubNext(s)
  \/ \E s \in Subs : SubNew(s) \/ SubDel(s)
  \/ TickFires \/ iterateGroup
  \/ \E n \in Names : CleanupCheck(n) \/ CleanupRemove(n)
  \/ \E c \in Callers : DisposeLock(c) \/ Disposing(c) \/ Exit(c)
  \/ Post

Spec == Init /\ [][Next]_vars

\* The ticker fires for ever and gets the mutex; a caller of Dispose goes on; of
\* a tick and a waiting exit, select takes the exit some time; a due task runs.
Fairness ==
  /\ WF_vars(TickFires \/ iterateGroup)
  /\ \A c \in Callers : WF_vars(Disposing(c)) /\ SF_vars(Exit(c))
  /\ \A n \in Names : WF_vars(CleanupCheck(n) \/ CleanupRemove(n))

FairSpec == Spec /\ Fairness

----------------------------------------------------------------------------
(* Properties.                                                             *)

\* A session that was taken in and not closed is found under its name: the ticker
\* never erases (iterateGroup), and no Dispose empties, a group that somebody who
\* is still connected belongs to.
NoLostSession ==
  \A s \in Sessions : conn[s] = "in" /\ s \notin closed =>
    /\ groupMap[stream[s]] # "absent"
    /\ s = input[stream[s]] \/ s \in outs[stream[s]]

\* The other way round: whoever is in a group's tables has not been deleted.
NoGhostSession ==
  \A n \in Names : \A s \in outs[n] \cup ({input[n]} \ {None}) :
    conn[s] = "in" /\ stream[s] = n

\* A stop is told only of a session whose start was told before it, unless the
\* queue was full at the start.  (An RTSP player that was described and never
\* played is told as stopped only.)
StopAfterStart ==
  \A i \in DOMAIN queue : LET s == queue[i].who IN
    queue[i].what = "stop" /\ s \notin RtspSubs =>
      \/ start[s] \in {"told", "lost"}
      \/ \E j \in 1 .. i - 1 : queue[j] = Event(s, "start")

\* Dispose ends RunLoop, whatever callbacks and ticks run meanwhile.  (With two
\* calls and a tick between them a group's exitChan gets one exit too many: the
\* ticker waits for ever, with sm.mutex held.)
DisposeEndsRunLoop == \E c \in Callers : pc[c] # "idle" ~> loop = "returned" \/ crashed

\* The files of a stream that ended are removed in the end, unless the stream is
\* back (disposeHLSMuxer's deferred task), also when players keep its group.
LeftoversRemoved ==
  \A n \in Names : files[n] /\ ~muxer[n] ~> ~files[n] \/ muxer[n] \/ ~Running

\* "cancel cleanup hls file path since hls muxer still alive": a directory is not
\* removed under a live muxer.
LiveFilesKept == [][\A n \in Names : files[n] /\ ~files'[n] => ~muxer[n]]_vars

\* "After Dispose this object must not be used any more."
NoUseAfterDispose == ~crashed
=============================================================================
