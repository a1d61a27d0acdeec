-------------------------------- MODULE Hubs --------------------------------
(***************************************************************************)
(* The two hubs that feed event streams: the live log of a deployment run  *)
(* (LogHub) and the events of a build pipeline (SseHub).                   *)
(* They are separate packages that share nothing, so a behaviour is one of *)
(* the first or one of the second: "hub" says which.                       *)
(***************************************************************************)
EXTENDS Naturals, Sequences, FiniteSets

CONSTANTS
  \* LogHub
  LogReaders, LogCapacity, PageSize, MaxEntries, MaxRestarts,
  \* SseHub
  Runs, Readers, None, Capacity, MaxEvents

VARIABLES hub,
  \* LogHub
  rows, closed, subs, since, notified, ppc, fan, turn, rpc, replay, closes, cursor,
  page, last, chan, shut, got, dropped, told, panicked, restarts,
  \* SseHub; its handlers are "handler" here, its closed channels "done"
  arrays, cur, len, drops, gpc, sent, view, count, pos, handler, fill, done,
  owed, gentle, panics

L == INSTANCE LogHub WITH Readers <- LogReaders, Capacity <- LogCapacity
S == INSTANCE SseHub WITH rpc <- handler, shut <- done

ASSUME HubsAssumption == L!Sizes /\ S!Sizes

logVars ==
  <<rows, closed, subs, since, notified, ppc, fan, turn, rpc, replay, closes, cursor,
    page, last, chan, shut, got, dropped, told, panicked, restarts>>
eventVars ==
  <<arrays, cur, len, drops, gpc, sent, view, count, pos, handler, fill, done,
    owed, gentle, panics>>
hubs == <<hub, logVars, eventVars>>

-----------------------------------------------------------------------------
Log(A) == hub = "log" /\ A /\ UNCHANGED <<hub, eventVars>>
Events(A) == hub = "events" /\ A /\ UNCHANGED <<hub, logVars>>

Init == hub \in {"log", "events"} /\ L!Init /\ S!Init

Next == Log(L!Next) \/ Events(S!Next)

\* The fairness of LogHub!FairSpec and of SseHub!FairSpec, each for its own.
Fairness ==
  /\ WF_logVars(Log(L!Fanout))
  /\ \A r \in LogReaders :
       WF_logVars(Log(L!Replaying(r))) /\ WF_logVars(Log(L!Handling(r)))
  /\ \A g \in Runs : WF_eventVars(Events(S!Executing(g))) /\ SF_eventVars(Events(S!Count(g)))
  /\ \A r \in Readers : WF_eventVars(Events(S!Serving(r))) /\ SF_eventVars(Events(S!Unsubscribe(r)))

Spec == Init /\ [][Next]_hubs /\ Fairness

-----------------------------------------------------------------------------
\* The variables of both hubs keep their types.
TypeOK == L!TypeOK /\ S!TypeOK

\* A log stream that ends by itself has shown the whole log but for entries a full
\* buffer dropped, and the first of those is the one its reader is told of.
NothingLostUntold == L!Complete /\ L!FirstLossRemembered

\* A Publish that meets no full channel serves every registered reader and sends
\* on no closed channel, and no channel is ever closed twice.
PublishSound == S!ServedUnlessFull /\ S!SendSafeUnlessFull /\ S!ClosedOnce

\* No stream outlives what it follows and no Publish waits for ever: streams end
\* once the run or the pipeline has closed them, and a Publish that has let go of
\* its lock gets it back.
StreamsEnd == L!StreamEnds /\ S!StreamEnds /\ S!PublishEnds
=============================================================================
