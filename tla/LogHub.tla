------------------------------- MODULE LogHub -------------------------------
(***************************************************************************)
(* The live log of one deployment run: the Hub of                          *)
(* deploy/engine/runtime/pubsub.go, the log rows it stores                 *)
(* (deploy/repository/gormstore.go) and the event stream that reads it     *)
(* (deploy/handler/stream.go).                                             *)
(*                                                                         *)
(* One goroutine publishes: the run's.  An entry is its sequence number    *)
(* (the store gives max + 1).  Each reader has a handler goroutine that    *)
(* takes from its channel and a replay goroutine that puts history into    *)
(* it; a stream asks for the history from its first row.  The channel's    *)
(* mutex dc.mu is held through a whole fan-out, so no reader joins or      *)
(* leaves meanwhile, but handlers and replays go on.  A send on a closed   *)
(* channel panics and nothing recovers it: the process stops there.  The   *)
(* store does not fail here (replay ends silently when it does).           *)
(***************************************************************************)
EXTENDS Naturals, Sequences, FiniteSets

CONSTANTS
  Readers,      \* event-stream requests
  MaxEntries,   \* bound: entries the run publishes
  Capacity,     \* channel buffer (64 in the code), positive
  PageSize,     \* replay page (200 in the code), positive
  MaxRestarts   \* bound: restarts per behaviour

VARIABLES
  rows,      \* log rows stored: sequences 1..rows
  closed,    \* dc.closed
  subs,      \* keys of dc.subs
  since,     \* state.lostSince, 0 when nothing was lost
  notified,  \* state.notifyOnce
  ppc,       \* the run's goroutine
  fan,       \* subscribers the current fan-out has still to serve
  turn,      \* the subscriber whose gap marker was offered and whose entry comes next
  rpc,       \* handler goroutines
  replay,    \* replay goroutines
  closes,    \* readers whose replay closes the channel: they came after Close
  cursor, page, last,  \* the replay's position, the page in hand, whether it was short
  chan, shut,          \* channels: buffer, closed
  got,       \* history: what the handler wrote to the client
  dropped,   \* history: entries not delivered because the buffer was full
  told,      \* history: the last row stored when the last gap marker was sent
  panicked, restarts

hub == <<closed, subs, since, notified>>
publisher == <<ppc, fan, turn>>
reading == <<rpc, got>>
replays == <<replay, closes, cursor, page, last>>
losses == <<dropped, told>>
process == <<panicked, restarts>>
vars == <<rows, hub, publisher, reading, replays, chan, shut, losses, process>>

\* What is assumed of the constants.
Sizes ==
  /\ MaxEntries \in Nat /\ MaxRestarts \in Nat
  /\ Capacity \in Nat \ {0} /\ PageSize \in Nat \ {0}

Gap == 0                       \* the gap marker, as an item of a channel
Items == 0..MaxEntries

TypeOK ==
  /\ rows \in Items
  /\ closed \in BOOLEAN /\ subs \in SUBSET Readers
  /\ since \in [Readers -> Items] /\ notified \in [Readers -> BOOLEAN]
  /\ ppc \in {"running", "inserted", "fanout", "over"}
  /\ fan \in SUBSET Readers /\ turn \in SUBSET Readers /\ Cardinality(turn) <= 1
  /\ rpc \in [Readers -> {"idle", "open", "ended", "gone"}]
  /\ replay \in [Readers -> {"none", "listing", "pushing", "over", "stopped"}]
  /\ closes \in SUBSET Readers
  /\ cursor \in [Readers -> Items] /\ last \in [Readers -> BOOLEAN]
  /\ \A r \in Readers :
       /\ page[r] \in Seq(Items) /\ Len(page[r]) <= PageSize
       /\ chan[r] \in Seq(Items) /\ Len(chan[r]) <= Capacity
       /\ got[r] \in Seq(Items)
  /\ shut \in SUBSET Readers
  /\ dropped \in [Readers -> SUBSET Items] /\ told \in [Readers -> Items]
  /\ panicked \in BOOLEAN /\ restarts \in 0..MaxRestarts

-----------------------------------------------------------------------------
(* Helpers *)

Bug_Room(r) == Len(chan[r]) <= Capacity     \* faulty: one more than the buffer holds
Room(r) == Len(chan[r]) < Capacity
Put(r, item) == chan' = [chan EXCEPT ![r] = Append(@, item)]
Mutex == ppc # "fanout"        \* dc.mu is free

\* ListDeploymentLogs: the first PageSize rows after the cursor, in order.
Page(r) ==
  LET left == rows - cursor[r]
      size == IF left < PageSize THEN left ELSE PageSize
  IN  [i \in 1..size |-> cursor[r] + i]

\* The page was the last one: it is not full.
Bug_Short(p) == Len(p) <= PageSize          \* faulty: stops after any page
Short(p) == Len(p) < PageSize

-----------------------------------------------------------------------------
(* The run: Publish, broadcast, Close *)

\* Publish: the row is stored first.
Insert ==
  /\ ~panicked /\ ppc = "running" /\ rows < MaxEntries
  /\ rows' = rows + 1
  /\ ppc' = "inserted"
  /\ UNCHANGED <<hub, fan, turn, reading, replays, chan, shut, losses, process>>

\* broadcast takes dc.mu.
Broadcast ==
  /\ ~panicked /\ ppc = "inserted"
  /\ ppc' = IF subs = {} THEN "running" ELSE "fanout"
  /\ fan' = subs /\ turn' = {}
  /\ UNCHANGED <<rows, hub, reading, replays, chan, shut, losses, process>>

\* A subscriber that lost entries is offered the gap marker first; the map of
\* subscribers is iterated in any order, one after the other.
OfferGap(r) ==
  /\ ~panicked /\ ppc = "fanout" /\ r \in fan /\ turn = {}
  /\ turn' = {r}
  /\ IF since[r] > 0 /\ ~notified[r] /\ Room(r)
     THEN /\ Put(r, Gap)
          /\ notified' = [notified EXCEPT ![r] = TRUE]
          /\ told' = [told EXCEPT ![r] = rows]
     ELSE UNCHANGED <<chan, notified, told>>
  /\ UNCHANGED <<rows, closed, subs, since, ppc, fan, reading, replays, shut, dropped, process>>

\* What a full buffer leaves in lostSince.
Bug_FirstLost(r) == rows                    \* faulty: the last loss, not the first
FirstLost(r) == IF since[r] = 0 THEN rows ELSE since[r]

\* The entry itself: it is dropped when the buffer is full.
SendEntry(r) ==
  /\ ~panicked /\ ppc = "fanout" /\ turn = {r}
  /\ turn' = {} /\ fan' = fan \ {r}
  /\ ppc' = IF fan' = {} THEN "running" ELSE "fanout"
  /\ IF Room(r)
     THEN /\ Put(r, rows)
          /\ since' = [since EXCEPT ![r] = IF notified[r] THEN 0 ELSE @]
          /\ notified' = [notified EXCEPT ![r] = FALSE]
          /\ UNCHANGED dropped
     ELSE /\ since' = [since EXCEPT ![r] = FirstLost(r)]
          /\ dropped' = [dropped EXCEPT ![r] = @ \cup {rows}]
          /\ UNCHANGED <<chan, notified>>
  /\ UNCHANGED <<rows, closed, subs, reading, replays, shut, told, process>>

\* Close, after the verdict is saved: every subscriber's channel is closed, also
\* one whose replay is still under way.
Close ==
  /\ ~panicked /\ ppc = "running"
  /\ ppc' = "over"
  /\ closed' = TRUE
  /\ shut' = shut \cup subs
  /\ subs' = {}
  /\ UNCHANGED <<rows, since, notified, fan, turn, reading, replays, chan, losses, process>>

-----------------------------------------------------------------------------
(* A stream: Subscribe, replay, the handler's loop *)

\* A run that is closed gets no subscriber: its replay closes the channel itself.
Subscribe(r) ==
  /\ ~panicked /\ rpc[r] = "idle" /\ Mutex
  /\ rpc' = [rpc EXCEPT ![r] = "open"]
  /\ replay' = [replay EXCEPT ![r] = "listing"]
  /\ IF closed
     THEN closes' = closes \cup {r} /\ UNCHANGED subs
     ELSE subs' = subs \cup {r} /\ UNCHANGED closes
  /\ UNCHANGED <<rows, closed, since, notified, publisher, got, cursor, page, last, chan, shut,
                 losses, process>>

\* The replay goroutine is at its end, by itself or because the client has left;
\* that of a late reader closes the channel.
Bug_Leave(r, how) ==                        \* faulty: it is never closed
  /\ replay' = [replay EXCEPT ![r] = how]
  /\ UNCHANGED shut
Leave(r, how) ==
  /\ replay' = [replay EXCEPT ![r] = how]
  /\ shut' = IF r \in closes THEN shut \cup {r} ELSE shut

\* One page is read; the context is looked at before.
List(r) ==
  /\ ~panicked /\ replay[r] = "listing"
  /\ IF rpc[r] # "open"
     THEN Leave(r, "stopped") /\ UNCHANGED <<page, last>>
     ELSE /\ page' = [page EXCEPT ![r] = Page(r)]
          /\ last' = [last EXCEPT ![r] = Short(Page(r))]
          /\ IF Page(r) = <<>>
             THEN Leave(r, "over")
             ELSE replay' = [replay EXCEPT ![r] = "pushing"] /\ UNCHANGED shut
  /\ UNCHANGED <<rows, hub, publisher, reading, closes, cursor, chan, losses, process>>

\* One row goes into the channel; a full one blocks.  On a closed channel the send
\* panics.
Push(r) ==
  /\ ~panicked /\ replay[r] = "pushing"
  /\ IF r \in shut
     THEN panicked' = TRUE /\ UNCHANGED <<chan, cursor, page, replay, shut>>
     ELSE /\ Room(r)
          /\ Put(r, Head(page[r]))
          /\ cursor' = [cursor EXCEPT ![r] = Head(page[r])]
          /\ page' = [page EXCEPT ![r] = Tail(@)]
          /\ CASE Tail(page[r]) # <<>> -> UNCHANGED <<replay, shut>>
               [] Tail(page[r]) = <<>> /\ last[r] -> Leave(r, "over")
               [] OTHER -> replay' = [replay EXCEPT ![r] = "listing"] /\ UNCHANGED shut
          /\ UNCHANGED panicked
  /\ UNCHANGED <<rows, hub, publisher, reading, closes, last, losses, restarts>>

\* select may take the other branch when the client has left.
StopReplay(r) ==
  /\ ~panicked /\ replay[r] = "pushing" /\ rpc[r] # "open"
  /\ Leave(r, "stopped")
  /\ UNCHANGED <<rows, hub, publisher, reading, closes, cursor, page, last, chan, losses, process>>

\* The handler writes the next item.
Consume(r) ==
  /\ ~panicked /\ rpc[r] = "open" /\ chan[r] # <<>>
  /\ got' = [got EXCEPT ![r] = Append(@, Head(chan[r]))]
  /\ chan' = [chan EXCEPT ![r] = Tail(@)]
  /\ UNCHANGED <<rows, hub, publisher, rpc, replays, shut, losses, process>>

\* It finds the channel closed and drained, writes "done" and returns, which ends
\* the request's context.
Done(r) ==
  /\ ~panicked /\ rpc[r] = "open" /\ r \in shut /\ chan[r] = <<>> /\ Mutex
  /\ rpc' = [rpc EXCEPT ![r] = "ended"]
  /\ subs' = subs \ {r}
  /\ UNCHANGED <<rows, closed, since, notified, publisher, got, replays, chan, shut, losses,
                 process>>

\* The client goes away: the handler returns and cleans up.
Disconnect(r) ==
  /\ ~panicked /\ rpc[r] = "open" /\ Mutex
  /\ rpc' = [rpc EXCEPT ![r] = "gone"]
  /\ subs' = subs \ {r}
  /\ UNCHANGED <<rows, closed, since, notified, publisher, got, replays, chan, shut, losses,
                 process>>

-----------------------------------------------------------------------------
\* The process restarts, after a panic or a crash: hub, streams and run are gone,
\* the rows stay, and the interrupted run is finalised (FinalizeOrphanedRuns).
Restart ==
  /\ restarts < MaxRestarts
  /\ restarts' = restarts + 1
  /\ closed' = FALSE /\ subs' = {} /\ shut' = {}
  /\ ppc' = "over" /\ fan' = {} /\ turn' = {}
  /\ rpc' = [r \in Readers |-> IF rpc[r] = "open" THEN "gone" ELSE rpc[r]]
  /\ replay' = [r \in Readers |-> IF replay[r] \in {"listing", "pushing"} THEN "stopped"
                                  ELSE replay[r]]
  /\ panicked' = FALSE
  /\ UNCHANGED <<rows, since, notified, closes, cursor, page, last, chan, got, losses>>

Init ==
  /\ rows = 0
  /\ closed = FALSE /\ subs = {}
  /\ since = [r \in Readers |-> 0] /\ notified = [r \in Readers |-> FALSE]
  /\ ppc = "running" /\ fan = {} /\ turn = {}
  /\ rpc = [r \in Readers |-> "idle"] /\ replay = [r \in Readers |-> "none"]
  /\ closes = {} /\ cursor = [r \in Readers |-> 0]
  /\ page = [r \in Readers |-> <<>>] /\ last = [r \in Readers |-> FALSE]
  /\ chan = [r \in Readers |-> <<>>] /\ shut = {}
  /\ got = [r \in Readers |-> <<>>]
  /\ dropped = [r \in Readers |-> {}] /\ told = [r \in Readers |-> 0]
  /\ panicked = FALSE /\ restarts = 0

Fanout == Insert \/ Broadcast \/ (\E r \in Readers : OfferGap(r) \/ SendEntry(r)) \/ Close
Replaying(r) == List(r) \/ Push(r) \/ StopReplay(r)
Handling(r) == Consume(r) \/ Done(r)

Next ==
  \/ Fanout
  \/ \E r \in Readers : Subscribe(r) \/ Replaying(r) \/ Handling(r) \/ Disconnect(r)
  \/ Restart

Spec == Init /\ [][Next]_vars

\* The run goes on to its end, replays are scheduled, clients read.
FairSpec ==
  /\ Spec
  /\ WF_vars(Fanout)
  /\ \A r \in Readers : WF_vars(Replaying(r)) /\ WF_vars(Handling(r))

-----------------------------------------------------------------------------
(* Properties *)

Delivered(r) == {got[r][i] : i \in DOMAIN got[r]}

\* A stream that came to its own end ("done") and whose replay ran to its end has
\* written every row of the run, except entries dropped by a full buffer.  It
\* relies on registering before the first page is read and on stopping only
\* after a short page.
Complete ==
  \A r \in Readers : rpc[r] = "ended" /\ replay[r] = "over"
    => 1..rows \subseteq Delivered(r) \cup dropped[r]

\* Until a gap marker has been sent to a subscriber, the number the marker tells
\* the client to fetch again from is the first entry it lost.
FirstLossRemembered ==
  \A r \in subs : told[r] = 0 /\ dropped[r] # {}
    => /\ since[r] \in dropped[r]
       /\ \A n \in dropped[r] : since[r] <= n

\* A stream does not outlive its run: after Close every open stream ends, however
\* full its channel was, unless the process panics.
StreamEnds ==
  \A r \in Readers : (closed /\ rpc[r] = "open") ~> (rpc[r] # "open" \/ panicked)

\* pubsub.go:29 "Hub is safe for concurrent use": nothing is sent on a channel
\* that was closed.
NoSendOnClosed == ~panicked

\* pubsub.go, Subscribe: a reader sees each entry once and history before live
\* entries ("To avoid duplicates we register first").
InOrder ==
  \A r \in Readers :
    LET entries == SelectSeq(got[r], LAMBDA n : n # Gap)
    IN  \A i, j \in DOMAIN entries : i < j => entries[i] < entries[j]

\* pubsub.go, Subscribe: a stream of a deployment that has finished is drained of
\* history and then closed.
FinishedStreamEnds ==
  \A r \in Readers : (ppc = "over" /\ rpc[r] = "open") ~> (rpc[r] # "open" \/ panicked)

\* pubsub.go, subState: a subscriber that lost an entry is told with a gap marker;
\* until then the hub remembers that it owes one.
DropsAnnounced ==
  \A r \in subs : (\E n \in dropped[r] : n > told[r]) => since[r] > 0

=============================================================================
