------------------------------- MODULE SseHub -------------------------------
(***************************************************************************)
(* The event hub of build pipelines (pkg/sse/hub.go), as the pipeline      *)
(* engine and the scheduler publish to it and StreamLogs                   *)
(* (internal/handler/sse.go) reads it, for one pipeline.                   *)
(*                                                                         *)
(* Each execution of the pipeline is a goroutine that publishes events and *)
(* at its end may close the hub's entry; a confirmed deployment can        *)
(* overlap the first execution's end.  The readers of a pipeline are a Go  *)
(* slice: Unsubscribe shifts its backing array in place, append writes     *)
(* into it or moves to a new one, and a Publish ranges over the slice it   *)
(* found at its start.  Publish holds the read lock, except that it lets   *)
(* go of it twice to count an event that a full channel did not take.      *)
(***************************************************************************)
EXTENDS Naturals, Sequences, FiniteSets

CONSTANTS
  Runs,        \* goroutines that execute the pipeline
  Readers,     \* stream requests
  None,        \* an unused slot of a backing array, no reader
  Capacity,    \* channel buffer (1024 in the code), positive
  MaxEvents    \* bound: events one execution publishes

VARIABLES
  arrays,    \* backing arrays allocated so far
  cur,       \* the array behind h.channels[id], 0 when there is no entry
  len,       \* the length of that slice
  drops,     \* h.droppedEvts[id]
  gpc,       \* publishing goroutines
  sent,      \* events each has published
  view, count, pos,   \* a Publish's range: array, length, next index
  rpc,       \* handler goroutines
  fill,      \* events in each reader's channel
  shut,      \* closed channels
  owed,      \* history: readers a Publish still has to serve
  gentle,    \* history: the Publish never let go of its lock
  panics     \* runtime panics; the process is gone after one

slice == <<arrays, cur, len>>
ranging == <<view, count, pos>>
publishing == <<gpc, sent, ranging>>
history == <<owed, gentle>>
vars == <<slice, drops, publishing, rpc, fill, shut, history, panics>>

\* What is assumed of the constants.
Sizes == Capacity \in Nat \ {0} /\ MaxEvents \in Nat /\ None \notin Readers

Alive == panics = {}

-----------------------------------------------------------------------------
(* Helpers *)

\* The write lock can be had: no Publish holds the read lock.
Bug_LockFree == TRUE                        \* faulty: the slice is changed without the lock
Bug_LockKept == \A g \in Runs : gpc[g] \notin {"sending", "dropping"}  \* faulty: not released
LockFree == \A g \in Runs : gpc[g] # "sending"

Bug_Room(r) == fill[r] <= Capacity          \* faulty: one more than the buffer holds
Room(r) == fill[r] < Capacity

Slots == IF cur = 0 THEN <<>> ELSE arrays[cur]
Registered == {Slots[i] : i \in 1..len}

\* append: in place while there is room, else into an array twice as large.
Bigger == LET size == IF len = 0 THEN 1 ELSE 2 * len
          IN  [i \in 1..size |-> IF i <= len THEN Slots[i] ELSE None]
AppendReader(r) ==
  /\ len' = len + 1
  /\ IF len < Len(Slots)
     THEN arrays' = [arrays EXCEPT ![cur][len + 1] = r] /\ UNCHANGED cur
     ELSE arrays' = Append(arrays, [Bigger EXCEPT ![len + 1] = r]) /\ cur' = Len(arrays')

\* append(channels[:i], channels[i+1:]...): the tail moves down, the last slot keeps
\* its value.
RemoveAt(k) ==
  /\ arrays' = [arrays EXCEPT ![cur] =
                  [i \in DOMAIN @ |-> IF k <= i /\ i < len THEN @[i + 1] ELSE @[i]]]
  /\ len' = len - 1
  /\ UNCHANGED cur

Bug_CloseChannels(rs) == UNCHANGED <<shut, panics>>   \* faulty: only forgets them
CloseChannels(rs) ==
  /\ shut' = shut \cup rs
  /\ panics' = panics \cup (IF rs \cap shut # {} THEN {"close"} ELSE {})

-----------------------------------------------------------------------------
(* The executions *)

\* Publish takes the read lock and ranges over the slice of this moment.
Publish(g) ==
  /\ Alive /\ gpc[g] = "running" /\ sent[g] < MaxEvents
  /\ gpc' = [gpc EXCEPT ![g] = "sending"]
  /\ sent' = [sent EXCEPT ![g] = @ + 1]
  /\ view' = [view EXCEPT ![g] = cur]
  /\ count' = [count EXCEPT ![g] = len]
  /\ pos' = [pos EXCEPT ![g] = 1]
  /\ owed' = [owed EXCEPT ![g] = Registered]
  /\ gentle' = [gentle EXCEPT ![g] = TRUE]
  /\ UNCHANGED <<slice, drops, rpc, fill, shut, panics>>

\* The next channel of the range gets the event; a full one makes Publish release
\* its lock.
Send(g) ==
  /\ Alive /\ gpc[g] = "sending" /\ pos[g] <= count[g]
  /\ LET r == arrays[view[g]][pos[g]] IN
       /\ owed' = [owed EXCEPT ![g] = @ \ {r}]
       /\ IF r \in shut
          THEN panics' = panics \cup {"send"} /\ UNCHANGED <<fill, gpc, pos, gentle>>
          ELSE IF Room(r)
          THEN /\ fill' = [fill EXCEPT ![r] = @ + 1]
               /\ pos' = [pos EXCEPT ![g] = @ + 1]
               /\ UNCHANGED <<gpc, gentle, panics>>
          ELSE /\ gpc' = [gpc EXCEPT ![g] = "dropping"]
               /\ gentle' = [gentle EXCEPT ![g] = FALSE]
               /\ UNCHANGED <<fill, pos, panics>>
  /\ UNCHANGED <<slice, drops, sent, view, count, rpc, shut>>

\* The drop is counted under the write lock.
Count(g) ==
  /\ Alive /\ gpc[g] = "dropping" /\ LockFree
  /\ drops' = drops + 1
  /\ gpc' = [gpc EXCEPT ![g] = "counted"]
  /\ UNCHANGED <<slice, sent, ranging, rpc, fill, shut, history, panics>>

\* The read lock again, and on with the range.
Relock(g) ==
  /\ Alive /\ gpc[g] = "counted"
  /\ gpc' = [gpc EXCEPT ![g] = "sending"]
  /\ pos' = [pos EXCEPT ![g] = @ + 1]
  /\ UNCHANGED <<slice, drops, sent, view, count, rpc, fill, shut, history, panics>>

Bug_PublishReturns(g) ==                    \* faulty: the last reader is left out
  /\ Alive /\ gpc[g] = "sending" /\ pos[g] >= count[g]
  /\ gpc' = [gpc EXCEPT ![g] = "running"]
  /\ UNCHANGED <<slice, drops, sent, ranging, rpc, fill, shut, history, panics>>

PublishReturns(g) ==
  /\ Alive /\ gpc[g] = "sending" /\ pos[g] > count[g]
  /\ gpc' = [gpc EXCEPT ![g] = "running"]
  /\ UNCHANGED <<slice, drops, sent, ranging, rpc, fill, shut, history, panics>>

\* The end of executePipeline with a verdict.
Close(g) ==
  /\ Alive /\ gpc[g] = "running" /\ LockFree
  /\ gpc' = [gpc EXCEPT ![g] = "closed"]
  /\ CloseChannels(Registered)
  /\ cur' = 0 /\ len' = 0 /\ drops' = 0
  /\ owed' = [h \in Runs |-> {}]
  /\ UNCHANGED <<arrays, sent, ranging, rpc, fill, gentle>>

\* Its early ends: the row is not found, the context cannot be built, or the image
\* waits for a confirmation.
ReturnEarly(g) ==
  /\ Alive /\ gpc[g] = "running"
  /\ gpc' = [gpc EXCEPT ![g] = "over"]
  /\ UNCHANGED <<slice, drops, sent, ranging, rpc, fill, shut, history, panics>>

-----------------------------------------------------------------------------
(* The streams *)

Subscribe(r) ==
  /\ Alive /\ rpc[r] = "idle" /\ LockFree
  /\ rpc' = [rpc EXCEPT ![r] = "open"]
  /\ AppendReader(r)
  /\ UNCHANGED <<drops, publishing, fill, shut, history, panics>>

\* The handler writes an event to its client.
Consume(r) ==
  /\ Alive /\ rpc[r] = "open" /\ fill[r] > 0
  /\ fill' = [fill EXCEPT ![r] = @ - 1]
  /\ UNCHANGED <<slice, drops, publishing, rpc, shut, history, panics>>

\* It returns: the channel is closed and drained, or the client has left.
Returns(r, how) ==
  /\ Alive /\ rpc[r] = "open"
  /\ how = "done" => r \in shut /\ fill[r] = 0
  /\ rpc' = [rpc EXCEPT ![r] = how]
  /\ UNCHANGED <<slice, drops, publishing, fill, shut, history, panics>>

\* Its deferred Unsubscribe: only a reader still registered is removed and closed.
Bug_Unsubscribed(r) == TRUE                 \* faulty: it closes in any case
Unsubscribed(r) == r \in Registered
Unsubscribe(r) ==
  /\ Alive /\ rpc[r] \in {"done", "left"} /\ LockFree
  /\ rpc' = [rpc EXCEPT ![r] = "over"]
  /\ IF r \in Registered
     THEN RemoveAt(CHOOSE k \in 1..len : Slots[k] = r)
     ELSE UNCHANGED slice
  /\ IF Unsubscribed(r) THEN CloseChannels({r}) ELSE UNCHANGED <<shut, panics>>
  /\ owed' = [g \in Runs |-> owed[g] \ {r}]
  /\ UNCHANGED <<drops, publishing, fill, gentle>>

-----------------------------------------------------------------------------
Init ==
  /\ arrays = <<>> /\ cur = 0 /\ len = 0 /\ drops = 0
  /\ gpc = [g \in Runs |-> "running"] /\ sent = [g \in Runs |-> 0]
  /\ view = [g \in Runs |-> 0] /\ count = [g \in Runs |-> 0] /\ pos = [g \in Runs |-> 1]
  /\ rpc = [r \in Readers |-> "idle"] /\ fill = [r \in Readers |-> 0]
  /\ shut = {}
  /\ owed = [g \in Runs |-> {}] /\ gentle = [g \in Runs |-> TRUE]
  /\ panics = {}

Executing(g) ==
  Publish(g) \/ Send(g) \/ Count(g) \/ Relock(g) \/ PublishReturns(g) \/ Close(g) \/ ReturnEarly(g)
Serving(r) == Consume(r) \/ Returns(r, "done") \/ Unsubscribe(r)

Next ==
  \/ \E g \in Runs : Executing(g)
  \/ \E r \in Readers : Subscribe(r) \/ Serving(r) \/ Returns(r, "left")

Spec == Init /\ [][Next]_vars

\* Goroutines are scheduled and clients read.  sync.RWMutex lets no new reader in
\* front of a waiting writer, so a Publish that waits to count a drop, and a
\* handler that waits to unsubscribe, are not overtaken for ever.
FairSpec ==
  /\ Spec
  /\ \A g \in Runs : WF_vars(Executing(g)) /\ SF_vars(Count(g))
  /\ \A r \in Readers : WF_vars(Serving(r)) /\ SF_vars(Unsubscribe(r))

-----------------------------------------------------------------------------
(* Properties *)

TypeOK ==
  /\ \A a \in DOMAIN arrays : \A i \in DOMAIN arrays[a] : arrays[a][i] \in Readers \cup {None}
  /\ cur \in 0..Len(arrays) /\ len \in 0..Len(Slots)
  /\ drops \in Nat
  /\ gpc \in [Runs -> {"running", "sending", "dropping", "counted", "closed", "over"}]
  /\ sent \in [Runs -> 0..MaxEvents]
  /\ view \in [Runs -> 0..Len(arrays)] /\ count \in [Runs -> Nat] /\ pos \in [Runs -> Nat]
  /\ rpc \in [Readers -> {"idle", "open", "done", "left", "over"}]
  /\ fill \in [Readers -> 0..Capacity]
  /\ shut \in SUBSET Readers
  /\ owed \in [Runs -> SUBSET Readers] /\ gentle \in [Runs -> BOOLEAN]
  /\ panics \in SUBSET {"send", "close"}

\* No channel is closed twice, although both Close and the handler's own
\* Unsubscribe close them.
ClosedOnce == "close" \notin panics

\* A Publish that found room in every channel has served every reader registered
\* at its start that is still there.
ServedUnlessFull ==
  \A g \in Runs : gpc[g] \in {"running", "closed", "over"} /\ gentle[g] => owed[g] = {}

\* An event is sent on a closed channel by a Publish only that has let go of its
\* lock, that is, has met a full channel: another one's letting go does no harm.
SendSafeUnlessFull ==
  "send" \in panics => \E g \in Runs : gpc[g] = "sending" /\ ~gentle[g]

\* Publish always returns: giving up the read lock before taking the write lock
\* leaves no two goroutines waiting on each other.
PublishEnds ==
  \A g \in Runs : gpc[g] = "dropping" ~> (gpc[g] = "running" \/ panics # {})

\* A stream that the hub has forgotten, because an execution closed the entry while
\* it was registered, ends.
StreamEnds ==
  \A r \in Readers :
    (rpc[r] = "open" /\ r \notin Registered) ~> (rpc[r] = "over" \/ panics # {})

\* hub.go, Publish: a full channel costs its reader the event and a warning, nothing
\* more; no event is sent on a closed channel.
NoSendOnClosed == "send" \notin panics

\* design.md: several clients may follow one pipeline; a slow one that leaves costs
\* the others nothing.
ServedAll ==
  \A g \in Runs : gpc[g] \in {"running", "closed", "over"} => owed[g] = {}

\* design.md: once the build is complete the channel is closed and the client gets
\* "done".
DoneHeard ==
  \A r \in Readers :
    ((\A g \in Runs : gpc[g] \in {"closed", "over"}) /\ rpc[r] = "open")
      ~> (rpc[r] # "open" \/ panics # {})
=============================================================================
