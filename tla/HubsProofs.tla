------------------------------ MODULE HubsProofs ------------------------------
(***************************************************************************)
(* Theorems about the two hubs, for every number of readers, executions,   *)
(* entries and restarts, every size of a buffer and of a replay page.      *)
(***************************************************************************)
EXTENDS Hubs, FiniteSetTheorems, SequenceTheorems, TLAPS

-----------------------------------------------------------------------------
(* What is always true of the event hub. *)

EventTypes == S!TypeOK /\ arrays \in Seq(Seq(Readers \cup {None}))

\* The slice lists each of its readers once.
Slice ==
  /\ \A i \in 1..len : S!Slots[i] \in Readers
  /\ \A i, j \in 1..len : S!Slots[i] = S!Slots[j] => i = j

\* A registered reader's handler has subscribed and not yet unsubscribed, and its
\* channel is open.
Joined ==
  \A r \in Readers :
    /\ r \in S!Registered => handler[r] \in {"open", "done", "left"} /\ r \notin done
    /\ handler[r] = "idle" => r \notin done

\* A Publish that has kept its lock ranges over the slice as it is, and owes no one
\* but those still to come.
Ranging ==
  \A g \in Runs :
    /\ gpc[g] = "sending" /\ gentle[g] =>
         /\ view[g] = cur /\ count[g] = len /\ pos[g] >= 1
         /\ owed[g] \subseteq {S!Slots[i] : i \in pos[g]..len}
    /\ gpc[g] \in {"dropping", "counted"} => ~gentle[g]

EventInv ==
  /\ EventTypes /\ Slice /\ Joined /\ Ranging
  /\ S!ServedUnlessFull /\ S!SendSafeUnlessFull /\ S!ClosedOnce

-----------------------------------------------------------------------------
(* What is always true of the log hub. *)

LogTypes ==
  /\ L!TypeOK
  /\ page \in [LogReaders -> Seq(L!Items)]
  /\ chan \in [LogReaders -> Seq(L!Items)] /\ got \in [LogReaders -> Seq(L!Items)]

Members(s) == {s[i] : i \in DOMAIN s}

\* What a reader has of the log: shown, on its way, or known to be lost.
Has(r) == Members(got[r]) \cup Members(chan[r]) \cup dropped[r]

\* How far the replay has read.
Reach(r) == cursor[r] + Len(page[r])

\* The last row is stored but has not yet been offered to the reader.
Pending(r) == ppc = "inserted" \/ (ppc = "fanout" /\ r \in fan)

\* The replay has read to the end of the log.
ReadOut(r) == replay[r] = "over" \/ (replay[r] = "pushing" /\ last[r])

\* The page in hand holds the rows after the cursor, in order.
Paged(r) ==
  /\ cursor[r] <= rows
  /\ replay[r] = "pushing" =>
       /\ page[r] # <<>> /\ Reach(r) <= rows
       /\ \A i \in 1..Len(page[r]) : page[r][i] = cursor[r] + i
  /\ replay[r] = "over" => page[r] = <<>>

\* History up to the cursor has come; once the replay has read to the end, what
\* was stored since has come through the fan-out.
Covered(r) ==
  /\ 1..cursor[r] \subseteq Has(r)
  /\ rpc[r] = "open" /\ ReadOut(r) =>
       \A k \in 1..rows : k > Reach(r) => k \in Has(r) \/ (k = rows /\ Pending(r))

\* A stream is registered while its run goes on, and ends after it.
Ordered(r) ==
  /\ rpc[r] = "open" /\ ppc # "over" => r \in subs
  /\ rpc[r] = "ended" => ppc = "over"
  /\ rpc[r] = "ended" /\ replay[r] \in {"listing", "pushing"} => r \in shut

\* lostSince is the first loss as long as no gap marker has been sent.
Losses(r) ==
  /\ dropped[r] \subseteq 1..rows
  /\ told[r] = 0 => ~notified[r]
  /\ dropped[r] = {} => since[r] = 0
  /\ told[r] = 0 /\ dropped[r] # {} =>
       since[r] \in dropped[r] /\ \A n \in dropped[r] : since[r] <= n

\* What a stream that came to its end has shown.
Shown(r) ==
  rpc[r] = "ended" /\ replay[r] = "over" => 1..rows \subseteq Members(got[r]) \cup dropped[r]

Stream(r) == Paged(r) /\ Covered(r) /\ Ordered(r) /\ Losses(r) /\ Shown(r)

\* What only comes after the end of the run.
Run ==
  /\ ppc \in {"inserted", "fanout"} => rows >= 1
  /\ ppc # "over" => ~closed /\ closes = {} /\ shut = {}

LogInv == LogTypes /\ Run /\ \A r \in LogReaders : Stream(r)

IInv == EventInv /\ LogInv

-----------------------------------------------------------------------------
(* The slice of readers *)

LEMMA SeqOfFunction ==
  ASSUME NEW E, NEW n \in Nat, NEW t \in [1..n -> E]
  PROVE  t \in Seq(E) /\ Len(t) = n
<1>1. t \in Seq(E)
  BY SeqDef
<1> QED
  BY <1>1, LenProperties

LEMMA SlotsType ==
  ASSUME EventTypes
  PROVE  /\ S!Slots \in Seq(Readers \cup {None})
         /\ Len(S!Slots) \in Nat /\ DOMAIN S!Slots = 1..Len(S!Slots)
         /\ len \in 0..Len(S!Slots)
         /\ cur # 0 => cur \in 1..Len(arrays) /\ S!Slots = arrays[cur]
         /\ cur = 0 => S!Slots = <<>>
<1>1. cur \in 0..Len(arrays) /\ len \in 0..Len(S!Slots) /\ arrays \in Seq(Seq(Readers \cup {None}))
  BY DEF EventTypes, S!TypeOK
<1>2. cur # 0 => cur \in 1..Len(arrays) /\ S!Slots = arrays[cur]
  BY <1>1 DEF S!Slots
<1>3. cur = 0 => S!Slots = <<>>
  BY DEF S!Slots
<1>4. S!Slots \in Seq(Readers \cup {None})
  <2>1. CASE cur = 0
    BY <1>3, <2>1, EmptySeq
  <2>2. CASE cur # 0
    BY <1>1, <1>2, <2>2, ElementOfSeq
  <2> QED
    BY <2>1, <2>2
<1> QED
  BY <1>1, <1>2, <1>3, <1>4, LenProperties

\* One reader more: every slot in use keeps its reader, the next one gets r.
LEMMA Appended ==
  ASSUME EventTypes, NEW r \in Readers, S!AppendReader(r)
  PROVE  /\ arrays' \in Seq(Seq(Readers \cup {None}))
         /\ Len(arrays') >= Len(arrays) /\ cur' \in 0..Len(arrays')
         /\ len' = len + 1 /\ len' \in 0..Len(S!Slots')
         /\ \A i \in 1..len : S!Slots'[i] = S!Slots[i]
         /\ S!Slots'[len + 1] = r
<1>0. /\ arrays \in Seq(Seq(Readers \cup {None})) /\ cur \in 0..Len(arrays)
      /\ Len(arrays) \in Nat /\ len \in Nat /\ len' = len + 1
  BY SlotsType, LenProperties DEF EventTypes, S!TypeOK, S!AppendReader
<1>1. CASE len < Len(S!Slots)
  <2>1. cur \in 1..Len(arrays) /\ S!Slots = arrays[cur] /\ cur # 0
    BY <1>1, SlotsType, EmptySeq
  <2>2. PICK t : t = [S!Slots EXCEPT ![len + 1] = r]
    OBVIOUS
  <2>3. arrays' = [arrays EXCEPT ![cur] = t] /\ cur' = cur
    BY <1>1, <2>1, <2>2 DEF S!AppendReader
  <2>4. /\ t \in Seq(Readers \cup {None}) /\ Len(t) = Len(S!Slots)
        /\ t[len + 1] = r /\ \A i \in 1..len : t[i] = S!Slots[i]
    BY <1>0, <1>1, <2>2, SlotsType, ExceptSeq
  <2>5. arrays' \in Seq(Seq(Readers \cup {None})) /\ Len(arrays') = Len(arrays) /\ arrays'[cur] = t
    BY <1>0, <2>1, <2>3, <2>4, ExceptSeq
  <2>6. S!Slots' = t
    BY <2>1, <2>3, <2>5 DEF S!Slots
  <2> QED
    BY <1>0, <1>1, <2>3, <2>4, <2>5, <2>6
<1>2. CASE ~(len < Len(S!Slots))
  <2>1. len = Len(S!Slots)
    BY <1>2, SlotsType
  <2>2. PICK size : size = IF len = 0 THEN 1 ELSE 2 * len
    OBVIOUS
  <2>3. size \in Nat /\ len + 1 \in 1..size
    BY <2>2, <1>0
  <2>4. PICK t : t = [S!Bigger EXCEPT ![len + 1] = r]
    OBVIOUS
  <2>5. S!Bigger = [i \in 1..size |-> IF i <= len THEN S!Slots[i] ELSE None]
    BY <2>2 DEF S!Bigger
  <2>6. \A i \in 1..size : i <= len => S!Slots[i] \in Readers \cup {None}
    BY <2>1, <1>0, SlotsType, ElementOfSeq
  <2>7. S!Bigger \in [1..size -> Readers \cup {None}]
    BY <2>5, <2>6
  <2>8. /\ t \in [1..size -> Readers \cup {None}]
        /\ t[len + 1] = r /\ \A i \in 1..len : t[i] = S!Slots[i]
    <3>1. DOMAIN S!Bigger = 1..size /\ r \in Readers \cup {None}
      BY <2>5
    <3>2. t \in [1..size -> Readers \cup {None}]
      BY <2>4, <2>7
    <3>3. t[len + 1] = r
      BY <2>3, <2>4, <3>1
    <3>4. \A i \in 1..len : i \in 1..size /\ i # len + 1 /\ i <= len
      BY <1>0, <2>3
    <3>5. \A i \in 1..len : S!Bigger[i] = S!Slots[i]
      BY <2>5, <3>4
    <3>6. \A i \in 1..len : t[i] = S!Bigger[i]
      BY <2>4, <3>1, <3>4, Zenon
    <3> QED
      BY <3>2, <3>3, <3>5, <3>6
  <2>9. t \in Seq(Readers \cup {None}) /\ Len(t) = size
    BY <2>3, <2>8, SeqOfFunction
  <2>10. arrays' = Append(arrays, t) /\ cur' = Len(arrays')
    BY <1>2, <2>4 DEF S!AppendReader
  <2>11. /\ arrays' \in Seq(Seq(Readers \cup {None})) /\ Len(arrays') = Len(arrays) + 1
         /\ arrays'[Len(arrays')] = t
    BY <1>0, <2>9, <2>10, AppendProperties
  <2>12. S!Slots' = t
    BY <1>0, <2>10, <2>11 DEF S!Slots
  <2> QED
    BY <1>0, <2>3, <2>8, <2>9, <2>10, <2>11, <2>12
<1> QED
  BY <1>1, <1>2

\* One reader less: those behind it move up.
LEMMA Removed ==
  ASSUME EventTypes, NEW k \in 1..len, S!RemoveAt(k)
  PROVE  /\ arrays' \in Seq(Seq(Readers \cup {None}))
         /\ Len(arrays') = Len(arrays) /\ cur' \in 0..Len(arrays')
         /\ len = len' + 1 /\ len' \in 0..Len(S!Slots')
         /\ \A i \in 1..len' : S!Slots'[i] = IF i < k THEN S!Slots[i] ELSE S!Slots[i + 1]
<1>0. /\ arrays \in Seq(Seq(Readers \cup {None})) /\ cur \in 0..Len(arrays)
      /\ Len(arrays) \in Nat /\ len \in Nat \ {0} /\ len' = len - 1 /\ cur' = cur
  BY SlotsType, LenProperties DEF EventTypes, S!TypeOK, S!RemoveAt
<1>1. cur \in 1..Len(arrays) /\ S!Slots = arrays[cur] /\ cur # 0
  BY <1>0, SlotsType, EmptySeq
<1>2. PICK t : t = [i \in DOMAIN S!Slots |->
                      IF k <= i /\ i < len THEN S!Slots[i + 1] ELSE S!Slots[i]]
  OBVIOUS
<1>3. arrays' = [arrays EXCEPT ![cur] = t]
  BY <1>1, <1>2 DEF S!RemoveAt
<1>4. DOMAIN S!Slots = 1..Len(S!Slots) /\ len <= Len(S!Slots) /\ Len(S!Slots) \in Nat
  BY SlotsType
<1>5. \A i \in 1..Len(S!Slots) : S!Slots[i] \in Readers \cup {None}
  BY SlotsType, ElementOfSeq
<1>6. t \in [1..Len(S!Slots) -> Readers \cup {None}]
  BY <1>0, <1>2, <1>4, <1>5
<1>7. t \in Seq(Readers \cup {None}) /\ Len(t) = Len(S!Slots)
  BY <1>4, <1>6, SeqOfFunction
<1>8. arrays' \in Seq(Seq(Readers \cup {None})) /\ Len(arrays') = Len(arrays) /\ arrays'[cur] = t
  BY <1>0, <1>1, <1>3, <1>7, ExceptSeq
<1>9. S!Slots' = t
  BY <1>0, <1>1, <1>8 DEF S!Slots
<1>10. \A i \in 1..(len - 1) : t[i] = IF i < k THEN S!Slots[i] ELSE S!Slots[i + 1]
  BY <1>0, <1>2, <1>4
<1> QED
  BY <1>0, <1>4, <1>7, <1>8, <1>9, <1>10

LEMMA ArrayElements ==
  ASSUME NEW E, NEW a \in Seq(Seq(E))
  PROVE  \A n \in DOMAIN a : \A i \in DOMAIN a[n] : a[n][i] \in E
<1> TAKE n \in DOMAIN a
<1>1. a[n] \in Seq(E)
  BY LenProperties, ElementOfSeq
<1> TAKE i \in DOMAIN a[n]
<1>2. i \in 1..Len(a[n])
  BY <1>1, LenProperties
<1> QED
  BY <1>1, <1>2, ElementOfSeq

LEMMA SliceKept ==
  ASSUME UNCHANGED <<arrays, cur, len>>
  PROVE  S!Slots' = S!Slots /\ S!Registered' = S!Registered /\ (Slice => Slice')
<1>1. S!Slots' = S!Slots
  BY DEF S!Slots
<1>2. S!Registered' = S!Registered
  BY <1>1 DEF S!Registered
<1> QED
  BY <1>1, <1>2 DEF Slice

LEMMA AppendReaderJoins ==
  ASSUME EventTypes, Slice, NEW r \in Readers, r \notin S!Registered, S!AppendReader(r)
  PROVE  Slice' /\ S!Registered' = S!Registered \cup {r}
<1>1. /\ len \in Nat /\ len' = len + 1
      /\ \A i \in 1..len : S!Slots'[i] = S!Slots[i]
      /\ S!Slots'[len + 1] = r
  BY Appended, SlotsType
<1>2. \A i \in 1..len' : i \in 1..len \/ i = len + 1
  BY <1>1
<1>3. \A i \in 1..len : S!Slots[i] # r
  BY DEF S!Registered
<1>4. 1..len \subseteq 1..len' /\ len + 1 \in 1..len' /\ len + 1 \notin 1..len
  BY <1>1
<1>5. Slice'
  BY <1>1, <1>2, <1>3, <1>4, Zenon DEF Slice
<1>6. S!Registered' = S!Registered \cup {r}
  BY <1>1, <1>2, <1>4, Zenon DEF S!Registered
<1> QED
  BY <1>5, <1>6

LEMMA RemoveAtLeaves ==
  ASSUME EventTypes, Slice, NEW r \in S!Registered,
         S!RemoveAt(CHOOSE k \in 1..len : S!Slots[k] = r)
  PROVE  Slice' /\ S!Registered' = S!Registered \ {r}
<1>1. PICK k \in 1..len : S!Slots[k] = r /\ S!RemoveAt(k)
  <2>1. \E k \in 1..len : S!Slots[k] = r
    BY DEF S!Registered
  <2> QED
    BY <2>1
<1> DEFINE from(i) == IF i < k THEN i ELSE i + 1
<1>2. len \in Nat /\ k \in Nat
  BY SlotsType
<1>3. PICK n \in Nat : n = len'
  BY Removed, <1>1, SlotsType
<1>4. len = n + 1 /\ \A i \in 1..n : S!Slots'[i] = S!Slots[from(i)]
  BY Removed, <1>1, <1>3
<1>5. \A i \in 1..n : from(i) \in 1..len /\ from(i) # k
  BY <1>2, <1>4
<1>6. \A i, j \in 1..n : from(i) = from(j) => i = j
  BY <1>2, <1>4
<1>7. \A i \in 1..len : i # k => \E j \in 1..n : i = from(j)
  <2> SUFFICES ASSUME NEW i \in 1..len, i # k
               PROVE  \E j \in 1..n : i = from(j)
    OBVIOUS
  <2>1. CASE i < k
    BY <2>1, <1>2, <1>4
  <2>2. CASE i > k
    <3>1. i - 1 \in 1..n /\ i = from(i - 1)
      BY <2>2, <1>2, <1>4
    <3> QED
      BY <3>1
  <2> QED
    BY <2>1, <2>2, <1>2
<1> HIDE DEF from
<1>8. Slice'
  <2>1. \A i \in 1..n : S!Slots'[i] \in Readers
    BY <1>4, <1>5, Zenon DEF Slice
  <2>2. \A i, j \in 1..n : S!Slots'[i] = S!Slots'[j] => i = j
    BY <1>4, <1>5, <1>6, Zenon DEF Slice
  <2> QED
    BY <1>3, <2>1, <2>2 DEF Slice
<1>9. \A i \in 1..n : S!Slots[from(i)] # r
  BY <1>1, <1>5, Zenon DEF Slice
<1>10. S!Registered' = S!Registered \ {r}
  <2>1. S!Registered' = {S!Slots'[i] : i \in 1..n}
    BY <1>3 DEF S!Registered
  <2>2. ASSUME NEW q \in S!Registered' PROVE q \in S!Registered \ {r}
    <3>1. PICK i \in 1..n : q = S!Slots[from(i)]
      BY <2>1, <1>4
    <3> QED
      BY <3>1, <1>5, <1>9, Zenon DEF S!Registered
  <2>3. ASSUME NEW q \in S!Registered, q # r PROVE q \in S!Registered'
    <3>1. PICK i \in 1..len : q = S!Slots[i]
      BY DEF S!Registered
    <3>2. i # k
      BY <3>1, <2>3, <1>1
    <3>3. PICK j \in 1..n : i = from(j)
      BY <3>2, <1>7
    <3> QED
      BY <3>1, <3>3, <2>1, <1>4
  <2> QED
    BY <2>2, <2>3, Zenon
<1> QED
  BY <1>8, <1>10

-----------------------------------------------------------------------------
(* The steps of the event hub *)

LEMMA EventBegins ==
  ASSUME HubsAssumption, S!Init
  PROVE  EventInv
<1> USE DEF S!Init
<1>1. S!Slots = <<>> /\ 1..len = {} /\ S!Registered = {}
  BY DEF S!Slots, S!Registered
<1>2. EventTypes
  <2>1. arrays \in Seq(Seq(Readers \cup {None})) /\ Len(arrays) = 0 /\ Len(S!Slots) = 0
    BY <1>1, EmptySeq
  <2>2. DOMAIN arrays = {}
    BY <2>1, LenProperties
  <2> QED
    BY <2>1, <2>2, HubsAssumption DEF EventTypes, S!TypeOK, S!Sizes
<1>3. Slice /\ Joined /\ Ranging
  BY <1>1 DEF Slice, Joined, Ranging
<1>4. S!ServedUnlessFull /\ S!SendSafeUnlessFull /\ S!ClosedOnce
  BY DEF S!ServedUnlessFull, S!SendSafeUnlessFull, S!ClosedOnce
<1> QED
  BY <1>2, <1>3, <1>4 DEF EventInv

LEMMA PublishStep ==
  ASSUME EventInv, HubsAssumption, NEW g \in Runs, S!Publish(g)
  PROVE  EventInv'
<1>0. UNCHANGED <<arrays, cur, len>> /\ S!Slots' = S!Slots /\ S!Registered' = S!Registered /\ Slice'
  BY SliceKept DEF EventInv, S!Publish, S!slice
<1>1. EventTypes'
  <2>0. EventTypes /\ Slice
    BY DEF EventInv
  <2>a. len \in Nat /\ cur \in 0..Len(arrays)
    BY <2>0, SlotsType DEF EventTypes, S!TypeOK
  <2>b. S!Registered \subseteq Readers
    BY <2>0 DEF S!Registered, Slice
  <2>1. len \in Nat /\ cur \in 0..Len(arrays) /\ S!Registered \subseteq Readers
    BY <2>a, <2>b
  <2>2. /\ gpc' \in [Runs -> {"running", "sending", "dropping", "counted", "closed", "over"}]
        /\ view' \in [Runs -> 0..Len(arrays)] /\ count' \in [Runs -> Nat]
        /\ pos' \in [Runs -> Nat] /\ gentle' \in [Runs -> BOOLEAN]
        /\ owed' \in [Runs -> SUBSET Readers]
    BY <2>1 DEF EventInv, EventTypes, S!TypeOK, S!Publish
  <2>3. sent' \in [Runs -> 0..MaxEvents]
    BY HubsAssumption DEF EventInv, EventTypes, S!TypeOK, S!Publish, S!Sizes
  <2> QED
    BY <1>0, <2>2, <2>3 DEF EventInv, EventTypes, S!TypeOK, S!Publish
<1>2. Joined'
  BY <1>0 DEF EventInv, Joined, S!Publish
<1>3. Ranging'
  <2> SUFFICES ASSUME NEW h \in Runs
               PROVE  /\ gpc'[h] = "sending" /\ gentle'[h] =>
                           /\ view'[h] = cur /\ count'[h] = len /\ pos'[h] >= 1
                           /\ owed'[h] \subseteq {S!Slots[i] : i \in pos'[h]..len}
                      /\ gpc'[h] \in {"dropping", "counted"} => ~gentle'[h]
    BY <1>0 DEF Ranging
  <2>1. CASE h = g
    BY <2>1 DEF EventInv, EventTypes, S!TypeOK, S!Publish, S!Registered
  <2>2. CASE h # g
    BY <2>2 DEF EventInv, EventTypes, S!TypeOK, S!Publish, Ranging
  <2> QED
    BY <2>1, <2>2
<1>4. S!ServedUnlessFull' /\ S!SendSafeUnlessFull' /\ S!ClosedOnce'
  BY DEF EventInv, EventTypes, S!TypeOK, S!Publish, S!Alive,
         S!ServedUnlessFull, S!SendSafeUnlessFull, S!ClosedOnce
<1> QED
  BY <1>0, <1>1, <1>2, <1>3, <1>4 DEF EventInv

\* As long as a Publish keeps its lock, the channel it sends on is open.
LEMMA SendStep ==
  ASSUME EventInv, HubsAssumption, NEW g \in Runs, S!Send(g)
  PROVE  EventInv'
<1>0. UNCHANGED <<arrays, cur, len>> /\ S!Slots' = S!Slots /\ S!Registered' = S!Registered /\ Slice'
  BY SliceKept DEF EventInv, S!Send, S!slice
<1>1. PICK r : r = arrays[view[g]][pos[g]]
  OBVIOUS
<1>2. gentle[g] => r = S!Slots[pos[g]] /\ pos[g] \in 1..len /\ r \in Readers /\ r \notin done
  <2> SUFFICES ASSUME gentle[g]
               PROVE  r = S!Slots[pos[g]] /\ pos[g] \in 1..len /\ r \in Readers /\ r \notin done
    OBVIOUS
  <2>1. view[g] = cur /\ pos[g] \in 1..len
    BY DEF EventInv, EventTypes, S!TypeOK, Ranging, S!Send
  <2>2. r = S!Slots[pos[g]]
    <3>1. Len(S!Slots) # 0
      BY <2>1, SlotsType DEF EventInv
    <3> QED
      BY <3>1, <1>1, <2>1, SlotsType, EmptySeq DEF EventInv
  <2> QED
    BY <2>1, <2>2 DEF EventInv, Slice, Joined, S!Registered
<1>3. EventTypes'
  <2>1. /\ owed' = [owed EXCEPT ![g] = @ \ {r}]
        /\ pos' = [pos EXCEPT ![g] = @ + 1] \/ pos' = pos
        /\ gpc' = [gpc EXCEPT ![g] = "dropping"] \/ gpc' = gpc
        /\ gentle' = [gentle EXCEPT ![g] = FALSE] \/ gentle' = gentle
        /\ panics' = panics \cup {"send"} \/ panics' = panics
    BY <1>1 DEF S!Send
  <2>2. fill' \in [Readers -> 0..Capacity]
    <3>1. (fill' = [fill EXCEPT ![r] = @ + 1] /\ S!Room(r)) \/ fill' = fill
      BY <1>1 DEF S!Send
    <3>2. fill \in [Readers -> 0..Capacity] /\ Capacity \in Nat
      BY HubsAssumption DEF EventInv, EventTypes, S!TypeOK, S!Sizes
    <3>3. ASSUME r \in Readers, S!Room(r), fill' = [fill EXCEPT ![r] = @ + 1]
          PROVE  fill' \in [Readers -> 0..Capacity]
      <4>1. fill[r] + 1 \in 0..Capacity
        BY <3>2, <3>3 DEF S!Room
      <4> QED
        BY <3>2, <3>3, <4>1
    <3>4. ASSUME r \notin Readers, fill' = [fill EXCEPT ![r] = @ + 1]
          PROVE  fill' \in [Readers -> 0..Capacity]
      BY <3>2, <3>4
    <3> QED
      BY <3>1, <3>2, <3>3, <3>4
  <2>3. /\ gpc' \in [Runs -> {"running", "sending", "dropping", "counted", "closed", "over"}]
        /\ pos' \in [Runs -> Nat] /\ gentle' \in [Runs -> BOOLEAN]
        /\ owed' \in [Runs -> SUBSET Readers] /\ panics' \in SUBSET {"send", "close"}
    <3>1. gpc' \in [Runs -> {"running", "sending", "dropping", "counted", "closed", "over"}]
      BY <2>1 DEF EventInv, EventTypes, S!TypeOK
    <3>2. pos' \in [Runs -> Nat] /\ gentle' \in [Runs -> BOOLEAN]
      <4>1. pos \in [Runs -> Nat] /\ gentle \in [Runs -> BOOLEAN]
        BY DEF EventInv, EventTypes, S!TypeOK
      <4>2. pos' \in [Runs -> Nat]
        BY <2>1, <4>1
      <4>3. gentle' \in [Runs -> BOOLEAN]
        BY <2>1, <4>1
      <4> QED
        BY <4>2, <4>3
    <3>3. owed' \in [Runs -> SUBSET Readers] /\ panics' \in SUBSET {"send", "close"}
      BY <2>1 DEF EventInv, EventTypes, S!TypeOK
    <3> QED
      BY <3>1, <3>2, <3>3
  <2> QED
    BY <1>0, <2>2, <2>3 DEF EventInv, EventTypes, S!TypeOK, S!Send
<1>4. Joined'
  BY <1>0 DEF EventInv, Joined, S!Send
<1>5. Ranging'
  <2> SUFFICES ASSUME NEW h \in Runs
               PROVE  /\ gpc'[h] = "sending" /\ gentle'[h] =>
                           /\ view'[h] = cur /\ count'[h] = len /\ pos'[h] >= 1
                           /\ owed'[h] \subseteq {S!Slots[i] : i \in pos'[h]..len}
                      /\ gpc'[h] \in {"dropping", "counted"} => ~gentle'[h]
    BY <1>0 DEF Ranging
  <2>1. CASE h = g
    <3>1. CASE ~gentle'[g]
      BY <2>1, <3>1
    <3>2. CASE gentle'[g]
      <4>1. gentle[g] /\ gpc[g] = "sending"
        BY <1>1, <3>2 DEF EventInv, EventTypes, S!TypeOK, S!Send
      <4>2. /\ pos' = [pos EXCEPT ![g] = @ + 1] /\ UNCHANGED <<gpc, view, count>>
            /\ owed' = [owed EXCEPT ![g] = @ \ {r}]
        BY <4>1, <3>2, <1>1, <1>2 DEF EventInv, EventTypes, S!TypeOK, S!Send
      <4>3. /\ view[g] = cur /\ count[g] = len /\ pos[g] >= 1
            /\ owed[g] \subseteq {S!Slots[i] : i \in pos[g]..len}
        BY <4>1 DEF EventInv, Ranging
      <4>4. pos'[g] = pos[g] + 1 /\ owed'[g] = owed[g] \ {r} /\ pos[g] \in Nat /\ len \in Nat
        BY <4>2, SlotsType DEF EventInv, EventTypes, S!TypeOK
      <4>5. \A i \in pos[g]..len : i = pos[g] \/ i \in (pos[g] + 1)..len
        BY <4>4
      <4>6. owed'[g] \subseteq {S!Slots[i] : i \in (pos[g] + 1)..len}
        BY <4>3, <4>4, <4>5, <1>2, <4>1, Zenon
      <4> QED
        BY <2>1, <4>1, <4>2, <4>3, <4>4, <4>6
    <3> QED
      BY <3>1, <3>2
  <2>2. CASE h # g
    <3>1. /\ view'[h] = view[h] /\ count'[h] = count[h] /\ pos'[h] = pos[h]
          /\ owed'[h] = owed[h] /\ gpc'[h] = gpc[h] /\ gentle'[h] = gentle[h]
      BY <2>2 DEF EventInv, EventTypes, S!TypeOK, S!Send
    <3> QED
      BY <3>1 DEF EventInv, Ranging
  <2> QED
    BY <2>1, <2>2
<1>6. S!ServedUnlessFull'
  <2> SUFFICES ASSUME NEW h \in Runs, gpc'[h] \in {"running", "closed", "over"}, gentle'[h]
               PROVE  owed'[h] = {}
    BY DEF S!ServedUnlessFull
  <2>1. h # g /\ gpc'[h] = gpc[h] /\ gentle'[h] = gentle[h] /\ owed'[h] = owed[h]
    BY DEF EventInv, EventTypes, S!TypeOK, S!Send
  <2> QED
    BY <2>1 DEF EventInv, S!ServedUnlessFull
<1>7. S!SendSafeUnlessFull'
  <2> SUFFICES ASSUME "send" \in panics'
               PROVE  gpc'[g] = "sending" /\ ~gentle'[g]
    BY DEF S!SendSafeUnlessFull
  <2>1. r \in done /\ UNCHANGED <<gpc, gentle>>
    BY <1>1 DEF S!Send, S!Alive
  <2> QED
    BY <2>1, <1>2 DEF S!Send
<1>8. S!ClosedOnce'
  BY DEF EventInv, S!ClosedOnce, S!Send
<1> QED
  BY <1>0, <1>3, <1>4, <1>5, <1>6, <1>7, <1>8 DEF EventInv

\* What a step that moves a single execution g must still show.
LEMMA OthersRange ==
  ASSUME EventInv, NEW g \in Runs, UNCHANGED <<arrays, cur, len>>,
         \A h \in Runs : h # g =>
           /\ gpc'[h] = gpc[h] /\ gentle'[h] = gentle[h] /\ owed'[h] \subseteq owed[h]
           /\ view'[h] = view[h] /\ count'[h] = count[h] /\ pos'[h] = pos[h],
         gpc'[g] = "sending" => ~gentle'[g],
         gpc'[g] \in {"dropping", "counted"} => ~gentle'[g],
         gpc'[g] \in {"running", "closed", "over"} /\ gentle'[g] => owed'[g] = {}
  PROVE  Ranging' /\ S!ServedUnlessFull'
<1>1. S!Slots' = S!Slots
  BY SliceKept
<1>2. Ranging'
  BY <1>1 DEF EventInv, Ranging
<1>3. S!ServedUnlessFull'
  BY DEF EventInv, S!ServedUnlessFull
<1> QED
  BY <1>2, <1>3

LEMMA CountStep ==
  ASSUME EventInv, NEW g \in Runs, S!Count(g)
  PROVE  EventInv'
<1>0. UNCHANGED <<arrays, cur, len>> /\ S!Slots' = S!Slots /\ S!Registered' = S!Registered /\ Slice'
  BY SliceKept DEF EventInv, S!Count, S!slice
<1>1. EventTypes'
  BY <1>0 DEF EventInv, EventTypes, S!TypeOK, S!Count, S!ranging, S!history
<1>2. Joined'
  BY <1>0 DEF EventInv, Joined, S!Count
<1>3. Ranging' /\ S!ServedUnlessFull'
  <2>1. ~gentle[g]
    BY DEF EventInv, Ranging, S!Count
  <2> QED
    BY <1>0, <2>1, OthersRange
       DEF EventInv, EventTypes, S!TypeOK, S!Count, S!ranging, S!history
<1>4. S!SendSafeUnlessFull' /\ S!ClosedOnce'
  BY DEF EventInv, S!Count, S!Alive, S!SendSafeUnlessFull, S!ClosedOnce
<1> QED
  BY <1>0, <1>1, <1>2, <1>3, <1>4 DEF EventInv

LEMMA RelockStep ==
  ASSUME EventInv, NEW g \in Runs, S!Relock(g)
  PROVE  EventInv'
<1>0. UNCHANGED <<arrays, cur, len>> /\ S!Slots' = S!Slots /\ S!Registered' = S!Registered /\ Slice'
  BY SliceKept DEF EventInv, S!Relock, S!slice
<1>1. EventTypes'
  BY <1>0 DEF EventInv, EventTypes, S!TypeOK, S!Relock, S!history
<1>2. Joined'
  BY <1>0 DEF EventInv, Joined, S!Relock
<1>3. Ranging' /\ S!ServedUnlessFull'
  <2>1. ~gentle[g]
    BY DEF EventInv, Ranging, S!Relock
  <2> QED
    BY <1>0, <2>1, OthersRange DEF EventInv, EventTypes, S!TypeOK, S!Relock, S!history
<1>4. S!SendSafeUnlessFull' /\ S!ClosedOnce'
  BY DEF EventInv, S!Relock, S!Alive, S!SendSafeUnlessFull, S!ClosedOnce
<1> QED
  BY <1>0, <1>1, <1>2, <1>3, <1>4 DEF EventInv

\* Nobody is left when the range is at its end.
LEMMA PublishReturnsStep ==
  ASSUME EventInv, NEW g \in Runs, S!PublishReturns(g)
  PROVE  EventInv'
<1>0. UNCHANGED <<arrays, cur, len>> /\ S!Slots' = S!Slots /\ S!Registered' = S!Registered /\ Slice'
  BY SliceKept DEF EventInv, S!PublishReturns, S!slice
<1>1. EventTypes'
  BY <1>0 DEF EventInv, EventTypes, S!TypeOK, S!PublishReturns, S!ranging, S!history
<1>2. Joined'
  BY <1>0 DEF EventInv, Joined, S!PublishReturns
<1>3. Ranging' /\ S!ServedUnlessFull'
  <2>1. gentle[g] => owed[g] = {}
    <3> SUFFICES ASSUME gentle[g] PROVE owed[g] = {}
      OBVIOUS
    <3>1. pos[g] > len /\ pos[g] \in Nat /\ len \in Nat
          /\ owed[g] \subseteq {S!Slots[i] : i \in pos[g]..len}
      BY SlotsType DEF EventInv, EventTypes, S!TypeOK, Ranging, S!PublishReturns
    <3>2. pos[g]..len = {}
      BY <3>1
    <3> QED
      BY <3>1, <3>2
  <2> QED
    BY <1>0, <2>1, OthersRange
       DEF EventInv, EventTypes, S!TypeOK, S!PublishReturns, S!ranging, S!history
<1>4. S!SendSafeUnlessFull' /\ S!ClosedOnce'
  BY DEF EventInv, S!PublishReturns, S!Alive, S!SendSafeUnlessFull, S!ClosedOnce
<1> QED
  BY <1>0, <1>1, <1>2, <1>3, <1>4 DEF EventInv

LEMMA ReturnEarlyStep ==
  ASSUME EventInv, NEW g \in Runs, S!ReturnEarly(g)
  PROVE  EventInv'
<1>0. UNCHANGED <<arrays, cur, len>> /\ S!Slots' = S!Slots /\ S!Registered' = S!Registered /\ Slice'
  BY SliceKept DEF EventInv, S!ReturnEarly, S!slice
<1>1. EventTypes'
  BY <1>0 DEF EventInv, EventTypes, S!TypeOK, S!ReturnEarly, S!ranging, S!history
<1>2. Joined'
  BY <1>0 DEF EventInv, Joined, S!ReturnEarly
<1>3. Ranging' /\ S!ServedUnlessFull'
  <2>1. gentle[g] => owed[g] = {}
    BY DEF EventInv, S!ServedUnlessFull, S!ReturnEarly
  <2> QED
    BY <1>0, <2>1, OthersRange
       DEF EventInv, EventTypes, S!TypeOK, S!ReturnEarly, S!ranging, S!history
<1>4. S!SendSafeUnlessFull' /\ S!ClosedOnce'
  BY DEF EventInv, S!ReturnEarly, S!Alive, S!SendSafeUnlessFull, S!ClosedOnce
<1> QED
  BY <1>0, <1>1, <1>2, <1>3, <1>4 DEF EventInv

\* Close finds every registered channel open, and leaves no Publish with the slice.
LEMMA CloseStep ==
  ASSUME EventInv, NEW g \in Runs, S!Close(g)
  PROVE  EventInv'
<1>0. /\ UNCHANGED arrays /\ cur' = 0 /\ len' = 0
      /\ S!Slots' = <<>> /\ S!Registered' = {} /\ Slice'
  <2>1. UNCHANGED arrays /\ cur' = 0 /\ len' = 0 /\ S!Slots' = <<>> /\ 1..len' = {}
    BY DEF S!Close, S!Slots
  <2> QED
    BY <2>1 DEF S!Registered, Slice
<1>1. S!Registered \subseteq Readers /\ S!Registered \cap done = {}
  BY DEF EventInv, Slice, Joined, S!Registered
<1>2. done' = done \cup S!Registered /\ panics' = panics
  BY <1>1 DEF S!Close, S!CloseChannels
<1>3. EventTypes'
  <2>1. Len(<<>>) = 0 /\ Len(arrays) \in Nat
    BY EmptySeq, LenProperties DEF EventInv, EventTypes
  <2> QED
    BY <1>0, <1>1, <1>2, <2>1 DEF EventInv, EventTypes, S!TypeOK, S!Close, S!ranging
<1>4. Joined'
  <2>1. \A r \in Readers : handler[r] = "idle" => r \notin done /\ r \notin S!Registered
    BY DEF EventInv, Joined
  <2> QED
    BY <1>0, <1>2, <2>1 DEF Joined, S!Close
<1>5. Ranging' /\ S!ServedUnlessFull'
  BY DEF EventInv, EventTypes, S!TypeOK, Ranging, S!ServedUnlessFull, S!Close, S!LockFree,
         S!ranging
<1>6. S!SendSafeUnlessFull' /\ S!ClosedOnce'
  BY <1>2 DEF EventInv, S!Close, S!Alive, S!SendSafeUnlessFull, S!ClosedOnce
<1> QED
  BY <1>0, <1>3, <1>4, <1>5, <1>6 DEF EventInv

LEMMA SubscribeStep ==
  ASSUME EventInv, NEW r \in Readers, S!Subscribe(r)
  PROVE  EventInv'
<1>0. /\ EventTypes /\ Slice /\ S!AppendReader(r)
      /\ UNCHANGED <<drops, gpc, sent, view, count, pos, fill, done, owed, gentle, panics>>
      /\ handler' = [handler EXCEPT ![r] = "open"]
  BY DEF EventInv, S!Subscribe, S!publishing, S!ranging, S!history
<1>1. r \notin S!Registered /\ r \notin done
  BY DEF EventInv, Joined, S!Subscribe
<1>2. Slice' /\ S!Registered' = S!Registered \cup {r}
  BY <1>0, <1>1, AppendReaderJoins
<1>3. EventTypes'
  <2>1. /\ arrays' \in Seq(Seq(Readers \cup {None}))
        /\ Len(arrays') >= Len(arrays) /\ cur' \in 0..Len(arrays')
        /\ len' \in 0..Len(S!Slots')
    BY <1>0, Appended
  <2>2. \A a \in DOMAIN arrays' : \A i \in DOMAIN arrays'[a] :
          arrays'[a][i] \in Readers \cup {None}
    BY <2>1, ArrayElements
  <2>3. Len(arrays) \in Nat /\ Len(arrays') \in Nat
    BY <1>0, <2>1, LenProperties DEF EventTypes
  <2>4. view' \in [Runs -> 0..Len(arrays')]
    BY <1>0, <2>1, <2>3 DEF EventTypes, S!TypeOK
  <2>5. handler' \in [Readers -> {"idle", "open", "done", "left", "over"}]
    BY <1>0 DEF EventTypes, S!TypeOK
  <2> QED
    BY <1>0, <2>1, <2>2, <2>4, <2>5 DEF EventTypes, S!TypeOK
<1>4. Joined'
  BY <1>0, <1>1, <1>2 DEF EventInv, EventTypes, S!TypeOK, Joined
<1>5. Ranging' /\ S!ServedUnlessFull'
  BY <1>0 DEF EventInv, Ranging, S!ServedUnlessFull, S!Subscribe, S!LockFree
<1>6. S!SendSafeUnlessFull' /\ S!ClosedOnce'
  BY <1>0 DEF EventInv, S!SendSafeUnlessFull, S!ClosedOnce
<1> QED
  BY <1>2, <1>3, <1>4, <1>5, <1>6 DEF EventInv

LEMMA EventConsumeStep ==
  ASSUME EventInv, HubsAssumption, NEW r \in Readers, S!Consume(r)
  PROVE  EventInv'
<1>0. UNCHANGED <<arrays, cur, len>> /\ S!Slots' = S!Slots /\ S!Registered' = S!Registered /\ Slice'
  BY SliceKept DEF EventInv, S!Consume, S!slice
<1>1. EventTypes'
  <2>1. fill' \in [Readers -> 0..Capacity]
    BY HubsAssumption DEF EventInv, EventTypes, S!TypeOK, S!Consume, S!Sizes
  <2> QED
    BY <1>0, <2>1
       DEF EventInv, EventTypes, S!TypeOK, S!Consume, S!publishing, S!ranging, S!history
<1>2. Joined' /\ Ranging'
  BY <1>0 DEF EventInv, Joined, Ranging, S!Consume, S!publishing, S!ranging, S!history
<1>3. S!ServedUnlessFull' /\ S!SendSafeUnlessFull' /\ S!ClosedOnce'
  BY DEF EventInv, S!Consume, S!ServedUnlessFull, S!SendSafeUnlessFull, S!ClosedOnce,
         S!publishing, S!history
<1> QED
  BY <1>0, <1>1, <1>2, <1>3 DEF EventInv

LEMMA ReturnsStep ==
  ASSUME EventInv, NEW r \in Readers, NEW how \in {"done", "left"}, S!Returns(r, how)
  PROVE  EventInv'
<1>0. UNCHANGED <<arrays, cur, len>> /\ S!Slots' = S!Slots /\ S!Registered' = S!Registered /\ Slice'
  BY SliceKept DEF EventInv, S!Returns, S!slice
<1>1. EventTypes'
  BY <1>0 DEF EventInv, EventTypes, S!TypeOK, S!Returns, S!publishing, S!ranging, S!history
<1>2. Joined'
  BY <1>0 DEF EventInv, EventTypes, S!TypeOK, Joined, S!Returns
<1>3. Ranging'
  BY <1>0 DEF EventInv, Ranging, S!Returns, S!publishing, S!ranging, S!history
<1>4. S!ServedUnlessFull' /\ S!SendSafeUnlessFull' /\ S!ClosedOnce'
  BY DEF EventInv, S!Returns, S!ServedUnlessFull, S!SendSafeUnlessFull, S!ClosedOnce,
         S!publishing, S!history
<1> QED
  BY <1>0, <1>1, <1>2, <1>3, <1>4 DEF EventInv

\* Only a reader still registered has its channel closed here.
LEMMA UnsubscribeStep ==
  ASSUME EventInv, NEW r \in Readers, S!Unsubscribe(r)
  PROVE  EventInv'
<1>0. /\ EventTypes /\ Slice /\ UNCHANGED <<drops, gpc, sent, view, count, pos, fill, gentle>>
      /\ handler' = [handler EXCEPT ![r] = "over"]
      /\ owed' = [g \in Runs |-> owed[g] \ {r}]
  BY DEF EventInv, S!Unsubscribe, S!publishing, S!ranging
<1>1. done' = done \cup (S!Registered \cap {r}) /\ panics' = panics
  BY DEF EventInv, Joined, S!Unsubscribe, S!Unsubscribed, S!CloseChannels
<1>2. /\ Slice' /\ S!Registered' = S!Registered \ {r}
      /\ arrays' \in Seq(Seq(Readers \cup {None})) /\ Len(arrays') = Len(arrays)
      /\ cur' \in 0..Len(arrays') /\ len' \in 0..Len(S!Slots')
  <2>1. CASE r \in S!Registered
    <3>1. S!RemoveAt(CHOOSE k \in 1..len : S!Slots[k] = r)
      BY <2>1 DEF S!Unsubscribe
    <3>2. \E k \in 1..len : S!Slots[k] = r
      BY <2>1 DEF S!Registered
    <3>3. PICK k \in 1..len : S!RemoveAt(k)
      BY <3>1, <3>2
    <3> QED
      BY <1>0, <2>1, <3>1, <3>3, RemoveAtLeaves, Removed
  <2>2. CASE r \notin S!Registered
    <3>1. UNCHANGED <<arrays, cur, len>>
      BY <2>2 DEF S!Unsubscribe, S!slice
    <3> QED
      BY <1>0, <2>2, <3>1, SliceKept DEF EventTypes, S!TypeOK
  <2> QED
    BY <2>1, <2>2
<1>3. EventTypes'
  <2>1. \A a \in DOMAIN arrays' : \A i \in DOMAIN arrays'[a] :
          arrays'[a][i] \in Readers \cup {None}
    BY <1>2, ArrayElements
  <2>2. handler' \in [Readers -> {"idle", "open", "done", "left", "over"}]
        /\ owed' \in [Runs -> SUBSET Readers]
    BY <1>0 DEF EventTypes, S!TypeOK
  <2>3. done' \in SUBSET Readers
    BY <1>0, <1>1 DEF EventTypes, S!TypeOK
  <2> QED
    BY <1>0, <1>1, <1>2, <2>1, <2>2, <2>3 DEF EventTypes, S!TypeOK
<1>4. Joined'
  <2> SUFFICES ASSUME NEW q \in Readers
               PROVE  /\ q \in S!Registered' => handler'[q] \in {"open", "done", "left"} /\ q \notin done'
                      /\ handler'[q] = "idle" => q \notin done'
    BY DEF Joined
  <2>1. CASE q = r
    BY <2>1, <1>0, <1>2 DEF EventTypes, S!TypeOK
  <2>2. CASE q # r
    BY <2>2, <1>0, <1>1, <1>2 DEF EventInv, EventTypes, S!TypeOK, Joined
  <2> QED
    BY <2>1, <2>2
<1>5. Ranging' /\ S!ServedUnlessFull'
  BY <1>0 DEF EventInv, Ranging, S!ServedUnlessFull, S!Unsubscribe, S!LockFree
<1>6. S!SendSafeUnlessFull' /\ S!ClosedOnce'
  BY <1>0, <1>1 DEF EventInv, S!SendSafeUnlessFull, S!ClosedOnce
<1> QED
  BY <1>2, <1>3, <1>4, <1>5, <1>6 DEF EventInv

LEMMA EventStep ==
  ASSUME EventInv, HubsAssumption, S!Next
  PROVE  EventInv'
<1>1. ASSUME NEW g \in Runs, S!Executing(g)
      PROVE  EventInv'
  BY <1>1, HubsAssumption, PublishStep, SendStep, CountStep, RelockStep, PublishReturnsStep,
     CloseStep, ReturnEarlyStep DEF S!Executing
<1>2. ASSUME NEW r \in Readers, S!Subscribe(r) \/ S!Serving(r) \/ S!Returns(r, "left")
      PROVE  EventInv'
  BY <1>2, HubsAssumption, SubscribeStep, EventConsumeStep, ReturnsStep, UnsubscribeStep DEF S!Serving
<1> QED
  BY <1>1, <1>2 DEF S!Next

LEMMA EventIdle ==
  ASSUME EventInv, UNCHANGED eventVars
  PROVE  EventInv'
<1>0. UNCHANGED <<arrays, cur, len>> /\ S!Slots' = S!Slots /\ S!Registered' = S!Registered /\ Slice'
  BY SliceKept DEF EventInv, eventVars
<1>1. EventTypes'
  BY <1>0 DEF EventInv, EventTypes, S!TypeOK, eventVars
<1>2. Joined' /\ Ranging'
  BY <1>0 DEF EventInv, Joined, Ranging, eventVars
<1>3. S!ServedUnlessFull' /\ S!SendSafeUnlessFull' /\ S!ClosedOnce'
  BY DEF EventInv, S!ServedUnlessFull, S!SendSafeUnlessFull, S!ClosedOnce, eventVars
<1> QED
  BY <1>0, <1>1, <1>2, <1>3 DEF EventInv

-----------------------------------------------------------------------------
(* The members of a channel *)

LEMMA MembersOfNone == Members(<<>>) = {}
<1>1. <<>> \in Seq({}) /\ Len(<<>>) = 0
  BY EmptySeq
<1>2. DOMAIN <<>> = {}
  BY <1>1, LenProperties
<1> QED
  BY <1>2 DEF Members

LEMMA MembersOfAppend ==
  ASSUME NEW E, NEW s \in Seq(E), NEW e \in E
  PROVE  Members(Append(s, e)) = Members(s) \cup {e}
<1>1. /\ DOMAIN s = 1..Len(s) /\ Len(s) \in Nat
      /\ DOMAIN Append(s, e) = 1..(Len(s) + 1)
      /\ \A i \in 1..Len(s) : Append(s, e)[i] = s[i]
      /\ Append(s, e)[Len(s) + 1] = e
  BY AppendProperties, LenProperties
<1>2. 1..(Len(s) + 1) = 1..Len(s) \cup {Len(s) + 1} /\ Len(s) + 1 \notin 1..Len(s)
  BY <1>1
<1> QED
  BY <1>1, <1>2, Zenon DEF Members

LEMMA MembersOfTail ==
  ASSUME NEW E, NEW s \in Seq(E), s # <<>>
  PROVE  /\ Members(s) = {Head(s)} \cup Members(Tail(s))
         /\ Head(s) \in E /\ Tail(s) \in Seq(E) /\ Len(Tail(s)) = Len(s) - 1
         /\ Head(s) = s[1] /\ \A i \in 1..Len(Tail(s)) : Tail(s)[i] = s[i + 1]
<1>1. /\ Len(s) \in Nat \ {0} /\ DOMAIN s = 1..Len(s) /\ Head(s) = s[1] /\ Head(s) \in E
      /\ Tail(s) \in Seq(E) /\ Len(Tail(s)) = Len(s) - 1
      /\ DOMAIN Tail(s) = 1..(Len(s) - 1)
      /\ \A i \in 1..(Len(s) - 1) : Tail(s)[i] = s[i + 1]
  BY HeadTailProperties, LenProperties, EmptySeq
<1>2. /\ 1 \in 1..Len(s)
      /\ \A i \in 1..(Len(s) - 1) : i + 1 \in 1..Len(s)
      /\ \A i \in 1..Len(s) : i = 1 \/ \E j \in 1..(Len(s) - 1) : i = j + 1
  <2>1. \A i \in 1..Len(s) : i = 1 \/ (i - 1 \in 1..(Len(s) - 1) /\ i = (i - 1) + 1)
    BY <1>1
  <2> QED
    BY <1>1, <2>1
<1>3. ASSUME NEW m \in Members(s)
      PROVE  m = Head(s) \/ m \in Members(Tail(s))
  <2>1. PICK i \in 1..Len(s) : m = s[i]
    BY <1>1, <1>3 DEF Members
  <2>2. CASE i = 1
    BY <2>1, <2>2, <1>1
  <2>3. CASE i # 1
    <3>1. PICK j \in 1..(Len(s) - 1) : i = j + 1
      BY <2>3, <1>2
    <3>2. m = Tail(s)[j]
      BY <2>1, <3>1, <1>1
    <3> QED
      BY <3>2, <1>1 DEF Members
  <2> QED
    BY <2>2, <2>3
<1>4. ASSUME NEW m, m = Head(s) \/ m \in Members(Tail(s))
      PROVE  m \in Members(s)
  <2>1. CASE m = Head(s)
    BY <2>1, <1>1, <1>2 DEF Members
  <2>2. CASE m \in Members(Tail(s))
    <3>1. PICK j \in 1..(Len(s) - 1) : m = Tail(s)[j]
      BY <2>2, <1>1 DEF Members
    <3> QED
      BY <3>1, <1>1, <1>2 DEF Members
  <2> QED
    BY <1>4, <2>1, <2>2
<1>5. Members(s) = {Head(s)} \cup Members(Tail(s))
  BY <1>3, <1>4
<1> QED
  BY <1>1, <1>5

-----------------------------------------------------------------------------
(* The steps of the log hub *)

\* A step that leaves a reader's part alone.
LEMMA StreamKept ==
  ASSUME NEW r \in LogReaders, Stream(r), rows' = rows,
         rpc'[r] = rpc[r], replay'[r] = replay[r], cursor'[r] = cursor[r],
         page'[r] = page[r], last'[r] = last[r], chan'[r] = chan[r], got'[r] = got[r],
         dropped'[r] = dropped[r], told'[r] = told[r],
         since'[r] = since[r], notified'[r] = notified[r],
         ppc' = "over" <=> ppc = "over",
         r \in subs => r \in subs', r \in shut => r \in shut',
         rpc[r] = "open" /\ Pending(r) => Pending(r)'
  PROVE  Stream(r)'
<1>1. Has(r)' = Has(r) /\ Reach(r)' = Reach(r) /\ ReadOut(r)' = ReadOut(r)
  BY DEF Has, Reach, ReadOut
<1>2. Paged(r)' /\ Covered(r)'
  BY <1>1 DEF Stream, Paged, Covered
<1>3. Ordered(r)' /\ Losses(r)' /\ Shown(r)'
  BY DEF Stream, Ordered, Losses, Shown
<1> QED
  BY <1>2, <1>3 DEF Stream

LEMMA FewTurns == L!Cardinality({}) <= 1 /\ \A x : L!Cardinality({x}) <= 1
<1>1. \A T : L!Cardinality(T) = Cardinality(T)
  BY DEF L!Cardinality, Cardinality
<1> QED
  BY <1>1, FS_EmptySet, FS_Singleton

LEMMA LogBegins ==
  ASSUME HubsAssumption, L!Init
  PROVE  LogInv
<1> USE DEF L!Init
<1>1. <<>> \in Seq(L!Items) /\ Len(<<>>) = 0 /\ Members(<<>>) = {}
  BY EmptySeq, MembersOfNone
<1>2. LogTypes
  <2>1. 0 \in L!Items
    BY HubsAssumption DEF L!Sizes, L!Items
  <2> QED
    <3>1. /\ page \in [LogReaders -> Seq(L!Items)] /\ chan \in [LogReaders -> Seq(L!Items)]
          /\ got \in [LogReaders -> Seq(L!Items)]
      BY <1>1
    <3>2. /\ since \in [LogReaders -> L!Items] /\ cursor \in [LogReaders -> L!Items]
          /\ told \in [LogReaders -> L!Items] /\ dropped \in [LogReaders -> SUBSET L!Items]
      BY <2>1
    <3>3. \A r \in LogReaders :
            /\ page[r] \in Seq(L!Items) /\ Len(page[r]) <= PageSize
            /\ chan[r] \in Seq(L!Items) /\ Len(chan[r]) <= LogCapacity
            /\ got[r] \in Seq(L!Items)
      BY <1>1, HubsAssumption DEF L!Sizes
    <3>4. L!Cardinality(turn) <= 1 /\ restarts \in 0..MaxRestarts
      BY FewTurns, HubsAssumption DEF L!Sizes
    <3> QED
      BY <2>1, <3>1, <3>2, <3>3, <3>4 DEF LogTypes, L!TypeOK
<1>3. ASSUME NEW r \in LogReaders
      PROVE  Stream(r)
  <2>1. Paged(r) /\ Ordered(r) /\ Losses(r) /\ Shown(r)
    BY <1>3 DEF Paged, Ordered, Losses, Shown
  <2>2. Covered(r)
    BY <1>3 DEF Covered
  <2> QED
    BY <2>1, <2>2 DEF Stream
<1> QED
  BY <1>2, <1>3 DEF LogInv, Run

\* A new row is pending for everyone.
LEMMA InsertStep ==
  ASSUME LogInv, HubsAssumption, L!Insert
  PROVE  LogInv'
<1>0. /\ ppc = "running" /\ rows < MaxEntries /\ rows' = rows + 1 /\ ppc' = "inserted"
      /\ UNCHANGED <<closed, subs, since, notified, fan, turn, rpc, got, replay, closes, cursor,
                     page, last, chan, shut, dropped, told, panicked, restarts>>
  BY DEF L!Insert, L!hub, L!reading, L!replays, L!losses, L!process
<1>1. rows \in Nat
  BY DEF LogInv, LogTypes, L!TypeOK, L!Items
<1>2. LogTypes'
  <2>1. rows' \in L!Items
    BY <1>0, <1>1, HubsAssumption DEF L!Sizes, L!Items
  <2> QED
    BY <1>0, <2>1 DEF LogInv, LogTypes, L!TypeOK
<1>3. Run'
  BY <1>0, <1>1 DEF LogInv, Run
<1>4. ASSUME NEW r \in LogReaders
      PROVE  Stream(r)'
  <2>0. Stream(r) /\ rows' = rows + 1 /\ rows \in Nat /\ cursor[r] \in Nat
    BY <1>0, <1>1, <1>4 DEF LogInv, LogTypes, L!TypeOK, L!Items
  <2>1. Has(r)' = Has(r) /\ Reach(r)' = Reach(r) /\ ReadOut(r)' = ReadOut(r)
    BY <1>0 DEF Has, Reach, ReadOut
  <2>2. Paged(r)'
    <3>1. page[r] \in Seq(L!Items)
      BY <1>4 DEF LogInv, LogTypes
    <3>2. Reach(r) \in Nat
      BY <2>0, <3>1, LenProperties DEF Reach
    <3> QED
      BY <1>0, <2>0, <2>1, <3>2 DEF Stream, Paged
  <2>3. Covered(r)'
    <3>1. ~Pending(r) /\ Pending(r)'
      BY <1>0 DEF Pending
    <3>2. \A k \in 1..rows' : k \in 1..rows \/ k = rows'
      BY <2>0
    <3> QED
      BY <1>0, <2>0, <2>1, <3>1, <3>2 DEF Stream, Covered
  <2>4. Ordered(r)' /\ Shown(r)'
    BY <1>0, <2>0 DEF Stream, Ordered, Shown
  <2>5. Losses(r)'
    BY <1>0, <2>0 DEF Stream, Losses
  <2> QED
    BY <2>2, <2>3, <2>4, <2>5 DEF Stream
<1> QED
  BY <1>2, <1>3, <1>4 DEF LogInv

\* The fan-out begins with every open stream.
LEMMA BroadcastStep ==
  ASSUME LogInv, L!Broadcast
  PROVE  LogInv'
<1>0. /\ ppc = "inserted" /\ ppc' = (IF subs = {} THEN "running" ELSE "fanout")
      /\ fan' = subs /\ turn' = {}
      /\ UNCHANGED <<rows, closed, subs, since, notified, rpc, got, replay, closes, cursor,
                     page, last, chan, shut, dropped, told, panicked, restarts>>
  BY DEF L!Broadcast, L!hub, L!reading, L!replays, L!losses, L!process
<1>1. LogTypes'
  BY <1>0, FewTurns DEF LogInv, LogTypes, L!TypeOK
<1>2. Run'
  BY <1>0 DEF LogInv, Run
<1>3. ASSUME NEW r \in LogReaders
      PROVE  Stream(r)'
  <2>1. Stream(r)
    BY <1>3 DEF LogInv
  <2>2. rpc[r] = "open" => r \in subs
    BY <1>0, <2>1 DEF Stream, Ordered
  <2>3. rpc[r] = "open" /\ Pending(r) => Pending(r)'
    BY <1>0, <2>2 DEF Pending
  <2> QED
    BY <1>0, <2>1, <2>3, StreamKept
<1> QED
  BY <1>1, <1>2, <1>3 DEF LogInv

LEMMA StreamTypes ==
  ASSUME LogTypes, NEW r \in LogReaders
  PROVE  /\ rows \in Nat /\ cursor[r] \in Nat /\ since[r] \in Nat /\ told[r] \in Nat
         /\ dropped[r] \in SUBSET L!Items
         /\ page[r] \in Seq(L!Items) /\ Len(page[r]) \in Nat
         /\ chan[r] \in Seq(L!Items) /\ Len(chan[r]) \in Nat
         /\ got[r] \in Seq(L!Items)
         /\ Reach(r) \in Nat
<1>1. /\ rows \in Nat /\ cursor[r] \in Nat /\ since[r] \in Nat /\ told[r] \in Nat
      /\ dropped[r] \in SUBSET L!Items
  BY DEF LogTypes, L!TypeOK, L!Items
<1>2. page[r] \in Seq(L!Items) /\ chan[r] \in Seq(L!Items) /\ got[r] \in Seq(L!Items)
  BY DEF LogTypes
<1>3. Len(page[r]) \in Nat /\ Len(chan[r]) \in Nat
  BY <1>2, LenProperties
<1> QED
  BY <1>1, <1>2, <1>3 DEF Reach

\* One item more in a channel with room.
LEMMA PutTypes ==
  ASSUME LogTypes, HubsAssumption, NEW r \in LogReaders, NEW item \in L!Items,
         L!Room(r), L!Put(r, item)
  PROVE  /\ chan' \in [LogReaders -> Seq(L!Items)]
         /\ \A q \in LogReaders : Len(chan'[q]) <= LogCapacity
         /\ \A q \in LogReaders : q # r => chan'[q] = chan[q]
         /\ Members(chan'[r]) = Members(chan[r]) \cup {item}
<1>1. chan \in [LogReaders -> Seq(L!Items)] /\ chan' = [chan EXCEPT ![r] = Append(@, item)]
  BY DEF LogTypes, L!Put
<1>2. \A q \in LogReaders : Len(chan[q]) <= LogCapacity
  BY DEF LogTypes, L!TypeOK
<1>3. chan'[r] = Append(chan[r], item) /\ \A q \in LogReaders : q # r => chan'[q] = chan[q]
  BY <1>1
<1>4. /\ Append(chan[r], item) \in Seq(L!Items)
      /\ Len(Append(chan[r], item)) = Len(chan[r]) + 1 /\ Len(chan[r]) \in Nat
  BY <1>1, AppendProperties, LenProperties
<1>5. Len(chan'[r]) <= LogCapacity
  BY <1>3, <1>4, HubsAssumption DEF L!Room, L!Sizes
<1>6. Members(chan'[r]) = Members(chan[r]) \cup {item}
  BY <1>1, <1>3, MembersOfAppend
<1>7. chan' \in [LogReaders -> Seq(L!Items)]
  BY <1>1, <1>4
<1> QED
  BY <1>2, <1>3, <1>5, <1>6, <1>7

\* What a reader has never gets less.
LEMMA CoveredGrows ==
  ASSUME NEW r \in LogReaders, Covered(r), rows' = rows, Has(r) \subseteq Has(r)',
         cursor'[r] = cursor[r], page'[r] = page[r],
         rpc'[r] = rpc[r], replay'[r] = replay[r], last'[r] = last[r],
         Pending(r) => Pending(r)' \/ rows \in Has(r)'
  PROVE  Covered(r)'
<1>1. Reach(r)' = Reach(r) /\ ReadOut(r)' = ReadOut(r)
  BY DEF Reach, ReadOut
<1> QED
  BY <1>1 DEF Covered

LEMMA OfferGapStep ==
  ASSUME LogInv, HubsAssumption, NEW r \in LogReaders, L!OfferGap(r)
  PROVE  LogInv'
<1>0. /\ ppc = "fanout" /\ turn' = {r}
      /\ UNCHANGED <<rows, closed, subs, since, ppc, fan, rpc, got, replay, closes, cursor,
                     page, last, shut, dropped, panicked, restarts>>
  BY DEF L!OfferGap, L!reading, L!replays, L!process
<1>1. \/ /\ L!Room(r) /\ L!Put(r, 0)
         /\ notified' = [notified EXCEPT ![r] = TRUE] /\ told' = [told EXCEPT ![r] = rows]
      \/ UNCHANGED <<chan, notified, told>>
  BY DEF L!OfferGap, L!Gap
<1>2. LogTypes /\ 0 \in L!Items /\ rows \in L!Items
  <2>1. LogTypes
    BY DEF LogInv
  <2>2. rows \in L!Items
    BY <2>1 DEF LogTypes, L!TypeOK
  <2>3. 0 \in L!Items
    BY HubsAssumption DEF L!Sizes, L!Items
  <2> QED
    BY <2>1, <2>2, <2>3
<1>3. CASE UNCHANGED <<chan, notified, told>>
  <2>1. LogTypes'
    BY <1>0, <1>3, <1>2, FewTurns DEF LogTypes, L!TypeOK
  <2>2. Run'
    BY <1>0 DEF LogInv, Run
  <2>3. ASSUME NEW q \in LogReaders PROVE Stream(q)'
    <3>1. Pending(q)' = Pending(q) /\ Stream(q)
      BY <1>0, <2>3 DEF Pending, LogInv
    <3> QED
      BY <1>0, <1>3, <3>1, StreamKept
  <2> QED
    BY <2>1, <2>2, <2>3 DEF LogInv
<1>4. CASE /\ L!Room(r) /\ L!Put(r, 0)
           /\ notified' = [notified EXCEPT ![r] = TRUE] /\ told' = [told EXCEPT ![r] = rows]
  <2>0. /\ chan' \in [LogReaders -> Seq(L!Items)]
        /\ \A q \in LogReaders : Len(chan'[q]) <= LogCapacity
        /\ \A q \in LogReaders : q # r => chan'[q] = chan[q]
        /\ Members(chan'[r]) = Members(chan[r]) \cup {0}
    BY <1>2, <1>4, HubsAssumption, PutTypes
  <2>1. LogTypes'
    <3>1. notified' \in [LogReaders -> BOOLEAN] /\ told' \in [LogReaders -> L!Items]
      BY <1>2, <1>4 DEF LogTypes, L!TypeOK
    <3>2. \A q \in LogReaders : chan'[q] \in Seq(L!Items)
      BY <2>0
    <3> QED
      BY <1>0, <1>2, <2>0, <3>1, <3>2, FewTurns DEF LogTypes, L!TypeOK
  <2>2. Run'
    BY <1>0 DEF LogInv, Run
  <2>3. ASSUME NEW q \in LogReaders PROVE Stream(q)'
    <3>1. Pending(q)' = Pending(q) /\ Stream(q)
      BY <1>0, <2>3 DEF Pending, LogInv
    <3>2. CASE q # r
      <4>1. chan'[q] = chan[q] /\ notified'[q] = notified[q] /\ told'[q] = told[q]
        BY <3>2, <2>0, <1>2, <1>4 DEF LogTypes, L!TypeOK
      <4> QED
        BY <1>0, <3>1, <4>1, StreamKept
    <3>3. CASE q = r
      <4>1. Has(q) \subseteq Has(q)'
        BY <1>0, <2>0, <3>3 DEF Has
      <4>2. Covered(q)'
        BY <1>0, <3>1, <4>1, CoveredGrows DEF Stream
      <4>3. told'[q] # 0
        <5>1. told'[q] = rows /\ rows >= 1
          BY <1>0, <1>2, <1>4, <3>3 DEF LogTypes, L!TypeOK, LogInv, Run
        <5> QED
          BY <5>1
      <4>4. Losses(q)'
        BY <1>0, <3>1, <4>3 DEF Stream, Losses
      <4>5. Paged(q)' /\ Ordered(q)' /\ Shown(q)'
        BY <1>0, <3>1 DEF Stream, Paged, Reach, Ordered, Shown
      <4> QED
        BY <4>2, <4>4, <4>5 DEF Stream
    <3> QED
      BY <3>2, <3>3
  <2> QED
    BY <2>1, <2>2, <2>3 DEF LogInv
<1> QED
  BY <1>1, <1>3, <1>4

\* The entry is on its way to the reader, or known to be lost.
LEMMA SendEntryStep ==
  ASSUME LogInv, HubsAssumption, NEW r \in LogReaders, L!SendEntry(r)
  PROVE  LogInv'
<1>0. /\ ppc = "fanout" /\ turn' = {} /\ fan' = fan \ {r}
      /\ ppc' = (IF fan' = {} THEN "running" ELSE "fanout")
      /\ UNCHANGED <<rows, closed, subs, rpc, got, replay, closes, cursor, page, last, shut,
                     told, panicked, restarts>>
  BY DEF L!SendEntry, L!reading, L!replays, L!process
<1>1. \/ /\ L!Room(r) /\ L!Put(r, rows) /\ UNCHANGED dropped
         /\ since' = [since EXCEPT ![r] = IF notified[r] THEN 0 ELSE @]
         /\ notified' = [notified EXCEPT ![r] = FALSE]
      \/ /\ since' = [since EXCEPT ![r] = IF since[r] = 0 THEN rows ELSE since[r]]
         /\ dropped' = [dropped EXCEPT ![r] = @ \cup {rows}]
         /\ UNCHANGED <<chan, notified>>
  BY DEF L!SendEntry, L!FirstLost
<1>2. LogTypes /\ 0 \in L!Items /\ rows \in L!Items /\ rows \in Nat /\ rows >= 1
  <2>1. LogTypes /\ rows >= 1
    BY <1>0 DEF LogInv, Run
  <2>2. rows \in L!Items
    BY <2>1 DEF LogTypes, L!TypeOK
  <2> QED
    BY <2>1, <2>2, HubsAssumption DEF L!Sizes, L!Items
<1>3. /\ \A q \in LogReaders : q # r => chan'[q] = chan[q]
      /\ chan' \in [LogReaders -> Seq(L!Items)]
      /\ \A q \in LogReaders : Len(chan'[q]) <= LogCapacity
      /\ Members(chan[r]) \subseteq Members(chan'[r])
      /\ rows \in Members(chan'[r]) \/ rows \in dropped'[r]
  <2>1. CASE L!Room(r) /\ L!Put(r, rows)
    <3>1. Members(chan'[r]) = Members(chan[r]) \cup {rows}
      BY <2>1, <1>2, HubsAssumption, PutTypes
    <3> QED
      BY <2>1, <3>1, <1>2, HubsAssumption, PutTypes
  <2>2. CASE UNCHANGED chan /\ dropped' = [dropped EXCEPT ![r] = @ \cup {rows}]
    BY <2>2, <1>2 DEF LogTypes, L!TypeOK
  <2> QED
    BY <1>1, <2>1, <2>2
<1>4. /\ since' \in [LogReaders -> L!Items] /\ notified' \in [LogReaders -> BOOLEAN]
      /\ dropped' \in [LogReaders -> SUBSET L!Items]
      /\ \A q \in LogReaders : q # r =>
           since'[q] = since[q] /\ notified'[q] = notified[q] /\ dropped'[q] = dropped[q]
  <2>1. /\ since \in [LogReaders -> L!Items] /\ notified \in [LogReaders -> BOOLEAN]
        /\ dropped \in [LogReaders -> SUBSET L!Items]
    BY <1>2 DEF LogTypes, L!TypeOK
  <2>2. since' \in [LogReaders -> L!Items] /\ \A q \in LogReaders : q # r => since'[q] = since[q]
    BY <1>1, <1>2, <2>1
  <2>3. notified' \in [LogReaders -> BOOLEAN]
        /\ \A q \in LogReaders : q # r => notified'[q] = notified[q]
    BY <1>1, <2>1
  <2>4. dropped' \in [LogReaders -> SUBSET L!Items]
        /\ \A q \in LogReaders : q # r => dropped'[q] = dropped[q]
    BY <1>1, <1>2, <2>1
  <2> QED
    BY <2>2, <2>3, <2>4
<1>5. LogTypes'
  <2>1. \A q \in LogReaders : chan'[q] \in Seq(L!Items)
    BY <1>3
  <2>2. fan' \in SUBSET LogReaders /\ ppc' \in {"running", "inserted", "fanout", "over"}
    BY <1>0, <1>2 DEF LogTypes, L!TypeOK
  <2> QED
    BY <1>0, <1>2, <1>3, <1>4, <2>1, <2>2, FewTurns DEF LogTypes, L!TypeOK
<1>6. Run'
  BY <1>0 DEF LogInv, Run
<1>7. ASSUME NEW q \in LogReaders PROVE Stream(q)'
  <2>0. Stream(q)
    BY <1>7 DEF LogInv
  <2>1. CASE q # r
    <3>1. Pending(q) => Pending(q)'
      BY <1>0, <2>1 DEF Pending
    <3>2. /\ chan'[q] = chan[q] /\ since'[q] = since[q] /\ notified'[q] = notified[q]
          /\ dropped'[q] = dropped[q]
      BY <1>3, <1>4, <2>1
    <3> QED
      BY <1>0, <2>0, <3>1, <3>2, StreamKept
  <2>2. CASE q = r
    <3>1. dropped[r] \subseteq dropped'[r]
      BY <1>1, <1>2 DEF LogTypes, L!TypeOK
    <3>2. Has(r) \subseteq Has(r)' /\ rows \in Has(r)'
      BY <1>0, <1>3, <3>1 DEF Has
    <3>3. Covered(r)'
      BY <1>0, <2>0, <2>2, <3>2, CoveredGrows DEF Stream
    <3>4. Paged(r)' /\ Ordered(r)'
      BY <1>0, <2>0, <2>2 DEF Stream, Paged, Reach, Ordered
    <3>5. Shown(r)'
      BY <1>0, <2>0, <2>2, <3>1 DEF Stream, Shown
    <3>6. Losses(r)'
      <4>1. /\ dropped[r] \subseteq 1..rows /\ (told[r] = 0 => ~notified[r])
            /\ (dropped[r] = {} => since[r] = 0)
            /\ (told[r] = 0 /\ dropped[r] # {} =>
                  since[r] \in dropped[r] /\ \A n \in dropped[r] : since[r] <= n)
        BY <2>0, <2>2 DEF Stream, Losses
      <4>2. CASE /\ UNCHANGED dropped
                 /\ since' = [since EXCEPT ![r] = IF notified[r] THEN 0 ELSE @]
                 /\ notified' = [notified EXCEPT ![r] = FALSE]
        <5>1. /\ since'[r] = (IF notified[r] THEN 0 ELSE since[r]) /\ notified'[r] = FALSE
              /\ dropped'[r] = dropped[r] /\ told'[r] = told[r] /\ rows' = rows
          BY <1>0, <1>2, <4>2 DEF LogTypes, L!TypeOK
        <5> QED
          BY <4>1, <5>1 DEF Losses
      <4>3. CASE /\ since' = [since EXCEPT ![r] = IF since[r] = 0 THEN rows ELSE since[r]]
                 /\ dropped' = [dropped EXCEPT ![r] = @ \cup {rows}]
                 /\ UNCHANGED <<chan, notified>>
        <5>1. /\ since'[r] = (IF since[r] = 0 THEN rows ELSE since[r])
              /\ dropped'[r] = dropped[r] \cup {rows}
              /\ notified'[r] = notified[r] /\ told'[r] = told[r] /\ rows' = rows
          BY <1>0, <1>2, <4>3 DEF LogTypes, L!TypeOK
        <5>2. CASE dropped[r] = {}
          <6>1. since'[r] = rows /\ dropped'[r] = {rows}
            BY <5>1, <5>2, <4>1
          <6> QED
            BY <1>2, <4>1, <5>1, <6>1 DEF Losses
        <5>3. CASE dropped[r] # {} /\ told[r] = 0
          <6>1. since[r] \in dropped[r] /\ since[r] # 0 /\ since[r] <= rows
            BY <5>3, <4>1, <1>2
          <6>2. since'[r] = since[r]
            BY <5>1, <6>1
          <6> QED
            BY <1>2, <4>1, <5>1, <5>3, <6>1, <6>2 DEF Losses
        <5>4. CASE dropped[r] # {} /\ told[r] # 0
          BY <1>2, <4>1, <5>1, <5>4 DEF Losses
        <5> QED
          BY <5>2, <5>3, <5>4
      <4> QED
        BY <1>1, <4>2, <4>3
    <3> QED
      BY <2>2, <3>3, <3>4, <3>5, <3>6 DEF Stream
  <2> QED
    BY <2>1, <2>2
<1> QED
  BY <1>5, <1>6, <1>7 DEF LogInv

\* Nothing is pending when the run closes.
LEMMA LogCloseStep ==
  ASSUME LogInv, L!Close
  PROVE  LogInv'
<1>0. /\ ppc = "running" /\ ppc' = "over" /\ closed' = TRUE
      /\ shut' = shut \cup subs /\ subs' = {}
      /\ UNCHANGED <<rows, since, notified, fan, turn, rpc, got, replay, closes, cursor, page,
                     last, chan, dropped, told, panicked, restarts>>
  BY DEF L!Close, L!reading, L!replays, L!losses, L!process
<1>1. LogTypes'
  BY <1>0 DEF LogInv, LogTypes, L!TypeOK
<1>2. Run'
  BY <1>0 DEF Run
<1>3. ASSUME NEW r \in LogReaders
      PROVE  Stream(r)'
  <2>1. Stream(r) /\ ~Pending(r) /\ Has(r)' = Has(r) /\ Reach(r)' = Reach(r)
        /\ ReadOut(r)' = ReadOut(r)
    BY <1>0, <1>3 DEF LogInv, Pending, Has, Reach, ReadOut
  <2>2. Paged(r)' /\ Covered(r)'
    BY <1>0, <2>1 DEF Stream, Paged, Covered
  <2>3. Ordered(r)' /\ Losses(r)' /\ Shown(r)'
    BY <1>0, <2>1 DEF Stream, Ordered, Losses, Shown
  <2> QED
    BY <2>2, <2>3 DEF Stream
<1> QED
  BY <1>1, <1>2, <1>3 DEF LogInv

LEMMA LogSubscribeStep ==
  ASSUME LogInv, NEW r \in LogReaders, L!Subscribe(r)
  PROVE  LogInv'
<1>0. /\ rpc[r] = "idle" /\ rpc' = [rpc EXCEPT ![r] = "open"]
      /\ replay' = [replay EXCEPT ![r] = "listing"]
      /\ \/ closed /\ closes' = closes \cup {r} /\ UNCHANGED subs
         \/ ~closed /\ subs' = subs \cup {r} /\ UNCHANGED closes
      /\ UNCHANGED <<rows, closed, since, notified, ppc, fan, turn, got, cursor, page, last,
                     chan, shut, dropped, told, panicked, restarts>>
  BY DEF L!Subscribe, L!publisher, L!losses, L!process
<1>1. LogTypes'
  <2>1. rpc' \in [LogReaders -> {"idle", "open", "ended", "gone"}]
        /\ replay' \in [LogReaders -> {"none", "listing", "pushing", "over", "stopped"}]
    BY <1>0 DEF LogInv, LogTypes, L!TypeOK
  <2>2. subs' \in SUBSET LogReaders /\ closes' \in SUBSET LogReaders
    BY <1>0 DEF LogInv, LogTypes, L!TypeOK
  <2> QED
    BY <1>0, <2>1, <2>2 DEF LogInv, LogTypes, L!TypeOK
<1>2. Run'
  BY <1>0 DEF LogInv, Run
<1>3. ASSUME NEW q \in LogReaders
      PROVE  Stream(q)'
  <2>0. Stream(q) /\ Pending(q)' = Pending(q) /\ subs \subseteq subs'
    BY <1>0, <1>3 DEF LogInv, Pending
  <2>1. CASE q # r
    <3>1. rpc'[q] = rpc[q] /\ replay'[q] = replay[q]
      BY <1>0, <2>1 DEF LogInv, LogTypes, L!TypeOK
    <3> QED
      BY <1>0, <2>0, <3>1, StreamKept
  <2>2. CASE q = r
    <3>1. rpc'[r] = "open" /\ replay'[r] = "listing"
      BY <1>0 DEF LogInv, LogTypes, L!TypeOK
    <3>2. Has(r)' = Has(r) /\ ~ReadOut(r)'
      BY <1>0, <3>1 DEF Has, ReadOut
    <3>3. Paged(r)' /\ Covered(r)'
      BY <1>0, <2>0, <2>2, <3>1, <3>2 DEF Stream, Paged, Covered
    <3>4. Losses(r)' /\ Shown(r)'
      BY <1>0, <2>0, <2>2, <3>1 DEF Stream, Losses, Shown
    <3>5. Ordered(r)'
      BY <1>0, <3>1 DEF LogInv, Run, Ordered
    <3> QED
      BY <2>2, <3>3, <3>4, <3>5 DEF Stream
  <2> QED
    BY <2>1, <2>2
<1> QED
  BY <1>1, <1>2, <1>3 DEF LogInv

\* The next page: the rows after the cursor, to the end of the log when it is short.
LEMMA PageProperties ==
  ASSUME LogInv, HubsAssumption, NEW r \in LogReaders
  PROVE  /\ L!Page(r) \in Seq(L!Items)
         /\ Len(L!Page(r)) \in Nat /\ Len(L!Page(r)) <= PageSize
         /\ cursor[r] + Len(L!Page(r)) <= rows
         /\ \A i \in 1..Len(L!Page(r)) : L!Page(r)[i] = cursor[r] + i
         /\ L!Short(L!Page(r)) => cursor[r] + Len(L!Page(r)) = rows
         /\ L!Page(r) = <<>> => cursor[r] = rows
<1>1. rows \in Nat /\ cursor[r] \in Nat /\ cursor[r] <= rows
  BY StreamTypes DEF LogInv, Stream, Paged
<1>2. rows <= MaxEntries /\ PageSize \in Nat \ {0} /\ MaxEntries \in Nat
  BY HubsAssumption DEF LogInv, LogTypes, L!TypeOK, L!Items, L!Sizes
<1>3. PICK size : size = IF rows - cursor[r] < PageSize THEN rows - cursor[r] ELSE PageSize
  OBVIOUS
<1>4. L!Page(r) = [i \in 1..size |-> cursor[r] + i]
  BY <1>3 DEF L!Page
<1>5. size \in Nat /\ size <= PageSize /\ cursor[r] + size <= rows
  BY <1>1, <1>2, <1>3
<1>6. \A i \in 1..size : cursor[r] + i \in L!Items
  BY <1>1, <1>2, <1>5 DEF L!Items
<1>7. L!Page(r) \in [1..size -> L!Items]
  BY <1>4, <1>6
<1>8. L!Page(r) \in Seq(L!Items) /\ Len(L!Page(r)) = size
  BY <1>5, <1>7, SeqOfFunction
<1>9. \A i \in 1..size : L!Page(r)[i] = cursor[r] + i
  BY <1>4
<1>10. size < PageSize => cursor[r] + size = rows
  BY <1>1, <1>2, <1>3
<1>11. L!Page(r) = <<>> => size = 0
  BY <1>8, EmptySeq
<1>12. L!Page(r) = <<>> => cursor[r] = rows
  BY <1>1, <1>2, <1>10, <1>11
<1> QED
  BY <1>5, <1>8, <1>9, <1>10, <1>12 DEF L!Short

\* A channel is closed by a replay only when the run had ended before it came.
LEMMA LeaveShuts ==
  ASSUME LogInv, NEW r \in LogReaders, NEW how \in {"over", "stopped"}, L!Leave(r, how)
  PROVE  /\ replay' = [replay EXCEPT ![r] = how]
         /\ replay' \in [LogReaders -> {"none", "listing", "pushing", "over", "stopped"}]
         /\ shut' \in SUBSET LogReaders /\ shut \subseteq shut'
         /\ ppc # "over" => shut' = {}
<1> QED
  BY DEF LogInv, LogTypes, L!TypeOK, Run, L!Leave

LEMMA ListStep ==
  ASSUME LogInv, HubsAssumption, NEW r \in LogReaders, L!List(r)
  PROVE  LogInv'
<1>0. /\ replay[r] = "listing"
      /\ UNCHANGED <<rows, closed, subs, since, notified, ppc, fan, turn, rpc, got, closes,
                     cursor, chan, dropped, told, panicked, restarts>>
  BY DEF L!List, L!hub, L!publisher, L!reading, L!losses, L!process
<1>1. \/ rpc[r] # "open" /\ L!Leave(r, "stopped") /\ UNCHANGED <<page, last>>
      \/ /\ rpc[r] = "open" /\ page' = [page EXCEPT ![r] = L!Page(r)]
         /\ last' = [last EXCEPT ![r] = L!Short(L!Page(r))]
         /\ \/ L!Page(r) = <<>> /\ L!Leave(r, "over")
            \/ L!Page(r) # <<>> /\ replay' = [replay EXCEPT ![r] = "pushing"] /\ UNCHANGED shut
  BY DEF L!List
<1>2. /\ L!Page(r) \in Seq(L!Items)
      /\ Len(L!Page(r)) \in Nat /\ Len(L!Page(r)) <= PageSize
      /\ cursor[r] + Len(L!Page(r)) <= rows
      /\ \A i \in 1..Len(L!Page(r)) : L!Page(r)[i] = cursor[r] + i
      /\ L!Short(L!Page(r)) => cursor[r] + Len(L!Page(r)) = rows
      /\ L!Page(r) = <<>> => cursor[r] = rows
  BY HubsAssumption, PageProperties
<1>3. /\ replay' \in [LogReaders -> {"none", "listing", "pushing", "over", "stopped"}]
      /\ \A q \in LogReaders : q # r => replay'[q] = replay[q]
      /\ shut' \in SUBSET LogReaders /\ shut \subseteq shut'
      /\ ppc # "over" => shut' = {}
  <2>0. replay \in [LogReaders -> {"none", "listing", "pushing", "over", "stopped"}]
    BY DEF LogInv, LogTypes, L!TypeOK
  <2>1. CASE L!Leave(r, "stopped") \/ L!Leave(r, "over")
    BY <2>0, <2>1, LeaveShuts
  <2>2. CASE replay' = [replay EXCEPT ![r] = "pushing"] /\ UNCHANGED shut
    BY <2>0, <2>2 DEF LogInv, LogTypes, L!TypeOK, Run
  <2> QED
    BY <1>1, <2>1, <2>2
<1>4. /\ page' \in [LogReaders -> Seq(L!Items)] /\ last' \in [LogReaders -> BOOLEAN]
      /\ \A q \in LogReaders : Len(page'[q]) <= PageSize
      /\ \A q \in LogReaders : q # r => page'[q] = page[q] /\ last'[q] = last[q]
  <2>1. /\ page \in [LogReaders -> Seq(L!Items)] /\ last \in [LogReaders -> BOOLEAN]
        /\ \A q \in LogReaders : Len(page[q]) <= PageSize
    BY DEF LogInv, LogTypes, L!TypeOK
  <2>2. L!Short(L!Page(r)) \in BOOLEAN
    BY DEF L!Short
  <2>3. CASE UNCHANGED <<page, last>>
    BY <2>1, <2>3
  <2>4. CASE /\ page' = [page EXCEPT ![r] = L!Page(r)]
             /\ last' = [last EXCEPT ![r] = L!Short(L!Page(r))]
    BY <1>2, <2>1, <2>2, <2>4
  <2> QED
    BY <1>1, <2>3, <2>4
<1>5. LogTypes'
  <2>1. \A q \in LogReaders : page'[q] \in Seq(L!Items)
    BY <1>4
  <2> QED
    BY <1>0, <1>3, <1>4, <2>1 DEF LogInv, LogTypes, L!TypeOK
<1>6. Run'
  BY <1>0, <1>3 DEF LogInv, Run
<1>7. ASSUME NEW q \in LogReaders
      PROVE  Stream(q)'
  <2>0. Stream(q) /\ Pending(q)' = Pending(q)
    BY <1>0, <1>7 DEF LogInv, Pending
  <2>1. CASE q # r
    <3>1. replay'[q] = replay[q] /\ page'[q] = page[q] /\ last'[q] = last[q]
      BY <1>3, <1>4, <2>1
    <3> QED
      BY <1>0, <1>3, <2>0, <3>1, StreamKept
  <2>2. CASE q = r
    <3>0. Has(r)' = Has(r) /\ Losses(r)'
      BY <1>0, <2>0, <2>2 DEF Has, Stream, Losses
    <3>1. CASE rpc[r] # "open" /\ L!Leave(r, "stopped")
      <4>1. replay'[r] = "stopped" /\ rpc'[r] # "open"
        BY <3>1, <1>0, LeaveShuts DEF LogInv, LogTypes, L!TypeOK
      <4>2. Paged(r)' /\ Covered(r)'
        BY <1>0, <2>0, <2>2, <3>0, <4>1 DEF Stream, Paged, Covered
      <4>3. Ordered(r)' /\ Shown(r)'
        BY <1>0, <2>0, <2>2, <4>1 DEF Stream, Ordered, Shown
      <4> QED
        BY <2>2, <3>0, <4>2, <4>3 DEF Stream
    <3>2. CASE /\ rpc[r] = "open" /\ page' = [page EXCEPT ![r] = L!Page(r)]
               /\ last' = [last EXCEPT ![r] = L!Short(L!Page(r))]
               /\ \/ L!Page(r) = <<>> /\ L!Leave(r, "over")
                  \/ L!Page(r) # <<>> /\ replay' = [replay EXCEPT ![r] = "pushing"]
      <4>1. page'[r] = L!Page(r) /\ last'[r] = L!Short(L!Page(r)) /\ rpc'[r] = "open"
        BY <3>2, <1>0 DEF LogInv, LogTypes, L!TypeOK
      <4>2. \/ L!Page(r) = <<>> /\ replay'[r] = "over"
            \/ L!Page(r) # <<>> /\ replay'[r] = "pushing"
        BY <3>2, LeaveShuts DEF LogInv, LogTypes, L!TypeOK
      <4>3. Reach(r)' = cursor[r] + Len(L!Page(r))
        BY <1>0, <4>1 DEF Reach
      <4>4. Paged(r)'
        BY <1>0, <1>2, <2>0, <2>2, <4>1, <4>2, <4>3 DEF Stream, Paged
      <4>5. Covered(r)'
        <5>1. ReadOut(r)' => Reach(r)' = rows
          <6>1. Len(<<>>) = 0 /\ cursor[r] \in Nat
            BY EmptySeq, StreamTypes DEF LogInv
          <6> QED
            BY <6>1, <1>2, <4>1, <4>2, <4>3 DEF ReadOut
        <5>2. \A k \in 1..rows : ~(k > rows)
          BY StreamTypes DEF LogInv
        <5>3. 1..cursor[r] \subseteq Has(r)
          BY <2>0, <2>2 DEF Stream, Covered
        <5> QED
          BY <1>0, <3>0, <5>1, <5>2, <5>3 DEF Covered
      <4>6. Ordered(r)' /\ Shown(r)'
        BY <1>0, <2>0, <2>2, <4>1 DEF Stream, Ordered, Shown
      <4> QED
        BY <2>2, <3>0, <4>4, <4>5, <4>6 DEF Stream
    <3> QED
      BY <1>1, <3>1, <3>2
  <2> QED
    BY <2>1, <2>2
<1> QED
  BY <1>5, <1>6, <1>7 DEF LogInv

\* The row pushed is the next one; on a closed channel the process stops.
LEMMA PushStep ==
  ASSUME LogInv, HubsAssumption, NEW r \in LogReaders, L!Push(r)
  PROVE  LogInv'
<1>0. /\ replay[r] = "pushing"
      /\ UNCHANGED <<rows, closed, subs, since, notified, ppc, fan, turn, rpc, got, closes, last,
                     dropped, told, restarts>>
  BY DEF L!Push, L!hub, L!publisher, L!reading, L!losses
<1>1. CASE r \in shut
  <2>1. panicked' = TRUE /\ UNCHANGED <<chan, cursor, page, replay, shut>>
    BY <1>1 DEF L!Push
  <2>2. LogTypes' /\ Run'
    BY <1>0, <2>1 DEF LogInv, LogTypes, L!TypeOK, Run
  <2>3. ASSUME NEW q \in LogReaders PROVE Stream(q)'
    <3>1. Stream(q) /\ Pending(q)' = Pending(q)
      BY <1>0, <2>3 DEF LogInv, Pending
    <3> QED
      BY <1>0, <2>1, <3>1, StreamKept
  <2> QED
    BY <2>2, <2>3 DEF LogInv
<1>2. CASE r \notin shut
  <2>0. /\ L!Room(r) /\ L!Put(r, Head(page[r])) /\ panicked' = panicked
        /\ cursor' = [cursor EXCEPT ![r] = Head(page[r])]
        /\ page' = [page EXCEPT ![r] = Tail(page[r])]
        /\ \/ Tail(page[r]) # <<>> /\ UNCHANGED <<replay, shut>>
           \/ Tail(page[r]) = <<>> /\ last[r] /\ L!Leave(r, "over")
           \/ replay' = [replay EXCEPT ![r] = "listing"] /\ UNCHANGED shut
    BY <1>2 DEF L!Push
  <2>1. /\ Stream(r) /\ LogTypes /\ page[r] # <<>> /\ Reach(r) <= rows
        /\ \A i \in 1..Len(page[r]) : page[r][i] = cursor[r] + i
    BY <1>0 DEF LogInv, Stream, Paged
  <2>2. /\ rows \in Nat /\ cursor[r] \in Nat /\ page[r] \in Seq(L!Items) /\ Len(page[r]) \in Nat
        /\ Len(page[r]) # 0
    BY <2>1, StreamTypes, EmptySeq
  <2>3. /\ Head(page[r]) = cursor[r] + 1 /\ Head(page[r]) \in L!Items
        /\ Tail(page[r]) \in Seq(L!Items) /\ Len(Tail(page[r])) = Len(page[r]) - 1
        /\ \A i \in 1..Len(Tail(page[r])) : Tail(page[r])[i] = (cursor[r] + 1) + i
    <3>1. /\ Head(page[r]) = page[r][1] /\ Head(page[r]) \in L!Items
          /\ Tail(page[r]) \in Seq(L!Items) /\ Len(Tail(page[r])) = Len(page[r]) - 1
          /\ \A i \in 1..Len(Tail(page[r])) : Tail(page[r])[i] = page[r][i + 1]
      BY <2>1, <2>2, MembersOfTail
    <3>2. 1 \in 1..Len(page[r])
      BY <2>2
    <3>3. ASSUME NEW i \in 1..Len(Tail(page[r]))
          PROVE  Tail(page[r])[i] = (cursor[r] + 1) + i
      <4>1. i + 1 \in 1..Len(page[r]) /\ i \in Nat
        BY <2>2, <3>1
      <4>2. Tail(page[r])[i] = cursor[r] + (i + 1)
        BY <2>1, <3>1, <4>1
      <4> QED
        BY <2>2, <4>1, <4>2
    <3>4. Head(page[r]) = cursor[r] + 1
      BY <2>1, <3>1, <3>2
    <3> QED
      BY <3>1, <3>3, <3>4
  <2>4. /\ chan' \in [LogReaders -> Seq(L!Items)]
        /\ \A q \in LogReaders : Len(chan'[q]) <= LogCapacity
        /\ \A q \in LogReaders : q # r => chan'[q] = chan[q]
        /\ Members(chan'[r]) = Members(chan[r]) \cup {cursor[r] + 1}
    BY <2>0, <2>1, <2>3, HubsAssumption, PutTypes
  <2>5. /\ cursor'[r] = cursor[r] + 1 /\ page'[r] = Tail(page[r])
        /\ cursor' \in [LogReaders -> L!Items] /\ page' \in [LogReaders -> Seq(L!Items)]
        /\ \A q \in LogReaders : q # r => cursor'[q] = cursor[q] /\ page'[q] = page[q]
    BY <2>0, <2>1, <2>3 DEF LogTypes, L!TypeOK
  <2>6. /\ replay' \in [LogReaders -> {"none", "listing", "pushing", "over", "stopped"}]
        /\ \A q \in LogReaders : q # r => replay'[q] = replay[q]
        /\ shut' \in SUBSET LogReaders /\ shut \subseteq shut'
        /\ ppc # "over" => shut' = {}
        /\ \/ Tail(page[r]) # <<>> /\ replay'[r] = "pushing"
           \/ Tail(page[r]) = <<>> /\ last[r] /\ replay'[r] = "over"
           \/ replay'[r] = "listing"
    <3>0. replay \in [LogReaders -> {"none", "listing", "pushing", "over", "stopped"}]
          /\ shut \in SUBSET LogReaders /\ (ppc # "over" => shut = {})
      BY DEF LogInv, LogTypes, L!TypeOK, Run
    <3>1. CASE Tail(page[r]) # <<>> /\ UNCHANGED <<replay, shut>>
      BY <1>0, <3>0, <3>1
    <3>2. CASE Tail(page[r]) = <<>> /\ last[r] /\ L!Leave(r, "over")
      BY <3>0, <3>2, LeaveShuts
    <3>3. CASE replay' = [replay EXCEPT ![r] = "listing"] /\ UNCHANGED shut
      BY <3>0, <3>3
    <3> QED
      BY <2>0, <3>1, <3>2, <3>3
  <2>7. LogTypes'
    <3>1. \A q \in LogReaders : Len(page'[q]) <= PageSize
      <4>1. \A q \in LogReaders : Len(page[q]) <= PageSize
        BY <2>1 DEF LogTypes, L!TypeOK
      <4>2. Len(page'[r]) <= PageSize
        BY <4>1, <2>2, <2>3, <2>5, HubsAssumption DEF L!Sizes
      <4> QED
        BY <4>1, <4>2, <2>5
    <3>2. \A q \in LogReaders : page'[q] \in Seq(L!Items) /\ chan'[q] \in Seq(L!Items)
      BY <2>4, <2>5
    <3> QED
      BY <1>0, <2>0, <2>1, <2>4, <2>5, <2>6, <3>1, <3>2 DEF LogTypes, L!TypeOK
  <2>8. Run'
    BY <1>0, <2>6 DEF LogInv, Run
  <2>9. ASSUME NEW q \in LogReaders PROVE Stream(q)'
    <3>0. Stream(q) /\ Pending(q)' = Pending(q)
      BY <1>0, <2>9 DEF LogInv, Pending
    <3>1. CASE q # r
      <4>1. /\ replay'[q] = replay[q] /\ cursor'[q] = cursor[q] /\ page'[q] = page[q]
            /\ chan'[q] = chan[q]
        BY <2>4, <2>5, <2>6, <3>1
      <4> QED
        BY <1>0, <2>6, <3>0, <4>1, StreamKept
    <3>2. CASE q = r
      <4>1. Has(r)' = Has(r) \cup {cursor[r] + 1}
        BY <1>0, <2>4 DEF Has
      <4>2. Reach(r)' = Reach(r)
        <5>1. Reach(r)' = (cursor[r] + 1) + Len(Tail(page[r]))
          BY <2>5 DEF Reach
        <5>2. Len(Tail(page[r])) = Len(page[r]) - 1
          BY <2>3
        <5> QED
          BY <2>2, <5>1, <5>2 DEF Reach
      <4>3. Paged(r)'
        <5>1. cursor'[r] <= rows'
          BY <1>0, <2>1, <2>2, <2>5 DEF Reach
        <5> QED
          BY <1>0, <2>1, <2>3, <2>5, <2>6, <4>2, <5>1 DEF Paged
      <4>4. Covered(r)'
        <5>1. ReadOut(r)' => ReadOut(r)
          BY <1>0, <2>6 DEF ReadOut
        <5>2. 1..cursor'[r] \subseteq Has(r)'
          <6>1. \A k \in 1..cursor'[r] : k \in 1..cursor[r] \/ k = cursor[r] + 1
            BY <2>2, <2>5
          <6>2. 1..cursor[r] \subseteq Has(r)
            BY <2>1 DEF Stream, Covered
          <6> QED
            BY <6>1, <6>2, <4>1
        <5> QED
          BY <1>0, <2>1, <3>0, <3>2, <4>1, <4>2, <5>1, <5>2 DEF Stream, Covered
      <4>5. Ordered(r)' /\ Shown(r)'
        BY <1>0, <1>2, <2>1 DEF Stream, Ordered, Shown
      <4>6. Losses(r)'
        BY <1>0, <2>1 DEF Stream, Losses
      <4> QED
        BY <3>2, <4>3, <4>4, <4>5, <4>6 DEF Stream
    <3> QED
      BY <3>1, <3>2
  <2> QED
    BY <2>7, <2>8, <2>9 DEF LogInv
<1> QED
  BY <1>1, <1>2

LEMMA StopReplayStep ==
  ASSUME LogInv, NEW r \in LogReaders, L!StopReplay(r)
  PROVE  LogInv'
<1>0. /\ rpc[r] # "open" /\ L!Leave(r, "stopped")
      /\ UNCHANGED <<rows, closed, subs, since, notified, ppc, fan, turn, rpc, got, closes,
                     cursor, page, last, chan, dropped, told, panicked, restarts>>
  BY DEF L!StopReplay, L!hub, L!publisher, L!reading, L!losses, L!process
<1>1. /\ replay' = [replay EXCEPT ![r] = "stopped"]
      /\ replay' \in [LogReaders -> {"none", "listing", "pushing", "over", "stopped"}]
      /\ shut' \in SUBSET LogReaders /\ shut \subseteq shut'
      /\ ppc # "over" => shut' = {}
  BY <1>0, LeaveShuts
<1>2. LogTypes' /\ Run'
  BY <1>0, <1>1 DEF LogInv, LogTypes, L!TypeOK, Run
<1>3. ASSUME NEW q \in LogReaders
      PROVE  Stream(q)'
  <2>0. Stream(q) /\ Pending(q)' = Pending(q)
    BY <1>0, <1>3 DEF LogInv, Pending
  <2>1. CASE q # r
    <3>1. replay'[q] = replay[q]
      BY <1>1, <2>1 DEF LogInv, LogTypes, L!TypeOK
    <3> QED
      BY <1>0, <1>1, <2>0, <3>1, StreamKept
  <2>2. CASE q = r
    <3>1. replay'[r] = "stopped" /\ rpc'[r] # "open" /\ Has(r)' = Has(r)
      BY <1>0, <1>1 DEF LogInv, LogTypes, L!TypeOK, Has
    <3>2. Paged(r)' /\ Covered(r)'
      BY <1>0, <2>0, <2>2, <3>1 DEF Stream, Paged, Covered
    <3>3. Ordered(r)' /\ Losses(r)' /\ Shown(r)'
      BY <1>0, <2>0, <2>2, <3>1 DEF Stream, Ordered, Losses, Shown
    <3> QED
      BY <2>2, <3>2, <3>3 DEF Stream
  <2> QED
    BY <2>1, <2>2
<1> QED
  BY <1>2, <1>3 DEF LogInv

LEMMA LogConsumeStep ==
  ASSUME LogInv, NEW r \in LogReaders, L!Consume(r)
  PROVE  LogInv'
<1>0. /\ rpc[r] = "open" /\ chan[r] # <<>>
      /\ got' = [got EXCEPT ![r] = Append(@, Head(chan[r]))]
      /\ chan' = [chan EXCEPT ![r] = Tail(@)]
      /\ UNCHANGED <<rows, closed, subs, since, notified, ppc, fan, turn, rpc, replay, closes,
                     cursor, page, last, shut, dropped, told, panicked, restarts>>
  BY DEF L!Consume, L!hub, L!publisher, L!replays, L!losses, L!process
<1>1. /\ chan \in [LogReaders -> Seq(L!Items)] /\ got \in [LogReaders -> Seq(L!Items)]
      /\ Len(chan[r]) <= LogCapacity /\ Len(chan[r]) \in Nat
  BY StreamTypes DEF LogInv, LogTypes, L!TypeOK
<1>2. /\ Head(chan[r]) \in L!Items /\ Tail(chan[r]) \in Seq(L!Items)
      /\ Len(Tail(chan[r])) = Len(chan[r]) - 1
      /\ Members(chan[r]) = {Head(chan[r])} \cup Members(Tail(chan[r]))
  BY <1>0, <1>1, MembersOfTail
<1>3. /\ Append(got[r], Head(chan[r])) \in Seq(L!Items)
      /\ Members(Append(got[r], Head(chan[r]))) = Members(got[r]) \cup {Head(chan[r])}
  BY <1>1, <1>2, AppendProperties, MembersOfAppend
<1>4. /\ got'[r] = Append(got[r], Head(chan[r])) /\ chan'[r] = Tail(chan[r])
      /\ got' \in [LogReaders -> Seq(L!Items)] /\ chan' \in [LogReaders -> Seq(L!Items)]
      /\ \A q \in LogReaders : q # r => got'[q] = got[q] /\ chan'[q] = chan[q]
  BY <1>0, <1>1, <1>2, <1>3
<1>5. LogTypes'
  <2>1. \A q \in LogReaders : Len(chan[q]) <= LogCapacity
    BY DEF LogInv, LogTypes, L!TypeOK
  <2>2. Len(chan'[r]) <= Len(chan[r])
    BY <1>1, <1>2, <1>4
  <2>3. Len(chan'[r]) \in Nat
    BY <1>2, <1>4, LenProperties
  <2>4. \A q \in LogReaders : Len(chan'[q]) <= LogCapacity
    <3> TAKE q \in LogReaders
    <3>1. CASE q # r
      BY <3>1, <1>4, <2>1
    <3>2. CASE q = r
      <4>1. Len(chan[r]) \in Nat /\ LogCapacity \in Nat
        BY <1>1, HubsAssumption DEF L!Sizes
      <4> QED
        BY <3>2, <1>1, <2>2, <2>3, <4>1
    <3> QED
      BY <3>1, <3>2
  <2>5. \A q \in LogReaders : chan'[q] \in Seq(L!Items) /\ got'[q] \in Seq(L!Items)
    BY <1>4
  <2> QED
    BY <1>0, <1>4, <2>4, <2>5 DEF LogInv, LogTypes, L!TypeOK
<1>6. Run'
  BY <1>0 DEF LogInv, Run
<1>7. ASSUME NEW q \in LogReaders
      PROVE  Stream(q)'
  <2>0. Stream(q) /\ Pending(q)' = Pending(q)
    BY <1>0, <1>7 DEF LogInv, Pending
  <2>1. CASE q # r
    <3>1. got'[q] = got[q] /\ chan'[q] = chan[q]
      BY <1>4, <2>1
    <3> QED
      BY <1>0, <2>0, <3>1, StreamKept
  <2>2. CASE q = r
    <3>1. Has(r)' = Has(r)
      BY <1>0, <1>2, <1>3, <1>4 DEF Has
    <3>2. Covered(r)'
      BY <1>0, <2>0, <2>2, <3>1, CoveredGrows DEF Stream
    <3>3. Paged(r)' /\ Ordered(r)' /\ Losses(r)' /\ Shown(r)'
      BY <1>0, <2>0, <2>2 DEF Stream, Paged, Reach, Ordered, Losses, Shown
    <3> QED
      BY <2>2, <3>2, <3>3 DEF Stream
  <2> QED
    BY <2>1, <2>2
<1> QED
  BY <1>5, <1>6, <1>7 DEF LogInv

\* A drained channel that is closed: what the reader has is what it was shown or
\* has lost.
LEMMA DoneStep ==
  ASSUME LogInv, NEW r \in LogReaders, L!Done(r)
  PROVE  LogInv'
<1>0. /\ rpc[r] = "open" /\ r \in shut /\ chan[r] = <<>>
      /\ rpc' = [rpc EXCEPT ![r] = "ended"] /\ subs' = subs \ {r}
      /\ UNCHANGED <<rows, closed, since, notified, ppc, fan, turn, got, replay, closes, cursor,
                     page, last, chan, shut, dropped, told, panicked, restarts>>
  BY DEF L!Done, L!publisher, L!replays, L!losses, L!process
<1>1. ppc = "over"
  BY <1>0 DEF LogInv, Run
<1>2. LogTypes' /\ Run'
  BY <1>0 DEF LogInv, LogTypes, L!TypeOK, Run
<1>3. ASSUME NEW q \in LogReaders
      PROVE  Stream(q)'
  <2>0. Stream(q) /\ Pending(q)' = Pending(q)
    BY <1>0, <1>3 DEF LogInv, Pending
  <2>1. CASE q # r
    <3>1. rpc'[q] = rpc[q] /\ (q \in subs => q \in subs')
      BY <1>0, <2>1 DEF LogInv, LogTypes, L!TypeOK
    <3> QED
      BY <1>0, <2>0, <3>1, StreamKept
  <2>2. CASE q = r
    <3>1. rpc'[r] = "ended" /\ Has(r)' = Has(r) /\ Has(r) = Members(got[r]) \cup dropped[r]
      BY <1>0, MembersOfNone DEF LogInv, LogTypes, L!TypeOK, Has
    <3>2. Paged(r)' /\ Covered(r)' /\ Losses(r)'
      BY <1>0, <2>0, <2>2, <3>1 DEF Stream, Paged, Reach, Covered, Losses
    <3>3. Ordered(r)'
      BY <1>0, <1>1, <3>1 DEF Ordered
    <3>4. Shown(r)'
      <4> SUFFICES ASSUME replay[r] = "over", NEW k \in 1..rows
                   PROVE  k \in Has(r)
        BY <1>0, <3>1 DEF Shown
      <4>1. page[r] = <<>> /\ ReadOut(r)
        BY <2>0, <2>2 DEF Stream, Paged, ReadOut
      <4>2. Reach(r) = cursor[r] /\ cursor[r] \in Nat /\ rows \in Nat
        <5>1. Len(<<>>) = 0 /\ cursor[r] \in Nat /\ rows \in Nat
          BY EmptySeq, StreamTypes DEF LogInv
        <5> QED
          BY <4>1, <5>1 DEF Reach
      <4>3. CASE k > cursor[r]
        BY <1>0, <1>1, <2>0, <2>2, <4>1, <4>2, <4>3 DEF Stream, Covered, Pending
      <4>4. CASE ~(k > cursor[r])
        <5>1. k \in 1..cursor[r]
          BY <4>2, <4>4
        <5> QED
          BY <2>0, <2>2, <5>1 DEF Stream, Covered
      <4> QED
        BY <4>3, <4>4
    <3> QED
      BY <2>2, <3>2, <3>3, <3>4 DEF Stream
  <2> QED
    BY <2>1, <2>2
<1> QED
  BY <1>2, <1>3 DEF LogInv

LEMMA DisconnectStep ==
  ASSUME LogInv, NEW r \in LogReaders, L!Disconnect(r)
  PROVE  LogInv'
<1>0. /\ rpc' = [rpc EXCEPT ![r] = "gone"] /\ subs' = subs \ {r}
      /\ UNCHANGED <<rows, closed, since, notified, ppc, fan, turn, got, replay, closes, cursor,
                     page, last, chan, shut, dropped, told, panicked, restarts>>
  BY DEF L!Disconnect, L!publisher, L!replays, L!losses, L!process
<1>1. LogTypes' /\ Run'
  BY <1>0 DEF LogInv, LogTypes, L!TypeOK, Run
<1>2. ASSUME NEW q \in LogReaders
      PROVE  Stream(q)'
  <2>0. Stream(q) /\ Pending(q)' = Pending(q)
    BY <1>0, <1>2 DEF LogInv, Pending
  <2>1. CASE q # r
    <3>1. rpc'[q] = rpc[q] /\ (q \in subs => q \in subs')
      BY <1>0, <2>1 DEF LogInv, LogTypes, L!TypeOK
    <3> QED
      BY <1>0, <2>0, <3>1, StreamKept
  <2>2. CASE q = r
    <3>1. rpc'[r] = "gone" /\ Has(r)' = Has(r)
      BY <1>0 DEF LogInv, LogTypes, L!TypeOK, Has
    <3>2. Paged(r)' /\ Covered(r)' /\ Losses(r)'
      BY <1>0, <2>0, <2>2, <3>1 DEF Stream, Paged, Reach, Covered, Losses
    <3>3. Ordered(r)' /\ Shown(r)'
      BY <1>0, <3>1 DEF Ordered, Shown
    <3> QED
      BY <2>2, <3>2, <3>3 DEF Stream
  <2> QED
    BY <2>1, <2>2
<1> QED
  BY <1>1, <1>2 DEF LogInv

\* A restart ends what was open; what was shown stays shown.
LEMMA RestartStep ==
  ASSUME LogInv, HubsAssumption, L!Restart
  PROVE  LogInv'
<1>0. /\ restarts < MaxRestarts /\ restarts' = restarts + 1
      /\ closed' = FALSE /\ subs' = {} /\ shut' = {}
      /\ ppc' = "over" /\ fan' = {} /\ turn' = {} /\ panicked' = FALSE
      /\ rpc' = [r \in LogReaders |-> IF rpc[r] = "open" THEN "gone" ELSE rpc[r]]
      /\ replay' = [r \in LogReaders |-> IF replay[r] \in {"listing", "pushing"} THEN "stopped"
                                         ELSE replay[r]]
      /\ UNCHANGED <<rows, since, notified, closes, cursor, page, last, chan, got, dropped, told>>
  BY DEF L!Restart, L!losses
<1>1. LogTypes'
  <2>1. restarts' \in 0..MaxRestarts
    BY <1>0, HubsAssumption DEF LogInv, LogTypes, L!TypeOK, L!Sizes
  <2>2. rpc' \in [LogReaders -> {"idle", "open", "ended", "gone"}]
        /\ replay' \in [LogReaders -> {"none", "listing", "pushing", "over", "stopped"}]
    BY <1>0 DEF LogInv, LogTypes, L!TypeOK
  <2> QED
    BY <1>0, <2>1, <2>2, FewTurns DEF LogInv, LogTypes, L!TypeOK
<1>2. Run'
  BY <1>0 DEF Run
<1>3. ASSUME NEW r \in LogReaders
      PROVE  Stream(r)'
  <2>0. Stream(r)
    BY <1>3 DEF LogInv
  <2>1. /\ rpc'[r] = IF rpc[r] = "open" THEN "gone" ELSE rpc[r]
        /\ replay'[r] = IF replay[r] \in {"listing", "pushing"} THEN "stopped" ELSE replay[r]
        /\ Has(r)' = Has(r)
    BY <1>0 DEF Has
  <2>2. Paged(r)' /\ Covered(r)'
    BY <1>0, <2>0, <2>1 DEF Stream, Paged, Covered
  <2>3. Ordered(r)' /\ Shown(r)' /\ Losses(r)'
    BY <1>0, <2>0, <2>1 DEF Stream, Ordered, Shown, Losses
  <2> QED
    BY <2>2, <2>3 DEF Stream
<1> QED
  BY <1>1, <1>2, <1>3 DEF LogInv

LEMMA LogStep ==
  ASSUME LogInv, HubsAssumption, L!Next
  PROVE  LogInv'
<1>1. CASE L!Fanout
  BY <1>1, HubsAssumption, InsertStep, BroadcastStep, OfferGapStep, SendEntryStep, LogCloseStep
     DEF L!Fanout
<1>2. ASSUME NEW r \in LogReaders,
             L!Subscribe(r) \/ L!Replaying(r) \/ L!Handling(r) \/ L!Disconnect(r)
      PROVE  LogInv'
  BY <1>2, HubsAssumption, LogSubscribeStep, ListStep, PushStep, StopReplayStep, LogConsumeStep,
     DoneStep, DisconnectStep DEF L!Replaying, L!Handling
<1>3. CASE L!Restart
  BY <1>3, HubsAssumption, RestartStep
<1> QED
  BY <1>1, <1>2, <1>3 DEF L!Next

LEMMA LogIdle ==
  ASSUME LogInv, UNCHANGED logVars
  PROVE  LogInv'
<1>1. LogTypes' /\ Run'
  BY DEF LogInv, LogTypes, L!TypeOK, Run, logVars
<1>2. ASSUME NEW r \in LogReaders
      PROVE  Stream(r)'
  <2>1. Stream(r) /\ Pending(r)' = Pending(r)
    BY <1>2 DEF LogInv, Pending, logVars
  <2> QED
    BY <2>1, StreamKept DEF logVars
<1> QED
  BY <1>1, <1>2 DEF LogInv

-----------------------------------------------------------------------------
(* Theorems *)

LEMMA HubsInvariant == Spec => []IInv
<1>1. Init => IInv
  BY HubsAssumption, EventBegins, LogBegins DEF Init, IInv
<1>2. IInv /\ [Next]_hubs => IInv'
  <2> SUFFICES ASSUME IInv, [Next]_hubs
               PROVE  IInv'
    OBVIOUS
  <2>1. EventInv /\ LogInv
    BY DEF IInv
  <2>2. CASE Log(L!Next)
    BY <2>1, <2>2, HubsAssumption, LogStep, EventIdle DEF Log, IInv
  <2>3. CASE Events(S!Next)
    BY <2>1, <2>3, HubsAssumption, EventStep, LogIdle DEF Events, IInv
  <2>4. CASE UNCHANGED hubs
    <3>1. UNCHANGED eventVars /\ UNCHANGED logVars
      BY <2>4 DEF hubs
    <3> QED
      BY <2>1, <3>1, EventIdle, LogIdle DEF IInv
  <2> QED
    BY <2>2, <2>3, <2>4 DEF Next
<1> QED
  BY <1>1, <1>2, PTL DEF Spec

\* The variables of both hubs keep their types, whatever the sizes of buffers and
\* pages and however many follow a run.
THEOREM HubsTypeCorrect == Spec => []TypeOK
<1>1. IInv => TypeOK
  BY DEF IInv, EventInv, EventTypes, LogInv, LogTypes, TypeOK
<1> QED
  BY <1>1, HubsInvariant, PTL

\* pubsub.go: a log stream that ends by itself has shown every row but those a full
\* buffer dropped, and until a gap marker goes out the hub remembers the first of
\* them, for any page size, buffer, number of readers and restarts.
THEOREM StreamsLoseNothingUntold == Spec => []NothingLostUntold
<1>1. IInv => NothingLostUntold
  <2>1. ASSUME IInv PROVE L!Complete
    BY <2>1 DEF IInv, LogInv, Stream, Shown, L!Complete, L!Delivered, Members
  <2>2. ASSUME IInv PROVE L!FirstLossRemembered
    BY <2>2 DEF IInv, LogInv, LogTypes, L!TypeOK, Stream, Losses, L!FirstLossRemembered
  <2> QED
    BY <2>1, <2>2 DEF NothingLostUntold
<1> QED
  BY <1>1, HubsInvariant, PTL

\* hub.go: a Publish that meets no full channel serves everyone who was there and
\* sends on no closed channel, and no channel is closed twice, whatever joins and
\* leaves meanwhile and however many executions publish.
THEOREM PublishIsSound == Spec => []PublishSound
<1>1. IInv => PublishSound
  BY DEF IInv, EventInv, PublishSound
<1> QED
  BY <1>1, HubsInvariant, PTL
=============================================================================
