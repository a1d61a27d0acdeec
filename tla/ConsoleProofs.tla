---------------------------- MODULE ConsoleProofs ----------------------------
(***************************************************************************)
(* What the calls in flight are after one was sent or answered, for any    *)
(* page: the lemmas the proofs about pages rest on.                        *)
(***************************************************************************)
EXTENDS Console, SequenceTheorems, WellFoundedInduction, TLAPS

\* A call as Call makes it: a record, whatever its argument.
IsCall(c) == c = [op |-> c.op, arg |-> c.arg, last |-> c.last]

\* The calls in flight form a sequence of those.
AreCalls(cs) == \E S : (\A c \in S : IsCall(c)) /\ cs \in Seq(S)

\* Some call of cs asks for op with that argument.
Flying(op, arg, cs) == \E k \in DOMAIN cs : cs[k].op = op /\ cs[k].arg = arg

LEMMA MadeByCall ==
  ASSUME NEW op, NEW arg
  PROVE  IsCall(Call(op, arg)) /\ Call(op, arg).op = op /\ Call(op, arg).arg = arg
  BY DEF IsCall, Call

\* Sent keeps the operation and the argument of every call and adds the new ones.
LEMMA SentCalls ==
  ASSUME NEW cs, NEW new, AreCalls(cs), AreCalls(new)
  PROVE  /\ AreCalls(Sent(cs, new))
         /\ Len(Sent(cs, new)) = Len(cs) + Len(new)
         /\ \A k \in DOMAIN cs :
              /\ Sent(cs, new)[k].op = cs[k].op /\ Sent(cs, new)[k].arg = cs[k].arg
              /\ Sent(cs, new)[k].last <=>
                   cs[k].last /\ \A n \in DOMAIN new : ~Outdates(new[n], cs[k])
         /\ \A k \in DOMAIN new : Sent(cs, new)[Len(cs) + k] = new[k]
<1> DEFINE mark(i) == cs[i].last /\ \A n \in DOMAIN new : ~Outdates(new[n], cs[i])
           old == [i \in DOMAIN cs |-> [cs[i] EXCEPT !.last = mark(i)]]
<1>1. PICK S : (\A c \in S : IsCall(c)) /\ cs \in Seq(S)
  BY DEF AreCalls
<1>2. PICK T : (\A c \in T : IsCall(c)) /\ new \in Seq(T)
  BY DEF AreCalls
<1>3. \A i \in DOMAIN cs : IsCall(cs[i])
  BY <1>1
<1>4. \A i \in DOMAIN cs : old[i].op = cs[i].op /\ old[i].arg = cs[i].arg /\ IsCall(old[i])
  BY <1>3 DEF IsCall
<1>9. \A i \in DOMAIN cs : old[i].last <=> mark(i)
  <2>1. \A c, m : IsCall(c) => [c EXCEPT !.last = m].last = m
    BY DEF IsCall
  <2> TAKE i \in DOMAIN cs
  <2> DEFINE m == mark(i)
  <2>2. old[i] = [cs[i] EXCEPT !.last = m]
    OBVIOUS
  <2> HIDE DEF old, m
  <2>3. old[i].last = m
    BY <1>3, <2>1, <2>2
  <2> QED
    BY <2>3 DEF m
<1> DEFINE U == {old[i] : i \in DOMAIN cs} \cup T
<1>5. \A c \in U : IsCall(c)
  BY <1>2, <1>4
<1>6. old \in Seq(U) /\ Len(old) = Len(cs) /\ new \in Seq(U)
  BY <1>1, <1>2
<1>7. Sent(cs, new) = old \o new
  BY DEF Sent
<1> HIDE DEF old, U
<1>8. /\ old \o new \in Seq(U) /\ Len(old \o new) = Len(cs) + Len(new)
      /\ \A k \in DOMAIN cs : (old \o new)[k] = old[k]
      /\ \A k \in DOMAIN new : (old \o new)[Len(cs) + k] = new[k]
  BY <1>1, <1>2, <1>6
<1>10. \A k \in DOMAIN cs : Sent(cs, new)[k].last <=> mark(k)
  BY <1>7, <1>8, <1>9
<1>11. AreCalls(Sent(cs, new))
  BY <1>5, <1>7, <1>8 DEF AreCalls
<1>12. /\ Len(Sent(cs, new)) = Len(cs) + Len(new)
       /\ \A k \in DOMAIN cs : Sent(cs, new)[k].op = cs[k].op /\ Sent(cs, new)[k].arg = cs[k].arg
       /\ \A k \in DOMAIN new : Sent(cs, new)[Len(cs) + k] = new[k]
  BY <1>4, <1>7, <1>8
<1> QED
  BY <1>10, <1>11, <1>12

LEMMA SentFlies ==
  ASSUME NEW cs, NEW new, AreCalls(cs), AreCalls(new)
  PROVE  \A op, arg :
           Flying(op, arg, Sent(cs, new)) <=> Flying(op, arg, cs) \/ Flying(op, arg, new)
<1> SUFFICES ASSUME NEW op, NEW arg
             PROVE  Flying(op, arg, Sent(cs, new)) <=> Flying(op, arg, cs) \/ Flying(op, arg, new)
  OBVIOUS
<1> DEFINE all == Sent(cs, new)
<1>1. PICK S : cs \in Seq(S)
  BY DEF AreCalls
<1>2. PICK T : new \in Seq(T)
  BY DEF AreCalls
<1>3. PICK U : all \in Seq(U)
  BY SentCalls DEF AreCalls
<1>4. /\ Len(all) = Len(cs) + Len(new)
      /\ \A k \in DOMAIN cs : all[k].op = cs[k].op /\ all[k].arg = cs[k].arg
      /\ \A k \in DOMAIN new : all[Len(cs) + k] = new[k]
  BY SentCalls
<1> HIDE DEF all
<1>5. /\ DOMAIN cs = 1..Len(cs) /\ DOMAIN new = 1..Len(new)
      /\ DOMAIN all = 1..(Len(cs) + Len(new))
      /\ Len(cs) \in Nat /\ Len(new) \in Nat
  BY <1>1, <1>2, <1>3, <1>4
<1>6. \A k \in DOMAIN cs : k \in DOMAIN all
  BY <1>5
<1>7. \A k \in DOMAIN new : Len(cs) + k \in DOMAIN all
  BY <1>5
<1>8. \A k \in DOMAIN all : k \in DOMAIN cs \/ \E j \in DOMAIN new : k = Len(cs) + j
  <2> SUFFICES ASSUME NEW k \in DOMAIN all, k \notin DOMAIN cs
               PROVE  \E j \in DOMAIN new : k = Len(cs) + j
    OBVIOUS
  <2>1. k - Len(cs) \in DOMAIN new /\ k = Len(cs) + (k - Len(cs))
    BY <1>5
  <2> QED
    BY <2>1
<1>9. Flying(op, arg, cs) \/ Flying(op, arg, new) => Flying(op, arg, all)
  BY <1>4, <1>6, <1>7 DEF Flying
<1>10. Flying(op, arg, all) => Flying(op, arg, cs) \/ Flying(op, arg, new)
  BY <1>4, <1>8 DEF Flying
<1> QED
  BY <1>9, <1>10 DEF all

\* What is left of the calls when call i was answered: the others, in order.
LEMMA Answered ==
  ASSUME NEW cs, AreCalls(cs), NEW i \in DOMAIN cs
  PROVE  /\ AreCalls(Without(cs, i))
         /\ \A k \in DOMAIN cs : k # i => \E j \in DOMAIN Without(cs, i) : Without(cs, i)[j] = cs[k]
         /\ \A j \in DOMAIN Without(cs, i) :
              \E k \in DOMAIN cs : k # i /\ Without(cs, i)[j] = cs[k]
<1>1. PICK S : (\A c \in S : IsCall(c)) /\ cs \in Seq(S)
  BY DEF AreCalls
<1> DEFINE rest == Without(cs, i)
<1>2. i \in 1..Len(cs) /\ Len(cs) \in Nat
  BY <1>1
<1>3. /\ rest \in Seq(S) /\ Len(rest) = Len(cs) - 1
      /\ \A j \in 1..Len(rest) : rest[j] = IF j < i THEN cs[j] ELSE cs[j + 1]
  <2>1. \A j \in 1..(Len(cs) - 1) : (IF j < i THEN j ELSE j + 1) \in 1..Len(cs)
    BY <1>2
  <2>2. rest \in [1..(Len(cs) - 1) -> S]
    BY <1>1, <2>1 DEF Without
  <2>3. rest \in Seq(S) /\ Len(rest) = Len(cs) - 1
    BY <1>2, <2>2
  <2> QED
    BY <1>2, <2>1, <2>3 DEF Without
<1> HIDE DEF rest
<1>4. DOMAIN rest = 1..(Len(cs) - 1) /\ DOMAIN cs = 1..Len(cs)
  BY <1>1, <1>3
<1>5. \A k \in DOMAIN cs : k # i => \E j \in DOMAIN rest : rest[j] = cs[k]
  <2> SUFFICES ASSUME NEW k \in 1..Len(cs), k # i PROVE \E j \in DOMAIN rest : rest[j] = cs[k]
    BY <1>4
  <2>1. CASE k < i
    <3>1. k \in 1..Len(rest)
      BY <1>2, <1>3, <2>1
    <3> QED
      BY <1>2, <1>3, <1>4, <2>1, <3>1
  <2>2. CASE k > i
    <3>1. k - 1 \in 1..Len(rest) /\ ~(k - 1 < i) /\ (k - 1) + 1 = k
      BY <1>2, <1>3, <2>2
    <3> QED
      BY <1>2, <1>3, <1>4, <3>1
  <2> QED
    BY <1>2, <2>1, <2>2
<1>6. \A j \in DOMAIN rest : \E k \in DOMAIN cs : k # i /\ rest[j] = cs[k]
  <2> SUFFICES ASSUME NEW j \in 1..(Len(cs) - 1)
               PROVE  \E k \in 1..Len(cs) : k # i /\ rest[j] = cs[k]
    BY <1>4
  <2>1. CASE j < i
    BY <1>2, <1>3, <2>1
  <2>2. CASE ~(j < i)
    <3>1. j + 1 \in 1..Len(cs) /\ j + 1 # i
      BY <1>2, <2>2
    <3> QED
      BY <1>2, <1>3, <2>2, <3>1
  <2> QED
    BY <2>1, <2>2
<1> QED
  BY <1>1, <1>3, <1>5, <1>6 DEF AreCalls, rest

\* Sending keeps every call in flight and adds the new ones.
LEMMA SendAdds ==
  ASSUME AreCalls(calls), NEW new, AreCalls(new), Send(new)
  PROVE  /\ AreCalls(calls')
         /\ \A op, arg :
              Flying(op, arg, calls') <=> Flying(op, arg, calls) \/ Flying(op, arg, new)
         /\ \A ops : InFlight(ops) => InFlight(ops)'
<1>1. calls' = Sent(calls, new)
  BY DEF Send
<1>2. AreCalls(calls')
  BY <1>1, SentCalls
<1>3. \A op, arg :
        Flying(op, arg, calls') <=> Flying(op, arg, calls) \/ Flying(op, arg, new)
  BY <1>1, SentFlies
<1>4. \A ops : InFlight(ops) => InFlight(ops)'
  <2> SUFFICES ASSUME NEW ops, NEW k \in DOMAIN calls, calls[k].op \in ops
               PROVE  \E j \in DOMAIN calls' : calls'[j].op \in ops
    BY DEF InFlight
  <2>1. Flying(calls[k].op, calls[k].arg, calls)
    BY DEF Flying
  <2>2. Flying(calls[k].op, calls[k].arg, calls')
    BY <1>3, <2>1
  <2> QED
    BY <2>2 DEF Flying
<1> QED
  BY <1>2, <1>3, <1>4

\* An answer takes one call out and leaves the others.
LEMMA ReplyTakes ==
  ASSUME AreCalls(calls), NEW i \in DOMAIN calls, NEW new, AreCalls(new), Reply(i, new)
  PROVE  /\ AreCalls(calls')
         /\ \A op, arg : Flying(op, arg, new) => Flying(op, arg, calls')
         /\ \A op, arg : Flying(op, arg, calls') => Flying(op, arg, calls) \/ Flying(op, arg, new)
         /\ \A ops : InFlight(ops) /\ calls[i].op \notin ops => InFlight(ops)'
<1> DEFINE rest == Without(calls, i)
<1>1. calls' = Sent(rest, new)
  BY DEF Reply
<1>2. /\ AreCalls(rest)
      /\ \A k \in DOMAIN calls : k # i => \E j \in DOMAIN rest : rest[j] = calls[k]
      /\ \A j \in DOMAIN rest : \E k \in DOMAIN calls : k # i /\ rest[j] = calls[k]
  BY Answered
<1> HIDE DEF rest
<1>3. AreCalls(calls')
  BY <1>1, <1>2, SentCalls
<1>4. \A op, arg : Flying(op, arg, calls') <=> Flying(op, arg, rest) \/ Flying(op, arg, new)
  BY <1>1, <1>2, SentFlies
<1>5. \A op, arg : Flying(op, arg, rest) => Flying(op, arg, calls)
  BY <1>2 DEF Flying
<1>6. \A ops : InFlight(ops) /\ calls[i].op \notin ops => InFlight(ops)'
  <2> SUFFICES ASSUME NEW ops, NEW k \in DOMAIN calls, calls[k].op \in ops,
                      calls[i].op \notin ops
               PROVE  \E j \in DOMAIN calls' : calls'[j].op \in ops
    BY DEF InFlight
  <2>1. Flying(calls[k].op, calls[k].arg, rest)
    BY <1>2 DEF Flying
  <2>2. Flying(calls[k].op, calls[k].arg, calls')
    BY <1>4, <2>1
  <2> QED
    BY <2>2 DEF Flying
<1> QED
  BY <1>3, <1>4, <1>5, <1>6

-----------------------------------------------------------------------------
(* The shapes in which pages send and are answered: one call, or none *)

LEMMA OneCall ==
  ASSUME NEW op, NEW arg
  PROVE  /\ AreCalls(<<Call(op, arg)>>)
         /\ \A o, a : Flying(o, a, <<Call(op, arg)>>) <=> o = op /\ a = arg
<1>1. IsCall(Call(op, arg)) /\ Call(op, arg).op = op /\ Call(op, arg).arg = arg
  BY MadeByCall
<1>2. <<Call(op, arg)>> \in Seq({Call(op, arg)})
  OBVIOUS
<1>3. AreCalls(<<Call(op, arg)>>)
  BY <1>1, <1>2 DEF AreCalls
<1> QED
  BY <1>1, <1>3 DEF Flying

LEMMA NoCall == AreCalls(<<>>) /\ \A o, a : ~Flying(o, a, <<>>)
<1>1. AreCalls(<<>>)
  <2>1. <<>> \in Seq({}) /\ \A c \in {} : IsCall(c)
    OBVIOUS
  <2> QED
    BY <2>1 DEF AreCalls
<1>2. DOMAIN <<>> = {}
  OBVIOUS
<1> QED
  BY <1>1, <1>2 DEF Flying

LEMMA FlyingIsInFlight ==
  \A ops, o, a : Flying(o, a, calls) /\ o \in ops => InFlight(ops)
  BY DEF Flying, InFlight

LEMMA SendOne ==
  ASSUME AreCalls(calls), NEW op, NEW arg, Send(<<Call(op, arg)>>)
  PROVE  /\ AreCalls(calls')
         /\ \A o, a : Flying(o, a, calls') <=> Flying(o, a, calls) \/ (o = op /\ a = arg)
         /\ \A ops : InFlight(ops) \/ op \in ops => InFlight(ops)'
<1>1. /\ AreCalls(calls')
      /\ \A o, a : Flying(o, a, calls') <=> Flying(o, a, calls)
                                            \/ Flying(o, a, <<Call(op, arg)>>)
      /\ \A ops : InFlight(ops) => InFlight(ops)'
  BY OneCall, SendAdds
<1>2. \A o, a : Flying(o, a, calls') <=> Flying(o, a, calls) \/ (o = op /\ a = arg)
  BY <1>1, OneCall
<1>3. \E k \in DOMAIN calls' : calls'[k].op = op
  BY <1>2 DEF Flying
<1>4. \A ops : op \in ops => InFlight(ops)'
  BY <1>3 DEF InFlight
<1> QED
  BY <1>1, <1>2, <1>4

LEMMA SendNone ==
  ASSUME AreCalls(calls), Send(<<>>)
  PROVE  /\ AreCalls(calls')
         /\ \A o, a : Flying(o, a, calls') <=> Flying(o, a, calls)
         /\ \A ops : InFlight(ops) => InFlight(ops)'
  BY NoCall, SendAdds

LEMMA ReplyOne ==
  ASSUME AreCalls(calls), NEW i \in DOMAIN calls, NEW op, NEW arg, Reply(i, <<Call(op, arg)>>)
  PROVE  /\ AreCalls(calls')
         /\ \A o, a : Flying(o, a, calls') => Flying(o, a, calls) \/ (o = op /\ a = arg)
         /\ \A ops : (InFlight(ops) /\ calls[i].op \notin ops) \/ op \in ops => InFlight(ops)'
<1>1. /\ AreCalls(calls')
      /\ \A o, a : Flying(o, a, <<Call(op, arg)>>) => Flying(o, a, calls')
      /\ \A o, a : Flying(o, a, calls') => Flying(o, a, calls)
                                           \/ Flying(o, a, <<Call(op, arg)>>)
      /\ \A ops : InFlight(ops) /\ calls[i].op \notin ops => InFlight(ops)'
  BY OneCall, ReplyTakes
<1>2. Flying(op, arg, calls')
  BY <1>1, OneCall
<1>3. \A ops : op \in ops => InFlight(ops)'
  BY <1>2 DEF Flying, InFlight
<1>4. \A o, a : Flying(o, a, calls') => Flying(o, a, calls) \/ (o = op /\ a = arg)
  BY <1>1, OneCall
<1> QED
  BY <1>1, <1>3, <1>4

LEMMA ReplyNone ==
  ASSUME AreCalls(calls), NEW i \in DOMAIN calls, Reply(i, <<>>)
  PROVE  /\ AreCalls(calls')
         /\ \A o, a : Flying(o, a, calls') => Flying(o, a, calls)
         /\ \A ops : InFlight(ops) /\ calls[i].op \notin ops => InFlight(ops)'
  BY NoCall, ReplyTakes

\* The calls of a page that is mounted are those of its setup.
LEMMA MountOne ==
  ASSUME NEW p, NEW refs, NEW servers, NEW op, NEW arg,
         Mount(p, refs, servers, <<Call(op, arg)>>)
  PROVE  /\ AreCalls(calls')
         /\ \A o, a : Flying(o, a, calls') <=> o = op /\ a = arg
         /\ \A ops : op \in ops => InFlight(ops)'
<1>1. calls' = Sent(<<>>, <<Call(op, arg)>>)
  BY DEF Mount
<1>2. AreCalls(calls')
  BY <1>1, OneCall, NoCall, SentCalls
<1>3. \A o, a : Flying(o, a, calls') <=> o = op /\ a = arg
  BY <1>1, OneCall, NoCall, SentFlies
<1>4. Flying(op, arg, calls')
  BY <1>3
<1>5. \A ops : op \in ops => InFlight(ops)'
  BY <1>4 DEF Flying, InFlight
<1> QED
  BY <1>2, <1>3, <1>5

\* A view that asks for two things at once.
LEMMA TwoCalls ==
  ASSUME NEW op1, NEW arg1, NEW op2, NEW arg2
  PROVE  /\ AreCalls(<<Call(op1, arg1), Call(op2, arg2)>>)
         /\ \A o, a : Flying(o, a, <<Call(op1, arg1), Call(op2, arg2)>>) <=>
                      (o = op1 /\ a = arg1) \/ (o = op2 /\ a = arg2)
<1> DEFINE c == Call(op1, arg1)
           d == Call(op2, arg2)
<1>1. IsCall(c) /\ c.op = op1 /\ c.arg = arg1 /\ IsCall(d) /\ d.op = op2 /\ d.arg = arg2
  BY MadeByCall
<1> HIDE DEF c, d
<1>2. <<c, d>> \in Seq({c, d}) /\ DOMAIN <<c, d>> = {1, 2} /\ <<c, d>>[1] = c /\ <<c, d>>[2] = d
  OBVIOUS
<1>3. AreCalls(<<c, d>>)
  BY <1>1, <1>2 DEF AreCalls
<1>4. \A o, a : Flying(o, a, <<c, d>>) <=> (o = op1 /\ a = arg1) \/ (o = op2 /\ a = arg2)
  BY <1>1, <1>2 DEF Flying
<1> QED
  BY <1>3, <1>4 DEF c, d

-----------------------------------------------------------------------------
(* What no later call of the same operation has overtaken *)

\* Some call for op asks for what was asked for last.
Latest(op, cs) == \E k \in DOMAIN cs : cs[k].op = op /\ cs[k].last

LEMMA SendLatest ==
  ASSUME AreCalls(calls), NEW op, NEW arg, Send(<<Call(op, arg)>>)
  PROVE  Latest(op, calls') /\ \A o : o # op /\ Latest(o, calls) => Latest(o, calls')
<1> DEFINE new == <<Call(op, arg)>>
<1>1. AreCalls(new) /\ DOMAIN new = {1} /\ new[1] = Call(op, arg)
  BY OneCall
<1>2. Call(op, arg).op = op /\ Call(op, arg).last = TRUE
  BY DEF Call
<1>3. calls' = Sent(calls, new)
  BY DEF Send
<1> HIDE DEF new
<1>4. PICK S : calls \in Seq(S)
  BY DEF AreCalls
<1>5. PICK T : calls' \in Seq(T)
  BY <1>1, <1>3, SentCalls DEF AreCalls
<1>6. PICK U : new \in Seq(U)
  BY <1>1 DEF AreCalls
<1>7. /\ Len(calls') = Len(calls) + Len(new)
      /\ \A k \in DOMAIN calls :
           /\ calls'[k].op = calls[k].op
           /\ calls'[k].last <=> calls[k].last /\ \A n \in DOMAIN new : ~Outdates(new[n], calls[k])
      /\ \A k \in DOMAIN new : calls'[Len(calls) + k] = new[k]
  BY <1>1, <1>3, SentCalls
<1>8. /\ Len(calls) \in Nat /\ DOMAIN calls = 1..Len(calls) /\ DOMAIN calls' = 1..Len(calls')
      /\ Len(new) \in Nat /\ DOMAIN new = 1..Len(new)
  BY <1>4, <1>5, <1>6
<1>9. Len(new) = 1
  BY <1>1, <1>8
<1>10. Len(calls) + 1 \in DOMAIN calls' /\ calls'[Len(calls) + 1] = Call(op, arg)
  BY <1>1, <1>7, <1>8, <1>9
<1>11. \A k \in DOMAIN calls : k \in DOMAIN calls'
  BY <1>7, <1>8, <1>9
<1>12. Latest(op, calls')
  BY <1>2, <1>10 DEF Latest
<1>13. ASSUME NEW o, o # op, NEW k \in DOMAIN calls, calls[k].op = o, calls[k].last
       PROVE  Latest(o, calls')
  <2>1. \A n \in DOMAIN new : ~Outdates(new[n], calls[k])
    BY <1>1, <1>2, <1>13 DEF Outdates
  <2> QED
    BY <1>7, <1>11, <1>13, <2>1 DEF Latest
<1> QED
  BY <1>12, <1>13 DEF Latest

LEMMA ReplyLatest ==
  ASSUME AreCalls(calls), NEW i \in DOMAIN calls, Reply(i, <<>>)
  PROVE  \A o : Latest(o, calls) /\ ~(calls[i].op = o /\ calls[i].last) => Latest(o, calls')
<1> SUFFICES ASSUME NEW o, NEW k \in DOMAIN calls, calls[k].op = o, calls[k].last,
                    ~(calls[i].op = o /\ calls[i].last)
             PROVE  Latest(o, calls')
  BY DEF Latest
<1> DEFINE rest == Without(calls, i)
<1>1. AreCalls(rest) /\ \E j \in DOMAIN rest : rest[j] = calls[k]
  BY Answered
<1>2. AreCalls(<<>>) /\ DOMAIN <<>> = {} /\ Len(<<>>) = 0
  BY NoCall
<1>3. calls' = Sent(rest, <<>>)
  BY DEF Reply
<1> HIDE DEF rest
<1>4. /\ AreCalls(calls') /\ Len(calls') = Len(rest) + 0
      /\ \A j \in DOMAIN rest : calls'[j].op = rest[j].op /\ (calls'[j].last <=> rest[j].last)
  BY <1>1, <1>2, <1>3, SentCalls
<1>5. \A cs : AreCalls(cs) => Len(cs) \in Nat /\ DOMAIN cs = 1..Len(cs)
  BY DEF AreCalls
<1>6. DOMAIN calls' = DOMAIN rest
  BY <1>1, <1>4, <1>5
<1> QED
  BY <1>1, <1>4, <1>6 DEF Latest

-----------------------------------------------------------------------------
(* How many calls ask, and for what *)

\* At most one call of ops is in flight.
Lone(ops, cs) == \A j, k \in DOMAIN cs : cs[j].op \in ops /\ cs[k].op \in ops => j = k

\* Whatever call of op no later one has overtaken asks for arg.
Asks(op, arg, cs) == \A k \in DOMAIN cs : cs[k].op = op /\ cs[k].last => cs[k].arg = arg

\* Each call is an older one, in its place, or one of the new ones.
LEMMA SentFrom ==
  ASSUME NEW cs, NEW new, AreCalls(cs), AreCalls(new)
  PROVE  \A k \in DOMAIN Sent(cs, new) :
           \/ /\ k \in DOMAIN cs
              /\ Sent(cs, new)[k].op = cs[k].op /\ Sent(cs, new)[k].arg = cs[k].arg
              /\ Sent(cs, new)[k].last =>
                   cs[k].last /\ \A n \in DOMAIN new : ~Outdates(new[n], cs[k])
           \/ /\ k \notin DOMAIN cs
              /\ \E n \in DOMAIN new : k = Len(cs) + n /\ Sent(cs, new)[k] = new[n]
<1> DEFINE all == Sent(cs, new)
<1>1. \A s : AreCalls(s) => Len(s) \in Nat /\ DOMAIN s = 1..Len(s)
  BY DEF AreCalls
<1>2. /\ AreCalls(all) /\ Len(all) = Len(cs) + Len(new)
      /\ \A k \in DOMAIN cs :
           /\ all[k].op = cs[k].op /\ all[k].arg = cs[k].arg
           /\ all[k].last <=> cs[k].last /\ \A n \in DOMAIN new : ~Outdates(new[n], cs[k])
      /\ \A k \in DOMAIN new : all[Len(cs) + k] = new[k]
  BY SentCalls
<1> HIDE DEF all
<1>3. \A k \in DOMAIN all : k \notin DOMAIN cs => \E n \in DOMAIN new : k = Len(cs) + n
  <2> SUFFICES ASSUME NEW k \in DOMAIN all, k \notin DOMAIN cs
               PROVE  \E n \in DOMAIN new : k = Len(cs) + n
    OBVIOUS
  <2>1. k - Len(cs) \in DOMAIN new /\ k = Len(cs) + (k - Len(cs))
    BY <1>1, <1>2
  <2> QED
    BY <2>1
<1> QED
  BY <1>2, <1>3 DEF all

LEMMA LoneSent ==
  ASSUME NEW cs, NEW new, AreCalls(cs), AreCalls(new), NEW ops
  PROVE  /\ Lone(ops, cs) /\ (\A n \in DOMAIN new : new[n].op \notin ops) =>
              Lone(ops, Sent(cs, new))
         /\ Lone(ops, new) /\ (\A k \in DOMAIN cs : cs[k].op \notin ops) =>
              Lone(ops, Sent(cs, new))
<1> DEFINE all == Sent(cs, new)
<1>1. \A k \in DOMAIN all :
        \/ k \in DOMAIN cs /\ all[k].op = cs[k].op
        \/ \E n \in DOMAIN new : k = Len(cs) + n /\ all[k] = new[n]
  BY SentFrom
<1> HIDE DEF all
<1> QED
  BY <1>1 DEF Lone, all

LEMMA LoneAnswered ==
  ASSUME NEW cs, AreCalls(cs), NEW i \in DOMAIN cs, NEW ops, Lone(ops, cs)
  PROVE  /\ Lone(ops, Without(cs, i))
         /\ cs[i].op \in ops => \A k \in DOMAIN Without(cs, i) : Without(cs, i)[k].op \notin ops
<1> DEFINE rest == Without(cs, i)
           old(j) == IF j < i THEN j ELSE j + 1
<1>1. Len(cs) \in Nat /\ DOMAIN cs = 1..Len(cs)
  BY DEF AreCalls
<1>2. i \in 1..Len(cs) /\ DOMAIN rest = 1..(Len(cs) - 1)
      /\ \A j \in DOMAIN rest : rest[j] = cs[old(j)] /\ old(j) \in DOMAIN cs /\ old(j) # i
  BY <1>1 DEF Without
<1> HIDE DEF rest
<1>3. \A j, k \in DOMAIN rest : old(j) = old(k) => j = k
  BY <1>2
<1> HIDE DEF old
<1> QED
  BY <1>2, <1>3 DEF Lone, rest

LEMMA LoneSend ==
  ASSUME AreCalls(calls), NEW op, NEW arg, Send(<<Call(op, arg)>>)
  PROVE  \A ops : (Lone(ops, calls) /\ op \notin ops) \/ ~InFlight(ops) => Lone(ops, calls')
<1> DEFINE new == <<Call(op, arg)>>
<1>1. AreCalls(new) /\ DOMAIN new = {1} /\ new[1] = Call(op, arg) /\ Call(op, arg).op = op
  BY OneCall DEF Call
<1>2. calls' = Sent(calls, new)
  BY DEF Send
<1> HIDE DEF new
<1>3. \A ops : Lone(ops, new)
  BY <1>1 DEF Lone
<1> QED
  BY <1>1, <1>2, <1>3, LoneSent DEF InFlight

LEMMA LoneReply ==
  ASSUME AreCalls(calls), NEW i \in DOMAIN calls, NEW op, NEW arg, Reply(i, <<Call(op, arg)>>)
  PROVE  \A ops : Lone(ops, calls) /\ (op \notin ops \/ calls[i].op \in ops) => Lone(ops, calls')
<1> DEFINE new == <<Call(op, arg)>>
           rest == Without(calls, i)
<1>1. AreCalls(new) /\ DOMAIN new = {1} /\ new[1] = Call(op, arg) /\ Call(op, arg).op = op
  BY OneCall DEF Call
<1>2. calls' = Sent(rest, new) /\ AreCalls(rest)
  BY Answered DEF Reply
<1>3. \A ops : Lone(ops, calls) =>
        /\ Lone(ops, rest)
        /\ calls[i].op \in ops => \A k \in DOMAIN rest : rest[k].op \notin ops
  BY LoneAnswered
<1> HIDE DEF new, rest
<1>4. \A ops : Lone(ops, new)
  BY <1>1 DEF Lone
<1> QED
  BY <1>1, <1>2, <1>3, <1>4, LoneSent

LEMMA LoneReplyNone ==
  ASSUME AreCalls(calls), NEW i \in DOMAIN calls, Reply(i, <<>>)
  PROVE  \A ops : Lone(ops, calls) =>
           Lone(ops, calls') /\ (calls[i].op \in ops => ~InFlight(ops)')
<1> DEFINE rest == Without(calls, i)
<1>1. AreCalls(<<>>) /\ DOMAIN <<>> = {}
  BY NoCall
<1>2. calls' = Sent(rest, <<>>) /\ AreCalls(rest)
  BY Answered DEF Reply
<1>3. \A ops : Lone(ops, calls) =>
        /\ Lone(ops, rest)
        /\ calls[i].op \in ops => \A k \in DOMAIN rest : rest[k].op \notin ops
  BY LoneAnswered
<1> HIDE DEF rest
<1>4. \A k \in DOMAIN calls' : k \in DOMAIN rest /\ calls'[k].op = rest[k].op
  BY <1>1, <1>2, SentFrom
<1>5. \A ops : Lone(ops, calls) => Lone(ops, calls')
  BY <1>1, <1>2, <1>3, LoneSent
<1> QED
  BY <1>3, <1>4, <1>5 DEF InFlight

LEMMA SendAsks ==
  ASSUME AreCalls(calls), NEW op, NEW arg, Send(<<Call(op, arg)>>)
  PROVE  /\ Asks(op, arg, calls')
         /\ \A o, a : o # op /\ Asks(o, a, calls) => Asks(o, a, calls')
<1> DEFINE new == <<Call(op, arg)>>
<1>1. AreCalls(new) /\ DOMAIN new = {1} /\ new[1].op = op /\ new[1].arg = arg
  BY OneCall DEF Call
<1>2. calls' = Sent(calls, new)
  BY DEF Send
<1> HIDE DEF new
<1>3. \A k \in DOMAIN calls' :
        \/ /\ k \in DOMAIN calls /\ calls'[k].op = calls[k].op /\ calls'[k].arg = calls[k].arg
           /\ calls'[k].last => calls[k].last /\ ~Outdates(new[1], calls[k])
        \/ calls'[k].op = op /\ calls'[k].arg = arg
  BY <1>1, <1>2, SentFrom
<1> QED
  BY <1>1, <1>3 DEF Asks, Outdates

LEMMA ReplyAsks ==
  ASSUME AreCalls(calls), NEW i \in DOMAIN calls, NEW op, NEW arg, Reply(i, <<Call(op, arg)>>)
  PROVE  /\ Asks(op, arg, calls')
         /\ \A o, a : o # op /\ Asks(o, a, calls) => Asks(o, a, calls')
<1> DEFINE new == <<Call(op, arg)>>
           rest == Without(calls, i)
<1>1. AreCalls(new) /\ DOMAIN new = {1} /\ new[1].op = op /\ new[1].arg = arg
  BY OneCall DEF Call
<1>2. calls' = Sent(rest, new) /\ AreCalls(rest)
      /\ \A k \in DOMAIN rest : \E j \in DOMAIN calls : rest[k] = calls[j]
  BY Answered DEF Reply
<1> HIDE DEF new, rest
<1>3. \A k \in DOMAIN calls' :
        \/ /\ k \in DOMAIN rest /\ calls'[k].op = rest[k].op /\ calls'[k].arg = rest[k].arg
           /\ calls'[k].last => rest[k].last /\ ~Outdates(new[1], rest[k])
        \/ calls'[k].op = op /\ calls'[k].arg = arg
  BY <1>1, <1>2, SentFrom
<1> QED
  BY <1>1, <1>2, <1>3 DEF Asks, Outdates

LEMMA ReplyAsksNone ==
  ASSUME AreCalls(calls), NEW i \in DOMAIN calls, Reply(i, <<>>)
  PROVE  \A o, a : Asks(o, a, calls) => Asks(o, a, calls')
<1> DEFINE rest == Without(calls, i)
<1>1. AreCalls(<<>>) /\ DOMAIN <<>> = {}
  BY NoCall
<1>2. calls' = Sent(rest, <<>>) /\ AreCalls(rest)
      /\ \A k \in DOMAIN rest : \E j \in DOMAIN calls : rest[k] = calls[j]
  BY Answered DEF Reply
<1> HIDE DEF rest
<1>3. \A k \in DOMAIN calls' :
        /\ k \in DOMAIN rest /\ calls'[k].op = rest[k].op /\ calls'[k].arg = rest[k].arg
        /\ calls'[k].last => rest[k].last
  BY <1>1, <1>2, SentFrom
<1> QED
  BY <1>2, <1>3 DEF Asks

\* A call that was not overtaken asks for what all of its kind do.
LEMMA AsksAlike ==
  \A op, arg : \A i \in DOMAIN calls :
    Asks(op, arg, calls) /\ calls[i].op = op /\ calls[i].last => calls[i].arg = arg
  BY DEF Asks

\* The call a view is mounted with is the only one.
LEMMA MountLone ==
  ASSUME NEW p, NEW refs, NEW servers, NEW op, NEW arg,
         Mount(p, refs, servers, <<Call(op, arg)>>)
  PROVE  /\ \A ops : Lone(ops, calls')
         /\ \A o, a : o # op \/ a = arg => Asks(o, a, calls')
<1> DEFINE new == <<Call(op, arg)>>
<1>1. /\ AreCalls(new) /\ DOMAIN new = {1}
      /\ new[1].op = op /\ new[1].arg = arg
  BY OneCall DEF Call
<1>2. AreCalls(<<>>) /\ DOMAIN <<>> = {}
  BY NoCall
<1>3. calls' = Sent(<<>>, new)
  BY DEF Mount
<1> HIDE DEF new
<1>4. \A ops : Lone(ops, new)
  BY <1>1 DEF Lone
<1>5. \A ops : Lone(ops, calls')
  BY <1>1, <1>2, <1>3, <1>4, LoneSent
<1>6. \A k \in DOMAIN calls' : calls'[k].op = op /\ calls'[k].arg = arg
  BY <1>1, <1>2, <1>3, SentFrom
<1> QED
  BY <1>5, <1>6 DEF Asks

\* An answer takes no other call away.
LEMMA ReplyKeeps ==
  ASSUME AreCalls(calls), NEW i \in DOMAIN calls, NEW new, AreCalls(new), Reply(i, new)
  PROVE  \A o, a : Flying(o, a, calls) /\ (calls[i].op # o \/ calls[i].arg # a) =>
                   Flying(o, a, calls')
<1> DEFINE rest == Without(calls, i)
<1>1. calls' = Sent(rest, new)
  BY DEF Reply
<1>2. /\ AreCalls(rest)
      /\ \A k \in DOMAIN calls : k # i => \E j \in DOMAIN rest : rest[j] = calls[k]
  BY Answered
<1> HIDE DEF rest
<1>3. \A o, a : Flying(o, a, rest) => Flying(o, a, calls')
  BY <1>1, <1>2, SentFlies
<1> QED
  BY <1>2, <1>3 DEF Flying

\* Whether something is a member of a set is a truth value, which a ref can hold.
LEMMA MemberOrNot == \A x, S : \E b \in BOOLEAN : b = (x \in S)
<1> SUFFICES ASSUME NEW x, NEW S PROVE \E b \in BOOLEAN : b = (x \in S)
  OBVIOUS
<1>1. (x \in S) \in BOOLEAN
  OBVIOUS
<1> QED
  BY <1>1

\* What is left of a sequence has its elements in the same set.
LEMMA WithoutIn ==
  ASSUME NEW S, NEW s \in Seq(S), NEW i \in DOMAIN s
  PROVE  Without(s, i) \in Seq(S)
<1>1. i \in 1..Len(s) /\ Len(s) \in Nat /\ Len(s) - 1 \in Nat
  OBVIOUS
<1>2. \A j \in 1..(Len(s) - 1) : (IF j < i THEN j ELSE j + 1) \in 1..Len(s)
  BY <1>1
<1>3. Without(s, i) \in [1..(Len(s) - 1) -> S]
  BY <1>1, <1>2 DEF Without
<1> QED
  BY <1>1, <1>3

\* A step of a page module keeps its view mounted.  One that is left has nothing
\* but continuations, and what those make is known to be late.
Stays == page' = page /\ (page = None => \A r \in world' : r \in world \/ r.late)

-----------------------------------------------------------------------------
(* The calls for op are the same after a step as before it. *)

LeftAlone(op) ==
  /\ \A a : Flying(op, a, calls') <=> Flying(op, a, calls)
  /\ \A a : Asks(op, a, calls) => Asks(op, a, calls')
  /\ Latest(op, calls) => Latest(op, calls')

\* What is sent leaves the calls for other operations alone.
LEMMA SentLeaves ==
  ASSUME NEW cs, NEW new, AreCalls(cs), AreCalls(new), NEW op,
         \A n \in DOMAIN new : new[n].op # op
  PROVE  /\ \A a : Flying(op, a, Sent(cs, new)) <=> Flying(op, a, cs)
         /\ \A a : Asks(op, a, cs) => Asks(op, a, Sent(cs, new))
         /\ Latest(op, cs) => Latest(op, Sent(cs, new))
<1>1. \A a : Flying(op, a, Sent(cs, new)) <=> Flying(op, a, cs)
  <2>1. \A a : ~Flying(op, a, new)
    BY DEF Flying
  <2> QED
    BY <2>1, SentFlies
<1>2. \A a : Asks(op, a, cs) => Asks(op, a, Sent(cs, new))
  <2>1. \A k \in DOMAIN Sent(cs, new) : Sent(cs, new)[k].op = op =>
          /\ k \in DOMAIN cs /\ cs[k].op = op /\ Sent(cs, new)[k].arg = cs[k].arg
          /\ Sent(cs, new)[k].last => cs[k].last
    BY SentFrom
  <2> QED
    BY <2>1 DEF Asks
<1>3. ASSUME NEW k \in DOMAIN cs, cs[k].op = op, cs[k].last
      PROVE  Latest(op, Sent(cs, new))
  <2> DEFINE all == Sent(cs, new)
  <2>1. /\ Len(all) = Len(cs) + Len(new) /\ AreCalls(all)
        /\ all[k].op = cs[k].op
        /\ all[k].last <=> cs[k].last /\ \A n \in DOMAIN new : ~Outdates(new[n], cs[k])
    BY SentCalls
  <2>2. \A n \in DOMAIN new : ~Outdates(new[n], cs[k])
    BY <1>3 DEF Outdates
  <2>3. \A s : AreCalls(s) => Len(s) \in Nat /\ DOMAIN s = 1..Len(s)
    BY DEF AreCalls
  <2> HIDE DEF all
  <2>4. k \in DOMAIN all
    BY <2>1, <2>3
  <2> QED
    BY <1>3, <2>1, <2>2, <2>4 DEF Latest, all
<1> QED
  BY <1>1, <1>2, <1>3 DEF Latest

LEMMA SendLeaves ==
  ASSUME AreCalls(calls), NEW op, NEW arg, Send(<<Call(op, arg)>>)
  PROVE  \A o : o # op => LeftAlone(o)
<1> DEFINE new == <<Call(op, arg)>>
<1>1. AreCalls(new) /\ DOMAIN new = {1} /\ new[1].op = op
  BY OneCall DEF Call
<1>2. calls' = Sent(calls, new)
  BY DEF Send
<1> HIDE DEF new
<1> QED
  BY <1>1, <1>2, SentLeaves DEF LeftAlone

\* An answer leaves the calls for other operations alone, but those it sends itself.
LEMMA ReplyLeaves ==
  ASSUME AreCalls(calls), NEW i \in DOMAIN calls, NEW new, AreCalls(new), Reply(i, new)
  PROVE  \A o : o # calls[i].op /\ (\A n \in DOMAIN new : new[n].op # o) => LeftAlone(o)
<1> DEFINE rest == Without(calls, i)
<1>1. calls' = Sent(rest, new)
  BY DEF Reply
<1>2. /\ AreCalls(rest)
      /\ \A k \in DOMAIN calls : k # i => \E j \in DOMAIN rest : rest[j] = calls[k]
      /\ \A j \in DOMAIN rest : \E k \in DOMAIN calls : k # i /\ rest[j] = calls[k]
  BY Answered
<1> HIDE DEF rest
<1>3. ASSUME NEW o, o # calls[i].op
      PROVE  /\ \A a : Flying(o, a, rest) <=> Flying(o, a, calls)
             /\ \A a : Asks(o, a, calls) => Asks(o, a, rest)
             /\ Latest(o, calls) => Latest(o, rest)
  BY <1>2, <1>3 DEF Flying, Asks, Latest
<1> QED
  BY <1>1, <1>2, <1>3, SentLeaves DEF LeftAlone

LEMMA ReplyOneLeaves ==
  ASSUME AreCalls(calls), NEW i \in DOMAIN calls, NEW op, NEW arg, Reply(i, <<Call(op, arg)>>)
  PROVE  \A o : o # calls[i].op /\ o # op => LeftAlone(o)
<1> DEFINE new == <<Call(op, arg)>>
<1>1. AreCalls(new) /\ DOMAIN new = {1} /\ new[1].op = op
  BY OneCall DEF Call
<1>2. Reply(i, new)
  OBVIOUS
<1> HIDE DEF new
<1> QED
  BY <1>1, <1>2, ReplyLeaves

LEMMA ReplyNoneLeaves ==
  ASSUME AreCalls(calls), NEW i \in DOMAIN calls, Reply(i, <<>>)
  PROVE  \A o : o # calls[i].op => LeftAlone(o)
<1>1. AreCalls(<<>>) /\ DOMAIN <<>> = {}
  BY NoCall
<1> QED
  BY <1>1, ReplyLeaves

LEMMA AllLeft ==
  UNCHANGED calls => \A o : LeftAlone(o)
  BY DEF LeftAlone, Flying, Asks, Latest

\* An operation is in flight when some call asks for it.
LEMMA FlightFlies ==
  /\ \A op : InFlight({op}) <=> \E a : Flying(op, a, calls)
  /\ \A op : InFlight({op})' <=> \E a : Flying(op, a, calls')
  BY DEF InFlight, Flying

\* A call answered with another of its kind, which comes last, or sent anew.
LEMMA ReplyOneLatest ==
  ASSUME AreCalls(calls), NEW i \in DOMAIN calls, NEW op, NEW arg, Reply(i, <<Call(op, arg)>>)
  PROVE  Latest(op, calls')
<1> DEFINE new == <<Call(op, arg)>>
           rest == Without(calls, i)
<1>1. AreCalls(new) /\ DOMAIN new = {1} /\ new[1].op = op /\ new[1].last = TRUE
  BY OneCall DEF Call
<1>2. calls' = Sent(rest, new) /\ AreCalls(rest)
  BY Answered DEF Reply
<1> HIDE DEF new, rest
<1>3. /\ Len(calls') = Len(rest) + Len(new) /\ AreCalls(calls')
      /\ calls'[Len(rest) + 1] = new[1]
  BY <1>1, <1>2, SentCalls
<1>4. \A s : AreCalls(s) => Len(s) \in Nat /\ DOMAIN s = 1..Len(s)
  BY DEF AreCalls
<1>5. Len(new) = 1
  BY <1>1, <1>4
<1>6. Len(rest) + 1 \in DOMAIN calls'
  BY <1>2, <1>3, <1>4, <1>5
<1> QED
  BY <1>1, <1>3, <1>6 DEF Latest

-----------------------------------------------------------------------------
(* The shape with two calls *)

\* One call out and two in, as when the namespaces are asked for along with the rows.
LEMMA ReplyTwo ==
  ASSUME AreCalls(calls), NEW i \in DOMAIN calls, NEW op1, NEW arg1, NEW op2, NEW arg2,
         op1 # op2, Reply(i, <<Call(op1, arg1), Call(op2, arg2)>>)
  PROVE  /\ AreCalls(calls')
         /\ \A o, a : Flying(o, a, calls') =>
              Flying(o, a, calls) \/ (o = op1 /\ a = arg1) \/ (o = op2 /\ a = arg2)
         /\ Flying(op1, arg1, calls') /\ Flying(op2, arg2, calls')
         /\ \A o : o # calls[i].op /\ o # op1 /\ o # op2 => LeftAlone(o)
         /\ Asks(op1, arg1, calls') /\ Asks(op2, arg2, calls')
<1> DEFINE new == <<Call(op1, arg1), Call(op2, arg2)>>
           rest == Without(calls, i)
<1>1. /\ AreCalls(new)
      /\ \A o, a : Flying(o, a, new) <=> (o = op1 /\ a = arg1) \/ (o = op2 /\ a = arg2)
  BY TwoCalls
<1>2. /\ DOMAIN new = {1, 2} /\ new[1].op = op1 /\ new[1].arg = arg1
      /\ new[2].op = op2 /\ new[2].arg = arg2
  BY DEF Call
<1>3. /\ calls' = Sent(rest, new) /\ AreCalls(rest)
      /\ \A k \in DOMAIN rest : \E j \in DOMAIN calls : rest[k] = calls[j]
  BY Answered DEF Reply
<1>4. Reply(i, new)
  OBVIOUS
<1> HIDE DEF new, rest
<1>5. /\ AreCalls(calls')
      /\ \A o, a : Flying(o, a, calls') => Flying(o, a, calls) \/ Flying(o, a, new)
      /\ \A o, a : Flying(o, a, new) => Flying(o, a, calls')
  BY <1>1, <1>4, ReplyTakes
<1>6. \A o : o # calls[i].op /\ o # op1 /\ o # op2 => LeftAlone(o)
  BY <1>1, <1>2, <1>4, ReplyLeaves
<1>7. \A k \in DOMAIN calls' :
        \/ calls'[k].last => ~Outdates(new[1], calls'[k]) /\ ~Outdates(new[2], calls'[k])
        \/ calls'[k] = new[1] \/ calls'[k] = new[2]
  <2>1. \A k \in DOMAIN calls' :
          \/ /\ k \in DOMAIN rest /\ calls'[k].op = rest[k].op /\ calls'[k].arg = rest[k].arg
             /\ calls'[k].last => ~Outdates(new[1], rest[k]) /\ ~Outdates(new[2], rest[k])
          \/ calls'[k] = new[1] \/ calls'[k] = new[2]
    BY <1>1, <1>2, <1>3, SentFrom
  <2> QED
    BY <2>1 DEF Outdates
<1>8. Asks(op1, arg1, calls') /\ Asks(op2, arg2, calls')
  BY <1>2, <1>7 DEF Asks, Outdates
<1> QED
  BY <1>1, <1>5, <1>6, <1>8

\* A view that is mounted with two calls.
LEMMA MountTwo ==
  ASSUME NEW p, NEW refs, NEW servers, NEW op1, NEW arg1, NEW op2, NEW arg2, op1 # op2,
         Mount(p, refs, servers, <<Call(op1, arg1), Call(op2, arg2)>>)
  PROVE  /\ AreCalls(calls')
         /\ \A o, a : Flying(o, a, calls') <=> (o = op1 /\ a = arg1) \/ (o = op2 /\ a = arg2)
         /\ Asks(op1, arg1, calls') /\ Asks(op2, arg2, calls')
<1> DEFINE new == <<Call(op1, arg1), Call(op2, arg2)>>
<1>1. /\ AreCalls(new)
      /\ \A o, a : Flying(o, a, new) <=> (o = op1 /\ a = arg1) \/ (o = op2 /\ a = arg2)
  BY TwoCalls
<1>2. AreCalls(<<>>) /\ \A o, a : ~Flying(o, a, <<>>)
  BY NoCall
<1>3. calls' = Sent(<<>>, new)
  BY DEF Mount
<1> HIDE DEF new
<1>4. AreCalls(calls')
  BY <1>1, <1>2, <1>3, SentCalls
<1>5. \A o, a : Flying(o, a, calls') <=> (o = op1 /\ a = arg1) \/ (o = op2 /\ a = arg2)
  BY <1>1, <1>2, <1>3, SentFlies
<1>6. Asks(op1, arg1, calls') /\ Asks(op2, arg2, calls')
  <2>1. ASSUME NEW o, NEW arg, \A a : Flying(o, a, calls') => a = arg
        PROVE  Asks(o, arg, calls')
    BY <2>1 DEF Flying, Asks
  <2> QED
    BY <1>5, <2>1
<1> QED
  BY <1>4, <1>5, <1>6

\* Of the numbers that have a property one is the least.
LEMMA LeastNumber ==
  ASSUME NEW T, T \subseteq Nat, T # {}
  PROVE  \E n \in T : \A m \in T : ~(m < n)
<1> DEFINE R == {ss \in Nat \X Nat : ss[1] < ss[2]}
<1>1. IsWellFoundedOn(R, Nat)
  BY NatLessThanWellFounded, Zenon DEF OpToRel
<1>2. \E n \in T : \A m \in T : ~(<<m, n>> \in R)
  <2> HIDE DEF R
  <2> QED
    BY <1>1, WFMin
<1> QED
  BY <1>2
(***************************************************************************)
(* A table of n rows whose column is merged cell by cell: where a run of   *)
(* equal keys begins the cell is as high as the run, elsewhere there is    *)
(* none.  Then every row lies under the cell of its own key, and under no  *)
(* other.                                                                  *)
(***************************************************************************)
RunEnd(key, n, i) ==
  LET other == {j \in i + 1 .. n : key[j] # key[i]}
  IN  IF other = {} THEN n + 1 ELSE CHOOSE j \in other : \A k \in other : j <= k

CellHeight(key, n, i) ==
  IF i > 1 /\ key[i - 1] = key[i] THEN 0 ELSE RunEnd(key, n, i) - i

OneCellEach(key, span, n) ==
  \A j \in 1 .. n :
     \E i \in 1 .. j :
        /\ i + span[i] > j /\ key[i] = key[j]
        /\ \A k \in 1 .. n \ {i} : k <= j => k + span[k] <= j

LEMMA SpansCover ==
  ASSUME NEW n \in Nat, NEW key, NEW span,
         \A i \in 1 .. n : span[i] = CellHeight(key, n, i)
  PROVE  OneCellEach(key, span, n)
<1> SUFFICES \A j \in 1 .. n :
                \E i \in 1 .. j :
                   /\ i + span[i] > j /\ key[i] = key[j]
                   /\ \A k \in 1 .. n \ {i} : k <= j => k + span[k] <= j
  BY DEF OneCellEach
<1> DEFINE Other(i) == {j \in i + 1 .. n : key[j] # key[i]}
           End(i) == RunEnd(key, n, i)
<1>1. \A i \in 1 .. n : span[i] = IF i > 1 /\ key[i - 1] = key[i] THEN 0 ELSE End(i) - i
  BY DEF CellHeight
<1>2. ASSUME NEW i \in 1 .. n
      PROVE  /\ End(i) \in i + 1 .. n + 1
             /\ \A j \in i .. n : j < End(i) => key[j] = key[i]
             /\ End(i) <= n => key[End(i)] # key[i]
  <2>1. CASE Other(i) = {}
    <3>1. End(i) = n + 1
      BY <2>1 DEF RunEnd
    <3>2. \A j \in i + 1 .. n : key[j] = key[i]
      BY <2>1
    <3> QED
      BY <3>1, <3>2
  <2>2. CASE Other(i) # {}
    <3>1. Other(i) \subseteq Nat
      OBVIOUS
    <3>2. PICK e \in Other(i) : \A m \in Other(i) : ~(m < e)
      <4> HIDE DEF Other
      <4> QED
        BY <2>2, <3>1, LeastNumber
    <3>3. \A m \in Other(i) : e <= m
      BY <3>1, <3>2
    <3>4. End(i) = CHOOSE j \in Other(i) : \A k \in Other(i) : j <= k
      BY <2>2 DEF RunEnd
    <3>5. End(i) \in Other(i) /\ \A k \in Other(i) : End(i) <= k
      <4> HIDE DEF Other, End
      <4> QED
        BY <3>2, <3>3, <3>4
    <3> HIDE DEF End
    <3>6. End(i) \in i + 1 .. n /\ key[End(i)] # key[i]
      BY <3>5
    <3>7. ASSUME NEW j \in i .. n, j < End(i) PROVE key[j] = key[i]
      <4>1. ASSUME j # i, key[j] # key[i] PROVE FALSE
        <5>1. j \in Other(i)
          BY <4>1
        <5> QED
          BY <3>5, <3>6, <3>7, <5>1
      <4> QED
        BY <4>1
    <3> QED
      BY <3>6, <3>7
  <2> QED
    BY <2>1, <2>2
<1> HIDE DEF Other, End
<1> TAKE j \in 1 .. n
<1> DEFINE Run == {m \in 1 .. j : \A k \in m .. j : key[k] = key[j]}
<1>3. j \in Run /\ Run \subseteq Nat
  OBVIOUS
<1>4. PICK i \in Run : \A m \in Run : ~(m < i)
  <2> HIDE DEF Run
  <2> QED
    BY <1>3, LeastNumber
<1>5. i \in 1 .. j /\ i \in 1 .. n /\ \A k \in i .. j : key[k] = key[j]
  BY <1>4
<1>6. i > 1 => key[i - 1] # key[i]
  <2> SUFFICES ASSUME i > 1, key[i - 1] = key[i] PROVE FALSE
    OBVIOUS
  <2>1. i - 1 \in 1 .. j /\ i - 1 < i
    BY <1>5
  <2>2. \A k \in i - 1 .. j : key[k] = key[j]
    BY <1>5
  <2> QED
    BY <1>4, <2>1, <2>2
<1> HIDE DEF Run
<1>7. span[i] = End(i) - i /\ End(i) \in i + 1 .. n + 1 /\ End(i) > j
  <2>1. span[i] = End(i) - i
    BY <1>1, <1>5, <1>6
  <2>2. ~(End(i) <= j)
    BY <1>2, <1>5
  <2> QED
    BY <1>2, <1>5, <2>1, <2>2
<1>8. ASSUME NEW k \in 1 .. n, k # i, k <= j PROVE k + span[k] <= j
  <2>1. CASE k > i
    <3>1. key[k - 1] = key[k] /\ k > 1
      BY <1>5, <1>8, <2>1
    <3> QED
      BY <1>1, <1>8, <3>1
  <2>2. CASE k < i
    <3>1. CASE k > 1 /\ key[k - 1] = key[k]
      BY <1>1, <1>8, <3>1
    <3>2. CASE ~(k > 1 /\ key[k - 1] = key[k])
      <4>1. span[k] = End(k) - k /\ End(k) \in k + 1 .. n + 1
        BY <1>1, <1>2, <3>2
      <4>2. ASSUME End(k) > i PROVE FALSE
        <5>1. key[i] = key[k] /\ key[i - 1] = key[k]
          BY <1>2, <1>5, <2>2, <4>1, <4>2
        <5> QED
          BY <1>5, <1>6, <2>2, <5>1
      <4> QED
        BY <1>5, <4>1, <4>2
    <3> QED
      BY <3>1, <3>2
  <2> QED
    BY <1>5, <1>8, <2>1, <2>2
<1>9. i + span[i] > j /\ key[i] = key[j]
  BY <1>5, <1>7
<1> QED
  BY <1>5, <1>8, <1>9
=============================================================================
