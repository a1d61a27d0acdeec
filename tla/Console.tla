------------------------------ MODULE Console ------------------------------
(***************************************************************************)
(* The browser side of the platform, as every page module sees it.  One    *)
(* JavaScript thread runs the handlers of the mounted view; a handler runs *)
(* without interruption up to its next await, so an action of a page is    *)
(* the code between two awaits.  The axios calls in flight are kept in the *)
(* order they were issued, and any of them may be answered next, with or   *)
(* without success (the 30 s timeout of the instance is a failure).        *)
(***************************************************************************)
EXTENDS Naturals, Sequences, FiniteSets, Functions

CONSTANTS MaxCalls,   \* calls in flight when the user acts (a bound)
          MaxClicks,  \* user actions per visit of a page (a bound)
          None

VARIABLES page,    \* the mounted view
          view,    \* its refs: created when it is mounted, gone when it is left
          calls,   \* the calls in flight, oldest first
          world,   \* what the servers behind the mounted view hold
          clicks   \* user actions since the view was mounted

console == <<page, view, calls, world, clicks>>

(***************************************************************************)
(* "last" is history: FALSE once a later call of the same operation asked  *)
(* for something else.  The code keeps no such mark, and applies every     *)
(* answer it gets.                                                         *)
(***************************************************************************)
Call(op, arg) == [op |-> op, arg |-> arg, last |-> TRUE]

Outdates(c, d) == c.op = d.op /\ c.arg # d.arg

Sent(cs, new) ==
    [i \in DOMAIN cs |->
        [cs[i] EXCEPT !.last = @ /\ \A n \in DOMAIN new : ~Outdates(new[n], cs[i])]]
        \o new

Send(new) ==
    /\ Len(calls) + Len(new) <= MaxCalls
    /\ calls' = Sent(calls, new)

\* What is left of a sequence without its element i.
Without(s, i) == [k \in 1 .. Len(s) - 1 |-> s[IF k < i THEN k ELSE k + 1]]

\* The continuation after call i was answered issues the calls of "new".
Reply(i, new) == calls' = Sent(Without(calls, i), new)

InFlight(ops) == \E i \in DOMAIN calls : calls[i].op \in ops

Indices(op) == {i \in DOMAIN calls : calls[i].op = op}

\* A user action, an answer and a timer: what each leaves alone.
User ==
    /\ clicks < MaxClicks
    /\ clicks' = clicks + 1
    /\ UNCHANGED <<page, world>>

Answer == UNCHANGED <<page, world, clicks>>

\* What nobody holds a reference to any more; "late" when it was made after its
\* view had gone, or beside the one its view held.
Residue(kind, late) == [kind |-> kind, late |-> late]

(***************************************************************************)
(* vue-router unmounts the view that is left: its refs go, the hook of the *)
(* view releases what it holds ("residue" is what stays alive), and of the *)
(* continuations in flight only those of "kept", with an effect outside    *)
(* the refs, still matter.  The next view is mounted from the blank page.  *)
(***************************************************************************)
LeaveWith(residue, kept) ==
    /\ page' = None /\ view' = None /\ world' = residue
    /\ calls' = SelectSeq(calls, LAMBDA c : c.op \in kept)
    /\ clicks' = 0

Mount(p, refs, servers, new) ==
    /\ page = None
    /\ page' = p /\ view' = refs /\ world' = servers
    /\ calls' = Sent(<<>>, new)
    /\ clicks' = 0

\* The overlay of a table goes up and its rows are asked for.
Load(op, refs, arg) ==
    /\ view' = [refs EXCEPT !.loading = TRUE]
    /\ Send(<<Call(op, arg)>>)

\* "calm" is history too: no load of the view failed or answered after a later
\* one had asked for something else.
Calmly(i, ok) == view.calm /\ ok /\ calls[i].last

\* createApp(App).mount: nothing is shown before the first route resolves.
Init ==
    /\ page = None /\ view = None /\ world = {}
    /\ calls = <<>> /\ clicks = 0

-----------------------------------------------------------------------------
(***************************************************************************)
(* A view that is left leaves no timer, socket or stream behind, except    *)
(* those of a continuation that was overtaken: by the departure itself, or *)
(* by a second one of its kind.                                            *)
(***************************************************************************)
LeavesNothing == page = None => \A r \in world : r.late
==============================================================================
