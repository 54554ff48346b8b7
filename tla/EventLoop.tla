------------------------------ MODULE EventLoop ------------------------------
(***************************************************************************)
(* What the framework promises its users about the event loop, without     *)
(* saying how (Core/doc/latex/paper.tex, Core/interface/ConsumerBase.h,    *)
(* Core/interface/PipelineRunner.h): events are taken one at a time, each  *)
(* once and in ascending order; every pipeline of level one gets the       *)
(* event, in the order of the configuration, before another one is taken.  *)
(* When the loop is over each of them is finished exactly once; only then  *)
(* the pipelines of higher levels run, each at most once and level by      *)
(* level.  The program may die at any time: then nothing more happens.     *)
(***************************************************************************)
EXTENDS Integers, Sequences

CONSTANTS Pipe,       \* the pipelines, numbered in their order
          Level,      \* the level of each
          NoEvent     \* stands for no event; the events are numbers

LevelOne == {p \in Pipe : Level[p] = 1}

VARIABLES phase,       \* "events", "results", "later" or "over"
          current,     \* the event being worked on, or NoEvent
          pending,     \* the pipelines that still have to get it
          delivered,   \* the events each pipeline got, with the verdict on them
          finished,    \* how often each pipeline was finished
          ran          \* how often each pipeline was run without an event

vars == <<phase, current, pending, delivered, finished, ran>>

Init ==
  /\ phase = "events"
  /\ current = NoEvent
  /\ pending = {}
  /\ delivered = [p \in Pipe |-> <<>>]
  /\ finished = [p \in Pipe |-> 0]
  /\ ran = [p \in Pipe |-> 0]

Take ==
  /\ phase = "events" /\ current = NoEvent
  /\ current' \in Nat
  /\ \A p \in Pipe : \A i \in DOMAIN delivered[p] : delivered[p][i].entry < current'
  /\ pending' = LevelOne
  /\ UNCHANGED <<phase, delivered, finished, ran>>

Deliver(p) ==
  /\ current # NoEvent
  /\ p \in pending /\ \A q \in pending : p <= q
  /\ \E passed \in BOOLEAN :
        delivered' = [delivered EXCEPT ![p] = Append(@, [entry |-> current, passed |-> passed])]
  /\ pending' = pending \ {p}
  /\ UNCHANGED <<phase, current, finished, ran>>

Release ==
  /\ current # NoEvent /\ pending = {}
  /\ current' = NoEvent
  /\ UNCHANGED <<phase, pending, delivered, finished, ran>>

Stop ==
  /\ phase = "events" /\ current = NoEvent
  /\ phase' = "results"
  /\ UNCHANGED <<current, pending, delivered, finished, ran>>

Finish(p) ==
  /\ phase = "results"
  /\ p \in LevelOne /\ finished[p] = 0
  /\ finished' = [finished EXCEPT ![p] = 1]
  /\ UNCHANGED <<phase, current, pending, delivered, ran>>

Proceed ==
  /\ phase = "results"
  /\ \A p \in LevelOne : finished[p] = 1
  /\ phase' = "later"
  /\ UNCHANGED <<current, pending, delivered, finished, ran>>

RunLater(p) ==
  /\ phase = "later"
  /\ Level[p] > 1 /\ ran[p] = 0 /\ finished[p] = 0
  /\ \A q \in Pipe : 1 < Level[q] /\ Level[q] < Level[p] => ran[q] = 1
  /\ ran' = [ran EXCEPT ![p] = 1]
  /\ finished' = [finished EXCEPT ![p] = 1]
  /\ UNCHANGED <<phase, current, pending, delivered>>

End ==
  /\ phase = "later"
  /\ phase' = "over"
  /\ UNCHANGED <<current, pending, delivered, finished, ran>>

Next ==
  \/ Take \/ Release \/ Stop \/ Proceed \/ End
  \/ \E p \in Pipe : Deliver(p) \/ Finish(p) \/ RunLater(p)

Spec == Init /\ [][Next]_vars
=============================================================================
