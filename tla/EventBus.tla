------------------------------ MODULE EventBus ------------------------------
(***************************************************************************)
(* The event bus (pkg/events/bus.go) and the UI's event stream, which      *)
(* reads it: recent events are kept and replayed to a new subscriber, and  *)
(* an event a subscriber's channel has no room for is dropped.  Events are *)
(* numbered in the order of Publish.                                       *)
(***************************************************************************)
EXTENDS Naturals, Sequences, SequencesExt, FiniteSets

CONSTANTS
    Streams,        \* requests to GET /fe/api/events
    Cap,            \* capacity of history and of a channel
    MaxSubscribers,
    MaxEvents

\* NewBus makes channels and a history with room, for finitely many requests.
BusAssumption ==
    /\ Cap \in Nat \ {0} /\ MaxSubscribers \in Nat /\ MaxEvents \in Nat
    /\ IsFiniteSet(Streams)

VARIABLES
    count,      \* events published
    history,
    chan,       \* the channel of each stream
    stage,      \* "new", "open", or "closed"
    seen,       \* the events each stream has written
    joined,     \* history: the count when a stream subscribed
    lost        \* history: the events a subscriber's channel had no room for

vars == <<count, history, chan, stage, seen, joined, lost>>

Init ==
    /\ count = 0 /\ history = <<>> /\ joined = [s \in Streams |-> 0] /\ lost = [s \in Streams |-> {}]
    /\ chan = [s \in Streams |-> <<>>] /\ seen = [s \in Streams |-> <<>>]
    /\ stage = [s \in Streams |-> "new"]

Subscribers == {s \in Streams : stage[s] = "open"}

\* Subscribe: the channel gets the history, then joins the subscribers.
Subscribe(s) ==
    /\ stage[s] = "new" /\ Cardinality(Subscribers) < MaxSubscribers
    /\ chan' = [chan EXCEPT ![s] = history]
    /\ joined' = [joined EXCEPT ![s] = count]
    /\ stage' = [stage EXCEPT ![s] = "open"]
    /\ UNCHANGED <<count, history, seen, lost>>

\* The limit is reached: 503.
Refuse(s) ==
    /\ stage[s] = "new" /\ Cardinality(Subscribers) >= MaxSubscribers
    /\ stage' = [stage EXCEPT ![s] = "closed"]
    /\ UNCHANGED <<count, history, chan, seen, joined, lost>>

\* Variant for Recorded: the newest event makes room.
RecordedNewest(e) == Append(IF Len(history) >= Cap THEN Front(history) ELSE history, e)

\* The history keeps the last events.
Recorded(e) == Append(IF Len(history) >= Cap THEN Tail(history) ELSE history, e)

\* Publish: a channel without room misses the event.
Publish ==
    /\ count < MaxEvents
    /\ count' = count + 1 /\ history' = Recorded(count + 1)
    /\ chan' = [s \in Streams |->
                  IF s \in Subscribers /\ Len(chan[s]) < Cap THEN Append(chan[s], count + 1) ELSE chan[s]]
    /\ lost' = [s \in Streams |->
                  IF s \in Subscribers /\ Len(chan[s]) >= Cap THEN lost[s] \cup {count + 1} ELSE lost[s]]
    /\ UNCHANGED <<stage, seen, joined>>

\* handleEvents writes the next event.
Write(s) ==
    /\ stage[s] = "open" /\ chan[s] # <<>>
    /\ seen' = [seen EXCEPT ![s] = Append(@, Head(chan[s]))]
    /\ chan' = [chan EXCEPT ![s] = Tail(@)]
    /\ UNCHANGED <<count, history, stage, joined, lost>>

\* A write fails or the client goes: Unsubscribe.
Leave(s) ==
    /\ stage[s] = "open"
    /\ stage' = [stage EXCEPT ![s] = "closed"] /\ chan' = [chan EXCEPT ![s] = <<>>]
    /\ UNCHANGED <<count, history, seen, joined, lost>>

Next ==
    \/ Publish
    \/ \E s \in Streams : Subscribe(s) \/ Refuse(s) \/ Write(s) \/ Leave(s)

Spec == Init /\ [][Next]_vars

-----------------------------------------------------------------------------
View(s) == seen[s] \o chan[s]

\* The shape of the bus.
TypeOK ==
    /\ Len(history) <= Cap /\ Cardinality(Subscribers) <= MaxSubscribers
    /\ \A s \in Streams : Len(chan[s]) <= Cap

\* A stream has, in order and once each, the last events published before it
\* subscribed, as many as the history holds, and every event since, except
\* those for which its channel had no room.
ViewIsRecent ==
    \A s \in Subscribers :
        /\ \A i, j \in DOMAIN View(s) : i < j => View(s)[i] < View(s)[j]
        /\ ToSet(View(s)) = {e \in 1..count : e + Cap > joined[s]} \ lost[s]
=============================================================================
