--------------------------- MODULE UltimateModel ---------------------------
(***************************************************************************)
(* The ultimate model: repeated conversations are counted in a circular    *)
(* cache of hashes, and on the milestones of a schedule the request is     *)
(* answered by one strong model, without a race.  The requests of Procs    *)
(* share the cache; each writes its own response, together with its        *)
(* heartbeat goroutine.                                                    *)
(***************************************************************************)
EXTENDS Naturals, Sequences, FiniteSets

CONSTANTS
    Procs,
    Hashes,         \* conversations, as their message hashes
    Size,           \* slots of the hash cache
    Milestones,     \* attempts answered by the ultimate model
    MaxAttempts,    \* attempts after which the conversation is refused
    Creds,          \* credentials of the ultimate model
    Answers,        \* what a provider may do: "ok", "limited", "error"
    Responses,      \* how a client wants its answer: as a stream, from the buffer
    Removable,      \* the model may be missing from the configuration
    ToolCalls,      \* tool calls of an answer, by their ids
    MaxEvents,      \* bound: events of a stream
    MaxBeats,       \* bound: heartbeats of a response
    Budget          \* bound: requests

Free == "free"

\* There is a slot, no hash looks like an empty one, and only a stream is buffered.
UltimateAssumption ==
    /\ Size \in Nat \ {0} /\ Free \notin Hashes
    /\ \A r \in Responses : r.stream \/ ~r.buffered

VARIABLES
    cache,          \* slots, head, count and the attempt counters
    call,           \* request -> its progress
    spent,
    tries,          \* history: conversation -> its attempts since it was last forgotten
    removed         \* history: whether Remove has taken a hash out of the slots

counts == <<tries, removed>>
vars == <<cache, call, spent, counts>>

Idle == [pc |-> "idle"]
NoBuilder == [args |-> <<>>, sent |-> FALSE]
Empty == [slots |-> [i \in 0..Size - 1 |-> Free], head |-> 0, count |-> 0, seen |-> <<>>]

Init ==
    /\ cache = Empty /\ call = [p \in Procs |-> Idle] /\ spent = 0
    /\ tries = [h \in Hashes |-> 0] /\ removed = FALSE

-----------------------------------------------------------------------------
(* HashCache.                                                              *)

Contains(c, h) == \E i \in 0..c.count - 1 : c.slots[i] = h
Without(f, h) == [k \in DOMAIN f \ {h} |-> f[k]]
Counted(f, h, n) == [k \in DOMAIN f \cup {h} |-> IF k = h THEN n ELSE f[k]]

\* insertLocked: a full cache loses the hash under head, with its counter.
Insert(c, h) ==
    LET evicted == c.count >= Size /\ c.slots[c.head] # Free
        kept == IF evicted THEN Without(c.seen, c.slots[c.head]) ELSE c.seen
    IN  [slots |-> [c.slots EXCEPT ![c.head] = h], head |-> (c.head + 1) % Size,
         count |-> IF c.count < Size THEN c.count + 1 ELSE c.count, seen |-> Counted(kept, h, 1)]

RecordAttempt(c, h) ==
    IF ~Contains(c, h) THEN Insert(c, h)
    ELSE LET n == IF h \in DOMAIN c.seen THEN c.seen[h] ELSE 0
         IN  [c EXCEPT !.seen = Counted(@, h, n + 1)]

StoreIfAbsent(c, h) == IF Contains(c, h) THEN c ELSE Insert(c, h)

\* Remove: the slots close up over the first one that holds h; head moves back
\* only when that was the first slot.
Remove(c, h) ==
    IF ~Contains(c, h) THEN [c EXCEPT !.seen = Without(@, h)]
    ELSE LET i == CHOOSE j \in 0..c.count - 1 : c.slots[j] = h /\ \A k \in 0..j - 1 : c.slots[k] # h
         IN  [slots |-> [j \in 0..Size - 1 |->
                            IF j = c.count - 1 THEN Free
                            ELSE IF j \in i..c.count - 1 THEN c.slots[j + 1] ELSE c.slots[j]],
              head |-> IF i = 0 THEN (c.head + Size - 1) % Size ELSE c.head,
              count |-> c.count - 1, seen |-> Without(c.seen, h)]

-----------------------------------------------------------------------------
(* ShouldTrigger and ForceTrigger.                                         *)

\* A milestone, or the header, sends the request to Execute; any other attempt is
\* raced as usual, or refused when there were too many.
Trigger(p) ==
    /\ call[p].pc = "idle" /\ spent < Budget /\ spent' = spent + 1
    /\ \E h \in Hashes, force \in BOOLEAN, r \in Responses :
        LET c == IF force THEN StoreIfAbsent(cache, h) ELSE RecordAttempt(cache, h)
        IN  /\ cache' = c
            /\ call' = [call EXCEPT ![p] =
                   IF force \/ (c.seen[h] \in Milestones /\ c.seen[h] <= MaxAttempts)
                   THEN [pc |-> "execute", hash |-> h, stream |-> r.stream, buffered |-> r.buffered, cred |-> Free,
                         tries |-> 0, ids |-> <<>>, ended |-> {}, cut |-> FALSE,
                         held |-> [i \in 1..Cardinality(ToolCalls) |-> NoBuilder],
                         buf |-> <<>>, kept |-> <<>>, wire |-> <<>>]
                   ELSE Idle]
            /\ tries' = [tries EXCEPT ![h] = @ + 1]
    /\ UNCHANGED removed

\* OnConfigChange: another ultimate model.
Reset ==
    /\ cache' = Empty /\ removed' = FALSE
    /\ UNCHANGED <<call, spent, tries>>

-----------------------------------------------------------------------------
(* Execute.                                                                *)

Fail(p) == call' = [call EXCEPT ![p].pc = "failed"]
Ask(p, k, n) == call' = [call EXCEPT ![p].pc = "call", ![p].cred = k, ![p].tries = n]

\* The schedule of h starts over.
Forget(h) ==
    /\ cache' = Remove(cache, h)
    /\ tries' = [tries EXCEPT ![h] = 0]
    /\ removed' = (removed \/ Contains(cache, h))

\* Without a usable model the hash is forgotten and the request fails.
ModelMissing(p) ==
    /\ Removable /\ call[p].pc = "execute"
    /\ Forget(call[p].hash)
    /\ Fail(p)
    /\ UNCHANGED spent

\* ResolveInternalConfigWithAffinity, the first step of the failover wrapper.
Resolve(p) ==
    /\ call[p].pc = "execute"
    /\ \/ \E k \in Creds : Ask(p, k, 1)
       \/ Fail(p)
    /\ UNCHANGED <<cache, spent, counts>>

\* ExcludeAndReselect, once, for a rate limit: another credential or the failure.
\* The credential may have been deleted since.
Failover(p) ==
    \/ /\ call[p].tries = 1 /\ \E k \in Creds \ {call[p].cred} : Ask(p, k, 2)
    \/ Fail(p)

\* A rate limit before the first byte may move to another credential.
Refused(p) ==
    /\ call[p].pc = "call"
    /\ \/ "limited" \in Answers /\ Failover(p)
       \/ "error" \in Answers /\ Fail(p)
    /\ UNCHANGED <<cache, spent, counts>>

Event(p, kind) == [kind |-> kind, n |-> Len(call[p].kept) + 1]

\* handleInternalNonStream: one body, written and captured.
NonStream(p) ==
    /\ call[p].pc = "call" /\ ~call[p].stream /\ "ok" \in Answers
    /\ Forget(call[p].hash)
    /\ call' = [call EXCEPT ![p].pc = "served", ![p].kept = <<Event(p, "content")>>,
                            ![p].wire = Append(@, Event(p, "content"))]
    /\ UNCHANGED spent

\* handleInternalStream once the provider has opened the stream.
OpenStream(p) ==
    /\ call[p].pc = "call" /\ call[p].stream /\ "ok" \in Answers
    /\ call' = [call EXCEPT ![p].pc = "stream"]
    /\ UNCHANGED <<cache, spent, counts>>

\* Frames are written at once unless the stream is buffered; the last ones take what
\* was buffered along.
Emitted(c, frames) == IF c.buffered THEN c.wire ELSE c.wire \o frames
Flushed(c, frames) == IF c.buffered THEN c.wire \o c.buf \o frames ELSE c.wire \o frames

\* An event, and the frames it releases: the captured copy grows with the event.
Relay(p, event, frames) ==
    call' = [call EXCEPT ![p].kept = Append(@, event), ![p].buf = @ \o frames,
                         ![p].wire = Emitted(call[p], frames)]

\* emitToolCall: arguments that are no valid JSON are repaired where possible.
Repaired(q) == {q, [i \in DOMAIN q |-> [q[i] EXCEPT !.kind = "fixed"]]}

\* isCompleteLocked: all the fragments of one tool call, and no other.
Complete(q) ==
    /\ q # <<>> /\ q[Len(q)].last
    /\ \A i \in DOMAIN q : q[i].of = q[1].of /\ q[i].k = i

\* ProcessChunk of the ToolCallBuffer: a builder and a fragment give the next builder
\* and the frames to send.  At the limit what is held goes first.
Hold(b, piece) ==
    LET Next(h, out) ==
            IF Complete(h.args) /\ ~h.sent
            THEN [builder |-> [h EXCEPT !.sent = TRUE], out |-> out \o h.args]
            ELSE [builder |-> h, out |-> out]
    IN  {Next([b EXCEPT !.args = Append(@, piece)], <<>>)}
        \cup {Next([NoBuilder EXCEPT !.args = <<piece>>], out) :
                 out \in IF b.sent THEN {<<>>} ELSE Repaired(b.args)}

Place(q, x) == CHOOSE i \in DOMAIN q : q[i] = x

\* The next fragment of tool call t, filed under the index at.
Piece(c, t, at, last) ==
    [kind |-> "args", n |-> Len(c.kept) + 1, at |-> at, of |-> t, last |-> last,
     k |-> Len(SelectSeq(c.kept, LAMBDA f : f.kind = "args" /\ f.of = t)) + 1]

\* The capture takes the fragment as it is, the wire the frames the buffer lets go.
Take(p, piece, ids, held, cut, frames) ==
    call' = [call EXCEPT ![p] = [call[p] EXCEPT
        !.kept = Append(@, piece), !.ids = ids, !.held = held, !.cut = @ \/ cut,
        !.ended = IF piece.last THEN @ \cup {piece.of} ELSE @,
        !.buf = @ \o frames, !.wire = Emitted(call[p], frames)]]

\* A fragment of tool call t.  The index of one without an id is its place in the
\* event, the first.  Too many calls: only the capture has it.  With no buffer it
\* is sent as it is.
ToolFragment(p, t, id, last) ==
    LET c == call[p]
        met == t \in {c.ids[i] : i \in DOMAIN c.ids}
        ids == IF met THEN c.ids ELSE Append(c.ids, t)
        at == IF id THEN Place(ids, t) ELSE 1
        piece == Piece(c, t, at, last)
    IN  /\ id \/ met
        /\ t \notin c.ended
        /\ \/ \E b \in Hold(c.held[at], piece) : Take(p, piece, ids, [c.held EXCEPT ![at] = b.builder], FALSE, b.out)
           \/ Take(p, piece, ids, c.held, TRUE, <<>>)
           \/ (\A i \in DOMAIN c.held : c.held[i] = NoBuilder) /\ Take(p, piece, ids, c.held, FALSE, <<piece>>)

StreamEvent(p) ==
    /\ call[p].pc = "stream" /\ Len(call[p].kept) < MaxEvents
    /\ \/ \E kind \in {"content", "thinking"} : Relay(p, Event(p, kind), <<Event(p, kind)>>)
       \/ \E t \in ToolCalls, id, last \in BOOLEAN : ToolFragment(p, t, id, last)
    /\ UNCHANGED <<cache, spent, counts>>

\* Flush: what the builders still hold, by index, repaired where possible.
Rest(c) ==
    LET Of(i) == IF i \notin DOMAIN c.held \/ c.held[i].sent THEN {<<>>} ELSE Repaired(c.held[i].args)
    IN  {q \o r : q \in Of(1), r \in Of(2)}

\* The done event: the calls still held, the finish frame, the buffered bytes in one
\* write, and the conversation starts over.
StreamDone(p) ==
    /\ call[p].pc = "stream"
    /\ Forget(call[p].hash)
    /\ \E rest \in Rest(call[p]) :
         call' = [call EXCEPT ![p].pc = "served", ![p].buf = @ \o rest,
                              ![p].wire = Flushed(call[p], Append(rest, Event(p, "done")))]
    /\ UNCHANGED spent

\* Variant for StreamError: the error keeps its type, so that a rate limit in the
\* middle of the stream is taken for one before it.
StreamErrorTyped(p) ==
    /\ call[p].pc = "stream" /\ Failover(p)
    /\ UNCHANGED <<cache, spent, counts>>

\* An error event ends the stream with an error frame after what was buffered; the
\* error is a plain one, which no credential is tried for.
StreamError(p) ==
    /\ call[p].pc = "stream"
    /\ call' = [call EXCEPT ![p].pc = "failed", ![p].wire = Flushed(call[p], <<Event(p, "error")>>)]
    /\ UNCHANGED <<cache, spent, counts>>

\* The channel closes without a done event: what was buffered is lost.
StreamCut(p) ==
    /\ call[p].pc = "stream"
    /\ Fail(p)
    /\ UNCHANGED <<cache, spent, counts>>

\* The heartbeat goroutine of a stream writes a comment between two frames.
Heartbeat(p) ==
    /\ call[p].pc \in {"call", "stream"} /\ call[p].stream
    /\ Len(SelectSeq(call[p].wire, LAMBDA f : f.kind = "beat")) < MaxBeats
    /\ call' = [call EXCEPT ![p].wire = Append(@, [kind |-> "beat"])]
    /\ UNCHANGED <<cache, spent, counts>>

\* The handler reports the failure of Execute in a frame of its own, or ends.
End(p) ==
    /\ call[p].pc \in {"served", "failed"}
    /\ call' = [call EXCEPT ![p] = Idle]
    /\ UNCHANGED <<cache, spent, counts>>

\* MaxGenerationTime, or the client, ends the call.
Cancelled(p) ==
    /\ call[p].pc \in {"call", "stream"}
    /\ Fail(p)
    /\ UNCHANGED <<cache, spent, counts>>

Execute(p) ==
    \/ ModelMissing(p) \/ Resolve(p) \/ Refused(p) \/ NonStream(p) \/ OpenStream(p)
    \/ StreamEvent(p) \/ StreamDone(p) \/ StreamError(p) \/ StreamCut(p) \/ Cancelled(p) \/ End(p)

Next == Reset \/ \E p \in Procs : Trigger(p) \/ Execute(p) \/ Heartbeat(p)

Spec == Init /\ [][Next]_vars

-----------------------------------------------------------------------------
\* The shape of the cache and of the calls.
TypeOK ==
    /\ cache.slots \in [0..Size - 1 -> Hashes \cup {Free}]
    /\ cache.head \in 0..Size - 1 /\ cache.count \in 0..Size
    /\ DOMAIN cache.seen \subseteq Hashes
    /\ \A p \in Procs : call[p].pc \in {"idle", "execute", "call", "stream", "served", "failed"}

\* Until a hash is taken out of the slots, every conversation with a counter is found
\* by the next RecordAttempt, and every one found has a counter, through any number
\* of evictions: a retry is counted, and no counter outlives its slot.
CountedIsFound ==
    ~removed =>
        /\ \A h \in Hashes : h \in DOMAIN cache.seen <=> Contains(cache, h)
        /\ \A i, j \in 0..cache.count - 1 : i # j => cache.slots[i] # cache.slots[j]

\* No conversation is sent to the ultimate model, or refused, before it has come as
\* often as the schedule says since it was last answered, although Remove moves the
\* slots under the head, so that a conversation may be in two slots or in none.
NeverEarly == \A h \in DOMAIN cache.seen : cache.seen[h] <= tries[h]

\* The text and the thinking in the request log are those the client got, live or
\* buffered, whatever heartbeats were written in between.  The fragments of tool
\* calls it got are captured ones, in their order and once, as received or repaired;
\* all of them if the answer has one tool call and the buffer had room for it.
CaptureMatchesWire ==
    \A p \in Procs : call[p].pc = "served" =>
        LET c == call[p]
            Text(q) == SelectSeq(q, LAMBDA f : f.kind \in {"content", "thinking"})
            Tool(q) == SelectSeq(q, LAMBDA f : f.kind \in {"args", "fixed"})
            At(q, i) == SelectSeq(Tool(q), LAMBDA f : f.at = i)
        IN  /\ Text(c.wire) = Text(c.kept)
            /\ \A i \in 1..Cardinality(ToolCalls) :
                 LET w == At(c.wire, i) IN \A a, b \in DOMAIN w : a < b => w[a].n < w[b].n
            /\ \A a \in DOMAIN Tool(c.wire) : \E k \in DOMAIN c.kept :
                 c.kept[k].kind = "args" /\ c.kept[k].n = Tool(c.wire)[a].n
            /\ Len(c.ids) <= 1 /\ ~c.cut => Len(Tool(c.wire)) = Len(Tool(c.kept))

\* A second credential is asked only when nothing of the answer has been written.
FailoverBeforeAnswer ==
    \A p \in Procs : call[p].pc = "call" => \A i \in DOMAIN call[p].wire : call[p].wire[i].kind = "beat"
=============================================================================
