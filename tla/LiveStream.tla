----------------------------- MODULE LiveStream -----------------------------
(***************************************************************************)
(* One streamed answer of a provider on its way to the client: the         *)
(* goroutine of OpenAIProvider.StreamChatCompletion reads the upstream and *)
(* feeds a channel; InternalHandler.handleStream takes its events, holds   *)
(* tool calls in a ToolCallBuffer until their arguments are valid JSON,    *)
(* and writes either OpenAI chunks (plain) or, for the Anthropic endpoint, *)
(* the events of an IncrementalStreamTranslator (live).                    *)
(*                                                                         *)
(* A tool call c is sent upstream as pieces 1..Pieces of its arguments, the*)
(* last of which completes the JSON.  Its id and name come in a fragment of*)
(* their own, piece 0, or together with the first piece.                   *)
(***************************************************************************)
EXTENDS Integers, Sequences, FiniteSets

CONSTANTS
    Setups,     \* [live, buffered, calls, joint, size]: how a stream is run, its
                \* calls, whether the id comes with a piece, the size of a piece
    Pieces,     \* pieces of arguments per call
    MaxSize,    \* bytes the tool call buffer holds
    MaxToolCalls,   \* MaxToolCallsPerStream; the indices are below it
    ChanCap,    \* the capacity of the event channel (100 in the code)
    MaxLines    \* bound: lines of one upstream answer

VARIABLES
    setup,
    up,         \* [sent: call -> fragments sent, finish, lines], of the producer
    chan,       \* eventCh
    producer,   \* "run", or "closed"
    consumer,   \* "run", "done", "error", or "gone": a write failed
    builders,   \* index -> [id, args, emitted], of the calls met: ToolCallBuffer.builders
    total,      \* ToolCallBuffer.totalSize
    tr,         \* the IncrementalStreamTranslator
    wire,       \* what the client has been sent
    taken,      \* history: call -> the pieces handleStream has taken
    lost        \* history: the calls whose id or piece a limit of the buffer dropped

vars == <<setup, up, chan, producer, consumer, builders, total, tr, wire, taken, lost>>

AllCalls == UNION {s.calls : s \in Setups}
Blank == [id |-> FALSE, args |-> <<>>, emitted |-> FALSE]
NoBlock == -1
NewTranslator == [started |-> FALSE, text |-> NoBlock, thinking |-> NoBlock,
                  tool |-> NoBlock, next |-> 0, pre |-> <<>>]

Init ==
    /\ setup \in Setups
    /\ up = [sent |-> [c \in AllCalls |-> IF setup.joint THEN 1 ELSE 0], finish |-> FALSE, lines |-> 0]
    /\ chan = <<>> /\ producer = "run" /\ consumer = "run"
    /\ builders = <<>> /\ total = 0
    /\ tr = NewTranslator
    /\ wire = <<>>
    /\ taken = [c \in AllCalls |-> <<>>] /\ lost = {}

-----------------------------------------------------------------------------
(* processStream: every line becomes one event; a send waits for room.     *)

Send(event) ==
    /\ producer = "run" /\ Len(chan) < ChanCap
    /\ chan' = Append(chan, event)
    /\ UNCHANGED <<setup, consumer, builders, total, tr, wire, taken, lost>>

Line == up.lines < MaxLines

ReadDelta(type) ==
    /\ Line /\ up' = [up EXCEPT !.lines = @ + 1]
    /\ Send([type |-> type]) /\ UNCHANGED producer

ReadToolCall(c) ==
    /\ Line /\ up.sent[c] <= Pieces
    /\ up' = [up EXCEPT !.lines = @ + 1, !.sent[c] = @ + 1]
    /\ Send([type |-> "tool_call", call |-> c, piece |-> up.sent[c],
             id |-> up.sent[c] = (IF setup.joint THEN 1 ELSE 0)])
    /\ UNCHANGED producer

\* A chunk with a finish reason is remembered and yields no event.
ReadFinish ==
    /\ producer = "run" /\ Line /\ ~up.finish
    /\ up' = [up EXCEPT !.lines = @ + 1, !.finish = TRUE]
    /\ UNCHANGED <<setup, chan, producer, consumer, builders, total, tr, wire, taken, lost>>

\* An unparseable chunk is reported and the stream goes on.
ReadBad ==
    /\ Line /\ up' = [up EXCEPT !.lines = @ + 1]
    /\ Send([type |-> "error"]) /\ UNCHANGED producer

\* [DONE], or the end of the body after a finish reason: sendDoneEvent.
ReadDone ==
    /\ Send([type |-> "done"])
    /\ producer' = "closed" /\ UNCHANGED up

\* The body ends too early, or reading it fails.
ReadEnd ==
    /\ Send([type |-> "error"])
    /\ producer' = "closed" /\ UNCHANGED up

-----------------------------------------------------------------------------
(* ToolCallBuffer.                                                         *)

Complete(args) == args = [i \in 1..Pieces |-> i]

Emission(c, b) == [call |-> c, id |-> b.id, args |-> b.args]
Args(e) == IF e.piece = 0 THEN <<>> ELSE <<e.piece>>

\* An index out of bounds; or as many calls as a stream may have, be it one of them.
Refused(e) == e.call >= MaxToolCalls \/ Cardinality(DOMAIN builders) >= MaxToolCalls

\* The builder of a fragment's call, with its id, and whether the fragment is too much.
Builder(e) ==
    LET b == IF e.call \in DOMAIN builders THEN builders[e.call] ELSE Blank
    IN  [b EXCEPT !.id = @ \/ e.id]
Size(e) == IF e.piece = 0 THEN 0 ELSE setup.size
Over(e) == total + Size(e) > MaxSize

\* Variant for Buffered: at the limit the held arguments are dropped.
BufferedDrops(e) ==
    LET added == [(IF Over(e) THEN Blank ELSE Builder(e)) EXCEPT !.args = @ \o Args(e)]
        whole == Complete(added.args) /\ ~added.emitted
    IN [builder |-> [added EXCEPT !.emitted = @ \/ whole],
        out |-> IF whole THEN <<Emission(e.call, added)>> ELSE <<>>]

\* processToolCallChunk: over the limit what is held is sent as it is and a blank
\* builder, without id, takes its place; complete arguments are sent once.  An
\* emission stands for its pieces, as received or repaired.
Buffered(e) ==
    LET b == Builder(e)
        early == IF Over(e) /\ ~b.emitted /\ b.args # <<>> THEN <<Emission(e.call, b)>> ELSE <<>>
        added == [(IF Over(e) THEN Blank ELSE b) EXCEPT !.args = @ \o Args(e)]
        whole == Complete(added.args) /\ ~added.emitted
    IN [builder |-> [added EXCEPT !.emitted = @ \/ whole],
        out |-> early \o (IF whole THEN <<Emission(e.call, added)>> ELSE <<>>)]

\* Flush: every builder that has not been sent, by index.
Held == {c \in DOMAIN builders : ~builders[c].emitted}
Flush ==
    LET order == CHOOSE q \in [1..Cardinality(Held) -> Held] :
                     \A i, j \in DOMAIN q : i < j => q[i] < q[j]
    IN [i \in DOMAIN order |-> Emission(order[i], builders[order[i]])]

-----------------------------------------------------------------------------
(* IncrementalStreamTranslator: an operator maps a pair of the translator  *)
(* and the events it has emitted so far to the next such pair.             *)

Ev(ev, block, kind) == [ev |-> ev, block |-> block, kind |-> kind]

emitPreamble(s) ==
    IF s.t.started THEN s
    ELSE [t |-> [s.t EXCEPT !.started = TRUE],
          out |-> s.out \o <<Ev("message_start", NoBlock, "message"), Ev("ping", NoBlock, "message")>>]

\* emitTextDelta and emitThinkingDelta.
emitDelta(s, kind) ==
    LET opened == IF s.t[kind] # NoBlock THEN s
                  ELSE [t |-> [s.t EXCEPT ![kind] = s.t.next, !.next = @ + 1],
                        out |-> Append(s.out, Ev("start", s.t.next, kind))]
    IN [opened EXCEPT !.out = Append(@, Ev("delta", opened.t[kind], kind))]

ToolStart(block, e) == [ev |-> "start", block |-> block, kind |-> "tool", call |-> e.call]
ToolDelta(block, c, args) == [ev |-> "delta", block |-> block, kind |-> "tool", call |-> c, args |-> args]

\* emitToolDelta at index 0: convertProvidersToolCallsToMapList numbers the
\* calls of one chunk, and a chunk has one call.  Arguments that come before an
\* id wait in pre for the block of whichever call opens one.
emitToolDelta(s, e) ==
    LET opened == IF s.t.tool # NoBlock THEN s
                  ELSE [t |-> [s.t EXCEPT !.tool = s.t.next, !.next = @ + 1],
                        out |-> Append(s.out, ToolStart(s.t.next, e))]
        Put(t, q) == [i \in DOMAIN q |-> ToolDelta(t.tool, q[i].call, q[i].args)]
        given == IF e.args = <<>> THEN <<>> ELSE <<e>>
    IN IF e.id THEN [t |-> [opened.t EXCEPT !.pre = <<>>],
                     out |-> opened.out \o Put(opened.t, opened.t.pre \o given)]
       ELSE IF s.t.tool # NoBlock THEN [s EXCEPT !.out = @ \o Put(s.t, given)]
       ELSE [s EXCEPT !.t.pre = @ \o given]

\* ProcessEvent for a chunk of the buffer.
RECURSIVE Translated(_, _)
Translated(s, chunks) ==
    IF chunks = <<>> THEN s
    ELSE Translated(emitToolDelta(emitPreamble(s), Head(chunks)), Tail(chunks))

\* Variant for Finalize: a tool block is left open.
FinalizeOpenTool(s0) ==
    LET s == emitPreamble(s0)
        stop(kind) == IF s.t[kind] = NoBlock THEN <<>> ELSE <<Ev("stop", s.t[kind], kind)>>
    IN s.out \o stop("text") \o stop("thinking")
             \o <<Ev("message_delta", NoBlock, "message"), Ev("message_stop", NoBlock, "message")>>

Finalize(s0) ==
    LET s == emitPreamble(s0)
        stop(kind) == IF s.t[kind] = NoBlock THEN <<>> ELSE <<Ev("stop", s.t[kind], kind)>>
    IN s.out \o stop("text") \o stop("thinking") \o stop("tool")
             \o <<Ev("message_delta", NoBlock, "message"), Ev("message_stop", NoBlock, "message")>>

-----------------------------------------------------------------------------
(* handleStream.                                                           *)

Take(type) ==
    /\ consumer = "run" /\ chan # <<>> /\ Head(chan).type = type
    /\ chan' = Tail(chan)
    /\ UNCHANGED <<setup, up, producer>>

\* In live mode the first write that fails ends the stream.
Write(events, end) ==
    \/ wire' = wire \o events /\ consumer' = end
    \/ /\ setup.live /\ events # <<>>
       /\ \E n \in 0..Len(events) - 1 : wire' = wire \o SubSeq(events, 1, n)
       /\ consumer' = "gone"

Now == [t |-> tr, out |-> <<>>]

\* "content", and "thinking", which a plain stream only records.
TakeDelta(kind) ==
    /\ Take(kind)
    /\ IF setup.live
       THEN LET s == emitDelta(emitPreamble(Now), kind) IN tr' = s.t /\ Write(s.out, "run")
       ELSE /\ Write(IF kind = "text" THEN <<Ev("delta", NoBlock, "text")>> ELSE <<>>, "run")
            /\ UNCHANGED tr
    /\ UNCHANGED <<builders, total, taken, lost>>

Chunks(emissions) == [i \in DOMAIN emissions |-> ToolDelta(NoBlock, emissions[i].call, emissions[i].args)]

\* What the tool call buffer keeps of a fragment, and the id it may lose with a
\* builder that it replaces before anything was sent of it.
Keep(e) ==
    IF Refused(e) THEN lost' = lost \cup {e.call} /\ UNCHANGED <<builders, total>>
    ELSE /\ builders' = [c \in DOMAIN builders \cup {e.call} |->
                            IF c = e.call THEN Buffered(e).builder ELSE builders[c]]
         /\ total' = total + Size(e)
         /\ LET b == Builder(e)
            IN  lost' = IF Over(e) /\ b.id /\ b.args = <<>> THEN lost \cup {e.call} ELSE lost

TakeToolCall ==
    /\ Take("tool_call")
    /\ LET e == Head(chan)
           out == IF ~setup.buffered THEN <<[call |-> e.call, id |-> e.id, args |-> Args(e)]>>
                  ELSE IF Refused(e) THEN <<>> ELSE Buffered(e).out IN
       /\ taken' = [taken EXCEPT ![e.call] = @ \o Args(e)]
       /\ IF setup.buffered THEN Keep(e) ELSE UNCHANGED <<builders, total, lost>>
       /\ IF setup.live
          THEN LET s == Translated(Now, out) IN tr' = s.t /\ Write(s.out, "run")
          ELSE Write(Chunks(out), "run") /\ UNCHANGED tr

\* The end of a stream: the held calls first, then the closing events.
Closing ==
    IF setup.live THEN Finalize(Translated(Now, Flush)) ELSE Chunks(Flush)

TakeDone ==
    /\ Take("done")
    /\ Write(Closing \o (IF setup.live THEN <<>> ELSE <<Ev("finish", NoBlock, "message"), Ev("[DONE]", NoBlock, "message")>>), "done")
    /\ builders' = [c \in DOMAIN builders |-> [builders[c] EXCEPT !.emitted = TRUE]]
    /\ UNCHANGED <<total, tr, taken, lost>>

\* Errors of these writes are ignored; a plain stream does not flush.
TakeError ==
    /\ Take("error")
    /\ wire' = wire \o (IF setup.live THEN Closing ELSE <<>>) \o <<Ev("error", NoBlock, "message")>>
    /\ consumer' = "error"
    /\ UNCHANGED <<builders, total, tr, taken, lost>>

-----------------------------------------------------------------------------
Produce ==
    \/ \E type \in {"text", "thinking"} : ReadDelta(type)
    \/ \E c \in setup.calls : ReadToolCall(c)
    \/ ReadFinish \/ ReadBad \/ ReadDone \/ ReadEnd

Consume ==
    \/ \E kind \in {"text", "thinking"} : TakeDelta(kind)
    \/ TakeToolCall \/ TakeDone \/ TakeError

Next == Produce \/ Consume

Spec == Init /\ [][Next]_vars

-----------------------------------------------------------------------------
Before(k, ev) == {j \in 1..k - 1 : wire[j].ev = ev}

\* What an Anthropic client receives is at every moment a prefix of a
\* well-formed message: it begins with message_start, blocks are numbered in
\* the order they start, a delta lies between the start and the stop of a
\* block of its kind, every block is stopped before message_stop, and only an
\* error may follow that.
WireGrammar ==
    setup.live =>
      \A k \in DOMAIN wire :
        LET e == wire[k] IN
        /\ (k = 1) <=> e.ev = "message_start"
        /\ e.ev = "start" => e.block = Cardinality(Before(k, "start"))
        /\ e.ev \in {"delta", "stop"} =>
             /\ \E j \in Before(k, "start") : wire[j].block = e.block /\ wire[j].kind = e.kind
             /\ \A j \in Before(k, "stop") : wire[j].block # e.block
        /\ e.ev = "message_stop" =>
             \A j \in Before(k, "start") : \E l \in Before(k, "stop") : wire[l].block = wire[j].block
        /\ Before(k, "message_stop") # {} => e.ev = "error" /\ k = Len(wire)

Tools(c) == SelectSeq(wire, LAMBDA e : e.ev = "delta" /\ e.kind = "tool" /\ e.call = c)
RECURSIVE Joined(_)
Joined(q) == IF q = <<>> THEN <<>> ELSE Head(q).args \o Joined(Tail(q))

\* The pieces of a call reach the client in order and once, whether the call was
\* completed, cut short, larger than the buffer, or mixed with other calls; and once
\* a stream has ended with [DONE] - or, live, with an error - they all have, unless a
\* limit of the buffer dropped one of them, or the id they belong to.
HeldCallsLand ==
    \A c \in setup.calls :
        /\ Joined(Tools(c)) = SubSeq(taken[c], 1, Len(Joined(Tools(c))))
        /\ (consumer = "done" \/ (consumer = "error" /\ setup.live)) /\ c \notin lost
             => Joined(Tools(c)) = taken[c]

\* Arguments of a call are only written into the block that was opened for
\* that call, so that a client can tell parallel calls apart.
OwnBlock ==
    \A k \in DOMAIN wire :
        setup.live /\ wire[k].ev = "delta" /\ wire[k].kind = "tool" =>
            \E j \in Before(k, "start") : /\ wire[j].block = wire[k].block /\ wire[j].kind = "tool"
                                          /\ wire[j].call = wire[k].call
=============================================================================
