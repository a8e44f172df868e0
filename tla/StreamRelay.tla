---------------------------- MODULE StreamRelay ----------------------------
(***************************************************************************)
(* One winning upstream attempt and the relay that forwards its buffer to  *)
(* the client: pkg/proxy/stream_buffer.go, the attempt's life in           *)
(* race_request.go, the provider loop of race_executor.go                  *)
(* (handleInternalStream / handleInternalNonStream), and streamResult /    *)
(* handleNonStreamResult of handler.go.                                    *)
(*                                                                         *)
(* Two goroutines share the buffer.  The producer runs one attempt and     *)
(* calls Add for every SSE line, then MarkCompleted or MarkFailed.  The    *)
(* relay is the HTTP handler: it drains what is stored, then waits on      *)
(* baseCtx, the heartbeat's clientGoneCh, NotifyCh, Done and a 10 ms       *)
(* ticker.  Steps are split where another goroutine can observe the state  *)
(* in between; Add is three steps, Close is three, a relay branch is two   *)
(* (fetch and write, then the prune decision).                             *)
(*                                                                         *)
(* A chunk is named by the ordinal of the Add call that carried it.        *)
(***************************************************************************)
EXTENDS Integers, Sequences, FiniteSets

CONSTANTS
    MaxBytes,         \* streamBuffer.maxBytes
    Sizes,            \* byte sizes (newline included) a line may have
    MaxOffered,       \* bound: body and flush lines the provider produces
    IdleTimeout,      \* conf.IdleTerminationTimeout, in clock units
    Modes             \* <<mode, idle termination>> pairs a request may have

ASSUME MaxBytesAssumption == MaxBytes \in Nat \ {0}
ASSUME SizesAssumption == Sizes \subseteq Nat \ {0}
ASSUME BoundsAssumption == MaxOffered \in Nat /\ IdleTimeout \in Nat
ASSUME ModeAssumption ==
    Modes \subseteq {"live", "buffered", "nonstream"} \X BOOLEAN

VARIABLES
    \* streamBuffer
    chunks,      \* stored chunks, Nil where Prune released one
    totalLen,    \* bytes reserved by Add, rejected lines included
    completed,   \* the CAS flag of Close
    bufErr,      \* sb.err
    notify,      \* notifyCh holds a token
    doneCh,      \* done is closed
    \* upstreamRequest
    status, cancelled, ctxDone, released,
    rmu,         \* holder of r.mu while Close runs under MarkX
    age,         \* time since lastActivityTime
    \* producer goroutine
    ppc, phase, size, ret, offered,
    \* relay goroutine
    rpc, readIndex, result,
    \* client side and request context, fixed when the request arrives
    baseDone, clientGone,
    mode,             \* rc.isStream and rc.bufferMode
    idleTermination,  \* conf.IdleTerminationEnabled with a positive timeout
    \* observation: what was stored, what the client got, what finishing read
    appended, delivered, captured, storedBytes, dataAge

bufVars  == <<chunks, totalLen, completed, bufErr, notify, doneCh>>
reqVars  == <<status, cancelled, ctxDone, released, rmu, age>>
prodVars == <<ppc, phase, size, ret, offered>>
relVars  == <<rpc, readIndex, result>>
cliVars  == <<baseDone, clientGone, mode, idleTermination>>
obsVars  == <<appended, delivered, captured, storedBytes, dataAge>>
vars == <<bufVars, reqVars, prodVars, relVars, cliVars, obsVars>>

IsStream == mode # "nonstream"    \* SSE relay, or a single JSON body
BufferMode == mode = "buffered"   \* deliver after completion, or live

Nil == 0                     \* a pruned slot
Chunk == Nat \ {0}
Errors == {"none", "overflow", "upstream", "canceled"}
IsDone == status \in {"completed", "failed"}

Init ==
    /\ chunks = <<>> /\ totalLen = 0 /\ completed = FALSE /\ bufErr = "none"
    /\ notify = FALSE /\ doneCh = FALSE
    /\ status = "running" /\ cancelled = FALSE /\ ctxDone = FALSE
    /\ released = FALSE /\ rmu = "free" /\ age = 0
    /\ ppc = "start" /\ phase = "body" /\ size = 0 /\ ret = "none" /\ offered = 0
    /\ rpc = "wait" /\ readIndex = 0 /\ result = "none"
    /\ baseDone = FALSE /\ clientGone = FALSE
    /\ \E m \in Modes : mode = m[1] /\ idleTermination = m[2]
    /\ appended = <<>> /\ delivered = <<>> /\ captured = {}
    /\ storedBytes = 0 /\ dataAge = 0

-----------------------------------------------------------------------------
(* The producer: execute() around the provider loop.                       *)

\* The attempt returns err to execute().
Return(err) == ppc' = "mark" /\ ret' = err

\* provider.StreamChatCompletion / ChatCompletion answered with an error.
OpenFails ==
    /\ ppc = "start"
    /\ Return(IF ctxDone THEN "canceled" ELSE "upstream")
    /\ UNCHANGED <<bufVars, reqVars, phase, size, offered, relVars, cliVars, obsVars>>

\* The event channel is open: MarkStreaming, the only write of
\* lastActivityTime in the program.
MarkStreaming ==
    /\ IsStream /\ ppc = "start" /\ rmu = "free"
    /\ status' = "streaming" /\ age' = 0 /\ dataAge' = 0
    /\ ppc' = "recv"
    /\ UNCHANGED <<bufVars, cancelled, ctxDone, released, rmu, phase, size, ret,
                   offered, relVars, cliVars, appended, delivered, captured,
                   storedBytes>>

\* A non-streaming response arrives whole and is added as one chunk.
NonStreamAnswer ==
    /\ ~IsStream /\ ppc = "start" /\ offered < MaxOffered
    /\ ppc' = "add" /\ phase' = "body"
    /\ UNCHANGED <<bufVars, reqVars, size, ret, offered, relVars, cliVars, obsVars>>

\* The checks at the top of the event loop: ctx.Done, then IsCancelled.
Stopped == ctxDone \/ cancelled

\* A content, thinking or tool_call event carries a line.
RecvLine ==
    /\ ppc = "recv" /\ ~Stopped /\ offered < MaxOffered
    /\ ppc' = "add" /\ phase' = "body"
    /\ UNCHANGED <<bufVars, reqVars, size, ret, offered, relVars, cliVars, obsVars>>

\* The done event: flush the tool-call buffer, then final chunk and marker.
RecvDone ==
    /\ ppc = "recv" /\ ~Stopped
    /\ ppc' = "flush"
    /\ UNCHANGED <<bufVars, reqVars, phase, size, ret, offered, relVars, cliVars, obsVars>>

\* An error event, or the channel closed without a done event; or the loop
\* saw the cancellation.
RecvEnds ==
    /\ ppc = "recv"
    /\ Return(IF Stopped THEN "canceled" ELSE "upstream")
    /\ UNCHANGED <<bufVars, reqVars, phase, size, offered, relVars, cliVars, obsVars>>

\* toolCallBuffer.Flush returned one more line, or there are no more and the
\* chunk with finish_reason and usage follows.
FlushNext ==
    /\ ppc = "flush"
    /\ ppc' = "add"
    /\ phase' \in (IF offered < MaxOffered THEN {"flush", "final"} ELSE {"final"})
    /\ UNCHANGED <<bufVars, reqVars, size, ret, offered, relVars, cliVars, obsVars>>

\* What the loop does with a false from Add: a flush line is dropped with a
\* warning, any other line ends the attempt.
AddRejected ==
    IF phase = "flush" THEN ppc' = "flush" /\ ret' = ret ELSE Return("overflow")

\* Variant for AddReserve: the reservation of a rejected line is given back.
AddReserveRefunds ==
    /\ ppc = "add"
    /\ \E sz \in Sizes :
        /\ offered' = offered + 1
        /\ size' = sz
        /\ IF completed \/ totalLen + sz > MaxBytes
           THEN totalLen' = totalLen /\ AddRejected
           ELSE totalLen' = totalLen + sz /\ ppc' = "append" /\ ret' = ret
    /\ UNCHANGED <<chunks, completed, bufErr, notify, doneCh, reqVars, phase,
                   relVars, cliVars, appended, delivered, captured, storedBytes,
                   dataAge>>

\* Variant for AddReserve: the limit is compared before the line is counted.
AddReserveChecksLate ==
    /\ ppc = "add"
    /\ \E sz \in Sizes :
        /\ offered' = offered + 1
        /\ size' = sz
        /\ IF completed \/ totalLen > MaxBytes
           THEN totalLen' = totalLen /\ AddRejected
           ELSE totalLen' = totalLen + sz /\ ppc' = "append" /\ ret' = ret
    /\ UNCHANGED <<chunks, completed, bufErr, notify, doneCh, reqVars, phase,
                   relVars, cliVars, appended, delivered, captured, storedBytes,
                   dataAge>>

\* streamBuffer.Add up to the overflow check.  The reservation is not undone
\* when the line is rejected.
AddReserve ==
    /\ ppc = "add"
    /\ \E sz \in Sizes :
        /\ offered' = offered + 1
        /\ size' = sz
        /\ IF completed
           THEN totalLen' = totalLen /\ AddRejected
           ELSE /\ totalLen' = totalLen + sz
                /\ IF totalLen' > MaxBytes THEN AddRejected
                                           ELSE ppc' = "append" /\ ret' = ret
    /\ UNCHANGED <<chunks, completed, bufErr, notify, doneCh, reqVars, phase,
                   relVars, cliVars, appended, delivered, captured, storedBytes,
                   dataAge>>

\* The append under sb.mu.
AddAppend ==
    /\ ppc = "append"
    /\ chunks' = Append(chunks, offered)
    /\ appended' = Append(appended, offered)
    /\ storedBytes' = storedBytes + size
    /\ ppc' = "notify"
    /\ UNCHANGED <<totalLen, completed, bufErr, notify, doneCh, reqVars, phase,
                   size, ret, offered, relVars, cliVars, delivered, captured,
                   dataAge>>

\* Where the loop goes on after a true from Add.
AfterAdd ==
    IF phase = "body" THEN (IF IsStream THEN "recv" ELSE "mark")
    ELSE IF phase = "final" THEN "add"
    ELSE IF phase = "flush" THEN "flush" ELSE "mark"

\* The non-blocking send on notifyCh; Add returns true to its caller.
AddNotify ==
    /\ ppc = "notify"
    /\ notify' = TRUE
    /\ ppc' = AfterAdd
    /\ phase' = IF phase = "final" THEN "marker" ELSE phase
    /\ dataAge' = 0
    /\ UNCHANGED <<chunks, totalLen, completed, bufErr, doneCh, reqVars, size, ret,
                   offered, relVars, cliVars, appended, delivered, captured,
                   storedBytes>>

\* Variant for Mark: a failed attempt leaves its buffer open.
MarkLeavesOpen ==
    /\ ppc = "mark" /\ rmu = "free"
    /\ status' = IF ret = "none" THEN "completed" ELSE "failed"
    /\ IF released \/ completed \/ ret # "none"
       THEN /\ ppc' = "exit"
            /\ UNCHANGED <<completed, bufErr, rmu>>
       ELSE /\ completed' = TRUE /\ bufErr' = ret
            /\ rmu' = "producer" /\ ppc' = "closeNotify"
    /\ UNCHANGED <<chunks, totalLen, notify, doneCh, cancelled, ctxDone, released,
                   age, phase, size, ret, offered, relVars, cliVars, obsVars>>

\* MarkCompleted / MarkFailed take r.mu, set the status and start Close: the
\* CAS on completed, then the error.  A released or closed buffer is left.
Mark ==
    /\ ppc = "mark" /\ rmu = "free"
    /\ status' = IF ret = "none" THEN "completed" ELSE "failed"
    /\ IF released \/ completed
       THEN /\ ppc' = "exit"
            /\ UNCHANGED <<completed, bufErr, rmu>>
       ELSE /\ completed' = TRUE /\ bufErr' = ret
            /\ rmu' = "producer" /\ ppc' = "closeNotify"
    /\ UNCHANGED <<chunks, totalLen, notify, doneCh, cancelled, ctxDone, released,
                   age, phase, size, ret, offered, relVars, cliVars, obsVars>>

\* Close's final non-blocking notification.
CloseNotify ==
    /\ ppc = "closeNotify"
    /\ notify' = TRUE /\ ppc' = "closeDone"
    /\ UNCHANGED <<chunks, totalLen, completed, bufErr, doneCh, reqVars, phase, size,
                   ret, offered, relVars, cliVars, obsVars>>

\* close(sb.done); MarkX returns and releases r.mu.
CloseDone ==
    /\ ppc = "closeDone"
    /\ doneCh' = TRUE /\ rmu' = "free" /\ ppc' = "exit"
    /\ UNCHANGED <<chunks, totalLen, completed, bufErr, notify, status, cancelled,
                   ctxDone, released, age, phase, size, ret, offered, relVars,
                   cliVars, obsVars>>

-----------------------------------------------------------------------------
(* The relay.                                                              *)

IsNotNil(c) == c # Nil

\* Variant for GetChunksFrom: the newest chunk is held back.
GetChunksFromHoldsLast(from) ==
    LET tail == SubSeq(chunks, from + 1, Len(chunks) - 1)
    IN  IF \A i \in 1..Len(tail) : tail[i] # Nil
        THEN tail ELSE SelectSeq(tail, IsNotNil)

\* GetChunksFrom: the stored chunks after the first `from`, pruned slots
\* skipped; unfiltered when there is nothing to skip.
GetChunksFrom(from) ==
    LET tail == SubSeq(chunks, from + 1, Len(chunks))
    IN  IF \A i \in 1..Len(tail) : tail[i] # Nil
        THEN tail ELSE SelectSeq(tail, IsNotNil)

\* What GetAllRawBytesOnce and GetChunksFrom(0) still return.
StillStored == {chunks[i] : i \in 1..Len(chunks)} \ {Nil}

ShouldPrune(index) ==
    index > 0 /\ index < Len(chunks) /\ index > Len(chunks) \div 2

Prune(index) ==
    chunks' = [i \in 1..Len(chunks) |-> IF i <= index THEN Nil ELSE chunks[i]]

\* Variant for EndRelay: the deferred cancel is missing.
EndRelayLeaks(res) == rpc' = "ended" /\ result' = res /\ ctxDone' = ctxDone

\* The handler returns: its deferred winner.cancel() cancels the attempt.
EndRelay(res) == rpc' = "ended" /\ result' = res /\ ctxDone' = TRUE

\* The coordinator made this attempt the winner: a ticker arm that saw the
\* gate open, or the streaming deadline, which takes an attempt not yet done
\* (in live mode only one that has reserved bytes).
LiveGate == mode = "live"
WinnerPicked ==
    /\ rpc = "wait" /\ status # "failed"
    /\ LiveGate => totalLen > 0
    /\ rpc' = IF IsStream THEN "entry" ELSE "nonstream"
    /\ UNCHANGED <<bufVars, reqVars, prodVars, readIndex, result, cliVars, obsVars>>

\* No winner: the attempt failed first, or the client left first.
RaceLost ==
    /\ rpc = "wait" /\ (status = "failed" \/ baseDone)
    /\ EndRelay("lost")
    /\ UNCHANGED <<bufVars, status, cancelled, released, rmu, age, prodVars,
                   readIndex, cliVars, obsVars>>

\* Variant for FetchAndWrite: the ticker branch forgets to advance.
FetchAndWriteRepeats(next) ==
    LET batch == GetChunksFrom(readIndex) IN
    \E n \in 0..Len(batch) :
        /\ readIndex' = IF next = "pruneTick" THEN readIndex ELSE readIndex + n
        /\ delivered' = delivered \o SubSeq(batch, 1, n)
        /\ IF n = Len(batch)
           THEN rpc' = next /\ UNCHANGED <<result, ctxDone>>
           ELSE EndRelay("clientError")
    /\ UNCHANGED <<chunks, totalLen, completed, bufErr, doneCh, status, cancelled,
                   released, rmu, age, prodVars, cliVars, appended, captured,
                   storedBytes, dataAge>>

\* Variant for FetchAndWrite: a failed write steps back over its chunk.
FetchAndWriteRewinds(next) ==
    LET batch == GetChunksFrom(readIndex) IN
    \E n \in 0..Len(batch) :
        /\ readIndex' = IF n = Len(batch) THEN readIndex + n ELSE readIndex + n - 1
        /\ delivered' = delivered \o SubSeq(batch, 1, n)
        /\ IF n = Len(batch)
           THEN rpc' = next /\ UNCHANGED <<result, ctxDone>>
           ELSE EndRelay("clientError")
    /\ UNCHANGED <<chunks, totalLen, completed, bufErr, doneCh, status, cancelled,
                   released, rmu, age, prodVars, cliVars, appended, captured,
                   storedBytes, dataAge>>

\* Fetch from readIndex and write under writeMu, chunk by chunk; readIndex
\* advances with each successful write, a failed one ends the relay.
FetchAndWrite(next) ==
    LET batch == GetChunksFrom(readIndex) IN
    \E n \in 0..Len(batch) :
        /\ readIndex' = readIndex + n
        /\ delivered' = delivered \o SubSeq(batch, 1, n)
        /\ IF n = Len(batch)
           THEN rpc' = next /\ UNCHANGED <<result, ctxDone>>
           ELSE EndRelay("clientError")
    /\ UNCHANGED <<chunks, totalLen, completed, bufErr, doneCh, status, cancelled,
                   released, rmu, age, prodVars, cliVars, appended, captured,
                   storedBytes, dataAge>>

\* Existing chunks first.
Entry == rpc = "entry" /\ FetchAndWrite("prune") /\ UNCHANGED notify

\* case <-buffer.NotifyCh()
OnNotify == rpc = "select" /\ notify /\ notify' = FALSE /\ FetchAndWrite("prune")

\* case <-ticker.C: the safety poll, then the idle check.
OnTick ==
    /\ rpc = "select"
    /\ FetchAndWrite(IF GetChunksFrom(readIndex) # <<>> THEN "pruneTick" ELSE "idle")
    /\ UNCHANGED notify

\* case <-buffer.Done(): drain what is left.
OnDone == rpc = "select" /\ doneCh /\ FetchAndWrite("finish") /\ UNCHANGED notify

\* case <-rc.baseCtx.Done() and case <-rc.clientGoneCh
OnClientGone ==
    /\ rpc = "select" /\ (baseDone \/ clientGone)
    /\ EndRelay("clientError")
    /\ UNCHANGED <<bufVars, status, cancelled, released, rmu, age, prodVars,
                   readIndex, cliVars, obsVars>>

\* Variant for PruneStep: pruning is not gated to buffered mode.
PruneStepUngated ==
    /\ rpc \in {"prune", "pruneTick"}
    /\ IF ShouldPrune(readIndex) THEN Prune(readIndex) ELSE UNCHANGED chunks
    /\ rpc' = IF rpc = "prune" THEN "select" ELSE "idle"
    /\ UNCHANGED <<totalLen, completed, bufErr, notify, doneCh, reqVars, prodVars,
                   readIndex, result, cliVars, obsVars>>

\* if rc.bufferMode && buffer.ShouldPrune(readIndex) { buffer.Prune(readIndex) }
PruneStep ==
    /\ rpc \in {"prune", "pruneTick"}
    /\ IF BufferMode /\ ShouldPrune(readIndex) THEN Prune(readIndex)
                                               ELSE UNCHANGED chunks
    /\ rpc' = IF rpc = "prune" THEN "select" ELSE "idle"
    /\ UNCHANGED <<totalLen, completed, bufErr, notify, doneCh, reqVars, prodVars,
                   readIndex, result, cliVars, obsVars>>

\* Variant for IsIdle: only an attempt that has not started streaming is idle.
IsIdleNotStarted == status = "running" /\ age > IdleTimeout

\* winner.IsIdle(IdleTerminationTimeout), read under r.mu.
IsIdle == status = "streaming" /\ age > IdleTimeout

\* The idle check at the end of the ticker branch.
IdleCheck ==
    /\ rpc = "idle" /\ (rmu = "free" \/ completed)
    /\ rpc' = IF idleTermination /\ ~completed /\ IsIdle
              THEN "cancel" ELSE "select"
    /\ UNCHANGED <<bufVars, reqVars, prodVars, readIndex, result, cliVars, obsVars>>

\* winner.Cancel(): the flag under r.mu, then the context.
CancelFlag ==
    /\ rpc = "cancel" /\ rmu = "free"
    /\ cancelled' = TRUE /\ ctxDone' = TRUE
    /\ rpc' = "cleanup"
    /\ UNCHANGED <<bufVars, status, released, rmu, age, prodVars, readIndex, result,
                   cliVars, obsVars>>

\* cleanup() closes the buffer with context.Canceled and drops it.
Cleanup ==
    /\ rpc = "cleanup" /\ rmu = "free"
    /\ released' = TRUE
    /\ IF completed THEN UNCHANGED <<completed, bufErr, notify, doneCh>>
       ELSE completed' = TRUE /\ bufErr' = "canceled" /\ notify' = TRUE /\ doneCh' = TRUE
    /\ EndRelay("idle")
    /\ UNCHANGED <<chunks, totalLen, status, cancelled, rmu, age, prodVars, readIndex,
                   cliVars, obsVars>>

\* The rest of the Done branch: an error is sent in band; on success the raw
\* capture, the usage and the token estimate all read what is still stored.
\* Buffered mode then prunes.
Finish ==
    /\ rpc = "finish"
    /\ captured' = StillStored
    /\ EndRelay(IF bufErr = "none" THEN "ok" ELSE "errorSent")
    /\ IF BufferMode THEN Prune(readIndex) ELSE UNCHANGED chunks
    /\ UNCHANGED <<totalLen, completed, bufErr, notify, doneCh, status, cancelled,
                   released, rmu, age, prodVars, readIndex, cliVars, appended,
                   delivered, storedBytes, dataAge>>

\* handleNonStreamResult: wait for Done, then one body or one error.
NonStreamResult ==
    /\ rpc = "nonstream" /\ doneCh
    /\ captured' = StillStored
    /\ delivered' = IF bufErr = "none" THEN GetChunksFrom(0) ELSE <<>>
    /\ EndRelay(IF bufErr = "none" THEN "ok" ELSE "errorSent")
    /\ UNCHANGED <<bufVars, status, cancelled, released, rmu, age, prodVars,
                   readIndex, cliVars, appended, storedBytes, dataAge>>

NonStreamGone ==
    /\ rpc = "nonstream" /\ baseDone
    /\ EndRelay("clientError")
    /\ UNCHANGED <<bufVars, status, cancelled, released, rmu, age, prodVars,
                   readIndex, cliVars, obsVars>>

-----------------------------------------------------------------------------
(* The environment.                                                        *)

\* net/http cancels r.Context() when the client disconnects; the attempt's
\* context is derived from it.
ClientDisconnect ==
    /\ ~baseDone /\ rpc # "ended"
    /\ baseDone' = TRUE /\ ctxDone' = TRUE
    /\ UNCHANGED <<bufVars, status, cancelled, released, rmu, age, prodVars, relVars,
                   clientGone, mode, idleTermination, obsVars>>

\* A heartbeat write failed or timed out: clientGoneCh is closed.
HeartbeatFails ==
    /\ IsStream /\ ~clientGone /\ rpc # "ended"
    /\ clientGone' = TRUE
    /\ UNCHANGED <<bufVars, reqVars, prodVars, relVars, baseDone, mode,
                   idleTermination, obsVars>>

\* A clock unit passes.
Tick ==
    /\ status = "streaming" /\ age <= IdleTimeout
    /\ age' = age + 1 /\ dataAge' = dataAge + 1
    /\ UNCHANGED <<bufVars, status, cancelled, ctxDone, released, rmu, prodVars,
                   relVars, cliVars, appended, delivered, captured, storedBytes>>

Finished == ppc = "exit" /\ rpc = "ended" /\ UNCHANGED vars

AddStep == AddReserve \/ AddAppend \/ AddNotify
CloseStep == Mark \/ CloseNotify \/ CloseDone
Producer ==
    \/ OpenFails \/ MarkStreaming \/ NonStreamAnswer
    \/ RecvLine \/ RecvDone \/ RecvEnds \/ FlushNext
    \/ AddStep \/ CloseStep
Relay ==
    \/ WinnerPicked \/ RaceLost
    \/ Entry \/ OnNotify \/ OnTick \/ OnDone \/ OnClientGone
    \/ PruneStep \/ IdleCheck \/ CancelFlag \/ Cleanup \/ Finish
    \/ NonStreamResult \/ NonStreamGone
Environment == ClientDisconnect \/ HeartbeatFails \/ Tick

Next == Producer \/ Relay \/ Environment \/ Finished

Spec == Init /\ [][Next]_vars

(***************************************************************************)
(* Fairness.  A goroutine that can run does run.  The provider owes an     *)
(* event only once its context is cancelled (the HTTP client then fails    *)
(* the read), so RecvLine and RecvDone have no fairness and RecvEnds has   *)
(* it only when Stopped.  select picks uniformly among the ready cases, so *)
(* a case that is ready again and again is taken: strong fairness for the  *)
(* Done, NotifyCh and disconnect arms.  Time passes.                       *)
(***************************************************************************)
Fairness ==
    /\ WF_vars(AddStep) /\ WF_vars(CloseStep) /\ WF_vars(FlushNext)
    /\ WF_vars(Stopped /\ (RecvEnds \/ OpenFails))
    /\ WF_vars(Relay) /\ SF_vars(OnDone) /\ SF_vars(OnClientGone)
    /\ WF_vars(Tick)

FairSpec == Spec /\ Fairness

-----------------------------------------------------------------------------
(* Properties.                                                             *)

ProducerPC == {"start", "recv", "flush", "add", "append", "notify", "mark",
               "closeNotify", "closeDone", "exit"}
RelayPC == {"wait", "entry", "select", "prune", "pruneTick", "idle", "cancel",
            "cleanup", "finish", "nonstream", "ended"}

\* Every variable has its type.
TypeOK ==
    /\ chunks \in Seq(Nat) /\ totalLen \in Nat /\ completed \in BOOLEAN
    /\ bufErr \in Errors /\ notify \in BOOLEAN /\ doneCh \in BOOLEAN
    /\ status \in {"running", "streaming", "completed", "failed"}
    /\ cancelled \in BOOLEAN /\ ctxDone \in BOOLEAN /\ released \in BOOLEAN
    /\ rmu \in {"free", "producer"} /\ age \in Nat
    /\ ppc \in ProducerPC /\ phase \in {"body", "flush", "final", "marker"}
    /\ size \in Nat /\ ret \in Errors /\ offered \in Nat
    /\ rpc \in RelayPC /\ readIndex \in Nat
    /\ result \in {"none", "lost", "clientError", "ok", "errorSent", "idle"}
    /\ baseDone \in BOOLEAN /\ clientGone \in BOOLEAN
    /\ mode \in {"live", "buffered", "nonstream"} /\ idleTermination \in BOOLEAN
    /\ appended \in Seq(Chunk) /\ delivered \in Seq(Chunk) /\ captured \subseteq Chunk
    /\ storedBytes \in Nat /\ dataAge \in Nat

\* The client receives exactly a prefix of what the attempt stored: no chunk
\* twice, none skipped, none reordered, although NotifyCh, the ticker and
\* Done all read from the same index while Add appends and Prune releases
\* (streamResult, handler.go).
DeliveredPrefix ==
    /\ Len(delivered) <= Len(appended)
    /\ delivered = SubSeq(appended, 1, Len(delivered))

\* A response that ended well is whole: every line the attempt offered to
\* Add reached the client.  A flush line that Add rejected is only logged by
\* handleInternalStream; that is safe because a rejected reservation is never
\* given back, so the lines that must follow it are rejected as well.
SuccessIsWhole ==
    result = "ok" => /\ ret = "none" /\ status = "completed"
                     /\ delivered = [i \in 1..offered |-> i]

\* Memory protection: the bytes stored never exceed maxBytes, counting the
\* line between the overflow check and the append (streamBuffer.Add).
StoredWithinLimit ==
    storedBytes + (IF ppc = "append" THEN size ELSE 0) <= MaxBytes

\* On success what the raw capture, the usage extraction and the token
\* estimate read is the whole stored stream (Done branch of streamResult).
BufferedCaptureIsWhole ==
    result = "ok" => \A i \in 1..Len(appended) : appended[i] \in captured

\* Outside buffered mode nothing is pruned before the stream is finished, so
\* the raw capture, the usage extraction and the token estimate read it whole
\* (the rc.bufferMode gates of streamResult).
CaptureIsWhole == ~BufferMode => BufferedCaptureIsWhole

\* Idle termination fires only when the upstream has not delivered a line
\* for IdleTerminationTimeout (ticker branch of streamResult).
IdleOnlyWhenQuiet ==
    [][rpc = "idle" /\ rpc' = "cancel" => dataAge > IdleTimeout]_vars

\* Once the attempt is completed or failed the handler ends: MarkX always
\* closes the buffer and the relay always notices (Done branch).
AttemptDoneThenEnded == IsDone ~> rpc = "ended"

\* A stored chunk is forwarded, or the relay ends: no lost wake-up leaves
\* data sitting in the buffer (NotifyCh and the ticker of streamResult).
StoredThenForwarded ==
    \A n \in 1..(MaxOffered + 2) :
        (Len(appended) >= n /\ rpc = "select") ~>
            (Len(delivered) >= n \/ rpc = "ended")

\* No wake-up is lost: neither a stored chunk nor the end of the attempt leaves
\* the relay waiting (the one-slot notify channel, done and the ticker).
NoLostWakeup == StoredThenForwarded /\ AttemptDoneThenEnded

\* When the handler returns the attempt's goroutine ends too, whatever state
\* it was in: no goroutine outlives its request (deferred winner.cancel()).
AttemptStops == rpc = "ended" ~> ppc = "exit"

\* With idle termination enabled the relay of an attempt that has started to
\* stream ends, even when the upstream hangs without closing the stream
\* (ticker branch of streamResult).
RelayEnds ==
    rpc = "entry" /\ idleTermination /\ status # "running" ~> rpc = "ended"
=============================================================================
