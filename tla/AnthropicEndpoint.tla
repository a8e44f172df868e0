------------------------- MODULE AnthropicEndpoint -------------------------
(***************************************************************************)
(* One request to POST /v1/messages (proxy/handler_anthropic.go): it is    *)
(* resolved to a list of models, each of which is attempted in turn until  *)
(* one answers.  A model whose credential is an Anthropic one is passed    *)
(* through; every other one is called through the InternalHandler, whose   *)
(* answer goes to the client as it arrives (live) or into a recorder       *)
(* (buffered).  A rate-limited attempt is repeated once with another       *)
(* credential, and a group is re-entered once with another member.         *)
(***************************************************************************)
EXTENDS Naturals, Sequences, FiniteSets

CONSTANTS
    Requests,   \* [kind, stream, buffer, healthy]: what may be asked
    Chain,      \* the requested model and its fallbacks
    Other,      \* the list after a group has been re-entered
    Setups      \* [provider: model -> "anthropic" | "openai", multi: BOOLEAN]

\* The list starts with the model that was asked for.
MessageAssumption == Len(Chain) \in Nat \ {0} /\ Len(Other) \in Nat

VARIABLES
    req, setup,
    pc,         \* where the handler is
    list,       \* arc.modelList
    idx,        \* the model being attempted
    retried,    \* whether its credential has been replaced
    reentered,  \* arc.groupReentered
    headers,    \* arc.headersSent
    last,       \* arc.lastError: "none", "limited", or "error"
    client,     \* "here", or "gone"
    log,        \* reqLog.Status
    reply,      \* what the client got: "none", "refused", "error", "answer", "stream", "broken"
    calls       \* history: the models called, in order

vars == <<req, setup, pc, list, idx, retried, reentered, headers, last, client, log, reply, calls>>

Init ==
    /\ req \in Requests /\ setup \in Setups
    /\ pc = "start" /\ list = <<>> /\ idx = 1
    /\ retried = FALSE /\ reentered = FALSE /\ headers = FALSE /\ last = "none"
    /\ client = "here" /\ log = "none" /\ reply = "none" /\ calls = <<>>

End(kind) == pc' = "end" /\ reply' = kind
Steady == UNCHANGED <<req, setup, client>>

-----------------------------------------------------------------------------
(* HandleAnthropicMessages.                                                *)

\* The method, the body, or validateAnthropicRequest.
Refuse ==
    /\ pc = "start" /\ End("refused") /\ Steady
    /\ UNCHANGED <<list, idx, retried, reentered, headers, last, log, calls>>

\* The log entry is added, and the model resolved.  An unavailable store and a
\* decision model are refused without another word in the log.
Admit ==
    /\ pc = "start"
    /\ \/ req.kind = "none" /\ End("refused") /\ log' = IF req.healthy THEN "failed" ELSE "running"
       \/ req.kind = "decision" /\ End("refused") /\ log' = "running"
       \/ req.kind \in {"chat", "group"} /\ pc' = "route" /\ log' = "running" /\ UNCHANGED reply
    /\ Steady
    /\ UNCHANGED <<list, idx, retried, reentered, headers, last, calls>>

\* applyGroupRewrite: a member, or nobody.
Route ==
    /\ pc = "route"
    /\ \/ pc' = "next" /\ list' = Chain /\ UNCHANGED <<reply, log>>
       \/ req.kind = "group" /\ End("refused") /\ log' = "failed" /\ UNCHANGED list
    /\ Steady
    /\ UNCHANGED <<idx, retried, reentered, headers, last, calls>>

\* Variant for NextModel: the last model of the list is not reached.
NextModelShort ==
    /\ pc = "next"
    /\ pc' = IF idx >= Len(list) THEN "reenter" ELSE "attempt"
    /\ retried' = FALSE /\ Steady
    /\ UNCHANGED <<list, idx, reentered, headers, last, log, reply, calls>>

\* The head of the fallback loop.
NextModel ==
    /\ pc = "next"
    /\ pc' = IF idx > Len(list) THEN "reenter"
             ELSE IF client = "gone" \/ (headers /\ ~req.buffer) THEN "exhausted"
             ELSE "attempt"
    /\ retried' = FALSE /\ Steady
    /\ UNCHANGED <<list, idx, reentered, headers, last, log, reply, calls>>

\* tryGroupReentryAnthropic, once, when it finds another member.
Reenter ==
    /\ pc = "reenter"
    /\ \/ /\ req.kind = "group" /\ ~reentered
          /\ reentered' = TRUE /\ list' = Other /\ idx' = 1 /\ pc' = "next"
       \/ pc' = "exhausted" /\ UNCHANGED <<reentered, list, idx>>
    /\ Steady
    /\ UNCHANGED <<retried, headers, last, log, reply, calls>>

\* "All models failed": the last upstream error or a 502 before any byte, an
\* SSE error after one.
Exhausted ==
    /\ pc = "exhausted"
    /\ End(IF headers THEN "broken" ELSE "error") /\ Steady
    /\ UNCHANGED <<list, idx, retried, reentered, headers, last, log, calls>>

-----------------------------------------------------------------------------
(* attemptAnthropicModel.                                                  *)

Model == list[idx]
Passed == setup.provider[Model] = "anthropic"

\* The client has left: the attempt counts as answered.
Abandoned ==
    /\ pc = "attempt" /\ client = "gone"
    /\ End("none") /\ Steady
    /\ UNCHANGED <<list, idx, retried, reentered, headers, last, log, calls>>

\* The attempt failed before a byte was sent: the loop goes on.
Failed(error) ==
    /\ log' = "failed" /\ last' = error
    /\ idx' = idx + 1 /\ pc' = "next"
    /\ UNCHANGED <<headers, reply, retried>>

\* The model, or its credential, is no longer configured.
Unresolved ==
    /\ pc = "attempt" /\ Failed("error") /\ Steady
    /\ UNCHANGED <<list, reentered, calls>>

Call == pc = "attempt" /\ calls' = Append(calls, Model) /\ Steady /\ UNCHANGED <<list, reentered>>

\* ExcludeAndReselect, and GetCredential on what it picks: another credential
\* is tried once, if the model has several.
Failover ==
    /\ setup.multi /\ ~retried /\ retried' = TRUE
    /\ pc' = "attempt" /\ last' = "none"
    /\ UNCHANGED <<idx, headers, log, reply>>

\* finalizeAnthropicSuccess.
Completed(kind) ==
    /\ log' = "completed" /\ End(kind)
    /\ headers' = (headers \/ req.stream)
    /\ UNCHANGED <<idx, last, retried>>

\* handlePassthroughStreamResponse and handlePassthroughNonStreamResponse: a
\* stream that breaks off has been relayed so far and counts as answered; a
\* body that cannot be read has not been sent.
Relayed(result) == result = "ok" \/ (result = "cut" /\ req.stream)

isAnthropicRateLimit(error) == error = "limited"

\* doAnthropicRequest on an Anthropic upstream.  A request that gets no response
\* leaves lastError alone: isAnthropicRateLimit then judges an earlier model's.
Passthrough(result) ==
    LET error == CASE result = "limited" -> "limited"
                   [] result = "error" -> "error"
                   [] OTHER -> last IN
    /\ Call /\ Passed
    /\ \/ Relayed(result) /\ Completed(IF req.stream THEN "stream" ELSE "answer")
       \/ ~Relayed(result) /\ isAnthropicRateLimit(error) /\ Failover
       \/ ~Relayed(result) /\ Failed(error)

\* handleAnthropicInternalStreamResponse and its non-stream twin: the recorded
\* answer is translated and sent as a whole.
Recorded == Completed(IF req.stream THEN "stream" ELSE "answer")

\* The translation fails: a stream gets an error event and is not retried, though no
\* byte had been sent; a whole answer counts as a failed attempt, with the error of
\* an earlier one.
Untranslatable ==
    \/ req.stream /\ End("broken") /\ UNCHANGED <<headers, log, idx, last, retried>>
    \/ ~req.stream /\ Failed(last)

\* doAnthropicInternalRequest into a recorder.
InternalBuffered(result) ==
    /\ Call /\ ~Passed /\ req.buffer
    /\ \/ result = "ok" /\ Recorded
       \/ result = "ok" /\ Untranslatable
       \/ result = "limited" /\ Failover
       \/ result \in {"cut", "limited", "error", "unreachable"} /\ Failed("error")

\* Variant for InternalLive: emitLivePreamble does not record that it wrote,
\* and an error lets the fallback go on.
InternalLiveRetries(result) ==
    /\ Call /\ ~Passed /\ ~req.buffer
    /\ \/ result = "ok" /\ Completed(IF req.stream THEN "stream" ELSE "answer")
       \/ result = "limited" /\ Failover
       \/ /\ result = "cut" /\ req.stream /\ log' = "failed" /\ reply' = "broken"
          /\ idx' = idx + 1 /\ pc' = "next" /\ UNCHANGED <<last, headers, retried>>
       \/ result \in {"cut", "limited", "error", "unreachable"} /\ ~req.stream /\ Failed("error")

\* Variant for InternalLive: every error of a stream is taken for a success.
InternalLiveCompletes(result) ==
    /\ Call /\ ~Passed /\ ~req.buffer
    /\ \/ result = "ok" /\ Completed(IF req.stream THEN "stream" ELSE "answer")
       \/ result = "limited" /\ Failover
       \/ /\ result # "ok" /\ req.stream /\ log' = "completed" /\ End("none")
          /\ UNCHANGED <<idx, last, retried, headers>>
       \/ result \in {"cut", "limited", "error", "unreachable"} /\ ~req.stream /\ Failed("error")

\* ... and straight to the client.  An error of a stream ends the request,
\* whether the stream had begun or not: handleStream has closed the message
\* and sent an error event only in the first case.
InternalLive(result) ==
    /\ Call /\ ~Passed /\ ~req.buffer
    /\ \/ result = "ok" /\ Completed(IF req.stream THEN "stream" ELSE "answer")
       \/ result = "limited" /\ Failover
       \/ /\ result = "cut" /\ req.stream
          /\ End("broken") /\ headers' = TRUE
          /\ UNCHANGED <<log, idx, last, retried>>
       \/ /\ result \in {"limited", "error", "unreachable"} /\ req.stream
          /\ End("none")
          /\ UNCHANGED <<headers, log, idx, last, retried>>
       \/ result \in {"cut", "limited", "error", "unreachable"} /\ ~req.stream /\ Failed("error")

Disconnect ==
    /\ client = "here" /\ client' = "gone"
    /\ pc \in {"next", "attempt", "reenter"}
    /\ UNCHANGED <<req, setup, pc, list, idx, retried, reentered, headers, last, log, reply, calls>>

Results == {"ok", "cut", "limited", "error", "unreachable"}

Next ==
    \/ Refuse \/ Admit \/ Route \/ NextModel \/ Reenter \/ Exhausted
    \/ Abandoned \/ Unresolved \/ Disconnect
    \/ \E r \in Results : Passthrough(r) \/ InternalBuffered(r) \/ InternalLive(r)

Spec == Init /\ [][Next]_vars

-----------------------------------------------------------------------------
\* A request logged as completed has been answered, and one answered with an
\* error after its models were tried is logged as failed.
LogIsOutcome ==
    pc = "end" =>
      /\ log = "completed" <=> reply \in {"answer", "stream"}
      /\ reply = "error" /\ client = "here" => log = "failed"

\* A client that is told that all models failed, and has not left, really had
\* every model of the list attempted, and after a re-entry the other member's.
AllTried ==
    reply = "error" /\ client = "here" => idx > Len(list) /\ ~headers

\* No upstream is called once a byte has been sent to the client: a fallback
\* never adds a second answer to the wire.
SilentAfterBytes == [][calls' # calls => reply = "none" /\ ~headers]_vars

\* What a request for a message promises.
MessageSound == [](LogIsOutcome /\ AllTried) /\ SilentAfterBytes

\* Every request whose client waits for it gets some answer.
Answered == pc = "end" /\ client = "here" => reply # "none"
=============================================================================
