---------------------------- MODULE ChatEndpoint ----------------------------
(***************************************************************************)
(* HandleChatCompletions: one request on its way from the first byte to    *)
(* its reply, its log entry and its usage rows.  What several steps read   *)
(* of the request and of its configuration is fixed in Init; what one step *)
(* reads, and what the model cache, the group engine, the ultimate model   *)
(* and the race answer, is chosen at that step.  The usage rows are        *)
(* written by goroutines that run on when the handler has returned.        *)
(***************************************************************************)
EXTENDS Naturals

CONSTANTS
    Kinds,          \* what the name sent, "m", resolves to: "chat", "group", "claimed" (the
                    \* group "g" that claims it), "image", "decision", "external" or "none"
    Tokens,         \* what authentication yields: a state, "off" without a token
                    \* store, and the list of models allowed, all when empty
    Counting        \* a usage counter is configured

\* What authenticate may report of a token.
ChatAssumption ==
    /\ \A t \in Tokens : t.state \in {"off", "bad", "valid"}
    /\ Counting \in BOOLEAN

VARIABLES
    in,             \* the request and its configuration
    pc,
    ctx,            \* the request context: member picked, headers sent, second race
    log,            \* status of the log entry as last added to the store
    reply,          \* what the client was answered with; "none"
    called,         \* who was asked: the model's own row, a member of a group, the
                    \* other one after it, a fallback, the ultimate model
    counted,        \* the conversation's attempt has been recorded
    rows            \* usage rows still to write and written, by key

vars == <<in, pc, ctx, log, reply, called, counted, rows>>

Keys == {"token", "model", "member"}
Authenticated == in.token.state = "valid"
Allowed(m) == in.token.state = "off" \/ in.token.list = {} \/ m \in in.token.list
Enabled == Authenticated /\ in.ultimate
Resolved == in.kind # "none"
\* The ID of the row that the name resolved to.
Row == IF in.kind = "claimed" THEN "g" ELSE IF Resolved THEN "m" ELSE "none"

\* target is the ultimate model, the token's own or the global one; only with a
\* global one, configured, are conversations counted.
Init ==
    /\ in \in [kind : Kinds, token : Tokens, force : BOOLEAN, stream : BOOLEAN,
               ultimate : BOOLEAN, configured : BOOLEAN, target : {"none", "m", "g", "u"}]
    /\ in.configured => in.target # "none"
    /\ pc = "start"
    /\ ctx = [member |-> FALSE, headers |-> FALSE, again |-> FALSE, deferred |-> FALSE]
    /\ log = "none" /\ reply = "none" /\ called = {} /\ counted = FALSE
    /\ rows = [due |-> {}, written |-> {}]

Goto(l) == pc' = l
Reply(kind) == reply = "none" /\ reply' = kind /\ pc' = "end"
\* The failure is logged and the request is answered with an error.
Fail(kind) == log' = "failed" /\ Reply(kind)
Quiet == UNCHANGED <<in, ctx, called, counted, rows>>

-----------------------------------------------------------------------------
(* Admission.                                                              *)

\* initRequestContext: the log entry is added first; a model that cannot be resolved
\* is put off only for the header that asks for the ultimate model.  Nothing is known
\* of a name that was not found while the store is unhealthy.
Unresolvable == in.kind \in {"none", "external"}
Admit ==
    /\ pc = "start"
    /\ \/ Goto("refuse unreadable") /\ UNCHANGED <<log, ctx>>
       \/ ~Resolved /\ log' = "running" /\ Goto("refuse unavailable") /\ UNCHANGED ctx
       \/ IF Unresolvable /\ ~in.force THEN log' = "failed" /\ Goto("refuse unknown") /\ UNCHANGED ctx
          ELSE log' = "running" /\ Goto("auth") /\ ctx' = [ctx EXCEPT !.deferred = Unresolvable]
    /\ UNCHANGED <<in, reply, called, counted, rows>>

\* The error of initRequestContext decides the status of the reply.
Refuse ==
    /\ \/ pc = "refuse unreadable" /\ Reply("unreadable")
       \/ pc = "refuse unavailable" /\ Reply("unavailable")
       \/ pc = "refuse unknown" /\ Reply("not found")
    /\ Quiet /\ UNCHANGED log

\* Image and decision models have endpoints of their own.
Misroute ==
    /\ pc = "auth" /\ in.kind \in {"image", "decision"}
    /\ Reply("misrouted") /\ Quiet /\ UNCHANGED log

Authenticate ==
    /\ pc = "auth" /\ in.kind \notin {"image", "decision"}
    /\ IF in.token.state = "bad" THEN Fail("unauthorized") ELSE Goto("route") /\ UNCHANGED <<log, reply>>
    /\ Quiet

\* applyGroupRewrite: the groups among the row and its fallbacks, as they are now,
\* are replaced by one of their members.
Route ==
    /\ pc = "route"
    /\ \/ Goto("permit") /\ UNCHANGED <<ctx, log, reply>>
       \/ Resolved /\ Fail("group unservable") /\ UNCHANGED ctx
       \/ Resolved /\ Goto("permit") /\ ctx' = [ctx EXCEPT !.member = TRUE] /\ UNCHANGED <<log, reply>>
    /\ UNCHANGED <<in, called, counted, rows>>

\* The token's model list, by the name the client sent; a name that was not resolved
\* needs a token without a list.
Permit ==
    /\ pc = "permit"
    /\ IF Authenticated /\ (IF Resolved THEN ~Allowed("m") ELSE in.token.list # {}) THEN Fail("forbidden")
       ELSE Goto("find") /\ UNCHANGED <<log, reply>>
    /\ Quiet

\* A model put off is not found after all, unless the ultimate model is asked for.
Find ==
    /\ pc = "find"
    /\ IF ctx.deferred /\ ~(in.force /\ Enabled) THEN Fail("not found") ELSE Goto("gate") /\ UNCHANGED <<log, reply>>
    /\ Quiet

\* Variant for UltimatePermit: the ultimate model needs no permission of its own.
UltimatePermitAll ==
    /\ pc = "gate" /\ Goto("decide") /\ UNCHANGED <<log, reply>> /\ Quiet

\* The ultimate model must be on the token's list too, whether or not it will run,
\* unless it is the row that the name resolved to.
UltimatePermit ==
    /\ pc = "gate"
    /\ IF /\ Enabled \/ in.force
          /\ in.target # "none" /\ Authenticated /\ in.target # Row /\ ~Allowed(in.target)
       THEN Fail("forbidden")
       ELSE Goto("decide") /\ UNCHANGED <<log, reply>>
    /\ Quiet

-----------------------------------------------------------------------------
(* The ultimate model.                                                     *)

\* ShouldTrigger or ForceTrigger, for a request with messages: the attempt is recorded,
\* and the request is run by the ultimate model, refused, or raced, as is one for a
\* model that is excluded.
Decide ==
    /\ pc = "decide"
    /\ \/ Goto("race") /\ UNCHANGED <<log, reply, counted>>
       \/ /\ Enabled /\ in.configured
          /\ counted' = TRUE
          /\ \/ Goto("ultimate") /\ log' = "running" /\ UNCHANGED reply
             \/ ~in.force /\ Fail("exhausted")
             \/ ~in.force /\ Goto("race") /\ UNCHANGED <<log, reply>>
    /\ UNCHANGED <<in, ctx, called, rows>>

\* The rows a completed request is metered with; the member's row only when a group
\* routed the request and another model than the one asked for won.
Due(member) ==
    IF ~Counting THEN {}
    ELSE {"model"} \cup (IF Authenticated THEN {"token"} ELSE {}) \cup (IF member THEN {"member"} ELSE {})

\* Execute ends: without a model nothing is written yet, otherwise the headers are
\* taken as sent, and the failure becomes an event of the stream.
Ultimate ==
    /\ pc = "ultimate"
    /\ \/ Fail("bad gateway") /\ UNCHANGED <<ctx, called, rows>>
       \/ /\ called' = called \cup {"ultimate"}
          /\ ctx' = [ctx EXCEPT !.headers = TRUE]
          /\ \/ Fail("event") /\ UNCHANGED rows
             \/ log' = "completed" /\ Reply("answer") /\ rows' = [rows EXCEPT !.due = Due(FALSE)]
    /\ UNCHANGED <<in, counted>>

-----------------------------------------------------------------------------
(* The race.                                                               *)

\* The race asks the first model of the list, and may ask the fallbacks.
Asked(first) == \E more \in SUBSET {"fallback"} : called' = called \cup {first} \cup more

\* A stream gets its headers and its first comment before the race starts.
StartRace ==
    /\ pc = "race" /\ Goto("racing")
    /\ ctx' = [ctx EXCEPT !.headers = in.stream]
    /\ Asked(IF ctx.member THEN "member" ELSE "row")
    /\ UNCHANGED <<in, log, reply, counted, rows>>

\* The winner's answer reached the client whole: the request is logged and metered.
RaceWon ==
    /\ pc = "racing" /\ log' = "completed" /\ Reply("answer")
    /\ \E other \in BOOLEAN : rows' = [rows EXCEPT !.due = Due(ctx.member /\ other)]
    /\ UNCHANGED <<in, ctx, called, counted>>

\* The winner fails while its answer is relayed: the client is told, after what it has
\* got, and the log entry stays as it was.
RelayFails ==
    /\ pc = "racing" /\ Reply(IF in.stream THEN "event" ELSE "bad gateway")
    /\ Quiet /\ UNCHANGED log

\* The winner is idle for too long, or the time of the request is over: the answer ends
\* there, without a word to the client or to the log.
RelayStops ==
    /\ pc = "racing" /\ Goto("end") /\ Quiet /\ UNCHANGED <<log, reply>>

\* A write to the client failed, or its connection is gone: there is nobody to answer.
ClientGone ==
    /\ pc = "racing" /\ in.stream /\ Goto("end") /\ Quiet /\ UNCHANGED <<log, reply>>

\* All attempts failed, or the client went away: a group is tried once more with
\* another member, then the failure is logged and sent.
RaceLost ==
    /\ pc = "racing"
    /\ \/ Fail(IF ctx.headers THEN "event" ELSE "bad gateway") /\ UNCHANGED <<ctx, called>>
       \/ /\ ctx.member /\ ~ctx.again /\ Goto("racing") /\ ctx' = [ctx EXCEPT !.again = TRUE]
          /\ Asked("other") /\ UNCHANGED <<log, reply>>
    /\ UNCHANGED <<in, counted, rows>>

\* Increment writes the token's row, or fails and the row is lost.
MeterToken ==
    /\ "token" \in rows.due
    /\ \/ rows' = [due |-> rows.due \ {"token"}, written |-> rows.written \cup {"token"}]
       \/ rows' = [rows EXCEPT !.due = @ \ {"token"}]
    /\ UNCHANGED <<in, pc, ctx, log, reply, called, counted>>

\* IncrementModelUsage writes the row of the model or of the member, within 5 s.
MeterModel(k) ==
    /\ k \in rows.due \ {"token"}
    /\ \/ rows' = [due |-> rows.due \ {k}, written |-> rows.written \cup {k}]
       \/ rows' = [rows EXCEPT !.due = @ \ {k}]
    /\ UNCHANGED <<in, pc, ctx, log, reply, called, counted>>

Next ==
    \/ Admit \/ Refuse \/ Misroute \/ Authenticate \/ Route \/ Permit \/ Find \/ UltimatePermit
    \/ Decide \/ Ultimate \/ StartRace \/ RaceWon \/ RelayFails \/ RelayStops \/ ClientGone \/ RaceLost
    \/ MeterToken \/ \E k \in Keys : MeterModel(k)

Spec == Init /\ [][Next]_vars

-----------------------------------------------------------------------------
\* The shape of the request and of its records.
TypeOK ==
    /\ log \in {"none", "running", "completed", "failed"}
    /\ rows.due \subseteq Keys /\ rows.written \subseteq Keys
    /\ called \subseteq {"row", "member", "other", "fallback", "ultimate"}

\* The log entry of a finished request is never better than what the client got: it is
\* completed exactly if a whole answer was sent, and failed only if the client was
\* told of an error.  It stays running only for a request turned away at the door, and
\* for one whose winner broke while it was relayed.
LogMatchesReply ==
    pc = "end" =>
        /\ log = "completed" <=> reply = "answer"
        /\ log = "failed" => reply # "none"
        /\ log = "running" => called # {} \/ reply \in {"unavailable", "misrouted"}
        /\ log = "none" => reply = "unreadable"

\* Usage is metered for answered requests only, and the row of a member belongs to a
\* request that a group routed and the race answered.
MeteredAnswers ==
    LET all == rows.due \cup rows.written
    IN  /\ all # {} => log = "completed"
        /\ "token" \in all => Authenticated
        /\ "member" \in all => ctx.member /\ "ultimate" \notin called

\* No provider is asked, and no attempt recorded, without a valid token when tokens are
\* required, nor unless its list has the name that was sent; and the ultimate model is
\* neither asked nor counted for unless the token enables it and lists it, or it is
\* the row that the name stands for.  The list says nothing of members and fallbacks.
PermissionFirst ==
    /\ called # {} \/ counted => in.token.state # "bad" /\ Allowed("m")
    /\ "ultimate" \in called \/ counted => Enabled /\ (Allowed(in.target) \/ in.target = Row)

\* What a chat request promises.
ChatSound == TypeOK /\ PermissionFirst /\ LogMatchesReply /\ MeteredAnswers
=============================================================================
