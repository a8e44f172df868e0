--------------------------- MODULE SideEndpoints ---------------------------
(***************************************************************************)
(* POST /v1/decisions (pkg/decision) and POST /v1/image_generation         *)
(* (pkg/imggen): one request goes through a list of checks, is translated  *)
(* for the provider of the model's credential, called once, inspected,     *)
(* relayed, metered and published on the event bus.  An administrator's    *)
(* test of a model (ExecuteTest) joins at the adapter and is not metered.  *)
(*                                                                         *)
(* A request is a record: route ("decision" or "image"), admin, sound (it  *)
(* is a POST with a readable body), body (its fields in order, as <<key,   *)
(* value>>), names (of a decision's questions), token ("off", "bad",       *)
(* "some", "listed": no token store, an invalid token, a token of a        *)
(* restricted list without or with the model), kind of the model ("none"   *)
(* if there is no such model), provider ("none" if no credential           *)
(* resolves), internal (the upstream's name of the model) and plain        *)
(* (nothing that TypeSafe does not support).                               *)
(***************************************************************************)
EXTENDS Naturals, Sequences, SequencesExt

CONSTANTS
    Requests,
    Trim        \* strings.TrimSpace of a question's name

\* Bodies and questions are lists, and a trimmed name has nothing left to trim.
SideAssumption ==
    /\ Trim \in [DOMAIN Trim -> DOMAIN Trim] /\ \A n \in DOMAIN Trim : Trim[Trim[n]] = Trim[n]
    /\ \A r \in Requests : /\ r.admin \in BOOLEAN
                            /\ r.names \in Seq(DOMAIN Trim) /\ r.body \in Seq(STRING \X STRING)

VARIABLES
    request,
    pc,         \* the handler's next step
    client,     \* "here" or "gone"
    sent,       \* the fields of the upstream request
    up,         \* the upstream's answer
    reply,      \* what the client got: <<status, answers>>
    rows,       \* the usage counter: requests and images of the model
    told        \* outcomes published on the bus

vars == <<request, pc, client, sent, up, reply, rows, told>>

NoAnswer == [kind |-> "none", status |-> 0, list |-> <<>>, keys |-> {}, images |-> 0, failed |-> 0, used |-> FALSE]

Init ==
    /\ request \in Requests
    /\ pc = IF request.admin THEN "probe" ELSE "read"
    /\ client = "here" /\ sent = <<>> /\ up = NoAnswer /\ reply = <<0, <<>>>>
    /\ rows = [requests |-> 0, images |-> 0] /\ told = <<>>

Decision == request.route = "decision"
\* Tests publish nothing: the administration handler answers with the result.
Tell(outcome) == told' = IF request.admin THEN told ELSE Append(told, outcome)

\* One check of the handler: a request that fails it is answered at once.
Check(from, to, holds, status, outcome) ==
    /\ pc = from
    /\ IF holds THEN pc' = to /\ UNCHANGED <<reply, told>>
       ELSE pc' = "end" /\ reply' = <<status, <<>>>> /\ Tell(outcome)
    /\ UNCHANGED <<request, client, sent, up, rows>>

-----------------------------------------------------------------------------
(* HandleDecision and HandleImageGeneration, up to the call.               *)

ReadBody == Check("read", "auth", request.sound, 413, "request_too_large")
Authenticate == Check("auth", "parse", request.token # "bad", 401, "auth_failed")
Parse == Check("parse", "validate", \E i \in DOMAIN request.body : request.body[i][1] = "model", 400, "missing_model")

\* validateFirstFailed: at least one question, and no two with the same name.
Valid(names) ==
    /\ names # <<>>
    /\ \A i, j \in DOMAIN names :
          i # j /\ Trim[names[i]] # "" => Trim[names[i]] # Trim[names[j]]
Validate == Check("validate", "resolve", Decision => Valid(request.names), 400, "validation_failed")

Resolve == Check("resolve", "kind", request.kind # "none", 404, "model_not_found")
\* A decision wants a decision model; the image endpoint takes any model.
Kind == Check("kind", "permit", Decision => request.kind = "decision", 400, "decision_misroute")
Permit == Check("permit", "credential", request.token # "some", 403, "model_not_allowed")
Credential == Check("credential", "adapter", request.provider # "none", 502, "credential_unresolved")

\* handleDecisionTest, handleImgGenTest: the model and its first credential; a
\* test of an image model is refused while another one runs.
Probe ==
    \/ Check("probe", "adapter", request.kind = request.route /\ request.provider # "none", 400, "")
    \/ ~Decision /\ Check("probe", "adapter", FALSE, 429, "")

\* The adapters register themselves by name.
Adapter ==
    Check("adapter", "preflight",
          request.provider \in (IF Decision THEN {"openai", "typesafe"} ELSE {"minimax"}),
          502, "unsupported_provider")
Preflight == Check("preflight", "build", request.provider = "typesafe" => request.plain, 400, "typesafe_preflight_failed")

Model == CHOOSE i \in DOMAIN request.body : request.body[i][1] = "model"
ModelName == request.body[Model][2]

\* openaiDecisionProvider: the first place of the raw bytes where the quoted
\* model name stands is replaced, which has to change something.
OpenAIBody ==
    LET i == CHOOSE k \in DOMAIN request.body :
                /\ request.body[k][2] = ModelName
                /\ \A j \in 1..(k - 1) : request.body[j][2] # ModelName
    IN  [request.body EXCEPT ![i] = <<@[1], request.internal>>]
OpenAIBuilds == request.internal \notin {"", ModelName}

\* typesafeProvider: questions keyed by their trimmed names, none of them empty.
TypesafeBody == [i \in DOMAIN request.names |-> <<"question", Trim[request.names[i]]>>]
                \o <<<<"model", request.internal>>>>
TypesafeBuilds == Valid(request.names) /\ \A i \in DOMAIN request.names : Trim[request.names[i]] # ""

\* minimaxProvider: the body is decoded, and its model replaced when one is configured.
MinimaxBody ==
    IF request.internal = "" THEN request.body
    ELSE [request.body EXCEPT ![Model] = <<"model", request.internal>>]

\* BuildUpstream.
Build ==
    /\ pc = "build"
    /\ LET builds == CASE request.provider = "openai" -> OpenAIBuilds
                       [] request.provider = "typesafe" -> TypesafeBuilds
                       [] OTHER -> TRUE
       IN  IF builds
           THEN /\ sent' = (CASE request.provider = "openai" -> OpenAIBody
                              [] request.provider = "typesafe" -> TypesafeBody
                              [] OTHER -> MinimaxBody)
                /\ pc' = "call" /\ UNCHANGED <<reply, told>>
           ELSE /\ pc' = "end" /\ reply' = <<IF Decision THEN 502 ELSE 400, <<>>>>
                /\ Tell("build_failed") /\ UNCHANGED sent
    /\ UNCHANGED <<request, client, up, rows>>

-----------------------------------------------------------------------------
(* The call and what comes of it.                                          *)

\* The client hangs up while the handler works.
HangUp ==
    /\ ~request.admin /\ client = "here" /\ pc \in {"call", "inspect", "relay", "meter"}
    /\ client' = "gone"
    /\ UNCHANGED <<request, pc, sent, up, reply, rows, told>>

\* Variant for Meter: the counter is incremented under the request's context.
MeterAttached(images) ==
    IF client = "gone" THEN rows ELSE [requests |-> rows.requests + 1, images |-> rows.images + images]

\* meter, meterOnSuccess: the two increments run on a context of their own.
Meter(images) == [requests |-> rows.requests + 1, images |-> rows.images + images]

\* The request fails, times out, or its body cannot be read whole.  An image
\* call ends with its client, a decision does not.  Images count a request for
\* every call; decisions publish the failure twice.
CallFails ==
    /\ pc = "call"
    /\ \E outcome \in {"upstream_transport_error", "deadline", "upstream_read_failed", "response_too_large"} :
          /\ told' = IF request.admin THEN told
                     ELSE told \o (IF Decision THEN <<outcome, outcome>> ELSE <<outcome>>)
          /\ reply' = <<IF outcome = "deadline" THEN 504 ELSE 502, <<>>>>
    /\ rows' = IF Decision \/ request.admin THEN rows ELSE Meter(0)
    /\ pc' = "end"
    /\ UNCHANGED <<request, client, sent, up>>

\* What an upstream may list as its answers: those asked for, in any order, fewer, more.
Asked == [i \in DOMAIN request.names |-> <<request.names[i], Trim[request.names[i]]>>]
Lists == {<<>>, Asked, Reverse(Asked), Append(Asked, <<"else", "else">>)}

\* The body that came: nothing; something else than JSON; an error with a message or a
\* code (minimax sends it with status 200); JSON without what an answer must have, such
\* as an error without a message; or an answer, as a list from openai, by name from
\* typesafe.
CallReturns ==
    /\ pc = "call" /\ (client = "gone" => Decision)
    /\ \E kind \in {"empty", "garbled", "error", "bare", "good"}, status \in {200, 429, 500},
          list \in Lists, keys \in SUBSET {Trim[request.names[i]] : i \in DOMAIN request.names},
          images \in 0..1, failed \in 0..1, used \in BOOLEAN :
          /\ kind # "good" => keys = {} /\ list = <<>> /\ images = 0 /\ failed = 0
          /\ kind \notin {"good", "bare"} => ~used
          /\ IF Decision THEN images = 0 /\ failed = 0 ELSE ~used
          /\ request.provider # "openai" => list = <<>>
          /\ request.provider # "typesafe" => keys = {}
          /\ up' = [kind |-> kind, status |-> status, list |-> list, keys |-> keys,
                    images |-> images, failed |-> failed, used |-> used]
    /\ pc' = "relay"
    /\ UNCHANGED <<request, client, sent, reply, rows, told>>

\* InspectResponse: the body decides, never the HTTP status.  TypeSafe's takes any JSON
\* that reports no error with a message.
Passes(answer) == answer.kind = "good" \/ (request.provider = "typesafe" /\ answer.kind = "bare")

\* synthesizeAnswers: one answer per question, in their order.  The upstream's
\* answers are looked up by the name as the client wrote it.
synthesizeAnswers(names) ==
    [i \in DOMAIN names |-> <<names[i], IF names[i] \in up.keys THEN names[i] ELSE "refusal">>]

\* OpenAI's list is relayed as it came.
Answers == IF request.provider = "typesafe" THEN synthesizeAnswers(request.names) ELSE up.list

\* ExecuteTest puts an HTTP error before what the body says.
TestStatus ==
    IF up.status >= 400 THEN up.status ELSE IF Passes(up) THEN 200 ELSE 502

\* The status of the upstream with the (typed) body, or 502 with the body as it is.
Relay ==
    /\ pc = "relay"
    /\ reply' = IF request.admin THEN <<TestStatus, IF TestStatus = 200 THEN Answers ELSE <<>>>>
                ELSE IF Passes(up) THEN <<up.status, Answers>> ELSE <<502, <<>>>>
    /\ pc' = IF request.admin THEN "end" ELSE "meter"
    /\ UNCHANGED <<request, client, sent, up, rows, told>>

\* Decisions count an answer with a usage, images every request; then the outcome is published.
MeterAndTell ==
    /\ pc = "meter"
    /\ rows' = CASE Decision /\ ~(Passes(up) /\ up.used) -> rows
                 [] Decision /\ Passes(up) /\ up.used -> Meter(0)
                 [] OTHER -> Meter(IF Passes(up) THEN up.images ELSE 0)
    /\ Tell(IF ~Passes(up) THEN "error" ELSE IF up.failed > 0 THEN "partial_success" ELSE "success")
    /\ pc' = "end"
    /\ UNCHANGED <<request, client, sent, up, reply>>

Next ==
    \/ ReadBody \/ Authenticate \/ Parse \/ Validate \/ Resolve \/ Kind \/ Permit \/ Credential
    \/ Probe \/ Adapter \/ Preflight \/ Build \/ HangUp \/ CallFails \/ CallReturns \/ Relay \/ MeterAndTell

Spec == Init /\ [][Next]_vars

-----------------------------------------------------------------------------
Ended == pc = "end"
Called == sent # <<>>

\* The shape of the state.
TypeOK ==
    /\ request \in Requests /\ client \in {"here", "gone"}
    /\ up.kind \in {"none", "empty", "garbled", "error", "bare", "good"}
    /\ reply[1] \in {0, 200, 400, 401, 403, 404, 413, 429, 500, 502, 504}
    /\ rows.requests \in 0..1 /\ rows.images \in 0..rows.requests
    /\ Len(told) <= 2

\* What is counted is what was done, also for a client that has gone: an image
\* request once per call made upstream, a decision once per answer that
\* reports a usage, and the images of a success only.  A test is never counted.
MeteredOnce ==
    Ended => /\ rows.requests = IF ~request.admin /\ Called /\ (Decision => reply[1] = up.status /\ up.used) THEN 1 ELSE 0
             /\ rows.images = IF request.admin THEN 0 ELSE up.images

\* No error that a provider reports with a message or a code is relayed as a success,
\* whatever its HTTP status says; and where a body that is no answer gets through,
\* TypeSafe's, every question is answered with a refusal.
NoFalseSuccess ==
    Ended /\ reply[1] = 200 =>
        /\ up.status = 200
        /\ \/ up.kind = "good"
           \/ /\ up.kind = "bare" /\ request.provider = "typesafe"
              /\ \A i \in DOMAIN reply[2] : reply[2][i][2] = "refusal"

\* The answers made from TypeSafe's are one per question in the order asked, and each
\* is the upstream's answer to that question or a refusal.
OwnAnswers ==
    Ended /\ request.provider = "typesafe" /\ reply[2] # <<>> =>
        /\ Len(reply[2]) = Len(request.names)
        /\ \A i \in DOMAIN request.names :
              /\ reply[2][i][1] = request.names[i]
              /\ reply[2][i][2] \in {"refusal", Trim[request.names[i]]}

\* What the two endpoints promise.
SideSound == TypeOK /\ NoFalseSuccess /\ MeteredOnce /\ OwnAnswers
=============================================================================
