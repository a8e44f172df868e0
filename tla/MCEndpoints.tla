----------------------------- MODULE MCEndpoints -----------------------------
(* Small instances of what answers a client, one per behaviour: part is     *)
(* chosen at the start and says which instance takes the steps.             *)
EXTENDS Endpoints, TLC, Integers

CONSTANTS
    Parts,      \* the behaviours to look at
    c1, c2, p, q

VARIABLES part,
    cache, call, spent, tries, removed,
    mode, up, chan, producer, consumer, builders, total, tr, wire, taken, lost,
    row, edit, edits, conn, registry, lines, relayed, header, paired,
    members, balancer, servable, routed, good, moves, time

ultimateVars == <<cache, call, spent, tries, removed>>
chatVars == <<in, pc, ctx, log, reply, called, counted, rows>>
messageVars == <<req, setup, at, list, idx, retried, reentered, headers, last, client, entry, outcome, calls>>
streamVars == <<mode, up, chan, producer, consumer, builders, total, tr, wire, taken, lost>>
mcpVars == <<row, edit, edits, conn, registry, lines, relayed, header, paired>>
sideVars == <<request, step, caller, sent, upstream, answer, usage, told>>
routeVars == <<members, balancer, servable, routed, good, moves, time>>
vars == <<part, ultimateVars, chatVars, messageVars, streamVars, mcpVars, sideVars, routeVars>>

-----------------------------------------------------------------------------
Reply(stream, buffered) == [stream |-> stream, buffered |-> buffered]
\* Three conversations on a ring of two: attempts are counted, answered, refused.
Counted == INSTANCE UltimateModel WITH
    Procs <- {p, q}, Hashes <- {"a", "b", "c"}, Size <- 2, Milestones <- {2}, MaxAttempts <- 3, ToolCalls <- {},
    Creds <- {"k"}, Answers <- {"error", "ok"}, Responses <- {Reply(FALSE, FALSE)}, Removable <- FALSE, MaxEvents <- 0, MaxBeats <- 0, Budget <- 4
\* It answers, also with tool calls, or turns away one of two credentials.
Serving == INSTANCE UltimateModel WITH
    Procs <- {p}, Hashes <- {"a"}, Size <- 2, Milestones <- {2}, MaxAttempts <- 3, ToolCalls <- {"x", "y"},
    Creds <- {"k", "l"}, Answers <- {"ok", "limited"},
    Responses <- {Reply(FALSE, FALSE), Reply(TRUE, FALSE), Reply(TRUE, TRUE)}, Removable <- TRUE, MaxEvents <- 3, MaxBeats <- 1, Budget <- 1

\* No token store, a bad token, or a token for any of the two models.
Bearers == {[state |-> "off", list |-> {}], [state |-> "bad", list |-> {}]}
           \cup [state : {"valid"}, list : SUBSET {"m", "u"}]
\* A model with one fallback, and the list of the group's second member.
Posted == [kind : {"none", "decision", "chat", "group"}, stream : BOOLEAN, buffer : BOOLEAN, healthy : BOOLEAN]
First == <<"m", "f">>
Second == <<"n", "f">>
Offers == [provider : [{"m", "f", "n"} -> {"anthropic", "openai"}], multi : BOOLEAN]

\* Two calls at once, to a live and to a buffered client, held and not; a call too
\* large from its first fragment on; more calls than a stream may have.
Mode(live, buffered, tools, joint, size) ==
    [live |-> live, buffered |-> buffered, calls |-> tools, joint |-> joint, size |-> size]
Modes == {Mode(TRUE, TRUE, {0, 1}, TRUE, 1), Mode(FALSE, TRUE, {0, 1}, FALSE, 1),
          Mode(TRUE, FALSE, {0, 1}, TRUE, 1), Mode(FALSE, FALSE, {0}, FALSE, 1),
          Mode(TRUE, TRUE, {0, 1}, TRUE, 3), Mode(FALSE, TRUE, {0, 1, 2, 3}, TRUE, 1)}
Stream == INSTANCE LiveStream WITH
    Setups <- Modes, Pieces <- 2, MaxSize <- 2, MaxToolCalls <- 3, ChanCap <- 2, MaxLines <- 5, setup <- mode

\* Two connections to two servers while one is edited; the lines of one connection.
Registry == INSTANCE McpGateway WITH
    Conns <- {c1, c2}, Servers <- {"s", "t"}, Tokens <- {"x", "masked"}, Urls <- {"u", "v"}, MaxLines <- 0, MaxEdits <- 1,
    wire <- relayed, sent <- header
Upstream(url, token) == [on |-> TRUE, auth |-> "bearer", token |-> token, url |-> url]
Sse == INSTANCE McpGateway WITH
    Conns <- {c1}, Servers <- {"s"}, Tokens <- {"x"}, Urls <- {"u"}, MaxLines <- 5, MaxEdits <- 0,
    wire <- relayed, sent <- header

Trimmed == ("a" :> "a") @@ (" a" :> "a") @@ ("b" :> "b") @@ ("" :> "")
\* The model named first, after another field of the same text, and not at all.
Plain == <<<<"model", "m">>, <<"input", "x">>>>
Bodies == {Plain, <<<<"input", "m">>, <<"model", "m">>>>, <<<<"input", "x">>>>}
Bearer == {"off", "bad", "some", "listed"}
Asked == [route : {"decision"}, admin : {FALSE}, sound : BOOLEAN, body : Bodies,
          names : {<<>>, <<"a", "b">>, <<"b", " a">>, <<"a", " a">>, <<"", "b">>},
          token : Bearer, kind : {"none", "decision", "image"},
          provider : {"none", "openai", "typesafe", "minimax"}, internal : {"", "m", "i"}, plain : BOOLEAN]
Drawn == [route : {"image"}, admin : {FALSE}, sound : BOOLEAN, body : Bodies, names : {<<>>},
          token : Bearer, kind : {"none", "decision", "image"},
          provider : {"none", "openai", "minimax"}, internal : {"", "i"}, plain : {TRUE}]
Tried == [route : {"decision", "image"}, admin : {TRUE}, sound : {TRUE}, body : {Plain}, names : {<<"a">>},
          token : {"off"}, kind : {"decision", "image"}, provider : {"none", "openai", "typesafe", "minimax"},
          internal : {"", "m", "i"}, plain : {TRUE}]
SidePosted == Asked \cup Drawn \cup Tried

\* A group of two defaults with a backup, of one default with two, of one default.
Lists == {("a" :> "default") @@ ("b" :> "default") @@ ("c" :> "backup"),
          ("a" :> "default") @@ ("b" :> "backup") @@ ("c" :> "backup"), "a" :> "default"}
Route == INSTANCE GroupRouting WITH
    Requests <- {p}, Key <- "k", Keys <- {"k"}, Members <- {"a", "b", "c"}, Configs <- Lists,
    Ttl <- 2, Cooldown <- 2, Seeded <- FALSE, MaxEdits <- 1, MaxClock <- 3,
    row <- members, eng <- balancer, req <- routed, edits <- moves, clock <- time

\* The instances satisfy what the components assume.
ASSUME HypothesesAssumption ==
    /\ Counted!UltimateAssumption /\ Serving!UltimateAssumption
    /\ Chat!ChatAssumption /\ Message!MessageAssumption /\ Side!SideAssumption
    /\ Registry!McpAssumption /\ Sse!McpAssumption

-----------------------------------------------------------------------------
\* A part that takes no step stays in one of its initial states.
Init ==
    /\ part \in Parts
    /\ IF part = "serving" THEN Serving!Init ELSE Counted!Init
    /\ \/ part = "chat"
       \/ in = [kind |-> "none", token |-> [state |-> "off", list |-> {}], force |-> FALSE, stream |-> FALSE,
                ultimate |-> FALSE, configured |-> FALSE, target |-> "none"]
    /\ Chat!Init
    /\ \/ part = "message"
       \/ /\ req = [kind |-> "none", stream |-> FALSE, buffer |-> FALSE, healthy |-> TRUE]
          /\ setup = [provider |-> [m \in {"m", "f", "n"} |-> "openai"], multi |-> FALSE]
    /\ Message!Init
    /\ Stream!Init /\ (part # "stream" => mode = Mode(FALSE, FALSE, {0}, FALSE, 1))
    /\ \/ part = "sse" /\ Sse!Init
       \/ part = "registry" /\ Registry!Init /\ row["s"] = Upstream("u", "x") /\ row["t"] \in {Registry!Absent, Upstream("v", "masked")}
       \/ part \notin {"registry", "sse"} /\ row = [s \in {"s", "t"} |-> Registry!Absent] /\ Registry!Init
    /\ \/ part = "side"
       \/ request = [route |-> "image", admin |-> TRUE, sound |-> TRUE, body |-> Plain, names |-> <<"a">>,
                     token |-> "off", kind |-> "image", provider |-> "none", internal |-> "", plain |-> TRUE]
    /\ Side!Init
    /\ \/ part = "route"
       \/ members = ("a" :> "default") /\ servable = {}
    /\ Route!Init

Next ==
    \/ /\ \/ part = "counted" /\ Counted!Next
          \/ part = "serving" /\ Serving!Next
       /\ UNCHANGED <<part, chatVars, messageVars, streamVars, mcpVars, sideVars, routeVars>>
    \/ part = "chat" /\ Chat!Next /\ UNCHANGED <<part, ultimateVars, messageVars, streamVars, mcpVars, sideVars, routeVars>>
    \/ part = "message" /\ Message!Next /\ UNCHANGED <<part, ultimateVars, chatVars, streamVars, mcpVars, sideVars, routeVars>>
    \/ part = "stream" /\ Stream!Next /\ UNCHANGED <<part, ultimateVars, chatVars, messageVars, mcpVars, sideVars, routeVars>>
    \/ /\ \/ part = "registry" /\ Registry!Next
          \/ part = "sse" /\ Sse!Next
       /\ UNCHANGED <<part, ultimateVars, chatVars, messageVars, streamVars, sideVars, routeVars>>
    \/ part = "side" /\ Side!Next /\ UNCHANGED <<part, ultimateVars, chatVars, messageVars, streamVars, mcpVars, routeVars>>
    \/ part = "route" /\ Route!Next /\ UNCHANGED <<part, ultimateVars, chatVars, messageVars, streamVars, mcpVars, sideVars>>

\* Routing waits for nobody.
Spec == Init /\ [][Next]_vars /\ WF_routeVars(part = "route" /\ Route!RequestStep(p))

-----------------------------------------------------------------------------
\* The ultimate model: a conversation is never sent to it too early, and as long as
\* none was taken out of the ring, one is found exactly if it is counted; its second
\* credential is asked only before the answer begins; the logged answer is the one
\* on the wire.
UltimateSound ==
    /\ part = "counted" => Counted!TypeOK /\ Counted!CountedIsFound /\ Counted!NeverEarly
    /\ part = "serving" => Serving!CaptureMatchesWire /\ Serving!FailoverBeforeAnswer
\* A client that waited is answered with something.
Answered == part = "message" => Message!Answered
\* The events sent to an Anthropic client are well nested, also after an error,
\* and the tool calls held in the buffer reach the wire before a stream ends well.
StreamSound == part = "stream" => Stream!WireGrammar /\ Stream!HeldCallsLand
\* The MCP gateway: an event reaches its client whole; an upstream gets no credentials
\* but those stored with its address; closing a server's connections cuts no other's.
GatewaySound ==
    /\ [](/\ part = "registry" => Registry!TypeOK /\ Registry!TokenStaysHere
         /\ part = "sse" => Sse!TypeOK /\ Sse!TokenStaysHere /\ Sse!EventsWhole)
    /\ Registry!CutsOwn
\* Deleting a server cuts every connection registered for it.
DeleteCutsAll == Registry!DeleteCutsAll
\* A request for a group is routed or refused: its tries over the pools are bounded.
RequestsEnd == part = "route" => Route!RequestsEnd
=============================================================================
