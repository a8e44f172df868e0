----------------------------- MODULE McpGateway -----------------------------
(***************************************************************************)
(* The MCP gateway (pkg/mcp): a table of upstream servers edited through   *)
(* the administration API, the SSE connections that clients hold through   *)
(* the proxy, the registry of their cancel functions by which a deletion   *)
(* or a shutdown cuts them, and the requests that are simply forwarded.    *)
(*                                                                         *)
(* An SSE line is "endpoint" or "message" (an event: line of that type),   *)
(* "id" (a line that is neither event: nor data:), "path" (a data: line    *)
(* with a URL or an absolute path of the upstream), "text" (any other      *)
(* data: line) or "" (the line that ends an event); the proxy rewrites     *)
(* "path" to "proxied".  An Authorization header is "none", the "client"'s *)
(* own, or a stored token; "masked" is the token a listing shows.          *)
(***************************************************************************)
EXTENDS Naturals, Sequences, SequencesExt, FiniteSets

CONSTANTS
    Servers, Conns,
    Tokens,     \* the tokens an administrator may store
    Urls,       \* the upstream addresses
    MaxLines,   \* lines an upstream sends over one connection
    MaxEdits    \* operations of the administration API

\* A stored token is none of the words that stand for the absence of one or for the
\* client's own header; it may be a listing's masked one (see Create).
McpAssumption ==
    /\ Servers # {} /\ Urls # {} /\ "nil" \notin Urls /\ MaxEdits \in Nat
    /\ Tokens \cap {"none", "client", "nil", ""} = {}

VARIABLES
    row,        \* the table: server -> its record, or Absent
    edit,       \* the deletion under way
    edits,      \* operations begun
    conn,       \* each connection's handler
    registry,   \* server -> its registered cancel functions, in order
    lines,      \* history: the lines each connection's handler has used
    wire,       \* the lines each connection's client has got
    sent,       \* the address and the Authorization header of the last request made upstream
    paired      \* history: the addresses and tokens that were columns of one row

vars == <<row, edit, edits, conn, registry, lines, wire, sent, paired>>

Absent == [on |-> FALSE, auth |-> "absent", token |-> "", url |-> ""]
Exists(s) == row[s] # Absent
NoEvent == [type |-> "", raw |-> <<>>, data |-> <<>>]
Idle == [op |-> "idle", server |-> CHOOSE s \in Servers : TRUE]
Pairs(table) == {[url |-> table[s].url, token |-> table[s].token] : s \in Servers}

Init ==
    /\ row \in [Servers -> {Absent} \cup [on : {TRUE}, auth : {"bearer"}, token : Tokens, url : Urls]]
    /\ edit = Idle /\ edits = 0
    /\ conn = [c \in Conns |-> [stage |-> "idle", server |-> Idle.server, row |-> Absent, cut |-> FALSE, cur |-> NoEvent]]
    /\ registry = [s \in Servers |-> <<>>]
    /\ lines = [c \in Conns |-> <<>>] /\ wire = [c \in Conns |-> <<>>]
    /\ sent = [to |-> "", auth |-> "none"] /\ paired = Pairs(row)

\* injectAuth: the server's own token, whatever the client's header was.
Authorization(server) == IF server.auth = "none" THEN "none" ELSE server.token
Asks(server) == sent' = [to |-> server.url, auth |-> Authorization(server)]

\* One row of the table is written.
Stored(s, record) ==
    /\ row' = [row EXCEPT ![s] = record]
    /\ paired' = paired \cup {[url |-> record.url, token |-> record.token]}

-----------------------------------------------------------------------------
(* The administration API.                                                 *)

\* ValidateMCPServerConfig, CreateServer.  The id is unique in the table.  Any
\* token that is not blank is taken, the masked one of a listing too.
Create(s) ==
    /\ edit = Idle /\ edits < MaxEdits /\ ~Exists(s)
    /\ \E auth \in {"none", "bearer"}, token \in Tokens \cup {"", "masked"}, on \in BOOLEAN, url \in Urls :
          /\ auth # "none" => token # ""
          /\ Stored(s, [on |-> on, auth |-> auth, token |-> token, url |-> url])
    /\ edits' = edits + 1
    /\ UNCHANGED <<edit, conn, registry, lines, wire, sent>>

\* ValidateUpdateMCPServerConfig against the record read before; a field is
\* "nil" when the request does not carry it.  A masked token is refused here.
ValidUpdate(existing, auth, token) ==
    /\ token # "masked"
    /\ token = "" => (IF auth = "nil" THEN existing.auth ELSE auth) = "none"

\* handleUpdateMCPServer, UpdateServer: only the columns named are set (a field not
\* named is one set to what it was), and a blank token keeps the stored one, so a
\* request validated against a record that is overwritten meanwhile has the same
\* effect.
Update(s) ==
    /\ edit = Idle /\ edits < MaxEdits /\ Exists(s)
    /\ \E auth \in {"nil", "none", "bearer"}, token \in Tokens \cup {"nil", "", "masked"},
          on \in BOOLEAN, url \in Urls \cup {"nil"} :
          /\ ValidUpdate(row[s], auth, token)
          /\ Stored(s, [on |-> on, auth |-> IF auth = "nil" THEN row[s].auth ELSE auth,
                        url |-> IF url = "nil" THEN row[s].url ELSE url,
                        token |-> IF token \in {"nil", ""} THEN row[s].token ELSE token])
    /\ edits' = edits + 1
    /\ UNCHANGED <<edit, conn, registry, lines, wire, sent>>

\* Variant for CloseConnections: every server's connections are cut.
CloseConnectionsAll(s) ==
    /\ conn' = [c \in Conns |-> [conn[c] EXCEPT !.cut = @ \/ \E t \in Servers : c \in ToSet(registry[t])]]
    /\ registry' = [registry EXCEPT ![s] = <<>>]

\* CloseConnections: every cancel function registered for s is called.
CloseConnections(s) ==
    /\ conn' = [c \in Conns |-> [conn[c] EXCEPT !.cut = @ \/ c \in ToSet(registry[s])]]
    /\ registry' = [registry EXCEPT ![s] = <<>>]

\* handleDeleteMCPServer cuts the connections first and deletes the row next.
BeginDelete(s) ==
    /\ edit = Idle /\ edits < MaxEdits
    /\ CloseConnections(s)
    /\ edit' = [op |-> "delete", server |-> s]
    /\ edits' = edits + 1
    /\ UNCHANGED <<row, lines, wire, sent, paired>>

FinishDelete ==
    /\ edit.op = "delete"
    /\ \/ row' = [row EXCEPT ![edit.server] = Absent]
       \/ UNCHANGED row        \* the store failed
    /\ edit' = Idle
    /\ UNCHANGED <<edits, conn, registry, lines, wire, sent, paired>>

\* handleTestMCPServer: a request of the proxy's own, with the stored token.
TestServer(s) ==
    /\ Exists(s)
    /\ Asks(row[s])
    /\ UNCHANGED <<row, edit, edits, conn, registry, lines, wire, paired>>

\* Shutdown: CloseAll.
Shutdown ==
    /\ conn' = [c \in Conns |-> [conn[c] EXCEPT !.cut = @ \/ \E s \in Servers : c \in ToSet(registry[s])]]
    /\ registry' = [s \in Servers |-> <<>>]
    /\ conn' # conn
    /\ UNCHANGED <<row, edit, edits, lines, wire, sent, paired>>

-----------------------------------------------------------------------------
(* Requests that are forwarded.                                            *)

\* ForwardHTTPRequest: the client's headers without the blocked ones, then the
\* server's own credentials.
Forward(server) == Asks(server)

\* handleSSEMessage: a POST to an existing server, enabled or not.
Message(s) ==
    /\ Exists(s)
    /\ Forward(row[s])
    /\ UNCHANGED <<row, edit, edits, conn, registry, lines, wire, paired>>

\* handleStreamableHTTP: the same for an enabled server; the body is copied.
Streamable(s) ==
    /\ Exists(s) /\ row[s].on
    /\ Forward(row[s])
    /\ UNCHANGED <<row, edit, edits, conn, registry, lines, wire, paired>>

-----------------------------------------------------------------------------
(* An SSE connection: handleSSEConnection.                                 *)

\* The row is read, the server must be enabled, and the 200 is flushed.
Accept(c, s) ==
    /\ conn[c].stage = "idle" /\ Exists(s) /\ row[s].on
    /\ conn' = [conn EXCEPT ![c] = [stage |-> "accepted", server |-> s, row |-> row[s],
                                    cut |-> FALSE, cur |-> NoEvent]]
    /\ UNCHANGED <<row, edit, edits, registry, lines, wire, sent, paired>>

Register(c) ==
    /\ conn[c].stage = "accepted"
    /\ conn' = [conn EXCEPT ![c].stage = "registered"]
    /\ registry' = [registry EXCEPT ![conn[c].server] = Append(@, c)]
    /\ UNCHANGED <<row, edit, edits, lines, wire, sent, paired>>

\* The client hangs up: r.Context() is cancelled, and the handler's with it.
HangUp(c) ==
    /\ conn[c].stage \in {"accepted", "registered", "open"} /\ ~conn[c].cut
    /\ conn' = [conn EXCEPT ![c].cut = TRUE]
    /\ UNCHANGED <<row, edit, edits, registry, lines, wire, sent, paired>>

\* ConnectUpstream: 200, or anything else, which ends the handler.
Connect(c) ==
    /\ conn[c].stage = "registered"
    /\ \E ok \in BOOLEAN :
          /\ ok => ~conn[c].cut
          /\ conn' = [conn EXCEPT ![c].stage = IF ok THEN "open" ELSE "leaving"]
    /\ Asks(conn[c].row)
    /\ UNCHANGED <<row, edit, edits, registry, lines, wire, paired>>

\* rewriteEndpointData.
Rewritten(data) == [i \in DOMAIN data |-> IF data[i] = "path" THEN "proxied" ELSE data[i]]

\* flushSSEEvent: the raw lines, then the data lines, then the blank line.
Flushed(event) ==
    event.raw \o (IF event.type = "endpoint" THEN Rewritten(event.data) ELSE event.data) \o <<"">>
Flush(event) == IF event.raw = <<>> /\ event.data = <<>> THEN <<>> ELSE Flushed(event)

\* What streamSSEEvents does with one line of an event.
Collect(event, line) ==
    CASE line \in {"endpoint", "message"} ->
            [event EXCEPT !.type = line, !.raw = Append(@, line)]
      [] line = "id" -> [event EXCEPT !.raw = Append(@, line)]
      [] line \in {"path", "text"} -> [event EXCEPT !.data = Append(@, line)]

\* One line is scanned; a context cancelled by now ends the loop before it is used.
ReadLine(c) ==
    /\ conn[c].stage = "open" /\ Len(lines[c]) < MaxLines
    /\ \/ /\ conn[c].cut
          /\ conn' = [conn EXCEPT ![c].stage = "leaving"] /\ UNCHANGED <<lines, wire>>
       \/ \E line \in {"endpoint", "message", "id", "path", "text", ""} :
          /\ ~conn[c].cut
          /\ lines' = [lines EXCEPT ![c] = Append(@, line)]
          /\ \/ /\ line = ""
                /\ wire' = [wire EXCEPT ![c] = @ \o Flush(conn[c].cur)]
                /\ conn' = [conn EXCEPT ![c].cur = NoEvent]
             \/ /\ line # ""
                /\ conn' = [conn EXCEPT ![c].cur = Collect(@, line)] /\ UNCHANGED wire
    /\ UNCHANGED <<row, edit, edits, registry, sent, paired>>

\* The upstream ends, fails, or its request is cancelled: what has been
\* collected of the last event is flushed.
EndOfStream(c) ==
    /\ conn[c].stage = "open"
    /\ wire' = [wire EXCEPT ![c] = @ \o Flush(conn[c].cur)]
    /\ conn' = [conn EXCEPT ![c].stage = "leaving", ![c].cur = NoEvent]
    /\ UNCHANGED <<row, edit, edits, registry, lines, sent, paired>>

\* Unregister compares the functions by %p.  The cancel functions of
\* context.WithCancel are closures of one function, whose address %p prints:
\* the first entry of the server always matches.
Unregister(c) ==
    /\ conn[c].stage = "leaving"
    /\ registry' = [registry EXCEPT ![conn[c].server] = IF @ = <<>> THEN @ ELSE Tail(@)]
    /\ conn' = [conn EXCEPT ![c].stage = "ended"]
    /\ UNCHANGED <<row, edit, edits, lines, wire, sent, paired>>

Next ==
    \/ \E s \in Servers : Create(s) \/ Update(s) \/ BeginDelete(s) \/ TestServer(s)
                          \/ Message(s) \/ Streamable(s)
    \/ FinishDelete \/ Shutdown
    \/ \E c \in Conns, s \in Servers : Accept(c, s)
    \/ \E c \in Conns : Register(c) \/ HangUp(c) \/ Connect(c) \/ ReadLine(c) \/ EndOfStream(c) \/ Unregister(c)

Spec == Init /\ [][Next]_vars

-----------------------------------------------------------------------------
\* Reference for the stream: the lines between two blank ones are one event,
\* relayed with its data lines last, and its paths are the proxy's exactly
\* when the last type it names is endpoint.
IsType(line) == line \in {"endpoint", "message"}
IsRaw(line) == IsType(line) \/ line = "id"
IsData(line) == line \in {"path", "text"}
EventOf(segment) ==
    LET types == SelectSeq(segment, IsType)
        data == SelectSeq(segment, IsData)
    IN  IF segment = <<>> THEN <<>>
        ELSE SelectSeq(segment, IsRaw)
             \o (IF types # <<>> /\ Last(types) = "endpoint" THEN [i \in DOMAIN data |->
                    IF data[i] = "path" THEN "proxied" ELSE data[i]] ELSE data)
             \o <<"">>
Blanks(sq) == {0} \cup {i \in DOMAIN sq : sq[i] = ""}
\* The segment that starts after position i.
SegmentAt(sq, i) ==
    LET ends == {j \in Blanks(sq) \cup {Len(sq) + 1} : j > i}
        stop == CHOOSE j \in ends : \A k \in ends : j <= k
    IN  SubSeq(sq, i + 1, stop - 1)
Whole(sq) ==
    LET closed == SetToSortSeq({i \in Blanks(sq) : \E j \in Blanks(sq) : j > i}, <)
    IN  FlattenSeq([k \in DOMAIN closed |-> EventOf(SegmentAt(sq, closed[k]))])

\* What streamSSEEvents has written is what the events received call for: nothing
\* of an event before its end, nothing of one event in another, an endpoint event
\* names the proxy's path whatever the order of its lines, and only the end of the
\* stream, which closes the event it cuts off, lets one through early.
EventsWhole ==
    \A c \in Conns :
        \/ wire[c] = Whole(lines[c])
        \/ conn[c].stage \in {"leaving", "ended"} /\ wire[c] = Whole(Append(lines[c], ""))

\* Deleting a server or hanging up cuts connections of that server only
\* (CloseConnections works on the registry, which other connections edit).
CutsOwn ==
    [][\A c \in DOMAIN conn : conn'[c].cut /\ ~conn[c].cut =>
          \/ edit'.op = "delete" /\ edit'.server = conn[c].server
          \/ edit' = edit /\ \A s \in DOMAIN registry : registry'[s] = <<>>
          \/ edit' = edit /\ registry' = registry]_vars

\* A request to an upstream carries no credentials or those an administrator stored
\* with the very address it goes to: not another server's, not a later or an earlier
\* address's although the row is edited while a connection holds what it read, and
\* not the client's own header (ForwardHTTPRequest, ConnectUpstream, injectAuth).
TokenStaysHere ==
    sent.auth = "none" \/ [url |-> sent.to, token |-> sent.auth] \in paired

\* When a server is deleted every connection registered for it is cut
\* (handleDeleteMCPServer: "Close any active connections for this server").
DeleteCutsAll ==
    [][edit'.op = "delete" /\ edit.op # "delete" =>
          \A c \in Conns : conn[c].stage \in {"registered", "open"} /\ conn[c].server = edit'.server
                           => conn'[c].cut]_vars

\* The shape of the state.
Records == [on : BOOLEAN, auth : {"none", "bearer"}, token : Tokens \cup {"", "masked"}, url : Urls]
TypeOK ==
    /\ \A s \in Servers : row[s] \in {Absent} \cup Records
    /\ edits \in 0..MaxEdits
    /\ \A c \in Conns : conn[c].stage \in {"idle", "accepted", "registered", "open", "leaving", "ended"}
    /\ \A s \in Servers : ToSet(registry[s]) \subseteq Conns

\* What the gateway promises of tokens and of the registry.
RegistrySound == [](TypeOK /\ TokenStaysHere) /\ CutsOwn
=============================================================================
