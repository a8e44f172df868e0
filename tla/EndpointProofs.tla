--------------------------- MODULE EndpointProofs ---------------------------
(***************************************************************************)
(* Proofs about what answers a client: the chat, Anthropic, decision and   *)
(* image endpoints, the MCP gateway and the ultimate model.  Each is       *)
(* instantiated under its own name, with constants left open.              *)
(*                                                                         *)
(* Most of them are one request that runs through a handler, so their      *)
(* invariants say what has been established when the handler is at a given *)
(* point.                                                                  *)
(***************************************************************************)
EXTENDS Endpoints, TLAPS

-----------------------------------------------------------------------------
(* A chat request.                                                         *)

\* Before the ultimate model or the race; with a token that is not bad; with one
\* that allows the model asked for.
Early == {"start", "refuse unreadable", "refuse unavailable", "refuse unknown", "auth", "route",
          "permit", "find", "gate", "decide"}
Known == {"route", "permit", "find", "gate", "decide", "ultimate", "race", "racing"}
Permitted == {"find", "gate", "decide", "ultimate", "race", "racing"}
Asked == {"row", "member", "other", "fallback", "ultimate"}
\* The token lists the ultimate model, or the name asked for stands for it.
UltimateAllowed == Chat!Allowed(in.target) \/ in.target = Chat!Row

ChatTypes ==
    /\ in.token \in Tokens /\ in.stream \in BOOLEAN /\ (in.configured => in.target # "none")
    /\ ctx \in [member : BOOLEAN, headers : BOOLEAN, again : BOOLEAN, deferred : BOOLEAN]
    /\ rows \in [due : SUBSET Chat!Keys, written : SUBSET Chat!Keys]
    /\ called \subseteq Asked /\ log \in {"none", "running", "completed", "failed"}
    /\ pc \in Early \cup Known \cup {"end"}

\* What the handler has established on its way.
ChatPath ==
    /\ pc # "end" => reply = "none" /\ rows.due = {} /\ rows.written = {}
    /\ pc = "refuse unknown" => log = "failed"
    /\ pc \in {"start", "refuse unreadable"} => log = "none"
    /\ pc \in Known \cup {"refuse unavailable", "auth"} => log = "running"
    /\ pc \in Early => called = {} /\ counted = FALSE
    /\ pc \in Known => in.token.state # "bad"
    /\ pc \in Permitted => Chat!Allowed("m")
    /\ pc \in {"decide", "ultimate", "race", "racing"} /\ Chat!Enabled /\ in.configured => UltimateAllowed
    /\ pc = "ultimate" => called = {} /\ Chat!Enabled /\ in.configured
    /\ pc \in {"race", "racing"} => "ultimate" \notin called
    /\ pc = "racing" => called # {}

ChatInv == ChatTypes /\ ChatPath /\ Chat!PermissionFirst /\ Chat!LogMatchesReply /\ Chat!MeteredAnswers

\* The rows a request is due are keys; the member's needs a member, the token's
\* a valid token.
LEMMA DueKeys ==
  ASSUME NEW m \in BOOLEAN
  PROVE  /\ Chat!Due(m) \subseteq Chat!Keys
         /\ "token" \in Chat!Due(m) => Chat!Authenticated
         /\ "member" \in Chat!Due(m) => m
  BY DEF Chat!Due, Chat!Keys

\* Whether a request is put off is one or the other.
LEMMA Deferrable == Chat!Unresolvable \in BOOLEAN
  BY DEF Chat!Unresolvable

\* The path up to the ultimate model and the race.
LEMMA ChatAdmission ==
  ASSUME Chat!ChatAssumption, ChatInv,
         Chat!Admit \/ Chat!Refuse \/ Chat!Misroute \/ Chat!Authenticate \/ Chat!Route \/ Chat!Permit
         \/ Chat!Find \/ Chat!UltimatePermit \/ Chat!Decide
  PROVE  ChatInv'
  <1> USE DEF ChatInv, ChatPath, Early, Known, Permitted, Chat!PermissionFirst, Chat!LogMatchesReply,
              Chat!MeteredAnswers, Chat!Allowed, Chat!Enabled, Chat!Authenticated, Chat!ChatAssumption,
              Chat!Goto, Chat!Reply, Chat!Fail, Chat!Quiet
  <1>a. UNCHANGED <<in, rows, called>>
    BY DEF Chat!Admit, Chat!Refuse, Chat!Misroute, Chat!Authenticate, Chat!Route, Chat!Permit, Chat!Find,
           Chat!UltimatePermit, Chat!Decide
  <1>b. ctx' \in [member : BOOLEAN, headers : BOOLEAN, again : BOOLEAN, deferred : BOOLEAN]
    <2>1. ctx \in [member : BOOLEAN, headers : BOOLEAN, again : BOOLEAN, deferred : BOOLEAN]
      BY DEF ChatTypes
    <2>2. \/ ctx' = ctx \/ ctx' = [ctx EXCEPT !.deferred = Chat!Unresolvable]
          \/ ctx' = [ctx EXCEPT !.member = TRUE]
      BY DEF Chat!Admit, Chat!Refuse, Chat!Misroute, Chat!Authenticate, Chat!Route, Chat!Permit, Chat!Find,
             Chat!UltimatePermit, Chat!Decide
    <2>3. QED  BY <2>1, <2>2, Deferrable, Zenon
  <1>c. pc' \in Early \cup Known \cup {"end"} /\ log' \in {"none", "running", "completed", "failed"}
    BY DEF ChatTypes, Chat!Admit, Chat!Refuse, Chat!Misroute, Chat!Authenticate, Chat!Route, Chat!Permit,
           Chat!Find, Chat!UltimatePermit, Chat!Decide
  <1>d. ChatTypes'  BY <1>a, <1>b, <1>c DEF ChatTypes, Chat!Keys
  <1>t. in.token.state \in {"off", "bad", "valid"}  BY DEF ChatTypes
  <1> HIDE DEF Chat!ChatAssumption
  <1>1. CASE Chat!Admit  BY <1>a, <1>d, <1>1 DEF Chat!Admit
  <1>2. CASE Chat!Refuse  BY <1>a, <1>d, <1>2 DEF Chat!Refuse
  <1>3. CASE Chat!Misroute  BY <1>a, <1>d, <1>3 DEF Chat!Misroute
  <1>4. CASE Chat!Authenticate  BY <1>a, <1>d, <1>4 DEF Chat!Authenticate
  <1>5. CASE Chat!Route  BY <1>a, <1>d, <1>5 DEF Chat!Route
  <1>6. CASE Chat!Permit  BY <1>a, <1>d, <1>t, <1>6 DEF Chat!Permit
  <1>7. CASE Chat!Find  BY <1>a, <1>d, <1>7 DEF Chat!Find
  <1>8. CASE Chat!UltimatePermit
    <2>1. /\ pc = "gate" /\ UNCHANGED <<ctx, counted>> /\ reply = "none"
          /\ \/ pc' = "end" /\ log' = "failed" /\ reply' = "forbidden"
             \/ /\ pc' = "decide" /\ UNCHANGED <<log, reply>>
                /\ Chat!Enabled /\ in.target # "none" => UltimateAllowed
      BY <1>8 DEF Chat!UltimatePermit, UltimateAllowed
    <2>2. in.configured => in.target # "none"  BY DEF ChatTypes
    <2>3. UltimateAllowed' = UltimateAllowed  BY <1>a DEF UltimateAllowed, Chat!Row, Chat!Resolved
    <2>4. ChatPath'  BY <1>a, <2>1, <2>2, <2>3
    <2>5. Chat!PermissionFirst' /\ Chat!LogMatchesReply' /\ Chat!MeteredAnswers'  BY <1>a, <2>1
    <2> QED  BY <1>d, <2>4, <2>5
  <1>9. CASE Chat!Decide
    <2>1. pc = "decide" /\ ctx' = ctx /\ rows.due = {} /\ rows.written = {} /\ called = {} /\ reply = "none"
      BY <1>9 DEF Chat!Decide
    <2>2. in.token.state # "bad" /\ Chat!Allowed("m")
      BY <1>9 DEF Chat!Decide
    <2>3. \/ pc' = "race" /\ UNCHANGED <<log, reply>>
          \/ pc' = "ultimate" /\ Chat!Enabled /\ in.configured /\ log' = "running" /\ UNCHANGED reply
          \/ pc' = "end" /\ log' = "failed" /\ reply' = "exhausted"
      BY <1>9 DEF Chat!Decide
    <2>4. counted' => Chat!Enabled /\ in.configured
      BY <1>9 DEF Chat!Decide
    <2>5. Chat!Enabled /\ in.configured => UltimateAllowed
      BY <1>9 DEF Chat!Decide
    <2>a. UltimateAllowed' = UltimateAllowed  BY <1>a DEF UltimateAllowed, Chat!Row, Chat!Resolved
    <2>6. ChatPath'  BY <1>a, <2>1, <2>2, <2>3, <2>5, <2>a
    <2>7. Chat!PermissionFirst'
      <3>1. counted' => Chat!Enabled /\ UltimateAllowed  BY <2>4, <2>5
      <3>2. counted' => Chat!Enabled' /\ UltimateAllowed'  BY <1>a, <2>a, <3>1
      <3> QED  BY <1>a, <2>1, <2>2, <3>2 DEF UltimateAllowed
    <2>8. Chat!LogMatchesReply' /\ Chat!MeteredAnswers'  BY <1>a, <2>1, <2>3
    <2>9. QED  BY <1>d, <2>6, <2>7, <2>8
  <1>10. QED  BY <1>1, <1>2, <1>3, <1>4, <1>5, <1>6, <1>7, <1>8, <1>9

\* The ultimate model, the race, and the metering after it.
LEMMA ChatServing ==
  ASSUME Chat!ChatAssumption, ChatInv,
         Chat!Ultimate \/ Chat!StartRace \/ Chat!RaceWon \/ Chat!RelayFails \/ Chat!RelayStops
         \/ Chat!ClientGone \/ Chat!RaceLost \/ Chat!MeterToken
         \/ \E k \in Chat!Keys : Chat!MeterModel(k)
  PROVE  ChatInv'
  <1> USE DEF ChatInv, ChatPath, Early, Known, Permitted, Chat!PermissionFirst, Chat!LogMatchesReply,
              Chat!MeteredAnswers, Chat!Allowed, Chat!Enabled, Chat!Authenticated,
              Chat!Goto, Chat!Reply, Chat!Fail, Chat!Quiet
  <1>u. UNCHANGED in => UltimateAllowed' = UltimateAllowed  BY DEF UltimateAllowed, Chat!Row, Chat!Resolved
  <1>t. /\ in.token \in Tokens /\ in.stream \in BOOLEAN /\ (in.configured => in.target # "none")
        /\ ctx \in [member : BOOLEAN, headers : BOOLEAN, again : BOOLEAN, deferred : BOOLEAN]
        /\ rows \in [due : SUBSET Chat!Keys, written : SUBSET Chat!Keys]
        /\ called \subseteq Asked /\ log \in {"none", "running", "completed", "failed"}
        /\ pc \in Early \cup Known \cup {"end"}
    BY DEF ChatTypes
  <1>1. CASE Chat!Ultimate
    <2>1. /\ pc = "ultimate" /\ called = {} /\ called' \in {{}, {"ultimate"}} /\ pc' = "end" /\ UNCHANGED <<in, counted>>
          /\ log' \in {"completed", "failed"} /\ rows.due = {} /\ rows.written = {}
      BY <1>1 DEF Chat!Ultimate
    <2>2. ctx' = ctx \/ ctx' = [ctx EXCEPT !.headers = TRUE]
      BY <1>1 DEF Chat!Ultimate
    <2>3. rows' = rows \/ rows' = [rows EXCEPT !.due = Chat!Due(FALSE)]
      BY <1>1 DEF Chat!Ultimate
    <2>4. ctx' \in [member : BOOLEAN, headers : BOOLEAN, again : BOOLEAN, deferred : BOOLEAN]
      BY <1>t, <2>2, Zenon
    <2>5. rows'.due \in {{}, Chat!Due(FALSE)} /\ rows'.written = {}
      BY <1>t, <2>1, <2>3
    <2>6. rows' \in [due : SUBSET Chat!Keys, written : SUBSET Chat!Keys]
      BY <1>t, <2>3, DueKeys, Zenon
    <2>7. ChatTypes'  BY <1>t, <2>1, <2>4, <2>6 DEF ChatTypes, Asked
    <2>8. rows'.due # {} => log' = "completed"
      BY <1>1, <2>1 DEF Chat!Ultimate
    <2>9. Chat!MeteredAnswers'
      BY <2>1, <2>5, <2>8, DueKeys
    <2>10. Chat!PermissionFirst'
      <3>1. Chat!Enabled /\ UltimateAllowed /\ in.token.state # "bad" /\ Chat!Allowed("m")  BY <2>1
      <3>2. Chat!Enabled' /\ UltimateAllowed' /\ in'.token.state # "bad" /\ Chat!Allowed("m")'  BY <1>u, <2>1, <3>1
      <3> QED  BY <2>1, <3>2 DEF UltimateAllowed
    <2>11. Chat!LogMatchesReply'  BY <1>1 DEF Chat!Ultimate
    <2>12. ChatPath'  BY <2>1
    <2>13. QED  BY <2>7, <2>9, <2>10, <2>11, <2>12
  <1>2. CASE Chat!StartRace
    <2>1. pc = "race" /\ pc' = "racing" /\ UNCHANGED <<in, log, reply, counted, rows>>
      BY <1>2 DEF Chat!StartRace
    <2>2. ctx' = [ctx EXCEPT !.headers = in.stream]
      BY <1>2 DEF Chat!StartRace
    <2>3. ctx' \in [member : BOOLEAN, headers : BOOLEAN, again : BOOLEAN, deferred : BOOLEAN]
      BY <1>t, <2>2, Zenon
    <2>a. called' \subseteq Asked /\ called' # {} /\ "ultimate" \notin called'
      <3>1. "ultimate" \notin called  BY <2>1
      <3>2. Chat!Asked("row") \/ Chat!Asked("member")  BY <1>2 DEF Chat!StartRace
      <3> QED  BY <1>t, <3>1, <3>2 DEF Chat!Asked, Asked
    <2>4. ChatTypes'  BY <1>t, <2>1, <2>3, <2>a DEF ChatTypes
    <2>5. ChatPath'  BY <1>u, <2>1, <2>a
    <2>6. Chat!PermissionFirst'
      <3>1. counted => Chat!Enabled /\ UltimateAllowed  BY DEF UltimateAllowed
      <3>2. counted' => Chat!Enabled' /\ UltimateAllowed'  BY <1>u, <2>1, <3>1
      <3> QED  BY <2>1, <2>a, <3>2 DEF UltimateAllowed
    <2>7. Chat!LogMatchesReply' /\ Chat!MeteredAnswers'  BY <2>1
    <2> QED  BY <2>4, <2>5, <2>6, <2>7
  <1>3. CASE Chat!RaceWon
    <2>1. /\ pc = "racing" /\ pc' = "end" /\ log' = "completed" /\ reply' = "answer"
          /\ UNCHANGED <<in, ctx, called, counted>> /\ rows.due = {} /\ rows.written = {} /\ "ultimate" \notin called
      BY <1>3 DEF Chat!RaceWon
    <2>2. PICK other \in BOOLEAN : rows' = [rows EXCEPT !.due = Chat!Due(ctx.member /\ other)]
      BY <1>3 DEF Chat!RaceWon
    <2>3. (ctx.member /\ other) \in BOOLEAN  BY <1>t
    <2> DEFINE m == ctx.member /\ other
    <2>4. m \in BOOLEAN /\ (m => ctx.member) /\ rows' = [rows EXCEPT !.due = Chat!Due(m)]
      BY <2>2, <2>3
    <2> HIDE DEF m
    <2>5. rows'.due = Chat!Due(m) /\ rows'.written = {}
      BY <1>t, <2>1, <2>4
    <2>6. rows' \in [due : SUBSET Chat!Keys, written : SUBSET Chat!Keys]
      BY <1>t, <2>4, DueKeys, Zenon
    <2>7. ChatTypes'  BY <1>t, <2>1, <2>6 DEF ChatTypes
    <2>8. Chat!MeteredAnswers'  BY <2>1, <2>4, <2>5, DueKeys
    <2>9. Chat!PermissionFirst'  BY <2>1 DEF Chat!Row, Chat!Resolved
    <2>10. QED  BY <2>1, <2>7, <2>8, <2>9
  <1>4. CASE Chat!RelayFails \/ Chat!RelayStops \/ Chat!ClientGone
    <2>1. /\ pc = "racing" /\ pc' = "end" /\ UNCHANGED <<in, ctx, called, counted, rows, log>>
          /\ reply' \in {"none", "event", "bad gateway"}
      BY <1>4 DEF Chat!RelayFails, Chat!RelayStops, Chat!ClientGone
    <2>2. ChatTypes'  BY <1>t, <2>1 DEF ChatTypes
    <2>3. Chat!PermissionFirst'  BY <2>1 DEF Chat!Row, Chat!Resolved
    <2>4. ChatPath' /\ Chat!LogMatchesReply' /\ Chat!MeteredAnswers'  BY <2>1
    <2> QED  BY <2>2, <2>3, <2>4
  <1>5. CASE Chat!RaceLost
    <2>1. pc = "racing" /\ UNCHANGED <<in, counted, rows>>
      BY <1>5 DEF Chat!RaceLost
    <2>2. CASE log' = "failed" /\ reply' \in {"event", "bad gateway"} /\ pc' = "end" /\ UNCHANGED <<ctx, called>>
      <3>1. ChatTypes'  BY <1>t, <2>1, <2>2 DEF ChatTypes
      <3>2. Chat!PermissionFirst'  BY <2>1, <2>2 DEF Chat!Row, Chat!Resolved
      <3>3. ChatPath' /\ Chat!LogMatchesReply' /\ Chat!MeteredAnswers'  BY <2>1, <2>2
      <3> QED  BY <3>1, <3>2, <3>3
    <2>3. CASE pc' = "racing" /\ ctx' = [ctx EXCEPT !.again = TRUE] /\ Chat!Asked("other") /\ UNCHANGED <<log, reply>>
      <3>1. ctx' \in [member : BOOLEAN, headers : BOOLEAN, again : BOOLEAN, deferred : BOOLEAN]
        BY <1>t, <2>3, Zenon
      <3>a. called' \subseteq Asked /\ called' # {} /\ "ultimate" \notin called'
        BY <1>t, <2>1, <2>3 DEF Chat!Asked, Asked
      <3>2. ChatTypes'  BY <1>t, <2>1, <2>3, <3>1, <3>a DEF ChatTypes
      <3>3. ChatPath'  BY <1>u, <2>1, <2>3, <3>a
      <3>4. Chat!PermissionFirst'
        <4>1. counted => Chat!Enabled /\ UltimateAllowed  BY DEF UltimateAllowed
        <4>2. counted' => Chat!Enabled' /\ UltimateAllowed'  BY <1>u, <2>1, <4>1
        <4> QED  BY <2>1, <3>a, <4>2 DEF UltimateAllowed
      <3>5. Chat!LogMatchesReply' /\ Chat!MeteredAnswers'  BY <2>1, <2>3
      <3> QED  BY <3>2, <3>3, <3>4, <3>5
    <2>4. QED  BY <1>5, <2>2, <2>3 DEF Chat!RaceLost
  <1>6. CASE Chat!MeterToken \/ \E k \in Chat!Keys : Chat!MeterModel(k)
    <2>1. PICK k \in Chat!Keys : /\ k \in rows.due
                               /\ \/ rows' = [due |-> rows.due \ {k}, written |-> rows.written \cup {k}]
                                  \/ rows' = [rows EXCEPT !.due = @ \ {k}]
      BY <1>6 DEF Chat!MeterToken, Chat!MeterModel, Chat!Keys
    <2>2. UNCHANGED <<in, pc, ctx, log, reply, called, counted>>
      BY <1>6 DEF Chat!MeterToken, Chat!MeterModel
    <2>3. /\ rows'.due \cup rows'.written \subseteq rows.due \cup rows.written
          /\ rows' \in [due : SUBSET Chat!Keys, written : SUBSET Chat!Keys]
      <3>1. rows.due \subseteq Chat!Keys /\ rows.written \subseteq Chat!Keys /\ rows.due \ {k} \subseteq Chat!Keys
        BY <1>t
      <3>2. CASE rows' = [due |-> rows.due \ {k}, written |-> rows.written \cup {k}]
        BY <2>1, <3>1, <3>2
      <3>3. CASE rows' = [rows EXCEPT !.due = rows.due \ {k}]
        <4>1. rows'.due = rows.due \ {k} /\ rows'.written = rows.written  BY <1>t, <3>3
        <4>2. rows' \in [due : SUBSET Chat!Keys, written : SUBSET Chat!Keys]  BY <1>t, <3>1, <3>3, Zenon
        <4>3. QED  BY <4>1, <4>2
      <3>4. QED  BY <2>1, <3>2, <3>3
    <2>4. pc = "end"  BY <2>1
    <2>5. ChatTypes'  BY <1>t, <2>2, <2>3 DEF ChatTypes
    <2>6. Chat!MeteredAnswers'  BY <1>t, <2>1, <2>2, <2>3
    <2>7. Chat!PermissionFirst'  BY <2>2 DEF Chat!Row, Chat!Resolved
    <2>8. QED  BY <2>2, <2>4, <2>5, <2>6, <2>7
  <1>7. QED  BY <1>1, <1>2, <1>3, <1>4, <1>5, <1>6

\* A request that has not been read has nothing to show for it.
LEMMA ChatInit ==
  ASSUME Chat!Init
  PROVE  ChatInv
  <1>1. ctx \in [member : BOOLEAN, headers : BOOLEAN, again : BOOLEAN, deferred : BOOLEAN]
    BY DEF Chat!Init
  <1>2. rows \in [due : SUBSET Chat!Keys, written : SUBSET Chat!Keys] /\ rows.due = {} /\ rows.written = {}
    BY DEF Chat!Init
  <1>3. in.token \in Tokens /\ in.stream \in BOOLEAN /\ (in.configured => in.target # "none")
    BY DEF Chat!Init
  <1>4. pc = "start" /\ log = "none" /\ reply = "none" /\ called = {} /\ counted = FALSE
    BY DEF Chat!Init
  <1>5. QED
    BY <1>1, <1>2, <1>3, <1>4 DEF ChatInv, ChatTypes, ChatPath, Early, Known, Permitted, Chat!PermissionFirst,
       Chat!LogMatchesReply, Chat!MeteredAnswers

\* A step that changes none of the chat request's variables keeps its invariant.
LEMMA ChatStutter ==
  ASSUME ChatInv, UNCHANGED Chat!vars
  PROVE  ChatInv'
  <1>1. UNCHANGED <<in, pc, ctx, log, reply, called, counted, rows>>
    BY DEF Chat!vars
  <1>2. ChatTypes'  BY <1>1 DEF ChatInv, ChatTypes, Chat!Keys
  <1>3. ChatPath'
    BY <1>1 DEF ChatInv, ChatPath, UltimateAllowed, Chat!Allowed, Chat!Enabled, Chat!Authenticated, Chat!Row, Chat!Resolved
  <1>4. Chat!PermissionFirst'
    BY <1>1 DEF ChatInv, Chat!PermissionFirst, Chat!Allowed, Chat!Enabled, Chat!Authenticated, Chat!Row, Chat!Resolved
  <1>5. Chat!LogMatchesReply' /\ Chat!MeteredAnswers'
    BY <1>1 DEF ChatInv, Chat!LogMatchesReply, Chat!MeteredAnswers, Chat!Authenticated
  <1>6. QED  BY <1>2, <1>3, <1>4, <1>5 DEF ChatInv

\* HandleChatCompletions: nobody is asked, and no attempt recorded, unless the token
\* allows the name that was sent, nor the ultimate model unless the token allows it
\* or the name stands for it; the log entry is completed exactly for a whole answer,
\* and failed only if the client was told; and usage is metered for answers only,
\* under the keys of what answered.  For any tokens, and whatever the stores, the
\* engine and the race say and wherever a relay breaks.
THEOREM ChatHolds ==
  ASSUME Chat!ChatAssumption
  PROVE  Chat!Spec => []ChatSound
  <1>1. Chat!Init => ChatInv  BY ChatInit
  <1>2. ChatInv /\ [Chat!Next]_(Chat!vars) => ChatInv'
    BY ChatAdmission, ChatServing, ChatStutter DEF Chat!Next
  <1>3. ChatInv => ChatSound
    BY DEF ChatInv, ChatTypes, Asked, ChatSound, Chat!ChatSound, Chat!TypeOK
  <1>4. QED  BY <1>1, <1>2, <1>3, PTL DEF Chat!Spec

-----------------------------------------------------------------------------
(* A decision or an image.                                                 *)

\* The checks; those of a client's request only; those after its body was parsed.
Asking == {"read", "auth", "parse", "validate", "resolve", "kind", "permit", "credential"}
Parsed == {"validate", "resolve", "kind", "permit", "credential", "adapter", "preflight", "build"}
Checks == Asking \cup Parsed \cup {"probe"}

\* The statuses of a failed check.
Refusals == {400, 401, 403, 404, 413, 429, 502}

NamesModel == \E i \in DOMAIN request.body : request.body[i][1] = "model"
Untouched == usage = [requests |-> 0, images |-> 0] /\ told = <<>>

\* What an upstream may have answered.
Answer ==
    /\ upstream.kind \in {"empty", "garbled", "error", "bare", "good"} /\ upstream.status \in {200, 429, 500}
    /\ upstream.images \in 0..1
    /\ upstream.kind # "good" \/ Side!Decision => upstream.images = 0
    /\ upstream.keys \subseteq {Trim[request.names[i]] : i \in DOMAIN request.names}
    /\ upstream.kind # "good" => upstream.keys = {}

SidePath ==
    /\ request \in SideRequests /\ caller \in {"here", "gone"}
    /\ step \in Checks \cup {"call", "relay", "meter", "end"}
    /\ step \in Asking \cup {"meter"} => ~request.admin
    /\ step = "probe" => request.admin
    /\ step \in Parsed /\ ~request.admin => NamesModel
    /\ step # "end" => Untouched
    /\ step \in Checks => sent = <<>>
    /\ step \in Checks \cup {"call"} => upstream = Side!NoAnswer
    /\ step \in Checks \cup {"call", "relay"} => answer = <<0, <<>>>>
    /\ step \in {"call", "relay", "meter"} /\ ~request.admin => sent # <<>>
    /\ step \in {"relay", "meter"} => Answer
    /\ step = "meter" =>
          answer = IF Side!Passes(upstream) THEN <<upstream.status, Side!Answers>> ELSE <<502, <<>>>>

SideInv == SidePath /\ Side!SideSound

\* A check lets the request on or answers it at once; what was called, answered
\* and counted stays as it was.
LEMMA SideChecks ==
  ASSUME Side!ReadBody \/ Side!Authenticate \/ Side!Parse \/ Side!Validate \/ Side!Resolve \/ Side!Kind
         \/ Side!Permit \/ Side!Credential \/ Side!Probe \/ Side!Adapter \/ Side!Preflight
  PROVE  /\ UNCHANGED <<request, caller, sent, upstream, usage>> /\ step \in Checks
         /\ \/ /\ UNCHANGED <<answer, told>> /\ step' \in Checks \ {"probe"}
               /\ step' \in Asking => step \in Asking
               /\ step' \in Parsed => step \in Parsed \cup {"probe"} \/ NamesModel
            \/ /\ step' = "end" /\ \E c \in Refusals : answer' = <<c, <<>>>>
               /\ told' = told \/ \E o : told' = Append(told, o)
  <1> USE DEF Side!Check, Side!Tell, Asking, Parsed, Checks, NamesModel
  <1>a. 400 \in Refusals /\ 401 \in Refusals /\ 403 \in Refusals /\ 404 \in Refusals /\ 413 \in Refusals
        /\ 429 \in Refusals /\ 502 \in Refusals
    BY DEF Refusals
  <1>1. CASE Side!ReadBody  BY <1>a, <1>1 DEF Side!ReadBody
  <1>2. CASE Side!Authenticate  BY <1>a, <1>2 DEF Side!Authenticate
  <1>3. CASE Side!Parse  BY <1>a, <1>3 DEF Side!Parse
  <1>4. CASE Side!Validate  BY <1>a, <1>4 DEF Side!Validate
  <1>5. CASE Side!Resolve  BY <1>a, <1>5 DEF Side!Resolve
  <1>6. CASE Side!Permit  BY <1>a, <1>6 DEF Side!Permit
  <1>7. CASE Side!Credential  BY <1>a, <1>7 DEF Side!Credential
  <1>8. CASE Side!Probe
    BY <1>a, <1>8 DEF Side!Probe
  <1>9. CASE Side!Adapter  BY <1>a, <1>9 DEF Side!Adapter
  <1>10. CASE Side!Preflight  BY <1>a, <1>10 DEF Side!Preflight
  <1>11. CASE Side!Kind  BY <1>a, <1>11 DEF Side!Kind
  <1>12. QED  BY <1>1, <1>2, <1>3, <1>4, <1>5, <1>6, <1>7, <1>8, <1>9, <1>10, <1>11

\* A request on its way has promised nothing yet.
LEMMA SideUnderWay ==
  ASSUME SidePath', step' # "end"
  PROVE  Side!SideSound'
  <1>1. /\ usage' = [requests |-> 0, images |-> 0] /\ told' = <<>>
    BY DEF SidePath, Untouched
  <1>2. usage'.requests = 0 /\ usage'.images = 0 /\ Len(told') = 0  BY <1>1
  <1>3. upstream'.kind \in {"none", "empty", "garbled", "error", "bare", "good"}
    BY DEF SidePath, Answer, Side!NoAnswer, Checks, Asking, Parsed
  <1>4. answer'[1] \in {0, 200, 429, 500, 502}
    <2>1. CASE step' # "meter"
      BY <2>1 DEF SidePath
    <2>2. CASE step' = "meter" /\ Side!Passes(upstream)'
      <3>1. answer' = <<upstream'.status, Side!Answers'>>  BY <2>2 DEF SidePath, Side!Passes
      <3>2. upstream'.status \in {200, 429, 500}  BY <2>2 DEF SidePath, Answer
      <3>3. answer'[1] = upstream'.status  BY <3>1
      <3>4. QED  BY <3>2, <3>3
    <2>3. CASE step' = "meter" /\ ~Side!Passes(upstream)'
      BY <2>3 DEF SidePath, Side!Passes
    <2>4. QED  BY <2>1, <2>2, <2>3
  <1>5. Side!TypeOK'
    BY <1>2, <1>3, <1>4 DEF SidePath, Side!TypeOK
  <1>6. QED  BY <1>5 DEF Side!SideSound, Side!NoFalseSuccess, Side!MeteredOnce, Side!OwnAnswers, Side!Ended

\* A request answered before its provider was called.
LEMMA SideTurnedAway ==
  ASSUME request' \in SideRequests, caller' \in {"here", "gone"}, step' = "end", sent' = <<>>,
         upstream' = Side!NoAnswer, usage' = [requests |-> 0, images |-> 0],
         NEW c \in Refusals, answer' = <<c, <<>>>>, told' = <<>> \/ \E o : told' = Append(<<>>, o)
  PROVE  SideInv'
  <1>1. usage'.requests = 0 /\ usage'.images = 0  OBVIOUS
  <1>2. Len(told') <= 2  OBVIOUS
  <1>3. answer'[1] = c /\ answer'[2] = <<>>  OBVIOUS
  <1>4. upstream'.kind = "none" /\ upstream'.images = 0  BY DEF Side!NoAnswer
  <1>5. Side!TypeOK'  BY <1>1, <1>2, <1>3, <1>4 DEF Side!TypeOK, Refusals
  <1>6. Side!NoFalseSuccess'  BY <1>3 DEF Side!NoFalseSuccess, Refusals
  <1>7. Side!MeteredOnce'  BY <1>1, <1>4 DEF Side!MeteredOnce, Side!Called
  <1>8. Side!OwnAnswers'  BY <1>3 DEF Side!OwnAnswers
  <1>9. SidePath'
    BY DEF SidePath, Checks, Asking, Parsed
  <1>10. QED  BY <1>5, <1>6, <1>7, <1>8, <1>9 DEF SideInv, Side!SideSound

\* The checks keep the invariant.
LEMMA SideCheckStep ==
  ASSUME SideInv,
         Side!ReadBody \/ Side!Authenticate \/ Side!Parse \/ Side!Validate \/ Side!Resolve \/ Side!Kind
         \/ Side!Permit \/ Side!Credential \/ Side!Probe \/ Side!Adapter \/ Side!Preflight
  PROVE  SideInv'
  <1>1. /\ UNCHANGED <<request, caller, sent, upstream, usage>> /\ step \in Checks
        /\ \/ /\ UNCHANGED <<answer, told>> /\ step' \in Checks \ {"probe"}
              /\ step' \in Asking => step \in Asking
              /\ step' \in Parsed => step \in Parsed \cup {"probe"} \/ NamesModel
           \/ /\ step' = "end" /\ \E c \in Refusals : answer' = <<c, <<>>>>
              /\ told' = told \/ \E o : told' = Append(told, o)
    BY SideChecks
  <1>2. step # "end" /\ "call" \notin Checks /\ "relay" \notin Checks /\ "meter" \notin Checks
        /\ "end" \notin Checks /\ "meter" \notin Asking
    BY <1>1 DEF Checks, Asking, Parsed
  <1>3. SidePath  BY DEF SideInv
  <1>4. CASE UNCHANGED <<answer, told>> /\ step' \in Checks
    <2>1. SidePath'
      BY <1>1, <1>2, <1>3, <1>4 DEF SidePath, NamesModel, Untouched
    <2>2. step' # "end"  BY <1>2, <1>4
    <2>3. QED  BY <2>1, <2>2, SideUnderWay DEF SideInv
  <1>5. CASE step' = "end"
    <2>1. PICK c \in Refusals : answer' = <<c, <<>>>>  BY <1>1, <1>2, <1>5
    <2>2. told' = <<>> \/ \E o : told' = Append(<<>>, o)
      BY <1>1, <1>2, <1>3, <1>5 DEF SidePath, Untouched
    <2>3. /\ request' \in SideRequests /\ caller' \in {"here", "gone"} /\ sent' = <<>>
          /\ upstream' = Side!NoAnswer /\ usage' = [requests |-> 0, images |-> 0]
      BY <1>1, <1>2, <1>3 DEF SidePath, Untouched
    <2>4. QED  BY <1>5, <2>1, <2>2, <2>3, SideTurnedAway
  <1>6. QED  BY <1>1, <1>4, <1>5

\* BuildUpstream: the request of a client that is sent is not an empty one.
LEMMA SideBuildStep ==
  ASSUME Side!SideAssumption, SideInv, Side!Build
  PROVE  SideInv'
  <1>1. SidePath /\ step = "build" /\ UNCHANGED <<request, caller, upstream, usage>>
    BY DEF SideInv, Side!Build
  <1>2. /\ request \in SideRequests /\ caller \in {"here", "gone"} /\ sent = <<>> /\ upstream = Side!NoAnswer
        /\ usage = [requests |-> 0, images |-> 0] /\ told = <<>> /\ answer = <<0, <<>>>>
        /\ ~request.admin => NamesModel
    BY <1>1 DEF SidePath, Untouched, Checks, Parsed
  <1>3. CASE step' = "end"
    <2>1. 502 \in Refusals /\ 400 \in Refusals  BY DEF Refusals
    <2>2. PICK c \in Refusals : answer' = <<c, <<>>>>
      BY <1>3, <2>1 DEF Side!Build
    <2>3. sent' = sent /\ (told' = told \/ told' = Append(told, "build_failed"))
      BY <1>3 DEF Side!Build, Side!Tell
    <2>4. QED  BY <1>1, <1>2, <1>3, <2>2, <2>3, SideTurnedAway
  <1>4. CASE step' = "call"
    <2>1. sent' \in {Side!OpenAIBody, Side!TypesafeBody, Side!MinimaxBody} /\ UNCHANGED <<answer, told>>
      BY <1>4 DEF Side!Build
    <2>2. request.body \in Seq(STRING \X STRING) /\ request.names \in Seq(DOMAIN Trim)
      BY <1>2 DEF Side!SideAssumption
    <2>3. ~request.admin => DOMAIN request.body # {}
      BY <1>2 DEF NamesModel
    <2>4. DOMAIN Side!OpenAIBody = DOMAIN request.body
      BY DEF Side!OpenAIBody
    <2>5. DOMAIN Side!MinimaxBody = DOMAIN request.body
      BY DEF Side!MinimaxBody
    <2>6. Side!TypesafeBody # <<>>
      <3> DEFINE questions == [i \in DOMAIN request.names |-> <<"question", Trim[request.names[i]]>>]
                 model == <<"model", request.internal>>
      <3>1. questions \in Seq({questions[i] : i \in DOMAIN request.names})
        BY <2>2
      <3>2. Side!TypesafeBody = questions \o <<model>>  BY DEF Side!TypesafeBody
      <3> HIDE DEF questions, model
      <3>3. Len(questions \o <<model>>) = Len(questions) + 1 /\ Len(questions) \in Nat
        BY <3>1
      <3>4. QED  BY <3>2, <3>3
    <2>7. ~request.admin => sent' # <<>>
      BY <2>1, <2>3, <2>4, <2>5, <2>6
    <2>8. SidePath'
      BY <1>1, <1>2, <1>4, <2>1, <2>7 DEF SidePath, Untouched, Checks, Asking, Parsed
    <2>9. QED  BY <1>4, <2>8, SideUnderWay DEF SideInv
  <1>5. QED  BY <1>3, <1>4 DEF Side!Build

\* The call: its failure ends the request, its answer is inspected next.
LEMMA SideCallStep ==
  ASSUME SideInv, Side!HangUp \/ Side!CallFails \/ Side!CallReturns
  PROVE  SideInv'
  <1>1. SidePath  BY DEF SideInv
  <1>2. CASE Side!HangUp
    <2>1. /\ caller' = "gone" /\ UNCHANGED <<request, step, sent, upstream, answer, usage, told>>
          /\ step \in {"call", "inspect", "relay", "meter"}
      BY <1>2 DEF Side!HangUp
    <2>2. SidePath'
      BY <1>1, <2>1 DEF SidePath, Untouched, NamesModel, Answer, Side!Decision, Side!Answers, Side!Passes,
         Side!synthesizeAnswers
    <2>3. step' # "end"  BY <2>1
    <2>4. QED  BY <2>2, <2>3, SideUnderWay DEF SideInv
  <1>3. CASE Side!CallFails
    <2>1. step = "call" /\ step' = "end" /\ UNCHANGED <<request, caller, sent, upstream>>
      BY <1>3 DEF Side!CallFails
    <2>2. /\ request \in SideRequests /\ caller \in {"here", "gone"} /\ upstream = Side!NoAnswer
          /\ usage = [requests |-> 0, images |-> 0] /\ told = <<>> /\ (~request.admin => sent # <<>>)
      BY <1>1, <2>1 DEF SidePath, Untouched
    <2>3. answer' = <<504, <<>>>> \/ answer' = <<502, <<>>>>
      BY <1>3 DEF Side!CallFails
    <2>4. answer'[1] \in {502, 504} /\ answer'[2] = <<>>  BY <2>3
    <2>5. PICK o : told' = told \/ told' = told \o <<o, o>> \/ told' = told \o <<o>>
      BY <1>3 DEF Side!CallFails
    <2>6. Len(told') <= 2
      <3>1. told' = <<>> \/ told' = <<o, o>> \/ told' = <<o>>
        BY <2>2, <2>5
      <3>2. Len(<<o, o>>) <= 2 /\ Len(<<o>>) <= 2 /\ Len(<<>>) <= 2  OBVIOUS
      <3>3. QED  BY <3>1, <3>2, Zenon
    <2>7. usage' = IF Side!Decision \/ request.admin THEN usage
                   ELSE [requests |-> usage.requests + 1, images |-> usage.images + 0]
      BY <1>3 DEF Side!CallFails, Side!Meter
    <2>8. usage'.images = 0 /\ usage'.requests = IF Side!Decision \/ request.admin THEN 0 ELSE 1
      BY <2>2, <2>7
    <2>9. upstream.kind = "none" /\ upstream.images = 0 /\ upstream.used = FALSE  BY <2>2 DEF Side!NoAnswer
    <2>10. Side!TypeOK'  BY <2>1, <2>2, <2>4, <2>6, <2>8, <2>9 DEF Side!TypeOK
    <2>11. Side!MeteredOnce'
      BY <2>1, <2>2, <2>8, <2>9 DEF Side!MeteredOnce, Side!Called, Side!Decision
    <2>12. Side!NoFalseSuccess' /\ Side!OwnAnswers'
      BY <2>4 DEF Side!NoFalseSuccess, Side!OwnAnswers
    <2>13. SidePath'  BY <2>1, <2>2 DEF SidePath, Checks, Asking, Parsed
    <2>14. QED  BY <2>10, <2>11, <2>12, <2>13 DEF SideInv, Side!SideSound
  <1>4. CASE Side!CallReturns
    <2>1. step = "call" /\ step' = "relay" /\ UNCHANGED <<request, caller, sent, answer, usage, told>>
      BY <1>4 DEF Side!CallReturns
    <2>2. PICK kind \in {"empty", "garbled", "error", "bare", "good"}, status \in {200, 429, 500},
               items \in Side!Lists,
               keys \in SUBSET {Trim[request.names[i]] : i \in DOMAIN request.names}, images \in 0..1,
               failed \in 0..1, used \in BOOLEAN :
             /\ kind # "good" => keys = {} /\ items = <<>> /\ images = 0 /\ failed = 0
             /\ kind \notin {"good", "bare"} => ~used
             /\ IF Side!Decision THEN images = 0 /\ failed = 0 ELSE ~used
             /\ request.provider # "openai" => items = <<>>
             /\ request.provider # "typesafe" => keys = {}
             /\ upstream' = [kind |-> kind, status |-> status, list |-> items, keys |-> keys,
                             images |-> images, failed |-> failed, used |-> used]
      BY <1>4, Zenon DEF Side!CallReturns
    <2>3. upstream'.kind = kind /\ upstream'.status = status /\ upstream'.images = images /\ upstream'.keys = keys
      BY <2>2
    <2>4. Answer'
      BY <2>1, <2>2, <2>3 DEF Answer, Side!Decision
    <2>5. SidePath'
      BY <1>1, <2>1, <2>4 DEF SidePath, Untouched, Checks, Asking, Parsed
    <2>6. QED  BY <2>1, <2>5, SideUnderWay DEF SideInv
  <1>5. QED  BY <1>2, <1>3, <1>4

\* What TypeSafe said of a question is what the client gets for it: its own name for
\* it, and the upstream's answer or a refusal, which it is for a body without answers.
LEMMA AnswersOwn ==
  ASSUME Side!SideAssumption, request \in SideRequests, Answer
  PROVE  request.provider = "typesafe" =>
              /\ Len(Side!Answers) = Len(request.names)
              /\ DOMAIN Side!Answers = DOMAIN request.names
              /\ \A i \in DOMAIN request.names :
                    /\ Side!Answers[i][1] = request.names[i]
                    /\ Side!Answers[i][2] \in {"refusal", Trim[request.names[i]]}
                    /\ upstream.kind # "good" => Side!Answers[i][2] = "refusal"
  <1>1. request.names \in Seq(DOMAIN Trim)  BY DEF Side!SideAssumption
  <1>2. \A i \in DOMAIN request.names : request.names[i] \in DOMAIN Trim  BY <1>1
  <1>3. \A n \in DOMAIN Trim : Trim[n] \in DOMAIN Trim /\ Trim[Trim[n]] = Trim[n]
    BY DEF Side!SideAssumption
  <1>4. \A i \in DOMAIN request.names : request.names[i] \in upstream.keys =>
           request.names[i] = Trim[request.names[i]]
    <2> TAKE i \in DOMAIN request.names
    <2> HAVE request.names[i] \in upstream.keys
    <2>1. PICK j \in DOMAIN request.names : request.names[i] = Trim[request.names[j]]
      BY DEF Answer
    <2>2. request.names[j] \in DOMAIN Trim  BY <1>2
    <2>3. QED  BY <1>3, <2>1, <2>2
  <1> DEFINE ts == [i \in DOMAIN request.names |->
                      <<request.names[i], IF request.names[i] \in upstream.keys THEN request.names[i] ELSE "refusal">>]
  <1>5. DOMAIN request.names = 1..Len(request.names) /\ Len(request.names) \in Nat  BY <1>1
  <1>6. /\ DOMAIN ts = DOMAIN request.names /\ Len(ts) = Len(request.names)
        /\ \A i \in DOMAIN request.names : /\ ts[i][1] = request.names[i]
                                         /\ ts[i][2] \in {"refusal", Trim[request.names[i]]}
    <2>1. DOMAIN ts = DOMAIN request.names  OBVIOUS
    <2>2. ts \in Seq({ts[i] : i \in DOMAIN request.names}) /\ Len(ts) = Len(request.names)  BY <1>1
    <2>3. \A i \in DOMAIN request.names :
             ts[i] = <<request.names[i], IF request.names[i] \in upstream.keys THEN request.names[i] ELSE "refusal">>
      OBVIOUS
    <2> HIDE DEF ts
    <2>4. QED  BY <1>4, <2>1, <2>2, <2>3
  <1>a. ASSUME upstream.kind # "good"
        PROVE  \A i \in DOMAIN request.names : ts[i][2] = "refusal"
    <2>1. upstream.keys = {}  BY <1>a DEF Answer
    <2>2. \A i \in DOMAIN request.names : ts[i] = <<request.names[i], "refusal">>  BY <2>1
    <2> HIDE DEF ts
    <2>3. QED  BY <2>2
  <1>7. request.provider = "typesafe" => Side!Answers = ts
    BY DEF Side!Answers, Side!synthesizeAnswers
  <1> HIDE DEF ts
  <1>8. CASE request.provider = "typesafe"
    <2>1. Side!Answers = ts  BY <1>7, <1>8
    <2>2. Len(Side!Answers) = Len(request.names) /\ DOMAIN Side!Answers = DOMAIN request.names
      BY <1>6, <2>1
    <2>3. ASSUME NEW i \in DOMAIN request.names
          PROVE  /\ Side!Answers[i][1] = request.names[i]
                 /\ Side!Answers[i][2] \in {"refusal", Trim[request.names[i]]}
                 /\ upstream.kind # "good" => Side!Answers[i][2] = "refusal"
      <3>1. Side!Answers[i] = ts[i]  BY <2>1
      <3>2. ts[i][1] = request.names[i] /\ ts[i][2] \in {"refusal", Trim[request.names[i]]}  BY <1>6, <2>3
      <3>3. upstream.kind # "good" => ts[i][2] = "refusal"  BY <1>a, <2>3
      <3>4. Side!Answers[i][1] = ts[i][1] /\ Side!Answers[i][2] = ts[i][2]  BY <3>1
      <3>5. QED  BY <3>2, <3>3, <3>4
    <2>4. QED  BY <2>2, <2>3
  <1>9. QED  BY <1>8

\* What a success tells the client: an answer, or a TypeSafe body without one.
LEMMA PassedIsRefused ==
  ASSUME Side!SideAssumption, request \in SideRequests, Answer, Side!Passes(upstream)
  PROVE  \/ upstream.kind = "good"
         \/ /\ upstream.kind = "bare" /\ request.provider = "typesafe"
            /\ \A i \in DOMAIN Side!Answers : Side!Answers[i][2] = "refusal"
  BY AnswersOwn DEF Side!Passes

\* The reply: a test ends with it, a client's request is metered next.
LEMMA SideRelayStep ==
  ASSUME Side!SideAssumption, SideInv, Side!Relay
  PROVE  SideInv'
  <1>1. /\ SidePath /\ step = "relay" /\ UNCHANGED <<request, caller, sent, upstream, usage, told>>
        /\ step' = IF request.admin THEN "end" ELSE "meter"
    BY DEF SideInv, Side!Relay
  <1>2. /\ request \in SideRequests /\ caller \in {"here", "gone"} /\ Answer
        /\ usage = [requests |-> 0, images |-> 0] /\ told = <<>> /\ (~request.admin => sent # <<>>)
    BY <1>1 DEF SidePath, Untouched
  <1>3. Side!Answers' = Side!Answers /\ Answer'
    BY <1>1, <1>2 DEF Side!Answers, Side!synthesizeAnswers, Side!Decision, Answer
  <1>4. CASE ~request.admin
    <2>1. answer' = IF Side!Passes(upstream) THEN <<upstream.status, Side!Answers>> ELSE <<502, <<>>>>
      BY <1>4 DEF Side!Relay
    <2>2. answer' = IF Side!Passes(upstream)' THEN <<upstream'.status, Side!Answers'>> ELSE <<502, <<>>>>
      <3>1. Side!Passes(upstream)' = Side!Passes(upstream)  BY <1>1 DEF Side!Passes
      <3>2. QED  BY <1>1, <1>3, <2>1, <3>1
    <2>3. SidePath'
      BY <1>1, <1>2, <1>3, <1>4, <2>2 DEF SidePath, Untouched, Checks, Asking, Parsed
    <2>4. QED  BY <1>1, <1>4, <2>3, SideUnderWay DEF SideInv
  <1>5. CASE request.admin
    <2>1. answer' = <<Side!TestStatus, IF Side!TestStatus = 200 THEN Side!Answers ELSE <<>>>>
      BY <1>5 DEF Side!Relay
    <2>2. /\ Side!TestStatus \in {200, 429, 500, 502}
          /\ Side!TestStatus = 200 => Side!Passes(upstream) /\ upstream.status = 200
      BY <1>2 DEF Side!TestStatus, Answer
    <2>3. answer'[1] = Side!TestStatus /\ (answer'[2] = Side!Answers \/ answer'[2] = <<>>)
      BY <2>1
    <2>4. Side!TypeOK'
      <3>1. usage.requests = 0 /\ usage.images = 0 /\ Len(told) <= 2  BY <1>2
      <3>2. QED  BY <1>1, <1>2, <2>2, <2>3, <3>1 DEF Side!TypeOK, Answer
    <2>5. Side!NoFalseSuccess'
      <3>1. Side!TestStatus = 200 => answer'[2] = Side!Answers  BY <2>1
      <3>2. QED  BY <1>1, <1>2, <2>2, <2>3, <3>1, PassedIsRefused DEF Side!NoFalseSuccess
    <2>6. Side!MeteredOnce'  BY <1>1, <1>2, <1>5 DEF Side!MeteredOnce
    <2>7. Side!OwnAnswers'
      BY <1>1, <1>2, <2>3, AnswersOwn DEF Side!OwnAnswers
    <2>8. SidePath'  BY <1>1, <1>2, <1>5 DEF SidePath, Checks, Asking, Parsed
    <2>9. QED  BY <2>4, <2>5, <2>6, <2>7, <2>8 DEF SideInv, Side!SideSound
  <1>6. QED  BY <1>4, <1>5

\* The counters and the bus, after the reply.
LEMMA SideMeterStep ==
  ASSUME Side!SideAssumption, SideInv, Side!MeterAndTell
  PROVE  SideInv'
  <1>1. /\ SidePath /\ step = "meter" /\ step' = "end" /\ UNCHANGED <<request, caller, sent, upstream, answer>>
    BY DEF SideInv, Side!MeterAndTell
  <1>2. /\ request \in SideRequests /\ caller \in {"here", "gone"} /\ Answer
        /\ usage = [requests |-> 0, images |-> 0] /\ told = <<>> /\ ~request.admin /\ sent # <<>>
        /\ answer = IF Side!Passes(upstream) THEN <<upstream.status, Side!Answers>> ELSE <<502, <<>>>>
    BY <1>1 DEF SidePath, Untouched
  <1>3. usage.requests = 0 /\ usage.images = 0  BY <1>2
  <1>4. PICK o : told' = Append(told, o)
    BY <1>2 DEF Side!MeterAndTell, Side!Tell
  <1>5. Len(told') <= 2
    <2>1. told' = <<o>>  BY <1>2, <1>4
    <2>2. Len(<<o>>) <= 2  OBVIOUS
    <2>3. QED  BY <2>1, <2>2, Zenon
  <1>6. /\ usage'.requests = IF Side!Decision /\ ~(Side!Passes(upstream) /\ upstream.used) THEN 0 ELSE 1
        /\ usage'.images = IF ~Side!Decision /\ Side!Passes(upstream) THEN upstream.images ELSE 0
    <2>1. CASE Side!Decision /\ ~(Side!Passes(upstream) /\ upstream.used)
      BY <1>3, <2>1 DEF Side!MeterAndTell
    <2>2. CASE Side!Decision /\ Side!Passes(upstream) /\ upstream.used
      <3>1. usage' = [requests |-> usage.requests + 1, images |-> usage.images + 0]
        BY <2>2 DEF Side!MeterAndTell, Side!Meter
      <3>2. QED  BY <1>3, <2>2, <3>1
    <2>3. CASE ~Side!Decision
      <3>1. usage' = [requests |-> usage.requests + 1,
                      images |-> usage.images + (IF Side!Passes(upstream) THEN upstream.images ELSE 0)]
        BY <2>3 DEF Side!MeterAndTell, Side!Meter
      <3>2. usage' = [requests |-> 1, images |-> IF Side!Passes(upstream) THEN upstream.images ELSE 0]
        BY <1>2, <1>3, <3>1 DEF Answer
      <3>3. QED  BY <2>3, <3>2
    <2>4. QED  BY <2>1, <2>2, <2>3
  <1>7. /\ upstream.images \in 0..1 /\ upstream.status \in {200, 429, 500}
        /\ upstream.kind # "good" \/ Side!Decision => upstream.images = 0
    BY <1>2 DEF Answer
  <1>8. Side!MeteredOnce'
    BY <1>1, <1>2, <1>6, <1>7 DEF Side!MeteredOnce, Side!Called, Side!Decision, Side!Passes
  <1>9. (answer[1] = upstream.status /\ answer[2] = Side!Answers /\ Side!Passes(upstream))
        \/ (answer[1] = 502 /\ answer[2] = <<>>)
    BY <1>2
  <1>10. usage'.requests \in 0..1 /\ usage'.images \in 0..usage'.requests
    BY <1>6, <1>7
  <1>11. Side!TypeOK'
    BY <1>1, <1>2, <1>5, <1>9, <1>10 DEF Side!TypeOK, Answer
  <1>12. Side!NoFalseSuccess'  BY <1>1, <1>2, <1>9, PassedIsRefused DEF Side!NoFalseSuccess
  <1>13. Side!OwnAnswers'  BY <1>1, <1>2, <1>9, AnswersOwn DEF Side!OwnAnswers
  <1>14. SidePath'  BY <1>1, <1>2 DEF SidePath, Checks, Asking, Parsed
  <1>15. QED  BY <1>8, <1>11, <1>12, <1>13, <1>14 DEF SideInv, Side!SideSound

\* A request that nobody has read yet.
LEMMA SideInit ==
  ASSUME Side!SideAssumption, Side!Init
  PROVE  SideInv
  <1>1. /\ request \in SideRequests /\ request.admin \in BOOLEAN /\ caller = "here" /\ sent = <<>>
        /\ upstream = Side!NoAnswer /\ answer = <<0, <<>>>>
        /\ usage = [requests |-> 0, images |-> 0] /\ told = <<>>
        /\ step = IF request.admin THEN "probe" ELSE "read"
    BY DEF Side!Init, Side!SideAssumption
  <1>2. SidePath  BY <1>1 DEF SidePath, Untouched, Checks, Asking, Parsed
  <1>3. upstream.kind = "none" /\ answer[1] = 0 /\ usage.requests = 0 /\ usage.images = 0 /\ Len(told) <= 2
    BY <1>1 DEF Side!NoAnswer
  <1>4. Side!TypeOK  BY <1>1, <1>3 DEF Side!TypeOK
  <1>5. QED
    BY <1>1, <1>2, <1>4 DEF SideInv, Side!SideSound, Side!NoFalseSuccess, Side!MeteredOnce, Side!OwnAnswers, Side!Ended

\* A step that changes none of its variables keeps the invariant.
LEMMA SideStutter ==
  ASSUME SideInv, UNCHANGED Side!vars
  PROVE  SideInv'
  <1>1. UNCHANGED <<request, step, caller, sent, upstream, answer, usage, told>>  BY DEF Side!vars
  <1>2. SidePath'
    BY <1>1 DEF SideInv, SidePath, Untouched, NamesModel, Answer, Side!Decision, Side!Answers, Side!Passes,
       Side!synthesizeAnswers
  <1>3. Side!TypeOK' /\ Side!NoFalseSuccess' /\ Side!MeteredOnce' /\ Side!OwnAnswers'
    BY <1>1 DEF SideInv, Side!SideSound, Side!TypeOK, Side!NoFalseSuccess, Side!MeteredOnce, Side!OwnAnswers,
       Side!Ended, Side!Called, Side!Decision
  <1>4. QED  BY <1>2, <1>3 DEF SideInv, Side!SideSound

\* HandleDecision, HandleImageGeneration and ExecuteTest: no error that a provider
\* reports with a message or a code is relayed as a success, and what TypeSafe's
\* adapter lets through without answers refuses every question; a call is metered
\* once whether or not its client has gone; and the answers made from TypeSafe's are
\* those to its questions, in order, whatever names it answered.  For any requests,
\* and any Trim that leaves what it has trimmed alone.
THEOREM SideHolds ==
  ASSUME Side!SideAssumption
  PROVE  Side!Spec => []SideSound
  <1>1. Side!Init => SideInv  BY SideInit
  <1>2. SideInv /\ [Side!Next]_(Side!vars) => SideInv'
    BY SideCheckStep, SideBuildStep, SideCallStep, SideRelayStep, SideMeterStep, SideStutter DEF Side!Next
  <1>3. SideInv => SideSound  BY DEF SideInv, SideSound
  <1>4. QED  BY <1>1, <1>2, <1>3, PTL DEF Side!Spec

-----------------------------------------------------------------------------
(* An Anthropic message.                                                   *)

\* The fallback loop.
Loop == {"next", "attempt", "reenter", "exhausted"}

\* Nothing has been sent while the loop runs; a model that was left behind, in
\* this list or in the one before a re-entry, has failed and is logged so.
LoopPath ==
    /\ at \in {"start", "route", "end"} \cup Loop
    /\ at # "end" => outcome = "none" /\ headers = FALSE /\ entry # "completed"
    /\ at \in {"start", "route"} => idx = 1 /\ reentered = FALSE
    /\ at \in Loop =>
          /\ idx \in Nat \ {0} /\ Len(list) \in Nat
          /\ idx > 1 \/ reentered => entry = "failed"
          /\ Len(list) = 0 => reentered
    /\ at = "reenter" => idx > Len(list)
    /\ at = "exhausted" /\ client = "here" => idx > Len(list)

MessageInv == LoopPath /\ Message!LogIsOutcome /\ Message!AllTried

\* One step of the handler.
LEMMA MessageStep ==
  ASSUME Message!MessageAssumption, MessageInv, Message!Next
  PROVE  MessageInv'
  <1> USE DEF MessageInv, LoopPath, Loop, Message!LogIsOutcome, Message!AllTried, Message!End, Message!Steady
  <1>1. CASE Message!Refuse  BY <1>1 DEF Message!Refuse
  <1>2. CASE Message!Admit  BY <1>2 DEF Message!Admit
  <1>3. CASE Message!Route  BY <1>3 DEF Message!Route, Message!MessageAssumption
  <1>4. CASE Message!NextModel  BY <1>4 DEF Message!NextModel
  <1>5. CASE Message!Reenter  BY <1>5 DEF Message!Reenter, Message!MessageAssumption
  <1>6. CASE Message!Exhausted  BY <1>6 DEF Message!Exhausted
  <1>7. CASE Message!Abandoned  BY <1>7 DEF Message!Abandoned
  <1>8. CASE Message!Unresolved  BY <1>8 DEF Message!Unresolved, Message!Failed
  <1>9. CASE Message!Disconnect  BY <1>9 DEF Message!Disconnect
  <1>10. ASSUME NEW r \in Message!Results,
                Message!Passthrough(r) \/ Message!InternalBuffered(r) \/ Message!InternalLive(r)
         PROVE  MessageInv'
    <2>1. at = "attempt" /\ UNCHANGED <<req, setup, client, list, reentered>>
      BY <1>10 DEF Message!Passthrough, Message!InternalBuffered, Message!InternalLive, Message!Call
    <2>2. \/ \E e : Message!Failed(e)
          \/ Message!Failover
          \/ entry' = "completed" /\ at' = "end" /\ outcome' \in {"stream", "answer"} /\ UNCHANGED idx
          \/ at' = "end" /\ outcome' \in {"broken", "none"} /\ UNCHANGED <<entry, idx>>
      BY <1>10 DEF Message!Passthrough, Message!InternalBuffered, Message!InternalLive, Message!Completed,
         Message!Recorded, Message!Untranslatable, Message!End
    <2>3. CASE \E e : Message!Failed(e)  BY <2>1, <2>3 DEF Message!Failed
    <2>4. CASE Message!Failover  BY <2>1, <2>4 DEF Message!Failover
    <2>5. CASE entry' = "completed" /\ at' = "end" /\ outcome' \in {"stream", "answer"} /\ UNCHANGED idx
      BY <2>1, <2>5
    <2>6. CASE at' = "end" /\ outcome' \in {"broken", "none"} /\ UNCHANGED <<entry, idx>>
      BY <2>1, <2>6
    <2>7. QED  BY <2>2, <2>3, <2>4, <2>5, <2>6
  <1>11. QED  BY <1>1, <1>2, <1>3, <1>4, <1>5, <1>6, <1>7, <1>8, <1>9, <1>10 DEF Message!Next

\* Only the loop calls a model, and it stands at an attempt when it does.
LEMMA CallsAtAttempt ==
  ASSUME Message!Next, calls' # calls
  PROVE  at = "attempt"
  BY DEF Message!Next, Message!Refuse, Message!Admit, Message!Route, Message!NextModel, Message!Reenter,
         Message!Exhausted, Message!Abandoned, Message!Unresolved, Message!Disconnect, Message!Passthrough,
         Message!InternalBuffered, Message!InternalLive, Message!Call

\* HandleAnthropicMessages: a client is told that all models failed only when
\* every model of its list was attempted, no model is called once a byte of an
\* answer was sent, and the log entry tells the outcome.  For lists of any
\* length, any providers, and any number of failures.
THEOREM MessageHolds ==
  ASSUME Message!MessageAssumption
  PROVE  Message!Spec => MessageSound
  <1>1. Message!Init => MessageInv
    BY DEF Message!Init, MessageInv, LoopPath, Loop, Message!LogIsOutcome, Message!AllTried
  <1>2. MessageInv /\ UNCHANGED Message!vars => MessageInv'
    BY DEF Message!vars, MessageInv, LoopPath, Message!LogIsOutcome, Message!AllTried
  <1>3. MessageInv /\ [Message!Next]_(Message!vars) => MessageInv'
    BY <1>2, MessageStep
  <1>4. MessageInv /\ [Message!Next]_(Message!vars)
        => [calls' # calls => outcome = "none" /\ ~headers]_(Message!vars)
    BY CallsAtAttempt DEF MessageInv, LoopPath
  <1>5. MessageInv => Message!LogIsOutcome /\ Message!AllTried
    BY DEF MessageInv
  <1>6. QED
    BY <1>1, <1>3, <1>4, <1>5, PTL DEF Message!Spec, MessageSound, Message!MessageSound, Message!SilentAfterBytes

-----------------------------------------------------------------------------
(* The MCP gateway.                                                        *)

CONSTANTS Servers, Conns, Secrets, Urls, MaxLines, MaxEdits
VARIABLES row, edit, edits, conn, registry, lines, relayed, header, paired

Mcp == INSTANCE McpGateway WITH Tokens <- Secrets, wire <- relayed, sent <- header

Stages == {"idle", "accepted", "registered", "open", "leaving", "ended"}
Record == Mcp!Records
Lines == {"endpoint", "message", "id", "path", "text", ""}
Event == [type : Lines, raw : Seq(Lines), data : Seq(Lines)]
Handler == [stage : Stages, server : Servers, row : {Mcp!Absent} \cup Record, cut : BOOLEAN, cur : Event]
Edit == [op : {"idle", "delete"}, server : Servers]

McpTypes ==
    /\ row \in [Servers -> {Mcp!Absent} \cup Record]
    /\ edit \in Edit /\ edits \in 0..MaxEdits
    /\ conn \in [Conns -> Handler]
    /\ registry \in [Servers -> Seq(Conns)]

\* An address and a token that a request may use were columns of one row: those of
\* the table as it is now, and those a connection has read, whatever was edited since.
Pair(record) == [url |-> record.url, token |-> record.token]
StoredTogether ==
    /\ \A s \in Servers : row[s] # Mcp!Absent => Pair(row[s]) \in paired
    /\ \A c \in Conns : conn[c].stage # "idle" => conn[c].row \in Record /\ Pair(conn[c].row) \in paired

\* A cancel function is filed under the server of its connection, whoever has
\* edited the registry since.
FiledByServer ==
    \A s \in Servers : \A i \in DOMAIN registry[s] :
        conn[registry[s][i]].server = s /\ conn[registry[s][i]].stage # "idle"

McpInv == McpTypes /\ FiledByServer /\ StoredTogether /\ Mcp!TokenStaysHere

\* An operation of the API is counted within its bound.
LEMMA EditCounted ==
  ASSUME Mcp!McpAssumption, edits \in 0..MaxEdits, edits < MaxEdits
  PROVE  edits + 1 \in 0..MaxEdits
  <1>1. MaxEdits \in Nat  BY DEF Mcp!McpAssumption
  <1>2. QED  BY <1>1

\* A server that exists has a record, whose columns are a pair.
LEMMA ExistsRecord ==
  ASSUME McpInv, NEW s \in Servers, Mcp!Exists(s)
  PROVE  row[s] \in Record /\ Pair(row[s]) \in paired
  BY DEF McpInv, McpTypes, StoredTogether, Mcp!Exists

\* injectAuth sets the token of the record whose address is called, or none.
LEMMA AsksOwn ==
  ASSUME NEW record \in Record, Pair(record) \in paired, Mcp!Asks(record), UNCHANGED paired
  PROVE  Mcp!TokenStaysHere'
  <1>1. header' = [to |-> record.url, auth |-> Mcp!Authorization(record)]  BY DEF Mcp!Asks
  <1>2. header'.to = record.url /\ header'.auth = Mcp!Authorization(record)  BY <1>1
  <1>3. CASE record.auth = "none"
    <2>1. header'.auth = "none"  BY <1>2, <1>3 DEF Mcp!Authorization
    <2>2. QED  BY <2>1 DEF Mcp!TokenStaysHere
  <1>4. CASE record.auth # "none"
    <2>1. header'.auth = record.token  BY <1>2, <1>4 DEF Mcp!Authorization
    <2>2. [url |-> header'.to, token |-> header'.auth] = Pair(record)  BY <1>2, <2>1 DEF Pair
    <2>3. QED  BY <2>2 DEF Mcp!TokenStaysHere
  <1>5. QED  BY <1>3, <1>4

\* One row is written: its columns become a pair, and those there were stay.
LEMMA McpWrite ==
  ASSUME Mcp!McpAssumption, McpInv, NEW s \in Servers, NEW record \in Record, Mcp!Stored(s, record),
         edits < MaxEdits, edits' = edits + 1, UNCHANGED <<edit, conn, registry, header>>
  PROVE  McpInv'
  <1>t. row \in [Servers -> {Mcp!Absent} \cup Record] /\ edits \in 0..MaxEdits
    BY DEF McpInv, McpTypes
  <1>1. row' = [row EXCEPT ![s] = record] /\ paired' = paired \cup {Pair(record)}
    BY DEF Mcp!Stored, Pair
  <1>2. row' \in [Servers -> {Mcp!Absent} \cup Record]  BY <1>t, <1>1
  <1>3. edits' \in 0..MaxEdits  BY <1>t, EditCounted
  <1>4. McpTypes'  BY <1>2, <1>3 DEF McpInv, McpTypes
  <1>5. FiledByServer'  BY DEF McpInv, FiledByServer
  <1>6. \A t \in Servers : row'[t] # Mcp!Absent => Pair(row'[t]) \in paired'
    BY <1>t, <1>1 DEF McpInv, StoredTogether
  <1>7. \A c \in Conns : conn'[c].stage # "idle" => conn'[c].row \in Record /\ Pair(conn'[c].row) \in paired'
    BY <1>1 DEF McpInv, StoredTogether
  <1>8. StoredTogether'
    BY <1>6, <1>7 DEF StoredTogether, Mcp!Absent, Pair, Record, Mcp!Records
  <1>9. Mcp!TokenStaysHere'  BY <1>1 DEF McpInv, Mcp!TokenStaysHere
  <1>10. QED  BY <1>4, <1>5, <1>8, <1>9 DEF McpInv

\* The operations of the administration API on the table, and what is forwarded.
LEMMA McpTable ==
  ASSUME Mcp!McpAssumption, McpInv,
         \/ \E s \in Servers : Mcp!Create(s) \/ Mcp!Update(s) \/ Mcp!TestServer(s) \/ Mcp!Message(s)
                               \/ Mcp!Streamable(s)
         \/ Mcp!FinishDelete
  PROVE  McpInv' /\ UNCHANGED <<conn, registry>>
  <1>a. UNCHANGED <<conn, registry>>
    BY DEF Mcp!Create, Mcp!Update, Mcp!TestServer, Mcp!Message, Mcp!Streamable, Mcp!FinishDelete
  <1>1. ASSUME NEW s \in Servers, Mcp!Create(s)  PROVE McpInv'
    <2>1. PICK auth \in {"none", "bearer"}, token \in Secrets \cup {"", "masked"}, on \in BOOLEAN, url \in Urls :
             Mcp!Stored(s, [on |-> on, auth |-> auth, token |-> token, url |-> url])
      BY <1>1 DEF Mcp!Create
    <2> DEFINE new == [on |-> on, auth |-> auth, token |-> token, url |-> url]
    <2>2. new \in Record  BY DEF Record, Mcp!Records
    <2>3. edits' = edits + 1 /\ edits < MaxEdits /\ UNCHANGED <<edit, conn, registry, header>>  BY <1>1 DEF Mcp!Create
    <2> HIDE DEF new
    <2>4. Mcp!Stored(s, new)  BY <2>1 DEF new
    <2>5. QED  BY <2>2, <2>3, <2>4, McpWrite
  <1>2. ASSUME NEW s \in Servers, Mcp!Update(s)  PROVE McpInv'
    <2>1. PICK auth \in {"nil", "none", "bearer"}, token \in Secrets \cup {"nil", "", "masked"}, on \in BOOLEAN,
               url \in Urls \cup {"nil"} :
             /\ Mcp!ValidUpdate(row[s], auth, token)
             /\ Mcp!Stored(s, [on |-> on, auth |-> IF auth = "nil" THEN row[s].auth ELSE auth,
                               url |-> IF url = "nil" THEN row[s].url ELSE url,
                               token |-> IF token \in {"nil", ""} THEN row[s].token ELSE token])
      BY <1>2 DEF Mcp!Update
    <2> DEFINE new == [on |-> on, auth |-> IF auth = "nil" THEN row[s].auth ELSE auth,
                       url |-> IF url = "nil" THEN row[s].url ELSE url,
                       token |-> IF token \in {"nil", ""} THEN row[s].token ELSE token]
    <2>2. row[s] \in Record  BY <1>2, ExistsRecord DEF Mcp!Update
    <2>3. /\ row[s].auth \in {"none", "bearer"} /\ row[s].url \in Urls
          /\ row[s].token \in Secrets \cup {"", "masked"}
      BY <2>2 DEF Record, Mcp!Records
    <2>4. new \in Record  BY <2>3 DEF Record, Mcp!Records
    <2>5. edits' = edits + 1 /\ edits < MaxEdits /\ UNCHANGED <<edit, conn, registry, header>>  BY <1>2 DEF Mcp!Update
    <2> HIDE DEF new
    <2>6. Mcp!Stored(s, new)  BY <2>1 DEF new
    <2>7. QED  BY <2>4, <2>5, <2>6, McpWrite
  <1>3. ASSUME NEW s \in Servers, Mcp!TestServer(s) \/ Mcp!Message(s) \/ Mcp!Streamable(s)  PROVE McpInv'
    <2>1. Mcp!Exists(s) /\ Mcp!Asks(row[s]) /\ UNCHANGED <<row, edit, edits, paired>>
      BY <1>3 DEF Mcp!TestServer, Mcp!Message, Mcp!Streamable, Mcp!Forward
    <2>2. row[s] \in Record /\ Pair(row[s]) \in paired  BY <2>1, ExistsRecord
    <2>3. Mcp!TokenStaysHere'  BY <2>1, <2>2, AsksOwn
    <2>4. McpTypes' /\ FiledByServer' /\ StoredTogether'
      BY <1>a, <2>1 DEF McpInv, McpTypes, FiledByServer, StoredTogether
    <2>5. QED  BY <2>3, <2>4 DEF McpInv
  <1>4. ASSUME Mcp!FinishDelete  PROVE McpInv'
    <2>1. row' = row \/ row' = [row EXCEPT ![edit.server] = Mcp!Absent]  BY <1>4 DEF Mcp!FinishDelete
    <2>t. row \in [Servers -> {Mcp!Absent} \cup Record]  BY DEF McpInv, McpTypes
    <2>2. row' \in [Servers -> {Mcp!Absent} \cup Record]  BY <2>t, <2>1
    <2>3. edit' = Mcp!Idle /\ UNCHANGED <<edits, header, paired>>  BY <1>4 DEF Mcp!FinishDelete
    <2>4. Mcp!Idle \in Edit  BY DEF Mcp!Idle, Edit, Mcp!McpAssumption
    <2>5. McpTypes'  BY <1>a, <2>2, <2>3, <2>4 DEF McpInv, McpTypes
    <2>6. \A s \in Servers : row'[s] = row[s] \/ row'[s] = Mcp!Absent  BY <2>t, <2>1
    <2>7. \A s \in Servers : row'[s] # Mcp!Absent => Pair(row'[s]) \in paired'
      BY <2>3, <2>6 DEF McpInv, StoredTogether
    <2>8. StoredTogether'
      BY <1>a, <2>3, <2>7 DEF McpInv, StoredTogether, Mcp!Absent, Pair, Record, Mcp!Records
    <2>9. FiledByServer' /\ Mcp!TokenStaysHere'  BY <1>a, <2>3 DEF McpInv, FiledByServer, Mcp!TokenStaysHere
    <2>10. QED  BY <2>5, <2>8, <2>9 DEF McpInv
  <1>5. QED  BY <1>a, <1>1, <1>2, <1>3, <1>4

\* The registry holds connections.
LEMMA FiledAreConns ==
  ASSUME McpInv
  PROVE  \A t \in Servers : \A i \in DOMAIN registry[t] : registry[t][i] \in Conns
  <1> TAKE t \in Servers
  <1>1. registry[t] \in Seq(Conns)  BY DEF McpInv, McpTypes
  <1>2. QED  BY <1>1

\* CloseConnections and CloseAll: a function that is called is one that was filed.
LEMMA McpCut ==
  ASSUME Mcp!McpAssumption, McpInv, (\E s \in Servers : Mcp!BeginDelete(s)) \/ Mcp!Shutdown
  PROVE  /\ McpInv'
         /\ \A c \in DOMAIN conn : conn'[c].cut /\ ~conn[c].cut =>
               \/ edit'.op = "delete" /\ edit'.server = conn[c].server
               \/ edit' = edit /\ \A s \in DOMAIN registry : registry'[s] = <<>>
  <1>t. /\ row \in [Servers -> {Mcp!Absent} \cup Record] /\ edit \in Edit /\ edits \in 0..MaxEdits
        /\ conn \in [Conns -> Handler] /\ registry \in [Servers -> Seq(Conns)]
        /\ FiledByServer /\ StoredTogether /\ Mcp!TokenStaysHere
    BY DEF McpInv, McpTypes
  <1>e. <<>> \in Seq(Conns)  OBVIOUS
  <1>1. ASSUME NEW s \in Servers, Mcp!BeginDelete(s)
        PROVE  /\ McpInv'
               /\ edit'.op = "delete" /\ edit'.server = s
               /\ \A c \in Conns : conn'[c].cut /\ ~conn[c].cut => conn[c].server = s
    <2>1. /\ conn' = [c \in Conns |-> [conn[c] EXCEPT !.cut = conn[c].cut \/ c \in {registry[s][i] : i \in DOMAIN registry[s]}]]
          /\ registry' = [registry EXCEPT ![s] = <<>>]
      BY <1>1 DEF Mcp!BeginDelete, Mcp!CloseConnections, Mcp!ToSet
    <2>2. /\ edit' = [op |-> "delete", server |-> s]
          /\ edits' = edits + 1 /\ edits < MaxEdits /\ UNCHANGED <<row, header, paired>>
      BY <1>1 DEF Mcp!BeginDelete
    <2>4. edit' \in Edit /\ edit'.op = "delete" /\ edit'.server = s  BY <2>2 DEF Edit
    <2>5. edits' \in 0..MaxEdits  BY <1>t, <2>2, EditCounted
    <2>6. \A c \in Conns : /\ conn'[c] \in Handler
                           /\ conn'[c].server = conn[c].server /\ conn'[c].stage = conn[c].stage
                           /\ conn'[c].row = conn[c].row
                           /\ conn'[c].cut /\ ~conn[c].cut => \E i \in DOMAIN registry[s] : c = registry[s][i]
      <3> TAKE c \in Conns
      <3> DEFINE cutting == conn[c].cut \/ c \in {registry[s][i] : i \in DOMAIN registry[s]}
      <3>1. conn'[c] = [conn[c] EXCEPT !.cut = cutting] /\ conn[c] \in Handler  BY <1>t, <2>1
      <3>2. cutting \in BOOLEAN  OBVIOUS
      <3>3. cutting /\ ~conn[c].cut => \E i \in DOMAIN registry[s] : c = registry[s][i]  OBVIOUS
      <3> HIDE DEF cutting
      <3>4. QED  BY <3>1, <3>2, <3>3 DEF Handler
    <2>7. conn' \in [Conns -> Handler] /\ registry' \in [Servers -> Seq(Conns)]
      BY <1>t, <1>e, <2>1, <2>6
    <2>8. FiledByServer'
      <3>1. \A t \in Servers : registry'[t] = registry[t] \/ registry'[t] = <<>>  BY <1>t, <2>1
      <3>2. DOMAIN <<>> = {}  OBVIOUS
      <3>3. \A t \in Servers : \A i \in DOMAIN registry[t] : registry[t][i] \in Conns  BY FiledAreConns
      <3>4. ASSUME NEW t \in Servers, NEW i \in DOMAIN registry'[t]
            PROVE  conn'[registry'[t][i]].server = t /\ conn'[registry'[t][i]].stage # "idle"
        <4>1. registry'[t] = registry[t]  BY <3>1, <3>2, <3>4
        <4>2. registry[t][i] \in Conns  BY <3>3, <3>4, <4>1
        <4>3. conn[registry[t][i]].server = t /\ conn[registry[t][i]].stage # "idle"
          BY <1>t, <3>4, <4>1 DEF FiledByServer
        <4>4. QED  BY <2>6, <4>1, <4>2, <4>3
      <3>5. QED  BY <3>4 DEF FiledByServer
    <2>a. StoredTogether'
      <3>1. \A c \in Conns : conn'[c].stage # "idle" => conn'[c].row \in Record /\ Pair(conn'[c].row) \in paired'
        BY <1>t, <2>2, <2>6 DEF StoredTogether
      <3>2. \A t \in Servers : row'[t] # Mcp!Absent => Pair(row'[t]) \in paired'  BY <1>t, <2>2 DEF StoredTogether
      <3>3. QED  BY <3>1, <3>2 DEF StoredTogether, Mcp!Absent, Pair, Record, Mcp!Records
    <2>b. Mcp!TokenStaysHere'  BY <1>t, <2>2 DEF Mcp!TokenStaysHere
    <2>9. McpInv'  BY <1>t, <2>2, <2>4, <2>5, <2>7, <2>8, <2>a, <2>b DEF McpInv, McpTypes
    <2>10. \A i \in DOMAIN registry[s] : conn[registry[s][i]].server = s  BY <1>t DEF FiledByServer
    <2>11. QED  BY <2>4, <2>6, <2>9, <2>10
  <1>2. ASSUME Mcp!Shutdown
        PROVE  McpInv' /\ edit' = edit /\ \A s \in Servers : registry'[s] = <<>>
    <2>1. /\ conn' = [c \in Conns |-> [conn[c] EXCEPT !.cut = conn[c].cut \/ \E s \in Servers : c \in Mcp!ToSet(registry[s])]]
          /\ registry' = [s \in Servers |-> <<>>] /\ UNCHANGED <<row, edit, edits, header, paired>>
      BY <1>2 DEF Mcp!Shutdown
    <2>2. \A c \in Conns : /\ conn'[c] \in Handler
                           /\ conn'[c].stage = conn[c].stage /\ conn'[c].row = conn[c].row
      <3> TAKE c \in Conns
      <3> DEFINE cutting == conn[c].cut \/ \E s \in Servers : c \in Mcp!ToSet(registry[s])
      <3>1. conn'[c] = [conn[c] EXCEPT !.cut = cutting] /\ conn[c] \in Handler  BY <1>t, <2>1
      <3>2. cutting \in BOOLEAN  OBVIOUS
      <3> HIDE DEF cutting
      <3>3. QED  BY <3>1, <3>2 DEF Handler
    <2>3. conn' \in [Conns -> Handler] /\ registry' \in [Servers -> Seq(Conns)]  BY <1>e, <2>1, <2>2
    <2>4. FiledByServer'  BY <2>1 DEF FiledByServer
    <2>5. StoredTogether'
      <3>1. \A c \in Conns : conn'[c].stage # "idle" => conn'[c].row \in Record /\ Pair(conn'[c].row) \in paired'
        BY <1>t, <2>1, <2>2 DEF StoredTogether
      <3>2. \A t \in Servers : row'[t] # Mcp!Absent => Pair(row'[t]) \in paired'  BY <1>t, <2>1 DEF StoredTogether
      <3>3. QED  BY <3>1, <3>2 DEF StoredTogether, Mcp!Absent, Pair, Record, Mcp!Records
    <2>6. Mcp!TokenStaysHere'  BY <1>t, <2>1 DEF Mcp!TokenStaysHere
    <2>7. QED  BY <1>t, <2>1, <2>3, <2>4, <2>5, <2>6 DEF McpInv, McpTypes
  <1>3. DOMAIN conn = Conns /\ DOMAIN registry = Servers  BY <1>t
  <1>4. QED  BY <1>1, <1>2, <1>3

\* What streamSSEEvents collects is an event.
LEMMA CollectEvent ==
  ASSUME NEW e \in Event, NEW l \in {"endpoint", "message", "id", "path", "text"}
  PROVE  Mcp!Collect(e, l) \in Event
  <1>1. e.raw \in Seq(Lines) /\ e.data \in Seq(Lines)  BY DEF Event
  <1> DEFINE raw == e.raw  data == e.data
  <1>a. raw \in Seq(Lines) /\ data \in Seq(Lines) /\ l \in Lines  BY <1>1 DEF Lines
  <1> HIDE DEF raw, data
  <1>b. Append(raw, l) \in Seq(Lines) /\ Append(data, l) \in Seq(Lines)  BY <1>a
  <1>2. Append(e.raw, l) \in Seq(Lines) /\ Append(e.data, l) \in Seq(Lines)  BY <1>b DEF raw, data
  <1>3. CASE l \in {"endpoint", "message"}
    <2>1. Mcp!Collect(e, l) = [e EXCEPT !.type = l, !.raw = Append(e.raw, l)]  BY <1>3 DEF Mcp!Collect
    <2>2. QED  BY <1>a, <1>2, <2>1, Zenon DEF Event
  <1>4. CASE l \in {"path", "text"}
    <2>1. Mcp!Collect(e, l) = [e EXCEPT !.data = Append(e.data, l)]  BY <1>4 DEF Mcp!Collect
    <2>2. QED  BY <1>2, <2>1 DEF Event
  <1>5. CASE l = "id"
    <2>1. Mcp!Collect(e, l) = [e EXCEPT !.raw = Append(e.raw, l)]  BY <1>5 DEF Mcp!Collect
    <2>2. QED  BY <1>2, <2>1 DEF Event
  <1>6. QED  BY <1>3, <1>4, <1>5

\* A step of one connection's handler that leaves the registry alone.
LEMMA McpHandler ==
  ASSUME Mcp!McpAssumption, McpInv,
         NEW c \in Conns, NEW h \in Handler, h.server = conn[c].server \/ conn[c].stage = "idle",
         h.stage # "idle", h.row \in Record, Pair(h.row) \in paired, conn' = [conn EXCEPT ![c] = h],
         UNCHANGED <<row, edit, edits, registry, paired>>, Mcp!TokenStaysHere'
  PROVE  McpInv'
  <1>t. /\ conn \in [Conns -> Handler] /\ registry \in [Servers -> Seq(Conns)] /\ FiledByServer
    BY DEF McpInv, McpTypes
  <1>1. McpTypes'  BY <1>t DEF McpInv, McpTypes
  <1>2. ASSUME NEW s \in Servers, NEW i \in DOMAIN registry'[s]
        PROVE  conn'[registry'[s][i]].server = s /\ conn'[registry'[s][i]].stage # "idle"
    <2>a. registry'[s] = registry[s] /\ i \in DOMAIN registry[s]  BY <1>2
    <2>1. registry[s][i] \in Conns  BY <2>a, FiledAreConns
    <2>2. conn[registry[s][i]].server = s /\ conn[registry[s][i]].stage # "idle"  BY <1>t, <2>a DEF FiledByServer
    <2>3. CASE registry[s][i] = c  BY <1>t, <2>a, <2>1, <2>2, <2>3
    <2>4. CASE registry[s][i] # c  BY <1>t, <2>a, <2>1, <2>2, <2>4
    <2>5. QED  BY <2>3, <2>4
  <1>3. FiledByServer'  BY <1>2 DEF FiledByServer
  <1>4. \A d \in Conns : conn'[d].stage # "idle" => conn'[d].row \in Record /\ Pair(conn'[d].row) \in paired'
    BY <1>t DEF McpInv, StoredTogether
  <1>5. \A t \in Servers : row'[t] # Mcp!Absent => Pair(row'[t]) \in paired'  BY DEF McpInv, StoredTogether
  <1>6. StoredTogether'  BY <1>4, <1>5 DEF StoredTogether, Mcp!Absent, Pair, Record, Mcp!Records
  <1>7. QED  BY <1>1, <1>3, <1>6 DEF McpInv

\* A connection is accepted, hangs up, reaches its upstream, or reads from it.
LEMMA McpConnection ==
  ASSUME Mcp!McpAssumption, McpInv, NEW c \in Conns,
         (\E s \in Servers : Mcp!Accept(c, s)) \/ Mcp!HangUp(c) \/ Mcp!Connect(c) \/ Mcp!ReadLine(c) \/ Mcp!EndOfStream(c)
  PROVE  McpInv' /\ UNCHANGED <<edit, registry>>
  <1>t. /\ conn \in [Conns -> Handler] /\ conn[c] \in Handler
        /\ conn[c].stage # "idle" => conn[c].row \in Record /\ Pair(conn[c].row) \in paired
    BY DEF McpInv, McpTypes, StoredTogether
  <1>u. UNCHANGED <<row, edit, edits, registry, paired>>
    BY DEF Mcp!Accept, Mcp!HangUp, Mcp!Connect, Mcp!ReadLine, Mcp!EndOfStream
  <1>h. header' = header => Mcp!TokenStaysHere'
    BY <1>u DEF McpInv, Mcp!TokenStaysHere
  <1>n. Mcp!NoEvent \in Event
    <2>1. <<>> \in Seq(Lines) /\ "" \in Lines  BY DEF Lines
    <2>2. QED  BY <2>1, Zenon DEF Mcp!NoEvent, Event
  <1>1. ASSUME NEW s \in Servers, Mcp!Accept(c, s)  PROVE McpInv'
    <2> DEFINE h == [stage |-> "accepted", server |-> s, row |-> row[s], cut |-> FALSE, cur |-> Mcp!NoEvent]
    <2>1. conn[c].stage = "idle" /\ Mcp!Exists(s) /\ conn' = [conn EXCEPT ![c] = h] /\ header' = header
      BY <1>1 DEF Mcp!Accept
    <2>2. row[s] \in Record /\ Pair(row[s]) \in paired  BY <2>1, ExistsRecord
    <2>3. h \in Handler /\ h.stage # "idle" /\ h.row = row[s]  BY <1>n, <2>2 DEF Handler, Stages
    <2> HIDE DEF h
    <2>4. QED  BY <1>u, <1>h, <2>1, <2>2, <2>3, McpHandler
  <1>2. ASSUME Mcp!HangUp(c)  PROVE McpInv'
    <2> DEFINE h == [conn[c] EXCEPT !.cut = TRUE]
    <2>1. conn[c].stage # "idle" /\ conn' = [conn EXCEPT ![c] = h] /\ header' = header
      BY <1>2 DEF Mcp!HangUp
    <2>2. h \in Handler /\ h.server = conn[c].server /\ h.stage # "idle" /\ h.row = conn[c].row
      BY <1>t, <2>1 DEF Handler
    <2> HIDE DEF h
    <2>3. QED  BY <1>t, <1>u, <1>h, <2>1, <2>2, McpHandler
  <1>3. ASSUME Mcp!Connect(c)  PROVE McpInv'
    <2>1. PICK g \in {"open", "leaving"} : conn' = [conn EXCEPT ![c] = [conn[c] EXCEPT !.stage = g]]
      BY <1>3 DEF Mcp!Connect
    <2> DEFINE h == [conn[c] EXCEPT !.stage = g]
    <2>2. h \in Handler /\ h.server = conn[c].server /\ h.stage # "idle" /\ h.row = conn[c].row
      BY <1>t, <2>1 DEF Handler, Stages
    <2>3. Mcp!Asks(conn[c].row) /\ conn[c].stage = "registered"  BY <1>3 DEF Mcp!Connect
    <2>4. conn[c].row \in Record /\ Pair(conn[c].row) \in paired  BY <1>t, <2>3
    <2>5. Mcp!TokenStaysHere'  BY <1>u, <2>3, <2>4, AsksOwn
    <2>6. conn' = [conn EXCEPT ![c] = h]  BY <2>1
    <2> HIDE DEF h
    <2>7. QED  BY <1>u, <2>2, <2>4, <2>5, <2>6, McpHandler
  <1>4. ASSUME Mcp!ReadLine(c)  PROVE McpInv'
    <2>1. PICK line \in {"endpoint", "message", "id", "path", "text", ""} :
             \/ conn' = [conn EXCEPT ![c] = [conn[c] EXCEPT !.stage = "leaving"]]
             \/ conn' = [conn EXCEPT ![c] = [conn[c] EXCEPT !.cur = Mcp!NoEvent]]
             \/ line # "" /\ conn' = [conn EXCEPT ![c] = [conn[c] EXCEPT !.cur = Mcp!Collect(conn[c].cur, line)]]
      BY <1>4 DEF Mcp!ReadLine
    <2>2. conn[c].stage = "open" /\ header' = header  BY <1>4 DEF Mcp!ReadLine
    <2>3. conn[c].cur \in Event  BY <1>t DEF Handler
    <2>4. line # "" => Mcp!Collect(conn[c].cur, line) \in Event  BY <2>3, CollectEvent
    <2>5. PICK h : /\ conn' = [conn EXCEPT ![c] = h]
                   /\ \/ h = [conn[c] EXCEPT !.stage = "leaving"]
                      \/ \E e \in Event : h = [conn[c] EXCEPT !.cur = e]
      BY <1>n, <2>1, <2>4
    <2>6. h \in Handler /\ h.server = conn[c].server /\ h.stage # "idle" /\ h.row = conn[c].row
      BY <1>t, <2>2, <2>5 DEF Handler, Stages
    <2>7. QED  BY <1>t, <1>u, <1>h, <2>2, <2>5, <2>6, McpHandler
  <1>5. ASSUME Mcp!EndOfStream(c)  PROVE McpInv'
    <2> DEFINE h == [conn[c] EXCEPT !.stage = "leaving", !.cur = Mcp!NoEvent]
    <2>1. conn[c].stage = "open" /\ conn' = [conn EXCEPT ![c] = h] /\ header' = header
      BY <1>5 DEF Mcp!EndOfStream
    <2>2. h \in Handler /\ h.server = conn[c].server /\ h.stage # "idle" /\ h.row = conn[c].row
      BY <1>t, <1>n DEF Handler, Stages
    <2> HIDE DEF h
    <2>3. QED  BY <1>t, <1>u, <1>h, <2>1, <2>2, McpHandler
  <1>6. QED  BY <1>u, <1>1, <1>2, <1>3, <1>4, <1>5

\* A handler files its cancel function, and takes the first one out when it leaves.
LEMMA McpRegistry ==
  ASSUME Mcp!McpAssumption, McpInv, NEW c \in Conns, Mcp!Register(c) \/ Mcp!Unregister(c)
  PROVE  McpInv' /\ \A d \in DOMAIN conn : conn'[d].cut = conn[d].cut
  <1>t. /\ conn \in [Conns -> Handler] /\ registry \in [Servers -> Seq(Conns)] /\ FiledByServer
        /\ conn[c] \in Handler
    BY DEF McpInv, McpTypes
  <1>1. PICK g \in {"registered", "ended"} : conn' = [conn EXCEPT ![c] = [conn[c] EXCEPT !.stage = g]]
    BY DEF Mcp!Register, Mcp!Unregister
  <1>2. UNCHANGED <<row, edit, edits, header, paired>> /\ conn[c].stage # "idle"
    BY DEF Mcp!Register, Mcp!Unregister
  <1> DEFINE h == [conn[c] EXCEPT !.stage = g]
             S == conn[c].server
  <1>3. /\ h \in Handler /\ h.server = S /\ h.cut = conn[c].cut /\ h.row = conn[c].row /\ h.stage # "idle" /\ S \in Servers
        /\ conn' = [conn EXCEPT ![c] = h]
    BY <1>t, <1>1 DEF Handler, Stages
  <1> HIDE DEF h
  <1>4. \A d \in Conns : /\ conn'[d] \in Handler /\ conn'[d].server = conn[d].server /\ conn'[d].cut = conn[d].cut
                         /\ conn[d].stage # "idle" => conn'[d].stage # "idle"
                         /\ conn'[d].stage # "idle" => conn[d].stage # "idle"
                         /\ conn'[d].row = conn[d].row
    BY <1>t, <1>2, <1>3
  <1>5. conn' \in [Conns -> Handler] /\ conn'[c].stage # "idle"  BY <1>t, <1>3
  <1>6. \/ registry' = [registry EXCEPT ![S] = Append(registry[S], c)]
        \/ registry' = [registry EXCEPT ![S] = IF registry[S] = <<>> THEN registry[S] ELSE Tail(registry[S])]
    BY DEF Mcp!Register, Mcp!Unregister
  <1> DEFINE q == registry[S]
  <1>7. q \in Seq(Conns)  BY <1>t, <1>3
  <1>8. PICK r \in Seq(Conns) : /\ registry' = [registry EXCEPT ![S] = r]
                               /\ \A i \in DOMAIN r : r[i] = c \/ \E j \in DOMAIN q : r[i] = q[j]
    <2> HIDE DEF q
    <2>1. Append(q, c) \in Seq(Conns) /\ \A i \in DOMAIN Append(q, c) : Append(q, c)[i] = c \/ \E j \in DOMAIN q : Append(q, c)[i] = q[j]
      BY <1>7
    <2>2. q # <<>> => Tail(q) \in Seq(Conns) /\ \A i \in DOMAIN Tail(q) : Tail(q)[i] = q[i + 1] /\ i + 1 \in DOMAIN q
      BY <1>7
    <2>3. \/ registry' = [registry EXCEPT ![S] = Append(q, c)]
          \/ q # <<>> /\ registry' = [registry EXCEPT ![S] = Tail(q)]
          \/ registry' = [registry EXCEPT ![S] = q]
      BY <1>6 DEF q
    <2>4. CASE registry' = [registry EXCEPT ![S] = Append(q, c)]  BY <2>1, <2>4
    <2>5. CASE q # <<>> /\ registry' = [registry EXCEPT ![S] = Tail(q)]  BY <2>2, <2>5
    <2>6. CASE registry' = [registry EXCEPT ![S] = q]  BY <1>7, <2>6
    <2>7. QED  BY <2>3, <2>4, <2>5, <2>6
  <1>9. registry' \in [Servers -> Seq(Conns)]  BY <1>t, <1>3, <1>8
  <1>10. McpTypes'  BY <1>2, <1>5, <1>9 DEF McpInv, McpTypes
  <1>11. ASSUME NEW s \in Servers, NEW i \in DOMAIN registry'[s]
         PROVE  conn'[registry'[s][i]].server = s /\ conn'[registry'[s][i]].stage # "idle"
    <2>1. \A t \in Servers : \A j \in DOMAIN registry[t] : registry[t][j] \in Conns
      BY FiledAreConns
    <2>2. CASE s = S
      <3>1. registry'[s] = r  BY <1>t, <1>3, <1>8, <2>2
      <3>2. registry'[s][i] = c \/ \E j \in DOMAIN registry[S] : registry'[s][i] = registry[S][j]
        BY <1>8, <1>11, <3>1
      <3>3. CASE registry'[s][i] = c  BY <1>4, <1>5, <2>2, <3>3
      <3>4. ASSUME NEW j \in DOMAIN registry[S], registry'[s][i] = registry[S][j]
            PROVE  conn'[registry'[s][i]].server = s /\ conn'[registry'[s][i]].stage # "idle"
        <4>1. conn[registry[S][j]].server = S /\ conn[registry[S][j]].stage # "idle" /\ registry[S][j] \in Conns
          BY <1>t, <1>3, <2>1, <3>4 DEF FiledByServer
        <4>2. QED  BY <1>4, <2>2, <3>4, <4>1
      <3>5. QED  BY <3>2, <3>3, <3>4
    <2>3. CASE s # S
      <3>1. registry'[s] = registry[s]  BY <1>t, <1>3, <1>8, <2>3
      <3>2. conn[registry[s][i]].server = s /\ conn[registry[s][i]].stage # "idle" /\ registry[s][i] \in Conns
        BY <1>t, <1>11, <2>1, <3>1 DEF FiledByServer
      <3>3. QED  BY <1>4, <3>1, <3>2
    <2>4. QED  BY <2>2, <2>3
  <1>12. FiledByServer'  BY <1>11 DEF FiledByServer
  <1>13. DOMAIN conn = Conns  BY <1>t
  <1>14. StoredTogether'
    <2>1. \A d \in Conns : conn'[d].stage # "idle" => conn'[d].row \in Record /\ Pair(conn'[d].row) \in paired'
      BY <1>2, <1>4 DEF McpInv, StoredTogether
    <2>2. \A t \in Servers : row'[t] # Mcp!Absent => Pair(row'[t]) \in paired'  BY <1>2 DEF McpInv, StoredTogether
    <2>3. QED  BY <2>1, <2>2 DEF StoredTogether, Mcp!Absent, Pair, Record, Mcp!Records
  <1>15. Mcp!TokenStaysHere'  BY <1>2 DEF McpInv, Mcp!TokenStaysHere
  <1>16. QED  BY <1>4, <1>10, <1>12, <1>13, <1>14, <1>15 DEF McpInv

\* The table as it is read at the start; no connection.
LEMMA McpInit ==
  ASSUME Mcp!McpAssumption, Mcp!Init
  PROVE  McpInv
  <1>1. Mcp!Idle.server \in Servers  BY DEF Mcp!Idle, Mcp!McpAssumption
  <1>2. Mcp!Idle \in Edit  BY DEF Mcp!Idle, Edit, Mcp!McpAssumption
  <1>3. row \in [Servers -> {Mcp!Absent} \cup Record]
    <2>1. [on : {TRUE}, auth : {"bearer"}, token : Secrets, url : Urls] \subseteq Record  BY DEF Record, Mcp!Records
    <2>2. row \in [Servers -> {Mcp!Absent} \cup [on : {TRUE}, auth : {"bearer"}, token : Secrets, url : Urls]]
      BY DEF Mcp!Init
    <2>3. QED  BY <2>1, <2>2
  <1> DEFINE none == [stage |-> "idle", server |-> Mcp!Idle.server, row |-> Mcp!Absent, cut |-> FALSE,
                      cur |-> Mcp!NoEvent]
  <1>4. <<>> \in Seq(Lines) /\ <<>> \in Seq(Conns) /\ "" \in Lines  BY DEF Lines
  <1>5. Mcp!NoEvent \in Event  BY <1>4, Zenon DEF Mcp!NoEvent, Event
  <1>6. none \in Handler /\ none.stage = "idle"  BY <1>1, <1>5 DEF Handler, Stages
  <1>7. conn = [c \in Conns |-> none] /\ registry = [s \in Servers |-> <<>>] /\ edit = Mcp!Idle /\ edits = 0
    BY DEF Mcp!Init
  <1>a. header = [to |-> "", auth |-> "none"] /\ paired = Mcp!Pairs(row)  BY DEF Mcp!Init
  <1> HIDE DEF none
  <1>8. conn \in [Conns -> Handler] /\ registry \in [Servers -> Seq(Conns)]  BY <1>4, <1>6, <1>7
  <1>9. FiledByServer  BY <1>7 DEF FiledByServer
  <1>10. MaxEdits \in Nat  BY DEF Mcp!McpAssumption
  <1>11. edits \in 0..MaxEdits  BY <1>7, <1>10
  <1>12. \A s \in Servers : row[s] # Mcp!Absent => Pair(row[s]) \in paired
    BY <1>a DEF Mcp!Pairs, Pair
  <1>13. \A c \in Conns : conn[c].stage = "idle"  BY <1>6, <1>7
  <1>14. StoredTogether  BY <1>12, <1>13 DEF StoredTogether
  <1>15. header.auth = "none"  BY <1>a
  <1>16. Mcp!TokenStaysHere  BY <1>15 DEF Mcp!TokenStaysHere
  <1>17. QED  BY <1>2, <1>3, <1>7, <1>8, <1>9, <1>11, <1>14, <1>16 DEF McpInv, McpTypes

\* The gateway: a request to an upstream carries no credentials or a token that was
\* stored with the very address it goes to, so neither another server's nor the
\* client's own, although rows are edited and deleted while connections hold what
\* they read; and a deletion or a shutdown cuts no connection of another server,
\* although Unregister may take another connection's entry out.  For any servers,
\* addresses, tokens, connections and number of operations.
THEOREM GatewayHolds ==
  ASSUME Mcp!McpAssumption
  PROVE  Mcp!Spec => Mcp!RegistrySound
  <1>1. Mcp!Init => McpInv  BY McpInit
  <1>2. McpInv /\ UNCHANGED Mcp!vars => McpInv'
    <2> SUFFICES ASSUME McpInv, UNCHANGED Mcp!vars PROVE McpInv'  OBVIOUS
    <2>1. UNCHANGED <<row, edit, edits, conn, registry, header, paired>>  BY DEF Mcp!vars
    <2>2. McpTypes'  BY <2>1 DEF McpInv, McpTypes
    <2>3. FiledByServer' /\ StoredTogether'  BY <2>1 DEF McpInv, FiledByServer, StoredTogether
    <2>4. Mcp!TokenStaysHere'  BY <2>1 DEF McpInv, Mcp!TokenStaysHere
    <2>5. QED  BY <2>2, <2>3, <2>4 DEF McpInv
  <1>3. McpInv /\ Mcp!Next => McpInv'
    BY McpTable, McpCut, McpConnection, McpRegistry DEF Mcp!Next
  <1>4. McpInv /\ Mcp!Next => \A c \in DOMAIN conn : conn'[c].cut /\ ~conn[c].cut =>
          \/ edit'.op = "delete" /\ edit'.server = conn[c].server
          \/ edit' = edit /\ \A s \in DOMAIN registry : registry'[s] = <<>>
          \/ edit' = edit /\ registry' = registry
    <2> SUFFICES ASSUME McpInv, Mcp!Next
                 PROVE  \A c \in DOMAIN conn : conn'[c].cut /\ ~conn[c].cut =>
                          \/ edit'.op = "delete" /\ edit'.server = conn[c].server
                          \/ edit' = edit /\ \A s \in DOMAIN registry : registry'[s] = <<>>
                          \/ edit' = edit /\ registry' = registry
      OBVIOUS
    <2>1. \/ UNCHANGED <<conn, registry>>
          \/ (\E s \in Servers : Mcp!BeginDelete(s)) \/ Mcp!Shutdown
          \/ UNCHANGED <<edit, registry>>
          \/ \A d \in DOMAIN conn : conn'[d].cut = conn[d].cut
      BY McpTable, McpConnection, McpRegistry DEF Mcp!Next
    <2>2. QED  BY <2>1, McpCut
  <1>5. McpInv => Mcp!TypeOK /\ Mcp!TokenStaysHere
    <2> SUFFICES ASSUME McpInv PROVE Mcp!TypeOK /\ Mcp!TokenStaysHere  OBVIOUS
    <2>1. Mcp!TokenStaysHere  BY DEF McpInv
    <2>2. \A s \in Servers : row[s] \in {Mcp!Absent} \cup Record  BY DEF McpInv, McpTypes
    <2>3. \A c \in Conns : conn[c].stage \in Stages  BY DEF McpInv, McpTypes, Handler
    <2>4. \A s \in Servers : Mcp!ToSet(registry[s]) \subseteq Conns  BY FiledAreConns DEF Mcp!ToSet
    <2>5. QED
      BY <2>1, <2>2, <2>3, <2>4 DEF Mcp!TypeOK, McpInv, McpTypes, Record, Stages
  <1>6. QED
    BY <1>1, <1>2, <1>3, <1>4, <1>5, PTL DEF Mcp!Spec, Mcp!RegistrySound, Mcp!CutsOwn

-----------------------------------------------------------------------------
(* The ultimate model.                                                     *)

CONSTANTS Procs, Hashes, Size, Milestones, MaxAttempts, Creds, Answers, Responses, Removable, ToolCalls,
          MaxEvents, MaxBeats, Budget
VARIABLES cache, call, spent, tries, removed

Ult == INSTANCE UltimateModel

Beat == [kind |-> "beat"]
Fields == {"pc", "hash", "stream", "buffered", "cred", "tries", "ids", "ended", "cut", "held", "buf", "kept", "wire"}

\* Before the first credential is asked nothing is on the wire, and while one is
\* only comments are.
Running(c) ==
    /\ DOMAIN c = Fields /\ c.hash \in Hashes
    /\ c.pc \in {"execute", "call", "stream", "served", "failed"}
    /\ c.pc = "execute" => c.wire = <<>>
    /\ c.pc = "call" => c.wire \in Seq({Beat})

CallInv == DOMAIN call = Procs /\ call = [p \in Procs |-> call[p]] /\ \A p \in Procs : call[p] = Ult!Idle \/ Running(call[p])

\* A step that gives one call a state that is held back keeps the others.
LEMMA CallStep ==
  ASSUME CallInv, NEW p \in Procs, NEW c, c = Ult!Idle \/ Running(c), call' = [call EXCEPT ![p] = c]
  PROVE  CallInv'
  BY DEF CallInv

\* A call that is not idle.
LEMMA Busy ==
  ASSUME CallInv, NEW p \in Procs, call[p].pc # "idle"
  PROVE  Running(call[p])
  BY DEF CallInv, Ult!Idle

\* A credential is asked while nothing but comments has been written.
LEMMA CallAsks ==
  ASSUME NEW c, Running(c), c.pc \in {"execute", "call"}, NEW k, NEW n
  PROVE  Running([c EXCEPT !.pc = "call", !.cred = k, !.tries = n])
  <1> DEFINE d == [c EXCEPT !.pc = "call", !.cred = k, !.tries = n]
  <1>1. DOMAIN d = Fields /\ d.pc = "call" /\ d.hash = c.hash /\ d.wire = c.wire  BY DEF Running, Fields
  <1>2. <<>> \in Seq({Beat})  OBVIOUS
  <1>3. c.wire \in Seq({Beat})  BY <1>2 DEF Running
  <1> HIDE DEF d
  <1>4. Running(d)  BY <1>1, <1>3 DEF Running
  <1>5. QED  BY <1>4 DEF d

\* What an answer or a failure makes of a call is free of the promise.
LEMMA CallGoesOn ==
  ASSUME NEW c, Running(c), NEW d, DOMAIN d = DOMAIN c, d.hash = c.hash, d.pc \in {"stream", "served", "failed"}
  PROVE  Running(d)
  BY DEF Running

\* A request is counted: it runs with nothing on its wire, or not at all.
LEMMA TriggerHeld ==
  ASSUME CallInv, NEW p \in Procs, Ult!Trigger(p)
  PROVE  CallInv'
  <1>1. PICK h \in Hashes, r \in Responses :
          \/ call' = [call EXCEPT ![p] = Ult!Idle]
          \/ call' = [call EXCEPT ![p] =
                [pc |-> "execute", hash |-> h, stream |-> r.stream, buffered |-> r.buffered, cred |-> Ult!Free,
                 tries |-> 0, ids |-> <<>>, ended |-> {}, cut |-> FALSE,
                 held |-> [i \in 1..Ult!Cardinality(ToolCalls) |-> Ult!NoBuilder],
                 buf |-> <<>>, kept |-> <<>>, wire |-> <<>>]]
    BY DEF Ult!Trigger
  <1> DEFINE c == [pc |-> "execute", hash |-> h, stream |-> r.stream, buffered |-> r.buffered, cred |-> Ult!Free,
                   tries |-> 0, ids |-> <<>>, ended |-> {}, cut |-> FALSE,
                   held |-> [i \in 1..Ult!Cardinality(ToolCalls) |-> Ult!NoBuilder],
                   buf |-> <<>>, kept |-> <<>>, wire |-> <<>>]
  <1>2. DOMAIN c = Fields /\ c.pc = "execute" /\ c.hash = h /\ c.wire = <<>>  BY DEF Fields
  <1>3. call' = [call EXCEPT ![p] = Ult!Idle] \/ call' = [call EXCEPT ![p] = c]  BY <1>1
  <1> HIDE DEF c
  <1>4. Running(c)  BY <1>2 DEF Running
  <1>5. QED  BY <1>3, <1>4, CallStep

\* Execute, up to the answer.
LEMMA AskingHeld ==
  ASSUME CallInv, NEW p \in Procs,
         Ult!ModelMissing(p) \/ Ult!Resolve(p) \/ Ult!Refused(p) \/ Ult!StreamCut(p) \/ Ult!Cancelled(p) \/ Ult!End(p)
  PROVE  CallInv'
  <1>1. CASE Ult!End(p)
    <2>1. call' = [call EXCEPT ![p] = Ult!Idle]  BY <1>1 DEF Ult!End
    <2>2. QED  BY <2>1, CallStep
  <1>2. CASE ~Ult!End(p)
    <2>1. call[p].pc \in {"execute", "call", "stream"}
      BY <1>2 DEF Ult!ModelMissing, Ult!Resolve, Ult!Refused, Ult!StreamCut, Ult!Cancelled
    <2>2. Running(call[p])  BY <2>1, Busy
    <2>3. \/ call' = [call EXCEPT ![p] = [call[p] EXCEPT !.pc = "failed"]]
          \/ /\ call[p].pc \in {"execute", "call"}
             /\ \E k \in Creds, n \in {1, 2} :
                   call' = [call EXCEPT ![p] = [call[p] EXCEPT !.pc = "call", !.cred = k, !.tries = n]]
      BY <1>2 DEF Ult!ModelMissing, Ult!Resolve, Ult!Refused, Ult!StreamCut, Ult!Cancelled, Ult!Failover, Ult!Fail,
         Ult!Ask
    <2>4. CASE call' = [call EXCEPT ![p] = [call[p] EXCEPT !.pc = "failed"]]
      <3> DEFINE d == [call[p] EXCEPT !.pc = "failed"]
      <3>1. DOMAIN d = DOMAIN call[p] /\ d.hash = call[p].hash /\ d.pc = "failed"  BY <2>2 DEF Running, Fields
      <3>2. call' = [call EXCEPT ![p] = d]  BY <2>4
      <3> HIDE DEF d
      <3>3. Running(d)  BY <2>2, <3>1, CallGoesOn
      <3>4. QED  BY <3>2, <3>3, CallStep
    <2>5. ASSUME call[p].pc \in {"execute", "call"}, NEW k \in Creds, NEW n \in {1, 2},
                 call' = [call EXCEPT ![p] = [call[p] EXCEPT !.pc = "call", !.cred = k, !.tries = n]]
          PROVE  CallInv'
      <3>1. Running([call[p] EXCEPT !.pc = "call", !.cred = k, !.tries = n])  BY <2>2, <2>5, CallAsks
      <3>2. QED  BY <2>5, <3>1, CallStep
    <2>6. QED  BY <2>3, <2>4, <2>5
  <1>3. QED  BY <1>1, <1>2

\* A part of the answer is captured, and frames are sent.
LEMMA RelayHeld ==
  ASSUME CallInv, NEW p \in Procs, call[p].pc = "stream",
         \/ \E event, frames : Ult!Relay(p, event, frames)
         \/ \E piece, ids, held, cut, frames : Ult!Take(p, piece, ids, held, cut, frames)
  PROVE  CallInv'
  <1>1. Running(call[p])  BY Busy
  <1>2. ASSUME NEW event, NEW frames, Ult!Relay(p, event, frames)  PROVE CallInv'
    <2> DEFINE d == [call[p] EXCEPT !.kept = Append(call[p].kept, event), !.buf = call[p].buf \o frames,
                                    !.wire = Ult!Emitted(call[p], frames)]
    <2>1. call' = [call EXCEPT ![p] = d]  BY <1>2 DEF Ult!Relay
    <2>2. DOMAIN d = DOMAIN call[p] /\ d.hash = call[p].hash /\ d.pc = "stream"  BY <1>1 DEF Running, Fields
    <2> HIDE DEF d
    <2>3. QED  BY <1>1, <2>1, <2>2, CallGoesOn, CallStep
  <1>3. ASSUME NEW piece, NEW ids, NEW held, NEW cut, NEW frames, Ult!Take(p, piece, ids, held, cut, frames)
        PROVE  CallInv'
    <2> DEFINE d == [call[p] EXCEPT !.kept = Append(call[p].kept, piece), !.ids = ids, !.held = held,
                                    !.cut = call[p].cut \/ cut,
                                    !.ended = IF piece.last THEN call[p].ended \cup {piece.of} ELSE call[p].ended,
                                    !.buf = call[p].buf \o frames, !.wire = Ult!Emitted(call[p], frames)]
    <2>1. call' = [call EXCEPT ![p] = d]  BY <1>3 DEF Ult!Take
    <2>2. DOMAIN d = DOMAIN call[p] /\ d.hash = call[p].hash /\ d.pc = "stream"  BY <1>1 DEF Running, Fields
    <2> HIDE DEF d
    <2>3. QED  BY <1>1, <2>1, <2>2, CallGoesOn, CallStep
  <1>4. QED  BY <1>2, <1>3

\* The answer, and the comments before and within it.
LEMMA AnsweringHeld ==
  ASSUME CallInv, NEW p \in Procs,
         \/ Ult!NonStream(p) \/ Ult!OpenStream(p) \/ Ult!StreamEvent(p) \/ Ult!StreamDone(p) \/ Ult!StreamError(p)
         \/ Ult!Heartbeat(p)
  PROVE  CallInv'
  <1>1. call[p].pc \in {"call", "stream"}
    BY DEF Ult!NonStream, Ult!OpenStream, Ult!StreamEvent, Ult!StreamDone, Ult!StreamError, Ult!Heartbeat
  <1>2. Running(call[p])  BY <1>1, Busy
  <1>3. CASE Ult!Heartbeat(p)
    <2> DEFINE c == [call[p] EXCEPT !.wire = Append(call[p].wire, Beat)]
    <2>1. call' = [call EXCEPT ![p] = c]  BY <1>3 DEF Ult!Heartbeat, Beat
    <2>2. DOMAIN c = Fields /\ c.pc = call[p].pc /\ c.hash = call[p].hash /\ c.wire = Append(call[p].wire, Beat)
      BY <1>2 DEF Running, Fields
    <2>3. \A w \in Seq({Beat}) : Append(w, Beat) \in Seq({Beat})  OBVIOUS
    <2> HIDE DEF c
    <2>4. Running(c)  BY <1>1, <1>2, <2>2, <2>3 DEF Running
    <2>5. QED  BY <2>1, <2>4, CallStep
  <1>4. CASE Ult!OpenStream(p)
    <2> DEFINE c == [call[p] EXCEPT !.pc = "stream"]
    <2>1. call' = [call EXCEPT ![p] = c]  BY <1>4 DEF Ult!OpenStream
    <2>2. DOMAIN c = DOMAIN call[p] /\ c.hash = call[p].hash /\ c.pc = "stream"  BY <1>2 DEF Running, Fields
    <2> HIDE DEF c
    <2>3. QED  BY <1>2, <2>1, <2>2, CallGoesOn, CallStep
  <1>5. CASE Ult!NonStream(p)
    <2> DEFINE c == [call[p] EXCEPT !.pc = "served", !.kept = <<Ult!Event(p, "content")>>,
                                    !.wire = Append(call[p].wire, Ult!Event(p, "content"))]
    <2>1. call' = [call EXCEPT ![p] = c]  BY <1>5 DEF Ult!NonStream
    <2>2. DOMAIN c = DOMAIN call[p] /\ c.hash = call[p].hash /\ c.pc = "served"  BY <1>2 DEF Running, Fields
    <2> HIDE DEF c
    <2>3. QED  BY <1>2, <2>1, <2>2, CallGoesOn, CallStep
  <1>6. CASE Ult!StreamEvent(p)
    <2>1. call[p].pc = "stream"  BY <1>6 DEF Ult!StreamEvent
    <2>2. \/ \E event, frames : Ult!Relay(p, event, frames)
          \/ \E t, id, end : Ult!ToolFragment(p, t, id, end)
      BY <1>6, Zenon DEF Ult!StreamEvent
    <2>3. ASSUME NEW t, NEW id, NEW end, Ult!ToolFragment(p, t, id, end)
          PROVE  \E piece, ids, held, cut, frames : Ult!Take(p, piece, ids, held, cut, frames)
      BY <2>3, Zenon DEF Ult!ToolFragment
    <2>4. QED  BY <2>1, <2>2, <2>3, RelayHeld
  <1>7. CASE Ult!StreamDone(p)
    <2>1. PICK rest \in Ult!Rest(call[p]) :
             call' = [call EXCEPT ![p].pc = "served", ![p].buf = call[p].buf \o rest,
                                  ![p].wire = Ult!Flushed(call[p], Append(rest, Ult!Event(p, "done")))]
      BY <1>7 DEF Ult!StreamDone
    <2> DEFINE c == [call[p] EXCEPT !.pc = "served", !.buf = call[p].buf \o rest,
                                    !.wire = Ult!Flushed(call[p], Append(rest, Ult!Event(p, "done")))]
    <2>2. call' = [call EXCEPT ![p] = c]  BY <2>1
    <2>3. DOMAIN c = DOMAIN call[p] /\ c.hash = call[p].hash /\ c.pc = "served"  BY <1>2 DEF Running, Fields
    <2> HIDE DEF c
    <2>4. QED  BY <1>2, <2>2, <2>3, CallGoesOn, CallStep
  <1>8. CASE Ult!StreamError(p)
    <2> DEFINE c == [call[p] EXCEPT !.pc = "failed", !.wire = Ult!Flushed(call[p], <<Ult!Event(p, "error")>>)]
    <2>1. call' = [call EXCEPT ![p] = c]  BY <1>8 DEF Ult!StreamError
    <2>2. DOMAIN c = DOMAIN call[p] /\ c.hash = call[p].hash /\ c.pc = "failed"  BY <1>2 DEF Running, Fields
    <2> HIDE DEF c
    <2>3. QED  BY <1>2, <2>1, <2>2, CallGoesOn, CallStep
  <1>9. QED  BY <1>3, <1>4, <1>5, <1>6, <1>7, <1>8

\* Positions wrap around in the circular cache.
LEMMA Wraps ==
  ASSUME Size \in Nat \ {0}, NEW n \in Nat
  PROVE  n % Size \in 0..Size - 1 /\ (n < Size => n % Size = n)
  OBVIOUS

\* The shape of a hash cache.
CacheShape(c) ==
    /\ c = [slots |-> c.slots, head |-> c.head, count |-> c.count, seen |-> c.seen]
    /\ c.slots \in [0..Size - 1 -> Hashes \cup {Ult!Free}]
    /\ c.head \in 0..Size - 1 /\ c.count \in 0..Size
    /\ DOMAIN c.seen \subseteq Hashes

\* A cache from which nothing is taken out fills up in order; then head is the
\* oldest hash.  Hashes and counters belong together.
CacheTight(c) ==
    /\ c.count < Size => c.head = c.count
    /\ \A i \in 0..c.count - 1 : c.slots[i] \in Hashes
    /\ \A i, j \in 0..c.count - 1 : i # j => c.slots[i] # c.slots[j]
    /\ \A h \in Hashes : h \in DOMAIN c.seen <=> Ult!Contains(c, h)

\* insertLocked keeps the shape and, for a hash that is not there, the order.
LEMMA InsertKeeps ==
  ASSUME Ult!UltimateAssumption, NEW c, CacheShape(c), NEW h \in Hashes
  PROVE  /\ CacheShape(Ult!Insert(c, h))
         /\ CacheTight(c) /\ ~Ult!Contains(c, h) => CacheTight(Ult!Insert(c, h))
  <1> DEFINE d == Ult!Insert(c, h)
             evicted == c.count >= Size /\ c.slots[c.head] # Ult!Free
             kept == IF evicted THEN Ult!Without(c.seen, c.slots[c.head]) ELSE c.seen
  <1>0. Size \in Nat \ {0} /\ Ult!Free \notin Hashes  BY DEF Ult!UltimateAssumption
  <1>1. /\ d.slots = [c.slots EXCEPT ![c.head] = h] /\ d.head = (c.head + 1) % Size
        /\ d.count = (IF c.count < Size THEN c.count + 1 ELSE c.count) /\ d.seen = Ult!Counted(kept, h, 1)
        /\ d = [slots |-> d.slots, head |-> d.head, count |-> d.count, seen |-> d.seen]
    BY DEF Ult!Insert
  <1>2. /\ c.slots \in [0..Size - 1 -> Hashes \cup {Ult!Free}]
        /\ c.head \in 0..Size - 1 /\ c.count \in 0..Size /\ DOMAIN c.seen \subseteq Hashes
    BY DEF CacheShape
  <1>3. DOMAIN kept = IF evicted THEN DOMAIN c.seen \ {c.slots[c.head]} ELSE DOMAIN c.seen
    BY DEF Ult!Without
  <1>4. DOMAIN d.seen = DOMAIN kept \cup {h}  BY <1>1 DEF Ult!Counted
  <1> HIDE DEF d, kept
  <1>5. CacheShape(d)
    <2>1. DOMAIN d.seen \subseteq Hashes  BY <1>2, <1>3, <1>4
    <2>2. c.head + 1 \in Nat  BY <1>0, <1>2
    <2>3. d.head \in 0..Size - 1  BY <1>0, <1>1, <2>2, Wraps
    <2>4. d.count \in 0..Size  BY <1>0, <1>1, <1>2
    <2>5. d.slots \in [0..Size - 1 -> Hashes \cup {Ult!Free}]  BY <1>1, <1>2
    <2>6. QED  BY <1>1, <2>1, <2>3, <2>4, <2>5 DEF CacheShape
  <1>6. ASSUME CacheTight(c), ~Ult!Contains(c, h)  PROVE CacheTight(d)
    <2>1. /\ c.count < Size => c.head = c.count
          /\ \A i \in 0..c.count - 1 : c.slots[i] \in Hashes
          /\ \A i, j \in 0..c.count - 1 : i # j => c.slots[i] # c.slots[j]
          /\ \A g \in Hashes : g \in DOMAIN c.seen <=> \E i \in 0..c.count - 1 : c.slots[i] = g
      BY <1>6 DEF CacheTight, Ult!Contains
    <2>2. \A i \in 0..c.count - 1 : c.slots[i] # h  BY <1>6 DEF Ult!Contains
    <2>3. \A i \in 0..Size - 1 : d.slots[i] = IF i = c.head THEN h ELSE c.slots[i]  BY <1>1, <1>2
    <2>4. d.count \in 0..Size /\ c.head \in 0..d.count - 1
      BY <1>0, <1>1, <1>2, <2>1
    <2>5. \A i \in 0..d.count - 1 : i \in 0..Size - 1 /\ (i = c.head \/ i \in 0..c.count - 1)
      BY <1>0, <1>1, <1>2, <2>1
    <2>6. \A i \in 0..c.count - 1 : i \in 0..d.count - 1 /\ i \in 0..Size - 1
      BY <1>0, <1>1, <1>2
    <2>7. d.count < Size => d.head = d.count
      <3> SUFFICES ASSUME d.count < Size PROVE d.head = d.count  OBVIOUS
      <3>1. c.count < Size /\ d.count = c.count + 1 /\ c.head = c.count  BY <1>0, <1>1, <1>2, <2>1
      <3>2. c.head + 1 \in Nat /\ c.head + 1 < Size  BY <1>2, <3>1
      <3>3. QED  BY <1>0, <1>1, <3>1, <3>2, Wraps
    <2>8. \A i \in 0..d.count - 1 : d.slots[i] \in Hashes  BY <2>1, <2>3, <2>5
    <2>9. \A i, j \in 0..d.count - 1 : i # j => d.slots[i] # d.slots[j]  BY <2>1, <2>2, <2>3, <2>5
    <2>10. ASSUME NEW g \in Hashes  PROVE g \in DOMAIN d.seen <=> \E i \in 0..d.count - 1 : d.slots[i] = g
      <3>1. CASE g = h  BY <1>4, <2>3, <2>4, <2>5, <3>1
      <3>2. CASE g # h /\ c.count < Size
        <4>0. ~evicted  BY <1>0, <1>2, <3>2
        <4>1. g \in DOMAIN d.seen <=> g \in DOMAIN c.seen  BY <1>3, <1>4, <3>2, <4>0
        <4>2. c.head \notin 0..c.count - 1  BY <1>2, <2>1, <3>2
        <4>3. \A i \in 0..c.count - 1 : d.slots[i] = c.slots[i]  BY <2>3, <2>6, <4>2
        <4>4. (\E i \in 0..d.count - 1 : d.slots[i] = g) <=> \E i \in 0..c.count - 1 : c.slots[i] = g
          BY <2>3, <2>5, <2>6, <3>2, <4>3
        <4>5. QED  BY <2>1, <4>1, <4>4
      <3>3. CASE g # h /\ c.count >= Size
        <4>1. c.count = Size /\ d.count = Size  BY <1>0, <1>1, <1>2, <3>3
        <4>2. c.slots[c.head] \in Hashes  BY <1>2, <2>1, <4>1
        <4>3. evicted  BY <1>0, <3>3, <4>2
        <4>4. g \in DOMAIN d.seen <=> g \in DOMAIN c.seen /\ g # c.slots[c.head]  BY <1>3, <1>4, <3>3, <4>3
        <4>5. (\E i \in 0..d.count - 1 : d.slots[i] = g)
              <=> (\E i \in 0..c.count - 1 : c.slots[i] = g) /\ g # c.slots[c.head]
          <5>1. 0..c.count - 1 = 0..Size - 1 /\ 0..d.count - 1 = 0..Size - 1  BY <4>1
          <5>2. ASSUME NEW i \in 0..Size - 1, d.slots[i] = g
                PROVE  c.slots[i] = g /\ g # c.slots[c.head]
            BY <1>2, <2>1, <2>3, <3>3, <5>1, <5>2
          <5>3. ASSUME NEW i \in 0..Size - 1, c.slots[i] = g, g # c.slots[c.head]
                PROVE  d.slots[i] = g
            BY <2>3, <5>3
          <5>4. QED  BY <5>1, <5>2, <5>3
        <4>6. QED  BY <2>1, <4>4, <4>5
      <3>4. QED  BY <1>0, <1>2, <3>1, <3>2, <3>3
    <2>11. QED  BY <2>7, <2>8, <2>9, <2>10 DEF CacheTight, Ult!Contains
  <1>7. QED  BY <1>5, <1>6 DEF d

\* RecordAttempt and StoreIfAbsent: a hash that is there is counted, or left alone.
LEMMA RecordKeeps ==
  ASSUME Ult!UltimateAssumption, NEW c, CacheShape(c), NEW h \in Hashes
  PROVE  /\ CacheShape(Ult!RecordAttempt(c, h)) /\ CacheShape(Ult!StoreIfAbsent(c, h))
         /\ CacheTight(c) => CacheTight(Ult!RecordAttempt(c, h)) /\ CacheTight(Ult!StoreIfAbsent(c, h))
  <1>1. CASE ~Ult!Contains(c, h)
    <2>1. Ult!RecordAttempt(c, h) = Ult!Insert(c, h) /\ Ult!StoreIfAbsent(c, h) = Ult!Insert(c, h)
      BY <1>1 DEF Ult!RecordAttempt, Ult!StoreIfAbsent
    <2>2. QED  BY <1>1, <2>1, InsertKeeps
  <1>2. CASE Ult!Contains(c, h)
    <2>1. Ult!StoreIfAbsent(c, h) = c  BY <1>2 DEF Ult!StoreIfAbsent
    <2>2. PICK n : Ult!RecordAttempt(c, h) = [c EXCEPT !.seen = Ult!Counted(c.seen, h, n)]
      BY <1>2 DEF Ult!RecordAttempt
    <2> DEFINE d == [c EXCEPT !.seen = Ult!Counted(c.seen, h, n)]
    <2>3. c = [slots |-> c.slots, head |-> c.head, count |-> c.count, seen |-> c.seen]  BY DEF CacheShape
    <2>4. d = [slots |-> c.slots, head |-> c.head, count |-> c.count, seen |-> Ult!Counted(c.seen, h, n)]
      BY <2>3
    <2>5. d.slots = c.slots /\ d.head = c.head /\ d.count = c.count /\ d.seen = Ult!Counted(c.seen, h, n)
      BY <2>4
    <2>6. DOMAIN d.seen = DOMAIN c.seen \cup {h}  BY <2>5 DEF Ult!Counted
    <2>7. d = [slots |-> d.slots, head |-> d.head, count |-> d.count, seen |-> d.seen]  BY <2>4
    <2> HIDE DEF d
    <2>8. CacheShape(d)  BY <2>5, <2>6, <2>7 DEF CacheShape
    <2>9. CacheTight(c) => CacheTight(d)  BY <1>2, <2>5, <2>6 DEF CacheTight, Ult!Contains
    <2>10. Ult!RecordAttempt(c, h) = d  BY <2>2 DEF d
    <2>11. QED  BY <2>1, <2>8, <2>9, <2>10
  <1>3. QED  BY <1>1, <1>2

\* Remove keeps the shape, wherever the hash was.
LEMMA RemoveKeeps ==
  ASSUME Ult!UltimateAssumption, NEW c, CacheShape(c), NEW h \in Hashes
  PROVE  CacheShape(Ult!Remove(c, h))
  <1>0. Size \in Nat \ {0}  BY DEF Ult!UltimateAssumption
  <1>1. /\ c = [slots |-> c.slots, head |-> c.head, count |-> c.count, seen |-> c.seen]
        /\ c.slots \in [0..Size - 1 -> Hashes \cup {Ult!Free}]
        /\ c.head \in 0..Size - 1 /\ c.count \in 0..Size /\ DOMAIN c.seen \subseteq Hashes
    BY DEF CacheShape
  <1>2. DOMAIN Ult!Without(c.seen, h) \subseteq Hashes  BY <1>1 DEF Ult!Without
  <1>3. CASE ~Ult!Contains(c, h)
    <2> DEFINE d == [c EXCEPT !.seen = Ult!Without(c.seen, h)]
    <2>1. Ult!Remove(c, h) = d  BY <1>3 DEF Ult!Remove
    <2>2. d = [slots |-> c.slots, head |-> c.head, count |-> c.count, seen |-> Ult!Without(c.seen, h)]
      BY <1>1
    <2> HIDE DEF d
    <2>3. QED  BY <1>1, <1>2, <2>1, <2>2 DEF CacheShape
  <1>4. CASE Ult!Contains(c, h)
    <2> DEFINE i == CHOOSE j \in 0..c.count - 1 : c.slots[j] = h /\ \A k \in 0..j - 1 : c.slots[k] # h
               sl == [j \in 0..Size - 1 |-> IF j = c.count - 1 THEN Ult!Free
                                            ELSE IF j \in i..c.count - 1 THEN c.slots[j + 1] ELSE c.slots[j]]
               hd == IF i = 0 THEN (c.head + Size - 1) % Size ELSE c.head
    <2>1. Ult!Remove(c, h) = [slots |-> sl, head |-> hd, count |-> c.count - 1, seen |-> Ult!Without(c.seen, h)]
      BY <1>4 DEF Ult!Remove
    <2>2. c.count \in 1..Size  BY <1>1, <1>4 DEF Ult!Contains
    <2>3. \A j \in 0..Size - 1 : j # c.count - 1 /\ j \in i..c.count - 1 => j + 1 \in 0..Size - 1
      BY <1>0, <1>1, <2>2
    <2> HIDE DEF i
    <2>4. sl \in [0..Size - 1 -> Hashes \cup {Ult!Free}]  BY <1>1, <2>3
    <2>5. c.head + Size - 1 \in Nat  BY <1>0, <1>1
    <2>6. hd \in 0..Size - 1  BY <1>0, <1>1, <2>5, Wraps
    <2> HIDE DEF sl, hd
    <2>7. c.count - 1 \in 0..Size  BY <1>0, <2>2
    <2>8. QED  BY <1>2, <2>1, <2>4, <2>6, <2>7 DEF CacheShape
  <1>5. QED  BY <1>3, <1>4

UltInv == CallInv /\ CacheShape(cache)

\* What each step does to the cache and to the history of attempts.
LEMMA CacheStep ==
  ASSUME NEW p \in Procs, Ult!Trigger(p) \/ Ult!Execute(p) \/ Ult!Heartbeat(p)
  PROVE  \/ UNCHANGED <<cache, tries, removed>>
         \/ \E h \in Hashes : /\ cache' = Ult!RecordAttempt(cache, h) \/ cache' = Ult!StoreIfAbsent(cache, h)
                              /\ tries' = [tries EXCEPT ![h] = tries[h] + 1] /\ removed' = removed
         \/ Ult!Forget(call[p].hash) /\ call[p].pc \in {"execute", "call", "stream"}
  BY DEF Ult!Trigger, Ult!Execute, Ult!Heartbeat, Ult!ModelMissing, Ult!Resolve, Ult!Refused, Ult!NonStream,
         Ult!OpenStream, Ult!StreamEvent, Ult!StreamDone, Ult!StreamError, Ult!StreamCut, Ult!Cancelled, Ult!End,
         Ult!counts

\* The empty cache: nothing is held, nothing counted.
LEMMA EmptyCache ==
  ASSUME Ult!UltimateAssumption
  PROVE  CacheShape(Ult!Empty) /\ CacheTight(Ult!Empty) /\ DOMAIN Ult!Empty.seen = {}
  <1> DEFINE c == Ult!Empty
  <1>0. Size \in Nat \ {0}  BY DEF Ult!UltimateAssumption
  <1>1. /\ c.slots = [i \in 0..Size - 1 |-> Ult!Free] /\ c.head = 0 /\ c.count = 0 /\ c.seen = <<>>
        /\ c = [slots |-> c.slots, head |-> c.head, count |-> c.count, seen |-> c.seen]
    BY DEF Ult!Empty
  <1> HIDE DEF c
  <1>2. DOMAIN c.seen = {}  BY <1>1
  <1>3. c.slots \in [0..Size - 1 -> Hashes \cup {Ult!Free}]  BY <1>1
  <1>4. c.head \in 0..Size - 1 /\ c.count \in 0..Size  BY <1>0, <1>1
  <1>5. 0..c.count - 1 = {}  BY <1>1
  <1>6. CacheShape(c)  BY <1>1, <1>2, <1>3, <1>4 DEF CacheShape
  <1>7. CacheTight(c)  BY <1>1, <1>2, <1>5 DEF CacheTight, Ult!Contains
  <1>8. QED  BY <1>2, <1>6, <1>7 DEF c

\* A call that forgets its conversation has one.
LEMMA CallHash ==
  ASSUME CallInv, NEW p \in Procs, call[p].pc \in {"execute", "call", "stream"}
  PROVE  call[p].hash \in Hashes
  BY Busy DEF Running

\* One step of the handlers that share the cache.
LEMMA UltStep ==
  ASSUME Ult!UltimateAssumption, UltInv, Ult!Next
  PROVE  UltInv'
  <1>3. CallInv /\ CacheShape(cache)  BY DEF UltInv
  <1>1. ASSUME NEW p \in Procs, Ult!Trigger(p) \/ Ult!Execute(p) \/ Ult!Heartbeat(p)
        PROVE  UltInv'
    <2>1. CallInv'  BY <1>1, <1>3, TriggerHeld, AskingHeld, AnsweringHeld DEF Ult!Execute
    <2>2. CacheShape(cache')
      <3>1. CASE cache' = cache  BY <1>3, <3>1
      <3>2. ASSUME NEW h \in Hashes, cache' = Ult!RecordAttempt(cache, h) \/ cache' = Ult!StoreIfAbsent(cache, h)
            PROVE  CacheShape(cache')
        BY <1>3, <3>2, RecordKeeps
      <3>3. CASE Ult!Forget(call[p].hash) /\ call[p].pc \in {"execute", "call", "stream"}
        <4>1. call[p].hash \in Hashes  BY <1>3, <3>3, CallHash
        <4>2. cache' = Ult!Remove(cache, call[p].hash)  BY <3>3 DEF Ult!Forget
        <4>3. QED  BY <1>3, <4>1, <4>2, RemoveKeeps
      <3>4. QED  BY <1>1, <3>1, <3>2, <3>3, CacheStep
    <2>3. QED  BY <2>1, <2>2 DEF UltInv
  <1>2. CASE Ult!Reset
    <2>1. call' = call /\ cache' = Ult!Empty  BY <1>2 DEF Ult!Reset
    <2>2. CallInv'  BY <1>3, <2>1 DEF CallInv
    <2>3. CacheShape(cache')  BY <2>1, EmptyCache
    <2>4. QED  BY <2>2, <2>3 DEF UltInv
  <1>4. QED  BY <1>1, <1>2 DEF Ult!Next

\* Nobody has asked yet.
LEMMA UltInit ==
  ASSUME Ult!UltimateAssumption, Ult!Init
  PROVE  UltInv
  <1>1. call = [p \in Procs |-> Ult!Idle] /\ cache = Ult!Empty  BY DEF Ult!Init
  <1>2. CallInv  BY <1>1 DEF CallInv
  <1>3. CacheShape(cache)  BY <1>1, EmptyCache
  <1>4. QED  BY <1>2, <1>3 DEF UltInv

\* A step that changes none of its variables keeps the invariant.
LEMMA UltStutter ==
  ASSUME UltInv, UNCHANGED Ult!vars
  PROVE  UltInv'
  <1>1. call' = call /\ cache' = cache  BY DEF Ult!vars
  <1>2. CallInv'  BY <1>1 DEF UltInv, CallInv
  <1>3. CacheShape(cache)'  BY <1>1 DEF UltInv
  <1>4. QED  BY <1>2, <1>3 DEF UltInv

\* executeInternalWithRateLimitFailover: a second credential is asked only while
\* nothing of the answer is on the wire, whatever heartbeats are; and the cache
\* keeps its shape through every insertion and removal.  For any requests,
\* conversations, size of the cache and number of credentials.
THEOREM UltimateHolds ==
  ASSUME Ult!UltimateAssumption
  PROVE  Ult!Spec => [](Ult!TypeOK /\ Ult!FailoverBeforeAnswer)
  <1>1. Ult!Init => UltInv  BY UltInit
  <1>2. UltInv /\ [Ult!Next]_(Ult!vars) => UltInv'  BY UltStep, UltStutter
  <1>3. UltInv => Ult!TypeOK /\ Ult!FailoverBeforeAnswer
    <2> SUFFICES ASSUME UltInv PROVE Ult!TypeOK /\ Ult!FailoverBeforeAnswer  OBVIOUS
    <2>1. \A p \in Procs : call[p].pc \in {"idle", "execute", "call", "stream", "served", "failed"}
      BY DEF UltInv, CallInv, Running, Ult!Idle
    <2>2. Ult!TypeOK  BY <2>1 DEF UltInv, CacheShape, Ult!TypeOK
    <2>3. ASSUME NEW p \in Procs, call[p].pc = "call", NEW i \in DOMAIN call[p].wire
          PROVE  call[p].wire[i].kind = "beat"
      <3>1. call[p].wire \in Seq({Beat})  BY <2>3, Busy DEF UltInv, Running
      <3>2. call[p].wire[i] = Beat  BY <2>3, <3>1
      <3>3. QED  BY <3>2 DEF Beat
    <2>4. QED  BY <2>2, <2>3 DEF Ult!FailoverBeforeAnswer
  <1>4. QED  BY <1>1, <1>2, <1>3, PTL DEF Ult!Spec

-----------------------------------------------------------------------------
(* The attempts of the conversations.                                      *)

\* The history counts attempts, and no counter of the cache is ahead of it.
Behind ==
    /\ tries \in [Hashes -> Nat]
    /\ \A h \in DOMAIN cache.seen : cache.seen[h] \in Nat /\ cache.seen[h] <= tries[h]

CountInv == UltInv /\ (~removed => CacheTight(cache)) /\ Behind

\* A counted conversation is one attempt up, here and in the history.
LEMMA CountBehind ==
  ASSUME Ult!UltimateAssumption, CacheShape(cache), Behind, NEW h \in Hashes,
         cache' = Ult!RecordAttempt(cache, h) \/ cache' = Ult!StoreIfAbsent(cache, h),
         tries' = [tries EXCEPT ![h] = tries[h] + 1]
  PROVE  Behind'
  <1>1. tries \in [Hashes -> Nat] /\ tries[h] \in Nat  BY DEF Behind
  <1>2. tries' \in [Hashes -> Nat]  BY <1>1
  <1>3. \A g \in Hashes : tries[g] \in Nat /\ tries'[g] \in Nat /\ tries[g] <= tries'[g]  BY <1>1
  <1>4. tries'[h] = tries[h] + 1  BY <1>1
  <1>5. DOMAIN cache.seen \subseteq Hashes  BY DEF CacheShape
  <1>6. \A g \in DOMAIN cache.seen : cache.seen[g] \in Nat /\ cache.seen[g] <= tries[g]  BY DEF Behind
  <1>7. CASE cache' = cache
    BY <1>2, <1>3, <1>5, <1>6, <1>7 DEF Behind
  <1>8. ASSUME NEW f, NEW n \in Nat, n <= tries[h] + 1, cache'.seen = Ult!Counted(f, h, n),
               DOMAIN f \subseteq DOMAIN cache.seen, \A g \in DOMAIN f : f[g] = cache.seen[g]
        PROVE  Behind'
    <2>1. DOMAIN cache'.seen = DOMAIN f \cup {h}  BY <1>8 DEF Ult!Counted
    <2>2. \A g \in DOMAIN cache'.seen : cache'.seen[g] = IF g = h THEN n ELSE f[g]  BY <1>8 DEF Ult!Counted
    <2>3. ASSUME NEW g \in DOMAIN cache'.seen
          PROVE  cache'.seen[g] \in Nat /\ cache'.seen[g] <= tries'[g]
      <3>1. CASE g = h  BY <1>4, <1>8, <2>2, <3>1
      <3>2. CASE g # h
        <4>1. g \in DOMAIN cache.seen /\ cache'.seen[g] = cache.seen[g]  BY <1>8, <2>1, <2>2, <3>2
        <4>2. cache.seen[g] \in Nat /\ cache.seen[g] <= tries[g] /\ g \in Hashes  BY <1>5, <1>6, <4>1
        <4>3. tries[g] \in Nat /\ tries'[g] \in Nat /\ tries[g] <= tries'[g]  BY <1>3, <4>2
        <4>4. QED  BY <4>1, <4>2, <4>3
      <3>3. QED  BY <3>1, <3>2
    <2>4. QED  BY <1>2, <2>3 DEF Behind
  <1>9. CASE cache' = Ult!Insert(cache, h)
    <2> DEFINE kept == IF cache.count >= Size /\ cache.slots[cache.head] # Ult!Free
                       THEN Ult!Without(cache.seen, cache.slots[cache.head]) ELSE cache.seen
    <2>1. cache'.seen = Ult!Counted(kept, h, 1)  BY <1>9 DEF Ult!Insert
    <2>2. DOMAIN kept \subseteq DOMAIN cache.seen /\ \A g \in DOMAIN kept : kept[g] = cache.seen[g]
      BY DEF Ult!Without
    <2> HIDE DEF kept
    <2>3. 1 \in Nat /\ 1 <= tries[h] + 1  BY <1>1
    <2>4. QED  BY <1>8, <2>1, <2>2, <2>3
  <1>10. CASE cache' # cache /\ cache' # Ult!Insert(cache, h)
    <2> DEFINE n == IF h \in DOMAIN cache.seen THEN cache.seen[h] ELSE 0
    <2>1. cache' = [cache EXCEPT !.seen = Ult!Counted(cache.seen, h, n + 1)]
      BY <1>10 DEF Ult!RecordAttempt, Ult!StoreIfAbsent
    <2>2. n \in Nat /\ n <= tries[h]  BY <1>1, <1>6
    <2> HIDE DEF n
    <2>3. n + 1 \in Nat /\ n + 1 <= tries[h] + 1  BY <1>1, <2>2
    <2>4. cache = [slots |-> cache.slots, head |-> cache.head, count |-> cache.count, seen |-> cache.seen]
      BY DEF CacheShape
    <2>5. cache'.seen = Ult!Counted(cache.seen, h, n + 1)  BY <2>1, <2>4
    <2>6. QED  BY <1>8, <2>3, <2>5
  <1>11. QED  BY <1>7, <1>9, <1>10

\* A conversation is forgotten here and in the history.
LEMMA ForgetBehind ==
  ASSUME Ult!UltimateAssumption, CacheShape(cache), Behind, NEW h \in Hashes, Ult!Forget(h)
  PROVE  Behind'
  <1>1. tries \in [Hashes -> Nat] /\ tries' = [tries EXCEPT ![h] = 0]  BY DEF Behind, Ult!Forget
  <1>2. tries' \in [Hashes -> Nat]  BY <1>1
  <1>3. cache'.seen = Ult!Without(cache.seen, h)
    <2>1. cache = [slots |-> cache.slots, head |-> cache.head, count |-> cache.count, seen |-> cache.seen]
      BY DEF CacheShape
    <2>2. cache' = Ult!Remove(cache, h)  BY DEF Ult!Forget
    <2>3. CASE ~Ult!Contains(cache, h)
      <3>1. cache' = [cache EXCEPT !.seen = Ult!Without(cache.seen, h)]  BY <2>2, <2>3 DEF Ult!Remove
      <3>2. QED  BY <2>1, <3>1
    <2>4. CASE Ult!Contains(cache, h)  BY <2>2, <2>4 DEF Ult!Remove
    <2>5. QED  BY <2>3, <2>4
  <1>4. DOMAIN cache'.seen = DOMAIN cache.seen \ {h} /\ \A g \in DOMAIN cache'.seen : cache'.seen[g] = cache.seen[g]
    BY <1>3 DEF Ult!Without
  <1>5. DOMAIN cache.seen \subseteq Hashes  BY DEF CacheShape
  <1>6. \A g \in DOMAIN cache'.seen : cache'.seen[g] \in Nat /\ cache'.seen[g] <= tries'[g]
    BY <1>1, <1>4, <1>5 DEF Behind
  <1>7. QED  BY <1>2, <1>6 DEF Behind

\* A conversation that is in no slot has no counter either, while nothing was taken
\* out: to forget it leaves the cache as it was.
LEMMA ForgetTight ==
  ASSUME CacheShape(cache), ~removed => CacheTight(cache), NEW h \in Hashes, Ult!Forget(h)
  PROVE  ~removed' => CacheTight(cache')
  <1> SUFFICES ASSUME ~removed' PROVE CacheTight(cache')  OBVIOUS
  <1>1. ~removed /\ ~Ult!Contains(cache, h)  BY DEF Ult!Forget
  <1>2. CacheTight(cache)  BY <1>1
  <1>3. h \notin DOMAIN cache.seen  BY <1>1, <1>2 DEF CacheTight
  <1>4. cache' = [cache EXCEPT !.seen = Ult!Without(cache.seen, h)]  BY <1>1 DEF Ult!Forget, Ult!Remove
  <1>5. cache = [slots |-> cache.slots, head |-> cache.head, count |-> cache.count, seen |-> cache.seen]
    BY DEF CacheShape
  <1>6. /\ cache'.slots = cache.slots /\ cache'.head = cache.head /\ cache'.count = cache.count
        /\ cache'.seen = Ult!Without(cache.seen, h)
    BY <1>4, <1>5
  <1>7. DOMAIN cache'.seen = DOMAIN cache.seen  BY <1>3, <1>6 DEF Ult!Without
  <1>8. QED  BY <1>2, <1>6, <1>7 DEF CacheTight, Ult!Contains

\* One step of the handlers keeps the counters in order.
LEMMA CountStep ==
  ASSUME Ult!UltimateAssumption, CountInv, Ult!Next
  PROVE  CountInv'
  <1>1. UltInv'  BY UltStep DEF CountInv
  <1>2. CallInv /\ CacheShape(cache) /\ Behind /\ (~removed => CacheTight(cache))  BY DEF CountInv, UltInv
  <1>3. CASE Ult!Reset
    <2>1. cache' = Ult!Empty /\ tries' = tries  BY <1>3 DEF Ult!Reset
    <2>2. CacheTight(cache') /\ DOMAIN cache'.seen = {}  BY <2>1, EmptyCache
    <2>3. Behind'  BY <1>2, <2>1, <2>2 DEF Behind
    <2>4. QED  BY <1>1, <2>2, <2>3 DEF CountInv
  <1>4. ASSUME NEW p \in Procs, Ult!Trigger(p) \/ Ult!Execute(p) \/ Ult!Heartbeat(p)
        PROVE  CountInv'
    <2>1. CASE UNCHANGED <<cache, tries, removed>>
      <3>1. Behind' /\ (~removed' => CacheTight(cache'))  BY <1>2, <2>1 DEF Behind
      <3>2. QED  BY <1>1, <3>1 DEF CountInv
    <2>2. ASSUME NEW h \in Hashes, cache' = Ult!RecordAttempt(cache, h) \/ cache' = Ult!StoreIfAbsent(cache, h),
                 tries' = [tries EXCEPT ![h] = tries[h] + 1], removed' = removed
          PROVE  CountInv'
      <3>1. Behind'  BY <1>2, <2>2, CountBehind
      <3>2. ~removed' => CacheTight(cache')  BY <1>2, <2>2, RecordKeeps
      <3>3. QED  BY <1>1, <3>1, <3>2 DEF CountInv
    <2>3. CASE Ult!Forget(call[p].hash) /\ call[p].pc \in {"execute", "call", "stream"}
      <3>1. call[p].hash \in Hashes  BY <1>2, <2>3, CallHash
      <3>2. Behind'  BY <1>2, <2>3, <3>1, ForgetBehind
      <3>3. ~removed' => CacheTight(cache')  BY <1>2, <2>3, <3>1, ForgetTight
      <3>4. QED  BY <1>1, <3>2, <3>3 DEF CountInv
    <2>4. QED  BY <1>4, <2>1, <2>2, <2>3, CacheStep
  <1>5. QED  BY <1>3, <1>4 DEF Ult!Next

\* HashCache: no conversation is sent to the ultimate model, or refused, before it has
\* come as often as its counter says since it was last answered, although Remove moves
\* the slots under the head; and until a hash is taken out of a slot, every hash in a
\* slot has its counter and every counter its slot, also when the cache is full and
\* the oldest is evicted.  For any size, requests, answers and resets.
THEOREM CountedHolds ==
  ASSUME Ult!UltimateAssumption
  PROVE  Ult!Spec => [](Ult!NeverEarly /\ Ult!CountedIsFound)
  <1>1. Ult!Init => CountInv
    <2> SUFFICES ASSUME Ult!Init PROVE CountInv  OBVIOUS
    <2>1. UltInv  BY UltInit
    <2>2. cache = Ult!Empty /\ tries = [h \in Hashes |-> 0]  BY DEF Ult!Init
    <2>3. CacheTight(cache) /\ DOMAIN cache.seen = {}  BY <2>2, EmptyCache
    <2>4. Behind  BY <2>2, <2>3 DEF Behind
    <2>5. QED  BY <2>1, <2>3, <2>4 DEF CountInv
  <1>2. CountInv /\ UNCHANGED Ult!vars => CountInv'
    <2> SUFFICES ASSUME CountInv, UNCHANGED Ult!vars PROVE CountInv'  OBVIOUS
    <2>1. UNCHANGED <<cache, tries, removed>>  BY DEF Ult!vars, Ult!counts
    <2>2. UltInv'  BY UltStutter DEF CountInv
    <2>3. Behind' /\ (~removed' => CacheTight(cache'))  BY <2>1 DEF CountInv, Behind
    <2>4. QED  BY <2>2, <2>3 DEF CountInv
  <1>3. CountInv /\ [Ult!Next]_(Ult!vars) => CountInv'  BY <1>2, CountStep
  <1>4. CountInv => Ult!NeverEarly /\ Ult!CountedIsFound
    BY DEF CountInv, Behind, CacheTight, Ult!NeverEarly, Ult!CountedIsFound
  <1>5. QED  BY <1>1, <1>3, <1>4, PTL DEF Ult!Spec
=============================================================================
