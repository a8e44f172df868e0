------------------------------ MODULE MCStores ------------------------------
(* Small instances of what the proxy stores, caches and resolves, together *)
(* with the list of requests.                                              *)
EXTENDS Stores, TLC

CONSTANTS a, p

VARIABLES size, requests, sizeByID, totalBytes, cache, dirty

requestVars == <<size, requests, sizeByID, totalBytes, cache, dirty>>

-----------------------------------------------------------------------------
FewIds == {"m", "n", "g", "h"}
Chat(creds) == [kind |-> "chat", creds |-> creds, members |-> {}, shadow |-> "none", enabled |-> TRUE]
Group(over, shadow, enabled) ==
    [kind |-> "group", creds |-> {}, members |-> over, shadow |-> shadow, enabled |-> enabled]
\* One chat model that also becomes an image model, two groups over it that
\* shadow it or another name, one of them disabled at times.
FewDrafts ==
    {<<"m", Chat({"c"})>>, <<"n", Chat({"d"})>>,
     <<"m", [Chat({"c"}) EXCEPT !.kind = "image"]>>,
     <<"g", Group({"m"}, "m", TRUE)>>, <<"g", Group({"m"}, "n", TRUE)>>,
     <<"g", Group({"n"}, "m", FALSE)>>, <<"h", Group({"n"}, "n", TRUE)>>}
\* One model with either credential, and a group that shadows it.
OneModel == {<<"m", Chat({"c"})>>, <<"m", Chat({"c", "d"})>>, <<"n", Group({"m"}, "m", TRUE)>>}
\* A model with one credential or two, and a group over it that shadows nothing.
Plain == {<<"m", Chat({"c"})>>, <<"m", Chat({"c", "d"})>>, <<"g", Group({"m"}, "none", TRUE)>>}

OneAdmin == {a}
OneProc == {p}

\* The overrides include ones Validate refuses, alone or with what is stored.
Wanted == [port : {0, 2}, on : BOOLEAN, par : 0..1, idle : BOOLEAN, wait : {0, 1, 4}, img : {0}]
Overrides == {<<>>, "port" :> 3, ("on" :> TRUE) @@ ("img" :> 1), "wait" :> 1, "idle" :> TRUE}

Row(v) == [group |-> FALSE, on |-> TRUE, shadow |-> NoRow, ver |-> v]
Over(id, on) == [group |-> TRUE, on |-> on, shadow |-> id, ver |-> 0]
\* Tables an earlier process left: a model and a group that shadows it.
OpenTables == {("m" :> Row(1)) @@ ("g" :> Over("m", TRUE))}
FewRows == {<<"m", Row(1)>>, <<"m", Row(2)>>, <<"g", Over("m", TRUE)>>, <<"g", Over("m", FALSE)>>}

\* Peak hours east and west of UTC, and across midnight, of a day of 4 hours.
Hours == {[on |-> TRUE, from |-> 1, to |-> 3, offset |-> o] : o \in {-2, 0, 2}}
         \cup {[on |-> TRUE, from |-> 3, to |-> 1, offset |-> -2]}

Logs == INSTANCE RequestStore WITH
    Ids <- {"a", "b", "c"}, Tags <- ("a" :> "x") @@ ("b" :> "x") @@ ("c" :> "y"),
    MaxSize <- 2, MaxBytes <- 4, MaxGrowth <- 5

\* What the theorems about these modules assume of their constants.
ASSUME HypothesesAssumption ==
    /\ Tables!ConfigAssumption /\ Notices!ConfigAssumption
    /\ RowSettings!SettingsAssumption /\ FileSettings!SettingsAssumption
    /\ Models!ModelsAssumption /\ Models!KindKept /\ Resolved!ResolutionAssumption
    /\ Tokens!TokenAssumption /\ Bus!BusAssumption

-----------------------------------------------------------------------------
\* A part that takes no step stays in one of its initial states.
MCInit ==
    /\ Init /\ Logs!Init
    /\ part \notin {"row", "file"} => env = <<>>
    /\ \/ db = Models!NoRows /\ cdb = 0
       \/ part = "models" /\ db \in OpenTables /\ cdb = 1
    /\ part # "resolve" => row = [list |-> {"a"}, peak |-> [on |-> TRUE, from |-> 3, to |-> 1, offset |-> -2]]

MCNext ==
    \/ Next /\ UNCHANGED requestVars
    \/ part = "logs" /\ Logs!Next /\ UNCHANGED vars

\* The reconciler's timer keeps firing; a request or a write that has read the
\* database goes on to the cache; resolving waits for nobody; cooldowns end.
Fairness ==
    /\ WF_modelVars(part = "models" /\ Models!Scan)
    /\ WF_modelVars(part = "models" /\ Models!FinishFill(p))
    /\ WF_modelVars(part = "models" /\ Models!FinishWrite(a))
    /\ WF_resolveVars(part = "resolve" /\ Resolved!Resolve(p))
    /\ WF_resolveVars(part = "resolve" /\ Resolved!Cool)
MCSpec == MCInit /\ [][MCNext]_<<vars, requestVars>> /\ Fairness

-----------------------------------------------------------------------------
\* The cache ends up equal to tables that stay reachable and are not empty.
Converges == Models!Converges
\* Once nobody writes, nothing fails and the balancer lists a credential that exists,
\* from some time on every resolution succeeds; the peak-hour model is chosen exactly
\* inside the local window.
Resolves == [](part = "resolve" => Resolved!ResolutionSound) /\ Resolved!Recovers
\* The records of requests are exact within their limits: the bytes and tags of the
\* request list are those of its entries; a stream of events shows the newest its
\* channel had room for, in order; a crash leaves no torn body under a name Get
\* reads, and the bodies that can be counted and removed fit their directory.
RecordsSound ==
    /\ part = "logs" => Logs!TypeOK /\ Logs!BytesExact /\ Logs!TagsFresh
    /\ part = "bus" => Bus!TypeOK /\ Bus!ViewIsRecent
    /\ part = "buffers" => Buffers!NoTornBuffer /\ Buffers!DirectoryBounded
=============================================================================
