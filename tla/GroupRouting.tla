---------------------------- MODULE GroupRouting ----------------------------
(***************************************************************************)
(* A request for a load-balancing group, from the rewrite of its model     *)
(* list to its one re-entry: store_group_rewrite.go in the configuration   *)
(* store and tryGroupReentry in the handler.                               *)
(*                                                                         *)
(* The engine's calls are atomic here (GroupEngine has their locks); what  *)
(* lies between them is not: the group row is read once, the engine is     *)
(* seeded lazily, members are disabled and the group edited meanwhile.     *)
(***************************************************************************)
EXTENDS GroupState, Sequences

CONSTANTS
    Requests,   \* requests, all of one conversation
    Key,        \* their conversation key
    Seeded,     \* whether the engine has the group's state at the start
    MaxEdits,   \* bound: administrative writes
    MaxClock    \* bound: the clock stops here

VARIABLES
    row,        \* the member list of the committed group row
    eng,        \* the engine's states of this group: none or one
    servable,   \* members that are enabled chat models
    req,        \* request -> its progress
    good,       \* history: members healthy and servable since the rewrite began
    edits, clock

vars == <<row, eng, servable, req, good, edits, clock>>

Fresh == [pc |-> "start", conf |-> <<>>, member |-> NoMember, pool |-> "default",
          attempt |-> 0, failed |-> NoMember, runs |-> 0]

HealthyServable(e, s) ==
    IF e = <<>> THEN {}
    ELSE {m \in DOMAIN e[1].conf \cap s : ~IsCooling(e[1], m, clock)}

Init ==
    /\ row \in Configs
    /\ eng = IF Seeded THEN <<NewState(row)>> ELSE <<>>
    /\ servable \in SUBSET Members
    /\ req = [p \in Requests |-> Fresh]
    /\ good = [p \in Requests |-> {}]
    /\ edits = 0 /\ clock = 1

-----------------------------------------------------------------------------
(* Engine calls.                                                           *)

Count(conf, pool) == Cardinality({m \in DOMAIN conf : conf[m] = pool})
HasBackupPool(st) == PoolOf(st, "backup") # {}
DefaultPoolHealthy(st) == Healthy(st, "default", clock) # {}

\* getOrSelect: a lone default is returned whatever its cooldown.
Get(st) ==
    IF Cardinality(DOMAIN st.conf) = 1 /\ HasBackupPool(st) = FALSE
    THEN {Answer(st, CHOOSE m \in DOMAIN st.conf : TRUE, "single")}
    ELSE FullPick(st, "default", Key, clock)

\* ExcludeAndReselect and its backup twin with their early returns.
Exclude(st, pool, m) ==
    IF pool = "default" /\ Cardinality(DOMAIN st.conf) = 1 THEN {Answer(st, NoMember, "none")}
    ELSE IF pool = "backup" /\ ~HasBackupPool(st) THEN {Answer(st, NoMember, "none")}
    ELSE IF pool = "backup" /\ Cardinality(PoolOf(st, "backup")) = 1
    THEN {Answer(Cool(st, m, clock), NoMember, "none")}
    ELSE FullExclude(st, pool, Key, m, clock)

\* pickBackupMember: the single-backup path applies while nothing cools, and
\* what it does then is the full path's pick.
Backup(st) == FullPick(st, "backup", Key, clock)

-----------------------------------------------------------------------------
(* Steps of a request.                                                     *)

Rest == UNCHANGED <<row, servable, edits, clock>>
Go(p, pc) == req' = [req EXCEPT ![p].pc = pc]

\* A member stops being good for every request once it cools or leaves.
Recheck(e, s) == good' = [p \in Requests |-> good[p] \cap HealthyServable(e, s)]

Engine(p, outcomes, next(_)) ==
    \E o \in outcomes :
        /\ eng' = <<o.st>> /\ Recheck(<<o.st>>, servable)
        /\ req' = [req EXCEPT ![p] = next(o)]
        /\ Rest

\* row := GetModelNative(entry), a copy.
ReadRow(p) ==
    /\ req[p].pc = "start"
    /\ req' = [req EXCEPT ![p].pc = "hasGroup", ![p].conf = row, ![p].attempt = 0]
    /\ good' = [good EXCEPT ![p] = HealthyServable(eng, servable)]
    /\ UNCHANGED eng /\ Rest

\* The freshness gate of the lazy seed ...
HasGroup(p) ==
    /\ req[p].pc = "hasGroup"
    /\ Go(p, IF eng = <<>> THEN "seed" ELSE "gate")
    /\ UNCHANGED <<eng, good>> /\ Rest

\* ... and OnGroupChanged with the members of the copy.
Seed(p) ==
    /\ req[p].pc = "seed"
    /\ eng' = <<IF eng = <<>> THEN NewState(req[p].conf) ELSE Reconfigured(eng[1], req[p].conf)>>
    /\ Go(p, "gate") /\ Recheck(eng', servable) /\ Rest

\* Variant for Gate: the backup pool is consulted whenever there is one.
GateBackupFirst(p) ==
    /\ req[p].pc = "gate"
    /\ Go(p, IF HasBackupPool(eng[1]) THEN "pickBackup" ELSE "pickDefault")
    /\ UNCHANGED <<eng, good>> /\ Rest

\* defaultPoolExhausted, computed once.
Gate(p) ==
    /\ req[p].pc = "gate"
    /\ Go(p, IF HasBackupPool(eng[1]) /\ ~DefaultPoolHealthy(eng[1])
             THEN "pickBackup" ELSE "pickDefault")
    /\ UNCHANGED <<eng, good>> /\ Rest

\* One round of the loop over the default pool.
PickDefault(p) ==
    /\ req[p].pc = "pickDefault"
    /\ IF req[p].attempt > Count(req[p].conf, "default")
       THEN /\ req' = [req EXCEPT ![p].pc = "pickBackup", ![p].attempt = 0]
            /\ UNCHANGED <<eng, good>> /\ Rest
       ELSE LET next(o) == IF o.m = NoMember
                           THEN [req[p] EXCEPT !.pc = "pickBackup", !.attempt = 0]
                           ELSE [req[p] EXCEPT !.pc = "check", !.pool = "default", !.member = o.m]
            IN Engine(p, Get(eng[1]), next)

\* Variant for PickBackup: one backup is tried, not all of them.
PickBackupOnce(p) ==
    /\ req[p].pc = "pickBackup"
    /\ IF req[p].attempt > 0
       THEN Go(p, "unservable") /\ UNCHANGED <<eng, good>> /\ Rest
       ELSE LET next(o) == IF o.m = NoMember THEN [req[p] EXCEPT !.pc = "unservable"]
                           ELSE [req[p] EXCEPT !.pc = "check", !.pool = "backup", !.member = o.m]
            IN Engine(p, Backup(eng[1]), next)

\* One round of the loop over the backup pool.
PickBackup(p) ==
    /\ req[p].pc = "pickBackup"
    /\ IF req[p].attempt > Count(req[p].conf, "backup")
       THEN Go(p, "unservable") /\ UNCHANGED <<eng, good>> /\ Rest
       ELSE LET next(o) == IF o.m = NoMember THEN [req[p] EXCEPT !.pc = "unservable"]
                           ELSE [req[p] EXCEPT !.pc = "check", !.pool = "backup", !.member = o.m]
            IN Engine(p, Backup(eng[1]), next)

\* isServableGroupMember(GetModelNative(pick)).
Check(p) ==
    /\ req[p].pc = "check"
    /\ IF req[p].member \in servable
       THEN req' = [req EXCEPT ![p].pc = "run", ![p].runs = @ + 1]
       ELSE Go(p, "stale")
    /\ UNCHANGED <<eng, good>> /\ Rest

\* Variant for Stale: the round is not counted and the member not cooled.
StaleForever(p) ==
    /\ req[p].pc = "stale"
    /\ Go(p, IF req[p].pool = "default" THEN "pickDefault" ELSE "pickBackup")
    /\ UNCHANGED <<eng, good>> /\ Rest

\* Skip and reselect: the answer of the exclusion is not used.
Stale(p) ==
    /\ req[p].pc = "stale"
    /\ LET next(o) == [req[p] EXCEPT !.pc = IF req[p].pool = "default" THEN "pickDefault"
                                                                      ELSE "pickBackup",
                                     !.attempt = @ + 1]
       IN Engine(p, Exclude(eng[1], req[p].pool, req[p].member), next)

\* The race: the member's own pipeline answers, or fails for good.
Answered(p) ==
    /\ req[p].pc = "run"
    /\ Go(p, "done")
    /\ UNCHANGED <<eng, good>> /\ Rest

\* A terminal failure before any byte was sent: the single re-entry.
MemberFailed(p) ==
    /\ req[p].pc = "run"
    /\ Go(p, IF req[p].runs = 1 THEN "exclude" ELSE "done")
    /\ UNCHANGED <<eng, good>> /\ Rest

\* ExcludeGroupMember: a healthy default, or the cooling one of a group without
\* backups, leads to the rebuild; otherwise the backup pool is asked.
ExcludeGroupMember(p) ==
    /\ req[p].pc = "exclude"
    /\ LET next(o) ==
             [req[p] EXCEPT !.failed = req[p].member, !.pc =
                IF o.m # NoMember /\ (o.how = "healthy" \/ ~HasBackupPool(o.st))
                THEN "rebuild" ELSE "reBackup"]
       IN Engine(p, Exclude(eng[1], "default", req[p].member), next)

\* pickServableBackup: pick, and when the pick is stale reselect once.
ReBackup(p) ==
    /\ req[p].pc = "reBackup"
    /\ LET next(o) == [req[p] EXCEPT !.pc =
                         IF o.m = NoMember THEN "done"
                         ELSE IF o.m \in servable THEN "rebuild" ELSE "reStale",
                       !.member = o.m]
       IN Engine(p, Backup(eng[1]), next)

ReStale(p) ==
    /\ req[p].pc = "reStale"
    /\ LET next(o) == [req[p] EXCEPT !.pc = IF o.m = NoMember THEN "done" ELSE "rebuild"]
       IN Engine(p, Exclude(eng[1], "backup", req[p].member), next)

\* groupReentered is set and the original model list is rewritten again.
Rebuild(p) ==
    /\ req[p].pc = "rebuild"
    /\ req' = [req EXCEPT ![p].pc = "start"]
    /\ UNCHANGED <<eng, good>> /\ Rest

RequestStep(p) ==
    \/ ReadRow(p) \/ HasGroup(p) \/ Seed(p) \/ Gate(p) \/ PickDefault(p) \/ PickBackup(p)
    \/ Check(p) \/ Stale(p) \/ Answered(p) \/ MemberFailed(p)
    \/ ExcludeGroupMember(p) \/ ReBackup(p) \/ ReStale(p) \/ Rebuild(p)

-----------------------------------------------------------------------------
(* Administrative writes.                                                  *)

\* A write of the group row; notifyGroupEngineLocked follows under m.mu.
EditGroup(c) ==
    /\ edits < MaxEdits /\ c # row
    /\ row' = c /\ edits' = edits + 1
    /\ eng' = <<IF eng = <<>> THEN NewState(c) ELSE Reconfigured(eng[1], c)>>
    /\ good' = [p \in Requests |-> {}]
    /\ UNCHANGED <<servable, req, clock>>

\* A member is disabled or deleted, or comes back.
EditMember(m) ==
    /\ edits < MaxEdits
    /\ servable' = IF m \in servable THEN servable \ {m} ELSE servable \cup {m}
    /\ edits' = edits + 1
    /\ Recheck(eng, servable')
    /\ UNCHANGED <<row, eng, req, clock>>

Tick == clock < MaxClock /\ clock' = clock + 1 /\ UNCHANGED <<row, eng, servable, req, good, edits>>

Next ==
    \/ \E p \in Requests : RequestStep(p)
    \/ \E c \in Configs : EditGroup(c)
    \/ \E m \in Members : EditMember(m)
    \/ Tick

Spec == Init /\ [][Next]_vars
FairSpec == Spec /\ \A p \in Requests : WF_vars(RequestStep(p))

-----------------------------------------------------------------------------
(* Properties.                                                             *)

\* The shape of the state; no request runs more than two members.
TypeOK ==
    /\ row \in Configs /\ Len(eng) <= 1 /\ servable \subseteq Members
    /\ \A p \in Requests :
        /\ req[p].member \in Members \cup {NoMember}
        /\ req[p].runs \in 0..2 /\ req[p].attempt \in 0..(Cardinality(Members) + 1)
        /\ good[p] \subseteq Members

Runs(p) == req[p].pc = "check" /\ req'[p].pc = "run"

\* Backups are "reached ONLY after every default member in the request's
\* exclusion set has failed": when a request runs a backup, no default member
\* of the group was healthy and servable during the whole rewrite.  (A group
\* edited meanwhile promises nothing.)
BackupLastResort ==
    [][\A p \in Requests :
        Runs(p) /\ req[p].pool = "backup"
        => \A m \in good[p] : eng[1].conf[m] # "default"]_vars

\* group_unservable is answered only when no member of either pool was healthy
\* and servable during the whole rewrite.
UnservableIsReal ==
    \A p \in Requests : req[p].pc = "unservable" => good[p] = {}

\* The re-entry does not run the member that just failed while another member
\* of the group is healthy and servable all along ("would re-run the member
\* that just failed and keep the backups dead").
ReentryMovesOn ==
    [][\A p \in Requests :
        Runs(p) /\ req[p].runs = 1 /\ req[p].member = req[p].failed
        => good[p] \subseteq {req[p].failed}]_vars

\* Between seeds the engine's member list is the committed row's ("HasGroup is
\* the accurate freshness gate").
EngineFollowsRow ==
    eng # <<>> /\ (\A p \in Requests : req[p].pc # "seed") => eng[1].conf = row

\* Every request ends: the loops over the pools are bounded and the handler
\* re-enters once.
RequestsEnd == \A p \in Requests : <>(req[p].pc \in {"done", "unservable"})
=============================================================================
