----------------------------- MODULE GroupEngine -----------------------------
(***************************************************************************)
(* The group engine at the granularity of its locks: pkg/grouplb/engine.go.*)
(*                                                                         *)
(* A call reads the clock, finds the group's state under the outer lock,   *)
(* counts members under the group's read lock and acts under the write     *)
(* lock; configuration changes and the janitor come in between.  A group   *)
(* that is removed and added again gets a new state; a call may still hold *)
(* the old one.  States are numbered and inc is the one the engine holds.  *)
(***************************************************************************)
EXTENDS GroupState, Sequences

CONSTANTS
    Procs,      \* requests
    Wanted,     \* bound: the <<pool, key>> pairs requests ask for
    MaxStates,  \* bound: group states ever created
    MaxClock,   \* bound: the clock stops here
    Shutdown    \* bound: whether the group is removed and the engine stopped

ASSUME WantedAssumption == Wanted \subseteq Pools \X (Keys \cup {NoKey})

VARIABLES
    states,     \* every groupState ever created
    inc,        \* index of the state in e.groups, 0 when the group is absent
    calls,      \* request -> the call it is in, or the answer of its last one
    stopped,    \* Stop was called
    clock

vars == <<states, inc, calls, stopped, clock>>

\* The clock starts at 1, so that 0 is "no cooldown row".
Idle == [pc |-> "idle", op |-> "get", pool |-> "default", key |-> NoKey,
         m |-> NoMember, now |-> 0, s |-> 0]

\* NewModelsManager makes an engine without groups; a group is seeded by the
\* first write or request.
Init ==
    /\ \E c \in Configs : states = <<NewState(c)>> /\ inc = 1
    /\ calls = [p \in Procs |-> Idle]
    /\ stopped = FALSE /\ clock = 1

-----------------------------------------------------------------------------
(* Steps of a call.                                                        *)

Cur(p) == states[calls[p].s]
Goto(p, pc) == calls' = [calls EXCEPT ![p].pc = pc]
Return(p, m) == calls' = [calls EXCEPT ![p] = [Idle EXCEPT !.m = m]]
EngineRest == UNCHANGED <<inc, stopped, clock>>

\* Take one outcome of a critical section as the answer.
Take(p, outcomes) ==
    \E o \in outcomes :
        /\ states' = [states EXCEPT ![calls[p].s] = o.st]
        /\ Return(p, o.m)
        /\ EngineRest

\* Entry of getOrSelect, pickBackupMember, ExcludeAndReselect and
\* ExcludeAndBackupReselect: the clock is read before any lock is taken.
Start(p, op, pool, k, m) ==
    /\ calls[p].pc = "idle"
    /\ calls' = [calls EXCEPT ![p] = [Idle EXCEPT !.pc = "lookup", !.op = op, !.pool = pool,
                                      !.key = k, !.m = m, !.now = clock]]
    /\ UNCHANGED states /\ EngineRest

\* st := e.groups[groupID] under the outer read lock.
Lookup(p) ==
    /\ calls[p].pc = "lookup"
    /\ IF inc = 0 THEN Return(p, NoMember)
       ELSE calls' = [calls EXCEPT ![p].s = inc, ![p].pc = "count"]
    /\ UNCHANGED states /\ EngineRest

Probing(p) == IF calls[p].key = NoKey THEN "full" ELSE "probe"

\* getOrSelect: n := st.memberCount().
CountMembers(p) ==
    /\ calls[p].pc = "count" /\ calls[p].op = "get" /\ calls[p].pool = "default"
    /\ Goto(p, IF Cardinality(DOMAIN Cur(p).conf) = 1 THEN "single" ELSE Probing(p))
    /\ UNCHANGED states /\ EngineRest

\* The single-member path: members[0], read under a lock of its own, whatever
\* its cooldown; a backup is not served from here.
SingleMember(p) ==
    /\ calls[p].pc = "single"
    /\ \E m \in DOMAIN Cur(p).conf :
        IF Cur(p).conf[m] = "default" THEN Return(p, m) ELSE Goto(p, Probing(p))
    /\ UNCHANGED states /\ EngineRest

\* The optimistic read under the read lock.
Probe(p) ==
    /\ calls[p].pc = "probe"
    /\ LET c == calls[p] IN
       calls' = IF Valid(Cur(p), "default", c.key, c.now)
                THEN [calls EXCEPT ![p].pc = "confirm", ![p].m = Cur(p).bind["default"][c.key].m]
                ELSE [calls EXCEPT ![p].pc = "full"]
    /\ UNCHANGED states /\ EngineRest

\* Variant for Confirm: the hit is trusted.
ConfirmTrusts(p) ==
    /\ calls[p].pc = "confirm"
    /\ Return(p, calls[p].m)
    /\ UNCHANGED states /\ EngineRest

\* The write lock: the binding must be the same, fresh and not cooling.
Confirm(p) ==
    /\ calls[p].pc = "confirm"
    /\ LET c == calls[p]
           b == Cur(p).bind["default"][c.key]
           same == Bound(Cur(p), "default", c.key) /\ b.m = c.m
                   /\ ~Expired(b, c.now) /\ ~IsCooling(Cur(p), b.m, c.now)
       IN IF same
          THEN /\ states' = [states EXCEPT ![c.s] = Touch(@, "default", c.key, c.now)]
               /\ Return(p, c.m)
          ELSE Goto(p, "full") /\ UNCHANGED states
    /\ EngineRest

\* The full path, for either pool.
Full(p) ==
    /\ calls[p].pc = "full"
    /\ Take(p, FullPick(Cur(p), calls[p].pool, calls[p].key, calls[p].now))

\* pickBackupMember: one snapshot decides on the fast path for a single backup
\* while no cooldown row exists at all.
CountBackups(p) ==
    /\ calls[p].pc = "count" /\ calls[p].op = "get" /\ calls[p].pool = "backup"
    /\ LET pool == PoolOf(Cur(p), "backup") IN
       IF pool = {} THEN Return(p, NoMember)
       ELSE IF Cardinality(pool) = 1 /\ NoCooldowns(Cur(p))
       THEN calls' = [calls EXCEPT ![p].pc = "fast", ![p].m = CHOOSE m \in pool : TRUE]
       ELSE Goto(p, "full")
    /\ UNCHANGED states /\ EngineRest

\* The fast path under the write lock.  A binding that exists and is not idle
\* wins without a look at its cooldown; otherwise it is dropped, and the single
\* backup is bound if it still is the single one and nothing cools.
Fast(p) ==
    /\ calls[p].pc = "fast"
    /\ LET c == calls[p]
           st == Cur(p)
           b == st.bind["backup"][c.key]
           d == Unbind(st, "backup", c.key)
       IN \/ /\ c.key = NoKey
             /\ Return(p, c.m) /\ UNCHANGED states
          \/ /\ c.key # NoKey
             /\ Bound(st, "backup", c.key) /\ Exists(st, b.m) /\ ~Expired(b, c.now)
             /\ states' = [states EXCEPT ![c.s] = Touch(st, "backup", c.key, c.now)]
             /\ Return(p, b.m)
          \/ /\ c.key # NoKey
             /\ ~(Bound(st, "backup", c.key) /\ Exists(st, b.m) /\ ~Expired(b, c.now))
             /\ IF PoolOf(st, "backup") = {c.m} /\ NoCooldowns(st)
                THEN /\ states' = [states EXCEPT ![c.s] = Bind(d, "backup", c.key, c.m, c.now)]
                     /\ Return(p, c.m)
                ELSE states' = [states EXCEPT ![c.s] = d] /\ Goto(p, "full")
    /\ EngineRest

\* ExcludeAndReselect returns early for a single member; its backup twin for
\* an empty backup pool.
CountExclude(p) ==
    /\ calls[p].pc = "count" /\ calls[p].op = "exclude"
    /\ LET c == calls[p]
           n == Cardinality(IF c.pool = "default" THEN DOMAIN Cur(p).conf
                                                  ELSE PoolOf(Cur(p), "backup"))
       IN IF n = 0 \/ (n = 1 /\ c.pool = "default") THEN Return(p, NoMember)
          ELSE Goto(p, IF n = 1 THEN "exSingle" ELSE "exFull")
    /\ UNCHANGED states /\ EngineRest

\* A single backup cools and nothing replaces it, unless the pool changed.
ExcludeSingleBackup(p) ==
    /\ calls[p].pc = "exSingle"
    /\ IF Cardinality(PoolOf(Cur(p), "backup")) = 1
       THEN /\ states' = [states EXCEPT ![calls[p].s] = Cool(@, calls[p].m, clock)]
            /\ Return(p, NoMember)
       ELSE Goto(p, "exFull") /\ UNCHANGED states
    /\ EngineRest

ExcludeFull(p) ==
    /\ calls[p].pc = "exFull"
    /\ Take(p, FullExclude(Cur(p), calls[p].pool, calls[p].key, calls[p].m, calls[p].now))

-----------------------------------------------------------------------------
(* The store, the janitor, time.                                           *)

\* OnGroupChanged with members.
OnGroupChanged(c) ==
    /\ IF inc = 0
       THEN /\ Len(states) < MaxStates
            /\ states' = Append(states, NewState(c)) /\ inc' = Len(states) + 1
       ELSE states' = [states EXCEPT ![inc] = Reconfigured(@, c)] /\ UNCHANGED inc
    /\ UNCHANGED <<calls, stopped, clock>>

\* OnGroupChanged without members: the state is deleted outright.
GroupRemoved ==
    /\ Shutdown /\ inc # 0 /\ inc' = 0
    /\ UNCHANGED <<states, calls, stopped, clock>>

\* A tick of runJanitor: sweepOnce reads the clock, then waits for the locks.
SweepOnce ==
    /\ ~stopped /\ inc # 0
    /\ \E now \in 1..clock : states' = [states EXCEPT ![inc] = Swept(@, now)]
    /\ UNCHANGED <<inc, calls, stopped, clock>>

\* Stop: the janitor ends; calls go on with lazy expiry.
Stop ==
    /\ Shutdown /\ ~stopped
    /\ stopped' = TRUE
    /\ UNCHANGED <<states, inc, calls, clock>>

Tick ==
    /\ clock < MaxClock
    /\ clock' = clock + 1
    /\ UNCHANGED <<states, inc, calls, stopped>>

CallStep(p) ==
    \/ \E w \in Wanted :
        \/ Start(p, "get", w[1], w[2], NoMember)
        \/ calls[p].m # NoMember /\ Start(p, "exclude", w[1], w[2], calls[p].m)
    \/ Lookup(p) \/ CountMembers(p) \/ SingleMember(p) \/ Probe(p) \/ Confirm(p)
    \/ Full(p) \/ CountBackups(p) \/ Fast(p)
    \/ CountExclude(p) \/ ExcludeSingleBackup(p) \/ ExcludeFull(p)

Next ==
    \/ \E p \in Procs : CallStep(p)
    \/ \E c \in Configs : OnGroupChanged(c)
    \/ GroupRemoved \/ SweepOnce \/ Stop \/ Tick

Spec == Init /\ [][Next]_vars

-----------------------------------------------------------------------------
(* Properties.                                                             *)

BindingType == [m : Members \cup {NoMember}, at : Nat]

\* The shape of the engine's state and of the calls in progress.
TypeOK ==
    /\ inc \in 0..Len(states)
    /\ \A i \in DOMAIN states :
        /\ states[i].conf \in Configs
        /\ states[i].bind \in [Pools -> [Keys -> BindingType]]
        /\ states[i].cool \in [Members -> Nat]
        /\ states[i].count \in [Pools -> Nat]
    /\ \A p \in Procs : calls[p].s \in 0..Len(states) /\ calls[p].m \in Members \cup {NoMember}
    /\ clock \in Nat \ {0} /\ stopped \in BOOLEAN

\* bindingsCount and backupBindingsCount are the sizes of their maps in every
\* state, whichever mixture of drops, rebinds and sweeps wrote it; they are
\* unsigned, so one decrement too many would wrap around.
CountMirrors ==
    \A i \in DOMAIN states, p \in Pools :
        states[i].count[p] = Cardinality({k \in Keys : Bound(states[i], p, k)})

\* No binding of either pool names a member that left the group: the survivor
\* filter of OnGroupChanged and the re-checks under the write locks leave
\* nothing for the "binding=stale" repair to find.
BindingsConfigured ==
    \A i \in DOMAIN states, p \in Pools, k \in Keys :
        Bound(states[i], p, k) => Exists(states[i], states[i].bind[p][k].m)

\* What the critical sections leave of a group's state: its shape, the mirrors
\* and the bindings.
EngineSound == TypeOK /\ CountMirrors /\ BindingsConfigured

Answers(p, m) == calls[p].pc # "idle" /\ calls'[p].pc = "idle" /\ calls'[p].m = m

\* "selection NEVER returns a cooling member except the explicit all-cooling
\* soonest-expiry path", for the default pool: a member getOrSelect returns is
\* healthy, as of the time the call read, in the state the call holds, unless
\* the default pool has no healthy member or the group is down to one member.
PickIsHealthy ==
    [][\A p \in Procs, m \in Members :
        Answers(p, m) /\ calls[p].op = "get" /\ calls[p].pool = "default"
        => \/ ~IsCooling(Cur(p), m, calls[p].now)
           \/ Healthy(Cur(p), "default", calls[p].now) = {}
           \/ calls[p].pc = "single"]_vars

\* The same of pickBackupMember, the "mechanical twin" of getOrSelect.
BackupPickIsHealthy ==
    [][\A p \in Procs, m \in Members :
        Answers(p, m) /\ calls[p].op = "get" /\ calls[p].pool = "backup"
        => \/ ~IsCooling(Cur(p), m, calls[p].now)
           \/ Healthy(Cur(p), "backup", calls[p].now) = {}]_vars

\* The engine implements the affinity table: whatever the interleaving, each
\* step changes the table of the group the way StickyTable allows.
Table == INSTANCE StickyTable WITH
    conf <- IF inc = 0 THEN <<>> ELSE states[inc].conf,
    home <- IF inc = 0 THEN [p \in Pools |-> [k \in Keys |-> NoBinding]] ELSE states[inc].bind,
    cool <- IF inc = 0 THEN [m \in Members |-> 0] ELSE states[inc].cool,
    clock <- clock
KeepsAffinity == Table!TSpec
=============================================================================
