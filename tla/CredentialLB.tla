---------------------------- MODULE CredentialLB ----------------------------
(***************************************************************************)
(* The credential engine of one model: pkg/credentiallb (engine.go,        *)
(* binding.go, failure_class.go).  It pins a conversation to a credential, *)
(* keeps credentials that were rate limited or out of quota in cooldown    *)
(* and moves a conversation away from them.                                *)
(*                                                                         *)
(* Requests call GetOrSelect and, when the attempt failed,                 *)
(* ExcludeAndReselectForClass.  A call reads the clock, then the model's   *)
(* state, then the number of credentials, each under a lock of its own, so *)
(* it is split there: what it acts on later may be stale.  The store calls *)
(* OnModelChanged and OnCredentialDeleted, and a janitor sweeps.  A model  *)
(* that is removed and added again gets a new modelState; a call may still *)
(* hold the old one.  States are numbered, and `inc` is the one the engine *)
(* holds.  The counters of Stats other than bindingsCount are left out.    *)
(***************************************************************************)
EXTENDS Integers, Sequences, FiniteSets

CONSTANTS
    Procs,           \* requests
    Keys,            \* conversation keys; a request may also have none
    Creds,           \* credential ids
    RefLists,        \* the credential lists the model may be configured with
    MaxStates,       \* bound: modelStates created
    Ttl,             \* e.ttl
    DefaultCooldown, \* e.defaultCooldown
    QuotaCooldown,   \* e.quotaCooldown
    QuotaCeiling,    \* QuotaCooldownCeiling
    RetryAfters,     \* Retry-After values of upstream answers, 0 for none
    MaxClock,        \* bound: the clock stops here
    Shutdown         \* bound: whether Stop is ever called

NoKey == "nokey"
NoCred == "nocred"
Ids(list) == {list[i] : i \in DOMAIN list}
States == 1..MaxStates

ASSUME CallersAssumption == NoKey \notin Keys /\ NoCred \notin Creds /\ IsFiniteSet(Keys)
ASSUME ListsAssumption ==
    \A list \in RefLists :
        /\ list \in Seq(Creds) /\ Len(list) > 0
        /\ \A i, j \in DOMAIN list : list[i] = list[j] => i = j
ASSUME StatesAssumption == MaxStates \in Nat \ {0}
ASSUME DurationsAssumption ==
    /\ Ttl \in Nat \ {0} /\ DefaultCooldown \in Nat \ {0} /\ MaxClock \in Nat \ {0}
    /\ QuotaCooldown \in Nat \ {0} /\ QuotaCeiling \in Nat /\ QuotaCooldown <= QuotaCeiling
    /\ RetryAfters \subseteq Nat
ASSUME ShutdownAssumption == Shutdown \in BOOLEAN

VARIABLES
    inc,        \* the modelState in e.models, 0 when the model is absent
    refs,       \* state -> st.credentials
    bind,       \* state -> key -> st.bindings entry
    cool,       \* state -> credential -> st.cooldowns entry, 0 for none
    count,      \* state -> st.bindingsCount
    calls,      \* request -> the call it is in, or the answer of its last one
    sweepAt,    \* time read by the janitor's running pass, 0 between passes
    stopped,    \* Stop was called
    clock

engVars == <<inc, refs, bind, cool, count>>
vars == <<engVars, calls, sweepAt, stopped, clock>>

NoBinding == [cred |-> NoCred, at |-> 0]
Idle == [pc |-> "idle", op |-> "get", key |-> NoKey, cred |-> NoCred, cd |-> 0,
         now |-> 0, st |-> 0, n |-> 0]

-----------------------------------------------------------------------------
(* Reads of a modelState, under its lock.                                  *)

Bound(s, k) == bind[s][k] # NoBinding
Expired(b, now) == now - b.at > Ttl
IsCooling(s, c, now) == cool[s][c] > now

\* The conditions of a binding hit: not idle for longer than the TTL, still
\* configured, not cooling.
Valid(s, k, now) ==
    /\ Bound(s, k) /\ ~Expired(bind[s][k], now)
    /\ bind[s][k].cred \in Ids(refs[s]) /\ ~IsCooling(s, bind[s][k].cred, now)

\* What pickHealthyLocked may return: weights are positive, so any of these.
Healthy(s, now) == {c \in Ids(refs[s]) : ~IsCooling(s, c, now)}

\* soonestCooldownLocked when all are cooling: the one that comes out of
\* cooldown first, the first in list order among equals.
Soonest(list, until) ==
    {list[i] : i \in {i \in DOMAIN list : \A j \in DOMAIN list :
        \/ until[list[i]] < until[list[j]]
        \/ until[list[i]] = until[list[j]] /\ i <= j}}

\* CooldownFor.
CooldownFor(class, retryAfter) ==
    LET capped == IF retryAfter > QuotaCeiling THEN QuotaCeiling ELSE retryAfter
    IN  IF class = "quota" THEN (IF capped > QuotaCooldown THEN capped ELSE QuotaCooldown)
        ELSE IF retryAfter > 0 THEN retryAfter ELSE DefaultCooldown
Cooldowns == {CooldownFor(class, r) : class \in {"rateLimit", "quota"}, r \in RetryAfters}

\* After RebindFromStore at startup.
Init ==
    /\ inc = 1
    /\ \E list \in RefLists : refs = [s \in States |-> IF s = 1 THEN list ELSE <<>>]
    /\ bind = [s \in States |-> [k \in Keys |-> NoBinding]]
    /\ cool = [s \in States |-> [c \in Creds |-> 0]]
    /\ count = [s \in States |-> 0]
    /\ calls = [p \in Procs |-> Idle]
    /\ sweepAt = 0 /\ stopped = FALSE /\ clock = 1

-----------------------------------------------------------------------------
(* The calls of a request.                                                 *)

Goto(p, pc) == calls' = [calls EXCEPT ![p].pc = pc]
\* The call ends; the request keeps its key and the credential it was given.
Answer(p, c) ==
    calls' = [calls EXCEPT ![p] = [Idle EXCEPT !.pc = "answered", !.key = calls[p].key,
                                               !.cred = c]]

\* GetOrSelect is called.
StartGet(p, k) ==
    /\ calls[p].pc \in {"idle", "answered"}
    /\ calls' = [calls EXCEPT ![p] = [Idle EXCEPT !.pc = "lookup", !.key = k, !.now = clock]]
    /\ UNCHANGED <<engVars, sweepAt, stopped, clock>>

\* The attempt made with the answer failed: ExcludeAndReselectForClass.
StartExclude(p, cd) ==
    /\ calls[p].pc = "answered" /\ calls[p].cred # NoCred
    /\ calls' = [calls EXCEPT ![p] = [Idle EXCEPT !.pc = "lookup", !.op = "exclude",
                     !.key = calls[p].key, !.cred = calls[p].cred, !.cd = cd, !.now = clock]]
    /\ UNCHANGED <<engVars, sweepAt, stopped, clock>>

\* e.models[modelID] under the outer lock.
Lookup(p) ==
    /\ calls[p].pc = "lookup"
    /\ IF inc = 0 THEN Answer(p, NoCred)
       ELSE calls' = [calls EXCEPT ![p] = [@ EXCEPT !.pc = "count", !.st = inc]]
    /\ UNCHANGED <<engVars, sweepAt, stopped, clock>>

\* credCount, and the branch on it.
CredCount(p) ==
    /\ calls[p].pc = "count"
    /\ LET n == Len(refs[calls[p].st])
           pc == IF calls[p].op = "exclude" THEN "exclude"
                 ELSE IF n = 1 THEN "first"
                 ELSE IF calls[p].key # NoKey THEN "probe" ELSE "full"
       IN  IF calls[p].op = "exclude" /\ n = 1 THEN Answer(p, NoCred)
           ELSE calls' = [calls EXCEPT ![p] = [@ EXCEPT !.pc = pc, !.n = n]]
    /\ UNCHANGED <<engVars, sweepAt, stopped, clock>>

\* The single-credential fast path reads the list again.
FirstCredential(p) ==
    /\ calls[p].pc = "first"
    /\ Answer(p, Head(refs[calls[p].st]))
    /\ UNCHANGED <<engVars, sweepAt, stopped, clock>>

\* The optimistic probe under the read lock.
Probe(p) ==
    /\ calls[p].pc = "probe"
    /\ LET s == calls[p].st  k == calls[p].key IN
       IF Valid(s, k, calls[p].now)
       THEN calls' = [calls EXCEPT ![p] = [@ EXCEPT !.pc = "confirm", !.cred = bind[s][k].cred]]
       ELSE Goto(p, "full")
    /\ UNCHANGED <<engVars, sweepAt, stopped, clock>>

\* b.boundAt = now: the idle window of the entry restarts.
Touch(s, k, now) == bind' = [bind EXCEPT ![s][k] = [cred |-> bind[s][k].cred, at |-> now]]

\* The probed credential was a local of the fast path.
LeaveProbe(p) == calls' = [calls EXCEPT ![p] = [@ EXCEPT !.pc = "full", !.cred = NoCred]]

\* Variant for Confirm: the cooldown is not looked at again.
ConfirmTrustsProbe(p) ==
    /\ calls[p].pc = "confirm"
    /\ LET s == calls[p].st  k == calls[p].key  now == calls[p].now
           b == bind[s][k] IN
       IF Bound(s, k) /\ b.cred = calls[p].cred /\ ~Expired(b, now)
       THEN /\ Touch(s, k, now)
            /\ Answer(p, b.cred)
       ELSE LeaveProbe(p) /\ bind' = bind
    /\ UNCHANGED <<inc, refs, cool, count, sweepAt, stopped, clock>>

\* The write lock: the binding must have survived, unexpired and not cooling;
\* then its idle window restarts.  The list is not consulted again.
Confirm(p) ==
    /\ calls[p].pc = "confirm"
    /\ LET s == calls[p].st  k == calls[p].key  now == calls[p].now
           b == bind[s][k] IN
       IF Bound(s, k) /\ b.cred = calls[p].cred /\ ~Expired(b, now) /\ ~IsCooling(s, b.cred, now)
       THEN /\ Touch(s, k, now)
            /\ Answer(p, b.cred)
       ELSE LeaveProbe(p) /\ bind' = bind
    /\ UNCHANGED <<inc, refs, cool, count, sweepAt, stopped, clock>>

\* bindings[k] = b and its mirror, from a state in which the entry may exist.
SetBinding(s, k, b) ==
    /\ bind' = [bind EXCEPT ![s][k] = b]
    /\ count' = [count EXCEPT ![s] = @ - (IF Bound(s, k) THEN 1 ELSE 0)
                                       + (IF b # NoBinding THEN 1 ELSE 0)]

\* The full path under the write lock: a hit after all; else the entry is
\* dropped and a healthy pick is bound, or the soonest one is returned
\* without a binding.
Full(p) ==
    /\ calls[p].pc = "full"
    /\ LET s == calls[p].st  k == calls[p].key  now == calls[p].now IN
       IF k # NoKey /\ Valid(s, k, now)
       THEN /\ Touch(s, k, now) /\ count' = count
            /\ Answer(p, bind[s][k].cred)
       ELSE IF Healthy(s, now) # {}
       THEN \E c \in Healthy(s, now) :
               /\ Answer(p, c)
               /\ IF k = NoKey THEN UNCHANGED <<bind, count>>
                  ELSE SetBinding(s, k, [cred |-> c, at |-> now])
       ELSE /\ \E c \in Soonest(refs[s], cool[s]) : Answer(p, c)
            /\ IF k = NoKey THEN UNCHANGED <<bind, count>> ELSE SetBinding(s, k, NoBinding)
    /\ UNCHANGED <<inc, refs, cool, sweepAt, stopped, clock>>

\* Variant for KeepsBinding: a binding to another credential is moved too.
KeepsBindingNever(p) == FALSE
\* The precondition of a rebind fails: another request has moved the
\* conversation to a credential that is healthy.
KeepsBinding(p) ==
    LET s == calls[p].st  k == calls[p].key IN
    /\ k # NoKey /\ Bound(s, k) /\ bind[s][k].cred # calls[p].cred
    /\ ~IsCooling(s, bind[s][k].cred, calls[p].now)

\* Variant for RebindTo: the mirror counts a rebind as a new entry.
RebindToCounts(s, k, b) ==
    /\ bind' = [bind EXCEPT ![s][k] = b]
    /\ count' = [count EXCEPT ![s] = @ + 1]
\* The rebind: one map write, counted only when the entry is new.
RebindTo(s, k, b) ==
    /\ bind' = [bind EXCEPT ![s][k] = b]
    /\ count' = [count EXCEPT ![s] = IF Bound(s, k) THEN @ ELSE @ + 1]

\* excludeAndReselectWithCooldown: the credential cools from the time the
\* call read; then keep, rebind, or answer the soonest without a binding.
Exclude(p) ==
    /\ calls[p].pc = "exclude"
    /\ LET s == calls[p].st  k == calls[p].key  now == calls[p].now  x == calls[p].cred
           rest == Healthy(s, now) \ {x} IN
       /\ cool' = [cool EXCEPT ![s][x] = now + calls[p].cd]
       /\ IF KeepsBinding(p)
          THEN Answer(p, bind[s][k].cred) /\ UNCHANGED <<bind, count>>
          ELSE IF rest # {}
          THEN \E c \in rest :
                  /\ Answer(p, c)
                  /\ IF k = NoKey THEN UNCHANGED <<bind, count>>
                     ELSE RebindTo(s, k, [cred |-> c, at |-> now])
          ELSE /\ \E c \in Soonest(refs[s], cool'[s]) : Answer(p, c)
               /\ UNCHANGED <<bind, count>>
    /\ UNCHANGED <<inc, refs, sweepAt, stopped, clock>>

-----------------------------------------------------------------------------
(* The store, the janitor and the clock.                                   *)

\* Variant for DropBindings: every key is counted off, bound or not.
DropBindingsCountsAll(s, gone) ==
    /\ bind' = [bind EXCEPT ![s] = [k \in Keys |-> IF k \in gone THEN NoBinding ELSE bind[s][k]]]
    /\ count' = [count EXCEPT ![s] = @ - Cardinality(Keys)]
\* These bindings of state s are deleted and counted off.
DropBindings(s, gone) ==
    /\ bind' = [bind EXCEPT ![s] = [k \in Keys |-> IF k \in gone THEN NoBinding ELSE bind[s][k]]]
    /\ count' = [count EXCEPT ![s] = @ - Cardinality(gone)]

\* Variant for OnModelChanged: bindings are not filtered.
OnModelChangedKeepsOrphans(list) ==
    /\ inc # 0
    /\ refs' = [refs EXCEPT ![inc] = list]
    /\ UNCHANGED <<inc, bind, count, cool, calls, sweepAt, stopped, clock>>
\* OnModelChanged of a model the engine has: the list is replaced, orphan
\* bindings are dropped, cooldowns stay.
OnModelChanged(list) ==
    /\ inc # 0
    /\ refs' = [refs EXCEPT ![inc] = list]
    /\ DropBindings(inc, {k \in Keys : Bound(inc, k) /\ bind[inc][k].cred \notin Ids(list)})
    /\ UNCHANGED <<inc, cool, calls, sweepAt, stopped, clock>>

\* OnModelChanged of a model it has not: a new modelState.
ModelAdded(list) ==
    /\ inc = 0
    /\ \E s \in States :
          /\ \A t \in States : refs[t] # <<>> <=> t < s
          /\ inc' = s /\ refs' = [refs EXCEPT ![s] = list]
    /\ UNCHANGED <<bind, cool, count, calls, sweepAt, stopped, clock>>

\* OnModelChanged(id, nil).
ModelRemoved ==
    /\ inc # 0 /\ inc' = 0
    /\ UNCHANGED <<refs, bind, cool, count, calls, sweepAt, stopped, clock>>

\* OnCredentialDeleted: its bindings and its cooldown; the list stays.
OnCredentialDeleted(c) ==
    /\ inc # 0
    /\ DropBindings(inc, {k \in Keys : Bound(inc, k) /\ bind[inc][k].cred = c})
    /\ cool' = [cool EXCEPT ![inc][c] = 0]
    /\ UNCHANGED <<inc, refs, calls, sweepAt, stopped, clock>>

\* A janitor pass reads the clock, then takes the model's lock.
SweepStart ==
    /\ sweepAt = 0 /\ ~stopped /\ sweepAt' = clock
    /\ UNCHANGED <<engVars, calls, stopped, clock>>

\* Variant for SweepOnce: a pass does not see idle bindings.
SweepOnceCooldownsOnly ==
    /\ sweepAt # 0 /\ sweepAt' = 0
    /\ IF inc = 0 THEN cool' = cool
       ELSE cool' = [cool EXCEPT ![inc] = [c \in Creds |->
                        IF cool[inc][c] <= sweepAt THEN 0 ELSE cool[inc][c]]]
    /\ UNCHANGED <<inc, refs, bind, count, calls, stopped, clock>>
\* sweepOnce: expired cooldowns, then idle bindings.
SweepOnce ==
    /\ sweepAt # 0 /\ sweepAt' = 0
    /\ IF inc = 0 THEN UNCHANGED <<bind, cool, count>>
       ELSE /\ cool' = [cool EXCEPT ![inc] = [c \in Creds |->
                            IF cool[inc][c] <= sweepAt THEN 0 ELSE cool[inc][c]]]
            /\ DropBindings(inc, {k \in Keys : Bound(inc, k) /\ Expired(bind[inc][k], sweepAt)})
    /\ UNCHANGED <<inc, refs, calls, stopped, clock>>

\* Stop: the janitor ends after the pass it is in.
Stop ==
    /\ Shutdown /\ ~stopped /\ stopped' = TRUE
    /\ UNCHANGED <<engVars, calls, sweepAt, clock>>

Tick ==
    /\ clock < MaxClock /\ clock' = clock + 1
    /\ UNCHANGED <<engVars, calls, sweepAt, stopped>>

Request(p) ==
    \/ \E k \in Keys \cup {NoKey} : StartGet(p, k)
    \/ \E cd \in Cooldowns : StartExclude(p, cd)
    \/ Lookup(p) \/ CredCount(p) \/ FirstCredential(p) \/ Probe(p) \/ Confirm(p) \/ Full(p)
    \/ Exclude(p)
ConfigChange ==
    \/ \E list \in RefLists : OnModelChanged(list) \/ ModelAdded(list)
    \/ ModelRemoved
    \/ \E c \in Creds : OnCredentialDeleted(c)

Next ==
    \/ \E p \in Procs : Request(p)
    \/ ConfigChange
    \/ SweepStart \/ SweepOnce \/ Stop \/ Tick

Spec == Init /\ [][Next]_vars

\* The ticker of runJanitor fires again and again, and a pass ends.
FairSpec == Spec /\ WF_vars(SweepStart) /\ WF_vars(SweepOnce)

-----------------------------------------------------------------------------
(* Properties.                                                             *)

Call == [pc : {"idle", "lookup", "count", "first", "probe", "confirm", "full", "exclude",
               "answered"},
         op : {"get", "exclude"}, key : Keys \cup {NoKey}, cred : Creds \cup {NoCred},
         cd : Nat, now : Nat, st : States \cup {0}, n : Nat]

\* Every variable keeps its type; bindingsCount is unsigned, so it never
\* goes below zero.
TypeOK ==
    /\ inc \in States \cup {0}
    /\ refs \in [States -> RefLists \cup {<<>>}]
    /\ bind \in [States -> [Keys -> [cred : Creds \cup {NoCred}, at : Nat]]]
    /\ cool \in [States -> [Creds -> Nat]]
    /\ count \in [States -> Nat]
    /\ calls \in [Procs -> Call]
    /\ sweepAt \in Nat /\ stopped \in BOOLEAN /\ clock \in Nat \ {0}

\* bindingsCount mirrors len(bindings) although six places write the map
\* (GetOrSelect, ExcludeAndReselect, OnModelChanged, OnCredentialDeleted and
\* the janitor, each under st.mu).
CountMirrors == \A s \in States : count[s] = Cardinality({k \in Keys : Bound(s, k)})

\* No binding points at a credential that is not configured.  Confirm leans
\* on it: it answers a bound credential without consulting the list.
BindingsConfigured ==
    \A s \in States, k \in Keys : Bound(s, k) => bind[s][k].cred \in Ids(refs[s])

\* The credentials an atomic GetOrSelect may answer, from the state in which
\* the answer is given.
AtomicAnswers(s, k, now) ==
    IF k # NoKey /\ Valid(s, k, now) THEN {bind[s][k].cred}
    ELSE IF Healthy(s, now) # {} THEN Healthy(s, now)
    ELSE Soonest(refs[s], cool[s])

\* GetOrSelect is atomic although it lets the lock go between probe and
\* confirmation: what it answers is what a single critical section would have
\* answered at that moment, so never a cooling or removed credential while a
\* healthy one exists, and the conversation is left bound to a healthy answer.
GetIsAtomic ==
    [][\A p \in Procs :
         LET s == calls[p].st  k == calls[p].key IN
         calls[p].op = "get" /\ calls[p].n > 1 /\ calls'[p].pc = "answered" /\ calls[p].pc # "answered"
         => /\ calls'[p].cred \in AtomicAnswers(s, k, calls[p].now)
            /\ k # NoKey /\ ~IsCooling(s, calls'[p].cred, calls[p].now)
               => bind'[s][k].cred = calls'[p].cred]_vars

\* Affinity: a conversation is moved from one credential to another only when
\* the first is cooling for the call that moves it, idle for longer than the
\* TTL, or no longer configured.
AffinityKept ==
    [][\A s \in States, k \in Keys :
         LET old == bind[s][k] IN
         Bound(s, k) /\ bind'[s][k].cred \notin {NoCred, old.cred} =>
             \/ \E p \in Procs : calls[p].st = s /\ cool'[s][old.cred] > calls[p].now
             \/ Expired(old, clock)
             \/ old.cred \notin Ids(refs[s])]_vars

\* An idle binding of a configured model is evicted as long as the janitor
\* runs.
IdleEvicted ==
    \A k \in Keys :
        (inc # 0 /\ Bound(inc, k) /\ Expired(bind[inc][k], clock)) ~>
            (stopped \/ inc = 0 \/ ~Bound(inc, k) \/ ~Expired(bind[inc][k], clock))

-----------------------------------------------------------------------------
(* A statement of the repository that the code does not keep.              *)

\* "re-exclusion while cooling extends the row": it never shortens it.
ReExclusionExtends ==
    [][\A p \in Procs :
         calls[p].pc = "exclude" /\ calls'[p].pc = "answered"
         => cool'[calls[p].st][calls[p].cred] >= cool[calls[p].st][calls[p].cred]]_vars
=============================================================================
