----------------------------- MODULE GroupState -----------------------------
(***************************************************************************)
(* The state of one load-balancing group and what the group engine does    *)
(* to it under the group's lock: pkg/grouplb (binding.go, selector.go and  *)
(* the critical sections of engine.go).                                    *)
(*                                                                         *)
(* A group has a default and a backup pool; conf maps each member to its   *)
(* pool.  Each pool has its own sticky bindings; cooldowns are shared.     *)
(* Weights are positive, so a weighted pick is any healthy member.  An     *)
(* operation that may pick is the set of its possible outcomes.            *)
(***************************************************************************)
EXTENDS Integers, FiniteSets

CONSTANTS
    Keys,       \* conversation keys; a request may also have none
    Members,    \* model ids
    Configs,    \* the member lists a group may be configured with
    Ttl,        \* e.ttl
    Cooldown    \* e.defaultCooldown

NoKey == "nokey"
NoMember == "nomember"
Pools == {"default", "backup"}

ASSUME GroupAssumption ==
    /\ NoKey \notin Keys /\ NoMember \notin Members
    /\ \A c \in Configs : DOMAIN c \subseteq Members /\ DOMAIN c # {}
                          /\ \A m \in DOMAIN c : c[m] \in Pools
    /\ Ttl \in Nat /\ Cooldown \in Nat \ {0}

NoBinding == [m |-> NoMember, at |-> 0]

\* newGroupState, then applyRefsLocked
NewState(conf) ==
    [conf |-> conf,
     bind |-> [p \in Pools |-> [k \in Keys |-> NoBinding]],
     cool |-> [m \in Members |-> 0],
     count |-> [p \in Pools |-> 0]]

-----------------------------------------------------------------------------
(* Reads.  A cooldown row of 0 is no row; a row may be past and unswept.   *)

PoolOf(st, p) == {m \in DOMAIN st.conf : st.conf[m] = p}
Exists(st, m) == m \in DOMAIN st.conf
Bound(st, p, k) == k # NoKey /\ st.bind[p][k] # NoBinding
Expired(b, now) == now - b.at > Ttl
IsCooling(st, m, now) == st.cool[m] > now
NoCooldowns(st) == \A m \in Members : st.cool[m] = 0

\* The existence test looks at both pools: a member that changed pools keeps
\* its conversations.
Valid(st, p, k, now) ==
    /\ Bound(st, p, k)
    /\ ~Expired(st.bind[p][k], now)
    /\ Exists(st, st.bind[p][k].m)
    /\ ~IsCooling(st, st.bind[p][k].m, now)

\* pickHealthyLocked: any of these.
Healthy(st, p, now) == {m \in PoolOf(st, p) : ~IsCooling(st, m, now)}

\* soonestCooldownLocked: nothing unless the whole pool is cooling.
Soonest(st, p, now) ==
    IF Healthy(st, p, now) # {} THEN {}
    ELSE {m \in PoolOf(st, p) : \A o \in PoolOf(st, p) : st.cool[m] <= st.cool[o]}

-----------------------------------------------------------------------------
(* Writes of bindings.  bindingsCount is an unsigned mirror of the map.    *)

Touch(st, p, k, now) == [st EXCEPT !.bind[p][k].at = now]

Unbind(st, p, k) ==
    IF Bound(st, p, k)
    THEN [st EXCEPT !.bind[p][k] = NoBinding, !.count[p] = @ - 1]
    ELSE st

\* Variant for Bind: a rebind counts again.
BindCountsAgain(st, p, k, m, now) ==
    [st EXCEPT !.bind[p][k] = [m |-> m, at |-> now], !.count[p] = @ + 1]

Bind(st, p, k, m, now) ==
    [st EXCEPT !.bind[p][k] = [m |-> m, at |-> now],
               !.count[p] = IF Bound(st, p, k) THEN @ ELSE @ + 1]

Cool(st, m, now) == [st EXCEPT !.cool[m] = now + Cooldown]

-----------------------------------------------------------------------------
(* Critical sections.  An answer names the member, or NoMember for         *)
(* ErrNoMembers, and how it was found.                                     *)

Answer(st, m, how) == [st |-> st, m |-> m, how |-> how]

\* The full path of getOrSelect and of pickBackupMember: a valid binding is
\* refreshed, an invalid one dropped, a healthy member bound; with none
\* healthy the one that cools soonest is used once and not bound.  Only the
\* backup path returns before it looks at the binding of an empty pool.
FullPick(st, p, k, now) ==
    IF p = "backup" /\ PoolOf(st, p) = {} THEN {Answer(st, NoMember, "none")}
    ELSE IF Valid(st, p, k, now)
    THEN {Answer(Touch(st, p, k, now), st.bind[p][k].m, "sticky")}
    ELSE LET d == Unbind(st, p, k) IN
         IF Healthy(d, p, now) # {}
         THEN {Answer(IF k = NoKey THEN d ELSE Bind(d, p, k, m, now), m, "fresh") :
                   m \in Healthy(d, p, now)}
         ELSE IF PoolOf(d, p) = {} THEN {Answer(d, NoMember, "none")}
         ELSE {Answer(d, m, "soonest") : m \in Soonest(d, p, now)}

\* The write section of ExcludeAndReselect and ExcludeAndBackupReselect: the
\* member cools; a conversation that already moved to a healthy member stays
\* there; otherwise it is bound to a healthy member of the pool.
FullExclude(st, p, k, m, now) ==
    LET c == Cool(st, m, now)
        stays == Bound(c, p, k) /\ c.bind[p][k].m # m
                 /\ ~IsCooling(c, c.bind[p][k].m, now) /\ Exists(c, c.bind[p][k].m)
    IN IF stays THEN {Answer(c, c.bind[p][k].m, "healthy")}
       ELSE IF Healthy(c, p, now) # {}
       THEN {Answer(IF k = NoKey THEN c ELSE Bind(c, p, k, h, now), h, "healthy") :
                 h \in Healthy(c, p, now)}
       ELSE IF PoolOf(c, p) = {} THEN {Answer(c, NoMember, "none")}
       ELSE {Answer(c, h, "soonest") : h \in Soonest(c, p, now)}

\* Variant for Reconfigured: clear-all instead of the survivor filter.
ReconfiguredClearsAll(st, conf) == NewState(conf)

\* Variant for Reconfigured: the backup bindings are not filtered.
ReconfiguredKeepsBackup(st, conf) ==
    LET orphan(k) == Bound(st, "default", k) /\ st.bind["default"][k].m \notin DOMAIN conf IN
    [st EXCEPT !.conf = conf,
               !.bind["default"] = [k \in Keys |-> IF orphan(k) THEN NoBinding ELSE @[k]],
               !.count["default"] = @ - Cardinality({k \in Keys : orphan(k)})]

\* OnGroupChanged on an existing state: new pools, bindings of members that
\* left are dropped, everything else stays.
Reconfigured(st, conf) ==
    LET orphan(p, k) == Bound(st, p, k) /\ st.bind[p][k].m \notin DOMAIN conf IN
    [st EXCEPT !.conf = conf,
               !.bind = [p \in Pools |-> [k \in Keys |->
                            IF orphan(p, k) THEN NoBinding ELSE @[p][k]]],
               !.count = [p \in Pools |-> @[p] - Cardinality({k \in Keys : orphan(p, k)})]]

\* Variant for Swept: evicted bindings are not taken off the counts.
SweptUncounted(st, now) ==
    LET idle(p, k) == Bound(st, p, k) /\ Expired(st.bind[p][k], now) IN
    [st EXCEPT !.cool = [m \in Members |-> IF @[m] <= now THEN 0 ELSE @[m]],
               !.bind = [p \in Pools |-> [k \in Keys |->
                            IF idle(p, k) THEN NoBinding ELSE @[p][k]]]]

\* One group's part of sweepOnce.
Swept(st, now) ==
    LET idle(p, k) == Bound(st, p, k) /\ Expired(st.bind[p][k], now) IN
    [st EXCEPT !.cool = [m \in Members |-> IF @[m] <= now THEN 0 ELSE @[m]],
               !.bind = [p \in Pools |-> [k \in Keys |->
                            IF idle(p, k) THEN NoBinding ELSE @[p][k]]],
               !.count = [p \in Pools |-> @[p] - Cardinality({k \in Keys : idle(p, k)})]]

=============================================================================
