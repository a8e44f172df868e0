---------------------------- MODULE StickyTable ----------------------------
(***************************************************************************)
(* What the group engine promises about affinity, without its locks: a     *)
(* table of conversations per pool.  A conversation is bound to a member   *)
(* of that pool that was healthy at a time some call read; it leaves that  *)
(* member only when the member cools, the conversation idled, or the       *)
(* member left the group.                                                  *)
(***************************************************************************)
EXTENDS GroupState

VARIABLES conf, home, cool, clock
tvars == <<conf, home, cool, clock>>

NoConf == <<>>

TInit ==
    /\ conf \in Configs \cup {NoConf}
    /\ home = [p \in Pools |-> [k \in Keys |-> NoBinding]]
    /\ cool = [m \in Members |-> 0]
    /\ clock = 1

\* The reasons a conversation may leave its member.
MayLeave(p, k) ==
    \/ home[p][k] = NoBinding
    \/ cool[home[p][k].m] # 0
    \/ clock - home[p][k].at > Ttl

TBind(p, k) ==
    /\ MayLeave(p, k)
    /\ \E m \in Members, now \in 1..clock :
        /\ m \in DOMAIN conf /\ conf[m] = p /\ cool[m] <= now
        /\ home' = [home EXCEPT ![p][k] = [m |-> m, at |-> now]]
    /\ UNCHANGED <<conf, cool, clock>>

TLeave(p, k) ==
    /\ MayLeave(p, k)
    /\ home' = [home EXCEPT ![p][k] = NoBinding]
    /\ UNCHANGED <<conf, cool, clock>>

TTouch(p, k) ==
    /\ home[p][k] # NoBinding
    /\ \E now \in 1..clock : home' = [home EXCEPT ![p][k].at = now]
    /\ UNCHANGED <<conf, cool, clock>>

\* A failed member cools; a conversation that may leave its member, or was on
\* the failed one, may move to another member of the pool at once.
TExclude(m) ==
    /\ \E now \in 1..clock :
        /\ cool' = [cool EXCEPT ![m] = now + Cooldown]
        /\ \/ UNCHANGED home
           \/ \E p \in Pools, k \in Keys, o \in Members :
                /\ MayLeave(p, k) \/ home[p][k].m = m
                /\ o # m /\ o \in DOMAIN conf /\ conf[o] = p /\ cool[o] <= now
                /\ home' = [home EXCEPT ![p][k] = [m |-> o, at |-> now]]
    /\ conf # NoConf
    /\ UNCHANGED <<conf, clock>>

\* A change of the member list keeps every conversation whose member stays.
TConfigure(c) ==
    /\ conf' = c
    /\ IF conf = NoConf
       THEN UNCHANGED <<home, cool>>
       ELSE /\ home' = [p \in Pools |-> [k \in Keys |->
                            IF home[p][k].m \in DOMAIN c THEN home[p][k] ELSE NoBinding]]
            /\ UNCHANGED cool
    /\ UNCHANGED clock

TRemove ==
    /\ conf' = NoConf
    /\ home' = [p \in Pools |-> [k \in Keys |-> NoBinding]]
    /\ cool' = [m \in Members |-> 0]
    /\ UNCHANGED clock

\* The janitor removes what is over by now: rows of past cooldowns and idle
\* conversations.
TSweep ==
    /\ \E now \in 1..clock :
        /\ cool' = [m \in Members |-> IF cool[m] <= now THEN 0 ELSE cool[m]]
        /\ home' = [p \in Pools |-> [k \in Keys |->
                        IF now - home[p][k].at > Ttl THEN NoBinding ELSE home[p][k]]]
    /\ UNCHANGED <<conf, clock>>

TTick == clock' = clock + 1 /\ UNCHANGED <<conf, home, cool>>

TNext ==
    \/ \E p \in Pools, k \in Keys : TBind(p, k) \/ TLeave(p, k) \/ TTouch(p, k)
    \/ \E m \in Members : TExclude(m)
    \/ \E c \in Configs : TConfigure(c)
    \/ TRemove \/ TSweep \/ TTick

TSpec == TInit /\ [][TNext]_tvars
=============================================================================
