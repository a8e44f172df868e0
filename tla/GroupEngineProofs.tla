------------------------- MODULE GroupEngineProofs -------------------------
(***************************************************************************)
(* Proofs about the group engine, for any set of requests, members, keys   *)
(* and member lists and any durations.                                     *)
(*                                                                         *)
(* The critical sections are functions of a group's state, so most of the  *)
(* work is in lemmas about one state: what each write leaves (GroupOK),    *)
(* and in which of four ways a section moves the bindings.  A call adds    *)
(* what it knows at each point (CallOK).                                   *)
(*                                                                         *)
(* Routing uses the same lemmas: its calls are the engine's sections.  A   *)
(* request's rounds over a pool are counted against the members of the     *)
(* pool that cool (RoundsOK), so a loop that gives up has seen them all.   *)
(***************************************************************************)
EXTENDS Groups, TLAPS, FiniteSetTheorems

\* A group's state, with the mirrors as integers.
GState == [conf : Configs, bind : [Pools -> [Keys -> BindingType]],
           cool : [Members -> Nat], count : [Pools -> Int]]

BoundKeys(st, p) == {k \in Keys : Bound(st, p, k)}

\* The mirror of a pool counts its bindings, which are finitely many and name
\* configured members.
PoolOK(st, p) ==
    /\ IsFiniteSet(BoundKeys(st, p)) /\ st.count[p] = Cardinality(BoundKeys(st, p))
    /\ \A k \in BoundKeys(st, p) : Exists(st, st.bind[p][k].m)

GroupOK(st) == st \in GState /\ \A p \in Pools : PoolOK(st, p)

-----------------------------------------------------------------------------
(* The writes, field by field.                                             *)

BindMap == [Pools -> [Keys -> BindingType]]

\* One entry of the bindings.
SetEntry(st, p, k, b) == [st.bind EXCEPT ![p] = [st.bind[p] EXCEPT ![k] = b]]

\* Setting one entry leaves a table of bindings.
LEMMA EntryType ==
  ASSUME NEW st \in GState, NEW p \in Pools, NEW k \in Keys, NEW b \in BindingType
  PROVE  /\ SetEntry(st, p, k, b) \in BindMap
         /\ \A q \in Pools, j \in Keys :
               SetEntry(st, p, k, b)[q][j] = IF q = p /\ j = k THEN b ELSE st.bind[q][j]
  BY DEF GState, BindMap, SetEntry

\* The types of what a state holds.
LEMMA StateTypes ==
  ASSUME NEW st \in GState
  PROVE  /\ st.conf \in Configs /\ DOMAIN st.conf \subseteq Members /\ DOMAIN st.conf # {}
         /\ st.bind \in BindMap /\ st.cool \in [Members -> Nat] /\ st.count \in [Pools -> Int]
         /\ \A p \in Pools, k \in Keys : st.bind[p][k] \in BindingType
         /\ NoBinding \in BindingType /\ NoKey \notin Keys /\ NoMember \notin Members
         /\ \A m \in Members, n \in Nat : [m |-> m, at |-> n] \in BindingType
                                         /\ [m |-> m, at |-> n] # NoBinding
  <1>1. /\ st.conf \in Configs /\ st.bind \in BindMap /\ st.cool \in [Members -> Nat]
        /\ st.count \in [Pools -> Int]
    BY DEF GState, BindMap
  <1>2. DOMAIN st.conf \subseteq Members /\ DOMAIN st.conf # {} /\ NoKey \notin Keys /\ NoMember \notin Members
    BY <1>1, GroupAssumption
  <1>3. \A p \in Pools, k \in Keys : st.bind[p][k] \in BindingType  BY <1>1 DEF BindMap
  <1>4. /\ NoBinding \in BindingType
        /\ \A m \in Members, n \in Nat : [m |-> m, at |-> n] \in BindingType
                                        /\ [m |-> m, at |-> n] # NoBinding
    BY <1>2 DEF BindingType, NoBinding
  <1>5. QED  BY <1>1, <1>2, <1>3, <1>4

\* A touch renews one entry and changes nothing else.
LEMMA TouchFields ==
  ASSUME NEW st \in GState, NEW p \in Pools, NEW k \in Keys, NEW now \in Nat
  PROVE  LET t == Touch(st, p, k, now) IN
         /\ t \in GState /\ t.conf = st.conf /\ t.cool = st.cool /\ t.count = st.count
         /\ t.bind = SetEntry(st, p, k, [m |-> st.bind[p][k].m, at |-> now])
  <1> DEFINE b == [m |-> st.bind[p][k].m, at |-> now]
             t == [st EXCEPT !.bind = SetEntry(st, p, k, b)]
  <1>1. st.bind[p][k] \in BindingType  BY StateTypes
  <1>2. [st.bind[p][k] EXCEPT !.at = now] = b /\ b \in BindingType  BY <1>1 DEF BindingType
  <1>3. Touch(st, p, k, now) = [st EXCEPT !.bind = SetEntry(st, p, k, [st.bind[p][k] EXCEPT !.at = now])]
    BY DEF Touch, GState, SetEntry
  <1>4. Touch(st, p, k, now) = t  BY <1>2, <1>3, Zenon
  <1>5. SetEntry(st, p, k, b) \in BindMap  BY <1>2, EntryType
  <1>6. /\ t \in GState /\ t.bind = SetEntry(st, p, k, b)
        /\ t.conf = st.conf /\ t.cool = st.cool /\ t.count = st.count
    BY <1>5 DEF GState, BindMap
  <1>7. QED  BY <1>4, <1>6, Zenon

\* A binding sets one entry, and counts it when the key had none.
LEMMA BindFields ==
  ASSUME NEW st \in GState, NEW p \in Pools, NEW k \in Keys, NEW m \in Members, NEW now \in Nat
  PROVE  LET t == Bind(st, p, k, m, now) IN
         /\ t \in GState /\ t.conf = st.conf /\ t.cool = st.cool
         /\ t.count = [st.count EXCEPT ![p] = IF Bound(st, p, k) THEN st.count[p] ELSE st.count[p] + 1]
         /\ t.bind = SetEntry(st, p, k, [m |-> m, at |-> now])
  <1> DEFINE b == [m |-> m, at |-> now]
             B == SetEntry(st, p, k, b)
             N == [st.count EXCEPT ![p] = IF Bound(st, p, k) THEN st.count[p] ELSE st.count[p] + 1]
             u == [st EXCEPT !.bind = B]
  <1>1. Bind(st, p, k, m, now) = [u EXCEPT !.count = N]
    BY DEF Bind, GState, SetEntry
  <1>2. b \in BindingType  BY StateTypes
  <1>3. B \in BindMap  BY <1>2, EntryType
  <1>4. N \in [Pools -> Int]  BY StateTypes
  <1> HIDE DEF B, N
  <1>5. /\ u \in GState /\ u.bind = B /\ u.conf = st.conf /\ u.cool = st.cool
    BY <1>3 DEF GState, BindMap
  <1> HIDE DEF u
  <1>6. LET t == [u EXCEPT !.count = N] IN
        /\ t \in GState /\ t.count = N /\ t.conf = u.conf /\ t.cool = u.cool /\ t.bind = u.bind
    BY <1>4, <1>5 DEF GState
  <1>7. QED  BY <1>1, <1>5, <1>6, Zenon DEF B, N

\* Dropping a binding clears one entry and counts it out.
LEMMA UnbindFields ==
  ASSUME NEW st \in GState, NEW p \in Pools, NEW k \in Keys, Bound(st, p, k)
  PROVE  LET t == Unbind(st, p, k) IN
         /\ t \in GState /\ t.conf = st.conf /\ t.cool = st.cool
         /\ t.count = [st.count EXCEPT ![p] = st.count[p] - 1]
         /\ t.bind = SetEntry(st, p, k, NoBinding)
  <1> DEFINE B == SetEntry(st, p, k, NoBinding)
             N == [st.count EXCEPT ![p] = st.count[p] - 1]
             u == [st EXCEPT !.bind = B]
  <1>1. Unbind(st, p, k) = [u EXCEPT !.count = N]
    <2>1. Unbind(st, p, k) = [st EXCEPT !.bind[p][k] = NoBinding, !.count[p] = st.count[p] - 1]
      BY DEF Unbind, GState
    <2>2. QED  BY <2>1 DEF GState, SetEntry
  <1>2. NoBinding \in BindingType  BY StateTypes
  <1>3. B \in BindMap  BY <1>2, EntryType
  <1>4. N \in [Pools -> Int]  BY StateTypes
  <1> HIDE DEF B, N
  <1>5. /\ u \in GState /\ u.bind = B /\ u.conf = st.conf /\ u.cool = st.cool
    BY <1>3 DEF GState, BindMap
  <1> HIDE DEF u
  <1>6. LET t == [u EXCEPT !.count = N] IN
        /\ t \in GState /\ t.count = N /\ t.conf = u.conf /\ t.cool = u.cool /\ t.bind = u.bind
    BY <1>4, <1>5 DEF GState
  <1>7. QED  BY <1>1, <1>5, <1>6, Zenon DEF B, N

\* A cooldown changes only the member it is about.
LEMMA CoolFields ==
  ASSUME NEW st \in GState, NEW m \in Members, NEW now \in Nat
  PROVE  LET t == Cool(st, m, now) IN
         /\ t \in GState /\ t.conf = st.conf /\ t.bind = st.bind /\ t.count = st.count
         /\ t.cool = [st.cool EXCEPT ![m] = now + Cooldown]
  <1> DEFINE C == [st.cool EXCEPT ![m] = now + Cooldown]
  <1>1. Cool(st, m, now) = [st EXCEPT !.cool = C]  BY DEF Cool, GState
  <1>2. C \in [Members -> Nat]  BY StateTypes, GroupAssumption
  <1> HIDE DEF C
  <1>3. LET t == [st EXCEPT !.cool = C] IN
        /\ t \in GState /\ t.cool = C /\ t.conf = st.conf /\ t.bind = st.bind /\ t.count = st.count
    BY <1>2 DEF GState
  <1>4. QED  BY <1>1, <1>3, Zenon DEF C

Orphans(st, p, c) == {k \in Keys : Bound(st, p, k) /\ st.bind[p][k].m \notin DOMAIN c}
IdleKeys(st, p, now) == {k \in Keys : Bound(st, p, k) /\ Expired(st.bind[p][k], now)}

\* A new configuration drops exactly the bindings of members that left.
LEMMA ReconfiguredFields ==
  ASSUME NEW st \in GState, NEW c \in Configs,
         \A p \in Pools : Cardinality(Orphans(st, p, c)) \in Int
  PROVE  LET t == Reconfigured(st, c) IN
         /\ t \in GState /\ t.conf = c /\ t.cool = st.cool
         /\ t.bind = [p \in Pools |-> [k \in Keys |->
                        IF k \in Orphans(st, p, c) THEN NoBinding ELSE st.bind[p][k]]]
         /\ t.count = [p \in Pools |-> st.count[p] - Cardinality(Orphans(st, p, c))]
  <1> DEFINE B == [p \in Pools |-> [k \in Keys |->
                        IF k \in Orphans(st, p, c) THEN NoBinding ELSE st.bind[p][k]]]
             N == [p \in Pools |-> st.count[p] - Cardinality(Orphans(st, p, c))]
             u == [st EXCEPT !.conf = c]
             v == [u EXCEPT !.bind = B]
  <1>1. Reconfigured(st, c) = [v EXCEPT !.count = N]
    <2>1. Reconfigured(st, c) =
            [[[st EXCEPT !.conf = c]
                  EXCEPT !.bind = [p \in Pools |-> [k \in Keys |->
                    IF Bound(st, p, k) /\ st.bind[p][k].m \notin DOMAIN c
                    THEN NoBinding ELSE st.bind[p][k]]]]
                  EXCEPT !.count = [p \in Pools |-> st.count[p] - Cardinality(
                            {k \in Keys : Bound(st, p, k) /\ st.bind[p][k].m \notin DOMAIN c})]]
      BY DEF Reconfigured, GState
    <2>2. B = [p \in Pools |-> [k \in Keys |->
                    IF Bound(st, p, k) /\ st.bind[p][k].m \notin DOMAIN c
                    THEN NoBinding ELSE st.bind[p][k]]]
      BY DEF Orphans
    <2>3. N = [p \in Pools |-> st.count[p] - Cardinality(
                            {k \in Keys : Bound(st, p, k) /\ st.bind[p][k].m \notin DOMAIN c})]
      BY DEF Orphans
    <2>4. QED  BY <2>1, <2>2, <2>3, Zenon
  <1>2. B \in BindMap
    <2>1. /\ NoBinding \in BindingType
          /\ \A p \in Pools, k \in Keys : st.bind[p][k] \in BindingType
      BY StateTypes
    <2>2. QED  BY <2>1 DEF BindMap
  <1>3. N \in [Pools -> Int]  BY StateTypes
  <1> HIDE DEF B, N
  <1>4. u \in GState /\ u.conf = c /\ u.cool = st.cool  BY DEF GState
  <1> HIDE DEF u
  <1>5. v \in GState /\ v.conf = u.conf /\ v.cool = u.cool /\ v.bind = B
    BY <1>2, <1>4 DEF GState, BindMap
  <1> HIDE DEF v
  <1>6. LET t == [v EXCEPT !.count = N] IN
        /\ t \in GState /\ t.count = N /\ t.conf = v.conf /\ t.cool = v.cool /\ t.bind = v.bind
    BY <1>3, <1>5 DEF GState
  <1>7. QED  BY <1>1, <1>4, <1>5, <1>6, Zenon DEF B, N

\* The sweeper drops exactly the idle bindings and the cooldowns that are over.
LEMMA SweptFields ==
  ASSUME NEW st \in GState, NEW now \in Nat,
         \A p \in Pools : Cardinality(IdleKeys(st, p, now)) \in Int
  PROVE  LET t == Swept(st, now) IN
         /\ t \in GState /\ t.conf = st.conf
         /\ t.cool = [m \in Members |-> IF st.cool[m] <= now THEN 0 ELSE st.cool[m]]
         /\ t.bind = [p \in Pools |-> [k \in Keys |->
                        IF k \in IdleKeys(st, p, now) THEN NoBinding ELSE st.bind[p][k]]]
         /\ t.count = [p \in Pools |-> st.count[p] - Cardinality(IdleKeys(st, p, now))]
  <1> DEFINE B == [p \in Pools |-> [k \in Keys |->
                        IF k \in IdleKeys(st, p, now) THEN NoBinding ELSE st.bind[p][k]]]
             N == [p \in Pools |-> st.count[p] - Cardinality(IdleKeys(st, p, now))]
             C == [m \in Members |-> IF st.cool[m] <= now THEN 0 ELSE st.cool[m]]
             u == [st EXCEPT !.cool = C]
             v == [u EXCEPT !.bind = B]
  <1>1. Swept(st, now) = [v EXCEPT !.count = N]
    <2>1. Swept(st, now) =
            [[[st EXCEPT !.cool = C]
                  EXCEPT !.bind = [p \in Pools |-> [k \in Keys |->
                    IF Bound(st, p, k) /\ Expired(st.bind[p][k], now)
                    THEN NoBinding ELSE st.bind[p][k]]]]
                  EXCEPT !.count = [p \in Pools |-> st.count[p] - Cardinality(
                            {k \in Keys : Bound(st, p, k) /\ Expired(st.bind[p][k], now)})]]
      BY DEF Swept, GState
    <2>2. B = [p \in Pools |-> [k \in Keys |->
                    IF Bound(st, p, k) /\ Expired(st.bind[p][k], now)
                    THEN NoBinding ELSE st.bind[p][k]]]
      BY DEF IdleKeys
    <2>3. N = [p \in Pools |-> st.count[p] - Cardinality(
                            {k \in Keys : Bound(st, p, k) /\ Expired(st.bind[p][k], now)})]
      BY DEF IdleKeys
    <2>4. QED  BY <2>1, <2>2, <2>3, Zenon
  <1>2. B \in BindMap
    <2>1. /\ NoBinding \in BindingType
          /\ \A p \in Pools, k \in Keys : st.bind[p][k] \in BindingType
      BY StateTypes
    <2>2. QED  BY <2>1 DEF BindMap
  <1>3. N \in [Pools -> Int] /\ C \in [Members -> Nat]  BY StateTypes
  <1> HIDE DEF B, N, C
  <1>4. u \in GState /\ u.conf = st.conf /\ u.cool = C  BY <1>3 DEF GState
  <1> HIDE DEF u
  <1>5. v \in GState /\ v.conf = u.conf /\ v.cool = u.cool /\ v.bind = B
    BY <1>2, <1>4 DEF GState, BindMap
  <1> HIDE DEF v
  <1>6. LET t == [v EXCEPT !.count = N] IN
        /\ t \in GState /\ t.count = N /\ t.conf = v.conf /\ t.cool = v.cool /\ t.bind = v.bind
    BY <1>3, <1>5 DEF GState
  <1>7. QED  BY <1>1, <1>4, <1>5, <1>6, Zenon DEF B, N, C

-----------------------------------------------------------------------------
(* The writes keep a state sound.                                          *)

\* Dropping a set of bindings and counting it down.
LEMMA DropKeeps ==
  ASSUME NEW st, GroupOK(st), NEW t \in GState, NEW p \in Pools,
         NEW D \in SUBSET BoundKeys(st, p),
         \A k \in Keys : t.bind[p][k] = IF k \in D THEN NoBinding ELSE st.bind[p][k],
         t.count[p] = st.count[p] - Cardinality(D),
         \A k \in BoundKeys(st, p) \ D : st.bind[p][k].m \in DOMAIN t.conf
  PROVE  PoolOK(t, p)
  <1>1. /\ IsFiniteSet(BoundKeys(st, p)) /\ st.count[p] = Cardinality(BoundKeys(st, p))
    BY DEF GroupOK, PoolOK
  <1>2. BoundKeys(t, p) = BoundKeys(st, p) \ D  BY DEF BoundKeys, Bound
  <1>3. IsFiniteSet(D) /\ Cardinality(D) \in Nat /\ Cardinality(BoundKeys(st, p)) \in Nat
    BY <1>1, FS_Subset, FS_CardinalityType
  <1>4. BoundKeys(st, p) \cap D = D  OBVIOUS
  <1>5. /\ IsFiniteSet(BoundKeys(st, p) \ D)
        /\ Cardinality(BoundKeys(st, p) \ D) = Cardinality(BoundKeys(st, p)) - Cardinality(BoundKeys(st, p) \cap D)
    BY <1>1, FS_Difference
  <1>6. Cardinality(BoundKeys(t, p)) = t.count[p]  BY <1>1, <1>2, <1>4, <1>5
  <1>7. \A k \in BoundKeys(t, p) : Exists(t, t.bind[p][k].m)
    BY <1>2 DEF Exists, BoundKeys
  <1>8. QED  BY <1>2, <1>5, <1>6, <1>7 DEF PoolOK

\* Writing a binding and counting it when it is new.
LEMMA WriteKeeps ==
  ASSUME NEW st, GroupOK(st), NEW t \in GState, NEW p \in Pools, NEW k \in Keys,
         NEW b \in BindingType, b # NoBinding, b.m \in DOMAIN t.conf, t.conf = st.conf,
         \A j \in Keys : t.bind[p][j] = IF j = k THEN b ELSE st.bind[p][j],
         t.count[p] = IF Bound(st, p, k) THEN st.count[p] ELSE st.count[p] + 1
  PROVE  PoolOK(t, p)
  <1>1. /\ IsFiniteSet(BoundKeys(st, p)) /\ st.count[p] = Cardinality(BoundKeys(st, p))
    BY DEF GroupOK, PoolOK
  <1>2. NoKey \notin Keys  BY GroupAssumption
  <1>3. BoundKeys(t, p) = BoundKeys(st, p) \cup {k}  BY <1>2 DEF BoundKeys, Bound
  <1>4. k \in BoundKeys(st, p) <=> Bound(st, p, k)  BY DEF BoundKeys
  <1>5. IsFiniteSet(BoundKeys(t, p)) /\ t.count[p] = Cardinality(BoundKeys(t, p))
    BY <1>1, <1>3, <1>4, FS_AddElement
  <1>6. \A j \in BoundKeys(t, p) : Exists(t, t.bind[p][j].m)
    BY <1>3 DEF Exists, BoundKeys, GroupOK, PoolOK
  <1>7. QED  BY <1>5, <1>6 DEF PoolOK

\* A pool that a write does not touch.
LEMMA OtherPool ==
  ASSUME NEW st, GroupOK(st), NEW t \in GState, NEW p \in Pools, t.conf = st.conf,
         \A k \in Keys : t.bind[p][k] = st.bind[p][k], t.count[p] = st.count[p]
  PROVE  PoolOK(t, p)
  <1>1. BoundKeys(t, p) = BoundKeys(st, p)  BY DEF BoundKeys, Bound
  <1>2. QED  BY <1>1 DEF PoolOK, GroupOK, Exists, BoundKeys

\* A state made for a configuration is consistent and empty.
LEMMA NewStateOK ==
  ASSUME NEW c \in Configs
  PROVE  /\ GroupOK(NewState(c)) /\ NewState(c).conf = c
         /\ NewState(c).bind = [p \in Pools |-> [k \in Keys |-> NoBinding]]
         /\ NewState(c).cool = [m \in Members |-> 0]
  <1> DEFINE st == NewState(c)
  <1>1. /\ st.conf = c /\ st.bind = [p \in Pools |-> [k \in Keys |-> NoBinding]]
        /\ st.cool = [m \in Members |-> 0] /\ st.count = [p \in Pools |-> 0]
    BY DEF NewState
  <1>2. NoBinding \in BindingType  BY DEF NoBinding, BindingType
  <1>3. st \in GState  BY <1>2 DEF NewState, GState
  <1> HIDE DEF st
  <1>4. \A p \in Pools : BoundKeys(st, p) = {}  BY <1>1 DEF BoundKeys, Bound
  <1>5. \A p \in Pools : PoolOK(st, p)  BY <1>1, <1>4, FS_EmptySet DEF PoolOK
  <1>6. QED  BY <1>1, <1>3, <1>5 DEF GroupOK, st

\* Touching a bound key keeps the state consistent.
LEMMA TouchOK ==
  ASSUME NEW st, GroupOK(st), NEW p \in Pools, NEW k \in Keys, NEW now \in Nat, Bound(st, p, k)
  PROVE  GroupOK(Touch(st, p, k, now))
  <1> DEFINE t == Touch(st, p, k, now)
             b == [m |-> st.bind[p][k].m, at |-> now]
  <1>1. st \in GState /\ k \in BoundKeys(st, p)  BY DEF GroupOK, BoundKeys
  <1>2. /\ t \in GState /\ t.conf = st.conf /\ t.count = st.count
        /\ t.bind = SetEntry(st, p, k, b)
    BY <1>1, TouchFields
  <1> HIDE DEF t
  <1>3. st.bind[p][k].m \in DOMAIN st.conf  BY <1>1 DEF GroupOK, PoolOK, Exists
  <1>4. b \in BindingType /\ b # NoBinding /\ b.m = st.bind[p][k].m
    BY <1>1, <1>3, StateTypes
  <1>5. \A q \in Pools, j \in Keys : t.bind[q][j] = IF q = p /\ j = k THEN b ELSE st.bind[q][j]
    BY <1>1, <1>2, <1>4, EntryType
  <1> HIDE DEF b
  <1>6. PoolOK(t, p)
    <2>1. \A j \in Keys : t.bind[p][j] = IF j = k THEN b ELSE st.bind[p][j]  BY <1>5
    <2>2. t.count[p] = IF Bound(st, p, k) THEN st.count[p] ELSE st.count[p] + 1  BY <1>2
    <2>3. b.m \in DOMAIN t.conf  BY <1>2, <1>3, <1>4
    <2>4. t \in GState /\ t.conf = st.conf /\ b \in BindingType /\ b # NoBinding
      BY <1>2, <1>4
    <2>5. QED  BY <2>1, <2>2, <2>3, <2>4, WriteKeeps
  <1>7. ASSUME NEW q \in Pools \ {p} PROVE PoolOK(t, q)
    <2>1. (\A j \in Keys : t.bind[q][j] = st.bind[q][j]) /\ t.count[q] = st.count[q]
      BY <1>2, <1>5
    <2>2. t \in GState /\ t.conf = st.conf  BY <1>2
    <2>3. QED  BY <2>1, <2>2, OtherPool
  <1>8. QED  BY <1>2, <1>6, <1>7 DEF GroupOK, t

\* Binding to a configured member keeps the state consistent: the mirror counts it.
LEMMA BindOK ==
  ASSUME NEW st, GroupOK(st), NEW p \in Pools, NEW k \in Keys, NEW now \in Nat,
         NEW m \in DOMAIN st.conf
  PROVE  LET t == Bind(st, p, k, m, now) IN
         /\ GroupOK(t) /\ t.conf = st.conf /\ t.cool = st.cool
         /\ t.bind = SetEntry(st, p, k, [m |-> m, at |-> now])
  <1> DEFINE t == Bind(st, p, k, m, now)
             b == [m |-> m, at |-> now]
  <1>1. st \in GState /\ m \in Members  BY StateTypes DEF GroupOK
  <1>2. /\ t \in GState /\ t.conf = st.conf /\ t.cool = st.cool /\ t.bind = SetEntry(st, p, k, b)
        /\ t.count = [st.count EXCEPT ![p] = IF Bound(st, p, k) THEN st.count[p] ELSE st.count[p] + 1]
    BY <1>1, BindFields
  <1> HIDE DEF t
  <1>3. b \in BindingType /\ b # NoBinding /\ b.m = m  BY <1>1, StateTypes
  <1>4. \A q \in Pools, j \in Keys : t.bind[q][j] = IF q = p /\ j = k THEN b ELSE st.bind[q][j]
    BY <1>1, <1>2, <1>3, EntryType
  <1> HIDE DEF b
  <1>5. /\ t.count[p] = IF Bound(st, p, k) THEN st.count[p] ELSE st.count[p] + 1
        /\ \A q \in Pools \ {p} : t.count[q] = st.count[q]
    BY <1>1, <1>2, StateTypes
  <1>6. PoolOK(t, p)
    <2>1. \A j \in Keys : t.bind[p][j] = IF j = k THEN b ELSE st.bind[p][j]  BY <1>4
    <2>2. b.m \in DOMAIN t.conf  BY <1>2, <1>3
    <2>3. t \in GState /\ t.conf = st.conf /\ b \in BindingType /\ b # NoBinding
      BY <1>2, <1>3
    <2>4. QED  BY <1>5, <2>1, <2>2, <2>3, WriteKeeps
  <1>7. ASSUME NEW q \in Pools \ {p} PROVE PoolOK(t, q)
    <2>1. (\A j \in Keys : t.bind[q][j] = st.bind[q][j]) /\ t.count[q] = st.count[q]
      BY <1>4, <1>5
    <2>2. t \in GState /\ t.conf = st.conf  BY <1>2
    <2>3. QED  BY <2>1, <2>2, OtherPool
  <1>8. QED  BY <1>2, <1>6, <1>7 DEF GroupOK, t, b

\* Dropping a binding keeps the state consistent, bound or not.
LEMMA UnbindOK ==
  ASSUME NEW st, GroupOK(st), NEW p \in Pools, NEW k \in Keys
  PROVE  LET t == Unbind(st, p, k) IN
         /\ GroupOK(t) /\ t.conf = st.conf /\ t.cool = st.cool
         /\ t.bind = SetEntry(st, p, k, NoBinding)
  <1> DEFINE t == Unbind(st, p, k)
  <1>1. st \in GState  BY DEF GroupOK
  <1>2. CASE Bound(st, p, k)
    <2>1. /\ t \in GState /\ t.conf = st.conf /\ t.cool = st.cool /\ t.bind = SetEntry(st, p, k, NoBinding)
          /\ t.count = [st.count EXCEPT ![p] = st.count[p] - 1]
      BY <1>1, <1>2, UnbindFields
    <2> HIDE DEF t
    <2>2. \A q \in Pools, j \in Keys :
            t.bind[q][j] = IF q = p /\ j = k THEN NoBinding ELSE st.bind[q][j]
      BY <1>1, <2>1, EntryType, StateTypes
    <2>3. t.count[p] = st.count[p] - 1 /\ \A q \in Pools \ {p} : t.count[q] = st.count[q]
      BY <1>1, <2>1, StateTypes
    <2>4. {k} \in SUBSET BoundKeys(st, p) /\ Cardinality({k}) = 1
      BY <1>2, FS_Singleton DEF BoundKeys
    <2>5. \A j \in BoundKeys(st, p) \ {k} : st.bind[p][j].m \in DOMAIN t.conf
      BY <2>1 DEF GroupOK, PoolOK, Exists
    <2>6. \A j \in Keys : t.bind[p][j] = IF j \in {k} THEN NoBinding ELSE st.bind[p][j]
      BY <2>2
    <2>7. t.count[p] = st.count[p] - Cardinality({k})  BY <2>3, <2>4
    <2>8. PoolOK(t, p)
      <3>1. t \in GState  BY <2>1
      <3>2. QED  BY <3>1, <2>4, <2>5, <2>6, <2>7, DropKeeps
    <2>9. ASSUME NEW q \in Pools \ {p} PROVE PoolOK(t, q)
      <3>1. (\A j \in Keys : t.bind[q][j] = st.bind[q][j]) /\ t.count[q] = st.count[q]
        BY <2>2, <2>3
      <3>2. t \in GState /\ t.conf = st.conf  BY <2>1
      <3>3. QED  BY <3>1, <3>2, OtherPool
    <2>10. QED  BY <2>1, <2>8, <2>9 DEF GroupOK, t
  <1>3. CASE ~Bound(st, p, k)
    <2>1. t = st  BY <1>3 DEF Unbind
    <2>2. st.bind[p][k] = NoBinding  BY <1>3, GroupAssumption DEF Bound
    <2>3. SetEntry(st, p, k, NoBinding) = st.bind
      BY <1>1, <2>2, StateTypes DEF SetEntry, BindMap
    <2>4. QED  BY <2>1, <2>3
  <1>4. QED  BY <1>2, <1>3

\* A cooldown keeps the state consistent.
LEMMA CoolOK ==
  ASSUME NEW st, GroupOK(st), NEW m \in Members, NEW now \in Nat
  PROVE  LET t == Cool(st, m, now) IN
         /\ GroupOK(t) /\ t.conf = st.conf /\ t.bind = st.bind
         /\ t.cool = [st.cool EXCEPT ![m] = now + Cooldown]
  <1> DEFINE t == Cool(st, m, now)
  <1>1. /\ t \in GState /\ t.conf = st.conf /\ t.bind = st.bind /\ t.count = st.count
        /\ t.cool = [st.cool EXCEPT ![m] = now + Cooldown]
    BY CoolFields DEF GroupOK
  <1> HIDE DEF t
  <1>2. \A p \in Pools : PoolOK(t, p)  BY <1>1, OtherPool
  <1>3. QED  BY <1>1, <1>2 DEF GroupOK, t

\* A new configuration keeps the state consistent: no binding names a member that left.
LEMMA ReconfiguredOK ==
  ASSUME NEW st, GroupOK(st), NEW c \in Configs
  PROVE  LET t == Reconfigured(st, c) IN
         /\ GroupOK(t) /\ t.conf = c /\ t.cool = st.cool
         /\ t.bind = [p \in Pools |-> [k \in Keys |->
                        IF k \in Orphans(st, p, c) THEN NoBinding ELSE st.bind[p][k]]]
  <1> DEFINE t == Reconfigured(st, c)
  <1>1. \A p \in Pools : Orphans(st, p, c) \in SUBSET BoundKeys(st, p)
    BY DEF Orphans, BoundKeys
  <1>2. \A p \in Pools : Cardinality(Orphans(st, p, c)) \in Int
    BY <1>1, FS_Subset, FS_CardinalityType DEF GroupOK, PoolOK
  <1>3. /\ t \in GState /\ t.conf = c /\ t.cool = st.cool
        /\ t.bind = [p \in Pools |-> [k \in Keys |->
                       IF k \in Orphans(st, p, c) THEN NoBinding ELSE st.bind[p][k]]]
        /\ t.count = [p \in Pools |-> st.count[p] - Cardinality(Orphans(st, p, c))]
    BY <1>2, ReconfiguredFields DEF GroupOK
  <1> HIDE DEF t
  <1>4. ASSUME NEW p \in Pools PROVE PoolOK(t, p)
    <2>1. \A k \in Keys : t.bind[p][k] = IF k \in Orphans(st, p, c) THEN NoBinding ELSE st.bind[p][k]
      BY <1>3
    <2>2. t.count[p] = st.count[p] - Cardinality(Orphans(st, p, c))  BY <1>3
    <2>3. \A k \in BoundKeys(st, p) \ Orphans(st, p, c) : st.bind[p][k].m \in DOMAIN t.conf
      BY <1>3 DEF BoundKeys, Orphans
    <2>4. QED  BY <1>1, <1>3, <2>1, <2>2, <2>3, DropKeeps
  <1>5. QED  BY <1>3, <1>4 DEF GroupOK, t

\* A sweep keeps the state consistent: the mirror loses what the table loses.
LEMMA SweptOK ==
  ASSUME NEW st, GroupOK(st), NEW now \in Nat
  PROVE  LET t == Swept(st, now) IN
         /\ GroupOK(t) /\ t.conf = st.conf
         /\ t.cool = [m \in Members |-> IF st.cool[m] <= now THEN 0 ELSE st.cool[m]]
         /\ t.bind = [p \in Pools |-> [k \in Keys |->
                        IF k \in IdleKeys(st, p, now) THEN NoBinding ELSE st.bind[p][k]]]
  <1> DEFINE t == Swept(st, now)
  <1>1. \A p \in Pools : IdleKeys(st, p, now) \in SUBSET BoundKeys(st, p)
    BY DEF IdleKeys, BoundKeys
  <1>2. \A p \in Pools : Cardinality(IdleKeys(st, p, now)) \in Int
    BY <1>1, FS_Subset, FS_CardinalityType DEF GroupOK, PoolOK
  <1>3. /\ t \in GState /\ t.conf = st.conf
        /\ t.cool = [m \in Members |-> IF st.cool[m] <= now THEN 0 ELSE st.cool[m]]
        /\ t.bind = [p \in Pools |-> [k \in Keys |->
                       IF k \in IdleKeys(st, p, now) THEN NoBinding ELSE st.bind[p][k]]]
        /\ t.count = [p \in Pools |-> st.count[p] - Cardinality(IdleKeys(st, p, now))]
    BY <1>2, SweptFields DEF GroupOK
  <1> HIDE DEF t
  <1>4. ASSUME NEW p \in Pools PROVE PoolOK(t, p)
    <2>1. \A k \in Keys : t.bind[p][k] = IF k \in IdleKeys(st, p, now) THEN NoBinding ELSE st.bind[p][k]
      BY <1>3
    <2>2. t.count[p] = st.count[p] - Cardinality(IdleKeys(st, p, now))  BY <1>3
    <2>3. \A k \in BoundKeys(st, p) \ IdleKeys(st, p, now) : st.bind[p][k].m \in DOMAIN t.conf
      BY <1>3 DEF GroupOK, PoolOK, Exists
    <2>4. QED  BY <1>1, <1>3, <2>1, <2>2, <2>3, DropKeeps
  <1>5. QED  BY <1>3, <1>4 DEF GroupOK, t

-----------------------------------------------------------------------------
(* The critical sections: what a call may do to the bindings.              *)

\* The reasons a conversation may leave its member.
MayGo(st, p, k, now) ==
    \/ st.bind[p][k] = NoBinding
    \/ st.cool[st.bind[p][k].m] # 0
    \/ now - st.bind[p][k].at > Ttl

Moves(st, t, now) ==
    \/ t.bind = st.bind
    \/ \E p \in Pools, k \in Keys :
        \/ /\ st.bind[p][k] # NoBinding
           /\ t.bind = SetEntry(st, p, k, [m |-> st.bind[p][k].m, at |-> now])
        \/ MayGo(st, p, k, now) /\ t.bind = SetEntry(st, p, k, NoBinding)
        \/ /\ MayGo(st, p, k, now)
           /\ \E m \in DOMAIN st.conf :
                /\ st.conf[m] = p /\ st.cool[m] <= now
                /\ t.bind = SetEntry(st, p, k, [m |-> m, at |-> now])

\* A section of a call that picks.
Picks(st, t, now) ==
    GroupOK(t) /\ t.conf = st.conf /\ t.cool = st.cool /\ Moves(st, t, now)

\* A section of a call that cools a member.
Excludes(st, t, m, now) ==
    /\ GroupOK(t) /\ t.conf = st.conf
    /\ t.cool = [st.cool EXCEPT ![m] = now + Cooldown]
    /\ \/ t.bind = st.bind
       \/ \E p \in Pools, k \in Keys, o \in DOMAIN st.conf :
            /\ MayGo(st, p, k, now) \/ st.bind[p][k].m = m
            /\ o # m /\ st.conf[o] = p /\ st.cool[o] <= now
            /\ t.bind = SetEntry(st, p, k, [m |-> o, at |-> now])

\* A section that leaves the state alone.
LEMMA NothingPicks ==
  ASSUME NEW st, GroupOK(st), NEW now
  PROVE  Picks(st, st, now)
  BY DEF Picks, Moves

\* A refresh of a binding (Touch) is a move.
LEMMA TouchPicks ==
  ASSUME NEW st, GroupOK(st), NEW p \in Pools, NEW k \in Keys, NEW now \in Nat, Bound(st, p, k)
  PROVE  Picks(st, Touch(st, p, k, now), now)
  <1> DEFINE t == Touch(st, p, k, now)
  <1>1. /\ t.conf = st.conf /\ t.cool = st.cool
        /\ t.bind = SetEntry(st, p, k, [m |-> st.bind[p][k].m, at |-> now])
    BY TouchFields DEF GroupOK
  <1>2. GroupOK(t)  BY TouchOK
  <1>3. st.bind[p][k] # NoBinding  BY DEF Bound
  <1> HIDE DEF t
  <1>4. Moves(st, t, now)  BY <1>1, <1>3 DEF Moves
  <1>5. QED  BY <1>1, <1>2, <1>4 DEF Picks, t

\* Dropping a binding whose conversation may go is a move.
LEMMA UnbindPicks ==
  ASSUME NEW st, GroupOK(st), NEW p \in Pools, NEW k \in Keys, NEW now \in Nat,
         MayGo(st, p, k, now)
  PROVE  Picks(st, Unbind(st, p, k), now)
  <1> DEFINE t == Unbind(st, p, k)
  <1>1. /\ GroupOK(t) /\ t.conf = st.conf /\ t.cool = st.cool
        /\ t.bind = SetEntry(st, p, k, NoBinding)
    BY UnbindOK
  <1> HIDE DEF t
  <1>2. Moves(st, t, now)  BY <1>1 DEF Moves
  <1>3. QED  BY <1>1, <1>2 DEF Picks, t

\* So is a fresh binding to a healthy member of the pool after the drop.
LEMMA RebindPicks ==
  ASSUME NEW st, GroupOK(st), NEW p \in Pools, NEW k \in Keys, NEW now \in Nat,
         MayGo(st, p, k, now), NEW m \in Healthy(st, p, now)
  PROVE  Picks(st, Bind(Unbind(st, p, k), p, k, m, now), now)
  <1> DEFINE d == Unbind(st, p, k)
             b == [m |-> m, at |-> now]
             t == Bind(d, p, k, m, now)
  <1>1. /\ GroupOK(d) /\ d.conf = st.conf /\ d.cool = st.cool
        /\ d.bind = SetEntry(st, p, k, NoBinding)
    BY UnbindOK
  <1>2. st \in GState /\ d \in GState  BY <1>1 DEF GroupOK
  <1> HIDE DEF d
  <1>3. m \in DOMAIN st.conf /\ st.conf[m] = p /\ m \in Members
    BY <1>2, StateTypes DEF Healthy, PoolOf
  <1>4. st.cool[m] <= now
    <2>1. ~(st.cool[m] > now) /\ st.cool[m] \in Nat
      BY <1>2, <1>3, StateTypes DEF Healthy, IsCooling
    <2>2. QED  BY <2>1
  <1>5. /\ GroupOK(t) /\ t.conf = d.conf /\ t.cool = d.cool
        /\ t.bind = SetEntry(d, p, k, b)
    <2>1. m \in DOMAIN d.conf  BY <1>1, <1>3
    <2>2. QED  BY <1>1, <2>1, BindOK
  <1> HIDE DEF t
  <1>6. SetEntry(d, p, k, b) = SetEntry(st, p, k, b)
    <2>1. st.bind \in [Pools -> [Keys -> BindingType]]  BY <1>2, StateTypes DEF BindMap
    <2>2. d.bind = [st.bind EXCEPT ![p] = [st.bind[p] EXCEPT ![k] = NoBinding]]
      BY <1>1 DEF SetEntry
    <2>3. [d.bind[p] EXCEPT ![k] = b] = [st.bind[p] EXCEPT ![k] = b]  BY <2>1, <2>2
    <2>4. ASSUME NEW X PROVE [d.bind EXCEPT ![p] = X] = [st.bind EXCEPT ![p] = X]
      BY <2>1, <2>2
    <2>5. QED  BY <2>3, <2>4, Zenon DEF SetEntry
  <1>7. Moves(st, t, now)  BY <1>3, <1>4, <1>5, <1>6 DEF Moves
  <1>8. QED  BY <1>1, <1>5, <1>7 DEF Picks, t, d

\* A binding that is not valid is of a conversation that may go: a member that
\* left the group is not among the reasons, because no binding names one.
LEMMA InvalidMayGo ==
  ASSUME NEW st, GroupOK(st), NEW p \in Pools, NEW k \in Keys, NEW now \in Nat,
         ~Valid(st, p, k, now)
  PROVE  MayGo(st, p, k, now)
  <1>1. SUFFICES ASSUME Bound(st, p, k) PROVE MayGo(st, p, k, now)
    BY GroupAssumption DEF Bound, MayGo
  <1>2. Exists(st, st.bind[p][k].m)  BY <1>1 DEF GroupOK, PoolOK, BoundKeys
  <1>3. CASE Expired(st.bind[p][k], now)  BY <1>3 DEF Expired, MayGo
  <1>4. CASE IsCooling(st, st.bind[p][k].m, now)
    BY <1>4 DEF IsCooling, MayGo
  <1>5. QED  BY <1>1, <1>2, <1>3, <1>4 DEF Valid

\* Dropping a binding leaves the healthy members.
LEMMA UnbindReads ==
  ASSUME NEW st, GroupOK(st), NEW p \in Pools, NEW k \in Keys \cup {NoKey}, NEW now \in Nat
  PROVE  LET d == Unbind(st, p, k) IN
         Healthy(d, p, now) = Healthy(st, p, now) /\ PoolOf(d, p) = PoolOf(st, p)
  <1> DEFINE d == Unbind(st, p, k)
  <1>1. d.conf = st.conf /\ d.cool = st.cool
    <2>1. CASE k \in Keys  BY <2>1, UnbindOK
    <2>2. CASE k = NoKey  BY <2>2 DEF Unbind, Bound
    <2>3. QED  BY <2>1, <2>2
  <1> HIDE DEF d
  <1>2. Healthy(d, p, now) = Healthy(st, p, now) /\ PoolOf(d, p) = PoolOf(st, p)
    BY <1>1 DEF Healthy, PoolOf, IsCooling
  <1>3. QED  BY <1>2 DEF d

\* The full path of getOrSelect and of pickBackupMember is a move, and returns
\* a member that does not cool unless its pool has no healthy one.
LEMMA FullPicks ==
  ASSUME NEW st, GroupOK(st), NEW p \in Pools, NEW k \in Keys \cup {NoKey}, NEW now \in Nat,
         NEW o \in FullPick(st, p, k, now)
  PROVE  /\ Picks(st, o.st, now) /\ o.m \in Members \cup {NoMember}
         /\ o.m \in Members => ~IsCooling(st, o.m, now) \/ Healthy(st, p, now) = {}
  <1> DEFINE d == Unbind(st, p, k)
  <1>1. st \in GState /\ DOMAIN st.conf \subseteq Members /\ NoKey \notin Keys
    BY StateTypes DEF GroupOK
  <1>2. PoolOf(st, p) \subseteq Members /\ Healthy(st, p, now) \subseteq Members
    BY <1>1 DEF PoolOf, Healthy
  <1>3. Healthy(d, p, now) = Healthy(st, p, now) /\ PoolOf(d, p) = PoolOf(st, p)
    BY UnbindReads
  <1>4. ~Valid(st, p, k, now) => Picks(st, d, now)
    <2>1. CASE k = NoKey  BY <2>1, NothingPicks DEF Unbind, Bound
    <2>2. CASE k \in Keys  BY <2>2, InvalidMayGo, UnbindPicks
    <2>3. QED  BY <2>1, <2>2
  <1>5. CASE o = Answer(st, NoMember, "none")
    <2>1. o.st = st /\ o.m = NoMember  BY <1>5 DEF Answer
    <2>2. QED  BY <2>1, NothingPicks, StateTypes DEF GroupOK
  <1>6. CASE Valid(st, p, k, now) /\ o = Answer(Touch(st, p, k, now), st.bind[p][k].m, "sticky")
    <2>1. o.st = Touch(st, p, k, now) /\ o.m = st.bind[p][k].m  BY <1>6 DEF Answer
    <2>2. k \in Keys /\ Bound(st, p, k)  BY <1>6 DEF Valid, Bound
    <2>3. Picks(st, o.st, now)  BY <2>1, <2>2, TouchPicks
    <2>4. o.m \in Members /\ ~IsCooling(st, o.m, now)  BY <1>1, <1>6, <2>1 DEF Valid, Exists
    <2>5. QED  BY <2>3, <2>4
  <1>7. ASSUME ~Valid(st, p, k, now), NEW m \in Healthy(d, p, now),
               o = Answer(IF k = NoKey THEN d ELSE Bind(d, p, k, m, now), m, "fresh")
        PROVE  Picks(st, o.st, now) /\ o.m \in Members /\ ~IsCooling(st, o.m, now)
    <2>1. o.st = (IF k = NoKey THEN d ELSE Bind(d, p, k, m, now)) /\ o.m = m
      BY <1>7 DEF Answer
    <2>2. m \in Healthy(st, p, now)  BY <1>3
    <2>3. CASE k = NoKey  BY <1>2, <1>4, <1>7, <2>1, <2>2, <2>3 DEF Healthy
    <2>4. CASE k # NoKey
      <3>1. k \in Keys  BY <2>4
      <3>2. MayGo(st, p, k, now)  BY <1>7, <3>1, InvalidMayGo
      <3>3. Picks(st, Bind(d, p, k, m, now), now)  BY <2>2, <3>1, <3>2, RebindPicks
      <3>4. QED  BY <1>2, <2>1, <2>2, <2>4, <3>3 DEF Healthy
    <2>5. QED  BY <2>3, <2>4
  <1>8. CASE ~Valid(st, p, k, now) /\ o = Answer(d, NoMember, "none")
    <2>1. o.st = d /\ o.m = NoMember  BY <1>8 DEF Answer
    <2>2. QED  BY <1>4, <1>8, <2>1, StateTypes DEF GroupOK
  <1>9. ASSUME ~Valid(st, p, k, now), Healthy(d, p, now) = {}, NEW m \in Soonest(d, p, now),
               o = Answer(d, m, "soonest")
        PROVE  Picks(st, o.st, now) /\ o.m \in Members /\ Healthy(st, p, now) = {}
    <2>1. o.st = d /\ o.m = m  BY <1>9 DEF Answer
    <2>2. m \in PoolOf(d, p)  BY DEF Soonest
    <2>3. QED  BY <1>2, <1>3, <1>4, <1>9, <2>1, <2>2
  <1>10. \/ o = Answer(st, NoMember, "none")
         \/ Valid(st, p, k, now) /\ o = Answer(Touch(st, p, k, now), st.bind[p][k].m, "sticky")
         \/ ~Valid(st, p, k, now) /\
              \/ \E m \in Healthy(d, p, now) :
                    o = Answer(IF k = NoKey THEN d ELSE Bind(d, p, k, m, now), m, "fresh")
              \/ o = Answer(d, NoMember, "none")
              \/ Healthy(d, p, now) = {} /\ \E m \in Soonest(d, p, now) : o = Answer(d, m, "soonest")
    BY Zenon DEF FullPick
  <1> HIDE DEF d
  <1>11. QED  BY <1>5, <1>6, <1>7, <1>8, <1>9, <1>10

\* Cooling a member alone.
LEMMA CoolExcludes ==
  ASSUME NEW st, GroupOK(st), NEW m \in Members, NEW now \in Nat
  PROVE  Excludes(st, Cool(st, m, now), m, now)
  <1> DEFINE t == Cool(st, m, now)
  <1>1. /\ GroupOK(t) /\ t.conf = st.conf /\ t.bind = st.bind
        /\ t.cool = [st.cool EXCEPT ![m] = now + Cooldown]
    BY CoolOK
  <1> HIDE DEF t
  <1>2. QED  BY <1>1 DEF Excludes, t

\* Cooling a member and binding the conversation to one that is healthy then.
LEMMA ReselectExcludes ==
  ASSUME NEW st, GroupOK(st), NEW p \in Pools, NEW k \in Keys, NEW m \in Members, NEW now \in Nat,
         NEW h \in Healthy(Cool(st, m, now), p, now),
         MayGo(st, p, k, now) \/ st.bind[p][k].m = m
  PROVE  Excludes(st, Bind(Cool(st, m, now), p, k, h, now), m, now)
  <1> DEFINE c == Cool(st, m, now)
             b == [m |-> h, at |-> now]
             t == Bind(c, p, k, h, now)
  <1>1. /\ GroupOK(c) /\ c.conf = st.conf /\ c.bind = st.bind
        /\ c.cool = [st.cool EXCEPT ![m] = now + Cooldown]
    BY CoolOK
  <1>2. st \in GState  BY DEF GroupOK
  <1>3. h \in DOMAIN c.conf /\ c.conf[h] = p /\ ~(c.cool[h] > now)
    BY DEF Healthy, PoolOf, IsCooling
  <1> HIDE DEF c
  <1>4. h \in DOMAIN st.conf /\ st.conf[h] = p /\ h \in Members  BY <1>1, <1>2, <1>3, StateTypes
  <1>5. h # m /\ st.cool[h] <= now
    <2>1. st.cool \in [Members -> Nat] /\ Cooldown \in Nat \ {0}
      BY <1>2, StateTypes, GroupAssumption
    <2>2. QED  BY <1>1, <1>3, <1>4, <2>1
  <1>6. GroupOK(t) /\ t.conf = c.conf /\ t.cool = c.cool /\ t.bind = SetEntry(c, p, k, b)
    BY <1>1, <1>3, BindOK
  <1>7. SetEntry(c, p, k, b) = SetEntry(st, p, k, b)  BY <1>1 DEF SetEntry
  <1> HIDE DEF t
  <1>8. t.bind = SetEntry(st, p, k, [m |-> h, at |-> now])  BY <1>6, <1>7
  <1>9. t.conf = st.conf /\ t.cool = [st.cool EXCEPT ![m] = now + Cooldown]  BY <1>1, <1>6
  <1>10. Excludes(st, t, m, now)  BY <1>4, <1>5, <1>6, <1>8, <1>9 DEF Excludes
  <1>11. QED  BY <1>10 DEF t, c

\* The write section of ExcludeAndReselect and of its backup twin.
LEMMA FullExcludes ==
  ASSUME NEW st, GroupOK(st), NEW p \in Pools, NEW k \in Keys \cup {NoKey}, NEW m \in Members,
         NEW now \in Nat, NEW o \in FullExclude(st, p, k, m, now)
  PROVE  Excludes(st, o.st, m, now) /\ o.m \in Members \cup {NoMember}
  <1> DEFINE c == Cool(st, m, now)
  <1>1. /\ GroupOK(c) /\ c.conf = st.conf /\ c.bind = st.bind
        /\ c.cool = [st.cool EXCEPT ![m] = now + Cooldown]
    <2>1. GroupOK(c) /\ c.conf = st.conf /\ c.bind = st.bind  BY CoolOK
    <2>2. st \in GState  BY DEF GroupOK
    <2>3. c.cool = [st.cool EXCEPT ![m] = now + Cooldown]  BY <2>2, CoolFields
    <2>4. QED  BY <2>1, <2>3
  <1> DEFINE stays == Bound(c, p, k) /\ c.bind[p][k].m # m
                      /\ ~IsCooling(c, c.bind[p][k].m, now) /\ Exists(c, c.bind[p][k].m)
  <1>2. /\ st \in GState /\ DOMAIN c.conf \subseteq Members /\ NoKey \notin Keys
        /\ st.cool \in [Members -> Nat]
    BY <1>1, StateTypes DEF GroupOK
  <1>3. PoolOf(c, p) \subseteq Members /\ Healthy(c, p, now) \subseteq Members
        /\ Soonest(c, p, now) \subseteq Members
    BY <1>2 DEF PoolOf, Healthy, Soonest
  <1>4. Excludes(st, c, m, now)  BY CoolExcludes
  <1>5. CASE stays /\ o = Answer(c, c.bind[p][k].m, "healthy")
    <2>1. o.st = c /\ o.m = c.bind[p][k].m  BY <1>5 DEF Answer
    <2>2. QED  BY <1>2, <1>4, <1>5, <2>1 DEF Exists
  <1>6. ASSUME ~stays, NEW h \in Healthy(c, p, now),
               o = Answer(IF k = NoKey THEN c ELSE Bind(c, p, k, h, now), h, "healthy")
        PROVE  Excludes(st, o.st, m, now) /\ o.m \in Members
    <2>1. o.st = (IF k = NoKey THEN c ELSE Bind(c, p, k, h, now)) /\ o.m = h
      BY <1>6 DEF Answer
    <2>2. CASE k = NoKey  BY <1>3, <1>4, <2>1, <2>2
    <2>3. CASE k # NoKey
      <3>1. k \in Keys  BY <2>3
      <3>2. MayGo(st, p, k, now) \/ st.bind[p][k].m = m
        <4>1. SUFFICES ASSUME Bound(st, p, k), st.bind[p][k].m # m PROVE MayGo(st, p, k, now)
          BY <2>3 DEF Bound, MayGo
        <4>2. Exists(st, st.bind[p][k].m)  BY <3>1, <4>1 DEF GroupOK, PoolOK, BoundKeys
        <4>3. Bound(c, p, k) /\ Exists(c, c.bind[p][k].m)  BY <1>1, <4>1, <4>2 DEF Bound, Exists
        <4>4. IsCooling(c, c.bind[p][k].m, now)  BY <1>1, <1>6, <4>1, <4>3
        <4>5. st.bind[p][k].m \in Members  BY <1>1, <1>2, <4>2 DEF Exists
        <4>6. st.cool[st.bind[p][k].m] > now  BY <1>1, <1>2, <4>1, <4>4, <4>5 DEF IsCooling
        <4>7. QED  BY <4>6 DEF MayGo
      <3>3. Excludes(st, Bind(c, p, k, h, now), m, now)  BY <3>1, <3>2, ReselectExcludes
      <3>4. QED  BY <1>3, <2>1, <2>3, <3>3
    <2>4. QED  BY <2>2, <2>3
  <1>7. CASE o = Answer(c, NoMember, "none")
    <2>1. o.st = c /\ o.m = NoMember  BY <1>7 DEF Answer
    <2>2. QED  BY <1>4, <2>1
  <1>8. ASSUME NEW h \in Soonest(c, p, now), o = Answer(c, h, "soonest")
        PROVE  Excludes(st, o.st, m, now) /\ o.m \in Members
    <2>1. o.st = c /\ o.m = h  BY <1>8 DEF Answer
    <2>2. QED  BY <1>3, <1>4, <2>1
  <1>9. \/ stays /\ o = Answer(c, c.bind[p][k].m, "healthy")
        \/ ~stays /\ \E h \in Healthy(c, p, now) :
                o = Answer(IF k = NoKey THEN c ELSE Bind(c, p, k, h, now), h, "healthy")
        \/ o = Answer(c, NoMember, "none")
        \/ \E h \in Soonest(c, p, now) : o = Answer(c, h, "soonest")
    BY Zenon DEF FullExclude
  <1> HIDE DEF c, stays
  <1>10. QED  BY <1>5, <1>6, <1>7, <1>8, <1>9

-----------------------------------------------------------------------------
(* The inductive invariant: every state sound, every call knows its place. *)

PCs == {"idle", "lookup", "count", "single", "probe", "confirm", "full", "fast", "exSingle", "exFull"}

CallType == [pc : PCs, op : {"get", "exclude"}, pool : Pools, key : Keys \cup {NoKey},
             m : Members \cup {NoMember}, now : Nat, s : Nat]

\* A call in progress read the clock before; it holds a state once it looked
\* one up; each path was entered with the arguments it relies on.
CallOK(c, n, time) ==
    /\ c \in CallType /\ c.s \in 0..n
    /\ c.pc # "idle" => c.now \in 1..time
    /\ c.pc \notin {"idle", "lookup"} => c.s \in 1..n
    /\ c.pc # "idle" /\ c.op = "exclude" => c.m \in Members
    /\ c.pc \in {"single", "probe", "confirm", "full", "fast"} => c.op = "get"
    /\ c.pc \in {"exSingle", "exFull"} => c.op = "exclude"
    /\ c.pc \in {"probe", "confirm"} => c.key \in Keys
    /\ c.pc \in {"single", "probe", "confirm"} => c.pool = "default"
    /\ c.pc = "fast" => c.pool = "backup"
    /\ c.pc \in {"confirm", "fast"} => c.m \in Members

StatesOK == states \in Seq(GState) /\ \A i \in 1..Len(states) : GroupOK(states[i])

IndInv ==
    /\ StatesOK
    /\ calls \in [Procs -> CallType] /\ \A p \in Procs : CallOK(calls[p], Len(states), clock)
    /\ inc \in 0..Len(states) /\ clock \in Nat \ {0} /\ stopped \in BOOLEAN

\* What a critical section may do to a state, at a time a call read.
Section(st, t) ==
    \E now \in 1..clock : Picks(st, t, now) \/ \E m \in Members : Excludes(st, t, m, now)

\* A step of a call: it moves its own record, and at most one state by one
\* section; what getOrSelect returns is healthy, or the exception.
AnswerOK(p) ==
    \A m \in Members :
        Answers(p, m) /\ calls[p].op = "get" /\ calls[p].pool = "default"
        => \/ ~IsCooling(Cur(p), m, calls[p].now)
           \/ Healthy(Cur(p), "default", calls[p].now) = {}
           \/ calls[p].pc = "single"

StatesStep ==
    \/ states' = states
    \/ \E s \in 1..Len(states) :
        states' = [states EXCEPT ![s] = states'[s]] /\ Section(states[s], states'[s])

Effect(p) ==
    /\ calls' \in [Procs -> CallType] /\ \A q \in Procs \ {p} : calls'[q] = calls[q]
    /\ CallOK(calls'[p], Len(states), clock)
    /\ StatesStep /\ EngineRest /\ AnswerOK(p)

\* The answer record, and the records of a call that goes on.
LEMMA ReturnCall ==
  ASSUME NEW m \in Members \cup {NoMember}, NEW n \in Nat, NEW time
  PROVE  LET r == [Idle EXCEPT !.m = m] IN
         r \in CallType /\ r.pc = "idle" /\ r.m = m /\ CallOK(r, n, time)
  <1> DEFINE r == [Idle EXCEPT !.m = m]
  <1>1. r = [pc |-> "idle", op |-> "get", pool |-> "default", key |-> NoKey, m |-> m, now |-> 0, s |-> 0]
    BY DEF Idle
  <1>2. r \in CallType /\ r.pc = "idle" /\ r.m = m /\ r.s = 0
    BY <1>1 DEF CallType, PCs, Pools
  <1> HIDE DEF r
  <1>3. CallOK(r, n, time)  BY <1>2 DEF CallOK
  <1>4. QED  BY <1>2, <1>3 DEF r

\* A call that goes on keeps what it knows.
LEMMA GotoCall ==
  ASSUME NEW c \in CallType, NEW x \in PCs
  PROVE  LET r == [c EXCEPT !.pc = x] IN
         /\ r \in CallType /\ r.pc = x /\ r.op = c.op /\ r.pool = c.pool /\ r.key = c.key
         /\ r.m = c.m /\ r.now = c.now /\ r.s = c.s
  BY DEF CallType

\* Writing a call's record.
LEMMA CallWrite ==
  ASSUME calls \in [Procs -> CallType], NEW p \in Procs, NEW r \in CallType,
         calls' = [calls EXCEPT ![p] = r]
  PROVE  /\ calls' \in [Procs -> CallType] /\ calls'[p] = r
         /\ \A q \in Procs \ {p} : calls'[q] = calls[q]
  OBVIOUS

\* A step that goes on without touching a state.
LEMMA GoesOn ==
  ASSUME IndInv, NEW p \in Procs, NEW r \in CallType, r.pc # "idle",
         CallOK(r, Len(states), clock), calls' = [calls EXCEPT ![p] = r],
         StatesStep, EngineRest
  PROVE  Effect(p)
  <1>1. /\ calls' \in [Procs -> CallType] /\ calls'[p] = r
        /\ \A q \in Procs \ {p} : calls'[q] = calls[q]
    BY CallWrite DEF IndInv
  <1>2. AnswerOK(p)  BY <1>1 DEF AnswerOK, Answers
  <1>3. QED  BY <1>1, <1>2 DEF Effect

\* A step that answers with m.
LEMMA Returns ==
  ASSUME IndInv, NEW p \in Procs, NEW m \in Members \cup {NoMember}, Return(p, m),
         StatesStep, EngineRest,
         m \in Members /\ calls[p].op = "get" /\ calls[p].pool = "default"
         => \/ ~IsCooling(Cur(p), m, calls[p].now)
            \/ Healthy(Cur(p), "default", calls[p].now) = {}
            \/ calls[p].pc = "single"
  PROVE  Effect(p)
  <1> DEFINE r == [Idle EXCEPT !.m = m]
  <1>1. Len(states) \in Nat  BY DEF IndInv, StatesOK
  <1>2. r \in CallType /\ r.pc = "idle" /\ r.m = m /\ CallOK(r, Len(states), clock)
    BY <1>1, ReturnCall
  <1>3. calls' = [calls EXCEPT ![p] = r]  BY DEF Return
  <1> HIDE DEF r
  <1>4. /\ calls' \in [Procs -> CallType] /\ calls'[p] = r
        /\ \A q \in Procs \ {p} : calls'[q] = calls[q]
    BY <1>2, <1>3, CallWrite DEF IndInv
  <1>5. AnswerOK(p)  BY <1>2, <1>4 DEF AnswerOK, Answers
  <1>6. QED  BY <1>2, <1>4, <1>5 DEF Effect

\* A step that goes to x with the rest of its record as it was.
LEMMA GoesTo ==
  ASSUME IndInv, NEW p \in Procs, NEW x \in PCs \ {"idle"}, Goto(p, x),
         StatesStep, EngineRest, CallOK([calls[p] EXCEPT !.pc = x], Len(states), clock)
  PROVE  Effect(p)
  <1> DEFINE r == [calls[p] EXCEPT !.pc = x]
  <1>1. calls \in [Procs -> CallType] /\ calls[p] \in CallType  BY DEF IndInv
  <1>2. calls' = [calls EXCEPT ![p] = r]  BY <1>1 DEF Goto
  <1>3. r \in CallType /\ r.pc = x  BY <1>1, GotoCall
  <1> HIDE DEF r
  <1>4. CallOK(r, Len(states), clock)  BY DEF r
  <1>5. QED  BY <1>2, <1>3, <1>4, GoesOn

\* What a call past its lookup holds.
LEMMA Held ==
  ASSUME IndInv, NEW p \in Procs, calls[p].pc \notin {"idle", "lookup"}
  PROVE  /\ calls[p] \in CallType /\ CallOK(calls[p], Len(states), clock)
         /\ calls[p].s \in 1..Len(states) /\ GroupOK(Cur(p)) /\ Cur(p) \in GState
         /\ calls[p].now \in 1..clock /\ calls[p].now \in Nat /\ clock \in Nat \ {0}
         /\ calls[p].pool \in Pools /\ calls[p].key \in Keys \cup {NoKey}
         /\ calls[p].m \in Members \cup {NoMember}
  <1>1. calls[p] \in CallType /\ CallOK(calls[p], Len(states), clock) /\ clock \in Nat \ {0}
    BY DEF IndInv
  <1>2. calls[p].s \in 1..Len(states) /\ calls[p].now \in 1..clock  BY <1>1 DEF CallOK
  <1>3. calls[p].now \in Nat  BY <1>1 DEF CallType
  <1>4. GroupOK(Cur(p))  BY <1>2 DEF IndInv, StatesOK, Cur
  <1>5. calls[p].pool \in Pools /\ calls[p].key \in Keys \cup {NoKey} /\ calls[p].m \in Members \cup {NoMember}
    BY <1>1 DEF CallType
  <1>6. QED  BY <1>1, <1>2, <1>3, <1>4, <1>5 DEF GroupOK

\* Writing one state by a section.
LEMMA SectionStep ==
  ASSUME IndInv, NEW s \in 1..Len(states), NEW t,
         states' = [states EXCEPT ![s] = t], Section(states[s], t)
  PROVE  StatesStep
  <1>1. states'[s] = t  BY DEF IndInv, StatesOK
  <1>2. QED  BY <1>1 DEF StatesStep

\* A call that moves on within the paths of one operation.
LEMMA MovesOn ==
  ASSUME NEW c \in CallType, NEW n, NEW time, CallOK(c, n, time), NEW x \in PCs,
         c.pc \notin {"idle", "lookup"}, x \notin {"idle", "lookup"},
         x \in {"single", "probe", "confirm", "full", "fast"} => c.op = "get",
         x \in {"exSingle", "exFull"} => c.op = "exclude",
         x \in {"probe", "confirm"} => c.key \in Keys,
         x \in {"single", "probe", "confirm"} => c.pool = "default",
         x = "fast" => c.pool = "backup",
         x \in {"confirm", "fast"} => c.m \in Members
  PROVE  CallOK([c EXCEPT !.pc = x], n, time)
  <1> DEFINE r == [c EXCEPT !.pc = x]
  <1>1. /\ r \in CallType /\ r.pc = x /\ r.op = c.op /\ r.pool = c.pool /\ r.key = c.key
        /\ r.m = c.m /\ r.now = c.now /\ r.s = c.s
    BY GotoCall
  <1> HIDE DEF r
  <1>2. CallOK(r, n, time)  BY <1>1 DEF CallOK
  <1>3. QED  BY <1>2 DEF r

StartRecord(op, pool, k, m, now) ==
    [Idle EXCEPT !.pc = "lookup", !.op = op, !.pool = pool, !.key = k, !.m = m, !.now = now]

Started(r, op, pool, k, m, now) ==
    /\ r \in CallType /\ r.pc = "lookup" /\ r.op = op /\ r.pool = pool /\ r.key = k
    /\ r.m = m /\ r.now = now /\ r.s = 0

\* The record of a call that starts.
LEMMA StartCall ==
  ASSUME NEW op \in {"get", "exclude"}, NEW pool \in Pools, NEW k \in Keys \cup {NoKey},
         NEW m \in Members \cup {NoMember}, NEW now \in Nat
  PROVE  Started(StartRecord(op, pool, k, m, now), op, pool, k, m, now)
  <1> DEFINE r == [Idle EXCEPT !.pc = "lookup", !.op = op, !.pool = pool,
                               !.key = k, !.m = m, !.now = now]
             q == [pc |-> "lookup", op |-> op, pool |-> pool, key |-> k, m |-> m, now |-> now, s |-> 0]
  <1>1. r = q
    <2> DEFINE a == [pc |-> "lookup", op |-> "get", pool |-> "default", key |-> NoKey,
                     m |-> NoMember, now |-> 0, s |-> 0]
               b == [pc |-> "lookup", op |-> op, pool |-> "default", key |-> NoKey,
                     m |-> NoMember, now |-> 0, s |-> 0]
               c == [pc |-> "lookup", op |-> op, pool |-> pool, key |-> NoKey,
                     m |-> NoMember, now |-> 0, s |-> 0]
               d == [pc |-> "lookup", op |-> op, pool |-> pool, key |-> k,
                     m |-> NoMember, now |-> 0, s |-> 0]
               e == [pc |-> "lookup", op |-> op, pool |-> pool, key |-> k,
                     m |-> m, now |-> 0, s |-> 0]
    <2>1. r = [[[[[[Idle EXCEPT !.pc = "lookup"] EXCEPT !.op = op] EXCEPT !.pool = pool]
                       EXCEPT !.key = k] EXCEPT !.m = m] EXCEPT !.now = now]
      BY DEF Idle
    <2>2. [Idle EXCEPT !.pc = "lookup"] = a  BY DEF Idle
    <2>3. [a EXCEPT !.op = op] = b  OBVIOUS
    <2>4. [b EXCEPT !.pool = pool] = c  OBVIOUS
    <2>5. [c EXCEPT !.key = k] = d  OBVIOUS
    <2>6. [d EXCEPT !.m = m] = e  OBVIOUS
    <2>7. [e EXCEPT !.now = now] = q  OBVIOUS
    <2> HIDE DEF r, a, b, c, d, e
    <2>8. QED  BY <2>1, <2>2, <2>3, <2>4, <2>5, <2>6, <2>7, Zenon
  <1>2. /\ q \in CallType /\ q.pc = "lookup" /\ q.op = op /\ q.pool = pool /\ q.key = k
        /\ q.m = m /\ q.now = now /\ q.s = 0
    BY DEF CallType, PCs
  <1>3. QED  BY <1>1, <1>2, Zenon DEF StartRecord, Started

\* A call enters and looks its state up.
LEMMA StartEffect ==
  ASSUME IndInv, NEW p \in Procs, NEW op \in {"get", "exclude"}, NEW pool \in Pools,
         NEW k \in Keys \cup {NoKey}, NEW m \in Members \cup {NoMember},
         op = "exclude" => m \in Members, Start(p, op, pool, k, m)
  PROVE  Effect(p)
  <1> DEFINE r == StartRecord(op, pool, k, m, clock)
  <1>1. clock \in Nat \ {0} /\ clock \in Nat /\ Len(states) \in Nat  BY DEF IndInv, StatesOK
  <1>2. Started(r, op, pool, k, m, clock)  BY <1>1, StartCall, Zenon
  <1>3. calls' = [calls EXCEPT ![p] = r] /\ StatesStep /\ EngineRest
    BY Zenon DEF Start, StatesStep, StartRecord
  <1> HIDE DEF r
  <1>4. CallOK(r, Len(states), clock)  BY <1>1, <1>2 DEF CallOK, Started
  <1>5. r \in CallType /\ r.pc # "idle"  BY <1>2 DEF Started
  <1>6. QED  BY <1>2, <1>3, <1>4, <1>5, GoesOn

\* The lookup of the group.
LEMMA LookupEffect ==
  ASSUME IndInv, NEW p \in Procs, Lookup(p)
  PROVE  Effect(p)
  <1>1. StatesStep /\ EngineRest /\ calls[p].pc = "lookup"  BY DEF Lookup, StatesStep
  <1>2. CASE inc = 0
    <2>1. Return(p, NoMember)  BY <1>2 DEF Lookup
    <2>2. NoMember \notin Members  BY GroupAssumption
    <2>3. QED  BY <1>1, <2>1, <2>2, Returns
  <1>3. CASE inc # 0
    <2> DEFINE c == calls[p]
               r == [[calls[p] EXCEPT !.s = inc] EXCEPT !.pc = "count"]
    <2>1. calls \in [Procs -> CallType] /\ c \in CallType /\ CallOK(c, Len(states), clock)
          /\ inc \in 0..Len(states) /\ Len(states) \in Nat
      BY DEF IndInv, StatesOK
    <2>2. calls' = [calls EXCEPT ![p] = r]  BY <1>3, <2>1 DEF Lookup
    <2>3. inc \in 1..Len(states) /\ inc \in Nat  BY <1>3, <2>1
    <2>4. /\ r \in CallType /\ r.pc = "count" /\ r.op = c.op /\ r.pool = c.pool /\ r.key = c.key
          /\ r.m = c.m /\ r.now = c.now /\ r.s = inc
      BY <2>1, <2>3 DEF CallType, PCs
    <2> HIDE DEF r
    <2>5. CallOK(r, Len(states), clock)  BY <1>1, <2>1, <2>3, <2>4 DEF CallOK
    <2>6. r.pc # "idle"  BY <2>4
    <2>7. QED  BY <1>1, <2>2, <2>4, <2>5, <2>6, GoesOn
  <1>4. QED  BY <1>2, <1>3

\* getOrSelect up to its write sections: no state is written.
LEMMA CountMembersEffect ==
  ASSUME IndInv, NEW p \in Procs, CountMembers(p)
  PROVE  Effect(p)
  <1> DEFINE x == IF Cardinality(DOMAIN Cur(p).conf) = 1 THEN "single" ELSE Probing(p)
  <1>1. /\ StatesStep /\ EngineRest /\ calls[p].pc = "count" /\ calls[p].op = "get"
        /\ calls[p].pool = "default" /\ Goto(p, x)
    BY DEF CountMembers, StatesStep
  <1>2. calls[p] \in CallType /\ CallOK(calls[p], Len(states), clock) /\ calls[p].key \in Keys \cup {NoKey}
    BY <1>1, Held
  <1>3. x \in {"single", "full", "probe"} /\ (x = "probe" => calls[p].key \in Keys)
    BY <1>2 DEF Probing
  <1> HIDE DEF x
  <1>4. x \in PCs \ {"idle"}  BY <1>3 DEF PCs
  <1>5. CallOK([calls[p] EXCEPT !.pc = x], Len(states), clock)  BY <1>1, <1>2, <1>3, <1>4, MovesOn
  <1>6. QED  BY <1>1, <1>4, <1>5, GoesTo

\* The answer of a group of one member.
LEMMA SingleMemberEffect ==
  ASSUME IndInv, NEW p \in Procs, SingleMember(p)
  PROVE  Effect(p)
  <1>1. StatesStep /\ EngineRest /\ calls[p].pc = "single"  BY DEF SingleMember, StatesStep
  <1>2. /\ calls[p] \in CallType /\ CallOK(calls[p], Len(states), clock)
        /\ calls[p].key \in Keys \cup {NoKey} /\ Cur(p) \in GState
    BY <1>1, Held
  <1>3. PICK m \in DOMAIN Cur(p).conf :
          IF Cur(p).conf[m] = "default" THEN Return(p, m) ELSE Goto(p, Probing(p))
    BY DEF SingleMember
  <1>4. m \in Members  BY <1>2, <1>3, StateTypes
  <1>5. CASE Return(p, m)  BY <1>1, <1>4, <1>5, Returns
  <1>6. CASE Goto(p, Probing(p))
    <2> DEFINE x == Probing(p)
    <2>1. x \in {"full", "probe"} /\ (x = "probe" => calls[p].key \in Keys)
      BY <1>2 DEF Probing
    <2>2. Goto(p, x)  BY <1>6
    <2> HIDE DEF x
    <2>3. x \in PCs \ {"idle"}  BY <2>1 DEF PCs
    <2>4. calls[p].op = "get" /\ calls[p].pool = "default"  BY <1>1, <1>2 DEF CallOK
    <2>5. CallOK([calls[p] EXCEPT !.pc = x], Len(states), clock)
      BY <1>1, <1>2, <2>1, <2>3, <2>4, MovesOn
    <2>6. QED  BY <1>1, <2>2, <2>3, <2>5, GoesTo
  <1>7. QED  BY <1>3, <1>5, <1>6

\* The probe under the read lock.
LEMMA ProbeEffect ==
  ASSUME IndInv, NEW p \in Procs, Probe(p)
  PROVE  Effect(p)
  <1> DEFINE c == calls[p]
  <1>1. StatesStep /\ EngineRest /\ c.pc = "probe"  BY DEF Probe, StatesStep
  <1>2. /\ c \in CallType /\ CallOK(c, Len(states), clock) /\ GroupOK(Cur(p)) /\ Cur(p) \in GState
    BY <1>1, Held
  <1>3. c.op = "get" /\ c.pool = "default" /\ c.key \in Keys  BY <1>1, <1>2 DEF CallOK
  <1>4. CASE Valid(Cur(p), "default", c.key, c.now)
    <2> DEFINE b == Cur(p).bind["default"][c.key].m
               d == [c EXCEPT !.pc = "confirm"]
               r == [d EXCEPT !.m = b]
    <2>1. b \in Members  BY <1>2, <1>4, StateTypes DEF Valid, Exists
    <2>2. calls \in [Procs -> CallType]  BY DEF IndInv
    <2>3. calls' = [calls EXCEPT ![p] = r]  BY <1>4, <2>2 DEF Probe
    <2> HIDE DEF b
    <2>4. /\ d \in CallType /\ d.pc = "confirm" /\ d.op = c.op /\ d.pool = c.pool /\ d.key = c.key
          /\ d.now = c.now /\ d.s = c.s
      BY <1>2, GotoCall DEF PCs
    <2> HIDE DEF d
    <2>5. /\ r \in CallType /\ r.pc = d.pc /\ r.op = d.op /\ r.pool = d.pool /\ r.key = d.key
          /\ r.m = b /\ r.now = d.now /\ r.s = d.s
      BY <2>1, <2>4 DEF CallType
    <2> HIDE DEF r
    <2>6. CallOK(r, Len(states), clock)  BY <1>1, <1>2, <1>3, <2>1, <2>4, <2>5 DEF CallOK
    <2>7. r.pc # "idle"  BY <2>4, <2>5
    <2>8. QED  BY <1>1, <2>3, <2>5, <2>6, <2>7, GoesOn
  <1>5. CASE ~Valid(Cur(p), "default", c.key, c.now)
    <2>1. Goto(p, "full")  BY <1>5 DEF Probe, Goto
    <2>2. "full" \in PCs \ {"idle"}  BY DEF PCs
    <2>3. CallOK([c EXCEPT !.pc = "full"], Len(states), clock)
      BY <1>1, <1>2, <1>3, <2>2, MovesOn
    <2>4. QED  BY <1>1, <2>1, <2>2, <2>3, GoesTo
  <1>6. QED  BY <1>4, <1>5

\* The write sections of getOrSelect.
LEMMA ConfirmEffect ==
  ASSUME IndInv, NEW p \in Procs, Confirm(p)
  PROVE  Effect(p)
  <1> DEFINE c == calls[p]
             b == Cur(p).bind["default"][c.key]
             same == Bound(Cur(p), "default", c.key) /\ b.m = c.m
                     /\ ~Expired(b, c.now) /\ ~IsCooling(Cur(p), b.m, c.now)
  <1>1. EngineRest /\ c.pc = "confirm"  BY DEF Confirm
  <1>2. /\ c \in CallType /\ CallOK(c, Len(states), clock) /\ GroupOK(Cur(p)) /\ c.s \in 1..Len(states)
        /\ c.now \in 1..clock /\ c.now \in Nat
    BY <1>1, Held
  <1>3. c.op = "get" /\ c.pool = "default" /\ c.key \in Keys /\ c.m \in Members
    BY <1>1, <1>2 DEF CallOK
  <1>4. CASE same
    <2> DEFINE t == Touch(Cur(p), "default", c.key, c.now)
    <2>1. Return(p, c.m) /\ states' = [states EXCEPT ![c.s] = t]
      BY <1>2, <1>4 DEF Confirm, Cur, IndInv, StatesOK
    <2>2. "default" \in Pools  BY DEF Pools
    <2>3. Picks(Cur(p), t, c.now)  BY <1>2, <1>3, <1>4, <2>2, TouchPicks
    <2> HIDE DEF t
    <2>4. Section(states[c.s], t)  BY <1>2, <2>3 DEF Section, Cur
    <2>5. StatesStep  BY <1>2, <2>1, <2>4, SectionStep
    <2>6. ~IsCooling(Cur(p), c.m, c.now)  BY <1>4
    <2>7. QED  BY <1>1, <1>3, <2>1, <2>5, <2>6, Returns
  <1>5. CASE ~same
    <2>1. Goto(p, "full") /\ StatesStep  BY <1>5 DEF Confirm, StatesStep
    <2>2. "full" \in PCs \ {"idle"}  BY DEF PCs
    <2>3. CallOK([c EXCEPT !.pc = "full"], Len(states), clock)
      BY <1>1, <1>2, <1>3, <2>2, MovesOn
    <2>4. QED  BY <1>1, <2>1, <2>2, <2>3, GoesTo
  <1>6. QED  BY <1>4, <1>5

\* The full path under the write lock.
LEMMA FullEffect ==
  ASSUME IndInv, NEW p \in Procs, Full(p)
  PROVE  Effect(p)
  <1> DEFINE c == calls[p]
  <1>1. c.pc = "full"  BY DEF Full
  <1>2. /\ c \in CallType /\ CallOK(c, Len(states), clock) /\ GroupOK(Cur(p)) /\ c.s \in 1..Len(states)
        /\ c.now \in 1..clock /\ c.now \in Nat /\ c.pool \in Pools /\ c.key \in Keys \cup {NoKey}
    BY <1>1, Held
  <1>3. PICK o \in FullPick(Cur(p), c.pool, c.key, c.now) :
          states' = [states EXCEPT ![c.s] = o.st] /\ Return(p, o.m) /\ EngineRest
    BY DEF Full, Take
  <1>4. /\ Picks(Cur(p), o.st, c.now) /\ o.m \in Members \cup {NoMember}
        /\ o.m \in Members => ~IsCooling(Cur(p), o.m, c.now) \/ Healthy(Cur(p), c.pool, c.now) = {}
    BY <1>2, FullPicks
  <1>5. Section(states[c.s], o.st)  BY <1>2, <1>4 DEF Section, Cur
  <1>6. StatesStep  BY <1>2, <1>3, <1>5, SectionStep
  <1>7. QED  BY <1>3, <1>4, <1>6, Returns

\* pickBackupMember: the snapshot and the fast path.
LEMMA CountBackupsEffect ==
  ASSUME IndInv, NEW p \in Procs, CountBackups(p)
  PROVE  Effect(p)
  <1> DEFINE c == calls[p]
             pool == PoolOf(Cur(p), "backup")
  <1>1. StatesStep /\ EngineRest /\ c.pc = "count" /\ c.op = "get" /\ c.pool = "backup"
    BY DEF CountBackups, StatesStep
  <1>2. /\ c \in CallType /\ CallOK(c, Len(states), clock) /\ Cur(p) \in GState
    BY <1>1, Held
  <1>3. pool \subseteq Members  BY <1>2, StateTypes DEF PoolOf
  <1>4. CASE Return(p, NoMember)
    <2>1. NoMember \notin Members  BY GroupAssumption
    <2>2. QED  BY <1>1, <1>4, <2>1, Returns
  <1>5. CASE pool # {} /\ calls' = [calls EXCEPT ![p].pc = "fast", ![p].m = CHOOSE m \in pool : TRUE]
    <2> DEFINE b == CHOOSE m \in pool : TRUE
               d == [c EXCEPT !.pc = "fast"]
               r == [d EXCEPT !.m = b]
    <2>1. b \in Members  BY <1>3, <1>5
    <2>2. calls \in [Procs -> CallType]  BY DEF IndInv
    <2> HIDE DEF b
    <2>3. calls' = [calls EXCEPT ![p].pc = "fast", ![p].m = b]  BY <1>5 DEF b
    <2>4. calls' = [calls EXCEPT ![p] = r]  BY <2>2, <2>3
    <2>5. /\ d \in CallType /\ d.pc = "fast" /\ d.op = c.op /\ d.pool = c.pool /\ d.key = c.key
          /\ d.now = c.now /\ d.s = c.s
      BY <1>2, GotoCall DEF PCs
    <2> HIDE DEF d
    <2>6. /\ r \in CallType /\ r.pc = d.pc /\ r.op = d.op /\ r.pool = d.pool /\ r.key = d.key
          /\ r.m = b /\ r.now = d.now /\ r.s = d.s
      BY <2>1, <2>5 DEF CallType
    <2> HIDE DEF r
    <2>7. CallOK(r, Len(states), clock)  BY <1>1, <1>2, <2>1, <2>5, <2>6 DEF CallOK
    <2>8. r.pc # "idle"  BY <2>5, <2>6
    <2>9. QED  BY <1>1, <2>4, <2>6, <2>7, <2>8, GoesOn
  <1>6. CASE Goto(p, "full")
    <2>1. "full" \in PCs \ {"idle"}  BY DEF PCs
    <2>2. CallOK([c EXCEPT !.pc = "full"], Len(states), clock)  BY <1>1, <1>2, <2>1, MovesOn
    <2>3. QED  BY <1>1, <1>6, <2>1, <2>2, GoesTo
  <1>7. QED  BY <1>4, <1>5, <1>6, Zenon DEF CountBackups

\* The fast path.
LEMMA FastEffect ==
  ASSUME IndInv, NEW p \in Procs, Fast(p)
  PROVE  Effect(p)
  <1> DEFINE c == calls[p]
             st == Cur(p)
             b == st.bind["backup"][c.key]
             d == Unbind(st, "backup", c.key)
             kept == Bound(st, "backup", c.key) /\ Exists(st, b.m) /\ ~Expired(b, c.now)
  <1>1. EngineRest /\ c.pc = "fast"  BY DEF Fast
  <1>2. /\ c \in CallType /\ CallOK(c, Len(states), clock) /\ GroupOK(st) /\ c.s \in 1..Len(states)
        /\ c.now \in 1..clock /\ c.now \in Nat /\ c.key \in Keys \cup {NoKey} /\ st \in GState
    BY <1>1, Held
  <1>3. c.op = "get" /\ c.pool = "backup" /\ c.m \in Members /\ "backup" \in Pools /\ c.pool # "default"
    BY <1>1, <1>2 DEF CallOK, Pools
  <1>4. ASSUME NEW t, states' = [states EXCEPT ![c.s] = t], Picks(st, t, c.now)
        PROVE  StatesStep
    <2>1. Section(states[c.s], t)  BY <1>2, <1>4 DEF Section, Cur
    <2>2. QED  BY <1>2, <1>4, <2>1, SectionStep
  <1>5. CASE c.key = NoKey /\ Return(p, c.m) /\ UNCHANGED states
    <2>1. StatesStep  BY <1>5 DEF StatesStep
    <2>2. QED  BY <1>1, <1>3, <1>5, <2>1, Returns
  <1>6. CASE /\ c.key # NoKey /\ kept
             /\ states' = [states EXCEPT ![c.s] = Touch(st, "backup", c.key, c.now)]
             /\ Return(p, b.m)
    <2>1. c.key \in Keys  BY <1>2, <1>6
    <2>2. Picks(st, Touch(st, "backup", c.key, c.now), c.now)
      BY <1>2, <1>3, <1>6, <2>1, TouchPicks
    <2>3. StatesStep  BY <1>4, <1>6, <2>2
    <2>4. b.m \in Members  BY <1>2, <1>6, StateTypes DEF Exists
    <2>5. Return(p, b.m)  BY <1>6
    <2> HIDE DEF b
    <2>6. QED  BY <1>1, <1>3, <2>3, <2>4, <2>5, Returns
  <1>7. ASSUME c.key # NoKey, ~kept
        PROVE  MayGo(st, "backup", c.key, c.now) /\ c.key \in Keys
    <2>1. c.key \in Keys  BY <1>2, <1>7
    <2>2. CASE ~Bound(st, "backup", c.key)  BY <1>7, <2>1, <2>2 DEF Bound, MayGo
    <2>3. CASE Bound(st, "backup", c.key)
      <3>1. Exists(st, b.m)  BY <1>2, <1>3, <2>1, <2>3 DEF GroupOK, PoolOK, BoundKeys
      <3>2. Expired(b, c.now)  BY <1>7, <2>3, <3>1
      <3>3. QED  BY <2>1, <3>2 DEF Expired, MayGo
    <2>4. QED  BY <2>1, <2>2, <2>3
  <1>8. CASE /\ c.key # NoKey /\ ~kept /\ PoolOf(st, "backup") = {c.m} /\ NoCooldowns(st)
             /\ states' = [states EXCEPT ![c.s] = Bind(d, "backup", c.key, c.m, c.now)]
             /\ Return(p, c.m)
    <2>1. c.m \in Healthy(st, "backup", c.now)
      <3>1. st.cool[c.m] = 0 /\ c.m \in PoolOf(st, "backup")  BY <1>3, <1>8 DEF NoCooldowns
      <3>2. QED  BY <1>2, <3>1 DEF Healthy, IsCooling
    <2>2. Picks(st, Bind(d, "backup", c.key, c.m, c.now), c.now)
      BY <1>2, <1>3, <1>7, <1>8, <2>1, RebindPicks
    <2>3. StatesStep  BY <1>4, <1>8, <2>2
    <2>4. Return(p, c.m)  BY <1>8
    <2>5. QED  BY <1>1, <1>3, <2>3, <2>4, Returns
  <1>9. CASE c.key # NoKey /\ ~kept /\ states' = [states EXCEPT ![c.s] = d] /\ Goto(p, "full")
    <2>1. Picks(st, d, c.now)  BY <1>2, <1>3, <1>7, <1>9, UnbindPicks
    <2>2. StatesStep  BY <1>4, <1>9, <2>1
    <2>3. "full" \in PCs \ {"idle"}  BY DEF PCs
    <2>4. CallOK([c EXCEPT !.pc = "full"], Len(states), clock)  BY <1>1, <1>2, <1>3, <2>3, MovesOn
    <2>5. QED  BY <1>1, <1>9, <2>2, <2>3, <2>4, GoesTo
  <1>10. \/ c.key = NoKey /\ Return(p, c.m) /\ UNCHANGED states
         \/ /\ c.key # NoKey /\ kept
            /\ states' = [states EXCEPT ![c.s] = Touch(st, "backup", c.key, c.now)]
            /\ Return(p, b.m)
         \/ /\ c.key # NoKey /\ ~kept /\ PoolOf(st, "backup") = {c.m} /\ NoCooldowns(st)
            /\ states' = [states EXCEPT ![c.s] = Bind(d, "backup", c.key, c.m, c.now)]
            /\ Return(p, c.m)
         \/ c.key # NoKey /\ ~kept /\ states' = [states EXCEPT ![c.s] = d] /\ Goto(p, "full")
    BY DEF Fast
  <1>11. QED  BY <1>5, <1>6, <1>8, <1>9, <1>10

\* The exclusions.
LEMMA CountExcludeEffect ==
  ASSUME IndInv, NEW p \in Procs, CountExclude(p)
  PROVE  Effect(p)
  <1> DEFINE c == calls[p]
  <1>1. StatesStep /\ EngineRest /\ c.pc = "count" /\ c.op = "exclude"
    BY DEF CountExclude, StatesStep
  <1>2. c \in CallType /\ CallOK(c, Len(states), clock)  BY <1>1, Held
  <1>3. CASE Return(p, NoMember)
    <2>1. NoMember \notin Members  BY GroupAssumption
    <2>2. QED  BY <1>1, <1>3, <2>1, Returns
  <1>4. ASSUME NEW x \in {"exSingle", "exFull"}, Goto(p, x) PROVE Effect(p)
    <2>1. x \in PCs \ {"idle"}  BY DEF PCs
    <2>2. CallOK([c EXCEPT !.pc = x], Len(states), clock)  BY <1>1, <1>2, <2>1, MovesOn
    <2>3. QED  BY <1>1, <1>4, <2>1, <2>2, GoesTo
  <1>5. Return(p, NoMember) \/ Goto(p, "exSingle") \/ Goto(p, "exFull")
    BY Zenon DEF CountExclude
  <1>6. QED  BY <1>3, <1>4, <1>5

\* The exclusion in a group with one backup.
LEMMA ExcludeSingleBackupEffect ==
  ASSUME IndInv, NEW p \in Procs, ExcludeSingleBackup(p)
  PROVE  Effect(p)
  <1> DEFINE c == calls[p]
             t == Cool(Cur(p), c.m, clock)
  <1>1. EngineRest /\ c.pc = "exSingle"  BY DEF ExcludeSingleBackup
  <1>2. /\ c \in CallType /\ CallOK(c, Len(states), clock) /\ GroupOK(Cur(p)) /\ c.s \in 1..Len(states)
        /\ clock \in Nat \ {0} /\ clock \in Nat
    BY <1>1, Held
  <1>3. c.op = "exclude" /\ c.m \in Members  BY <1>1, <1>2 DEF CallOK
  <1>4. CASE states' = [states EXCEPT ![c.s] = Cool(@, c.m, clock)] /\ Return(p, NoMember)
    <2>1. states' = [states EXCEPT ![c.s] = t]
      BY <1>2, <1>4 DEF Cur, IndInv, StatesOK
    <2>2. Excludes(Cur(p), t, c.m, clock)  BY <1>2, <1>3, CoolExcludes
    <2>3. NoMember \notin Members  BY GroupAssumption
    <2> HIDE DEF t
    <2>4. clock \in 1..clock  BY <1>2
    <2>5. Section(states[c.s], t)  BY <1>3, <2>2, <2>4 DEF Section, Cur
    <2>6. StatesStep  BY <1>2, <2>1, <2>5, SectionStep
    <2>7. QED  BY <1>1, <1>4, <2>3, <2>6, Returns
  <1>5. CASE Goto(p, "exFull") /\ UNCHANGED states
    <2>1. "exFull" \in PCs \ {"idle"}  BY DEF PCs
    <2>2. CallOK([c EXCEPT !.pc = "exFull"], Len(states), clock)  BY <1>1, <1>2, <1>3, <2>1, MovesOn
    <2>3. StatesStep  BY <1>5 DEF StatesStep
    <2>4. QED  BY <1>1, <1>5, <2>1, <2>2, <2>3, GoesTo
  <1>6. QED  BY <1>4, <1>5 DEF ExcludeSingleBackup

\* The exclusion on the full path.
LEMMA ExcludeFullEffect ==
  ASSUME IndInv, NEW p \in Procs, ExcludeFull(p)
  PROVE  Effect(p)
  <1> DEFINE c == calls[p]
  <1>1. c.pc = "exFull"  BY DEF ExcludeFull
  <1>2. /\ c \in CallType /\ CallOK(c, Len(states), clock) /\ GroupOK(Cur(p)) /\ c.s \in 1..Len(states)
        /\ c.now \in 1..clock /\ c.now \in Nat /\ c.pool \in Pools /\ c.key \in Keys \cup {NoKey}
    BY <1>1, Held
  <1>3. c.op = "exclude" /\ c.op # "get" /\ c.m \in Members  BY <1>1, <1>2 DEF CallOK
  <1>4. PICK o \in FullExclude(Cur(p), c.pool, c.key, c.m, c.now) :
          states' = [states EXCEPT ![c.s] = o.st] /\ Return(p, o.m) /\ EngineRest
    BY DEF ExcludeFull, Take
  <1>5. Excludes(Cur(p), o.st, c.m, c.now) /\ o.m \in Members \cup {NoMember}
    BY <1>2, <1>3, FullExcludes
  <1>6. Section(states[c.s], o.st)  BY <1>2, <1>3, <1>5 DEF Section, Cur
  <1>7. StatesStep  BY <1>2, <1>4, <1>6, SectionStep
  <1>8. QED  BY <1>3, <1>4, <1>5, <1>7, Returns

\* Every step of a call.
LEMMA CallEffect ==
  ASSUME IndInv, NEW p \in Procs, CallStep(p)
  PROVE  Effect(p)
  <1>1. ASSUME NEW w \in Wanted, Start(p, "get", w[1], w[2], NoMember) PROVE Effect(p)
    <2>1. w[1] \in Pools /\ w[2] \in Keys \cup {NoKey}  BY WantedAssumption
    <2>2. QED  BY <1>1, <2>1, StartEffect
  <1>2. ASSUME NEW w \in Wanted, calls[p].m # NoMember, Start(p, "exclude", w[1], w[2], calls[p].m)
        PROVE  Effect(p)
    <2>1. w[1] \in Pools /\ w[2] \in Keys \cup {NoKey}  BY WantedAssumption
    <2>2. calls[p].m \in Members  BY <1>2 DEF IndInv, CallType
    <2>3. QED  BY <1>2, <2>1, <2>2, StartEffect
  <1>3. QED
    BY <1>1, <1>2, LookupEffect, CountMembersEffect, SingleMemberEffect, ProbeEffect, ConfirmEffect,
       FullEffect, CountBackupsEffect, FastEffect, CountExcludeEffect, ExcludeSingleBackupEffect,
       ExcludeFullEffect
    DEF CallStep

-----------------------------------------------------------------------------
(* Safety.                                                                 *)

\* Writing one state by a sound one.
LEMMA StateWrite ==
  ASSUME StatesOK, NEW s \in 1..Len(states), NEW t, GroupOK(t), states' = [states EXCEPT ![s] = t]
  PROVE  StatesOK' /\ Len(states') = Len(states)
  <1>1. states \in Seq(GState) /\ t \in GState  BY DEF StatesOK, GroupOK
  <1>2. states' \in Seq(GState) /\ Len(states') = Len(states)  BY <1>1
  <1>3. \A i \in 1..Len(states) : states'[i] = IF i = s THEN t ELSE states[i]  BY <1>1
  <1>4. \A i \in 1..Len(states') : GroupOK(states'[i])  BY <1>2, <1>3 DEF StatesOK
  <1>5. QED  BY <1>2, <1>4 DEF StatesOK

\* A section leaves a sound state.
LEMMA SectionOK ==
  ASSUME NEW st, NEW t, Section(st, t)
  PROVE  GroupOK(t)
  BY DEF Section, Picks, Excludes

\* Calls stay as they were when states are added and time passes.
LEMMA CallsKept ==
  ASSUME IndInv, UNCHANGED calls, Len(states') \in Nat, Len(states) <= Len(states'),
         clock' \in Nat, clock <= clock'
  PROVE  calls' \in [Procs -> CallType] /\ \A p \in Procs : CallOK(calls'[p], Len(states'), clock')
  <1>1. Len(states) \in Nat /\ clock \in Nat  BY DEF IndInv, StatesOK
  <1>2. 0..Len(states) \subseteq 0..Len(states') /\ 1..Len(states) \subseteq 1..Len(states')
        /\ 1..clock \subseteq 1..clock'
    BY <1>1
  <1>3. ASSUME NEW p \in Procs PROVE CallOK(calls[p], Len(states'), clock')
    <2>1. CallOK(calls[p], Len(states), clock)  BY DEF IndInv
    <2>2. QED  BY <1>2, <2>1 DEF CallOK
  <1>4. QED  BY <1>3 DEF IndInv

\* Init establishes the invariant and every step keeps it.
LEMMA InitInv == Init => IndInv
  <1> SUFFICES ASSUME Init PROVE IndInv  OBVIOUS
  <1>1. PICK c \in Configs : states = <<NewState(c)>> /\ inc = 1  BY DEF Init
  <1>2. GroupOK(NewState(c)) /\ NewState(c) \in GState  BY NewStateOK DEF GroupOK
  <1>3. StatesOK /\ Len(states) = 1
    <2> DEFINE n == NewState(c)
    <2>1. n \in GState /\ GroupOK(n) /\ states = <<n>>  BY <1>1, <1>2
    <2> HIDE DEF n
    <2>2. states \in Seq(GState) /\ Len(states) = 1 /\ states[1] = n  BY <2>1
    <2>3. \A i \in 1..Len(states) : i = 1  BY <2>2
    <2>4. QED  BY <2>1, <2>2, <2>3 DEF StatesOK
  <1>4. Idle \in CallType /\ CallOK(Idle, 1, 1)
    BY DEF Idle, CallType, CallOK, PCs, Pools
  <1>5. calls = [p \in Procs |-> Idle] /\ clock = 1  BY DEF Init
  <1>6. stopped \in BOOLEAN  BY DEF Init
  <1> HIDE DEF Init
  <1>7. inc \in 0..Len(states) /\ clock \in Nat \ {0}  BY <1>1, <1>3, <1>5
  <1>8. calls \in [Procs -> CallType] /\ \A p \in Procs : CallOK(calls[p], Len(states), clock)
    BY <1>3, <1>4, <1>5
  <1>9. QED  BY <1>3, <1>6, <1>7, <1>8 DEF IndInv

\* Every step keeps the invariant.
LEMMA StepInv == IndInv /\ [Next]_vars => IndInv'
  <1> SUFFICES ASSUME IndInv, [Next]_vars PROVE IndInv'  OBVIOUS
  <1>1. /\ StatesOK /\ states \in Seq(GState) /\ Len(states) \in Nat /\ clock \in Nat \ {0}
        /\ inc \in 0..Len(states) /\ stopped \in BOOLEAN
    BY DEF IndInv, StatesOK
  <1>2. ASSUME NEW p \in Procs, CallStep(p) PROVE IndInv'
    <2>1. /\ calls' \in [Procs -> CallType] /\ \A q \in Procs \ {p} : calls'[q] = calls[q]
          /\ CallOK(calls'[p], Len(states), clock) /\ StatesStep /\ EngineRest
      BY <1>2, CallEffect DEF Effect
    <2>2. StatesOK' /\ Len(states') = Len(states)
      <3>1. CASE states' = states  BY <1>1, <3>1 DEF StatesOK
      <3>2. ASSUME NEW s \in 1..Len(states), states' = [states EXCEPT ![s] = states'[s]],
                   Section(states[s], states'[s])
            PROVE  StatesOK' /\ Len(states') = Len(states)
        <4>1. GroupOK(states'[s])  BY <3>2, SectionOK
        <4>2. QED  BY <1>1, <3>2, <4>1, StateWrite
      <3>3. QED  BY <2>1, <3>1, <3>2 DEF StatesStep
    <2>3. \A q \in Procs : CallOK(calls'[q], Len(states), clock)  BY <2>1 DEF IndInv
    <2>4. inc' = inc /\ clock' = clock /\ stopped' = stopped  BY <2>1 DEF EngineRest
    <2>5. QED  BY <1>1, <2>1, <2>2, <2>3, <2>4 DEF IndInv
  <1>3. ASSUME NEW c \in Configs, OnGroupChanged(c) PROVE IndInv'
    <2>1. UNCHANGED <<calls, stopped, clock>>  BY <1>3 DEF OnGroupChanged
    <2>2. /\ StatesOK' /\ Len(states') \in Nat /\ Len(states) <= Len(states')
          /\ inc' \in 0..Len(states')
      <3>1. CASE inc = 0
        <4> DEFINE n == NewState(c)
        <4>1. GroupOK(n) /\ n \in GState  BY NewStateOK DEF GroupOK
        <4>2. states' = Append(states, n) /\ inc' = Len(states) + 1  BY <1>3, <3>1 DEF OnGroupChanged
        <4> HIDE DEF n
        <4>3. /\ states' \in Seq(GState) /\ Len(states') = Len(states) + 1
              /\ \A i \in 1..Len(states') : states'[i] = IF i = Len(states) + 1 THEN n ELSE states[i]
          BY <1>1, <4>1, <4>2
        <4>4. \A i \in 1..Len(states') : i = Len(states) + 1 \/ i \in 1..Len(states)
          BY <1>1, <4>3
        <4>5. \A i \in 1..Len(states') : GroupOK(states'[i])  BY <1>1, <4>1, <4>3, <4>4 DEF StatesOK
        <4>6. QED  BY <1>1, <4>2, <4>3, <4>5 DEF StatesOK
      <3>2. CASE inc # 0
        <4> DEFINE t == Reconfigured(states[inc], c)
        <4>1. inc \in 1..Len(states)  BY <1>1, <3>2
        <4>2. GroupOK(states[inc])  BY <1>1, <4>1 DEF StatesOK
        <4>3. GroupOK(t)  BY <4>2, ReconfiguredOK
        <4>4. states' = [states EXCEPT ![inc] = t] /\ inc' = inc
          BY <1>1, <1>3, <3>2, <4>1 DEF OnGroupChanged
        <4> HIDE DEF t
        <4>5. StatesOK' /\ Len(states') = Len(states)  BY <1>1, <4>1, <4>3, <4>4, StateWrite
        <4>6. QED  BY <1>1, <4>4, <4>5
      <3>3. QED  BY <3>1, <3>2
    <2>3. calls' \in [Procs -> CallType] /\ \A p \in Procs : CallOK(calls'[p], Len(states'), clock')
      BY <1>1, <2>1, <2>2, CallsKept
    <2>4. QED  BY <1>1, <2>1, <2>2, <2>3 DEF IndInv
  <1>4. CASE GroupRemoved
    <2>1. inc' = 0 /\ UNCHANGED <<states, calls, stopped, clock>>  BY <1>4 DEF GroupRemoved
    <2>2. QED  BY <1>1, <2>1 DEF IndInv, StatesOK
  <1>5. CASE SweepOnce
    <2>1. UNCHANGED <<inc, calls, stopped, clock>> /\ inc # 0  BY <1>5 DEF SweepOnce
    <2>2. PICK now \in 1..clock : states' = [states EXCEPT ![inc] = Swept(@, now)]
      BY <1>5 DEF SweepOnce
    <2> DEFINE t == Swept(states[inc], now)
    <2>3. inc \in 1..Len(states) /\ now \in Nat  BY <1>1, <2>1
    <2>4. GroupOK(states[inc])  BY <1>1, <2>3 DEF StatesOK
    <2>5. GroupOK(t)  BY <2>3, <2>4, SweptOK
    <2>6. states' = [states EXCEPT ![inc] = t]  BY <1>1, <2>2, <2>3
    <2> HIDE DEF t
    <2>7. StatesOK' /\ Len(states') = Len(states)  BY <1>1, <2>3, <2>5, <2>6, StateWrite
    <2>8. QED  BY <1>1, <2>1, <2>7 DEF IndInv
  <1>6. CASE Stop
    <2>1. stopped' = TRUE /\ UNCHANGED <<states, inc, calls, clock>>  BY <1>6 DEF Stop
    <2>2. QED  BY <1>1, <2>1 DEF IndInv, StatesOK
  <1>7. CASE Tick
    <2>1. clock' = clock + 1 /\ UNCHANGED <<states, inc, calls, stopped>>  BY <1>7 DEF Tick
    <2>2. clock' \in Nat \ {0} /\ clock <= clock' /\ Len(states') = Len(states)  BY <1>1, <2>1
    <2>3. calls' \in [Procs -> CallType] /\ \A p \in Procs : CallOK(calls'[p], Len(states'), clock')
      BY <1>1, <2>1, <2>2, CallsKept
    <2>4. QED  BY <1>1, <2>1, <2>2, <2>3 DEF IndInv, StatesOK
  <1>8. CASE UNCHANGED vars  BY <1>8 DEF vars, IndInv, StatesOK
  <1>9. QED  BY <1>2, <1>3, <1>4, <1>5, <1>6, <1>7, <1>8 DEF Next

\* The engine's states and calls stay as IndInv says.
THEOREM EngineInductive == Spec => []IndInv
  <1>1. QED  BY InitInv, StepInv, PTL DEF Spec

\* What the invariant says of every state: its shape, the mirrors (so the
\* unsigned counters never wrap) and that no binding names a member that left.
LEMMA InvSound == IndInv => EngineSound
  <1> SUFFICES ASSUME IndInv PROVE EngineSound  OBVIOUS
  <1>1. DOMAIN states = 1..Len(states) /\ \A i \in DOMAIN states : GroupOK(states[i])
    BY DEF IndInv, StatesOK
  <1>2. CountMirrors  BY <1>1 DEF CountMirrors, GroupOK, PoolOK, BoundKeys
  <1>3. BindingsConfigured  BY <1>1 DEF BindingsConfigured, GroupOK, PoolOK, BoundKeys
  <1>4. TypeOK
    <2>1. ASSUME NEW i \in DOMAIN states
          PROVE  /\ states[i].conf \in Configs
                 /\ states[i].bind \in [Pools -> [Keys -> BindingType]]
                 /\ states[i].cool \in [Members -> Nat]
                 /\ states[i].count \in [Pools -> Nat]
      <3> DEFINE st == states[i]
      <3>1. st \in GState /\ \A p \in Pools : PoolOK(st, p)  BY <1>1 DEF GroupOK
      <3> HIDE DEF st
      <3>2. st.conf \in Configs /\ st.bind \in BindMap /\ st.cool \in [Members -> Nat]
            /\ st.count \in [Pools -> Int]
        BY <3>1, StateTypes
      <3>3. \A p \in Pools : st.count[p] \in Nat  BY <3>1, FS_CardinalityType DEF PoolOK
      <3>4. QED  BY <3>2, <3>3 DEF st, BindMap
    <2>2. \A p \in Procs : calls[p].s \in 0..Len(states) /\ calls[p].m \in Members \cup {NoMember}
      BY DEF IndInv, CallOK, CallType
    <2>3. QED  BY <2>1, <2>2 DEF TypeOK, IndInv
  <1>5. QED  BY <1>2, <1>3, <1>4 DEF EngineSound

\* The checked invariant of the engine, for any number of requests, members,
\* conversations and member lists.
THEOREM EngineIsSound == Spec => []EngineSound
  <1>1. QED  BY EngineInductive, InvSound, PTL

\* A member getOrSelect returns is healthy as of the time the call read,
\* unless no default is or the group is down to one member.
THEOREM PicksAreHealthy == Spec => PickIsHealthy
  <1> DEFINE Body == \A p \in Procs, m \in Members :
        Answers(p, m) /\ calls[p].op = "get" /\ calls[p].pool = "default"
        => \/ ~IsCooling(Cur(p), m, calls[p].now)
           \/ Healthy(Cur(p), "default", calls[p].now) = {}
           \/ calls[p].pc = "single"
  <1>1. IndInv /\ [Next]_vars => [Body]_vars
    <2> SUFFICES ASSUME IndInv, Next PROVE Body  OBVIOUS
    <2>1. CASE UNCHANGED calls  BY <2>1 DEF Answers
    <2>2. ASSUME NEW q \in Procs, CallStep(q) PROVE Body
      <3>1. AnswerOK(q) /\ \A p \in Procs \ {q} : calls'[p] = calls[p]
        BY <2>2, CallEffect DEF Effect
      <3>2. QED  BY <3>1 DEF AnswerOK, Answers
    <2>3. QED
      BY <2>1, <2>2 DEF Next, OnGroupChanged, GroupRemoved, SweepOnce, Stop, Tick
  <1>2. QED  BY <1>1, EngineInductive, PTL DEF Spec, PickIsHealthy

-----------------------------------------------------------------------------
(* Refinement: the engine implements the affinity table.                   *)

TConf == IF inc = 0 THEN <<>> ELSE states[inc].conf
THome == IF inc = 0 THEN [p \in Pools |-> [k \in Keys |-> NoBinding]] ELSE states[inc].bind
TCool == IF inc = 0 THEN [m \in Members |-> 0] ELSE states[inc].cool

\* The table's own copies of the definitions it shares with the engine.
LEMMA TableNames ==
  /\ Table!NoBinding = NoBinding /\ Table!Pools = Pools /\ Table!NoConf = <<>>
  /\ Table!tvars = <<TConf, THome, TCool, clock>>
  BY DEF Table!NoBinding, NoBinding, Table!NoMember, NoMember, Table!Pools, Pools, Table!NoConf,
         Table!tvars, TConf, THome, TCool

\* A reason to go at a time a call read is a reason to leave now.
LEMMA MayGoLeaves ==
  ASSUME NEW st \in GState, NEW p \in Pools, NEW k \in Keys, NEW now \in 1..clock, clock \in Nat,
         THome = st.bind, TCool = st.cool, MayGo(st, p, k, now)
  PROVE  Table!MayLeave(p, k)
  <1>1. st.bind[p][k].at \in Nat  BY StateTypes DEF BindingType
  <1>2. Ttl \in Nat  BY GroupAssumption
  <1>3. \/ st.bind[p][k] = NoBinding \/ st.cool[st.bind[p][k].m] # 0
        \/ clock - st.bind[p][k].at > Ttl
    <2>1. CASE now - st.bind[p][k].at > Ttl  BY <1>1, <1>2, <2>1
    <2>2. QED  BY <2>1 DEF MayGo
  <1>4. \/ THome[p][k] = Table!NoBinding \/ TCool[THome[p][k].m] # 0
        \/ clock - THome[p][k].at > Ttl
    BY <1>3, TableNames, Zenon
  <1>5. QED  BY <1>4, Zenon DEF Table!MayLeave, THome, TCool

\* The table's actions in terms of the engine's variables.
LEMMA TableActions ==
  ASSUME NEW p \in Pools, NEW k \in Keys
  PROVE  /\ Table!MayLeave(p, k) /\ (\E m \in Members, now \in 1..clock :
                /\ m \in DOMAIN TConf /\ TConf[m] = p /\ TCool[m] <= now
                /\ THome' = [THome EXCEPT ![p][k] = [m |-> m, at |-> now]])
            /\ TConf' = TConf /\ TCool' = TCool /\ clock' = clock => Table!TBind(p, k)
         /\ Table!MayLeave(p, k) /\ THome' = [THome EXCEPT ![p][k] = NoBinding]
            /\ TConf' = TConf /\ TCool' = TCool /\ clock' = clock => Table!TLeave(p, k)
         /\ THome[p][k] # NoBinding
            /\ (\E now \in 1..clock : THome' = [THome EXCEPT ![p][k].at = now])
            /\ TConf' = TConf /\ TCool' = TCool /\ clock' = clock => Table!TTouch(p, k)
  <1>1. Table!NoBinding = NoBinding  BY TableNames
  <1>2. QED  BY <1>1, Zenon DEF Table!TBind, Table!TLeave, Table!TTouch, TConf, THome, TCool

\* A pick is a step of the table or none.
LEMMA PicksTable ==
  ASSUME NEW st, GroupOK(st), NEW t, clock \in Nat, NEW now \in 1..clock, Picks(st, t, now),
         TConf = st.conf, THome = st.bind, TCool = st.cool,
         TConf' = t.conf, THome' = t.bind, TCool' = t.cool, clock' = clock
  PROVE  Table!TNext \/ UNCHANGED Table!tvars
  <1>1. st \in GState /\ st.bind \in BindMap /\ TConf' = TConf /\ TCool' = TCool
    BY StateTypes DEF GroupOK, Picks
  <1>2. CASE t.bind = st.bind
    <2>1. TConf' = TConf /\ THome' = THome /\ TCool' = TCool /\ clock' = clock  BY <1>1, <1>2
    <2>2. QED  BY <2>1, Zenon DEF Table!tvars, TConf, THome, TCool
  <1>3. ASSUME NEW p \in Pools, NEW k \in Keys, st.bind[p][k] # NoBinding,
               t.bind = SetEntry(st, p, k, [m |-> st.bind[p][k].m, at |-> now])
        PROVE  Table!TTouch(p, k)
    <2>1. st.bind[p][k] \in BindingType  BY <1>1, StateTypes
    <2>2. [st.bind[p][k] EXCEPT !.at = now] = [m |-> st.bind[p][k].m, at |-> now]
      BY <2>1 DEF BindingType
    <2>3. t.bind = [st.bind EXCEPT ![p] = [st.bind[p] EXCEPT ![k] = [st.bind[p][k] EXCEPT !.at = now]]]
      BY <1>3, <2>2, Zenon DEF SetEntry
    <2>4. [st.bind EXCEPT ![p][k].at = now]
            = [st.bind EXCEPT ![p] = [st.bind[p] EXCEPT ![k] = [st.bind[p][k] EXCEPT !.at = now]]]
      BY <1>1 DEF BindMap
    <2>5. THome' = [THome EXCEPT ![p][k].at = now]  BY <2>3, <2>4, Zenon
    <2>6. THome[p][k] # NoBinding  BY <1>3
    <2>7. \E n \in 1..clock : THome' = [THome EXCEPT ![p][k].at = n]  BY <2>5, Zenon
    <2>8. QED  BY <1>1, <2>6, <2>7, TableActions, Zenon
  <1>4. ASSUME NEW p \in Pools, NEW k \in Keys, MayGo(st, p, k, now),
               t.bind = SetEntry(st, p, k, NoBinding)
        PROVE  Table!TLeave(p, k)
    <2>1. Table!MayLeave(p, k)  BY <1>1, <1>4, MayGoLeaves
    <2>2. THome' = [THome EXCEPT ![p][k] = NoBinding]  BY <1>1, <1>4 DEF SetEntry, BindMap
    <2>3. QED  BY <1>1, <2>1, <2>2, TableActions
  <1>5. ASSUME NEW p \in Pools, NEW k \in Keys, MayGo(st, p, k, now), NEW m \in DOMAIN st.conf,
               st.conf[m] = p, st.cool[m] <= now, t.bind = SetEntry(st, p, k, [m |-> m, at |-> now])
        PROVE  Table!TBind(p, k)
    <2>1. Table!MayLeave(p, k)  BY <1>1, <1>5, MayGoLeaves
    <2>2. THome' = [THome EXCEPT ![p][k] = [m |-> m, at |-> now]]  BY <1>1, <1>5 DEF SetEntry, BindMap
    <2>3. m \in Members  BY <1>1, StateTypes
    <2>4. m \in DOMAIN TConf /\ TConf[m] = p /\ TCool[m] <= now  BY <1>5
    <2>5. \E j \in Members, n \in 1..clock :
            /\ j \in DOMAIN TConf /\ TConf[j] = p /\ TCool[j] <= n
            /\ THome' = [THome EXCEPT ![p][k] = [m |-> j, at |-> n]]
      BY <2>2, <2>3, <2>4, Zenon
    <2>6. QED  BY <1>1, <2>1, <2>5, TableActions, Zenon
  <1>6. \/ t.bind = st.bind
        \/ \E p \in Pools, k \in Keys : Table!TTouch(p, k) \/ Table!TLeave(p, k) \/ Table!TBind(p, k)
    BY <1>3, <1>4, <1>5 DEF Picks, Moves
  <1>7. CASE \E p \in Pools, k \in Keys : Table!TTouch(p, k) \/ Table!TLeave(p, k) \/ Table!TBind(p, k)
    BY <1>7, TableNames, Zenon DEF Table!TNext
  <1>8. QED  BY <1>2, <1>6, <1>7

\* An exclusion is TExclude.
LEMMA ExcludesTable ==
  ASSUME NEW st, GroupOK(st), NEW t, clock \in Nat, NEW now \in 1..clock, NEW m \in Members,
         Excludes(st, t, m, now),
         TConf = st.conf, THome = st.bind, TCool = st.cool,
         TConf' = t.conf, THome' = t.bind, TCool' = t.cool, clock' = clock
  PROVE  Table!TExclude(m)
  <1>1. st \in GState /\ st.bind \in BindMap /\ TConf' = TConf
        /\ TCool' = [TCool EXCEPT ![m] = now + Cooldown]
    BY StateTypes DEF GroupOK, Excludes
  <1>2. TConf # <<>>
    <2>1. DOMAIN st.conf # {}  BY <1>1, StateTypes
    <2>2. DOMAIN <<>> = {}  OBVIOUS
    <2>3. QED  BY <2>1, <2>2
  <1>3. \/ THome' = THome
        \/ \E p \in Pools, k \in Keys, o \in Members :
            /\ Table!MayLeave(p, k) \/ THome[p][k].m = m
            /\ o # m /\ o \in DOMAIN TConf /\ TConf[o] = p /\ TCool[o] <= now
            /\ THome' = [THome EXCEPT ![p][k] = [m |-> o, at |-> now]]
    <2>1. CASE t.bind = st.bind  BY <2>1
    <2>2. ASSUME NEW p \in Pools, NEW k \in Keys, NEW o \in DOMAIN st.conf,
                 MayGo(st, p, k, now) \/ st.bind[p][k].m = m,
                 o # m, st.conf[o] = p, st.cool[o] <= now,
                 t.bind = SetEntry(st, p, k, [m |-> o, at |-> now])
          PROVE  /\ o \in Members /\ (Table!MayLeave(p, k) \/ THome[p][k].m = m)
                 /\ o # m /\ o \in DOMAIN TConf /\ TConf[o] = p /\ TCool[o] <= now
                 /\ THome' = [THome EXCEPT ![p][k] = [m |-> o, at |-> now]]
      <3>1. Table!MayLeave(p, k) \/ THome[p][k].m = m  BY <1>1, <2>2, MayGoLeaves
      <3>2. THome' = [THome EXCEPT ![p][k] = [m |-> o, at |-> now]]
        BY <1>1, <2>2 DEF SetEntry, BindMap
      <3>3. o \in Members  BY <1>1, StateTypes
      <3>4. QED  BY <2>2, <3>1, <3>2, <3>3
    <2>3. \/ t.bind = st.bind
          \/ \E p \in Pools, k \in Keys, o \in DOMAIN st.conf :
              /\ MayGo(st, p, k, now) \/ st.bind[p][k].m = m
              /\ o # m /\ st.conf[o] = p /\ st.cool[o] <= now
              /\ t.bind = SetEntry(st, p, k, [m |-> o, at |-> now])
      BY DEF Excludes
    <2>4. CASE t.bind # st.bind
      <3>1. PICK p \in Pools, k \in Keys, o \in DOMAIN st.conf :
              /\ MayGo(st, p, k, now) \/ st.bind[p][k].m = m
              /\ o # m /\ st.conf[o] = p /\ st.cool[o] <= now
              /\ t.bind = SetEntry(st, p, k, [m |-> o, at |-> now])
        BY <2>3, <2>4
      <3>2. /\ o \in Members /\ (Table!MayLeave(p, k) \/ THome[p][k].m = m)
            /\ o # m /\ o \in DOMAIN TConf /\ TConf[o] = p /\ TCool[o] <= now
            /\ THome' = [THome EXCEPT ![p][k] = [m |-> o, at |-> now]]
        BY <2>2, <3>1
      <3>3. \E i \in Pools, j \in Keys, h \in Members :
              /\ Table!MayLeave(i, j) \/ THome[i][j].m = m
              /\ h # m /\ h \in DOMAIN TConf /\ TConf[h] = i /\ TCool[h] <= now
              /\ THome' = [THome EXCEPT ![i][j] = [m |-> h, at |-> now]]
        <4> o \in Members  BY <3>2
        <4>1. WITNESS p \in Pools, k \in Keys, o \in Members
        <4>2. QED  BY <3>2
      <3>4. QED  BY <3>3, Zenon
    <2>5. QED  BY <2>1, <2>4
  <1>4. Table!NoConf = <<>> /\ Table!Pools = Pools  BY TableNames
  <1>5. QED
    BY <1>1, <1>2, <1>3, <1>4, Zenon DEF Table!TExclude, TConf, THome, TCool

\* A step that leaves the group's state alone leaves the table alone.
LEMMA TableStutter ==
  ASSUME inc' = inc, clock' = clock, inc # 0 => states'[inc] = states[inc]
  PROVE  UNCHANGED Table!tvars
  <1>1. CASE inc = 0  BY <1>1, Zenon DEF Table!tvars
  <1>2. CASE inc # 0
    <2>1. TConf' = TConf /\ THome' = THome /\ TCool' = TCool  BY <1>2 DEF TConf, THome, TCool
    <2>2. QED  BY <2>1, Zenon DEF Table!tvars, TConf, THome, TCool
  <1>3. QED  BY <1>1, <1>2

\* The group's state before and after a write.
LEMMA TableWrite ==
  ASSUME StatesOK, inc \in 1..Len(states), inc' = inc, NEW t, states' = [states EXCEPT ![inc] = t]
  PROVE  /\ TConf = states[inc].conf /\ THome = states[inc].bind /\ TCool = states[inc].cool
         /\ TConf' = t.conf /\ THome' = t.bind /\ TCool' = t.cool
  <1>1. inc # 0 /\ states'[inc] = t  BY DEF StatesOK
  <1>2. QED  BY <1>1 DEF TConf, THome, TCool

\* A call moves the table by one of its actions, or not at all: a section that
\* writes a state the engine no longer holds is invisible.
LEMMA CallTable ==
  ASSUME IndInv, NEW p \in Procs, CallStep(p)
  PROVE  Table!TNext \/ UNCHANGED Table!tvars
  <1>1. StatesStep /\ inc' = inc /\ clock' = clock  BY CallEffect DEF Effect, EngineRest
  <1>2. StatesOK /\ states \in Seq(GState) /\ clock \in Nat /\ inc \in 0..Len(states)
    BY DEF IndInv, StatesOK
  <1>3. CASE states' = states  BY <1>1, <1>3, TableStutter
  <1>4. ASSUME NEW s \in 1..Len(states), states' = [states EXCEPT ![s] = states'[s]],
               Section(states[s], states'[s])
        PROVE  Table!TNext \/ UNCHANGED Table!tvars
    <2>1. CASE s # inc
      <3>1. inc # 0 => states'[inc] = states[inc]  BY <1>2, <1>4, <2>1
      <3>2. QED  BY <1>1, <3>1, TableStutter
    <2>2. CASE s = inc
      <3> DEFINE st == states[s]
                 t == states'[s]
      <3>1. GroupOK(st)  BY <1>2 DEF StatesOK
      <3>2. /\ TConf = st.conf /\ THome = st.bind /\ TCool = st.cool
            /\ TConf' = t.conf /\ THome' = t.bind /\ TCool' = t.cool
        BY <1>1, <1>2, <1>4, <2>2, TableWrite
      <3>3. PICK now \in 1..clock : Picks(st, t, now) \/ \E m \in Members : Excludes(st, t, m, now)
        BY <1>4 DEF Section
      <3> HIDE DEF st, t
      <3>4. CASE Picks(st, t, now)  BY <1>1, <1>2, <3>1, <3>2, <3>4, PicksTable
      <3>5. CASE \E m \in Members : Excludes(st, t, m, now)
        <4>1. \E m \in Members : Table!TExclude(m)
          BY <1>1, <1>2, <3>1, <3>2, <3>5, ExcludesTable
        <4>2. QED  BY <4>1, Zenon DEF Table!TNext
      <3>6. QED  BY <3>3, <3>4, <3>5
    <2>3. QED  BY <2>1, <2>2
  <1>5. QED  BY <1>1, <1>3, <1>4 DEF StatesStep

\* A configuration change is TConfigure: a binding outlives it exactly when its
\* member stays.
LEMMA ConfigTable ==
  ASSUME IndInv, NEW c \in Configs, OnGroupChanged(c)
  PROVE  Table!TConfigure(c)
  <1>1. StatesOK /\ states \in Seq(GState) /\ inc \in 0..Len(states) /\ clock' = clock
    BY DEF IndInv, StatesOK, OnGroupChanged
  <1>2. Table!NoConf = <<>> /\ Table!Pools = Pools /\ Table!NoBinding = NoBinding  BY TableNames
  <1>3. CASE inc = 0
    <2> DEFINE n == NewState(c)
    <2>1. n.conf = c /\ n.bind = [p \in Pools |-> [k \in Keys |-> NoBinding]] /\ n.cool = [m \in Members |-> 0]
          /\ n \in GState
      BY NewStateOK DEF GroupOK
    <2>2. states' = Append(states, n) /\ inc' = Len(states) + 1  BY <1>3 DEF OnGroupChanged
    <2> HIDE DEF n
    <2>3. inc' # 0 /\ states'[inc'] = n  BY <1>1, <2>1, <2>2
    <2>4. TConf' = c /\ THome' = n.bind /\ TCool' = n.cool  BY <2>1, <2>3 DEF TConf, THome, TCool
    <2>5. TConf = <<>> /\ THome = n.bind /\ TCool = n.cool  BY <1>3, <2>1 DEF TConf, THome, TCool
    <2>6. TConf' = c /\ TConf = Table!NoConf /\ THome' = THome /\ TCool' = TCool  BY <1>2, <2>4, <2>5
    <2>7. QED  BY <1>1, <2>6, Zenon DEF Table!TConfigure, TConf, THome, TCool
  <1>4. CASE inc # 0
    <2> DEFINE st == states[inc]
               t == Reconfigured(st, c)
    <2>1. inc \in 1..Len(states)  BY <1>1, <1>4
    <2>2. GroupOK(st) /\ st \in GState  BY <1>1, <2>1 DEF StatesOK, GroupOK
    <2>3. /\ t.conf = c /\ t.cool = st.cool
          /\ t.bind = [p \in Pools |-> [k \in Keys |->
                         IF k \in Orphans(st, p, c) THEN NoBinding ELSE st.bind[p][k]]]
      BY <2>2, ReconfiguredOK
    <2>4. states' = [states EXCEPT ![inc] = t] /\ inc' = inc
      BY <1>1, <1>4, <2>1 DEF OnGroupChanged
    <2> HIDE DEF t
    <2>5. /\ TConf = st.conf /\ THome = st.bind /\ TCool = st.cool
          /\ TConf' = t.conf /\ THome' = t.bind /\ TCool' = t.cool
      BY <1>1, <2>1, <2>4, TableWrite
    <2>6. TConf # Table!NoConf
      <3>1. DOMAIN st.conf # {}  BY <2>2, StateTypes
      <3>2. DOMAIN <<>> = {}  OBVIOUS
      <3>3. QED  BY <1>2, <2>5, <3>1, <3>2
    <2> HIDE DEF st
    <2>7. DOMAIN c \subseteq Members /\ NoMember \notin Members /\ NoKey \notin Keys  BY GroupAssumption
    <2>8. \A p \in Pools, k \in Keys :
            (IF k \in Orphans(st, p, c) THEN NoBinding ELSE st.bind[p][k])
            = (IF st.bind[p][k].m \in DOMAIN c THEN st.bind[p][k] ELSE NoBinding)
      BY <2>7 DEF Orphans, Bound, NoBinding
    <2>9. t.bind = [p \in Pools |-> [k \in Keys |->
                      IF st.bind[p][k].m \in DOMAIN c THEN st.bind[p][k] ELSE NoBinding]]
      BY <2>3, <2>8
    <2>10. THome' = [p \in Table!Pools |-> [k \in Keys |->
                      IF THome[p][k].m \in DOMAIN c THEN THome[p][k] ELSE Table!NoBinding]]
      BY <1>2, <2>5, <2>9, Zenon
    <2>11. TConf' = c /\ TCool' = TCool  BY <2>3, <2>5
    <2>12. QED  BY <1>1, <2>6, <2>10, <2>11, Zenon DEF Table!TConfigure, TConf, THome, TCool
  <1>5. QED  BY <1>3, <1>4

\* A sweep is TSweep.
LEMMA SweepTable ==
  ASSUME IndInv, SweepOnce
  PROVE  Table!TSweep
  <1>1. StatesOK /\ inc \in 1..Len(states) /\ inc' = inc /\ clock' = clock /\ clock \in Nat
    BY DEF IndInv, StatesOK, SweepOnce
  <1>2. PICK now \in 1..clock : states' = [states EXCEPT ![inc] = Swept(@, now)]  BY DEF SweepOnce
  <1> DEFINE st == states[inc]
             t == Swept(st, now)
  <1>3. GroupOK(st) /\ st \in GState /\ now \in Nat  BY <1>1 DEF StatesOK, GroupOK
  <1>4. /\ t.conf = st.conf
        /\ t.cool = [m \in Members |-> IF st.cool[m] <= now THEN 0 ELSE st.cool[m]]
        /\ t.bind = [p \in Pools |-> [k \in Keys |->
                       IF k \in IdleKeys(st, p, now) THEN NoBinding ELSE st.bind[p][k]]]
    BY <1>3, SweptOK
  <1>5. states' = [states EXCEPT ![inc] = t]  BY <1>1, <1>2 DEF StatesOK
  <1> HIDE DEF t
  <1>6. /\ TConf = st.conf /\ THome = st.bind /\ TCool = st.cool
        /\ TConf' = t.conf /\ THome' = t.bind /\ TCool' = t.cool
    BY <1>1, <1>5, TableWrite
  <1> HIDE DEF st
  <1>7. NoKey \notin Keys  BY GroupAssumption
  <1>8. \A p \in Pools, k \in Keys :
          (IF k \in IdleKeys(st, p, now) THEN NoBinding ELSE st.bind[p][k])
          = (IF now - st.bind[p][k].at > Ttl THEN NoBinding ELSE st.bind[p][k])
    BY <1>7 DEF IdleKeys, Bound, Expired
  <1>9. t.bind = [p \in Pools |-> [k \in Keys |->
                    IF now - st.bind[p][k].at > Ttl THEN NoBinding ELSE st.bind[p][k]]]
    BY <1>4, <1>8
  <1>10. Table!Pools = Pools /\ Table!NoBinding = NoBinding  BY TableNames
  <1>11. THome' = [p \in Table!Pools |-> [k \in Keys |->
                    IF now - THome[p][k].at > Ttl THEN Table!NoBinding ELSE THome[p][k]]]
    BY <1>6, <1>9, <1>10, Zenon
  <1>12. /\ TCool' = [m \in Members |-> IF TCool[m] <= now THEN 0 ELSE TCool[m]]
         /\ TConf' = TConf
    BY <1>4, <1>6
  <1>13. QED  BY <1>1, <1>11, <1>12, Zenon DEF Table!TSweep, TConf, THome, TCool

\* Removing the group empties the table.
LEMMA RemoveTable ==
  ASSUME GroupRemoved
  PROVE  Table!TRemove
  <1>1. inc' = 0 /\ clock' = clock  BY DEF GroupRemoved
  <1>2. /\ TConf' = <<>> /\ THome' = [p \in Pools |-> [k \in Keys |-> NoBinding]]
        /\ TCool' = [m \in Members |-> 0]
    BY <1>1 DEF TConf, THome, TCool
  <1>3. Table!Pools = Pools /\ Table!NoBinding = NoBinding /\ Table!NoConf = <<>>  BY TableNames
  <1>4. QED  BY <1>1, <1>2, <1>3, Zenon DEF Table!TRemove, TConf, THome, TCool

\* Every step of the engine is one of the sticky table, or none.
LEMMA TableStep == IndInv /\ [Next]_vars => Table!TNext \/ UNCHANGED Table!tvars
  <1> SUFFICES ASSUME IndInv, [Next]_vars PROVE Table!TNext \/ UNCHANGED Table!tvars  OBVIOUS
  <1>1. ASSUME NEW p \in Procs, CallStep(p) PROVE Table!TNext \/ UNCHANGED Table!tvars
    BY <1>1, CallTable
  <1>2. ASSUME NEW c \in Configs, OnGroupChanged(c) PROVE Table!TNext
    BY <1>2, ConfigTable, Zenon DEF Table!TNext
  <1>3. CASE GroupRemoved  BY <1>3, RemoveTable, Zenon DEF Table!TNext
  <1>4. CASE SweepOnce  BY <1>4, SweepTable, Zenon DEF Table!TNext
  <1>5. CASE Stop
    <2>1. UNCHANGED <<inc, clock, states>>  BY <1>5 DEF Stop
    <2>2. QED  BY <2>1, TableStutter
  <1>6. CASE Tick
    <2>1. clock' = clock + 1 /\ inc' = inc /\ states' = states  BY <1>6 DEF Tick
    <2>2. TConf' = TConf /\ THome' = THome /\ TCool' = TCool  BY <2>1 DEF TConf, THome, TCool
    <2>3. Table!TTick  BY <2>1, <2>2, Zenon DEF Table!TTick, TConf, THome, TCool
    <2>4. QED  BY <2>3, Zenon DEF Table!TNext
  <1>7. CASE UNCHANGED vars
    <2>1. UNCHANGED <<inc, clock, states>>  BY <1>7 DEF vars
    <2>2. QED  BY <2>1, TableStutter
  <1>8. QED  BY <1>1, <1>2, <1>3, <1>4, <1>5, <1>6, <1>7 DEF Next

\* The engine starts as an empty sticky table.
LEMMA TableInit == Init => Table!TInit
  <1> SUFFICES ASSUME Init PROVE Table!TInit  OBVIOUS
  <1>1. PICK c \in Configs : states = <<NewState(c)>> /\ inc = 1  BY DEF Init
  <1>2. /\ NewState(c).conf = c /\ NewState(c).bind = [p \in Pools |-> [k \in Keys |-> NoBinding]]
        /\ NewState(c).cool = [m \in Members |-> 0]
    BY NewStateOK
  <1>3. clock = 1  BY DEF Init
  <1>4. inc # 0 /\ states[inc] = NewState(c)  BY <1>1
  <1>5. TConf = c /\ THome = NewState(c).bind /\ TCool = NewState(c).cool
    BY <1>2, <1>4, Zenon DEF TConf, THome, TCool
  <1>6. Table!Pools = Pools /\ Table!NoBinding = NoBinding  BY TableNames
  <1>7. QED  BY <1>2, <1>3, <1>5, <1>6, Zenon DEF Table!TInit, TConf, THome, TCool

\* Whatever the interleaving of calls, configuration changes, sweeps, removal
\* and time, the engine changes the group's table only the way StickyTable
\* allows: a conversation leaves its member only when that cools, the
\* conversation idled, or the member left, and it is bound to a member of the
\* pool that was healthy at the time its call read.
THEOREM AffinityKept == Spec => KeepsAffinity
  <1>1. QED
    BY EngineInductive, TableInit, TableStep, PTL DEF Spec, KeepsAffinity, Table!TSpec

-----------------------------------------------------------------------------
(* Routing.  What the engine's calls do to a state, as requests see it.     *)

\* While requests are routed a member with a cooldown row cools.
Cooled(st) == {m \in Members : st.cool[m] # 0}
Lasting(st) == \A m \in Members : st.cool[m] = 0 \/ st.cool[m] > RouteClock
Sound(st) == GroupOK(st) /\ Lasting(st)
Free(st, pool) == PoolOf(st, pool) \ Cooled(st)
Usable(st, s) == (DOMAIN st.conf \cap s) \ Cooled(st)

\* What a call of any request leaves of a state: members only begin to cool, and
\* while a pool has a free member its conversation is bound to a member of the
\* pool or stays where it was.
Turned(st, t) ==
    /\ Sound(t) /\ t.conf = st.conf /\ Cooled(st) \subseteq Cooled(t)
    /\ \A q \in Pools : Free(st, q) # {} /\ Bound(t, q, Key) =>
        \/ t.bind[q][Key].m \in PoolOf(st, q)
        \/ Bound(st, q, Key) /\ t.bind[q][Key].m = st.bind[q][Key].m

\* A pick that left t and answered m: while the pool has a free member m does not
\* cool, the conversation is bound to it if to any, and it is of the pool unless
\* the conversation was.
Picked(t, pool, m) ==
    /\ m \in Members \cup {NoMember}
    /\ m = NoMember => PoolOf(t, pool) = {}
    /\ Free(t, pool) # {} =>
        /\ m \notin Cooled(t)
        /\ m \in PoolOf(t, pool) \/ Bound(t, pool, Key)
        /\ Bound(t, pool, Key) => t.bind[pool][Key].m = m

\* The pools make up the group.
LEMMA PoolsCover ==
  ASSUME NEW st, GroupOK(st)
  PROVE  /\ DOMAIN st.conf = PoolOf(st, "default") \cup PoolOf(st, "backup")
         /\ DOMAIN st.conf \subseteq Members /\ IsFiniteSet(DOMAIN st.conf)
         /\ \A q : PoolOf(st, q) \subseteq DOMAIN st.conf /\ IsFiniteSet(PoolOf(st, q))
  <1>1. st.conf \in Configs  BY StateTypes DEF GroupOK
  <1>2. \A m \in DOMAIN st.conf : st.conf[m] \in Pools  BY <1>1, GroupAssumption
  <1>3. DOMAIN st.conf \subseteq Members  BY <1>1, GroupAssumption
  <1>4. DOMAIN st.conf = PoolOf(st, "default") \cup PoolOf(st, "backup")
    BY <1>2 DEF PoolOf, Pools
  <1>5. \A q : PoolOf(st, q) \subseteq DOMAIN st.conf  BY DEF PoolOf
  <1>6. IsFiniteSet(DOMAIN st.conf)  BY <1>3, RoutingAssumption, FS_Subset
  <1>7. \A q : IsFiniteSet(PoolOf(st, q))  BY <1>5, <1>6, FS_Subset
  <1>8. QED  BY <1>3, <1>4, <1>5, <1>6, <1>7

\* Cooling is having a cooldown row.
LEMMA CoolingIsCooled ==
  ASSUME NEW st, Sound(st), NEW now \in 1..RouteClock
  PROVE  /\ \A m \in Members : IsCooling(st, m, now) <=> m \in Cooled(st)
         /\ \A q : Healthy(st, q, now) = Free(st, q)
  <1>1. st.cool \in [Members -> Nat] /\ RouteClock \in Nat
    BY StateTypes, RoutingAssumption DEF Sound, GroupOK
  <1>2. ASSUME NEW m \in Members PROVE IsCooling(st, m, now) <=> m \in Cooled(st)
    <2>1. st.cool[m] \in Nat /\ (st.cool[m] = 0 \/ st.cool[m] > RouteClock)
      BY <1>1 DEF Sound, Lasting
    <2>2. IsCooling(st, m, now) <=> st.cool[m] # 0  BY <1>1, <2>1 DEF IsCooling
    <2>3. QED  BY <2>2 DEF Cooled
  <1>3. \A q : PoolOf(st, q) \subseteq Members  BY PoolsCover DEF Sound
  <1>4. \A q : Healthy(st, q, now) = Free(st, q)  BY <1>2, <1>3 DEF Healthy, Free
  <1>5. QED  BY <1>2, <1>4

\* A state with the same members and cooldowns as a sound one.
LEMMA SameSound ==
  ASSUME NEW st, NEW t, Sound(st), GroupOK(t), t.conf = st.conf, t.cool = st.cool
  PROVE  /\ Sound(t) /\ Cooled(t) = Cooled(st)
         /\ \A q : PoolOf(t, q) = PoolOf(st, q) /\ Free(t, q) = Free(st, q)
  BY DEF Sound, Lasting, Cooled, PoolOf, Free

\* The full path of a pick.
LEMMA FullPicked ==
  ASSUME NEW st, Sound(st), NEW pool \in Pools, NEW now \in 1..RouteClock,
         NEW o \in FullPick(st, pool, Key, now)
  PROVE  Turned(st, o.st) /\ Picked(o.st, pool, o.m) /\ o.st.cool = st.cool
  <1> DEFINE d == Unbind(st, pool, Key)
  <1>1. now \in Nat /\ Key \in Keys \cup {NoKey} /\ NoKey \notin Keys /\ GroupOK(st)
    BY RoutingAssumption, GroupAssumption DEF Sound
  <1>2. /\ Picks(st, o.st, now) /\ o.m \in Members \cup {NoMember}
        /\ o.m \in Members => ~IsCooling(st, o.m, now) \/ Healthy(st, pool, now) = {}
    BY <1>1, FullPicks
  <1>3. GroupOK(o.st) /\ o.st.conf = st.conf /\ o.st.cool = st.cool  BY <1>2 DEF Picks
  <1>4. /\ Sound(o.st) /\ Cooled(o.st) = Cooled(st)
        /\ \A q : PoolOf(o.st, q) = PoolOf(st, q) /\ Free(o.st, q) = Free(st, q)
    BY <1>3, SameSound
  <1>5. o.m \in Members /\ Free(st, pool) # {} => o.m \notin Cooled(st)
    BY <1>2, CoolingIsCooled
  <1>6. Healthy(d, pool, now) = Free(st, pool) /\ PoolOf(d, pool) = PoolOf(st, pool)
    BY <1>1, UnbindReads, CoolingIsCooled
  <1>7. NoMember \notin Members /\ PoolOf(st, pool) \subseteq Members /\ Free(st, pool) \subseteq PoolOf(st, pool)
    BY <1>1, PoolsCover, GroupAssumption DEF Free
  <1>8. SUFFICES
          /\ o.m = NoMember => PoolOf(st, pool) = {}
          /\ Free(st, pool) # {} =>
              /\ o.m \in PoolOf(st, pool) \/ Bound(o.st, pool, Key)
              /\ Bound(o.st, pool, Key) => o.st.bind[pool][Key].m = o.m
              /\ Bound(o.st, pool, Key) =>
                    \/ o.m \in PoolOf(st, pool)
                    \/ Bound(st, pool, Key) /\ o.m = st.bind[pool][Key].m
          /\ \A q \in Pools \ {pool} : Bound(o.st, q, Key) =>
                    Bound(st, q, Key) /\ o.st.bind[q][Key].m = st.bind[q][Key].m
    BY <1>2, <1>3, <1>4, <1>5, <1>7 DEF Turned, Picked
  <1>9. ASSUME NEW b \in BindingType, Key \in Keys, o.st.bind = SetEntry(st, pool, Key, b)
        PROVE  /\ o.st.bind[pool][Key] = b
               /\ \A q \in Pools \ {pool} : o.st.bind[q][Key] = st.bind[q][Key]
    BY <1>1, <1>9, EntryType DEF GroupOK
  <1>10. ASSUME Key \in Keys, o.st = d
         PROVE  /\ ~Bound(o.st, pool, Key)
                /\ \A q \in Pools \ {pool} : o.st.bind[q][Key] = st.bind[q][Key]
    <2>1. o.st.bind = SetEntry(st, pool, Key, NoBinding)  BY <1>1, <1>10, UnbindOK
    <2>2. NoBinding \in BindingType  BY <1>1, StateTypes DEF GroupOK
    <2>3. QED  BY <1>9, <1>10, <2>1, <2>2 DEF Bound
  <1>11. ASSUME Key = NoKey PROVE \A s, q : ~Bound(s, q, Key)  BY <1>11 DEF Bound
  <1>12. CASE o = Answer(st, NoMember, "none") /\ PoolOf(st, pool) = {}
    <2>1. o.st = st /\ o.m = NoMember  BY <1>12 DEF Answer
    <2>2. QED  BY <1>7, <1>12, <2>1
  <1>13. CASE Valid(st, pool, Key, now) /\ o = Answer(Touch(st, pool, Key, now), st.bind[pool][Key].m, "sticky")
    <2> DEFINE b == [m |-> st.bind[pool][Key].m, at |-> now]
    <2>1. o.st = Touch(st, pool, Key, now) /\ o.m = st.bind[pool][Key].m  BY <1>13 DEF Answer
    <2>2. Key \in Keys /\ Bound(st, pool, Key)  BY <1>1, <1>13 DEF Valid, Bound
    <2>3. o.st.bind = SetEntry(st, pool, Key, b)  BY <1>1, <2>1, <2>2, TouchFields DEF GroupOK
    <2>4. o.m \in Members  BY <1>1, <1>13, <2>1, PoolsCover DEF Valid, Exists
    <2>5. b \in BindingType /\ b # NoBinding /\ b.m = o.m  BY <1>1, <2>1, <2>4, StateTypes DEF GroupOK
    <2> HIDE DEF b
    <2>6. o.st.bind[pool][Key] = b /\ \A q \in Pools \ {pool} : o.st.bind[q][Key] = st.bind[q][Key]
      BY <1>9, <2>2, <2>3, <2>5
    <2>7. Bound(o.st, pool, Key) /\ o.st.bind[pool][Key].m = o.m  BY <1>1, <2>2, <2>5, <2>6 DEF Bound
    <2>8. QED  BY <1>7, <2>1, <2>2, <2>4, <2>6, <2>7 DEF Bound
  <1>14. ASSUME NEW m \in Healthy(d, pool, now),
                o = Answer(IF Key = NoKey THEN d ELSE Bind(d, pool, Key, m, now), m, "fresh")
         PROVE  /\ o.m \in PoolOf(st, pool)
                /\ Bound(o.st, pool, Key) => o.st.bind[pool][Key].m = o.m
                /\ \A q \in Pools \ {pool} : Bound(o.st, q, Key) =>
                      Bound(st, q, Key) /\ o.st.bind[q][Key].m = st.bind[q][Key].m
    <2>1. o.st = (IF Key = NoKey THEN d ELSE Bind(d, pool, Key, m, now)) /\ o.m = m
      BY <1>14 DEF Answer
    <2>2. m \in PoolOf(st, pool)  BY <1>6, <1>7
    <2>3. CASE Key = NoKey  BY <1>11, <2>1, <2>2, <2>3
    <2>4. CASE Key # NoKey
      <3> DEFINE b == [m |-> m, at |-> now]
      <3>1. Key \in Keys  BY <1>1, <2>4
      <3>2. GroupOK(d) /\ d.conf = st.conf /\ d.bind = SetEntry(st, pool, Key, NoBinding)
        BY <1>1, <3>1, UnbindOK
      <3>3. m \in DOMAIN d.conf  BY <1>1, <2>2, <3>2, PoolsCover
      <3>4. o.st.bind = SetEntry(d, pool, Key, b)
        BY <1>1, <2>1, <2>4, <3>1, <3>2, <3>3, BindOK
      <3>5. b \in BindingType /\ b.m = m  BY <1>1, <1>7, <2>2, StateTypes DEF GroupOK
      <3>6. NoBinding \in BindingType /\ d \in GState /\ st \in GState  BY <1>1, <3>2, StateTypes DEF GroupOK
      <3> HIDE DEF b, d
      <3>7. /\ o.st.bind[pool][Key] = b
            /\ \A q \in Pools \ {pool} : o.st.bind[q][Key] = d.bind[q][Key]
        BY <3>1, <3>4, <3>5, <3>6, EntryType
      <3>8. \A q \in Pools \ {pool} : d.bind[q][Key] = st.bind[q][Key]
        BY <3>1, <3>2, <3>6, EntryType
      <3>9. QED  BY <2>1, <2>2, <3>5, <3>7, <3>8 DEF Bound
    <2>5. QED  BY <2>3, <2>4
  <1>15. ASSUME o.st = d, Free(st, pool) = {}, o.m = NoMember => PoolOf(st, pool) = {}
         PROVE  /\ \A q \in Pools \ {pool} : Bound(o.st, q, Key) =>
                      Bound(st, q, Key) /\ o.st.bind[q][Key].m = st.bind[q][Key].m
    <2>1. CASE Key = NoKey  BY <1>11, <2>1
    <2>2. CASE Key \in Keys
      <3>1. \A q \in Pools \ {pool} : o.st.bind[q][Key] = st.bind[q][Key]  BY <1>10, <1>15, <2>2
      <3>2. QED  BY <3>1 DEF Bound
    <2>3. QED  BY <1>1, <2>1, <2>2
  <1>16. CASE o = Answer(d, NoMember, "none") /\ PoolOf(d, pool) = {}
    <2>1. o.st = d /\ o.m = NoMember  BY <1>16 DEF Answer
    <2>2. Free(st, pool) = {} /\ PoolOf(st, pool) = {}  BY <1>6, <1>7, <1>16
    <2>3. QED  BY <1>15, <2>1, <2>2
  <1>17. ASSUME NEW m \in Soonest(d, pool, now), o = Answer(d, m, "soonest"), Healthy(d, pool, now) = {}
         PROVE  /\ Free(st, pool) = {} /\ o.m # NoMember
                /\ \A q \in Pools \ {pool} : Bound(o.st, q, Key) =>
                      Bound(st, q, Key) /\ o.st.bind[q][Key].m = st.bind[q][Key].m
    <2>1. o.st = d /\ o.m = m  BY <1>17 DEF Answer
    <2>2. m \in PoolOf(st, pool)  BY <1>6, <1>17 DEF Soonest
    <2>3. Free(st, pool) = {} /\ o.m # NoMember  BY <1>6, <1>7, <1>17, <2>1, <2>2
    <2>4. QED  BY <1>15, <2>1, <2>3
  <1>18. \/ o = Answer(st, NoMember, "none") /\ PoolOf(st, pool) = {}
         \/ Valid(st, pool, Key, now) /\ o = Answer(Touch(st, pool, Key, now), st.bind[pool][Key].m, "sticky")
         \/ \E m \in Healthy(d, pool, now) :
                    o = Answer(IF Key = NoKey THEN d ELSE Bind(d, pool, Key, m, now), m, "fresh")
         \/ o = Answer(d, NoMember, "none") /\ PoolOf(d, pool) = {}
         \/ Healthy(d, pool, now) = {} /\ \E m \in Soonest(d, pool, now) : o = Answer(d, m, "soonest")
    BY Zenon DEF FullPick
  <1> HIDE DEF d
  <1>19. CASE \E m \in Healthy(d, pool, now) :
                    o = Answer(IF Key = NoKey THEN d ELSE Bind(d, pool, Key, m, now), m, "fresh")
    BY <1>7, <1>14, <1>19
  <1>20. CASE Healthy(d, pool, now) = {} /\ \E m \in Soonest(d, pool, now) : o = Answer(d, m, "soonest")
    BY <1>17, <1>20
  <1>21. QED  BY <1>12, <1>13, <1>16, <1>18, <1>19, <1>20

-----------------------------------------------------------------------------
(* The engine's calls as the requests make them.                           *)

\* The operators of a group's state are the engine's.
LEMMA SameReads ==
  ASSUME NEW st, NEW q, NEW m, NEW how, NEW now
  PROVE  /\ Routing!PoolOf(st, q) = PoolOf(st, q)
         /\ Routing!Healthy(st, q, now) = Healthy(st, q, now)
         /\ Routing!IsCooling(st, m, now) <=> IsCooling(st, m, now)
         /\ Routing!NewState(m) = NewState(m)
         /\ Routing!Cool(st, m, now) = Cool(st, m, now)
         /\ Routing!Answer(st, m, how) = Answer(st, m, how)
         /\ Routing!NoMember = NoMember /\ Routing!Pools = Pools
  BY DEF Routing!PoolOf, PoolOf, Routing!Healthy, Healthy, Routing!IsCooling, IsCooling,
         Routing!NewState, NewState, Routing!Pools, Pools, Routing!NoBinding, NoBinding,
         Routing!NoMember, NoMember, Routing!Cool, Cool, Routing!Answer, Answer

\* The library's counting as the module sees it.
LEMMA SameCounting ==
  ASSUME NEW S
  PROVE  Routing!Cardinality(S) = Cardinality(S)
  BY DEF Routing!Cardinality, Cardinality

\* The full path of a pick is the engine's.
LEMMA SamePick ==
  ASSUME NEW st, NEW q, NEW k, NEW now
  PROVE  Routing!FullPick(st, q, k, now) = FullPick(st, q, k, now)
  BY Zenon DEF Routing!FullPick, FullPick, Routing!PoolOf, PoolOf, Routing!Answer, Answer,
     Routing!NoMember, NoMember, Routing!Valid, Valid, Routing!Touch, Touch, Routing!Unbind, Unbind,
     Routing!Healthy, Healthy, Routing!NoKey, NoKey, Routing!Bind, Bind, Routing!Soonest, Soonest,
     Routing!Bound, Bound, Routing!NoBinding, NoBinding, Routing!Expired, Expired,
     Routing!Exists, Exists, Routing!IsCooling, IsCooling

\* So is the write section of an exclusion.
LEMMA SameExclude ==
  ASSUME NEW st, NEW q, NEW k, NEW m, NEW now
  PROVE  Routing!FullExclude(st, q, k, m, now) = FullExclude(st, q, k, m, now)
  BY Zenon DEF Routing!FullExclude, FullExclude, Routing!PoolOf, PoolOf, Routing!Answer, Answer,
     Routing!NoMember, NoMember, Routing!Cool, Cool, Routing!Healthy, Healthy, Routing!NoKey, NoKey,
     Routing!Bind, Bind, Routing!Soonest, Soonest, Routing!Bound, Bound, Routing!NoBinding, NoBinding,
     Routing!Exists, Exists, Routing!IsCooling, IsCooling

\* And a reconfiguration.
LEMMA SameReconfigured ==
  ASSUME NEW st, NEW c
  PROVE  Routing!Reconfigured(st, c) = Reconfigured(st, c)
  BY Zenon, SameCounting DEF Routing!Reconfigured, Reconfigured, Routing!Pools, Pools,
     Routing!NoBinding, NoBinding, Routing!NoMember, NoMember, Routing!Bound, Bound,
     Routing!NoKey, NoKey, Routing!Cardinality, Cardinality

\* A state that a call leaves alone.
LEMMA SameTurned ==
  ASSUME NEW st, Sound(st)
  PROVE  Turned(st, st)
  BY DEF Turned

\* getOrSelect: a lone default is the whole pool.
LEMMA GetPicks ==
  ASSUME NEW st, Sound(st), clock \in 1..RouteClock, NEW o \in Routing!Get(st)
  PROVE  Turned(st, o.st) /\ Picked(o.st, "default", o.m)
  <1>1. CASE Cardinality(DOMAIN st.conf) = 1 /\ PoolOf(st, "backup") = {}
    <2> DEFINE x == CHOOSE m \in DOMAIN st.conf : TRUE
    <2>1. o = Answer(st, x, "single")
      <3>1. o \in {Answer(st, x, "single")}
        BY <1>1, SameReads, SameCounting, Zenon DEF Routing!Get, Routing!HasBackupPool
      <3>2. QED  BY <3>1
    <2>2. o.st = st /\ o.m = x  BY <2>1 DEF Answer
    <2>3. /\ DOMAIN st.conf = PoolOf(st, "default") /\ DOMAIN st.conf \subseteq Members
          /\ IsFiniteSet(DOMAIN st.conf)
      BY <1>1, PoolsCover DEF Sound
    <2>4. PICK y : DOMAIN st.conf = {y}  BY <1>1, <2>3, FS_Singleton
    <2>5. x = y  BY <2>4
    <2> HIDE DEF x
    <2>6. ASSUME Bound(st, "default", Key) PROVE st.bind["default"][Key].m \in DOMAIN st.conf
      <3>1. Key \in Keys  BY <2>6, RoutingAssumption DEF Bound
      <3>2. QED  BY <2>6, <3>1 DEF Sound, GroupOK, PoolOK, BoundKeys, Exists, Pools
    <2>7. Picked(st, "default", x)
      BY <2>3, <2>4, <2>5, <2>6, GroupAssumption DEF Picked, Free
    <2>8. QED  BY <2>2, <2>7, SameTurned
  <1>2. CASE ~(Cardinality(DOMAIN st.conf) = 1 /\ PoolOf(st, "backup") = {})
    <2>1. o \in FullPick(st, "default", Key, clock)
      BY <1>2, SameReads, SameCounting, SamePick DEF Routing!Get, Routing!HasBackupPool
    <2>2. QED  BY <2>1, FullPicked DEF Pools
  <1>3. QED  BY <1>1, <1>2

\* pickBackupMember.
LEMMA BackupPicks ==
  ASSUME NEW st, Sound(st), clock \in 1..RouteClock, NEW o \in Routing!Backup(st)
  PROVE  Turned(st, o.st) /\ Picked(o.st, "backup", o.m)
  <1>1. o \in FullPick(st, "backup", Key, clock)  BY SamePick DEF Routing!Backup
  <1>2. QED  BY <1>1, FullPicked DEF Pools

\* A section that cools a member.
LEMMA ExcludesTurn ==
  ASSUME NEW st, Sound(st), NEW m \in Members, NEW now \in 1..RouteClock, NEW t, Excludes(st, t, m, now)
  PROVE  Turned(st, t) /\ m \in Cooled(t)
  <1>1. /\ GroupOK(t) /\ t.conf = st.conf /\ t.cool = [st.cool EXCEPT ![m] = now + Cooldown]
        /\ GroupOK(st) /\ st \in GState
    BY DEF Excludes, Sound, GroupOK
  <1>2. st.cool \in [Members -> Nat] /\ now \in Nat /\ Cooldown \in Nat \ {0} /\ RouteClock \in Nat
        /\ RouteClock <= Cooldown /\ now >= 1
    BY <1>1, StateTypes, GroupAssumption, RoutingAssumption
  <1>3. t.cool[m] = now + Cooldown /\ \A x \in Members \ {m} : t.cool[x] = st.cool[x]
    BY <1>1, <1>2
  <1>4. now + Cooldown > RouteClock /\ now + Cooldown # 0  BY <1>2
  <1>5. Lasting(t)  BY <1>3, <1>4 DEF Lasting, Sound
  <1>6. m \in Cooled(t) /\ Cooled(st) \subseteq Cooled(t)  BY <1>3, <1>4 DEF Cooled
  <1>7. ASSUME NEW q \in Pools, Bound(t, q, Key)
        PROVE  \/ t.bind[q][Key].m \in PoolOf(st, q)
               \/ Bound(st, q, Key) /\ t.bind[q][Key].m = st.bind[q][Key].m
    <2>1. CASE t.bind = st.bind  BY <1>7, <2>1 DEF Bound
    <2>2. ASSUME NEW p \in Pools, NEW k \in Keys, NEW h \in DOMAIN st.conf, st.conf[h] = p,
                 t.bind = SetEntry(st, p, k, [m |-> h, at |-> now])
          PROVE  \/ t.bind[q][Key].m \in PoolOf(st, q)
                 \/ Bound(st, q, Key) /\ t.bind[q][Key].m = st.bind[q][Key].m
      <3> DEFINE b == [m |-> h, at |-> now]
      <3>1. b \in BindingType /\ b.m = h  BY <1>1, <1>2, StateTypes
      <3> HIDE DEF b
      <3>2. Key \in Keys  BY <1>7, RoutingAssumption DEF Bound
      <3>3. t.bind[q][Key] = IF q = p /\ Key = k THEN b ELSE st.bind[q][Key]
        BY <1>1, <2>2, <3>1, <3>2, EntryType DEF b
      <3>4. CASE q = p /\ Key = k  BY <2>2, <3>1, <3>3, <3>4 DEF PoolOf
      <3>5. CASE ~(q = p /\ Key = k)  BY <1>7, <3>3, <3>5 DEF Bound
      <3>6. QED  BY <3>4, <3>5
    <2>3. QED  BY <2>1, <2>2 DEF Excludes
  <1>8. QED  BY <1>1, <1>5, <1>6, <1>7 DEF Turned, Sound

\* ExcludeAndReselect and its backup twin: the member cools, but for the lone
\* member of a group and for a pool that is empty.
LEMMA ExcludeTurns ==
  ASSUME NEW st, Sound(st), clock \in 1..RouteClock, NEW pool \in Pools, NEW m \in Members,
         NEW o \in Routing!Exclude(st, pool, m)
  PROVE  /\ Turned(st, o.st) /\ o.m \in Members \cup {NoMember}
         /\ m \in Cooled(o.st) \/ Cardinality(DOMAIN o.st.conf) = 1 \/ PoolOf(o.st, pool) = {}
  <1>1. Key \in Keys \cup {NoKey} /\ GroupOK(st) /\ clock \in Nat
    BY RoutingAssumption DEF Sound
  <1>2. \/ /\ o = Answer(st, NoMember, "none")
           /\ Cardinality(DOMAIN st.conf) = 1 \/ PoolOf(st, pool) = {}
        \/ o = Answer(Cool(st, m, clock), NoMember, "none")
        \/ o \in FullExclude(st, pool, Key, m, clock)
    <2>1. Routing!Exclude(st, pool, m) =
            IF pool = "default" /\ Cardinality(DOMAIN st.conf) = 1 THEN {Answer(st, NoMember, "none")}
            ELSE IF pool = "backup" /\ ~(PoolOf(st, "backup") # {}) THEN {Answer(st, NoMember, "none")}
            ELSE IF pool = "backup" /\ Cardinality(PoolOf(st, "backup")) = 1
            THEN {Answer(Cool(st, m, clock), NoMember, "none")}
            ELSE FullExclude(st, pool, Key, m, clock)
      <3>1. /\ Routing!PoolOf(st, "backup") = PoolOf(st, "backup")
            /\ Routing!Answer(st, Routing!NoMember, "none") = Answer(st, NoMember, "none")
            /\ Routing!Answer(Routing!Cool(st, m, clock), Routing!NoMember, "none")
                = Answer(Cool(st, m, clock), NoMember, "none")
        BY SameReads
      <3>2. /\ Routing!Cardinality(DOMAIN st.conf) = Cardinality(DOMAIN st.conf)
            /\ Routing!Cardinality(PoolOf(st, "backup")) = Cardinality(PoolOf(st, "backup"))
        BY SameCounting
      <3>3. Routing!FullExclude(st, pool, Key, m, clock) = FullExclude(st, pool, Key, m, clock)
        BY SameExclude
      <3>4. QED  BY <3>1, <3>2, <3>3 DEF Routing!Exclude, Routing!HasBackupPool
    <2>2. QED  BY <2>1, Zenon
  <1>3. CASE /\ o = Answer(st, NoMember, "none")
             /\ Cardinality(DOMAIN st.conf) = 1 \/ PoolOf(st, pool) = {}
    <2>1. o.st = st /\ o.m = NoMember  BY <1>3 DEF Answer
    <2>2. QED  BY <1>3, <2>1, SameTurned
  <1>4. CASE o = Answer(Cool(st, m, clock), NoMember, "none")
    <2>1. o.st = Cool(st, m, clock) /\ o.m = NoMember  BY <1>4 DEF Answer
    <2>2. Excludes(st, o.st, m, clock)  BY <1>1, <2>1, CoolExcludes
    <2>3. QED  BY <2>1, <2>2, ExcludesTurn
  <1>5. CASE o \in FullExclude(st, pool, Key, m, clock)
    <2>1. Excludes(st, o.st, m, clock) /\ o.m \in Members \cup {NoMember}  BY <1>1, <1>5, FullExcludes
    <2>2. QED  BY <2>1, ExcludesTurn
  <1>6. QED  BY <1>2, <1>3, <1>4, <1>5

-----------------------------------------------------------------------------
(* What a request has established.                                         *)

RoutePCs == {"start", "hasGroup", "gate", "pickDefault", "pickBackup", "unservable", "check",
             "stale", "run", "exclude", "reBackup", "reStale", "rebuild", "done"}
Progress == [pc : RoutePCs, conf : Configs \cup {<<>>}, member : Members \cup {NoMember},
             pool : Pools, attempt : Nat, failed : Members \cup {NoMember}, runs : Nat]

\* The location of a round over a pool.
Picking(pool) == IF pool = "default" THEN "pickDefault" ELSE "pickBackup"
AtPick(r) == r.pc \in {"check", "stale"}
Trying(r, pool) == r.pc = Picking(pool) \/ (AtPick(r) /\ r.pool = pool)
Tried(r) == IF AtPick(r) THEN {r.member} ELSE {}

\* The conversation is bound within the pool, or to a member that cools or is in x.
Tame(st, pool, x) ==
    Bound(st, pool, Key) => st.bind[pool][Key].m \in PoolOf(st, pool) \cup Cooled(st) \cup x
CooledOf(st, pool, r) == (Cooled(st) \cap PoolOf(st, pool)) \ Tried(r)
Lost(st, pool, r) == Cardinality(CooledOf(st, pool, r))

\* While a pool has a good member, the rounds over it are no more than its members
\* that cool; one more when a round went to a member of the other pool to which
\* the conversation was bound, which cools then.
RoundsOK(r, g, st) ==
    \A pool \in Pools : Trying(r, pool) /\ g \cap PoolOf(st, pool) # {} =>
        \/ /\ r.attempt <= Lost(st, pool, r)
           /\ Tried(r) \subseteq PoolOf(st, pool) \/ Tame(st, pool, Tried(r))
        \/ /\ r.attempt <= Lost(st, pool, r) + 1
           /\ Tried(r) \subseteq PoolOf(st, pool) /\ Tame(st, pool, {})

\* What holds of a request whatever the engine does.
ProgressOK(r) ==
    /\ r \in Progress
    /\ r.pc # "start" => r.conf \in Configs
    /\ r.pc \in {"hasGroup", "gate"} => r.attempt = 0
    /\ r.pc \in {"check", "stale", "run", "exclude", "reStale"} => r.member \in Members
    /\ r.runs <= 2 /\ (r.pc \notin {"run", "done"} => r.runs <= 1)
    /\ r.attempt <= Cardinality(Members) + 1 /\ (AtPick(r) => r.attempt <= Cardinality(Members))

OnBackup(r) == r.pc \in {"pickBackup", "unservable"} \/ (AtPick(r) /\ r.pool = "backup")
Rewriting(r) == r.pc \in {"hasGroup", "gate", "pickDefault", "pickBackup"} \/ AtPick(r)

\* What holds of a request r, its good members g, the engine's state and the
\* servable members.
RequestOK(r, g, st, s) ==
    /\ ProgressOK(r)
    /\ g \subseteq Usable(st, s)
    /\ Rewriting(r) /\ g # {} => r.conf = st.conf
    /\ OnBackup(r) => g \cap PoolOf(st, "default") = {}
    /\ r.pc = "unservable" => g = {}
    /\ r.pc = "stale" => r.member \notin g
    /\ RoundsOK(r, g, st)

\* The members of a pool that cool are finitely many.
LEMMA LostIsFinite ==
  ASSUME NEW st, Sound(st), NEW pool, NEW r
  PROVE  /\ IsFiniteSet(CooledOf(st, pool, r)) /\ Lost(st, pool, r) \in Nat
         /\ IsFiniteSet(PoolOf(st, pool)) /\ Cardinality(PoolOf(st, pool)) \in Nat
         /\ Cardinality(PoolOf(st, pool)) <= Cardinality(Members) /\ Cardinality(Members) \in Nat
  <1>1. IsFiniteSet(PoolOf(st, pool)) /\ PoolOf(st, pool) \subseteq Members  BY PoolsCover DEF Sound
  <1>2. CooledOf(st, pool, r) \subseteq PoolOf(st, pool)  BY DEF CooledOf
  <1>3. IsFiniteSet(CooledOf(st, pool, r))  BY <1>1, <1>2, FS_Subset
  <1>4. /\ Lost(st, pool, r) \in Nat /\ Cardinality(PoolOf(st, pool)) \in Nat /\ Cardinality(Members) \in Nat
    BY <1>1, <1>3, RoutingAssumption, FS_CardinalityType DEF Lost
  <1>5. Cardinality(PoolOf(st, pool)) <= Cardinality(Members)  BY <1>1, RoutingAssumption, FS_Subset
  <1>6. QED  BY <1>1, <1>3, <1>4, <1>5

\* Steps of other requests and of administrators: a request keeps what it has
\* established when members begin to cool and good members are lost.
LEMMA TurnKeeps ==
  ASSUME NEW st, Sound(st), NEW t, Turned(st, t), NEW s, NEW s2, NEW r, NEW g, NEW h,
         RequestOK(r, g, st, s), h \subseteq g, h \subseteq Usable(t, s2)
  PROVE  RequestOK(r, h, t, s2)
  <1>1. Sound(t) /\ t.conf = st.conf /\ Cooled(st) \subseteq Cooled(t)  BY DEF Turned
  <1>2. \A q : PoolOf(t, q) = PoolOf(st, q)  BY <1>1 DEF PoolOf
  <1>3. ASSUME NEW pool \in Pools, Trying(r, pool), h \cap PoolOf(t, pool) # {}
        PROVE  \/ /\ r.attempt <= Lost(t, pool, r)
                  /\ Tried(r) \subseteq PoolOf(t, pool) \/ Tame(t, pool, Tried(r))
               \/ /\ r.attempt <= Lost(t, pool, r) + 1
                  /\ Tried(r) \subseteq PoolOf(t, pool) /\ Tame(t, pool, {})
    <2>1. g \cap PoolOf(st, pool) # {} /\ Free(st, pool) # {}
      BY <1>1, <1>2, <1>3 DEF Usable, Free
    <2>2. CooledOf(st, pool, r) \subseteq CooledOf(t, pool, r)  BY <1>1, <1>2 DEF CooledOf
    <2>3. Lost(st, pool, r) <= Lost(t, pool, r) /\ Lost(st, pool, r) \in Nat /\ Lost(t, pool, r) \in Nat
      BY <1>1, <2>2, LostIsFinite, FS_Subset DEF Lost
    <2>4. \A x : Tame(st, pool, x) => Tame(t, pool, x)
      BY <1>1, <1>2, <2>1 DEF Tame, Turned
    <2>5. r.attempt \in Nat  BY DEF RequestOK, ProgressOK, Progress
    <2>6. \/ /\ r.attempt <= Lost(st, pool, r)
             /\ Tried(r) \subseteq PoolOf(st, pool) \/ Tame(st, pool, Tried(r))
          \/ /\ r.attempt <= Lost(st, pool, r) + 1
             /\ Tried(r) \subseteq PoolOf(st, pool) /\ Tame(st, pool, {})
      BY <1>3, <2>1 DEF RequestOK, RoundsOK
    <2> HIDE DEF Lost, Tame
    <2>7. QED  BY <1>2, <2>3, <2>4, <2>5, <2>6
  <1>4. RoundsOK(r, h, t)  BY <1>3 DEF RoundsOK
  <1>5. QED  BY <1>1, <1>2, <1>4 DEF RequestOK

\* A request that is in no round over a pool.
LEMMA OutOfRounds ==
  ASSUME NEW r, r.pc \notin {"pickDefault", "pickBackup", "check", "stale"}, NEW g, NEW st
  PROVE  RoundsOK(r, g, st) /\ ~AtPick(r)
  BY DEF RoundsOK, Trying, Picking, AtPick

\* The first round over a pool.
LEMMA FirstRound ==
  ASSUME NEW st, Sound(st), NEW r, r.pc \in {"pickDefault", "pickBackup"}, r.attempt = 0, NEW g
  PROVE  RoundsOK(r, g, st) /\ ~AtPick(r)
  <1>1. ~AtPick(r) /\ Tried(r) = {}  BY DEF AtPick, Tried
  <1>2. \A pool \in Pools : r.attempt <= Lost(st, pool, r)  BY LostIsFinite
  <1>3. QED  BY <1>1, <1>2 DEF RoundsOK

\* A loop gives its pool up only when the pool has no good member: each round but
\* one cools a member of the pool, and a good member does not cool.
LEMMA GivesUp ==
  ASSUME NEW st, Sound(st), NEW s, NEW r, NEW g, RequestOK(r, g, st, s), NEW pool \in Pools,
         r.pc = Picking(pool),
         r.attempt > Routing!Count(r.conf, pool) \/ PoolOf(st, pool) = {}
  PROVE  g \cap PoolOf(st, pool) = {}
  <1>1. SUFFICES ASSUME NEW x \in g \cap PoolOf(st, pool) PROVE FALSE  OBVIOUS
  <1>2. ~AtPick(r) /\ Tried(r) = {} /\ Trying(r, pool) /\ Rewriting(r)
    BY DEF Picking, AtPick, Tried, Trying, Rewriting, Pools
  <1>3. r.conf = st.conf /\ x \notin Cooled(st)  BY <1>2 DEF RequestOK, Usable
  <1>4. Routing!Count(r.conf, pool) = Cardinality(PoolOf(st, pool))
    BY <1>3, SameCounting DEF Routing!Count, PoolOf
  <1>5. r.attempt <= Lost(st, pool, r) + 1 /\ r.attempt \in Nat /\ Lost(st, pool, r) \in Nat
    <2>1. r.attempt \in Nat /\ Lost(st, pool, r) \in Nat
      BY LostIsFinite DEF RequestOK, ProgressOK, Progress
    <2>2. r.attempt <= Lost(st, pool, r) \/ r.attempt <= Lost(st, pool, r) + 1
      BY <1>2 DEF RequestOK, RoundsOK
    <2>3. QED  BY <2>1, <2>2
  <1>6. CooledOf(st, pool, r) \subseteq PoolOf(st, pool) \ {x}  BY <1>3 DEF CooledOf
  <1>7. IsFiniteSet(PoolOf(st, pool)) /\ Cardinality(PoolOf(st, pool)) \in Nat  BY LostIsFinite
  <1>8. /\ IsFiniteSet(PoolOf(st, pool) \ {x})
        /\ Cardinality(PoolOf(st, pool) \ {x}) = Cardinality(PoolOf(st, pool)) - 1
    BY <1>7, FS_RemoveElement
  <1>9. Lost(st, pool, r) <= Cardinality(PoolOf(st, pool)) - 1
    BY <1>6, <1>8, FS_Subset DEF Lost
  <1>10. QED  BY <1>4, <1>5, <1>7, <1>9

\* A round picks a member.
LEMMA RoundPicks ==
  ASSUME NEW st, Sound(st), NEW s, NEW r, NEW g, RequestOK(r, g, st, s), NEW pool \in Pools,
         r.pc = Picking(pool), ~(r.attempt > Routing!Count(r.conf, pool)),
         NEW m, m # NoMember, Picked(st, pool, m),
         NEW n \in Progress, n.pc = "check", n.pool = pool, n.member = m, n.conf = r.conf,
         n.attempt = r.attempt, n.runs = r.runs
  PROVE  RequestOK(n, g, st, s)
  <1>1. /\ ~AtPick(r) /\ Tried(r) = {} /\ Trying(r, pool) /\ Rewriting(r) /\ r.pc # "start"
        /\ r.pc \notin {"run", "done"}
    BY DEF Picking, AtPick, Tried, Trying, Rewriting, Pools
  <1>2. AtPick(n) /\ Tried(n) = {m} /\ (\A q \in Pools : Trying(n, q) => q = pool) /\ m \in Members
    BY DEF AtPick, Tried, Trying, Picking, Picked, Pools
  <1>3. ProgressOK(n)
    <2>1. r \in Progress /\ r.conf \in Configs /\ r.runs <= 1 /\ r.attempt <= Cardinality(Members) + 1
      BY <1>1 DEF RequestOK, ProgressOK
    <2>2. PICK c \in Configs : r.conf = c  BY <2>1
    <2>3. {x \in DOMAIN c : c[x] = pool} \subseteq Members  BY GroupAssumption
    <2>4. /\ Routing!Count(r.conf, pool) <= Cardinality(Members)
          /\ Routing!Count(r.conf, pool) \in Nat /\ Cardinality(Members) \in Nat
      <3>1. /\ IsFiniteSet({x \in DOMAIN c : c[x] = pool})
            /\ Cardinality({x \in DOMAIN c : c[x] = pool}) <= Cardinality(Members)
        BY <2>3, RoutingAssumption, FS_Subset
      <3>2. QED  BY <2>2, <3>1, RoutingAssumption, FS_CardinalityType, SameCounting DEF Routing!Count
    <2>5. r.attempt \in Nat /\ r.runs \in Nat  BY <2>1 DEF Progress
    <2> HIDE DEF Routing!Count
    <2>6. r.attempt <= Cardinality(Members)  BY <2>4, <2>5
    <2>7. QED  BY <1>2, <2>1, <2>4, <2>5, <2>6 DEF ProgressOK
  <1>4. OnBackup(n) => g \cap PoolOf(st, "default") = {}
    BY <1>2 DEF OnBackup, RequestOK, Picking, Pools
  <1>5. Rewriting(n) /\ g # {} => n.conf = st.conf  BY <1>1 DEF RequestOK
  <1>6. ASSUME g \cap PoolOf(st, pool) # {}
        PROVE  \/ /\ n.attempt <= Lost(st, pool, n)
                  /\ Tried(n) \subseteq PoolOf(st, pool) \/ Tame(st, pool, Tried(n))
               \/ /\ n.attempt <= Lost(st, pool, n) + 1
                  /\ Tried(n) \subseteq PoolOf(st, pool) /\ Tame(st, pool, {})
    <2>1. Free(st, pool) # {}  BY <1>6 DEF RequestOK, Usable, Free
    <2>2. /\ m \notin Cooled(st) /\ (m \in PoolOf(st, pool) \/ Bound(st, pool, Key))
          /\ Bound(st, pool, Key) => st.bind[pool][Key].m = m
      BY <2>1 DEF Picked
    <2>3. CooledOf(st, pool, n) = CooledOf(st, pool, r)  BY <1>1, <1>2, <2>2 DEF CooledOf
    <2>4. Lost(st, pool, n) = Lost(st, pool, r)  BY <2>3 DEF Lost
    <2>5. Tame(st, pool, {m})  BY <2>2 DEF Tame
    <2>6. Tame(st, pool, {}) => m \in PoolOf(st, pool)  BY <2>2 DEF Tame
    <2>7. \/ r.attempt <= Lost(st, pool, r)
          \/ r.attempt <= Lost(st, pool, r) + 1 /\ Tame(st, pool, {})
      BY <1>1, <1>6 DEF RequestOK, RoundsOK
    <2> HIDE DEF Lost, Tame
    <2>8. QED  BY <1>2, <2>4, <2>5, <2>6, <2>7
  <1>7. RoundsOK(n, g, st)  BY <1>2, <1>6 DEF RoundsOK
  <1>8. QED  BY <1>3, <1>4, <1>5, <1>7 DEF RequestOK

\* A round whose member cannot serve ends: the member cools, unless it is alone.
LEMMA RoundEnds ==
  ASSUME NEW st, Sound(st), NEW s, NEW r, NEW g, RequestOK(r, g, st, s), r.pc = "stale",
         r.member \in Cooled(st) \/ Cardinality(DOMAIN st.conf) = 1 \/ PoolOf(st, r.pool) = {},
         NEW n \in Progress, n.pc = Picking(r.pool), n.conf = r.conf, n.attempt = r.attempt + 1,
         n.runs = r.runs
  PROVE  RequestOK(n, g, st, s)
  <1> DEFINE pool == r.pool
             m == r.member
  <1>1. AtPick(r) /\ Tried(r) = {m} /\ Trying(r, pool) /\ Rewriting(r) /\ m \notin g
        /\ r \in Progress /\ pool \in Pools
    BY DEF AtPick, Tried, Trying, Rewriting, RequestOK, ProgressOK, Progress
  <1>2. ~AtPick(n) /\ Tried(n) = {} /\ (\A q \in Pools : Trying(n, q) => q = pool)
    BY <1>1 DEF AtPick, Tried, Trying, Picking, Pools
  <1>3. ProgressOK(n)
    <2>1. /\ r.conf \in Configs /\ r.runs <= 1 /\ r.attempt <= Cardinality(Members)
          /\ r.attempt \in Nat /\ r.runs \in Nat
      BY <1>1 DEF RequestOK, ProgressOK, Progress
    <2>2. Cardinality(Members) \in Nat  BY RoutingAssumption, FS_CardinalityType
    <2>3. n.pc \in {"pickDefault", "pickBackup"}  BY DEF Picking
    <2>4. QED  BY <1>2, <2>1, <2>2, <2>3 DEF ProgressOK
  <1>4. OnBackup(n) => g \cap PoolOf(st, "default") = {}
    <2>1. OnBackup(n) => OnBackup(r)  BY <1>1, <1>2 DEF OnBackup, Picking, Pools
    <2>2. QED  BY <2>1 DEF RequestOK
  <1>5. Rewriting(n) /\ g # {} => n.conf = st.conf  BY <1>1 DEF RequestOK
  <1>6. ASSUME g \cap PoolOf(st, pool) # {}
        PROVE  \/ n.attempt <= Lost(st, pool, n)
               \/ n.attempt <= Lost(st, pool, n) + 1 /\ Tame(st, pool, {})
    <2>1. r.attempt \in Nat /\ Lost(st, pool, r) \in Nat /\ Lost(st, pool, n) \in Nat
      BY <1>1, LostIsFinite DEF Progress
    <2>2. \/ /\ r.attempt <= Lost(st, pool, r)
             /\ m \in PoolOf(st, pool) \/ Tame(st, pool, {m})
          \/ /\ r.attempt <= Lost(st, pool, r) + 1
             /\ m \in PoolOf(st, pool) /\ Tame(st, pool, {})
      BY <1>1, <1>6 DEF RequestOK, RoundsOK
    <2>3. CooledOf(st, pool, n) = Cooled(st) \cap PoolOf(st, pool)
          /\ CooledOf(st, pool, r) = (Cooled(st) \cap PoolOf(st, pool)) \ {m}
      BY <1>1, <1>2 DEF CooledOf
    <2>4. CASE m \in Cooled(st) /\ m \in PoolOf(st, pool)
      <3>1. m \in CooledOf(st, pool, n) /\ CooledOf(st, pool, r) = CooledOf(st, pool, n) \ {m}
        BY <2>3, <2>4
      <3>2. Lost(st, pool, r) = Lost(st, pool, n) - 1
        <4>1. IsFiniteSet(CooledOf(st, pool, n))  BY LostIsFinite
        <4>2. Cardinality(CooledOf(st, pool, n) \ {m}) = Cardinality(CooledOf(st, pool, n)) - 1
          BY <3>1, <4>1, FS_RemoveElement
        <4>3. QED  BY <3>1, <4>2 DEF Lost
      <3> HIDE DEF Lost, Tame, pool, m
      <3>3. QED  BY <2>1, <2>2, <3>2
    <2>5. CASE m \in Cooled(st) /\ m \notin PoolOf(st, pool)
      <3>1. CooledOf(st, pool, r) = CooledOf(st, pool, n)  BY <2>3, <2>5
      <3>2. Lost(st, pool, r) = Lost(st, pool, n)  BY <3>1 DEF Lost
      <3>3. Tame(st, pool, {m}) => Tame(st, pool, {})  BY <2>5 DEF Tame
      <3> HIDE DEF Lost, Tame, pool, m
      <3>4. QED  BY <2>1, <2>2, <2>5, <3>2, <3>3
    <2>6. CASE Cardinality(DOMAIN st.conf) = 1
      <3>1. IsFiniteSet(DOMAIN st.conf) /\ PoolOf(st, pool) \subseteq DOMAIN st.conf
        BY PoolsCover DEF Sound
      <3>2. PICK x : DOMAIN st.conf = {x}  BY <2>6, <3>1, FS_Singleton
      <3>3. PoolOf(st, pool) = {x} /\ x \in g /\ m # x  BY <1>1, <1>6, <3>1, <3>2
      <3>4. x \notin Cooled(st)  BY <3>3 DEF RequestOK, Usable
      <3>5. CooledOf(st, pool, r) = {}  BY <2>3, <3>3, <3>4
      <3>6. Lost(st, pool, r) = 0  BY <3>5, FS_EmptySet DEF Lost
      <3>7. Tame(st, pool, {})
        <4>1. SUFFICES ASSUME Bound(st, pool, Key) PROVE st.bind[pool][Key].m \in DOMAIN st.conf
          BY <3>2, <3>3 DEF Tame
        <4>2. Key \in Keys  BY <4>1, RoutingAssumption DEF Bound
        <4>3. QED  BY <1>1, <4>1, <4>2 DEF Sound, GroupOK, PoolOK, BoundKeys, Exists
      <3> HIDE DEF Lost, Tame, pool, m
      <3>8. QED  BY <2>1, <2>2, <3>3, <3>6, <3>7
    <2>7. QED  BY <1>6, <2>4, <2>5, <2>6
  <1>7. RoundsOK(n, g, st)  BY <1>2, <1>6 DEF RoundsOK
  <1>8. QED  BY <1>3, <1>4, <1>5, <1>7 DEF RequestOK, Picking

-----------------------------------------------------------------------------
(* The invariant of routing.                                               *)

RouteInv ==
    /\ row \in Configs /\ servable \subseteq Members /\ clock \in 1..RouteClock
    /\ eng = <<eng[1]>> /\ Sound(eng[1]) /\ eng[1].conf = row
    /\ req \in [Requests -> Progress] /\ good \in [Requests -> SUBSET Members]
    /\ \A i \in Requests : RequestOK(req[i], good[i], eng[1], servable)

\* HealthyServable, of a state with lasting cooldowns.
LEMMA UsableNow ==
  ASSUME clock \in 1..RouteClock, NEW t, Sound(t), NEW s
  PROVE  Routing!HealthyServable(<<t>>, s) = Usable(t, s) /\ Usable(t, s) \subseteq Members
  <1>1. DOMAIN t.conf \subseteq Members  BY PoolsCover DEF Sound
  <1>2. \A m \in Members : Routing!IsCooling(t, m, clock) <=> m \in Cooled(t)
    BY CoolingIsCooled, SameReads
  <1>3. Routing!HealthyServable(<<t>>, s) = {m \in DOMAIN t.conf \cap s : ~Routing!IsCooling(t, m, clock)}
    BY DEF Routing!HealthyServable
  <1>4. QED  BY <1>1, <1>2, <1>3 DEF Usable

\* The row is written by nobody, a request by its own step, and the engine's state
\* turns: what is left to show is what the request establishes.
LEMMA RequestMoves ==
  ASSUME RouteInv, NEW i \in Requests, NEW t, Turned(eng[1], t), eng' = <<t>>,
         NEW n \in Progress, req' = [req EXCEPT ![i] = n],
         row' = row, servable' = servable, clock' = clock,
         good' \in [Requests -> SUBSET Members],
         \A j \in Requests \ {i} : good'[j] \subseteq good[j] /\ good'[j] \subseteq Usable(t, servable),
         RequestOK(n, good'[i], t, servable)
  PROVE  RouteInv'
  <1>1. eng'[1] = t /\ eng' = <<eng'[1]>>  OBVIOUS
  <1>2. Sound(t) /\ t.conf = row  BY DEF Turned, RouteInv
  <1>3. req' \in [Requests -> Progress] /\ req'[i] = n /\ \A j \in Requests \ {i} : req'[j] = req[j]
    BY DEF RouteInv
  <1>4. ASSUME NEW j \in Requests PROVE RequestOK(req'[j], good'[j], t, servable)
    <2>1. CASE j = i  BY <1>3, <2>1
    <2>2. CASE j # i
      <3>1. RequestOK(req[j], good[j], eng[1], servable) /\ Sound(eng[1])  BY DEF RouteInv
      <3>2. RequestOK(req[j], good'[j], t, servable)  BY <2>2, <3>1, TurnKeeps
      <3>3. QED  BY <1>3, <2>2, <3>2
    <2>3. QED  BY <2>1, <2>2
  <1>5. QED
    <2>1. row' \in Configs /\ servable' \subseteq Members /\ clock' \in 1..RouteClock  BY DEF RouteInv
    <2>2. Sound(eng'[1]) /\ eng'[1].conf = row'  BY <1>1, <1>2
    <2>3. \A j \in Requests : RequestOK(req'[j], good'[j], eng'[1], servable')  BY <1>1, <1>4
    <2>4. QED  BY <1>1, <1>3, <2>1, <2>2, <2>3 DEF RouteInv

\* A step that leaves the engine alone.
LEMMA RequestGoes ==
  ASSUME RouteInv, NEW i \in Requests, NEW n \in Progress, req' = [req EXCEPT ![i] = n],
         UNCHANGED <<eng, good, row, servable, clock>>,
         RequestOK(n, good[i], eng[1], servable)
  PROVE  RouteInv'
  <1>1. Turned(eng[1], eng[1]) /\ eng' = <<eng[1]>>  BY SameTurned DEF RouteInv
  <1>2. \A j \in Requests : good[j] \subseteq Usable(eng[1], servable)  BY DEF RouteInv, RequestOK
  <1>3. good' \in [Requests -> SUBSET Members]  BY DEF RouteInv
  <1>4. QED  BY <1>1, <1>2, <1>3, RequestMoves

\* A step of a request that calls the engine: it may rely on what it has
\* established still being so in the state the call leaves.
LEMMA RequestCalls ==
  ASSUME RouteInv, NEW i \in Requests, NEW t, Turned(eng[1], t), eng' = <<t>>,
         Routing!Recheck(<<t>>, servable), Routing!Rest,
         NEW n \in Progress, req' = [req EXCEPT ![i] = n],
         ASSUME NEW h, RequestOK(req[i], h, t, servable) PROVE RequestOK(n, h, t, servable)
  PROVE  RouteInv'
  <1>1. Sound(eng[1]) /\ RequestOK(req[i], good[i], eng[1], servable) /\ clock \in 1..RouteClock
    BY DEF RouteInv
  <1>2. Sound(t)  BY DEF Turned
  <1>3. row' = row /\ servable' = servable /\ clock' = clock  BY DEF Routing!Rest
  <1>4. good' = [j \in Requests |-> good[j] \cap Usable(t, servable)]
    BY <1>1, <1>2, UsableNow DEF Routing!Recheck
  <1>5. \A j \in Requests : good'[j] \subseteq good[j] /\ good'[j] \subseteq Usable(t, servable)
    BY <1>4
  <1>6. good' \in [Requests -> SUBSET Members]  BY <1>4 DEF RouteInv
  <1>7. RequestOK(req[i], good'[i], t, servable)  BY <1>1, <1>5, TurnKeeps
  <1>8. RequestOK(n, good'[i], t, servable)  BY <1>7
  <1>9. QED  BY <1>3, <1>5, <1>6, <1>8, RequestMoves

\* A request that is neither rewriting nor refused.
LEMMA Outside ==
  ASSUME NEW r, NEW g, NEW st, NEW s, RequestOK(r, g, st, s), NEW n, ProgressOK(n),
         n.pc \in {"start", "run", "exclude", "reBackup", "reStale", "rebuild", "done"}
  PROVE  RequestOK(n, g, st, s)
  <1>1. RoundsOK(n, g, st) /\ ~AtPick(n)  BY OutOfRounds
  <1>2. QED  BY <1>1 DEF RequestOK, OnBackup, Rewriting

\* A step to another location.
LEMMA Goes ==
  ASSUME RouteInv, NEW i \in Requests, NEW x \in RoutePCs, Routing!Go(i, x)
  PROVE  \E n \in Progress :
            /\ req' = [req EXCEPT ![i] = n] /\ n.pc = x /\ n.conf = req[i].conf
            /\ n.member = req[i].member /\ n.pool = req[i].pool /\ n.attempt = req[i].attempt
            /\ n.runs = req[i].runs
  <1>1. req[i] \in Progress  BY DEF RouteInv
  <1> DEFINE r == req[i]
             n == [r EXCEPT !.pc = x]
  <1>2. req' = [req EXCEPT ![i] = n]  BY DEF Routing!Go
  <1> HIDE DEF r
  <1>3. /\ n \in Progress /\ n.pc = x /\ n.conf = r.conf /\ n.member = r.member /\ n.pool = r.pool
        /\ n.attempt = r.attempt /\ n.runs = r.runs
    BY <1>1 DEF Progress, r
  <1> HIDE DEF n
  <1>4. QED  BY <1>2, <1>3 DEF r

\* row := GetModelNative(entry).
LEMMA ReadRowKeeps ==
  ASSUME RouteInv, NEW i \in Requests, Routing!ReadRow(i)
  PROVE  RouteInv'
  <1> DEFINE r == req[i]
             n == [r EXCEPT !.pc = "hasGroup", !.conf = row, !.attempt = 0]
             t == eng[1]
  <1>1. /\ req' = [req EXCEPT ![i] = n] /\ r.pc = "start"
        /\ good' = [good EXCEPT ![i] = Routing!HealthyServable(eng, servable)]
        /\ eng' = eng /\ row' = row /\ servable' = servable /\ clock' = clock
    BY DEF Routing!ReadRow, Routing!Rest
  <1>2. /\ RequestOK(r, good[i], t, servable) /\ r \in Progress /\ row \in Configs /\ Sound(t)
        /\ eng = <<t>> /\ t.conf = row /\ clock \in 1..RouteClock
    BY DEF RouteInv
  <1>3. good' = [good EXCEPT ![i] = Usable(t, servable)] /\ Usable(t, servable) \subseteq Members
    BY <1>1, <1>2, UsableNow
  <1>4. /\ good' \in [Requests -> SUBSET Members] /\ good'[i] = Usable(t, servable)
        /\ \A j \in Requests \ {i} : good'[j] = good[j]
    BY <1>3 DEF RouteInv
  <1>5. \A j \in Requests : good[j] \subseteq Usable(t, servable)  BY DEF RouteInv, RequestOK
  <1> HIDE DEF r
  <1>6. /\ n \in Progress /\ n.pc = "hasGroup" /\ n.conf = row /\ n.attempt = 0 /\ n.runs = r.runs
    BY <1>2 DEF Progress, RoutePCs
  <1> HIDE DEF n, t
  <1>7. ProgressOK(n)
    <2>1. r.runs <= 1  BY <1>1, <1>2 DEF RequestOK, ProgressOK
    <2>2. Cardinality(Members) \in Nat /\ r.runs \in Nat
      BY <1>2, RoutingAssumption, FS_CardinalityType DEF Progress
    <2>3. QED  BY <1>2, <1>6, <2>1, <2>2 DEF ProgressOK, AtPick
  <1>8. RequestOK(n, Usable(t, servable), t, servable)
    <2>1. RoundsOK(n, Usable(t, servable), t) /\ ~AtPick(n)  BY <1>6, OutOfRounds
    <2>2. QED  BY <1>2, <1>6, <1>7, <2>1 DEF RequestOK, OnBackup
  <1>9. Turned(eng[1], t)  BY <1>2, SameTurned DEF t
  <1>10. eng' = <<t>>  BY <1>1, <1>2
  <1>11. QED  BY <1>1, <1>4, <1>5, <1>6, <1>8, <1>9, <1>10, RequestMoves

\* The freshness gate: the engine has the group.
LEMMA HasGroupKeeps ==
  ASSUME RouteInv, NEW i \in Requests, Routing!HasGroup(i)
  PROVE  RouteInv'
  <1>1. eng # <<>>
    <2> DEFINE st == eng[1]
    <2>1. eng = <<st>>  BY DEF RouteInv
    <2> HIDE DEF st
    <2>2. QED  BY <2>1
  <1>2. req[i].pc = "hasGroup" /\ Routing!Go(i, "gate") /\ UNCHANGED <<eng, good, row, servable, clock>>
    BY <1>1 DEF Routing!HasGroup, Routing!Rest
  <1>3. RequestOK(req[i], good[i], eng[1], servable)  BY DEF RouteInv
  <1>4. PICK n \in Progress : /\ req' = [req EXCEPT ![i] = n] /\ n.pc = "gate" /\ n.conf = req[i].conf
                              /\ n.attempt = req[i].attempt /\ n.runs = req[i].runs
    BY <1>2, Goes DEF RoutePCs
  <1>5. ProgressOK(n)  BY <1>2, <1>3, <1>4 DEF ProgressOK, RequestOK, AtPick
  <1>6. RoundsOK(n, good[i], eng[1]) /\ ~AtPick(n)  BY <1>4, OutOfRounds
  <1>7. Rewriting(req[i])  BY <1>2 DEF Rewriting
  <1>8. RequestOK(n, good[i], eng[1], servable)
    BY <1>3, <1>4, <1>5, <1>6, <1>7 DEF RequestOK, OnBackup
  <1>9. QED  BY <1>2, <1>4, <1>8, RequestGoes

\* defaultPoolExhausted: the default pool has no free member.
LEMMA GateKeeps ==
  ASSUME RouteInv, NEW i \in Requests, Routing!Gate(i)
  PROVE  RouteInv'
  <1> DEFINE st == eng[1]
             x == IF Routing!HasBackupPool(st) /\ ~Routing!DefaultPoolHealthy(st)
                  THEN "pickBackup" ELSE "pickDefault"
  <1>1. req[i].pc = "gate" /\ Routing!Go(i, x) /\ UNCHANGED <<eng, good, row, servable, clock>>
    BY DEF Routing!Gate, Routing!Rest
  <1>2. RequestOK(req[i], good[i], st, servable) /\ Sound(st) /\ clock \in 1..RouteClock  BY DEF RouteInv
  <1>3. x \in {"pickBackup", "pickDefault"}  OBVIOUS
  <1>4. x = "pickBackup" => Free(st, "default") = {}
    BY <1>2, CoolingIsCooled, SameReads DEF Routing!DefaultPoolHealthy
  <1> HIDE DEF x
  <1>5. PICK n \in Progress : /\ req' = [req EXCEPT ![i] = n] /\ n.pc = x /\ n.conf = req[i].conf
                              /\ n.attempt = req[i].attempt /\ n.runs = req[i].runs
    BY <1>1, <1>3, Goes DEF RoutePCs
  <1>6. n.attempt = 0  BY <1>1, <1>2, <1>5 DEF RequestOK, ProgressOK
  <1>7. RoundsOK(n, good[i], st) /\ ~AtPick(n)  BY <1>2, <1>3, <1>5, <1>6, FirstRound
  <1>8. ProgressOK(n)  BY <1>1, <1>2, <1>3, <1>5, <1>6, <1>7 DEF ProgressOK, RequestOK
  <1>9. Rewriting(req[i])  BY <1>1 DEF Rewriting
  <1>10. OnBackup(n) => good[i] \cap PoolOf(st, "default") = {}
    BY <1>2, <1>3, <1>4, <1>5, <1>7 DEF OnBackup, RequestOK, Usable, Free
  <1>11. RequestOK(n, good[i], st, servable)
    BY <1>2, <1>3, <1>5, <1>7, <1>8, <1>9, <1>10 DEF RequestOK
  <1>12. QED  BY <1>1, <1>5, <1>11, RequestGoes

\* A loop gives its pool up: the default one for the backups, the backup one for
\* the refusal.
LEMMA MovesOnToBackups ==
  ASSUME NEW st, Sound(st), NEW s, NEW r, NEW g, RequestOK(r, g, st, s), r.pc = "pickDefault",
         g \cap PoolOf(st, "default") = {},
         NEW n \in Progress, n.pc = "pickBackup", n.attempt = 0, n.conf = r.conf, n.runs = r.runs
  PROVE  RequestOK(n, g, st, s)
  <1>1. RoundsOK(n, g, st) /\ ~AtPick(n)  BY FirstRound
  <1>2. Cardinality(Members) \in Nat  BY RoutingAssumption, FS_CardinalityType
  <1>3. ProgressOK(n)  BY <1>1, <1>2 DEF ProgressOK, RequestOK
  <1>4. QED  BY <1>1, <1>3 DEF RequestOK, Rewriting

\* The refusal: neither pool has a good member.
LEMMA Refuses ==
  ASSUME NEW st, Sound(st), NEW s, NEW r, NEW g, RequestOK(r, g, st, s), r.pc = "pickBackup",
         g \cap PoolOf(st, "backup") = {},
         NEW n \in Progress, n.pc = "unservable", n.attempt = r.attempt, n.conf = r.conf, n.runs = r.runs
  PROVE  RequestOK(n, g, st, s)
  <1>1. RoundsOK(n, g, st) /\ ~AtPick(n)  BY OutOfRounds
  <1>2. ProgressOK(n)  BY <1>1 DEF ProgressOK, RequestOK
  <1>3. g = {}
    <2>1. g \cap PoolOf(st, "default") = {} /\ g \subseteq DOMAIN st.conf  BY DEF RequestOK, OnBackup, Usable
    <2>2. QED  BY <2>1, PoolsCover DEF Sound
  <1>4. QED  BY <1>1, <1>2, <1>3 DEF RequestOK, Rewriting

\* One round over the default pool.
LEMMA PickDefaultKeeps ==
  ASSUME RouteInv, NEW i \in Requests, Routing!PickDefault(i)
  PROVE  RouteInv'
  <1> DEFINE r == req[i]
             away == [r EXCEPT !.pc = "pickBackup", !.attempt = 0]
             to(m) == [r EXCEPT !.pc = "check", !.pool = "default", !.member = m]
  <1>1. /\ RequestOK(r, good[i], eng[1], servable) /\ r \in Progress /\ Sound(eng[1])
        /\ clock \in 1..RouteClock
    BY DEF RouteInv
  <1>2. r.pc = "pickDefault" /\ r.pc = Picking("default") /\ "default" \in Pools
    BY DEF Routing!PickDefault, Picking, Pools
  <1>3. CASE r.attempt > Routing!Count(r.conf, "default")
    <2>1. req' = [req EXCEPT ![i] = away] /\ UNCHANGED <<eng, good, row, servable, clock>>
      BY <1>3 DEF Routing!PickDefault, Routing!Rest
    <2> HIDE DEF r
    <2>2. /\ away \in Progress /\ away.pc = "pickBackup" /\ away.attempt = 0 /\ away.conf = r.conf
          /\ away.runs = r.runs
      BY <1>1 DEF Progress, RoutePCs
    <2> HIDE DEF away
    <2>3. good[i] \cap PoolOf(eng[1], "default") = {}  BY <1>1, <1>2, <1>3, GivesUp
    <2>4. RequestOK(away, good[i], eng[1], servable)
      BY <1>1, <1>2, <2>2, <2>3, MovesOnToBackups
    <2>5. QED  BY <2>1, <2>2, <2>4, RequestGoes
  <1>4. CASE ~(r.attempt > Routing!Count(r.conf, "default"))
    <2>1. PICK o \in Routing!Get(eng[1]) :
            /\ eng' = <<o.st>> /\ Routing!Recheck(<<o.st>>, servable) /\ Routing!Rest
            /\ req' = [req EXCEPT ![i] = IF o.m = Routing!NoMember THEN away ELSE to(o.m)]
      BY <1>4, Zenon DEF Routing!PickDefault, Routing!Engine
    <2>2. Turned(eng[1], o.st) /\ Picked(o.st, "default", o.m)  BY <1>1, GetPicks
    <2>3. Routing!NoMember = NoMember /\ Sound(o.st)  BY <2>2, SameReads DEF Turned
    <2> HIDE DEF r
    <2>4. CASE o.m = NoMember
      <3>1. /\ away \in Progress /\ away.pc = "pickBackup" /\ away.attempt = 0 /\ away.conf = r.conf
            /\ away.runs = r.runs
        BY <1>1 DEF Progress, RoutePCs
      <3>2. req' = [req EXCEPT ![i] = away]  BY <2>1, <2>3, <2>4
      <3> HIDE DEF away
      <3>3. ASSUME NEW h, RequestOK(r, h, o.st, servable) PROVE RequestOK(away, h, o.st, servable)
        <4>1. h \cap PoolOf(o.st, "default") = {}  BY <2>2, <2>4 DEF Picked
        <4>2. QED  BY <1>2, <2>3, <3>1, <3>3, <4>1, MovesOnToBackups
      <3>4. QED  BY <2>1, <2>2, <3>1, <3>2, <3>3, RequestCalls DEF r
    <2>5. CASE o.m # NoMember
      <3> DEFINE n == to(o.m)
      <3>1. req' = [req EXCEPT ![i] = n]  BY <2>1, <2>3, <2>5
      <3>2. o.m \in Members  BY <2>2, <2>5 DEF Picked
      <3>3. /\ n \in Progress /\ n.pc = "check" /\ n.pool = "default" /\ n.member = o.m
            /\ n.conf = r.conf /\ n.attempt = r.attempt /\ n.runs = r.runs
        BY <1>1, <3>2 DEF Progress, RoutePCs, Pools
      <3> HIDE DEF n
      <3>4. ASSUME NEW h, RequestOK(r, h, o.st, servable) PROVE RequestOK(n, h, o.st, servable)
        BY <1>2, <1>4, <2>2, <2>3, <2>5, <3>3, <3>4, RoundPicks
      <3>5. QED  BY <2>1, <2>2, <3>1, <3>3, <3>4, RequestCalls DEF r
    <2>6. QED  BY <2>4, <2>5
  <1>5. QED  BY <1>3, <1>4

\* One round over the backup pool.
LEMMA PickBackupKeeps ==
  ASSUME RouteInv, NEW i \in Requests, Routing!PickBackup(i)
  PROVE  RouteInv'
  <1> DEFINE r == req[i]
             away == [r EXCEPT !.pc = "unservable"]
             to(m) == [r EXCEPT !.pc = "check", !.pool = "backup", !.member = m]
  <1>1. /\ RequestOK(r, good[i], eng[1], servable) /\ r \in Progress /\ Sound(eng[1])
        /\ clock \in 1..RouteClock
    BY DEF RouteInv
  <1>2. r.pc = "pickBackup" /\ r.pc = Picking("backup") /\ "backup" \in Pools
    BY DEF Routing!PickBackup, Picking, Pools
  <1>3. CASE r.attempt > Routing!Count(r.conf, "backup")
    <2>1. req' = [req EXCEPT ![i] = away] /\ UNCHANGED <<eng, good, row, servable, clock>>
      BY <1>3 DEF Routing!PickBackup, Routing!Rest, Routing!Go
    <2> HIDE DEF r
    <2>2. /\ away \in Progress /\ away.pc = "unservable" /\ away.attempt = r.attempt /\ away.conf = r.conf
          /\ away.runs = r.runs
      BY <1>1 DEF Progress, RoutePCs
    <2> HIDE DEF away
    <2>3. good[i] \cap PoolOf(eng[1], "backup") = {}  BY <1>1, <1>2, <1>3, GivesUp
    <2>4. RequestOK(away, good[i], eng[1], servable)  BY <1>1, <1>2, <2>2, <2>3, Refuses
    <2>5. QED  BY <2>1, <2>2, <2>4, RequestGoes
  <1>4. CASE ~(r.attempt > Routing!Count(r.conf, "backup"))
    <2>1. PICK o \in Routing!Backup(eng[1]) :
            /\ eng' = <<o.st>> /\ Routing!Recheck(<<o.st>>, servable) /\ Routing!Rest
            /\ req' = [req EXCEPT ![i] = IF o.m = Routing!NoMember THEN away ELSE to(o.m)]
      BY <1>4, Zenon DEF Routing!PickBackup, Routing!Engine
    <2>2. Turned(eng[1], o.st) /\ Picked(o.st, "backup", o.m)  BY <1>1, BackupPicks
    <2>3. Routing!NoMember = NoMember /\ Sound(o.st)  BY <2>2, SameReads DEF Turned
    <2> HIDE DEF r
    <2>4. CASE o.m = NoMember
      <3>1. /\ away \in Progress /\ away.pc = "unservable" /\ away.attempt = r.attempt
            /\ away.conf = r.conf /\ away.runs = r.runs
        BY <1>1 DEF Progress, RoutePCs
      <3>2. req' = [req EXCEPT ![i] = away]  BY <2>1, <2>3, <2>4
      <3> HIDE DEF away
      <3>3. ASSUME NEW h, RequestOK(r, h, o.st, servable) PROVE RequestOK(away, h, o.st, servable)
        <4>1. h \cap PoolOf(o.st, "backup") = {}  BY <2>2, <2>4 DEF Picked
        <4>2. QED  BY <1>2, <2>3, <3>1, <3>3, <4>1, Refuses
      <3>4. QED  BY <2>1, <2>2, <3>1, <3>2, <3>3, RequestCalls DEF r
    <2>5. CASE o.m # NoMember
      <3> DEFINE n == to(o.m)
      <3>1. req' = [req EXCEPT ![i] = n]  BY <2>1, <2>3, <2>5
      <3>2. o.m \in Members  BY <2>2, <2>5 DEF Picked
      <3>3. /\ n \in Progress /\ n.pc = "check" /\ n.pool = "backup" /\ n.member = o.m
            /\ n.conf = r.conf /\ n.attempt = r.attempt /\ n.runs = r.runs
        BY <1>1, <3>2 DEF Progress, RoutePCs, Pools
      <3> HIDE DEF n
      <3>4. ASSUME NEW h, RequestOK(r, h, o.st, servable) PROVE RequestOK(n, h, o.st, servable)
        BY <1>2, <1>4, <2>2, <2>3, <2>5, <3>3, <3>4, RoundPicks
      <3>5. QED  BY <2>1, <2>2, <3>1, <3>3, <3>4, RequestCalls DEF r
    <2>6. QED  BY <2>4, <2>5
  <1>5. QED  BY <1>3, <1>4

\* isServableGroupMember: a member that cannot serve is not good.
LEMMA CheckKeeps ==
  ASSUME RouteInv, NEW i \in Requests, Routing!Check(i)
  PROVE  RouteInv'
  <1> DEFINE r == req[i]
             more == r.runs + 1
             ran == [r EXCEPT !.pc = "run", !.runs = more]
             st == eng[1]
  <1>1. RequestOK(r, good[i], st, servable) /\ r \in Progress  BY DEF RouteInv
  <1>2. r.pc = "check" /\ UNCHANGED <<eng, good, row, servable, clock>>
    BY DEF Routing!Check, Routing!Rest
  <1>3. AtPick(r) /\ r.runs \in Nat /\ r.runs <= 1  BY <1>1, <1>2 DEF AtPick, RequestOK, ProgressOK, Progress
  <1>4. CASE r.member \in servable
    <2>1. req' = [req EXCEPT ![i] = ran]  BY <1>4 DEF Routing!Check
    <2>1a. more \in Nat /\ more = r.runs + 1  BY <1>3
    <2> HIDE DEF r, st, more
    <2>2. /\ ran \in Progress /\ ran.pc = "run" /\ ran.conf = r.conf /\ ran.member = r.member
          /\ ran.attempt = r.attempt /\ ran.runs = more
      BY <1>1, <2>1a DEF Progress, RoutePCs
    <2> HIDE DEF ran
    <2>3. ProgressOK(ran)  BY <1>1, <1>2, <1>3, <2>1a, <2>2 DEF ProgressOK, RequestOK, AtPick
    <2>4. RequestOK(ran, good[i], st, servable)  BY <1>1, <2>2, <2>3, Outside
    <2>5. QED  BY <1>2, <2>1, <2>2, <2>4, RequestGoes DEF st
  <1>5. CASE r.member \notin servable
    <2>1. Routing!Go(i, "stale")  BY <1>5 DEF Routing!Check
    <2>2. PICK n \in Progress :
            /\ req' = [req EXCEPT ![i] = n] /\ n.pc = "stale" /\ n.conf = req[i].conf
            /\ n.member = req[i].member /\ n.pool = req[i].pool /\ n.attempt = req[i].attempt
            /\ n.runs = req[i].runs
      BY <2>1, Goes DEF RoutePCs
    <2>3. ProgressOK(n) /\ AtPick(n)  BY <1>1, <1>2, <2>2 DEF ProgressOK, RequestOK, AtPick
    <2>4. /\ Tried(n) = Tried(r) /\ (\A q : Trying(n, q) => Trying(r, q)) /\ Rewriting(r)
          /\ OnBackup(n) => OnBackup(r)
      BY <1>2, <2>2 DEF Tried, AtPick, Trying, Picking, Rewriting, OnBackup
    <2>5. \A q : Lost(st, q, n) = Lost(st, q, r)  BY <2>4 DEF Lost, CooledOf
    <2>6. RoundsOK(n, good[i], st)
      <3>1. RoundsOK(r, good[i], st) /\ n.attempt = r.attempt  BY <1>1, <2>2 DEF RequestOK
      <3> HIDE DEF r, st
      <3>2. QED  BY <2>4, <2>5, <3>1 DEF RoundsOK
    <2>7. n.member \notin good[i]  BY <1>1, <1>5, <2>2 DEF RequestOK, Usable
    <2>8. RequestOK(n, good[i], st, servable)
      BY <1>1, <2>2, <2>3, <2>4, <2>6, <2>7 DEF RequestOK
    <2>9. QED  BY <1>2, <2>2, <2>8, RequestGoes
  <1>6. QED  BY <1>4, <1>5

\* Skip and reselect.
LEMMA StaleKeeps ==
  ASSUME RouteInv, NEW i \in Requests, Routing!Stale(i)
  PROVE  RouteInv'
  <1> DEFINE r == req[i]
             back == Picking(r.pool)
             more == r.attempt + 1
             n == [r EXCEPT !.pc = back, !.attempt = more]
  <1>1. /\ RequestOK(r, good[i], eng[1], servable) /\ r \in Progress /\ Sound(eng[1])
        /\ clock \in 1..RouteClock
    BY DEF RouteInv
  <1>2. PICK o \in Routing!Exclude(eng[1], r.pool, r.member) :
          /\ eng' = <<o.st>> /\ Routing!Recheck(<<o.st>>, servable) /\ Routing!Rest
          /\ req' = [req EXCEPT ![i] = n]
    BY Zenon DEF Routing!Stale, Routing!Engine, Picking
  <1>3. r.pc = "stale"  BY DEF Routing!Stale
  <1>4. r.pool \in Pools /\ r.member \in Members /\ r.attempt \in Nat
    BY <1>1, <1>3 DEF RequestOK, ProgressOK, Progress
  <1>5. /\ Turned(eng[1], o.st)
        /\ r.member \in Cooled(o.st) \/ Cardinality(DOMAIN o.st.conf) = 1 \/ PoolOf(o.st, r.pool) = {}
    BY <1>1, <1>4, ExcludeTurns
  <1>6. Sound(o.st)  BY <1>5 DEF Turned
  <1>6a. more \in Nat /\ back \in RoutePCs  BY <1>4 DEF Picking, RoutePCs
  <1> HIDE DEF r, back, more
  <1>7. /\ n \in Progress /\ n.pc = back /\ n.conf = r.conf /\ n.attempt = more /\ n.runs = r.runs
    BY <1>1, <1>6a DEF Progress
  <1> HIDE DEF n
  <1>8. ASSUME NEW h, RequestOK(r, h, o.st, servable) PROVE RequestOK(n, h, o.st, servable)
    BY <1>3, <1>5, <1>6, <1>7, <1>8, RoundEnds DEF back, more
  <1>9. QED  BY <1>2, <1>5, <1>7, <1>8, RequestCalls DEF r

\* The race: the member answers, or fails.
LEMMA RaceKeeps ==
  ASSUME RouteInv, NEW i \in Requests,
         Routing!Answered(i) \/ Routing!MemberFailed(i) \/ Routing!Rebuild(i)
  PROVE  RouteInv'
  <1>1. RequestOK(req[i], good[i], eng[1], servable) /\ req[i] \in Progress  BY DEF RouteInv
  <1>2. UNCHANGED <<eng, good, row, servable, clock>>
    BY DEF Routing!Answered, Routing!MemberFailed, Routing!Rebuild, Routing!Rest
  <1>3. PICK x \in {"done", "exclude", "start"} :
          /\ Routing!Go(i, x)
          /\ x = "exclude" => req[i].pc = "run" /\ req[i].runs = 1
          /\ x = "start" => req[i].pc = "rebuild"
    BY DEF Routing!Answered, Routing!MemberFailed, Routing!Rebuild, Routing!Go
  <1>4. PICK n \in Progress :
          /\ req' = [req EXCEPT ![i] = n] /\ n.pc = x /\ n.conf = req[i].conf
          /\ n.member = req[i].member /\ n.pool = req[i].pool /\ n.attempt = req[i].attempt
          /\ n.runs = req[i].runs
    BY <1>3, Goes DEF RoutePCs
  <1>5. req[i].pc # "start" => req[i].conf \in Configs  BY <1>1 DEF RequestOK, ProgressOK
  <1>6. req[i].pc \in {"run", "rebuild"}
    BY DEF Routing!Answered, Routing!MemberFailed, Routing!Rebuild
  <1>7. ProgressOK(n)  BY <1>1, <1>3, <1>4, <1>5, <1>6 DEF ProgressOK, RequestOK, AtPick
  <1>8. RequestOK(n, good[i], eng[1], servable)  BY <1>1, <1>3, <1>4, <1>7, Outside
  <1>9. QED  BY <1>2, <1>4, <1>8, RequestGoes

\* A call of the re-entry leads to a location outside the rewrite.
LEMMA ReentryCalls ==
  ASSUME RouteInv, NEW i \in Requests, NEW t, Turned(eng[1], t), eng' = <<t>>,
         Routing!Recheck(<<t>>, servable), Routing!Rest,
         req[i].pc \in {"exclude", "reBackup", "reStale"},
         NEW n \in Progress, req' = [req EXCEPT ![i] = n],
         n.pc \in {"reBackup", "reStale", "rebuild", "done"}, n.pc = "reStale" => n.member \in Members,
         n.conf = req[i].conf, n.attempt = req[i].attempt, n.runs = req[i].runs
  PROVE  RouteInv'
  <1>1. RequestOK(req[i], good[i], eng[1], servable)  BY DEF RouteInv
  <1>2. ProgressOK(n)  BY <1>1 DEF ProgressOK, RequestOK, AtPick
  <1>3. ASSUME NEW h, RequestOK(req[i], h, t, servable) PROVE RequestOK(n, h, t, servable)
    BY <1>2, <1>3, Outside
  <1>4. QED  BY <1>3, RequestCalls

\* ExcludeGroupMember.
LEMMA ExcludeKeeps ==
  ASSUME RouteInv, NEW i \in Requests, Routing!ExcludeGroupMember(i)
  PROVE  RouteInv'
  <1> DEFINE r == req[i]
             to(x) == [r EXCEPT !.failed = r.member, !.pc = x]
             Then(o) == IF o.m # Routing!NoMember /\ (o.how = "healthy" \/ ~Routing!HasBackupPool(o.st))
                         THEN "rebuild" ELSE "reBackup"
  <1>1. RequestOK(r, good[i], eng[1], servable) /\ r \in Progress /\ Sound(eng[1]) /\ clock \in 1..RouteClock
    BY DEF RouteInv
  <1>2. PICK o \in Routing!Exclude(eng[1], "default", r.member) :
          /\ eng' = <<o.st>> /\ Routing!Recheck(<<o.st>>, servable) /\ Routing!Rest
          /\ req' = [req EXCEPT ![i] = to(Then(o))]
    BY Zenon DEF Routing!ExcludeGroupMember, Routing!Engine
  <1>3. r.pc = "exclude"  BY DEF Routing!ExcludeGroupMember
  <1>4. r.member \in Members /\ "default" \in Pools  BY <1>1, <1>3 DEF RequestOK, ProgressOK, Pools
  <1>5. Turned(eng[1], o.st)  BY <1>1, <1>4, ExcludeTurns
  <1>6. PICK x \in {"rebuild", "reBackup"} : req' = [req EXCEPT ![i] = to(x)]
    <2>1. Then(o) \in {"rebuild", "reBackup"}  OBVIOUS
    <2> HIDE DEF Then
    <2>2. QED  BY <1>2, <2>1
  <1> HIDE DEF r
  <1> DEFINE n == to(x)
  <1>7. /\ n \in Progress /\ n.pc = x /\ n.conf = r.conf /\ n.attempt = r.attempt /\ n.runs = r.runs
    BY <1>1, <1>4 DEF Progress, RoutePCs
  <1>8. req' = [req EXCEPT ![i] = n]  BY <1>6
  <1> HIDE DEF n
  <1>9. QED  BY <1>2, <1>3, <1>5, <1>7, <1>8, ReentryCalls DEF r

\* pickServableBackup: the pick ...
LEMMA ReBackupKeeps ==
  ASSUME RouteInv, NEW i \in Requests, Routing!ReBackup(i)
  PROVE  RouteInv'
  <1> DEFINE r == req[i]
             to(x, m) == [r EXCEPT !.pc = x, !.member = m]
             Then(m) == IF m = Routing!NoMember THEN "done"
                         ELSE IF m \in servable THEN "rebuild" ELSE "reStale"
  <1>1. RequestOK(r, good[i], eng[1], servable) /\ r \in Progress /\ Sound(eng[1]) /\ clock \in 1..RouteClock
    BY DEF RouteInv
  <1>2. PICK o \in Routing!Backup(eng[1]) :
          /\ eng' = <<o.st>> /\ Routing!Recheck(<<o.st>>, servable) /\ Routing!Rest
          /\ req' = [req EXCEPT ![i] = to(Then(o.m), o.m)]
    BY Zenon DEF Routing!ReBackup, Routing!Engine
  <1>3. r.pc = "reBackup"  BY DEF Routing!ReBackup
  <1>4. Turned(eng[1], o.st) /\ o.m \in Members \cup {NoMember}  BY <1>1, BackupPicks DEF Picked
  <1>5. PICK x \in {"done", "rebuild", "reStale"} :
          req' = [req EXCEPT ![i] = to(x, o.m)] /\ (x = "reStale" => o.m \in Members)
    <2>1. Then(o.m) \in {"done", "rebuild", "reStale"} /\ (Then(o.m) = "reStale" => o.m \in Members)
      BY <1>4, SameReads
    <2> HIDE DEF Then
    <2>2. QED  BY <1>2, <2>1
  <1> HIDE DEF r
  <1> DEFINE n == to(x, o.m)
  <1>6. /\ n \in Progress /\ n.pc = x /\ n.member = o.m /\ n.conf = r.conf /\ n.attempt = r.attempt
        /\ n.runs = r.runs
    BY <1>1, <1>4 DEF Progress, RoutePCs
  <1>7. req' = [req EXCEPT ![i] = n]  BY <1>5
  <1> HIDE DEF n
  <1>8. QED  BY <1>2, <1>3, <1>4, <1>5, <1>6, <1>7, ReentryCalls DEF r

\* ... and when it is stale the reselection.
LEMMA ReStaleKeeps ==
  ASSUME RouteInv, NEW i \in Requests, Routing!ReStale(i)
  PROVE  RouteInv'
  <1> DEFINE r == req[i]
             to(x) == [r EXCEPT !.pc = x]
             Then(m) == IF m = Routing!NoMember THEN "done" ELSE "rebuild"
  <1>1. RequestOK(r, good[i], eng[1], servable) /\ r \in Progress /\ Sound(eng[1]) /\ clock \in 1..RouteClock
    BY DEF RouteInv
  <1>2. PICK o \in Routing!Exclude(eng[1], "backup", r.member) :
          /\ eng' = <<o.st>> /\ Routing!Recheck(<<o.st>>, servable) /\ Routing!Rest
          /\ req' = [req EXCEPT ![i] = to(Then(o.m))]
    BY Zenon DEF Routing!ReStale, Routing!Engine
  <1>3. r.pc = "reStale"  BY DEF Routing!ReStale
  <1>4. r.member \in Members /\ "backup" \in Pools  BY <1>1, <1>3 DEF RequestOK, ProgressOK, Pools
  <1>5. Turned(eng[1], o.st)  BY <1>1, <1>4, ExcludeTurns
  <1>6. PICK x \in {"done", "rebuild"} : req' = [req EXCEPT ![i] = to(x)]
    <2>1. Then(o.m) \in {"done", "rebuild"}  OBVIOUS
    <2> HIDE DEF Then
    <2>2. QED  BY <1>2, <2>1
  <1> HIDE DEF r
  <1> DEFINE n == to(x)
  <1>7. /\ n \in Progress /\ n.pc = x /\ n.conf = r.conf /\ n.attempt = r.attempt /\ n.runs = r.runs
    BY <1>1 DEF Progress, RoutePCs
  <1>8. req' = [req EXCEPT ![i] = n]  BY <1>6
  <1> HIDE DEF n
  <1>9. QED  BY <1>2, <1>3, <1>5, <1>7, <1>8, ReentryCalls DEF r

\* An edit of the group promises nothing to the requests under way.
LEMMA EditGroupKeeps ==
  ASSUME RouteInv, NEW c \in Configs, Routing!EditGroup(c)
  PROVE  RouteInv'
  <1> DEFINE st == eng[1]
             t == Reconfigured(st, c)
  <1>1. Sound(st) /\ eng = <<st>>  BY DEF RouteInv
  <1>2. GroupOK(t) /\ t.conf = c /\ t.cool = st.cool  BY <1>1, ReconfiguredOK DEF Sound
  <1>3. Sound(t)  BY <1>1, <1>2 DEF Sound, Lasting
  <1>4. /\ row' = c /\ good' = [j \in Requests |-> {}] /\ UNCHANGED <<servable, req, clock>>
        /\ eng' = <<IF eng = <<>> THEN Routing!NewState(c) ELSE Routing!Reconfigured(eng[1], c)>>
    BY DEF Routing!EditGroup
  <1> HIDE DEF st
  <1>5. eng # <<>> /\ eng[1] = st  BY <1>1
  <1>6. eng' = <<t>>  BY <1>4, <1>5, SameReconfigured
  <1> HIDE DEF t
  <1>7. eng'[1] = t /\ eng' = <<eng'[1]>>  BY <1>6
  <1>8. ASSUME NEW j \in Requests PROVE RequestOK(req[j], {}, t, servable)
    <2>1. RequestOK(req[j], good[j], st, servable)  BY <1>5 DEF RouteInv
    <2>2. RoundsOK(req[j], {}, t)  BY DEF RoundsOK
    <2>3. QED  BY <2>1, <2>2 DEF RequestOK
  <1>9. \A j \in Requests : RequestOK(req'[j], good'[j], eng'[1], servable')  BY <1>4, <1>7, <1>8
  <1>10. QED  BY <1>2, <1>3, <1>4, <1>7, <1>9 DEF RouteInv

\* A member that is disabled is good for nobody.
LEMMA EditMemberKeeps ==
  ASSUME RouteInv, NEW m \in Members, Routing!EditMember(m)
  PROVE  RouteInv'
  <1> DEFINE st == eng[1]
  <1>1. Sound(st) /\ eng = <<st>> /\ clock \in 1..RouteClock  BY DEF RouteInv
  <1>2. /\ servable' \subseteq Members /\ Routing!Recheck(eng, servable') /\ UNCHANGED <<row, eng, req, clock>>
    BY DEF Routing!EditMember, RouteInv
  <1>3. good' = [j \in Requests |-> good[j] \cap Usable(st, servable')]
    BY <1>1, <1>2, UsableNow DEF Routing!Recheck
  <1>4. Turned(st, st)  BY <1>1, SameTurned
  <1> HIDE DEF st
  <1>5. ASSUME NEW j \in Requests PROVE RequestOK(req[j], good'[j], st, servable')
    <2>1. RequestOK(req[j], good[j], st, servable)  BY DEF RouteInv, st
    <2>2. good'[j] \subseteq good[j] /\ good'[j] \subseteq Usable(st, servable')  BY <1>3
    <2>3. QED  BY <1>1, <1>4, <2>1, <2>2, TurnKeeps
  <1>6. eng'[1] = st  BY <1>2 DEF st
  <1>7. \A j \in Requests : RequestOK(req'[j], good'[j], eng'[1], servable')  BY <1>2, <1>5, <1>6
  <1>8. good' \in [Requests -> SUBSET Members]  BY <1>3 DEF RouteInv
  <1>9. QED  BY <1>2, <1>7, <1>8 DEF RouteInv

\* Time passes, and no cooldown ends.
LEMMA RouteTick ==
  ASSUME RouteInv, Routing!Tick
  PROVE  RouteInv'
  <1>1. clock' \in 1..RouteClock /\ UNCHANGED <<row, eng, servable, req, good>>
    BY RoutingAssumption DEF RouteInv, Routing!Tick
  <1>2. QED  BY <1>1 DEF RouteInv

\* The invariant holds at the start ...
LEMMA RouteInit ==
  ASSUME Routing!Init
  PROVE  RouteInv
  <1>1. /\ row \in Configs /\ servable \in SUBSET Members /\ clock = 1
        /\ eng = <<NewState(row)>> /\ req = [p \in Requests |-> Routing!Fresh]
        /\ good = [p \in Requests |-> {}]
    BY SameReads DEF Routing!Init
  <1> DEFINE st == NewState(row)
  <1>2. GroupOK(st) /\ st.conf = row /\ st.cool = [m \in Members |-> 0]  BY <1>1, NewStateOK
  <1> HIDE DEF st
  <1>3. Sound(st)  BY <1>2 DEF Sound, Lasting
  <1>4. eng[1] = st /\ eng = <<eng[1]>>  BY <1>1 DEF st
  <1> DEFINE r == Routing!Fresh
  <1>5. /\ r \in Progress /\ r.pc = "start" /\ r.attempt = 0 /\ r.runs = 0
    BY SameReads DEF Routing!Fresh, Progress, RoutePCs, Pools
  <1> HIDE DEF r
  <1>6. Cardinality(Members) \in Nat  BY RoutingAssumption, FS_CardinalityType
  <1>7. ProgressOK(r)  BY <1>5, <1>6 DEF ProgressOK, AtPick
  <1>8. RequestOK(r, {}, st, servable)
    <2>1. RoundsOK(r, {}, st)  BY DEF RoundsOK
    <2>2. QED  BY <1>5, <1>7, <2>1 DEF RequestOK
  <1>9. \A i \in Requests : RequestOK(req[i], good[i], eng[1], servable)  BY <1>1, <1>4, <1>8 DEF r
  <1>10. clock \in 1..RouteClock  BY <1>1, RoutingAssumption
  <1>11. req \in [Requests -> Progress]  BY <1>1, <1>5 DEF r
  <1>12. QED  BY <1>1, <1>2, <1>3, <1>4, <1>9, <1>10, <1>11 DEF RouteInv

\* ... and after every step.
LEMMA RouteNext ==
  ASSUME RouteInv, [Routing!Next]_Routing!vars
  PROVE  RouteInv'
  <1>1. CASE UNCHANGED Routing!vars  BY <1>1 DEF Routing!vars, RouteInv
  <1>2. ASSUME NEW i \in Requests, Routing!RequestStep(i) PROVE RouteInv'
    <2>1. ~Routing!Seed(i)
      <3>1. req[i].pc \in RoutePCs  BY DEF RouteInv, Progress
      <3>2. QED  BY <3>1 DEF Routing!Seed, RoutePCs
    <2>2. QED
      BY <1>2, <2>1, ReadRowKeeps, HasGroupKeeps, GateKeeps, PickDefaultKeeps, PickBackupKeeps,
         CheckKeeps, StaleKeeps, RaceKeeps, ExcludeKeeps, ReBackupKeeps, ReStaleKeeps
      DEF Routing!RequestStep
  <1>3. QED  BY <1>1, <1>2, EditGroupKeeps, EditMemberKeeps, RouteTick DEF Routing!Next

\* What the invariant says of the refusal.
LEMMA RouteTypes ==
  ASSUME RouteInv
  PROVE  Routing!TypeOK /\ Routing!UnservableIsReal
  <1>1. Len(eng) <= 1
    <2> DEFINE st == eng[1]
    <2>1. eng = <<st>>  BY DEF RouteInv
    <2> HIDE DEF st
    <2>2. QED  BY <2>1
  <1>2. Cardinality(Members) \in Nat /\ Routing!Cardinality(Members) = Cardinality(Members)
    BY RoutingAssumption, FS_CardinalityType, SameCounting
  <1>3. ASSUME NEW i \in Requests
        PROVE  /\ req[i].member \in Members \cup {Routing!NoMember}
               /\ req[i].runs \in 0..2 /\ req[i].attempt \in 0..(Routing!Cardinality(Members) + 1)
               /\ good[i] \subseteq Members
               /\ req[i].pc = "unservable" => good[i] = {}
    <2>1. RequestOK(req[i], good[i], eng[1], servable) /\ req[i] \in Progress /\ good[i] \in SUBSET Members
      BY DEF RouteInv
    <2>2. req[i].member \in Members \cup {NoMember} /\ req[i].runs \in Nat /\ req[i].attempt \in Nat
      BY <2>1 DEF Progress
    <2>3. req[i].runs <= 2 /\ req[i].attempt <= Cardinality(Members) + 1
      BY <2>1 DEF RequestOK, ProgressOK
    <2>4. QED  BY <1>2, <2>1, <2>2, <2>3, SameReads DEF RequestOK
  <1>4. QED  BY <1>1, <1>3 DEF Routing!TypeOK, Routing!UnservableIsReal, RouteInv

\* A request that runs a backup has no good default member.
LEMMA BackupRuns ==
  ASSUME RouteInv, NEW i \in Requests, Routing!Runs(i), req[i].pool = "backup"
  PROVE  \A m \in good[i] : eng[1].conf[m] # "default"
  <1>1. req[i].pc = "check" /\ RequestOK(req[i], good[i], eng[1], servable)
    BY DEF Routing!Runs, RouteInv
  <1>2. good[i] \cap PoolOf(eng[1], "default") = {} /\ good[i] \subseteq DOMAIN eng[1].conf
    BY <1>1 DEF RequestOK, OnBackup, AtPick, Usable
  <1>3. QED  BY <1>2 DEF PoolOf

\* A backup runs, and group_unservable is answered, only when no default member, or
\* no member at all, was healthy and servable during the whole rewrite.
THEOREM BackupsAreTheLastResort == Routing!Spec => LastResort
  <1>1. Routing!Init => RouteInv  BY RouteInit
  <1>2. RouteInv /\ [Routing!Next]_Routing!vars => RouteInv'  BY RouteNext
  <1>3. RouteInv => Routing!TypeOK /\ Routing!UnservableIsReal  BY RouteTypes
  <1>4. RouteInv => (\A p \in Requests :
                        Routing!Runs(p) /\ req[p].pool = "backup"
                        => \A m \in good[p] : eng[1].conf[m] # "default")
    BY BackupRuns
  <1>5. QED
    BY <1>1, <1>2, <1>3, <1>4, PTL DEF Routing!Spec, LastResort, Routing!BackupLastResort

=============================================================================
