------------------------- MODULE ConfigStoreProofs -------------------------
(***************************************************************************)
(* Proofs about the database-backed ModelsManager, for any tables, any     *)
(* administrators and any capacity of the drain goroutine's channel.       *)
(*                                                                         *)
(* Three arguments, each with the hypothesis it needs:                     *)
(*   - always: the claim index names owners only, and every owner there is *)
(*     unless a rebuild could not read the table, so GetModel redirects as *)
(*     the rows say or not at all;                                         *)
(*   - when requests come one at a time: a validated write is still valid  *)
(*     when it gets the lock, so no reference dangles that a deletion did  *)
(*     not leave behind when its scan failed;                              *)
(*   - when no notice is lost: a model whose engine state is not the       *)
(*     committed one has a notice in the channel or in the drain goroutine,*)
(*     or its row could not be read.                                       *)
(* Then its JSON twin, the settings of either backend, and the resolution  *)
(* of a model to a credential and to the upstream model of the hour.       *)
(***************************************************************************)
EXTENDS ConfigStore, Integers, FiniteSetTheorems, TLAPS

Pending == [op : {"add", "update"}, id : Ids, row : Rows]
Read == [op : {"apply"}, id : Ids, creds : SUBSET Creds]

Types ==
    /\ DOMAIN rows \subseteq Ids /\ (\A i \in DOMAIN rows : rows[i] \in Rows)
    /\ DOMAIN cred \subseteq Creds
    /\ claims \in [Ids -> Ids \cup {None}]
    /\ DOMAIN engine \subseteq Ids
    /\ \A i \in DOMAIN engine : engine[i] \subseteq Creds /\ engine[i] # {}
    /\ admin \in [Admins -> {Idle} \cup Pending]
    /\ channel \in Seq(Ids) /\ Len(channel) <= Buffer
    /\ drain \in {Idle} \cup Read

\* The index c names an owner of every id that table t shadows, and no other.
Indexes(c, t) ==
    \A s \in Ids : IF Owners(t, s) # {} THEN c[s] \in Owners(t, s) ELSE c[s] = None

\* The index c names owners only.
Partial(c, t) == \A s \in Ids : c[s] \in Owners(t, s) \cup {None}

ClaimsInv == Partial(claims, rows) /\ (~degraded => Indexes(claims, rows))

-----------------------------------------------------------------------------
(* The operators on tables.                                                *)

\* A record is written.
LEMMA PutFields ==
  ASSUME NEW f, NEW id, NEW v
  PROVE  /\ DOMAIN Put(f, id, v) = DOMAIN f \cup {id}
         /\ Put(f, id, v)[id] = v
         /\ \A i \in DOMAIN f \ {id} : Put(f, id, v)[i] = f[i]
  BY DEF Put

\* A record is deleted.
LEMMA DropFields ==
  ASSUME NEW f, NEW id
  PROVE  /\ DOMAIN Drop(f, id) = DOMAIN f \ {id}
         /\ \A i \in DOMAIN f \ {id} : Drop(f, id)[i] = f[i]
  BY DEF Drop, Restrict

\* OnModelChanged replaces one model's state, or deletes it with an empty list.
LEMMA ToldFields ==
  ASSUME NEW f, NEW id, NEW creds
  PROVE  /\ creds # {} => DOMAIN Told(f, id, creds) = DOMAIN f \cup {id} /\ Told(f, id, creds)[id] = creds
         /\ creds = {} => DOMAIN Told(f, id, creds) = DOMAIN f \ {id}
         /\ \A i \in DOMAIN f \ {id} : Told(f, id, creds)[i] = f[i]
  <1>1. CASE creds = {}
    <2>1. Told(f, id, creds) = Drop(f, id)  BY <1>1 DEF Told
    <2>2. /\ DOMAIN Drop(f, id) = DOMAIN f \ {id}
          /\ \A i \in DOMAIN f \ {id} : Drop(f, id)[i] = f[i]
      BY DropFields
    <2>3. QED  BY <1>1, <2>1, <2>2, Zenon
  <1>2. CASE creds # {}
    <2>1. Told(f, id, creds) = Put(f, id, creds)  BY <1>2 DEF Told
    <2>2. /\ DOMAIN Put(f, id, creds) = DOMAIN f \cup {id} /\ Put(f, id, creds)[id] = creds
          /\ \A i \in DOMAIN f \ {id} : Put(f, id, creds)[i] = f[i]
      BY DEF Put
    <2>3. QED  BY <1>2, <2>1, <2>2, Zenon
  <1>3. QED  BY <1>1, <1>2

\* rebuildClaimsLocked gives an index of the table.
LEMMA RebuiltIndexes ==
  ASSUME NEW t, DOMAIN t \subseteq Ids, NEW c \in ClaimIndexes(t)
  PROVE  c \in [Ids -> Ids \cup {None}] /\ Indexes(c, t)
  <1> DEFINE claimed == {s \in Ids : Owners(t, s) # {}}
             all == UNION {Owners(t, s) : s \in claimed}
  <1>1. PICK d \in [claimed -> all] :
           /\ \A s \in claimed : d[s] \in Owners(t, s)
           /\ c = [s \in Ids |-> IF s \in claimed THEN d[s] ELSE None]
    BY DEF ClaimIndexes
  <1>2. \A s \in Ids : c[s] = IF s \in claimed THEN d[s] ELSE None  BY <1>1
  <1>3. \A s : Owners(t, s) \subseteq Ids  BY DEF Owners
  <1>4. \A s \in Ids : s \in claimed <=> Owners(t, s) # {}  OBVIOUS
  <1> HIDE DEF claimed, all
  <1>5. Indexes(c, t)  BY <1>1, <1>2, <1>4 DEF Indexes
  <1>6. \A s \in Ids : c[s] \in Ids \cup {None}  BY <1>1, <1>2, <1>3
  <1>7. QED  BY <1>1, <1>5, <1>6

\* A rebuild, whether it reads every group or not.
LEMMA RebuildFields ==
  ASSUME NEW t, DOMAIN t \subseteq Ids, Rebuild(t)
  PROVE  /\ claims' \in [Ids -> Ids \cup {None}] /\ Partial(claims', t)
         /\ ~degraded' => Indexes(claims', t)
  <1>1. ASSUME NEW c \in ClaimIndexes(t)
        PROVE  c \in [Ids -> Ids \cup {None}] /\ Indexes(c, t) /\ Partial(c, t)
    <2>1. c \in [Ids -> Ids \cup {None}] /\ Indexes(c, t)  BY <1>1, RebuiltIndexes
    <2>2. QED  BY <2>1 DEF Indexes, Partial
  <1>2. CASE claims' \in ClaimIndexes(t) /\ degraded' = FALSE  BY <1>1, <1>2
  <1>3. ASSUME NEW c \in ClaimIndexes(t), NEW S \in SUBSET Ids,
               claims' = [s \in Ids |-> IF s \in S THEN c[s] ELSE None], degraded' = TRUE
        PROVE  claims' \in [Ids -> Ids \cup {None}] /\ Partial(claims', t) /\ degraded'
    <2>1. c \in [Ids -> Ids \cup {None}] /\ Partial(c, t)  BY <1>1
    <2>2. QED  BY <1>3, <2>1 DEF Partial
  <1>4. QED  BY <1>2, <1>3 DEF Rebuild

\* Publish adds the id at the end, or drops the event.
LEMMA PublishFields ==
  ASSUME ConfigAssumption, Types, NEW id \in Ids, Publish(id)
  PROVE  /\ channel' \in Seq(Ids) /\ Len(channel') <= Buffer
         /\ \A k \in 1..Len(channel) : k \in 1..Len(channel') /\ channel'[k] = channel[k]
         /\ Len(channel) < Buffer => \E k \in 1..Len(channel') : channel'[k] = id
  <1>1. channel \in Seq(Ids) /\ Len(channel) \in Nat /\ Len(channel) <= Buffer /\ Buffer \in Nat
    BY DEF Types, ConfigAssumption
  <1>2. CASE Len(channel) < Buffer
    <2>1. channel' = Append(channel, id)  BY <1>2 DEF Publish
    <2>2. channel' \in Seq(Ids) /\ Len(channel') = Len(channel) + 1  BY <1>1, <2>1
    <2>3. \A k \in 1..Len(channel) : k \in 1..Len(channel') /\ channel'[k] = channel[k]  BY <1>1, <2>1, <2>2
    <2>4. Len(channel') \in 1..Len(channel') /\ channel'[Len(channel')] = id  BY <1>1, <2>1, <2>2
    <2>5. QED  BY <1>1, <1>2, <2>2, <2>3, <2>4
  <1>3. CASE ~(Len(channel) < Buffer)
    <2>1. channel' = channel  BY <1>3 DEF Publish
    <2>2. QED  BY <1>1, <1>3, <2>1
  <1>4. QED  BY <1>2, <1>3

\* What a write that is not refused does.
LEMMA WriteFields ==
  ASSUME Types, NEW a \in Admins, Write(a)
  PROVE  /\ admin[a] # Idle /\ admin[a] \in Pending /\ (Lossy \/ Len(channel) < Buffer)
         /\ admin' = [admin EXCEPT ![a] = Idle] /\ UNCHANGED <<cred, drain, unguarded>>
         /\ \/ UNCHANGED <<rows, claims, engine, groups, channel, degraded, missed>>
            \/ /\ rows' = Put(rows, admin[a].id, admin[a].row)
               /\ engine' = Told(engine, admin[a].id, admin[a].row.creds)
               /\ missed' = missed \ {admin[a].id}
               /\ Publish(admin[a].id) /\ Rebuild(rows')
  <1>1. admin[a] # Idle /\ admin[a] \in {Idle} \cup Pending  BY DEF Write, Types
  <1>2. QED  BY <1>1 DEF Write

\* The table after a row is written or deleted is a table of rows.
LEMMA TablesTyped ==
  ASSUME Types, NEW id \in Ids, NEW row \in Rows
  PROVE  /\ DOMAIN Put(rows, id, row) \subseteq Ids
         /\ \A i \in DOMAIN Put(rows, id, row) : Put(rows, id, row)[i] \in Rows
         /\ DOMAIN Drop(rows, id) \subseteq Ids
         /\ \A i \in DOMAIN Drop(rows, id) : Drop(rows, id)[i] \in Rows
  BY DEF Types, Put, Drop, Restrict

\* So is the engine's state after it is told a list.
LEMMA EngineTyped ==
  ASSUME Types, NEW id \in Ids, NEW creds \in SUBSET Creds
  PROVE  /\ DOMAIN Told(engine, id, creds) \subseteq Ids
         /\ \A i \in DOMAIN Told(engine, id, creds) :
               Told(engine, id, creds)[i] \subseteq Creds /\ Told(engine, id, creds)[i] # {}
         /\ DOMAIN Drop(engine, id) \subseteq Ids
         /\ \A i \in DOMAIN Drop(engine, id) :
               Drop(engine, id)[i] \subseteq Creds /\ Drop(engine, id)[i] # {}
  BY DEF Types, Told, Put, Drop, Restrict

-----------------------------------------------------------------------------
(* The claim index follows the rows, and the state keeps its shape.        *)

BaseInv == Types /\ ClaimsInv

\* An empty database has no claims.
LEMMA BaseInit ==
  ASSUME ConfigAssumption, Init
  PROVE  BaseInv
  <1>1. DOMAIN Empty = {}  BY DEF Empty
  <1>2. rows = Empty /\ cred = Empty /\ engine = Empty /\ claims = NoClaims
        /\ admin = [a \in Admins |-> Idle] /\ channel = <<>> /\ drain = Idle
    BY DEF Init
  <1>3. channel \in Seq(Ids) /\ Len(channel) <= Buffer  BY <1>2 DEF ConfigAssumption
  <1>4. Types  BY <1>1, <1>2, <1>3 DEF Types, NoClaims
  <1>5. \A s : Owners(rows, s) = {}  BY <1>1, <1>2 DEF Owners
  <1>6. ClaimsInv  BY <1>2, <1>5 DEF ClaimsInv, Indexes, Partial, NoClaims
  <1>7. QED  BY <1>4, <1>6 DEF BaseInv

\* A validated draft is a row.
LEMMA ValidateBase ==
  ASSUME ConfigAssumption, BaseInv, NEW a \in Admins, NEW op \in {"add", "update"}, NEW d \in Drafts,
         Validate(a, op, d[1], d[2])
  PROVE  BaseInv'
  <1>1. d[1] \in Ids /\ d[2] \in Rows  BY DEF ConfigAssumption
  <1>2. [op |-> op, id |-> d[1], row |-> d[2]] \in Pending  BY <1>1 DEF Pending
  <1>3. /\ admin' = [admin EXCEPT ![a] = [op |-> op, id |-> d[1], row |-> d[2]]]
        /\ UNCHANGED <<rows, cred, claims, engine, groups, channel, drain, degraded>>
    BY DEF Validate, faults
  <1>4. admin' \in [Admins -> {Idle} \cup Pending]  BY <1>2, <1>3 DEF BaseInv, Types
  <1>5. Types' /\ ClaimsInv'  BY <1>3, <1>4 DEF BaseInv, Types, ClaimsInv
  <1>6. QED  BY <1>5 DEF BaseInv

\* A write keeps the shape and rebuilds the index.
LEMMA WriteBase ==
  ASSUME ConfigAssumption, BaseInv, NEW a \in Admins, Write(a)
  PROVE  BaseInv'
  <1> DEFINE w == admin[a]
  <1>1. Types  BY DEF BaseInv
  <1>2. /\ w \in Pending /\ admin' = [admin EXCEPT ![a] = Idle] /\ UNCHANGED <<cred, drain>>
    BY <1>1, WriteFields
  <1>3. w.id \in Ids /\ w.row \in Rows /\ w.row.creds \in SUBSET Creds  BY <1>2 DEF Pending, Rows
  <1>4. admin' \in [Admins -> {Idle} \cup Pending]  BY <1>1, <1>2 DEF Types
  <1>5. CASE UNCHANGED <<rows, claims, engine, groups, channel, degraded>>
    <2>1. Types' /\ ClaimsInv'  BY <1>2, <1>4, <1>5 DEF BaseInv, Types, ClaimsInv
    <2>2. QED  BY <2>1 DEF BaseInv
  <1>6. CASE /\ rows' = Put(rows, w.id, w.row) /\ engine' = Told(engine, w.id, w.row.creds)
             /\ Publish(w.id) /\ Rebuild(rows')
    <2> HIDE DEF w
    <2>1. DOMAIN rows' \subseteq Ids /\ \A i \in DOMAIN rows' : rows'[i] \in Rows
      BY <1>1, <1>3, <1>6, TablesTyped
    <2>2. DOMAIN engine' \subseteq Ids /\ \A i \in DOMAIN engine' : engine'[i] \subseteq Creds /\ engine'[i] # {}
      BY <1>1, <1>3, <1>6, EngineTyped
    <2>3. channel' \in Seq(Ids) /\ Len(channel') <= Buffer  BY <1>1, <1>3, <1>6, PublishFields
    <2>4. /\ claims' \in [Ids -> Ids \cup {None}] /\ Partial(claims', rows')
          /\ ~degraded' => Indexes(claims', rows')
      BY <1>6, <2>1, RebuildFields
    <2>5. Types'  BY <1>1, <1>2, <1>4, <2>1, <2>2, <2>3, <2>4 DEF Types
    <2>6. QED  BY <2>4, <2>5 DEF BaseInv, ClaimsInv
  <1>7. QED  BY <1>1, <1>5, <1>6, WriteFields

\* A deletion keeps the shape and rebuilds the index.
LEMMA RemoveModelBase ==
  ASSUME ConfigAssumption, BaseInv, NEW id \in Ids, RemoveModel(id)
  PROVE  BaseInv'
  <1>1. /\ Types /\ rows' = Drop(rows, id) /\ engine' = Drop(engine, id) /\ Rebuild(rows')
        /\ UNCHANGED <<cred, admin, channel, drain>>
    BY DEF BaseInv, RemoveModel
  <1>2. DOMAIN rows' \subseteq Ids /\ \A i \in DOMAIN rows' : rows'[i] \in Rows
    BY <1>1 DEF Types, Drop, Restrict
  <1>3. DOMAIN engine' \subseteq Ids /\ \A i \in DOMAIN engine' : engine'[i] \subseteq Creds /\ engine'[i] # {}
    BY <1>1 DEF Types, Drop, Restrict
  <1>4. /\ claims' \in [Ids -> Ids \cup {None}] /\ Partial(claims', rows')
        /\ ~degraded' => Indexes(claims', rows')
    BY <1>1, <1>2, RebuildFields
  <1>5. Types'  BY <1>1, <1>2, <1>3, <1>4 DEF Types
  <1>6. QED  BY <1>4, <1>5 DEF BaseInv, ClaimsInv

\* The credentials table is changed alone.
LEMMA CredentialBase ==
  ASSUME BaseInv, NEW c \in Creds, NEW p, AddCredential(c, p) \/ UpdateCredential(c, p) \/ RemoveCredential(c)
  PROVE  BaseInv'
  <1>1. UNCHANGED <<rows, claims, engine, groups, admin, channel, drain, degraded>>
    BY DEF AddCredential, UpdateCredential, RemoveCredential, faults
  <1>2. DOMAIN cred' \subseteq Creds
    BY DEF BaseInv, Types, AddCredential, UpdateCredential, RemoveCredential, Put, Drop, Restrict
  <1>3. Types' /\ ClaimsInv'  BY <1>1, <1>2 DEF BaseInv, Types, ClaimsInv
  <1>4. QED  BY <1>3 DEF BaseInv

\* The drain goroutine takes an id off the channel and reads its row, or fails to.
LEMMA DrainReadFields ==
  ASSUME Types, DrainRead
  PROVE  /\ channel # <<>> /\ Head(channel) \in Ids /\ channel' = Tail(channel)
         /\ channel' \in Seq(Ids) /\ Len(channel') <= Len(channel)
         /\ drain = Idle /\ drain' \in Read /\ drain' # Idle /\ drain'.id = Head(channel)
         /\ \/ /\ Head(channel) \in DOMAIN rows => drain'.creds = rows[Head(channel)].creds
               /\ missed' = missed \ {Head(channel)}
            \/ missed' = missed \cup {Head(channel)}
         /\ UNCHANGED <<rows, cred, claims, engine, groups, admin, degraded, unguarded>>
  <1> DEFINE id == Head(channel)
             list == IF id \in DOMAIN rows THEN rows[id].creds ELSE {}
  <1>1. /\ drain = Idle /\ channel # <<>> /\ channel' = Tail(channel)
        /\ \/ Found(id, list) /\ missed' = missed \ {id}
           \/ Found(id, {}) /\ missed' = missed \cup {id}
        /\ UNCHANGED <<rows, cred, claims, engine, groups, admin, degraded, unguarded>>
    BY DEF DrainRead
  <1>2. channel \in Seq(Ids)  BY DEF Types
  <1>3. id \in Ids /\ channel' \in Seq(Ids) /\ Len(channel') <= Len(channel)  BY <1>1, <1>2
  <1>4. list \in SUBSET Creds  BY DEF Types, Rows
  <1>5. id \in DOMAIN rows => list = rows[id].creds  OBVIOUS
  <1> HIDE DEF list, id
  <1>6. ASSUME NEW creds \in SUBSET Creds, Found(id, creds)
        PROVE  drain' \in Read /\ drain'.id = id /\ drain'.creds = creds /\ drain' # Idle
    <2>1. drain' = [op |-> "apply", id |-> id, creds |-> creds]  BY <1>6 DEF Found
    <2>2. drain' \in Read /\ drain'.id = id /\ drain'.creds = creds  BY <1>3, <2>1 DEF Read
    <2>3. drain' # Idle  BY <2>1 DEF Idle
    <2>4. QED  BY <2>2, <2>3
  <1>7. CASE Found(id, list) /\ missed' = missed \ {id}
    <2>1. drain' \in Read /\ drain'.id = id /\ drain'.creds = list /\ drain' # Idle  BY <1>4, <1>6, <1>7
    <2>2. QED  BY <1>1, <1>3, <1>5, <1>7, <2>1 DEF id
  <1>8. CASE Found(id, {}) /\ missed' = missed \cup {id}
    <2>1. drain' \in Read /\ drain'.id = id /\ drain' # Idle  BY <1>6, <1>8
    <2>2. QED  BY <1>1, <1>3, <1>8, <2>1 DEF id
  <1>9. QED  BY <1>1, <1>7, <1>8

\* Draining, a restart, a write that fails and a step that changes nothing.
LEMMA OthersBase ==
  ASSUME ConfigAssumption, BaseInv,
         DrainRead \/ DrainApply \/ Restart \/ (\E a \in Admins : WriteFails(a)) \/ UNCHANGED vars
  PROVE  BaseInv'
  <1>1. Types  BY DEF BaseInv
  <1>2. CASE DrainRead
    <2>1. /\ channel' \in Seq(Ids) /\ Len(channel') <= Len(channel) /\ drain' \in Read
          /\ UNCHANGED <<rows, cred, claims, engine, groups, admin, degraded>>
      BY <1>1, <1>2, DrainReadFields
    <2>2. Len(channel') <= Buffer
      <3>1. Len(channel) \in Nat /\ Len(channel') \in Nat /\ Len(channel) <= Buffer /\ Buffer \in Nat
        BY <1>1, <2>1 DEF Types, ConfigAssumption
      <3>2. QED  BY <2>1, <3>1
    <2>3. Types' /\ ClaimsInv'  BY <2>1, <2>2 DEF BaseInv, Types, ClaimsInv
    <2>4. QED  BY <2>3 DEF BaseInv
  <1>3. CASE DrainApply
    <2>1. /\ drain # Idle /\ engine' = Told(engine, drain.id, drain.creds) /\ drain' = Idle
          /\ UNCHANGED <<rows, cred, claims, groups, admin, channel, degraded>>
      BY <1>3 DEF DrainApply, faults
    <2>2. drain.id \in Ids /\ drain.creds \in SUBSET Creds  BY <1>1, <2>1 DEF Types, Read
    <2>3. DOMAIN engine' \subseteq Ids /\ \A i \in DOMAIN engine' : engine'[i] \subseteq Creds /\ engine'[i] # {}
      BY <1>1, <2>1, <2>2, EngineTyped
    <2>4. Types' /\ ClaimsInv'  BY <2>1, <2>3 DEF BaseInv, Types, ClaimsInv
    <2>5. QED  BY <2>4 DEF BaseInv
  <1>4. CASE Restart
    <2>1. /\ engine' = Committed \/ engine' = Empty
          /\ Rebuild(rows) /\ admin' = [a \in Admins |-> Idle]
          /\ channel' = <<>> /\ drain' = Idle /\ UNCHANGED <<rows, cred>>
      BY <1>4 DEF Restart
    <2>2. /\ claims' \in [Ids -> Ids \cup {None}] /\ Partial(claims', rows)
          /\ ~degraded' => Indexes(claims', rows)
      BY <1>1, <2>1, RebuildFields DEF Types
    <2>3. DOMAIN engine' \subseteq Ids /\ \A i \in DOMAIN engine' : engine'[i] \subseteq Creds /\ engine'[i] # {}
      BY <1>1, <2>1 DEF Types, Rows, Committed, Empty
    <2>4. channel' \in Seq(Ids) /\ Len(channel') <= Buffer  BY <2>1 DEF ConfigAssumption
    <2>5. Types'  BY <1>1, <2>1, <2>2, <2>3, <2>4 DEF Types
    <2>6. ClaimsInv'  BY <2>1, <2>2 DEF ClaimsInv, Indexes, Partial
    <2>7. QED  BY <2>5, <2>6 DEF BaseInv
  <1>5. ASSUME NEW a \in Admins, WriteFails(a) PROVE BaseInv'
    <2>1. /\ admin' = [admin EXCEPT ![a] = Idle]
          /\ UNCHANGED <<rows, cred, claims, engine, groups, channel, drain, degraded>>
      BY <1>5 DEF WriteFails, faults
    <2>2. admin' \in [Admins -> {Idle} \cup Pending]  BY <1>1, <2>1 DEF Types
    <2>3. Types' /\ ClaimsInv'  BY <2>1, <2>2 DEF BaseInv, Types, ClaimsInv
    <2>4. QED  BY <2>3 DEF BaseInv
  <1>6. CASE UNCHANGED vars
    <2>1. Types' /\ ClaimsInv'  BY <1>6 DEF BaseInv, Types, ClaimsInv, vars, faults
    <2>2. QED  BY <2>1 DEF BaseInv
  <1>7. QED  BY <1>2, <1>3, <1>4, <1>5, <1>6

\* The steps of the system, by what they do to the tables.
LEMMA Steps ==
  ASSUME [Next]_vars
  PROVE  \/ \E a \in Admins, op \in {"add", "update"}, d \in Drafts : Validate(a, op, d[1], d[2])
         \/ \E a \in Admins : Write(a)
         \/ \E id \in Ids : RemoveModel(id)
         \/ \E c \in Creds, p \in Providers : AddCredential(c, p) \/ UpdateCredential(c, p)
         \/ \E c \in Creds : RemoveCredential(c)
         \/ DrainRead \/ DrainApply \/ Restart
         \/ \E a \in Admins : WriteFails(a)
         \/ UNCHANGED vars
  BY DEF Next, AdminStep

\* Every step keeps the shape and the index.
LEMMA BaseStep ==
  ASSUME ConfigAssumption, BaseInv, [Next]_vars
  PROVE  BaseInv'
  <1>1. ASSUME NEW a \in Admins, NEW op \in {"add", "update"}, NEW d \in Drafts, Validate(a, op, d[1], d[2])
        PROVE  BaseInv'
    BY <1>1, ValidateBase
  <1>2. ASSUME NEW a \in Admins, Write(a) PROVE BaseInv'  BY <1>2, WriteBase
  <1>3. ASSUME NEW id \in Ids, RemoveModel(id) PROVE BaseInv'  BY <1>3, RemoveModelBase
  <1>4. ASSUME NEW c \in Creds, NEW p, AddCredential(c, p) \/ UpdateCredential(c, p) \/ RemoveCredential(c)
        PROVE  BaseInv'
    BY <1>4, CredentialBase
  <1>5. ASSUME DrainRead \/ DrainApply \/ Restart \/ (\E a \in Admins : WriteFails(a)) \/ UNCHANGED vars
        PROVE  BaseInv'
    BY <1>5, OthersBase
  <1>6. QED  BY <1>1, <1>2, <1>3, <1>4, <1>5, Steps

\* The shape of the state and of the claim index, in every behaviour.
THEOREM ConfigBase ==
  ASSUME ConfigAssumption
  PROVE  Spec => []BaseInv
  <1>1. Init => BaseInv  BY BaseInit
  <1>2. BaseInv /\ [Next]_vars => BaseInv'  BY BaseStep
  <1>3. QED  BY <1>1, <1>2, PTL DEF Spec

\* GetModel serves an id from an enabled group that shadows it, if there is one and
\* the last rebuild of the index could read the table; whatever rows that rebuild or
\* the read itself cannot see, it never serves another model
\* (rebuildClaimsLocked: "the safe direction: no hijack").
THEOREM ReadsFollowRows ==
  ASSUME ConfigAssumption
  PROVE  Spec => []ShadowRead
  <1>1. BaseInv => ShadowRead
    <2>1. SUFFICES ASSUME BaseInv, NEW s \in Ids
                   PROVE  /\ ~degraded /\ Owners(rows, s) # {} => GetModel(s, rows, claims) \in Owners(rows, s)
                          /\ \A R \in SUBSET DOMAIN rows :
                                GetModel(s, Restrict(rows, R), claims) \in Owners(rows, s) \cup {s, None}
      BY DEF ShadowRead
    <2>2. ASSUME ~degraded, Owners(rows, s) # {} PROVE GetModel(s, rows, claims) \in Owners(rows, s)
      <3>1. claims[s] \in Owners(rows, s)  BY <2>1, <2>2 DEF BaseInv, ClaimsInv, Indexes
      <3>2. claims[s] \in DOMAIN rows /\ rows[claims[s]].enabled  BY <3>1 DEF Owners
      <3>3. GetModel(s, rows, claims) = claims[s]  BY <3>2 DEF GetModel
      <3>4. QED  BY <3>1, <3>3
    <2>3. ASSUME NEW R \in SUBSET DOMAIN rows
          PROVE  GetModel(s, Restrict(rows, R), claims) \in Owners(rows, s) \cup {s, None}
      <3> DEFINE t == Restrict(rows, R)
      <3>1. DOMAIN t = R  BY DEF Restrict
      <3> HIDE DEF t
      <3>2. None \notin R  BY <2>1 DEF BaseInv, Types, ConfigAssumption
      <3>3. claims[s] \in Owners(rows, s) \cup {None}  BY <2>1 DEF BaseInv, ClaimsInv, Partial
      <3>4. GetModel(s, t, claims) \in {s, None} \/ (GetModel(s, t, claims) = claims[s] /\ claims[s] \in R)
        BY <3>1 DEF GetModel
      <3>5. GetModel(s, t, claims) \in Owners(rows, s) \cup {s, None}  BY <3>2, <3>3, <3>4
      <3>6. QED  BY <3>5 DEF t
    <2>4. QED  BY <2>2, <2>3
  <1>2. QED  BY <1>1, ConfigBase, PTL

-----------------------------------------------------------------------------
(* Requests one at a time: no reference dangles.                           *)

SingleOwner(t) == \A s \in Ids : \A g, h \in Owners(t, s) : g = h

\* What was validated is still valid, and it is the only request under way.
PendingInv ==
    /\ \A a \in Admins : admin[a] # Idle => Accepted(admin[a].id, admin[a].row)
    /\ \A a, b \in Admins : admin[a] # Idle /\ admin[b] # Idle => a = b

\* Table t refers to no credential outside c that is not in u.
Guarded(t, c, u) == \A i \in DOMAIN t : t[i].creds \ DOMAIN c \subseteq u

ClosedInv == NoDanglingCredential /\ NoOrphanMember /\ SingleOwner(rows) /\ PendingInv

\* Nothing waits for the lock.
AllIdle == \A a \in Admins : admin[a] = Idle

\* A row that passed validation leaves the tables closed.
LEMMA PutClosed ==
  ASSUME Types, NoDanglingCredential, NoOrphanMember, SingleOwner(rows), NEW id \in Ids, NEW row \in Rows,
         ConfigAssumption, Accepted(id, row)
  PROVE  LET t == Put(rows, id, row) IN Guarded(t, cred, unguarded) /\ Peopled(t) /\ SingleOwner(t)
  <1> DEFINE t == Put(rows, id, row)
  <1>1. DOMAIN t = DOMAIN rows \cup {id} /\ t[id] = row /\ \A i \in DOMAIN rows \ {id} : t[i] = rows[i]
    BY DEF Put
  <1> HIDE DEF t
  <1>2. row.creds \subseteq DOMAIN cred /\ row.members \subseteq DOMAIN rows
    BY DEF Rows, Accepted, ValidRow, ValidGroup, ValidModel
  <1>3. Guarded(t, cred, unguarded)  BY <1>1, <1>2 DEF Guarded, NoDanglingCredential
  <1>4. Peopled(t)  BY <1>1, <1>2 DEF Peopled, NoOrphanMember
  <1>5. SingleOwner(t)
    <2>1. SUFFICES ASSUME NEW s \in Ids, NEW g \in Owners(t, s), NEW h \in Owners(t, s)
                   PROVE  g = h
      BY DEF SingleOwner
    <2>2. \A o \in Owners(t, s) \ {id} : o \in Owners(rows, s)  BY <1>1 DEF Owners
    <2>3. s # None  BY DEF ConfigAssumption
    <2>4. id \in Owners(t, s) => Owners(rows, s) \subseteq {id}
      BY <1>1, <2>3 DEF Owners, Accepted, ValidRow, ValidGroup
    <2>5. CASE id \in Owners(t, s)  BY <2>1, <2>2, <2>4, <2>5
    <2>6. CASE id \notin Owners(t, s)
      <3>1. g \in Owners(rows, s) /\ h \in Owners(rows, s)  BY <2>1, <2>2, <2>6
      <3>2. QED  BY <3>1 DEF SingleOwner
    <2>7. QED  BY <2>5, <2>6
  <1>6. QED  BY <1>3, <1>4, <1>5 DEF t

\* Deleting a model that is a member of no group leaves the tables closed.
LEMMA DropClosed ==
  ASSUME Types, NoDanglingCredential, NoOrphanMember, SingleOwner(rows), NEW id, MemberOf(rows, id) = {}
  PROVE  LET t == Drop(rows, id) IN Guarded(t, cred, unguarded) /\ Peopled(t) /\ SingleOwner(t)
  <1> DEFINE t == Drop(rows, id)
  <1>1. DOMAIN t = DOMAIN rows \ {id} /\ \A i \in DOMAIN rows \ {id} : t[i] = rows[i]
    BY DEF Drop, Restrict
  <1> HIDE DEF t
  <1>2. \A g \in DOMAIN rows : rows[g].kind # "group" => rows[g].members = {}  BY DEF Types, Rows
  <1>3. \A g \in DOMAIN rows : id \notin rows[g].members  BY <1>2 DEF MemberOf
  <1>4. Guarded(t, cred, unguarded)  BY <1>1 DEF Guarded, NoDanglingCredential
  <1>5. Peopled(t)  BY <1>1, <1>3 DEF Peopled, NoOrphanMember
  <1>6. \A s \in Ids : Owners(t, s) \subseteq Owners(rows, s)  BY <1>1 DEF Owners
  <1>7. SingleOwner(t)  BY <1>6 DEF SingleOwner
  <1>8. QED  BY <1>4, <1>5, <1>7 DEF t

\* Every step keeps the tables closed: a write was validated against the tables
\* it finds, since nothing else was let in.
LEMMA ClosedStep ==
  ASSUME ConfigAssumption, Sequential, BaseInv, ClosedInv, [Next]_vars
  PROVE  ClosedInv'
  <1>1. /\ Types /\ NoDanglingCredential /\ NoOrphanMember /\ SingleOwner(rows) /\ PendingInv
    BY DEF BaseInv, ClosedInv
  <1>2. ASSUME AllIdle' PROVE PendingInv'  BY <1>2 DEF AllIdle, PendingInv
  <1>3. ASSUME Free PROVE AllIdle  BY <1>3 DEF Free, AllIdle
  <1>4. ASSUME NEW a \in Admins, NEW op \in {"add", "update"}, NEW d \in Drafts, Validate(a, op, d[1], d[2])
        PROVE  ClosedInv'
    <2> DEFINE w == [op |-> op, id |-> d[1], row |-> d[2]]
    <2>1. /\ AllIdle /\ Accepted(d[1], d[2]) /\ admin' = [admin EXCEPT ![a] = w]
          /\ UNCHANGED <<rows, cred, unguarded>>
      BY <1>3, <1>4 DEF Validate, faults
    <2>2. w.id = d[1] /\ w.row = d[2]  OBVIOUS
    <2> HIDE DEF w
    <2>3. admin \in [Admins -> {Idle} \cup Pending]  BY <1>1 DEF Types
    <2>4. admin'[a] = w /\ \A b \in Admins \ {a} : admin'[b] = Idle  BY <2>1, <2>3 DEF AllIdle
    <2>5. Accepted(admin[a].id, admin[a].row)'
      <3>1. Accepted(w.id, w.row)  BY <2>1, <2>2
      <3>2. QED  BY <2>1, <2>4, <3>1 DEF Accepted
    <2>6. PendingInv'  BY <2>4, <2>5 DEF PendingInv
    <2>7. QED  BY <1>1, <2>1, <2>6 DEF ClosedInv, NoDanglingCredential, NoOrphanMember
  <1>5. ASSUME NEW a \in Admins, Write(a) PROVE ClosedInv'
    <2> DEFINE w == admin[a]
    <2>1. /\ w # Idle /\ w \in Pending /\ admin' = [admin EXCEPT ![a] = Idle] /\ cred' = cred /\ unguarded' = unguarded
          /\ rows' = rows \/ rows' = Put(rows, w.id, w.row)
      BY <1>1, <1>5, WriteFields
    <2>2. w.id \in Ids /\ w.row \in Rows  BY <2>1 DEF Pending
    <2>3. Accepted(w.id, w.row)  BY <1>1, <2>1 DEF PendingInv
    <2>4. PendingInv'
      <3>1. \A b \in Admins \ {a} : admin[b] = Idle  BY <1>1, <2>1 DEF PendingInv
      <3>2. AllIdle'  BY <1>1, <2>1, <3>1 DEF AllIdle, Types
      <3>3. QED  BY <1>2, <3>2
    <2> HIDE DEF w
    <2>5. CASE rows' = rows
      BY <1>1, <2>1, <2>4, <2>5 DEF ClosedInv, NoDanglingCredential, NoOrphanMember
    <2>6. CASE rows' = Put(rows, w.id, w.row)
      <3>1. Guarded(rows', cred, unguarded) /\ Peopled(rows') /\ SingleOwner(rows')
        BY <1>1, <2>2, <2>3, <2>6, PutClosed
      <3>2. QED  BY <2>1, <2>4, <3>1 DEF ClosedInv, NoDanglingCredential, NoOrphanMember, Guarded
    <2>7. QED  BY <2>1, <2>5, <2>6
  <1>6. ASSUME NEW id \in Ids, RemoveModel(id) PROVE ClosedInv'
    <2>1. MemberOf(rows, id) = {} /\ rows' = Drop(rows, id) /\ AllIdle /\ UNCHANGED <<cred, admin, unguarded>>
      BY <1>3, <1>6 DEF RemoveModel
    <2>2. Guarded(rows', cred, unguarded) /\ Peopled(rows') /\ SingleOwner(rows')  BY <1>1, <2>1, DropClosed
    <2>3. PendingInv'  BY <1>2, <2>1 DEF AllIdle
    <2>4. QED  BY <2>1, <2>2, <2>3 DEF ClosedInv, NoDanglingCredential, NoOrphanMember, Guarded
  <1>7. ASSUME NEW c \in Creds, NEW p, AddCredential(c, p) \/ UpdateCredential(c, p) \/ RemoveCredential(c)
        PROVE  ClosedInv'
    <2>1. AllIdle /\ UNCHANGED <<rows, admin>>
      BY <1>3, <1>7 DEF AddCredential, UpdateCredential, RemoveCredential
    <2>2. PendingInv'  BY <1>2, <2>1 DEF AllIdle
    <2>3. Guarded(rows, cred', unguarded')
      <3>1. CASE AddCredential(c, p)
        <4>1. DOMAIN cred' = DOMAIN cred \cup {c} /\ unguarded' = unguarded \ {c}  BY <3>1 DEF AddCredential, Put
        <4>2. QED  BY <1>1, <4>1 DEF Guarded, NoDanglingCredential
      <3>2. CASE UpdateCredential(c, p)
        <4>1. DOMAIN cred' = DOMAIN cred /\ unguarded' = unguarded  BY <3>2 DEF UpdateCredential, faults
        <4>2. QED  BY <1>1, <4>1 DEF Guarded, NoDanglingCredential
      <3>3. CASE RemoveCredential(c)
        <4>1. /\ DOMAIN cred' = DOMAIN cred \ {c}
              /\ \/ UsedBy(rows, c) = {} /\ unguarded' = unguarded
                 \/ unguarded' = unguarded \cup {c}
          BY <3>3 DEF RemoveCredential, Drop, Restrict
        <4>2. CASE UsedBy(rows, c) = {} /\ unguarded' = unguarded
          <5>1. \A i \in DOMAIN rows : c \notin rows[i].creds  BY <4>2 DEF UsedBy
          <5>2. QED  BY <1>1, <4>1, <4>2, <5>1 DEF Guarded, NoDanglingCredential
        <4>3. CASE unguarded' = unguarded \cup {c}
          BY <1>1, <4>1, <4>3 DEF Guarded, NoDanglingCredential
        <4>4. QED  BY <4>1, <4>2, <4>3
      <3>4. QED  BY <1>7, <3>1, <3>2, <3>3
    <2>4. QED  BY <1>1, <2>1, <2>2, <2>3 DEF ClosedInv, NoDanglingCredential, NoOrphanMember, Guarded
  <1>8. ASSUME DrainRead \/ DrainApply \/ UNCHANGED vars PROVE ClosedInv'
    <2>1. UNCHANGED <<rows, cred, admin, unguarded>>  BY <1>8 DEF DrainRead, DrainApply, vars, faults
    <2>2. QED  BY <1>1, <2>1 DEF ClosedInv, NoDanglingCredential, NoOrphanMember, PendingInv, Accepted
  <1>9. ASSUME Restart PROVE ClosedInv'
    <2>1. UNCHANGED <<rows, cred, unguarded>> /\ admin' = [a \in Admins |-> Idle]  BY <1>9 DEF Restart
    <2>2. PendingInv'  BY <1>2, <2>1 DEF AllIdle
    <2>3. QED  BY <1>1, <2>1, <2>2 DEF ClosedInv, NoDanglingCredential, NoOrphanMember
  <1>10. ASSUME NEW a \in Admins, WriteFails(a) PROVE ClosedInv'
    <2>1. UNCHANGED <<rows, cred, unguarded>> /\ admin' = [admin EXCEPT ![a] = Idle]
      BY <1>10 DEF WriteFails, faults
    <2>2. \A b \in Admins : admin'[b] \in {Idle, admin[b]}  BY <1>1, <2>1 DEF Types
    <2>3. PendingInv'  BY <1>1, <2>1, <2>2 DEF PendingInv, Accepted
    <2>4. QED  BY <1>1, <2>1, <2>3 DEF ClosedInv, NoDanglingCredential, NoOrphanMember
  <1>11. QED  BY <1>4, <1>5, <1>6, <1>7, <1>8, <1>9, <1>10, Steps

\* A set of at most one element has at most one element.
LEMMA AtMostOne ==
  ASSUME NEW S, \A x, y \in S : x = y
  PROVE  Cardinality(S) <= 1
  <1>1. CASE S = {}  BY <1>1, FS_EmptySet
  <1>2. CASE S # {}
    <2>1. PICK x \in S : TRUE  BY <1>2
    <2>2. S = {x}  BY <2>1
    <2>3. QED  BY <2>2, FS_Singleton
  <1>3. QED  BY <1>1, <1>2

\* When each administrative request is answered before the next comes, no write
\* or deletion, failed or not, and no restart leaves a group with a member that is
\* gone, an id with two owners, or a model with a credential that is gone, unless
\* the scan for its models failed when that credential was deleted.
THEOREM ConfigurationStaysClosed ==
  ASSUME ConfigAssumption, Sequential
  PROVE  Spec => [](NoDanglingCredential /\ NoOrphanMember /\ OneOwner)
  <1>1. Init => ClosedInv
    <2>1. SUFFICES ASSUME Init PROVE ClosedInv  OBVIOUS
    <2>2. DOMAIN rows = {} /\ \A a \in Admins : admin[a] = Idle  BY <2>1 DEF Init, Empty
    <2>3. QED  BY <2>2 DEF ClosedInv, NoDanglingCredential, NoOrphanMember, Peopled,
                           SingleOwner, Owners, PendingInv
  <1>2. BaseInv /\ ClosedInv /\ [Next]_vars => ClosedInv'  BY ClosedStep
  <1>3. ClosedInv => NoDanglingCredential /\ NoOrphanMember /\ OneOwner
    BY AtMostOne DEF ClosedInv, SingleOwner, OneOwner
  <1>4. QED  BY <1>1, <1>2, <1>3, ConfigBase, PTL DEF Spec

-----------------------------------------------------------------------------
(* No notice lost: the engine converges to the committed lists.            *)

\* The engine has i's committed list and the drain goroutine is not about to
\* change it ...
Settled(i) ==
    /\ i \in DOMAIN engine /\ engine[i] = rows[i].creds
    /\ drain # Idle => drain.id # i
\* ... or the goroutine is about to tell it ...
Coming(i) == drain # Idle /\ drain.id = i /\ drain.creds = rows[i].creds
\* ... or a notice waits in the channel.
Noticed(i) == \E k \in 1..Len(channel) : channel[k] = i

\* A row that could not be read is excused until a later notice is read.
FollowInv ==
    \A i \in DOMAIN rows \ missed : rows[i].creds # {} => Settled(i) \/ Coming(i) \/ Noticed(i)

\* A write settles its own model with a notice and leaves the others alone.
LEMMA WriteFollows ==
  ASSUME ConfigAssumption, ~Lossy, Types, FollowInv, NEW a \in Admins, Write(a)
  PROVE  FollowInv'
  <1> DEFINE w == admin[a]
  <1>1. /\ w \in Pending /\ Len(channel) < Buffer /\ UNCHANGED drain
        /\ \/ UNCHANGED <<rows, claims, engine, groups, channel, missed>>
           \/ /\ rows' = Put(rows, w.id, w.row) /\ engine' = Told(engine, w.id, w.row.creds)
              /\ Publish(w.id) /\ missed' = missed \ {w.id}
    BY WriteFields
  <1>2. w.id \in Ids  BY <1>1 DEF Pending
  <1> HIDE DEF w
  <1>3. CASE UNCHANGED <<rows, claims, engine, groups, channel, missed>>
    BY <1>1, <1>3 DEF FollowInv, Settled, Coming, Noticed
  <1>4. CASE /\ rows' = Put(rows, w.id, w.row) /\ engine' = Told(engine, w.id, w.row.creds)
             /\ Publish(w.id) /\ missed' = missed \ {w.id}
    <2>1. DOMAIN rows' = DOMAIN rows \cup {w.id} /\ \A i \in DOMAIN rows \ {w.id} : rows'[i] = rows[i]
      BY <1>4 DEF Put
    <2>2. \A i \in DOMAIN engine \ {w.id} : i \in DOMAIN engine' /\ engine'[i] = engine[i]
      BY <1>4 DEF Told, Put, Drop, Restrict
    <2>3. /\ \A k \in 1..Len(channel) : k \in 1..Len(channel') /\ channel'[k] = channel[k]
          /\ \E k \in 1..Len(channel') : channel'[k] = w.id
      BY <1>1, <1>2, <1>4, PublishFields
    <2>4. SUFFICES ASSUME NEW i \in DOMAIN rows' \ missed', rows'[i].creds # {}
                   PROVE  Settled(i)' \/ Coming(i)' \/ Noticed(i)'
      BY DEF FollowInv
    <2>5. CASE i = w.id  BY <2>3, <2>5 DEF Noticed
    <2>6. CASE i # w.id
      <3>1. i \in DOMAIN rows \ missed /\ rows'[i] = rows[i]  BY <1>4, <2>1, <2>4, <2>6
      <3>2. Settled(i) \/ Coming(i) \/ Noticed(i)  BY <2>4, <3>1 DEF FollowInv
      <3>3. Settled(i) => Settled(i)'  BY <1>1, <2>2, <2>6, <3>1 DEF Settled
      <3>4. Coming(i) => Coming(i)'  BY <1>1, <3>1 DEF Coming
      <3>5. Noticed(i) => Noticed(i)'  BY <2>3 DEF Noticed
      <3>6. QED  BY <3>2, <3>3, <3>4, <3>5
    <2>7. QED  BY <2>5, <2>6
  <1>5. QED  BY <1>1, <1>3, <1>4

\* The drain goroutine reads the row of the notice it takes: a later write sends
\* another notice.
LEMMA DrainFollows ==
  ASSUME Types, FollowInv, DrainRead \/ DrainApply
  PROVE  FollowInv'
  <1>1. CASE DrainRead
    <2>1. /\ channel # <<>> /\ channel' = Tail(channel) /\ channel \in Seq(Ids)
          /\ drain = Idle /\ drain' # Idle /\ drain'.id = Head(channel)
          /\ \/ /\ Head(channel) \in DOMAIN rows => drain'.creds = rows[Head(channel)].creds
                /\ missed' = missed \ {Head(channel)}
             \/ missed' = missed \cup {Head(channel)}
          /\ UNCHANGED <<rows, cred, claims, engine, groups, admin>>
      BY <1>1, DrainReadFields DEF Types
    <2>2. SUFFICES ASSUME NEW i \in DOMAIN rows \ missed', rows[i].creds # {}
                   PROVE  Settled(i)' \/ Coming(i)' \/ Noticed(i)'
      BY <2>1 DEF FollowInv
    <2>4. CASE i = Head(channel)  BY <2>1, <2>2, <2>4 DEF Coming
    <2>5. CASE i # Head(channel)
      <3>0. Settled(i) \/ Noticed(i)  BY <2>1, <2>2, <2>5 DEF FollowInv, Coming
      <3>1. Settled(i) => Settled(i)'  BY <2>1, <2>5 DEF Settled
      <3>2. ASSUME Noticed(i) PROVE Noticed(i)'
        <4>1. PICK k \in 1..Len(channel) : channel[k] = i  BY <3>2 DEF Noticed
        <4>2. k # 1  BY <2>1, <2>5, <4>1
        <4>3. /\ k - 1 \in 1..Len(channel') /\ channel'[k - 1] = channel[k]
          BY <2>1, <4>1, <4>2
        <4>4. QED  BY <4>1, <4>3 DEF Noticed
      <3>3. QED  BY <3>0, <3>1, <3>2
    <2>6. QED  BY <2>4, <2>5
  <1>2. CASE DrainApply
    <2>1. /\ drain # Idle /\ engine' = Told(engine, drain.id, drain.creds) /\ drain' = Idle
          /\ UNCHANGED <<rows, cred, claims, groups, admin, channel, missed>>
      BY <1>2 DEF DrainApply, faults
    <2>2. SUFFICES ASSUME NEW i \in DOMAIN rows \ missed, rows[i].creds # {}
                   PROVE  Settled(i)' \/ Coming(i)' \/ Noticed(i)'
      BY <2>1 DEF FollowInv
    <2>3. Settled(i) \/ Coming(i) \/ Noticed(i)  BY <2>2 DEF FollowInv
    <2>4. Noticed(i) => Noticed(i)'  BY <2>1 DEF Noticed
    <2>5. ASSUME Settled(i) PROVE Settled(i)'
      <3>1. i \in DOMAIN engine /\ i # drain.id /\ engine[i] = rows[i].creds  BY <2>1, <2>5 DEF Settled
      <3>2. i \in DOMAIN engine' /\ engine'[i] = engine[i]
        BY <2>1, <3>1 DEF Told, Put, Drop, Restrict
      <3>3. QED  BY <2>1, <3>1, <3>2 DEF Settled
    <2>6. ASSUME Coming(i) PROVE Settled(i)'
      <3>1. i = drain.id /\ drain.creds = rows[i].creds  BY <2>6 DEF Coming
      <3>2. i \in DOMAIN engine' /\ engine'[i] = rows[i].creds
        BY <2>1, <2>2, <3>1 DEF Told, Put
      <3>3. QED  BY <2>1, <3>2 DEF Settled
    <2>7. QED  BY <2>3, <2>4, <2>5, <2>6
  <1>3. QED  BY <1>1, <1>2

\* A deleted row needs nothing; the others keep what they have.
LEMMA RemoveFollows ==
  ASSUME FollowInv, NEW id \in Ids, RemoveModel(id)
  PROVE  FollowInv'
  <1>1. rows' = Drop(rows, id) /\ engine' = Drop(engine, id) /\ UNCHANGED <<channel, drain, missed>>
    BY DEF RemoveModel
  <1>2. DOMAIN rows' = DOMAIN rows \ {id} /\ \A i \in DOMAIN rows \ {id} : rows'[i] = rows[i]
    BY <1>1 DEF Drop, Restrict
  <1>3. \A i \in DOMAIN engine \ {id} : i \in DOMAIN engine' /\ engine'[i] = engine[i]
    BY <1>1 DEF Drop, Restrict
  <1>4. SUFFICES ASSUME NEW i \in (DOMAIN rows \ {id}) \ missed, rows[i].creds # {}
                 PROVE  Settled(i)' \/ Coming(i)' \/ Noticed(i)'
    BY <1>1, <1>2 DEF FollowInv
  <1>5. Settled(i) \/ Coming(i) \/ Noticed(i)  BY <1>4 DEF FollowInv
  <1>6. Settled(i) => Settled(i)'  BY <1>1, <1>2, <1>3, <1>4 DEF Settled
  <1>7. Coming(i) => Coming(i)'  BY <1>1, <1>2, <1>4 DEF Coming
  <1>8. Noticed(i) => Noticed(i)'  BY <1>1 DEF Noticed
  <1>9. QED  BY <1>5, <1>6, <1>7, <1>8

\* Every step keeps every model settled, coming or noticed.
LEMMA FollowStep ==
  ASSUME ConfigAssumption, ~Lossy, BaseInv, FollowInv, [Next]_vars
  PROVE  FollowInv'
  <1>1. Types  BY DEF BaseInv
  <1>2. ASSUME NEW a \in Admins, Write(a) PROVE FollowInv'  BY <1>1, <1>2, WriteFollows
  <1>3. ASSUME NEW id \in Ids, RemoveModel(id) PROVE FollowInv'  BY <1>3, RemoveFollows
  <1>4. CASE DrainRead \/ DrainApply  BY <1>1, <1>4, DrainFollows
  <1>5. CASE Restart
    <2>1. /\ engine' = Committed \/ missed' = DOMAIN rows
          /\ drain' = Idle /\ rows' = rows
      BY <1>5 DEF Restart
    <2>2. QED  BY <2>1 DEF FollowInv, Settled, Committed
  <1>6. ASSUME UNCHANGED <<rows, engine, channel, drain, missed>> PROVE FollowInv'
    BY <1>6 DEF FollowInv, Settled, Coming, Noticed
  <1>7. ASSUME NEW a \in Admins, NEW op \in {"add", "update"}, NEW d \in Drafts, Validate(a, op, d[1], d[2])
        PROVE  FollowInv'
    BY <1>6, <1>7 DEF Validate, faults
  <1>8. ASSUME NEW c \in Creds, NEW p, AddCredential(c, p) \/ UpdateCredential(c, p) \/ RemoveCredential(c)
        PROVE  FollowInv'
    BY <1>6, <1>8 DEF AddCredential, UpdateCredential, RemoveCredential, faults
  <1>9. ASSUME NEW a \in Admins, WriteFails(a) PROVE FollowInv'  BY <1>6, <1>9 DEF WriteFails, faults
  <1>10. CASE UNCHANGED vars  BY <1>6, <1>10 DEF vars, faults
  <1>11. QED  BY <1>2, <1>3, <1>4, <1>5, <1>7, <1>8, <1>9, <1>10, Steps

\* While no notice is lost, the engine has the committed list of every model whose
\* row could be read when it was last told of it, whenever the channel and the drain
\* goroutine are empty, however requests, re-reads and restarts interleave.
THEOREM EngineCatchesUp ==
  ASSUME ConfigAssumption, ~Lossy
  PROVE  Spec => []EngineFollows
  <1>1. Init => FollowInv
    <2>1. SUFFICES ASSUME Init PROVE FollowInv  OBVIOUS
    <2>2. DOMAIN rows = {}  BY <2>1 DEF Init, Empty
    <2>3. QED  BY <2>2 DEF FollowInv
  <1>2. BaseInv /\ FollowInv /\ [Next]_vars => FollowInv'  BY FollowStep
  <1>3. FollowInv => EngineFollows
    <2>1. SUFFICES ASSUME FollowInv, Quiet, NEW i \in DOMAIN Committed \ missed
                   PROVE  i \in DOMAIN engine /\ engine[i] = Committed[i]
      BY DEF EngineFollows
    <2>2. i \in DOMAIN rows /\ rows[i].creds # {} /\ Committed[i] = rows[i].creds
      BY <2>1 DEF Committed
    <2>3. ~Coming(i) /\ ~Noticed(i)  BY <2>1 DEF Quiet, Coming, Noticed
    <2>4. QED  BY <2>1, <2>2, <2>3 DEF FollowInv, Settled
  <1>4. QED  BY <1>1, <1>2, <1>3, ConfigBase, PTL DEF Spec

\* All of it together, for any tables, administrators and channel: the claim index
\* and the redirects always, the closed tables and the balancers under the
\* conditions they need (store.go: AddModel to RemoveCredential, publishModelEvent
\* and its drain goroutine).
THEOREM ConfigHolds ==
  ASSUME ConfigAssumption
  PROVE  Spec => []ConfigSound
  <1>1. BaseInv => TypeOK  BY DEF BaseInv, Types, TypeOK
  <1>2. Spec => [](Sequential => NoDanglingCredential /\ NoOrphanMember /\ OneOwner)
    <2>1. CASE Sequential  BY <2>1, ConfigurationStaysClosed, PTL
    <2>2. CASE ~Sequential  BY <2>2, PTL
    <2> QED  BY <2>1, <2>2
  <1>3. Spec => [](~Lossy => EngineFollows)
    <2>1. CASE ~Lossy  BY <2>1, EngineCatchesUp, PTL
    <2>2. CASE Lossy  BY <2>2, PTL
    <2> QED  BY <2>1, <2>2
  <1>4. TypeOK /\ ShadowRead
        /\ (Sequential => NoDanglingCredential /\ NoOrphanMember /\ OneOwner)
        /\ (~Lossy => EngineFollows) => ConfigSound
    BY DEF ConfigSound
  <1> QED  BY <1>1, <1>2, <1>3, <1>4, ConfigBase, ReadsFollowRows, PTL

-----------------------------------------------------------------------------
(* The file-backed twin.                                                   *)

VARIABLES file, jsonAdmin, answer
Json == INSTANCE JsonStore WITH admin <- jsonAdmin

OneAdmin == \A a, b \in Admins : a = b

\* What a save has validated, and what it is about to rename over the file, can
\* be loaded.
JsonInv ==
    /\ Json!AllValid(file.rows, file.cred)
    /\ DOMAIN jsonAdmin = Admins
    /\ \A a \in Admins :
        /\ jsonAdmin[a].pc = "encode" => Json!AllValid(jsonAdmin[a].rows, cred)
        /\ jsonAdmin[a].pc = "rename" => Json!AllValid(jsonAdmin[a].data.rows, jsonAdmin[a].data.cred)

\* An idle save has nothing to write.
LEMMA JsonIdle == Json!Idle.pc = "idle"
  BY DEF Json!Idle

\* No model, no credential, an empty file.
LEMMA JsonInit == ASSUME Json!Init PROVE JsonInv
  <1>1. DOMAIN Json!Empty = {}  BY DEF Json!Empty
  <1>2. file.rows = Json!Empty  BY DEF Json!Init
  <1>3. Json!AllValid(file.rows, file.cred)  BY <1>1, <1>2 DEF Json!AllValid
  <1>4. jsonAdmin = [a \in Admins |-> Json!Idle]  BY DEF Json!Init
  <1> QED  BY <1>3, <1>4, JsonIdle DEF JsonInv

\* A change in memory: its administrator has no save under way.
LEMMA JsonChange ==
  ASSUME OneAdmin, JsonInv, NEW a \in Admins,
         \/ \E op \in {"add", "update"} :
              \/ \E d \in Drafts : Json!PutModel(a, op, d[1], d[2])
              \/ \E c \in Creds, p \in Providers : Json!PutCredential(a, op, c, p)
         \/ \E id \in Ids : Json!RemoveModel(a, id)
         \/ \E c \in Creds : Json!RemoveCredential(a, c)
  PROVE  JsonInv'
  <1>1. file' = file /\ jsonAdmin[a].pc = "idle"
        /\ (jsonAdmin' = jsonAdmin \/ jsonAdmin' = [jsonAdmin EXCEPT ![a].pc = "save"])
    BY DEF Json!PutModel, Json!PutCredential, Json!RemoveModel, Json!RemoveCredential, Json!Refuse, Json!Accept
  <1>2. DOMAIN jsonAdmin' = Admins /\ jsonAdmin'[a].pc \in {"idle", "save"}
    <2> DEFINE s == [jsonAdmin[a] EXCEPT !.pc = "save"]
    <2>1. s.pc \in {"idle", "save"}  BY <1>1
    <2>2. jsonAdmin' = jsonAdmin \/ jsonAdmin' = [jsonAdmin EXCEPT ![a] = s]  BY <1>1
    <2> HIDE DEF s
    <2> QED  BY <1>1, <2>1, <2>2 DEF JsonInv
  <1>3. \A b \in Admins : b = a  BY DEF OneAdmin
  <1> QED  BY <1>1, <1>2, <1>3 DEF JsonInv

\* The steps of a save.
LEMMA JsonSave ==
  ASSUME OneAdmin, JsonInv, NEW a \in Admins,
         Json!SaveCapture(a) \/ Json!SaveValidate(a) \/ Json!SaveEncode(a) \/ Json!SaveRename(a)
  PROVE  JsonInv'
  <1>1. \A b \in Admins : b = a  BY DEF OneAdmin
  <1>2. CASE Json!SaveCapture(a)
    <2>1. /\ jsonAdmin' = [jsonAdmin EXCEPT ![a].pc = "validate", ![a].rows = rows]
          /\ UNCHANGED file
      BY <1>2 DEF Json!SaveCapture
    <2>2. DOMAIN jsonAdmin' = Admins /\ jsonAdmin'[a].pc \in {"validate", "save"}
      BY <1>2, <2>1 DEF JsonInv, Json!SaveCapture
    <2> QED  BY <1>1, <2>1, <2>2 DEF JsonInv
  <1>3. CASE Json!SaveValidate(a)
    <2> DEFINE s == IF Json!AllValid(jsonAdmin[a].rows, cred) THEN [jsonAdmin[a] EXCEPT !.pc = "encode"]
                    ELSE Json!Idle
    <2>1. jsonAdmin[a].pc = "validate" /\ jsonAdmin' = [jsonAdmin EXCEPT ![a] = s] /\ UNCHANGED <<cred, file>>
      BY <1>3 DEF Json!SaveValidate
    <2>2. s.pc \in {"encode", "validate", "idle"} /\ (s.pc = "encode" => Json!AllValid(s.rows, cred))
      BY <2>1, JsonIdle
    <2> HIDE DEF s
    <2>3. DOMAIN jsonAdmin' = Admins /\ jsonAdmin'[a] = s  BY <2>1 DEF JsonInv
    <2> QED  BY <1>1, <2>1, <2>2, <2>3 DEF JsonInv
  <1>4. CASE Json!SaveEncode(a)
    <2> DEFINE d == [rows |-> jsonAdmin[a].rows, cred |-> cred]
    <2> DEFINE s == [Json!Idle EXCEPT !.pc = "rename", !.data = d]
    <2>1. jsonAdmin[a].pc = "encode" /\ jsonAdmin' = [jsonAdmin EXCEPT ![a] = s] /\ UNCHANGED <<cred, file>>
      BY <1>4 DEF Json!SaveEncode
    <2>2. s.pc = "rename" /\ s.data.rows = jsonAdmin[a].rows /\ s.data.cred = cred
      BY DEF Json!Idle
    <2> HIDE DEF s
    <2>3. DOMAIN jsonAdmin' = Admins /\ jsonAdmin'[a] = s  BY <2>1 DEF JsonInv
    <2> QED  BY <1>1, <2>1, <2>2, <2>3 DEF JsonInv
  <1>5. CASE Json!SaveRename(a)
    <2>1. /\ jsonAdmin[a].pc = "rename" /\ jsonAdmin' = [jsonAdmin EXCEPT ![a] = Json!Idle]
          /\ file' \in {jsonAdmin[a].data, file}
      BY <1>5 DEF Json!SaveRename
    <2>2. DOMAIN jsonAdmin' = Admins /\ jsonAdmin'[a].pc = "idle"  BY <2>1, JsonIdle DEF JsonInv
    <2>3. Json!AllValid(file'.rows, file'.cred)  BY <2>1 DEF JsonInv
    <2> QED  BY <1>1, <2>2, <2>3 DEF JsonInv
  <1> QED  BY <1>2, <1>3, <1>4, <1>5

\* models.json can always be loaded: every row in it is valid with the credentials
\* in it, whichever changes were refused, saved or lost and wherever the process
\* stopped, while one administrator at a time makes them (ModelsConfig.Save).
THEOREM FileCanBeLoaded ==
  ASSUME OneAdmin
  PROVE  Json!Spec => []Json!FileValid
  <1>1. Json!Init => JsonInv  BY JsonInit
  <1>2. JsonInv /\ [Json!Next]_Json!vars => JsonInv'
    <2> SUFFICES ASSUME JsonInv, [Json!Next]_Json!vars PROVE JsonInv'
      OBVIOUS
    <2>1. CASE Json!Load
      <3>1. file' = file /\ jsonAdmin' = [a \in Admins |-> Json!Idle]  BY <2>1 DEF Json!Load
      <3> QED  BY <3>1, JsonIdle DEF JsonInv
    <2>2. CASE UNCHANGED Json!vars
      <3>1. UNCHANGED <<cred, file, jsonAdmin>>  BY <2>2 DEF Json!vars
      <3> QED  BY <3>1 DEF JsonInv
    <2> QED  BY <2>1, <2>2, JsonChange, JsonSave DEF Json!Next
  <1>3. JsonInv => Json!FileValid  BY DEF JsonInv, Json!FileValid
  <1> QED  BY <1>1, <1>2, <1>3, PTL DEF Json!Spec

-----------------------------------------------------------------------------
(* The settings of the proxy, of either backend.                           *)

CONSTANTS Backend, Sent, Envs
VARIABLES stored, backup, mem, env, mgr, next, readOnly, last, made
Set == INSTANCE Settings

\* Settings of their type that Validate lets through once the fields fs, which the
\* environment set, are set aside.
Good(c, fs) == c \in Set!Config /\ Set!Valid(Set!Without(c, fs))

\* What is stored, running or being written is good; a row holds no override and
\* neither does what is being written; while a file is being replaced its path is
\* empty; and a file that is there is what was stored last.
SettingsInv ==
    /\ env \in Envs /\ Good(mem, made \cup DOMAIN env)
    /\ stored # Set!NoStore => Good(stored, made)
    /\ mgr = "renamed" => Backend = "file" /\ Good(next, {}) /\ stored = Set!NoStore
    /\ Backend = "file" /\ stored # Set!NoStore => stored = last
    /\ Set!SettingsSound

\* A setting is not mistaken for an absent file or row.
LEMMA ConfigIsStored ==
  ASSUME NEW c \in Set!Config
  PROVE  c # Set!NoStore /\ DOMAIN c = Set!Fields
  <1>1. DOMAIN c = Set!Fields  BY DEF Set!Config, Set!Fields
  <1>2. "on" \in DOMAIN c /\ "on" \notin DOMAIN Set!NoStore  BY <1>1 DEF Set!Fields, Set!NoStore
  <1> QED  BY <1>1, <1>2

\* What Validate asks of the fields that are not set aside.
Passes(c, fs) ==
    /\ "port" \in fs \/ c.port # 0
    /\ "par" \in fs \/ c.par # 0
    /\ "idle" \in fs \/ ~c.idle \/ "wait" \in fs \/ c.wait >= Set!MinWait

\* The default of a field passes on its own, so a field set aside asks nothing.
LEMMA GoodPasses ==
  ASSUME NEW c \in Set!Config, NEW fs
  PROVE  Good(c, fs) <=> Passes(c, fs)
  <1> DEFINE w == Set!Without(c, fs)
  <1>1. DOMAIN c = {"port", "on", "par", "idle", "wait", "img"}  BY ConfigIsStored DEF Set!Fields
  <1>2. \A f \in DOMAIN c : w[f] = IF f \in fs THEN Set!Defaults[f] ELSE c[f]  BY DEF Set!Without
  <1>3. /\ Set!Defaults["port"] = 1 /\ Set!Defaults["par"] = 1 /\ Set!Defaults["idle"] = FALSE
        /\ Set!Defaults["wait"] = 3
    BY DEF Set!Defaults
  <1>4. c.port \in Nat /\ c.par \in Nat /\ c.idle \in BOOLEAN /\ c.wait \in Nat  BY DEF Set!Config
  <1> HIDE DEF w
  <1>5. /\ w.port = IF "port" \in fs THEN 1 ELSE c.port
        /\ w.par = IF "par" \in fs THEN 1 ELSE c.par
        /\ w.idle = IF "idle" \in fs THEN FALSE ELSE c.idle
        /\ w.wait = IF "wait" \in fs THEN 3 ELSE c.wait
    BY <1>1, <1>2, <1>3
  <1>6. Set!Valid(w) <=> w.port # 0 /\ w.par # 0 /\ (w.idle => w.wait >= 2)  BY DEF Set!Valid, Set!MinWait
  <1>7. Set!Valid(w) <=> Passes(c, fs)  BY <1>4, <1>5, <1>6 DEF Passes, Set!MinWait
  <1> QED  BY <1>7 DEF Good, w

\* Settings that pass whole are good whatever is set aside.
LEMMA ValidIsGood ==
  ASSUME NEW c \in Set!Config, Set!Valid(c), NEW fs
  PROVE  Good(c, fs)
  <1>1. Passes(c, fs)  BY DEF Set!Valid, Passes
  <1> QED  BY <1>1, GoodPasses

\* To set more fields aside asks less.
LEMMA GoodGrows ==
  ASSUME NEW c, NEW fs, Good(c, fs), NEW gs, fs \subseteq gs
  PROVE  Good(c, gs)
  <1>1. c \in Set!Config  BY DEF Good
  <1>2. Passes(c, fs)  BY <1>1, GoodPasses
  <1>3. Passes(c, gs)  BY <1>2 DEF Passes
  <1> QED  BY <1>1, <1>3, GoodPasses

\* The overrides show, keep the types and change only the fields they name.
LEMMA OverlayGood ==
  ASSUME Set!SettingsAssumption, NEW c, NEW fs, Good(c, fs), NEW e \in Envs
  PROVE  /\ Good(Set!Overlay(c, e), fs \cup DOMAIN e)
         /\ \A f \in DOMAIN e : Set!Overlay(c, e)[f] = e[f]
  <1> DEFINE o == Set!Overlay(c, e)
  <1> DEFINE pick(f) == IF f \in DOMAIN e THEN e[f] ELSE c[f]
  <1>0. c \in Set!Config  BY DEF Good
  <1>1. DOMAIN c = {"port", "on", "par", "idle", "wait", "img"}  BY <1>0, ConfigIsStored DEF Set!Fields
  <1>2. o = [f \in {"port", "on", "par", "idle", "wait", "img"} |-> pick(f)]  BY <1>1 DEF Set!Overlay
  <1>3. o = [port |-> pick("port"), on |-> pick("on"), par |-> pick("par"),
             idle |-> pick("idle"), wait |-> pick("wait"), img |-> pick("img")]
    BY <1>2
  <1>4. c.port \in Nat /\ c.on \in BOOLEAN /\ c.par \in Nat /\ c.idle \in BOOLEAN /\ c.wait \in Nat /\ c.img \in Nat
    BY <1>0 DEF Set!Config
  <1>6. \A f \in DOMAIN e : /\ f \in {"port", "on", "par", "idle", "wait", "img"}
                            /\ IF f \in {"on", "idle"} THEN e[f] \in BOOLEAN ELSE e[f] \in Nat
    BY DEF Set!SettingsAssumption, Set!Fields
  <1>7. /\ pick("port") \in Nat /\ pick("on") \in BOOLEAN /\ pick("par") \in Nat
        /\ pick("idle") \in BOOLEAN /\ pick("wait") \in Nat /\ pick("img") \in Nat
    BY <1>4, <1>6
  <1>8. \A f \in DOMAIN e : o[f] = e[f]
    BY <1>2, <1>6
  <1>9. /\ "port" \notin DOMAIN e => pick("port") = c.port
        /\ "par" \notin DOMAIN e => pick("par") = c.par
        /\ "idle" \notin DOMAIN e => pick("idle") = c.idle
        /\ "wait" \notin DOMAIN e => pick("wait") = c.wait
    OBVIOUS
  <1>10. Good(o, fs \cup DOMAIN e)
    <2> HIDE DEF pick, o
    <2>1. o \in Set!Config  BY <1>3, <1>7 DEF Set!Config
    <2>2. o.port = pick("port") /\ o.par = pick("par") /\ o.idle = pick("idle") /\ o.wait = pick("wait")
      BY <1>3
    <2>3. Passes(c, fs)  BY <1>0, GoodPasses
    <2>4. Passes(o, fs \cup DOMAIN e)  BY <1>9, <2>2, <2>3 DEF Passes
    <2> QED  BY <2>1, <2>4, GoodPasses
  <1> QED  BY <1>8, <1>10

\* The settings the code starts from.
LEMMA DefaultsGood == Set!Defaults \in Set!Config /\ Set!Valid(Set!Defaults)
  BY DEF Set!Defaults, Set!Config, Set!Valid

\* What is loaded.
LEMMA BaseGood ==
  ASSUME stored # Set!NoStore => Good(stored, made)
  PROVE  Good(Set!Base(stored), made)
  <1>1. Good(Set!Defaults, made)  BY DefaultsGood, ValidIsGood
  <1> QED  BY <1>1 DEF Set!Base

\* A merge of a partial setting is of its type; Validate decides on the rest.
LEMMA MergeTyped ==
  ASSUME NEW old \in Set!Config, NEW new \in Set!Config
  PROVE  Set!mergeConfig(old, new) \in Set!Config
  BY DEF Set!mergeConfig, Set!Config

\* The parts of the invariant that speak of the values, from the good ones.
LEMMA SettingsFacts ==
  ASSUME env' \in Envs, Good(mem', made' \cup DOMAIN env'), stored' # Set!NoStore => Good(stored', made')
  PROVE  Set!StoredIsValid'
  <1>1. Good(Set!Base(stored'), made')
    <2>1. Good(Set!Defaults, made')  BY DefaultsGood, ValidIsGood
    <2> QED  BY <2>1 DEF Set!Base
  <1> QED  BY <1>1 DEF Good, Set!StoredIsValid

\* Both managers start from good settings.
LEMMA SettingsInit == ASSUME Set!SettingsAssumption, Set!Init PROVE SettingsInv
  <1>1. env \in Envs /\ mem = Set!Overlay(Set!Defaults, env)  BY DEF Set!Init
  <1>2. Good(Set!Defaults, {})  BY DefaultsGood, ValidIsGood
  <1>3. Good(mem, {} \cup DOMAIN env) /\ \A f \in DOMAIN env : mem[f] = env[f]  BY <1>1, <1>2, OverlayGood
  <1>4. Good(mem, DOMAIN env)
    <2>1. {} \cup DOMAIN env \subseteq DOMAIN env  OBVIOUS
    <2> QED  BY <1>3, <2>1, GoodGrows
  <1>5. mgr = "idle" /\ last = stored /\ backup = Set!NoStore  BY DEF Set!Init
  <1>6. CASE Backend = "file" /\ stored = mem /\ made = DOMAIN env
    <2>1. mem \in Set!Config  BY <1>4 DEF Good
    <2>2. stored # Set!NoStore  BY <1>6, <2>1, ConfigIsStored
    <2>3. Good(mem, made \cup DOMAIN env)  BY <1>4, <1>6, GoodGrows
    <2>4. Set!StoredIsValid
      BY <1>4, <1>6, <2>2, <2>3 DEF Good, Set!StoredIsValid, Set!Base
    <2> QED  BY <1>1, <1>3, <1>4, <1>5, <1>6, <2>2, <2>3, <2>4
             DEF SettingsInv, Set!SettingsSound, Set!EnvWins, Set!RestartInvisible, Set!BackupHeld
  <1>7. CASE stored = Set!NoStore /\ made = {}
    <2>1. Set!Base(stored) = Set!Defaults  BY <1>7 DEF Set!Base
    <2>2. Good(mem, made \cup DOMAIN env)  BY <1>4, <1>7, GoodGrows
    <2>3. Set!StoredIsValid  BY <1>2, <1>7, <2>1, <2>2 DEF Good, Set!StoredIsValid
    <2> QED  BY <1>1, <1>3, <1>5, <1>7, <2>1, <2>2, <2>3
             DEF SettingsInv, Set!SettingsSound, Set!EnvWins, Set!RestartInvisible, Set!BackupHeld
  <1> QED  BY <1>6, <1>7 DEF Set!Init

\* A partial save into the row.
LEMMA SaveRowKeeps ==
  ASSUME Set!SettingsAssumption, SettingsInv, NEW c \in Sent, Set!SaveRow(c)
  PROVE  SettingsInv'
  <1> DEFINE merged == Set!mergeConfig(mem, c)
  <1>1. /\ Backend = "database" /\ Set!Valid(merged) /\ stored' = merged
        /\ mem' = Set!Overlay(merged, env)
        /\ env' = env /\ mgr' = mgr /\ next' = next /\ made' = made
    BY DEF Set!SaveRow
  <1>2. merged \in Set!Config
    BY MergeTyped DEF SettingsInv, Good, Set!SettingsAssumption
  <1> HIDE DEF merged
  <1>3. Good(merged, made)  BY <1>1, <1>2, ValidIsGood
  <1>4. env \in Envs /\ mgr # "renamed"  BY <1>1 DEF SettingsInv
  <1>5. Good(mem', made \cup DOMAIN env) /\ \A f \in DOMAIN env : mem'[f] = env[f]
    BY <1>1, <1>3, <1>4, OverlayGood
  <1>6. merged # Set!NoStore  BY <1>2, ConfigIsStored
  <1>7. Good(stored', made') /\ stored' # Set!NoStore  BY <1>1, <1>3, <1>6
  <1>8. Set!Base(stored') = merged  BY <1>1, <1>6 DEF Set!Base
  <1>9. Set!EnvWins'  BY <1>1, <1>5 DEF Set!EnvWins
  <1>10. env' \in Envs /\ Good(mem', made' \cup DOMAIN env')  BY <1>1, <1>4, <1>5
  <1>11. Set!StoredIsValid'  BY <1>7, <1>10, SettingsFacts
  <1>12. Set!RestartInvisible'  BY <1>1, <1>8 DEF Set!RestartInvisible
  <1>13. Set!BackupHeld'  BY <1>1 DEF Set!BackupHeld
  <1> QED  BY <1>1, <1>4, <1>7, <1>9, <1>10, <1>11, <1>12, <1>13
           DEF SettingsInv, Set!SettingsSound, Good

\* The file goes to its backup.
LEMMA SaveFileKeeps ==
  ASSUME Set!SettingsAssumption, SettingsInv, NEW c \in Sent, Set!SaveFile(c)
  PROVE  SettingsInv'
  <1>1. /\ Backend = "file" /\ Set!Valid(c) /\ stored' = Set!NoStore
        /\ backup' = IF stored = Set!NoStore THEN backup ELSE stored
        /\ next' = c /\ mem' = mem /\ env' = env /\ last' = last /\ made' = made
    BY DEF Set!SaveFile
  <1>2. Good(next', {})
    <2>1. c \in Set!Config  BY DEF Set!SettingsAssumption
    <2>2. Good(c, {})  BY <1>1, <2>1, ValidIsGood
    <2> QED  BY <1>1, <2>2
  <1>3. Set!EnvWins'  BY <1>1 DEF Set!EnvWins, SettingsInv, Set!SettingsSound
  <1>4. env' \in Envs /\ Good(mem', made' \cup DOMAIN env')  BY <1>1 DEF SettingsInv
  <1>5. Set!StoredIsValid'  BY <1>1, <1>4, SettingsFacts
  <1>6. Set!RestartInvisible'  BY <1>1 DEF Set!RestartInvisible
  <1>7. Set!BackupHeld'
    BY <1>1 DEF Set!BackupHeld, SettingsInv, Set!SettingsSound
  <1> QED  BY <1>1, <1>2, <1>3, <1>4, <1>5, <1>6, <1>7 DEF SettingsInv, Set!SettingsSound, Good

\* The new file is written: it holds no override.
LEMMA WriteFileKeeps ==
  ASSUME Set!SettingsAssumption, SettingsInv, Set!WriteFile
  PROVE  SettingsInv'
  <1>1. /\ mgr = "renamed" /\ mgr' = "idle" /\ stored' = next /\ last' = next /\ made' = {}
        /\ mem' = Set!Overlay(next, env) /\ env' = env
    BY DEF Set!WriteFile
  <1>2. Backend = "file" /\ Good(next, {}) /\ env \in Envs  BY <1>1 DEF SettingsInv
  <1>3. Good(mem', {} \cup DOMAIN env) /\ \A f \in DOMAIN env : mem'[f] = env[f]
    BY <1>1, <1>2, OverlayGood
  <1>4. next \in Set!Config  BY <1>2 DEF Good
  <1>5. stored' # Set!NoStore  BY <1>1, <1>4, ConfigIsStored
  <1>6. Set!EnvWins'  BY <1>1, <1>3 DEF Set!EnvWins
  <1>7. env' \in Envs /\ Good(mem', made' \cup DOMAIN env')  BY <1>1, <1>2, <1>3
  <1>8. Good(stored', made')  BY <1>1, <1>2
  <1>9. Set!StoredIsValid'  BY <1>7, <1>8, SettingsFacts
  <1>10. Set!RestartInvisible' /\ Set!BackupHeld'
    BY <1>2, <1>5 DEF Set!RestartInvisible, Set!BackupHeld
  <1> QED  BY <1>1, <1>2, <1>6, <1>7, <1>8, <1>9, <1>10 DEF SettingsInv, Set!SettingsSound, Good

\* It is not: the path stays empty.
LEMMA WriteFailsKeeps ==
  ASSUME SettingsInv, Set!WriteFileFails
  PROVE  SettingsInv'
  <1>1. mgr' = "idle" /\ UNCHANGED <<stored, backup, mem, env, last, made>>  BY DEF Set!WriteFileFails
  <1>2. Set!SettingsSound'
    BY <1>1 DEF SettingsInv, Set!SettingsSound, Set!EnvWins, Set!StoredIsValid, Set!RestartInvisible,
                Set!BackupHeld
  <1> QED  BY <1>1, <1>2 DEF SettingsInv, Good

\* A crash or a restart, also between the two halves of a save, whether a file that
\* is missing can be written or not.
LEMMA RestartKeeps ==
  ASSUME Set!SettingsAssumption, SettingsInv, NEW e \in Envs, Set!Restart(e)
  PROVE  SettingsInv'
  <1>1. /\ env' = e /\ mem' = Set!Overlay(Set!Base(stored), e) /\ mgr' = "idle" /\ backup' = backup
        /\ \/ /\ Backend = "file" /\ stored = Set!NoStore
              /\ stored' = mem' /\ last' = mem' /\ made' = DOMAIN e
           \/ UNCHANGED <<stored, last, made>>
    BY DEF Set!Restart, Set!Start
  <1>2. Good(Set!Base(stored), made)  BY BaseGood DEF SettingsInv
  <1>3. Good(mem', made \cup DOMAIN e) /\ \A f \in DOMAIN e : mem'[f] = e[f]  BY <1>1, <1>2, OverlayGood
  <1>4. Set!EnvWins'  BY <1>1, <1>3 DEF Set!EnvWins
  <1>5. CASE /\ Backend = "file" /\ stored = Set!NoStore
             /\ stored' = mem' /\ last' = mem' /\ made' = DOMAIN e
    <2>1. Good(Set!Defaults, {})  BY DefaultsGood, ValidIsGood
    <2>2. mem' = Set!Overlay(Set!Defaults, e)  BY <1>1, <1>5 DEF Set!Base
    <2>3. Good(mem', {} \cup DOMAIN e)  BY <2>1, <2>2, OverlayGood
    <2>4. {} \cup DOMAIN e \subseteq DOMAIN e /\ DOMAIN e \subseteq DOMAIN e \cup DOMAIN e  OBVIOUS
    <2>5. Good(mem', DOMAIN e)  BY <2>3, <2>4, GoodGrows
    <2>6. Good(mem', DOMAIN e \cup DOMAIN e)  BY <2>4, <2>5, GoodGrows
    <2>7. env' \in Envs /\ Good(mem', made' \cup DOMAIN env') /\ Good(stored', made')
      BY <1>1, <1>5, <2>5, <2>6
    <2>8. stored' # Set!NoStore
      <3>1. mem' \in Set!Config  BY <2>5 DEF Good
      <3> QED  BY <1>5, <3>1, ConfigIsStored
    <2>9. Set!StoredIsValid'  BY <2>7, SettingsFacts
    <2>10. Set!RestartInvisible' /\ Set!BackupHeld'  BY <1>5, <2>8 DEF Set!RestartInvisible, Set!BackupHeld
    <2> QED  BY <1>1, <1>4, <1>5, <2>7, <2>9, <2>10 DEF SettingsInv, Set!SettingsSound, Good
  <1>6. CASE UNCHANGED <<stored, last, made>>
    <2>1. env' \in Envs /\ Good(mem', made' \cup DOMAIN env') /\ (stored' # Set!NoStore => Good(stored', made'))
      BY <1>1, <1>3, <1>6 DEF SettingsInv
    <2>2. Set!StoredIsValid'  BY <2>1, SettingsFacts
    <2>3. Set!RestartInvisible'  BY <1>1, <1>6 DEF Set!RestartInvisible
    <2>4. Set!BackupHeld'  BY <1>1, <1>6 DEF Set!BackupHeld, SettingsInv, Set!SettingsSound
    <2> QED  BY <1>1, <1>4, <1>6, <2>1, <2>2, <2>3, <2>4 DEF SettingsInv, Set!SettingsSound, Good
  <1> QED  BY <1>1, <1>5, <1>6

\* Of either backend, for any settings sent and any environment the process is
\* restarted in: the overrides always show, what Validate refuses, stored or
\* running, is so because of overrides alone, a restart on the same database changes
\* nothing, and a file that is away is in its backup (ConfigManager.Save,
\* Manager.Save, Load).
THEOREM SettingsHold ==
  ASSUME Set!SettingsAssumption
  PROVE  Set!Spec => []Set!SettingsSound
  <1>1. Set!Init => SettingsInv  BY SettingsInit
  <1>2. SettingsInv /\ [Set!Next]_Set!vars => SettingsInv'
    <2> SUFFICES ASSUME SettingsInv, [Set!Next]_Set!vars PROVE SettingsInv'
      OBVIOUS
    <2>1. CASE \E c \in Sent : Set!Save(c)  BY <2>1, SaveRowKeeps, SaveFileKeeps DEF Set!Save
    <2>2. CASE Set!WriteFile  BY <2>2, WriteFileKeeps
    <2>3. CASE Set!WriteFileFails  BY <2>3, WriteFailsKeeps
    <2>4. CASE \E e \in Envs : Set!Restart(e)  BY <2>4, RestartKeeps
    <2>5. CASE UNCHANGED Set!vars
      <3>1. UNCHANGED <<stored, backup, mem, env, mgr, next, last, made>>  BY <2>5 DEF Set!vars
      <3>2. Set!SettingsSound'
        BY <3>1 DEF SettingsInv, Set!SettingsSound, Set!EnvWins, Set!StoredIsValid,
                    Set!RestartInvisible, Set!BackupHeld
      <3> QED  BY <3>1, <3>2 DEF SettingsInv, Good
    <2> QED  BY <2>1, <2>2, <2>3, <2>4, <2>5 DEF Set!Next
  <1>3. SettingsInv => Set!SettingsSound  BY DEF SettingsInv
  <1> QED  BY <1>1, <1>2, <1>3, PTL DEF Set!Spec

-----------------------------------------------------------------------------
(* Resolution of a model to a credential and an upstream model.            *)

CONSTANTS Procs, Lists, Windows, Day, DefaultCooldown, QuotaCooldown, MaxEdits
VARIABLES row, table, eng, call, hour, edits
Res == INSTANCE Resolution

\* The remainders the code and the property speak of.
LEMMA DayRemainder ==
  ASSUME NEW D \in Nat \ {0}, NEW x \in 0..D - 1
  PROVE  x % D = x /\ (x + D) % D = x /\ (x + D + D) % D = x
  <1>1. x % D = x  BY SMT
  <1>2. (x + D) % D = x  BY SMT
  <1>3. (x + D + D) % D = x  BY SMT
  <1> QED  BY <1>1, <1>2, <1>3

\* The local time, east or west of UTC: Go's remainder of a negative time is
\* brought back into the day.
LEMMA LocalTime ==
  ASSUME Day \in Nat \ {0}, NEW h \in 0..Day - 1, NEW o \in -(Day - 1)..Day - 1
  PROVE  /\ Res!LocalHour(h, o) \in 0..Day - 1
         /\ Res!LocalHour(h, o) = (h + o + Day) % Day
  <1> DEFINE s == h + o
  <1>1. s \in Int /\ s > -Day /\ s < Day + Day  OBVIOUS
  <1>2. CASE s < 0
    <2>1. -s \in 0..Day - 1 /\ s + Day \in 0..Day - 1  BY <1>1, <1>2
    <2>2. (-s) % Day = -s /\ (s + Day) % Day = s + Day  BY <2>1, DayRemainder
    <2>3. Res!Rem(s, Day) = -((-s) % Day)  BY <1>2 DEF Res!Rem
    <2>4. Res!Rem(s, Day) = s  BY <1>1, <2>2, <2>3
    <2>5. Res!LocalHour(h, o) = s + Day  BY <1>2, <2>4 DEF Res!LocalHour
    <2> QED  BY <2>1, <2>2, <2>5
  <1>3. CASE s >= 0 /\ s < Day
    <2>1. s \in 0..Day - 1  BY <1>1, <1>3
    <2>2. s % Day = s /\ (s + Day) % Day = s  BY <2>1, DayRemainder
    <2>3. Res!Rem(s, Day) = s  BY <1>1, <1>3, <2>2 DEF Res!Rem
    <2>4. Res!LocalHour(h, o) = s  BY <1>1, <1>3, <2>3 DEF Res!LocalHour
    <2> QED  BY <2>1, <2>2, <2>4
  <1>4. CASE s >= Day
    <2> DEFINE y == s - Day
    <2>1. y \in 0..Day - 1 /\ s = y + Day /\ s + Day = y + Day + Day  BY <1>1, <1>4
    <2> HIDE DEF y
    <2>2. s % Day = y /\ (s + Day) % Day = y  BY <2>1, DayRemainder
    <2>3. ~(s < 0)  BY <1>1, <1>4
    <2>4. Res!Rem(s, Day) = y  BY <2>2, <2>3 DEF Res!Rem
    <2>5. ~(y < 0)  BY <2>1
    <2>6. Res!LocalHour(h, o) = y  BY <2>4, <2>5 DEF Res!LocalHour
    <2> QED  BY <2>1, <2>2, <2>6
  <1> QED  BY <1>1, <1>2, <1>3, <1>4

\* The half-open window, across midnight too, is the hours counted from its start.
LEMMA WindowHours ==
  ASSUME Day \in Nat \ {0}, NEW l \in 0..Day - 1, NEW from \in 0..Day - 1, NEW to \in 0..Day - 1
  PROVE  Res!isWithinWindow(l, from, to)
         <=> \E k \in 0..((to - from + Day) % Day) - 1 : (from + k) % Day = l
  <1> DEFINE len == (to - from + Day) % Day
  <1>1. CASE from <= to
    <2> DEFINE n == to - from
    <2>1. n \in 0..Day - 1  BY <1>1
    <2>2. len = n  BY <2>1, DayRemainder
    <2>3. \A k \in 0..n - 1 : from + k \in 0..Day - 1  BY <1>1
    <2>4. \A k \in 0..n - 1 : (from + k) % Day = from + k  BY <2>3, DayRemainder
    <2>5. l >= from /\ l < to <=> \E k \in 0..n - 1 : from + k = l
      <3>1. ASSUME l >= from, l < to PROVE \E k \in 0..n - 1 : from + k = l
        <4>1. l - from \in 0..n - 1 /\ from + (l - from) = l  BY <3>1
        <4> QED  BY <4>1
      <3>2. ASSUME NEW k \in 0..n - 1, from + k = l PROVE l >= from /\ l < to
        BY <3>2
      <3> QED  BY <3>1, <3>2
    <2> HIDE DEF n, len
    <2>6. (\E k \in 0..n - 1 : (from + k) % Day = l) <=> (\E k \in 0..n - 1 : from + k = l)
      BY <2>4
    <2>7. Res!isWithinWindow(l, from, to) <=> l >= from /\ l < to  BY <1>1 DEF Res!isWithinWindow
    <2>8. Res!isWithinWindow(l, from, to) <=> \E k \in 0..len - 1 : (from + k) % Day = l
      BY <2>2, <2>5, <2>6, <2>7
    <2> QED  BY <2>8 DEF len
  <1>2. CASE to < from
    <2> DEFINE n == to - from + Day
    <2>1. n \in 0..Day - 1  BY <1>2
    <2>2. len = n  BY <2>1, DayRemainder
    <2>3. \A k \in 0..n - 1 : (from + k) % Day = IF from + k < Day THEN from + k ELSE from + k - Day
      <3> SUFFICES ASSUME NEW k \in 0..n - 1
                   PROVE  (from + k) % Day = IF from + k < Day THEN from + k ELSE from + k - Day
        OBVIOUS
      <3>1. CASE from + k < Day
        <4>1. from + k \in 0..Day - 1  BY <3>1
        <4> QED  BY <3>1, <4>1, DayRemainder
      <3>2. CASE ~(from + k < Day)
        <4> DEFINE y == from + k - Day
        <4>1. y \in 0..Day - 1 /\ from + k = y + Day  BY <1>2, <3>2
        <4> HIDE DEF y
        <4>2. (from + k) % Day = y  BY <4>1, DayRemainder
        <4> QED  BY <3>2, <4>2 DEF y
      <3> QED  BY <3>1, <3>2
    <2>4. ASSUME l >= from \/ l < to
          PROVE  \E k \in 0..n - 1 : (IF from + k < Day THEN from + k ELSE from + k - Day) = l
      <3>1. CASE l >= from
        <4>1. l - from \in 0..n - 1 /\ from + (l - from) = l /\ l < Day  BY <1>2, <3>1
        <4> QED  BY <4>1
      <3>2. CASE l < to
        <4> DEFINE k == l - from + Day
        <4>1. k \in 0..n - 1 /\ ~(from + k < Day) /\ from + k - Day = l  BY <1>2, <3>2
        <4> HIDE DEF k
        <4> QED  BY <4>1
      <3> QED  BY <2>4, <3>1, <3>2
    <2>5. ASSUME NEW k \in 0..n - 1, (IF from + k < Day THEN from + k ELSE from + k - Day) = l
          PROVE  l >= from \/ l < to
      BY <1>2, <2>5
    <2> HIDE DEF n, len
    <2>6. (\E k \in 0..n - 1 : (from + k) % Day = l)
          <=> \E k \in 0..n - 1 : (IF from + k < Day THEN from + k ELSE from + k - Day) = l
      BY <2>3
    <2>7. Res!isWithinWindow(l, from, to) <=> l >= from \/ l < to  BY <1>2 DEF Res!isWithinWindow
    <2>8. Res!isWithinWindow(l, from, to) <=> \E k \in 0..len - 1 : (from + k) % Day = l
      BY <2>2, <2>4, <2>5, <2>6, <2>7
    <2> QED  BY <2>8 DEF len
  <1> QED  BY <1>1, <1>2

\* The upstream model the code chooses at an hour.
Peaked(w, h) == w.on /\ Res!isWithinWindow(Res!LocalHour(h, w.offset), w.from, w.to)

CallStages == {"idle", "single", "select", "lookup", "resolved", "delete", "exclude"}

\* A request carries a window of its model, and the answer of the hour it looked.
CallInv(c) ==
    /\ c.pc \in CallStages
    /\ c.pc \in {"single", "select", "lookup", "resolved"} => c.peak \in Windows
    /\ c.pc = "resolved" => c.at \in 0..Day - 1 /\ c.peaked = Peaked(c.peak, c.at)

\* The balancer lists credentials, and binds the conversation to one it lists.
Balancer(e) ==
    /\ DOMAIN e = {"list", "bound", "cooling"}
    /\ e.list \subseteq Creds /\ e.bound \in e.list \cup {Res!None}

ResolutionInv ==
    /\ row.list \in Lists /\ row.peak \in Windows
    /\ Balancer(eng)
    /\ hour \in 0..Day - 1
    /\ DOMAIN call = Procs /\ \A p \in Procs : CallInv(call[p])

\* The window of a request is met exactly in its hours.
LEMMA PeakedHours ==
  ASSUME Res!ResolutionAssumption, NEW w \in Windows, NEW h \in 0..Day - 1
  PROVE  Peaked(w, h)
         <=> w.on /\ \E k \in 0..((w.to - w.from + Day) % Day) - 1 : (w.from + k) % Day = (h + w.offset + Day) % Day
  <1>1. /\ Day \in Nat \ {0} /\ w.from \in 0..Day - 1 /\ w.to \in 0..Day - 1
        /\ w.offset \in -(Day - 1)..Day - 1
    BY DEF Res!ResolutionAssumption
  <1> DEFINE l == Res!LocalHour(h, w.offset)
  <1>2. l \in 0..Day - 1 /\ l = (h + w.offset + Day) % Day  BY <1>1, LocalTime
  <1>3. Peaked(w, h) <=> w.on /\ Res!isWithinWindow(l, w.from, w.to)  BY DEF Peaked
  <1> HIDE DEF l
  <1>4. Res!isWithinWindow(l, w.from, w.to)
        <=> \E k \in 0..((w.to - w.from + Day) % Day) - 1 : (w.from + k) % Day = l
    BY <1>1, <1>2, WindowHours
  <1> QED  BY <1>2, <1>3, <1>4

\* The invariant is what the property says.
LEMMA ResolutionImplies ==
  ASSUME Res!ResolutionAssumption, ResolutionInv
  PROVE  Res!ResolutionSound
  <1>1. Res!TypeOK
    BY DEF ResolutionInv, Balancer, CallInv, CallStages, Res!TypeOK
  <1>2. Res!PeakMatchesWindow
    <2> SUFFICES ASSUME NEW p \in Procs, call[p].pc = "resolved"
                 PROVE  LET w == call[p].peak
                            length == (w.to - w.from + Day) % Day
                        IN  call[p].peaked <=>
                              w.on /\ \E k \in 0..length - 1 :
                                        (w.from + k) % Day = (call[p].at + w.offset + Day) % Day
      BY DEF Res!PeakMatchesWindow
    <2> DEFINE c == call[p]
    <2>1. c.peak \in Windows /\ c.at \in 0..Day - 1 /\ c.peaked = Peaked(c.peak, c.at)
      BY DEF ResolutionInv, CallInv
    <2>2. Peaked(c.peak, c.at)
          <=> c.peak.on /\ \E k \in 0..((c.peak.to - c.peak.from + Day) % Day) - 1 :
                             (c.peak.from + k) % Day = (c.at + c.peak.offset + Day) % Day
      BY <2>1, PeakedHours
    <2> QED  BY <2>1, <2>2, Zenon
  <1> QED  BY <1>1, <1>2 DEF Res!ResolutionSound

\* A step of one request.
LEMMA CallSet ==
  ASSUME ResolutionInv, NEW p \in Procs, NEW c, CallInv(c), Res!Set(p, c)
  PROVE  DOMAIN call' = Procs /\ \A q \in Procs : CallInv(call'[q])
  BY DEF ResolutionInv, Res!Set

\* A request that is done carries nothing.
LEMMA IdleInv == CallInv(Res!Idle)
  BY DEF CallInv, CallStages, Res!Idle

\* What the balancer is told keeps a conversation bound to a credential of the list.
LEMMA BalancerKeeps ==
  ASSUME NEW e, Balancer(e), NEW c, NEW d
  PROVE  /\ Balancer(Res!Deleted(e, c))
         /\ \A f \in Res!Excluded(e, c, d) : Balancer(f)
         /\ \A l \in SUBSET Creds : Balancer(Res!Changed(e, l))
  <1>1. Balancer(Res!Deleted(e, c))  BY DEF Balancer, Res!Deleted
  <1>2. ASSUME NEW f \in Res!Excluded(e, c, d) PROVE Balancer(f)
    <2> DEFINE cooled == [e EXCEPT !.cooling[c] = d]
    <2>1. Balancer(cooled)  BY DEF Balancer
    <2>2. f = e \/ f = cooled \/ \E b \in Res!Healthy(cooled) : f = [cooled EXCEPT !.bound = b]
      BY <1>2 DEF Res!Excluded
    <2>3. Res!Healthy(cooled) \subseteq cooled.list  BY DEF Res!Healthy
    <2> HIDE DEF cooled
    <2>4. ASSUME NEW b \in Res!Healthy(cooled), f = [cooled EXCEPT !.bound = b] PROVE Balancer(f)
      BY <2>1, <2>3, <2>4 DEF Balancer
    <2> QED  BY <2>1, <2>2, <2>4
  <1>3. ASSUME NEW l \in SUBSET Creds PROVE Balancer(Res!Changed(e, l))
    <2>1. CASE l = {}  BY <2>1 DEF Balancer, Res!Changed, Res!NoState
    <2>2. CASE l # {}  BY <2>2 DEF Balancer, Res!Changed
    <2> QED  BY <2>1, <2>2
  <1> QED  BY <1>1, <1>2, <1>3

\* A credential that is not found.
LEMMA MissingKeeps ==
  ASSUME ResolutionInv, NEW p \in Procs, Res!Missing(p)
  PROVE  DOMAIN call' = Procs /\ \A q \in Procs : CallInv(call'[q])
  <1> DEFINE gone == [pc |-> "delete", cred |-> call[p].cred]
  <1>1. Res!Set(p, Res!Idle) \/ Res!Set(p, gone)  BY DEF Res!Missing
  <1>2. CallInv(gone)  BY DEF CallInv, CallStages
  <1> HIDE DEF gone
  <1> QED  BY <1>1, <1>2, IdleInv, CallSet

\* The steps of a request.
LEMMA ResolveKeeps ==
  ASSUME Res!ResolutionAssumption, ResolutionInv, NEW p \in Procs, Res!Resolve(p)
  PROVE  ResolutionInv'
  <1> USE DEF CallStages
  <1>1. CASE Res!ReadModel(p)
    <2> DEFINE one == [pc |-> "single", cred |-> CHOOSE c \in row.list : TRUE, peak |-> row.peak]
    <2> DEFINE many == [pc |-> "select", peak |-> row.peak]
    <2>1. UNCHANGED <<row, eng, hour>> /\ (Res!Set(p, one) \/ Res!Set(p, many))
      BY <1>1 DEF Res!ReadModel
    <2>2. CallInv(one) /\ CallInv(many)  BY DEF CallInv, ResolutionInv
    <2> HIDE DEF one, many
    <2>3. DOMAIN call' = Procs /\ \A q \in Procs : CallInv(call'[q])  BY <2>1, <2>2, CallSet
    <2> QED  BY <2>1, <2>3 DEF ResolutionInv
  <1>2. CASE Res!Select(p)
    <2>1. UNCHANGED <<row, hour>> /\ call[p].pc = "select"  BY <1>2 DEF Res!Select
    <2> DEFINE Pick(c) == [pc |-> "lookup", cred |-> c, peak |-> call[p].peak]
    <2>2. CASE Res!Set(p, Res!Idle) /\ UNCHANGED eng
      <3>1. DOMAIN call' = Procs /\ \A q \in Procs : CallInv(call'[q])  BY <2>2, IdleInv, CallSet
      <3> QED  BY <2>1, <2>2, <3>1 DEF ResolutionInv
    <2>3. ASSUME NEW c \in eng.list, Res!Set(p, Pick(c)),
                 eng' = eng \/ eng' = [eng EXCEPT !.bound = c] \/ eng' = [eng EXCEPT !.bound = Res!None]
          PROVE  ResolutionInv'
      <3>1. CallInv(Pick(c))
        BY <2>1 DEF CallInv, ResolutionInv
      <3>2. DOMAIN call' = Procs /\ \A q \in Procs : CallInv(call'[q])  BY <2>3, <3>1, CallSet
      <3>3. Balancer(eng')
        BY <2>3 DEF ResolutionInv, Balancer
      <3> QED  BY <2>1, <3>2, <3>3 DEF ResolutionInv
    <2>4. \/ Res!Set(p, Res!Idle) /\ UNCHANGED eng
          \/ \E c \in eng.list :
               /\ Res!Set(p, Pick(c))
               /\ eng' = eng \/ eng' = [eng EXCEPT !.bound = c] \/ eng' = [eng EXCEPT !.bound = Res!None]
      BY <1>2, Zenon DEF Res!Select
    <2> HIDE DEF Pick
    <2> QED  BY <2>2, <2>3, <2>4
  <1>3. CASE Res!Lookup(p)
    <2> DEFINE w == call[p].peak
    <2> DEFINE found == [pc |-> "resolved", cred |-> call[p].cred, peak |-> w,
                         peaked |-> Res!ResolvePeakHourModel(w), at |-> hour]
    <2>1. /\ UNCHANGED <<row, eng, hour>> /\ call[p].pc \in {"single", "lookup"}
          /\ Res!Set(p, found) \/ Res!Missing(p)
      BY <1>3 DEF Res!Lookup
    <2>2. w \in Windows /\ hour \in 0..Day - 1  BY <2>1 DEF ResolutionInv, CallInv
    <2>3. CallInv(found)
      <3>1. Res!ResolvePeakHourModel(w) = Peaked(w, hour)  BY DEF Res!ResolvePeakHourModel, Peaked
      <3>2. found.pc = "resolved" /\ found.peak = w /\ found.at = hour /\ found.peaked = Peaked(w, hour)
        BY <3>1
      <3> HIDE DEF found, w
      <3> QED  BY <2>2, <3>2 DEF CallInv
    <2> HIDE DEF found
    <2>5. DOMAIN call' = Procs /\ \A q \in Procs : CallInv(call'[q])
      BY <2>1, <2>3, CallSet, MissingKeeps
    <2> QED  BY <2>1, <2>5 DEF ResolutionInv
  <1>4. CASE Res!HealDelete(p)
    <2> DEFINE c == call[p].cred
    <2>1. UNCHANGED <<row, hour>> /\ eng' = Res!Deleted(eng, c) /\ Res!Set(p, [pc |-> "exclude", cred |-> c])
      BY <1>4 DEF Res!HealDelete
    <2>2. CallInv([pc |-> "exclude", cred |-> c])  BY DEF CallInv
    <2> HIDE DEF c
    <2>3. DOMAIN call' = Procs /\ \A q \in Procs : CallInv(call'[q])  BY <2>1, <2>2, CallSet
    <2>4. Balancer(eng')  BY <2>1, BalancerKeeps DEF ResolutionInv
    <2> QED  BY <2>1, <2>3, <2>4 DEF ResolutionInv
  <1>5. CASE Res!HealExclude(p)
    <2>1. /\ UNCHANGED <<row, hour>> /\ Res!Set(p, Res!Idle)
          /\ eng' \in Res!Excluded(eng, call[p].cred, DefaultCooldown)
      BY <1>5 DEF Res!HealExclude
    <2>2. DOMAIN call' = Procs /\ \A q \in Procs : CallInv(call'[q])  BY <2>1, IdleInv, CallSet
    <2>3. Balancer(eng')  BY <2>1, BalancerKeeps DEF ResolutionInv
    <2> QED  BY <2>1, <2>2, <2>3 DEF ResolutionInv
  <1>6. CASE Res!Done(p)
    <2>1. UNCHANGED <<row, eng, hour>> /\ Res!Set(p, Res!Idle)  BY <1>6 DEF Res!Done
    <2>2. DOMAIN call' = Procs /\ \A q \in Procs : CallInv(call'[q])  BY <2>1, IdleInv, CallSet
    <2> QED  BY <2>1, <2>2 DEF ResolutionInv
  <1> QED  BY <1>1, <1>2, <1>3, <1>4, <1>5, <1>6 DEF Res!Resolve

\* Administrators, upstreams, failed reads and the clock.
LEMMA SurroundingsKeep ==
  ASSUME Res!ResolutionAssumption, ResolutionInv,
         \/ \E p \in Procs : Res!LookupFails(p)
         \/ \E l \in Lists, w \in Windows : Res!WriteModel(l, w)
         \/ \E c \in Creds : Res!Vanish(c) \/ Res!Refused(c)
         \/ Res!DrainFails \/ Res!Cool \/ Res!Tick
         \/ UNCHANGED Res!vars
  PROVE  ResolutionInv'
  <1>0. Balancer(eng)  BY DEF ResolutionInv
  <1>1. ASSUME NEW l \in Lists, NEW w \in Windows, Res!WriteModel(l, w) PROVE ResolutionInv'
    <2>1. /\ row' = [list |-> l, peak |-> w] /\ UNCHANGED <<call, hour>> /\ eng' = Res!Changed(eng, l)
      BY <1>1 DEF Res!WriteModel
    <2>2. l \in SUBSET Creds  BY DEF Res!ResolutionAssumption
    <2>3. Balancer(eng')  BY <1>0, <2>1, <2>2, BalancerKeeps
    <2>4. row'.list = l /\ row'.peak = w  BY <2>1
    <2> QED  BY <2>1, <2>3, <2>4 DEF ResolutionInv
  <1>2. ASSUME NEW c \in Creds, Res!Vanish(c) \/ Res!Refused(c) PROVE ResolutionInv'
    <2>1. /\ UNCHANGED <<row, call, hour>>
          /\ eng' = Res!Deleted(eng, c) \/ eng' = eng \/ \E d : eng' \in Res!Excluded(eng, c, d)
      BY <1>2 DEF Res!Vanish, Res!Refused
    <2>2. Balancer(eng')  BY <1>0, <2>1, BalancerKeeps
    <2> QED  BY <2>1, <2>2 DEF ResolutionInv
  <1>3. ASSUME NEW p \in Procs, Res!LookupFails(p) PROVE ResolutionInv'
    <2>1. UNCHANGED <<row, eng, hour>> /\ Res!Missing(p)  BY <1>3 DEF Res!LookupFails
    <2>2. DOMAIN call' = Procs /\ \A q \in Procs : CallInv(call'[q])  BY <2>1, MissingKeeps
    <2> QED  BY <2>1, <2>2 DEF ResolutionInv
  <1>4. CASE Res!DrainFails
    <2>1. UNCHANGED <<row, call, hour>> /\ eng' = Res!Changed(eng, {})  BY <1>4 DEF Res!DrainFails
    <2>2. Balancer(eng')  BY <1>0, <2>1, BalancerKeeps
    <2> QED  BY <2>1, <2>2 DEF ResolutionInv
  <1>5. CASE Res!Cool
    <2>1. UNCHANGED <<row, call, hour>>  BY <1>5 DEF Res!Cool
    <2>2. \E k : eng' = [eng EXCEPT !.cooling = k]  BY <1>5 DEF Res!Cool
    <2>3. Balancer(eng')  BY <1>0, <2>2 DEF Balancer
    <2> QED  BY <2>1, <2>3 DEF ResolutionInv
  <1>6. CASE Res!Tick
    <2>1. UNCHANGED <<row, call, eng>> /\ hour' = (hour + 1) % Day  BY <1>6 DEF Res!Tick
    <2>2. hour' \in 0..Day - 1
      <3>1. Day \in Nat \ {0} /\ hour + 1 \in Int  BY DEF Res!ResolutionAssumption, ResolutionInv
      <3> QED  BY <2>1, <3>1
    <2> QED  BY <2>1, <2>2 DEF ResolutionInv
  <1>7. CASE UNCHANGED Res!vars  BY <1>7 DEF Res!vars, ResolutionInv
  <1> QED  BY <1>1, <1>2, <1>3, <1>4, <1>5, <1>6, <1>7

\* For a day of any length, any windows and any offset of less than a day: a
\* request that is resolved gets the peak-hour model exactly in the hours of its
\* window, counted in local time and across midnight, and the conversation is never
\* bound to a credential outside the balancer's list, whatever administrators write
\* and whatever reads fail between its steps (ResolvePeakHourModel, isWithinWindow).
THEOREM ResolutionHolds ==
  ASSUME Res!ResolutionAssumption
  PROVE  Res!Spec => []Res!ResolutionSound
  <1>1. Res!Init => ResolutionInv
    <2> SUFFICES ASSUME Res!Init PROVE ResolutionInv
      OBVIOUS
    <2>1. row \in [list : Lists, peak : Windows] /\ hour = 0 /\ call = [p \in Procs |-> Res!Idle]
      BY DEF Res!Init
    <2>2. eng = [Res!NoState EXCEPT !.list = row.list]  BY DEF Res!Init
    <2>3. row.list \in SUBSET Creds  BY <2>1 DEF Res!ResolutionAssumption
    <2>4. Balancer(eng)  BY <2>2, <2>3 DEF Balancer, Res!NoState
    <2>5. hour \in 0..Day - 1  BY <2>1 DEF Res!ResolutionAssumption
    <2>6. DOMAIN call = Procs /\ \A p \in Procs : CallInv(call[p])  BY <2>1, IdleInv
    <2> QED  BY <2>1, <2>4, <2>5, <2>6 DEF ResolutionInv
  <1>2. ResolutionInv /\ [Res!Next]_Res!vars => ResolutionInv'
    BY ResolveKeeps, SurroundingsKeep DEF Res!Next
  <1>3. ResolutionInv => Res!ResolutionSound  BY ResolutionImplies
  <1> QED  BY <1>1, <1>2, <1>3, PTL DEF Res!Spec
=============================================================================
