---------------------------- MODULE ConfigStore ----------------------------
(***************************************************************************)
(* The database-backed ModelsManager: writes of models and credentials,    *)
(* the claim index, and the credential engine that follows the table       *)
(* through direct calls and through the event bus.                         *)
(*                                                                         *)
(* A model write is validated against a snapshot taken before the write    *)
(* lock.  The drain goroutine takes events off a bounded channel, re-reads *)
(* the row and tells the engine.  The bus drops events when the channel is *)
(* full.                                                                   *)
(*                                                                         *)
(* A statement may fail whenever it is sent.  Most failures are answered;  *)
(* four are swallowed, and the last three variables remember them: the     *)
(* claim index without the rows it could not read, a credential deleted    *)
(* although the scan for its models failed, and a model the engine forgets *)
(* because its row could not be read.                                      *)
(***************************************************************************)
EXTENDS ModelRows, Sequences

CONSTANTS
    Admins,     \* administrators working at the same time
    Buffer,     \* capacity of the drain goroutine's channel
    Lossy,      \* whether the channel may overflow; if not, writes stop short of it
    Sequential  \* whether an administrator's request is answered before the next comes

\* A row as an administrator can submit it: a group has no credentials of its
\* own and nothing else has members.
Rows ==
    {r \in [kind : {"chat", "image", "group"}, creds : SUBSET Creds, members : SUBSET Ids,
            shadow : Ids \cup {None}, enabled : BOOLEAN] :
        IF r.kind = "group" THEN r.creds = {} ELSE r.members = {}}

\* The sentinel is no id; drafts are rows; the channel has a capacity.
ConfigAssumption == None \notin Ids /\ Drafts \subseteq Ids \X Rows /\ Buffer \in Nat

VARIABLES
    rows,       \* the models table
    cred,       \* the credentials table: id -> provider
    claims,     \* m.claims
    engine,     \* credentiallb: model id -> its credentials, absent if none
    groups,     \* grouplb: group id -> its members, absent if not seeded
    admin,      \* administrator -> a validated write that waits for the lock
    channel,    \* m.subCh
    drain,      \* the row the drain goroutine has read and not yet applied
    degraded,   \* the last rebuild of the claims could not read every group
    unguarded,  \* credentials deleted although the scan for their models failed
    missed      \* models whose row the engine was last told of could not be read

faults == <<degraded, unguarded, missed>>
vars == <<rows, cred, claims, engine, groups, admin, channel, drain, faults>>
tables == <<rows, cred, claims>>
bus == <<channel, drain>>

Idle == [op |-> "none"]
Empty == [i \in {} |-> {}]
NoClaims == [i \in Ids |-> None]

\* An empty database and NewModelsManager.
Init ==
    /\ rows = Empty /\ cred = Empty /\ claims = NoClaims
    /\ engine = Empty /\ groups = Empty
    /\ admin = [a \in Admins |-> Idle]
    /\ channel = <<>> /\ drain = Idle
    /\ degraded = FALSE /\ unguarded = {} /\ missed = {}

\* Variant for Told: an empty list is kept.
ToldEmpty(e, id, creds) == Put(e, id, creds)

\* OnModelChanged: an empty list deletes the engine's state.
Told(e, id, creds) == IF creds = {} THEN Drop(e, id) ELSE Put(e, id, creds)

\* No other administrative request is under way.
Free == Sequential => \A a \in Admins : admin[a] = Idle

\* publishCredentialsChanged; Bus.Publish does not wait.
Publish(id) == channel' = IF Len(channel) < Buffer THEN Append(channel, id) ELSE channel

\* rebuildClaimsLocked, on table t: the rows it cannot read, all of them when
\* the query fails, have no claim.
Rebuild(t) ==
    \/ claims' \in ClaimIndexes(t) /\ degraded' = FALSE
    \/ /\ \E c \in ClaimIndexes(t), S \in SUBSET {s \in Ids : Owners(t, s) # {}} :
            claims' = [s \in Ids |-> IF s \in S THEN c[s] ELSE None]
       /\ degraded' = TRUE

\* validateModelAgainstCredentials passes over the provider of a credential it
\* cannot read.
Accepted(id, row) ==
    \/ ValidRow(id, row, rows, cred)
    \/ row.kind # "group" /\ row.creds # {} /\ row.creds \subseteq DOMAIN cred

\* AddModel and UpdateModel up to the lock: validateBeforeWrite.
Validate(a, op, id, row) ==
    /\ admin[a] = Idle /\ Free
    /\ Accepted(id, row)
    /\ admin' = [admin EXCEPT ![a] = [op |-> op, id |-> id, row |-> row]]
    /\ UNCHANGED <<rows, cred, claims, engine, groups, channel, drain, faults>>

\* Variant for Write: the claim index is left alone.
WriteKeepsClaims(a) ==
    /\ admin[a] # Idle /\ (Lossy \/ Len(channel) < Buffer)
    /\ admin' = [admin EXCEPT ![a] = Idle]
    /\ LET w == admin[a] IN
       IF (w.op = "add") = (w.id \in DOMAIN rows)
       THEN UNCHANGED <<rows, claims, engine, groups, channel, degraded, missed>>
       ELSE /\ rows' = Put(rows, w.id, w.row) /\ engine' = Told(engine, w.id, w.row.creds)
            /\ Publish(w.id) /\ missed' = missed \ {w.id} /\ UNCHANGED <<claims, groups, degraded>>
    /\ UNCHANGED <<cred, drain, unguarded>>

\* The rest under m.mu: an add needs a free id and an update a row; then the
\* row, the engine, the event, the claims and the group engine.
Write(a) ==
    /\ admin[a] # Idle /\ (Lossy \/ Len(channel) < Buffer)
    /\ admin' = [admin EXCEPT ![a] = Idle]
    /\ LET w == admin[a] IN
       IF (w.op = "add") = (w.id \in DOMAIN rows)
       THEN UNCHANGED <<rows, claims, engine, groups, channel, degraded, missed>>
       ELSE /\ rows' = Put(rows, w.id, w.row)
            /\ engine' = Told(engine, w.id, w.row.creds) /\ missed' = missed \ {w.id}
            /\ Publish(w.id)
            /\ Rebuild(rows')
            /\ groups' = IF w.row.kind = "group" THEN Told(groups, w.id, w.row.members) ELSE groups
    /\ UNCHANGED <<cred, drain, unguarded>>

\* The statement fails: nothing is invalidated.
WriteFails(a) ==
    /\ admin[a] # Idle
    /\ admin' = [admin EXCEPT ![a] = Idle]
    /\ UNCHANGED <<rows, cred, claims, engine, groups, channel, drain, faults>>

\* Variant for RemoveModel: the scan for groups is missing.
RemoveModelUnscanned(id) ==
    /\ Free /\ id \in DOMAIN rows
    /\ rows' = Drop(rows, id) /\ engine' = Drop(engine, id) /\ Rebuild(rows')
    /\ groups' = IF rows[id].kind = "group" THEN Drop(groups, id) ELSE groups
    /\ UNCHANGED <<cred, admin, channel, drain, unguarded, missed>>

\* RemoveModel, wholly under the lock.  A member scan that fails refuses the
\* deletion.  It publishes nothing.
RemoveModel(id) ==
    /\ Free /\ id \in DOMAIN rows /\ MemberOf(rows, id) = {}
    /\ rows' = Drop(rows, id)
    /\ engine' = Drop(engine, id)
    /\ Rebuild(rows')
    /\ groups' = IF rows[id].kind = "group" THEN Drop(groups, id) ELSE groups
    /\ UNCHANGED <<cred, admin, channel, drain, unguarded, missed>>

AddCredential(c, p) ==
    /\ Free /\ c \notin DOMAIN cred
    /\ cred' = Put(cred, c, p) /\ unguarded' = unguarded \ {c}
    /\ UNCHANGED <<rows, claims, engine, groups, admin, channel, drain, degraded, missed>>

\* UpdateCredential may change the provider; no model is looked at.
UpdateCredential(c, p) ==
    /\ Free /\ c \in DOMAIN cred
    /\ cred' = [cred EXCEPT ![c] = p]
    /\ UNCHANGED <<rows, claims, engine, groups, admin, channel, drain, faults>>

\* Variant for RemoveCredential: no in-use guard.
RemoveCredentialUsed(c) ==
    /\ Free /\ c \in DOMAIN cred
    /\ cred' = Drop(cred, c)
    /\ UNCHANGED <<rows, claims, engine, groups, admin, channel, drain, faults>>

\* RemoveCredential: refused while a row refers to it, unless the scan for such
\* rows fails, which nobody looks at.  The engine keeps the lists of its models;
\* bindings and cooldowns are CredentialLB's.
RemoveCredential(c) ==
    /\ Free /\ c \in DOMAIN cred
    /\ \/ UsedBy(rows, c) = {} /\ UNCHANGED unguarded
       \/ unguarded' = unguarded \cup {c}
    /\ cred' = Drop(cred, c)
    /\ UNCHANGED <<rows, claims, engine, groups, admin, channel, drain, degraded, missed>>

\* What the drain goroutine found for id: the row's list, or nothing if the row
\* is gone or cannot be read.
Found(id, creds) == drain' = [op |-> "apply", id |-> id, creds |-> creds]

\* Variant for DrainRead: the claims-first read.
DrainReadClaimed ==
    /\ drain = Idle /\ channel # <<>>
    /\ LET id == GetModel(Head(channel), rows, claims) IN
       Found(Head(channel), IF id \in DOMAIN rows THEN rows[id].creds ELSE {})
    /\ channel' = Tail(channel)
    /\ UNCHANGED <<rows, cred, claims, engine, groups, admin, faults>>

\* drainCredentialsChanged: GetModelNative ...
DrainRead ==
    /\ drain = Idle /\ channel # <<>>
    /\ LET id == Head(channel) IN
       \/ /\ Found(id, IF id \in DOMAIN rows THEN rows[id].creds ELSE {})
          /\ missed' = missed \ {id}
       \/ Found(id, {}) /\ missed' = missed \cup {id}
    /\ channel' = Tail(channel)
    /\ UNCHANGED <<rows, cred, claims, engine, groups, admin, degraded, unguarded>>

\* ... and, without a lock in between, OnModelChanged.
DrainApply ==
    /\ drain # Idle
    /\ engine' = Told(engine, drain.id, drain.creds)
    /\ drain' = Idle
    /\ UNCHANGED <<rows, cred, claims, groups, admin, channel, faults>>

Committed == [i \in {j \in DOMAIN rows : rows[j].creds # {}} |-> rows[i].creds]

\* A restart: NewModelsManager seeds the engine from the table, from nothing if
\* it cannot be read, and rebuilds the claims.
Restart ==
    /\ \/ engine' = Committed /\ missed' = {}
       \/ engine' = Empty /\ missed' = DOMAIN rows
    /\ groups' = Empty /\ Rebuild(rows)
    /\ admin' = [a \in Admins |-> Idle] /\ channel' = <<>> /\ drain' = Idle
    /\ UNCHANGED <<rows, cred, unguarded>>

AdminStep(a) ==
    \/ \E op \in {"add", "update"}, d \in Drafts : Validate(a, op, d[1], d[2])
    \/ Write(a) \/ WriteFails(a)

Next ==
    \/ \E a \in Admins : AdminStep(a)
    \/ \E id \in Ids : RemoveModel(id)
    \/ \E c \in Creds : RemoveCredential(c)
    \/ \E c \in Creds, p \in Providers : AddCredential(c, p) \/ UpdateCredential(c, p)
    \/ DrainRead \/ DrainApply \/ Restart

Spec == Init /\ [][Next]_vars

-----------------------------------------------------------------------------
(* Properties.                                                             *)

\* The shape of the state.
TypeOK ==
    /\ DOMAIN rows \subseteq Ids /\ DOMAIN cred \subseteq Creds
    /\ claims \in [Ids -> Ids \cup {None}]
    /\ \A i \in DOMAIN engine : engine[i] \subseteq Creds /\ engine[i] # {}
    /\ Len(channel) <= Buffer

\* A model refers to a credential that is gone only if its deletion went by the
\* in-use guard because the scan for models failed.
NoDanglingCredential == \A i \in DOMAIN rows : rows[i].creds \ DOMAIN cred \subseteq unguarded

\* Every member of a group exists ("refuses while the model ID is a member of
\* any group").
NoOrphanMember == Peopled(rows)

\* An id is shadowed by at most one enabled group (rule G8).
OneOwner == \A s \in Ids : Cardinality(Owners(rows, s)) <= 1

\* A client's read of an id that an enabled group shadows is served by such a
\* group, after every write whose rebuild read the table.  Whatever rows a
\* rebuild or the read itself cannot read, the answer is an owner, the row itself
\* or none, never another model ("the safe direction: no hijack").
ShadowRead ==
    \A s \in Ids :
        /\ ~degraded /\ Owners(rows, s) # {} => GetModel(s, rows, claims) \in Owners(rows, s)
        /\ \A R \in SUBSET DOMAIN rows :
              GetModel(s, Restrict(rows, R), claims) \in Owners(rows, s) \cup {s, None}

Quiet == channel = <<>> /\ drain = Idle

\* Once the events are drained the engine has the committed list of every model
\* whose row it could read when it was last told of it.
EngineFollows ==
    Quiet => \A i \in DOMAIN Committed \ missed : i \in DOMAIN engine /\ engine[i] = Committed[i]

\* The configuration in memory: always the shape and the redirects; the closed
\* tables when requests come one at a time; the engine when no notice is lost.
ConfigSound ==
    /\ TypeOK /\ ShadowRead
    /\ Sequential => NoDanglingCredential /\ NoOrphanMember /\ OneOwner
    /\ ~Lossy => EngineFollows
=============================================================================
