----------------------------- MODULE ModelsCache -----------------------------
(***************************************************************************)
(* CachedModelsConfig: the cache in front of the database-backed models    *)
(* manager.  Requests fill it on a miss, administrators write through it,  *)
(* and a reconciler replaces it by full scans.  Each of the three reads or *)
(* writes the database outside the cache's lock and applies the result     *)
(* later.                                                                  *)
(*                                                                         *)
(* A credential stands for all of them; 0 is "absent".  The list of        *)
(* enabled models, which the scan reads by a query of its own, and the     *)
(* index by name are left out.                                             *)
(***************************************************************************)
EXTENDS Integers, FiniteSets

CONSTANTS
    Ids, None,
    Readers,    \* requests
    Admins,     \* administrators
    Drafts,     \* bound: the <<id, row>> pairs administrators write
    CredVersions, \* bound: contents of the credential
    Budget      \* bound: administrative writes and empty answers of the database

\* A draft is a row of an id.
ModelsAssumption == \A d \in Drafts : d[1] \in Ids /\ d[2] # None /\ d[2].group \in BOOLEAN
\* No id is a group at one time and a model at another.
KindKept == \A d, e \in Drafts : d[1] = e[1] => d[2].group = e[2].group

VARIABLES
    db, cdb,            \* the tables: models and the credential
    up,                 \* the database answers
    byID, ccache,       \* modelsByID and credsByID
    snap,               \* modelsSnap
    neg,                \* ids with a negative verdict younger than ModelsNegTTL
    claims,             \* claimsByID: shadowed id -> group
    healthy,
    scan,               \* the reconciler's scan
    fill,               \* request -> the strict read it has made
    admin,              \* administrator -> the write not yet in the cache
    spent

tables == <<db, cdb>>
cached == <<byID, ccache, snap, neg, claims>>
vars == <<tables, up, cached, healthy, scan, fill, admin, spent>>

Idle == [pc |-> "idle"]
NoRows == [i \in Ids |-> None]

Chat(v) == [group |-> FALSE, on |-> TRUE, shadow |-> None, ver |-> v]
GroupOver(id, on) == [group |-> TRUE, on |-> on, shadow |-> id, ver |-> 0]

IsOpenGroup(row) == row # None /\ row.group /\ row.on

\* rebuildClaimsLocked; two groups never claim one id in the tables.
Claimants(rows, i) == {g \in Ids \ {i} : IsOpenGroup(rows[g]) /\ rows[g].shadow = i}
Claims(rows) ==
    [i \in Ids |-> IF Claimants(rows, i) # {} THEN CHOOSE g \in Claimants(rows, i) : TRUE ELSE None]

\* The rows an id may have.
RowsOf(id) == {None} \cup {d[2] : d \in {e \in Drafts : e[1] = id}}

\* Tables from an earlier process, and the cache NewCachedModelsConfig primes.
Init ==
    /\ db \in {r \in [Ids -> UNION {RowsOf(i) : i \in Ids}] : \A i \in Ids : r[i] \in RowsOf(i)}
    /\ cdb \in CredVersions \cup {0} /\ up = TRUE
    /\ byID = db /\ ccache = cdb /\ snap = db
    /\ neg = {} /\ claims = Claims(db) /\ healthy = TRUE
    /\ scan = Idle
    /\ fill = [r \in Readers |-> Idle]
    /\ admin = [a \in Admins |-> Idle]
    /\ spent = 0

-----------------------------------------------------------------------------
(* The reconciler.                                                         *)

\* reconcileOnce: the strict reads, the models first ...
ScanModels ==
    /\ up /\ scan = Idle
    /\ scan' = [pc |-> "models", rows |-> db]
    /\ UNCHANGED <<tables, up, cached, healthy, fill, admin, spent>>

\* ... or the database answers without an error and without rows.
ScanEmpty ==
    /\ up /\ scan = Idle /\ spent < Budget
    /\ scan' = [pc |-> "models", rows |-> NoRows]
    /\ spent' = spent + 1
    /\ UNCHANGED <<tables, up, cached, healthy, fill, admin>>

ScanCredentials ==
    /\ up /\ scan.pc = "models"
    /\ scan' = [pc |-> "check", rows |-> scan.rows, cred |-> cdb]
    /\ UNCHANGED <<tables, up, cached, healthy, fill, admin, spent>>

\* A read error: nothing is swapped.
ScanFails ==
    /\ ~up /\ scan.pc \in {"idle", "models"}
    /\ scan' = Idle /\ healthy' = FALSE
    /\ UNCHANGED <<tables, up, cached, fill, admin, spent>>

\* Variant for Suspicious: every scan is believed.
SuspiciousNever(s) == FALSE

Suspicious(s) == (s.rows = NoRows /\ snap # NoRows) \/ (s.cred = 0 /\ ccache # 0)

\* The check, under the read lock: an empty scan is not believed if the cache is
\* not.  had remembers, as history, whether the list was not empty.
ScanCheck ==
    /\ scan.pc = "check"
    /\ IF Suspicious(scan)
       THEN scan' = Idle /\ healthy' = FALSE
       ELSE scan' = [pc |-> "swap", rows |-> scan.rows, cred |-> scan.cred, had |-> snap # NoRows]
            /\ UNCHANGED healthy
    /\ UNCHANGED <<tables, up, cached, fill, admin, spent>>

\* Variant for ScanApply: the negative verdicts survive the swap.
ScanApplyKeepsNegatives ==
    /\ scan.pc = "swap" /\ scan' = Idle
    /\ byID' = scan.rows /\ snap' = scan.rows /\ ccache' = scan.cred
    /\ claims' = Claims(scan.rows) /\ healthy' = TRUE
    /\ UNCHANGED <<tables, up, neg, fill, admin, spent>>

\* The swap: applySnapshot, whatever was cached since the check.
ScanApply ==
    /\ scan.pc = "swap" /\ scan' = Idle
    /\ byID' = scan.rows /\ snap' = scan.rows /\ ccache' = scan.cred
    /\ neg' = {} /\ claims' = Claims(scan.rows) /\ healthy' = TRUE
    /\ UNCHANGED <<tables, up, fill, admin, spent>>

-----------------------------------------------------------------------------
(* Requests.                                                               *)

\* GetModel's redirect, and its answer from the cache alone; a fresh negative
\* verdict hides a row.
Claimed(id) == claims[id] # None /\ IsOpenGroup(byID[claims[id]])
Lookup(id) == IF id \in neg THEN None ELSE byID[id]
GetModel(id) == IF Claimed(id) THEN byID[claims[id]] ELSE Lookup(id)

\* A miss: GetModel, or with native GetModelNative and fillModelByDirectID,
\* reads the row ...
FillRead(r, id, native) ==
    /\ fill[r] = Idle /\ id \notin neg /\ byID[id] = None
    /\ native \/ ~Claimed(id)
    /\ IF up THEN /\ fill' = [fill EXCEPT ![r] = [pc |-> "apply", id |-> id, row |-> db[id], native |-> native]]
                  /\ UNCHANGED healthy
       ELSE healthy' = FALSE /\ UNCHANGED fill
    /\ UNCHANGED <<tables, up, cached, scan, admin, spent>>

\* Variant for FillApply: claims are rebuilt for no row.
FillApplyClaimless(r) ==
    /\ fill[r] # Idle /\ fill' = [fill EXCEPT ![r] = Idle]
    /\ LET f == fill[r] IN
       IF f.row # None THEN byID' = [byID EXCEPT ![f.id] = f.row] /\ snap' = byID' /\ neg' = neg \ {f.id}
       ELSE neg' = (IF ~f.native /\ Claimed(f.id) THEN neg ELSE neg \cup {f.id}) /\ UNCHANGED <<byID, snap>>
    /\ UNCHANGED <<tables, up, ccache, claims, healthy, scan, admin, spent>>

\* ... and applies it: cacheModel, or storeNegativeByID.
FillApply(r) ==
    /\ fill[r] # Idle
    /\ fill' = [fill EXCEPT ![r] = Idle]
    /\ LET f == fill[r] IN
       IF f.row # None
       THEN /\ byID' = [byID EXCEPT ![f.id] = f.row]
            /\ snap' = byID'
            /\ neg' = neg \ {f.id}
            /\ claims' = IF f.row.group THEN Claims(byID') ELSE claims
       ELSE /\ neg' = IF ~f.native /\ Claimed(f.id) THEN neg ELSE neg \cup {f.id}
            /\ UNCHANGED <<byID, snap, claims>>
    /\ UNCHANGED <<tables, up, ccache, healthy, scan, admin, spent>>

\* GetCredential on a miss; the read and the store are a step each.
CredRead(r) ==
    /\ fill[r] = Idle /\ ccache = 0
    /\ IF up THEN /\ cdb # 0 /\ fill' = [fill EXCEPT ![r] = [pc |-> "cred", cred |-> cdb]]
                  /\ UNCHANGED healthy
       ELSE healthy' = FALSE /\ UNCHANGED fill
    /\ UNCHANGED <<tables, up, cached, scan, admin, spent>>

CredStore(r) ==
    /\ fill[r].pc = "cred"
    /\ fill' = [fill EXCEPT ![r] = Idle] /\ ccache' = fill[r].cred
    /\ UNCHANGED <<tables, up, byID, snap, neg, claims, healthy, scan, admin, spent>>

-----------------------------------------------------------------------------
(* Administrators: the write to the database, then the write-through.      *)

Commit(a, w) ==
    /\ up /\ admin[a] = Idle /\ spent < Budget
    /\ admin' = [admin EXCEPT ![a] = w]
    /\ spent' = spent + 1
    /\ UNCHANGED <<up, cached, healthy, scan, fill>>

\* AddModel, UpdateModel and RemoveModel (row = None) of the inner store.
CommitModel(a, id, row) ==
    /\ row # db[id]
    /\ db' = [db EXCEPT ![id] = row] /\ UNCHANGED cdb
    /\ Commit(a, [pc |-> "model", id |-> id, row |-> row])

\* evictClaimEntriesLocked on what a group claimed, and claims now.
Shadows(old, new) ==
    {s \in Ids : \/ old # None /\ old.group /\ old.shadow = s
                 \/ new # None /\ new.group /\ new.shadow = s}

\* The second half: the row, the verdicts, the entries of shadowed ids, the
\* list rebuilt from what is left, and the claims, in one critical section.
WriteThrough(a) ==
    /\ admin[a].pc = "model"
    /\ admin' = [admin EXCEPT ![a] = Idle]
    /\ LET w == admin[a]
           gone == Shadows(byID[w.id], w.row) IN
       /\ byID' = [i \in Ids |-> IF i \in gone THEN None ELSE IF i = w.id THEN w.row ELSE byID[i]]
       /\ neg' = neg \ ({w.id} \cup gone)
       /\ snap' = byID' /\ claims' = Claims(byID')
       /\ healthy' = (healthy \/ w.row # None)
    /\ UNCHANGED <<tables, up, ccache, scan, fill, spent>>

\* AddCredential, UpdateCredential and RemoveCredential (v = 0).
CommitCredential(a, v) ==
    /\ v # cdb /\ cdb' = v /\ UNCHANGED db
    /\ Commit(a, [pc |-> IF cdb # 0 /\ v # 0 THEN "refetch" ELSE "cred", cred |-> v])

\* UpdateCredential reads the row back; when that fails the old entry stays.
Refetch(a) ==
    /\ admin[a].pc = "refetch"
    /\ admin' = [admin EXCEPT ![a] = IF up /\ cdb # 0 THEN [pc |-> "cred", cred |-> cdb] ELSE Idle]
    /\ UNCHANGED <<tables, up, cached, healthy, scan, fill, spent>>

CredThrough(a) ==
    /\ admin[a].pc = "cred"
    /\ admin' = [admin EXCEPT ![a] = Idle] /\ ccache' = admin[a].cred
    /\ UNCHANGED <<tables, up, byID, snap, neg, claims, healthy, scan, fill, spent>>

-----------------------------------------------------------------------------
\* The database goes away or comes back; a verdict grows older than its TTL.
Outage == up' = ~up /\ UNCHANGED <<tables, cached, healthy, scan, fill, admin, spent>>
Expire(id) ==
    /\ id \in neg /\ neg' = neg \ {id}
    /\ UNCHANGED <<tables, up, byID, ccache, snap, claims, healthy, scan, fill, admin, spent>>

Scan == ScanModels \/ ScanCredentials \/ ScanFails \/ ScanCheck \/ ScanApply
FinishFill(r) == (fill[r].pc = "apply" /\ FillApply(r)) \/ CredStore(r)
FinishWrite(a) == WriteThrough(a) \/ Refetch(a) \/ CredThrough(a)

Next ==
    \/ Scan \/ ScanEmpty \/ Outage
    \/ \E r \in Readers : \/ FinishFill(r) \/ CredRead(r)
                          \/ \E id \in Ids, native \in BOOLEAN : FillRead(r, id, native)
    \/ \E a \in Admins : \/ FinishWrite(a)
                         \/ \E d \in Drafts : CommitModel(a, d[1], d[2])
                         \/ \E id \in Ids : CommitModel(a, id, None)
                         \/ \E v \in CredVersions \cup {0} : CommitCredential(a, v)
    \/ \E id \in Ids : Expire(id)

Spec == Init /\ [][Next]_vars

-----------------------------------------------------------------------------
(* Properties.                                                             *)

Quiet == (\A r \in Readers : fill[r] = Idle) /\ \A a \in Admins : admin[a] = Idle

\* "no stale redirect can outlive the write that changed it": the claim index
\* is that of the rows in the cache, so that GetModel never redirects to a
\* group the cache no longer has enabled, nor past one it has.
ClaimsFollowCache == claims = Claims(byID)

\* Even where an id changes its kind and a late fill brings back the model it
\* was: a redirect leads to a group that, in the cache, shadows the id asked for.
LiveRedirect == \A id \in Ids : Claimed(id) => byID[claims[id]].shadow = id

\* The claim index, whatever the ids are.
IndexSound == LiveRedirect /\ (KindKept => ClaimsFollowCache)

\* "serving last-known-good": neither an outage nor a database that answers
\* with empty tables makes a model disappear for GetModel; only the results of
\* fills, writes and scans with rows do, and an empty scan that found the cache
\* empty when it was checked.
OutageServes ==
    [][Quiet /\ (scan.pc = "swap" => scan.rows = NoRows /\ scan.had)
       => \A id \in Ids : GetModel(id) # None => GetModel(id)' # None]_vars

\* Once writing stops and the database stays up, the cache is the tables,
\* whatever order late fills, write-throughs and scans were applied in, as
\* long as neither table ends empty.
Fresh == /\ byID = db /\ snap = db /\ ccache = cdb
         /\ \A id \in Ids : db[id] # None => id \notin neg
NotEmpty == db # NoRows /\ cdb # 0
Converges == <>[](up /\ NotEmpty) => <>[]Fresh

\* The same without the exception.
ConvergesAlways == <>[]up => <>[]Fresh
=============================================================================
