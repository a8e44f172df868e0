----------------------------- MODULE JsonStore -----------------------------
(***************************************************************************)
(* The file-backed ModelsConfig: the JSON twin of the database store.      *)
(* Every change is validated as a whole under the lock and kept in memory; *)
(* Save then writes a temporary file and renames it, outside the lock.     *)
(***************************************************************************)
EXTENDS ModelRows

CONSTANTS
    Admins      \* administrators; each waits for its own answer

VARIABLES
    rows, cred, claims,     \* mc.Models, mc.Credentials, mc.claims
    file,                   \* what models.json holds
    admin,                  \* administrator -> its progress
    answer                  \* administrator -> outcome of its last change

vars == <<rows, cred, claims, file, admin, answer>>

Empty == [i \in {} |-> {}]
Idle == [pc |-> "idle", rows |-> Empty, data |-> Empty]

AllValid(r, c) == \A i \in DOMAIN r : ValidRow(i, r[i], r, c)

\* Load of a file that does not exist creates an empty one.
Init ==
    /\ rows = Empty /\ cred = Empty /\ claims = [i \in Ids |-> None]
    /\ file = [rows |-> Empty, cred |-> Empty]
    /\ admin = [a \in Admins |-> Idle] /\ answer = [a \in Admins |-> "ok"]

Refuse(a) ==
    /\ answer' = [answer EXCEPT ![a] = "refused"]
    /\ UNCHANGED <<cred, file, admin>>

\* The change is made; the caller saves next.
Accept(a) ==
    /\ answer' = [answer EXCEPT ![a] = "ok"]
    /\ admin' = [admin EXCEPT ![a].pc = "save"]
    /\ UNCHANGED file

\* AddModel and UpdateModel: the proposed list is validated before it is kept.
PutModel(a, op, id, row) ==
    /\ admin[a].pc = "idle"
    /\ IF (op = "add") = (id \in DOMAIN rows) \/ ~AllValid(Put(rows, id, row), cred)
       THEN Refuse(a) /\ UNCHANGED <<rows, claims>>
       ELSE /\ rows' = Put(rows, id, row) /\ claims' \in ClaimIndexes(rows')
            /\ Accept(a) /\ UNCHANGED cred

\* RemoveModel: the row is taken out first; when the rest does not validate the
\* error is returned without putting it back.
RemoveModel(a, id) ==
    /\ admin[a].pc = "idle"
    /\ IF MemberOf(rows, id) # {} \/ id \notin DOMAIN rows
       THEN Refuse(a) /\ UNCHANGED <<rows, claims>>
       ELSE /\ rows' = Drop(rows, id)
            /\ IF AllValid(rows', cred)
               THEN claims' \in ClaimIndexes(rows') /\ Accept(a) /\ UNCHANGED cred
               ELSE Refuse(a) /\ UNCHANGED claims

PutCredential(a, op, c, p) ==
    /\ admin[a].pc = "idle"
    /\ IF (op = "add") = (c \in DOMAIN cred) THEN Refuse(a)
       ELSE cred' = Put(cred, c, p) /\ Accept(a)
    /\ UNCHANGED <<rows, claims>>

RemoveCredential(a, c) ==
    /\ admin[a].pc = "idle"
    /\ IF UsedBy(rows, c) # {} \/ c \notin DOMAIN cred THEN Refuse(a)
       ELSE cred' = Drop(cred, c) /\ Accept(a)
    /\ UNCHANGED <<rows, claims>>

\* Save captures the list under the lock ...
SaveCapture(a) ==
    /\ admin[a].pc = "save"
    /\ admin' = [admin EXCEPT ![a].pc = "validate", ![a].rows = rows]
    /\ UNCHANGED <<rows, cred, claims, file, answer>>

\* Variant for SaveValidate: the captured list is not validated.
SaveUnvalidated(a) ==
    /\ admin[a].pc = "validate"
    /\ admin' = [admin EXCEPT ![a].pc = "encode"]
    /\ UNCHANGED <<rows, cred, claims, file, answer>>

\* ... validates it against the credentials of the moment ...
SaveValidate(a) ==
    /\ admin[a].pc = "validate"
    /\ admin' = [admin EXCEPT ![a] = IF AllValid(@.rows, cred) THEN [@ EXCEPT !.pc = "encode"] ELSE Idle]
    /\ UNCHANGED <<rows, cred, claims, file, answer>>

\* ... encodes it with the credentials it finds then ...
SaveEncode(a) ==
    /\ admin[a].pc = "encode"
    /\ admin' = [admin EXCEPT ![a] = [Idle EXCEPT !.pc = "rename",
                                      !.data = [rows |-> admin[a].rows, cred |-> cred]]]
    /\ UNCHANGED <<rows, cred, claims, file, answer>>

\* ... and renames the temporary file, or removes it after an error.
SaveRename(a) ==
    /\ admin[a].pc = "rename"
    /\ file' \in {admin[a].data, file}
    /\ admin' = [admin EXCEPT ![a] = Idle]
    /\ UNCHANGED <<rows, cred, claims, answer>>

\* A restart loads the file.
Load ==
    /\ rows' = file.rows /\ cred' = file.cred /\ claims' \in ClaimIndexes(file.rows)
    /\ admin' = [a \in Admins |-> Idle] /\ answer' = [a \in Admins |-> "ok"]
    /\ UNCHANGED file

Next ==
    \/ \E a \in Admins :
        \/ \E op \in {"add", "update"} :
            \/ \E d \in Drafts : PutModel(a, op, d[1], d[2])
            \/ \E c \in Creds, p \in Providers : PutCredential(a, op, c, p)
        \/ \E id \in Ids : RemoveModel(a, id)
        \/ \E c \in Creds : RemoveCredential(a, c)
        \/ SaveCapture(a) \/ SaveValidate(a) \/ SaveEncode(a) \/ SaveRename(a)
    \/ Load

Spec == Init /\ [][Next]_vars

-----------------------------------------------------------------------------
(* Properties.                                                             *)

\* The file is always one a start can use: every row in it is valid with the
\* credentials in it, whatever was changed, saved or lost while it was written
\* ("Validate before saving", "Save atomically saves the models configuration").
FileValid == AllValid(file.rows, file.cred)

\* A change that is answered with an error changes nothing ("returns WITHOUT
\* mutating mc.Models").
RefusedChangesNothing ==
    [][\A a \in Admins : answer[a] = "ok" /\ answer'[a] = "refused" => UNCHANGED <<rows, cred>>]_vars
=============================================================================
