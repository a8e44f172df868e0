----------------------------- MODULE ModelRows -----------------------------
(***************************************************************************)
(* Rows of the model table and the rules a write must pass, shared by the  *)
(* database and the JSON store: validateModelAgainstCredentials,           *)
(* ValidateGroupMembers and the shadow-claim index.                        *)
(*                                                                         *)
(* A chat row has the set of its credentials; a group row has its members, *)
(* the id it shadows and whether it is enabled.  Rules on the text of one  *)
(* field (weights, peak hours, names) are left out.                        *)
(***************************************************************************)
EXTENDS FiniteSets, Functions

CONSTANTS
    Ids,        \* model ids
    Creds,      \* credential ids
    Providers,  \* providers of credentials
    Drafts      \* rows an administrator may submit, as <<id, row>>

None == "none"

Chat(creds) == [kind |-> "chat", creds |-> creds, members |-> {}, shadow |-> None, enabled |-> TRUE]
Image(creds) == [Chat(creds) EXCEPT !.kind = "image"]
Group(members, shadow, enabled) ==
    [kind |-> "group", creds |-> {}, members |-> members, shadow |-> shadow, enabled |-> enabled]

\* A model that is no group needs credentials that exist, of one provider.
ValidModel(row, cred) ==
    /\ row.creds # {} /\ row.creds \subseteq DOMAIN cred
    /\ \A c, d \in row.creds : cred[c] = cred[d]

\* Variant for ValidGroup: other groups' claims are not looked at.
ValidGroupUnclaimed(id, row, rows) ==
    /\ row.members # {} /\ row.shadow # id
    /\ \A m \in row.members : m \in DOMAIN rows /\ rows[m].kind = "chat"

\* Members and the shadowed model are chat rows; an id is claimed once among
\* the enabled groups.
ValidGroup(id, row, rows) ==
    /\ row.members # {} /\ row.shadow # id
    /\ \A m \in row.members : m \in DOMAIN rows /\ rows[m].kind = "chat"
    /\ row.shadow # None =>
        /\ row.shadow \in DOMAIN rows /\ rows[row.shadow].kind = "chat"
        /\ \A o \in DOMAIN rows \ {id} :
            ~(rows[o].kind = "group" /\ rows[o].enabled /\ rows[o].shadow = row.shadow)

ValidRow(id, row, rows, cred) ==
    IF row.kind = "group" THEN ValidGroup(id, row, rows) ELSE ValidModel(row, cred)

Owners(rows, s) ==
    {g \in DOMAIN rows : rows[g].kind = "group" /\ rows[g].enabled /\ rows[g].shadow = s}

\* rebuildClaimsLocked: one of the owners of each shadowed id.
ClaimIndexes(rows) ==
    LET claimed == {s \in Ids : Owners(rows, s) # {}} IN
    {[s \in Ids |-> IF s \in claimed THEN c[s] ELSE None] :
        c \in {d \in [claimed -> UNION {Owners(rows, s) : s \in claimed}] :
                 \A s \in claimed : d[s] \in Owners(rows, s)}}

\* GetModel, the read by clients: the claim first, then the row itself.
GetModel(id, rows, claims) ==
    IF claims[id] \in DOMAIN rows /\ rows[claims[id]].enabled THEN claims[id]
    ELSE IF id \in DOMAIN rows THEN id ELSE None

Put(rows, id, row) == [i \in DOMAIN rows \cup {id} |-> IF i = id THEN row ELSE rows[i]]
Drop(rows, id) == Restrict(rows, DOMAIN rows \ {id})
UsedBy(rows, c) == {i \in DOMAIN rows : c \in rows[i].creds}
MemberOf(rows, id) == {g \in DOMAIN rows : rows[g].kind = "group" /\ id \in rows[g].members}

\* No row refers to a credential that is gone.
Anchored(rows, cred) == \A i \in DOMAIN rows : rows[i].creds \subseteq DOMAIN cred
\* No group has a member that is gone.
Peopled(rows) == \A g \in DOMAIN rows : rows[g].members \subseteq DOMAIN rows
=============================================================================
