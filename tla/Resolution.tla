----------------------------- MODULE Resolution -----------------------------
(***************************************************************************)
(* ResolveInternalConfigWithAffinity: how a request gets the provider, the *)
(* key and the model name of one model.  The row, the load balancer and    *)
(* the credential table are asked one after the other, while administra-   *)
(* tors write all three; a credential the balancer chose and the table has *)
(* not is healed with two further calls of the balancer.  The upstream     *)
(* model depends on the hour.                                              *)
(***************************************************************************)
EXTENDS Integers, FiniteSets

CONSTANTS
    Procs,          \* requests of one conversation
    Creds,
    Lists,          \* credential lists an administrator writes, as sets
    Windows,        \* peak hours: on, from, to, and the offset from UTC
    Day,            \* hours of a day
    DefaultCooldown, QuotaCooldown,     \* how long a refused credential is not chosen
    MaxEdits        \* bound: writes of administrators, refusals and failed reads

None == "none"

\* parseTime and parseUTCOffset: a time of the day, an offset of less than a day.
ResolutionAssumption ==
    /\ Day \in Nat \ {0} /\ Lists \subseteq SUBSET Creds
    /\ DefaultCooldown \in Nat \ {0} /\ QuotaCooldown \in Nat \ {0}
    /\ Windows \subseteq [on : BOOLEAN, from : 0..Day - 1, to : 0..Day - 1, offset : -(Day - 1)..Day - 1]

VARIABLES
    row,            \* the model: credential list and peak window
    table,          \* credentials that exist
    eng,            \* the balancer's state of the model: its list, the binding of
                    \* the conversation, how long each credential still cools
    call,           \* request -> its progress
    hour, edits

vars == <<row, table, eng, call, hour, edits>>
Idle == [pc |-> "idle"]
\* The balancer has no state of the model.
NoState == [list |-> {}, bound |-> None, cooling |-> [c \in Creds |-> 0]]

Init ==
    /\ row \in [list : Lists, peak : Windows] /\ table = Creds
    /\ eng = [NoState EXCEPT !.list = row.list]
    /\ call = [p \in Procs |-> Idle] /\ hour = 0 /\ edits = 0

Set(p, c) == call' = [call EXCEPT ![p] = c]

-----------------------------------------------------------------------------
(* Peak hours.                                                             *)

\* Go's % keeps the sign of its left operand.
Rem(a, b) == IF a < 0 THEN -((-a) % b) ELSE a % b

\* Variant for LocalHour: a time before midnight UTC stays negative.
LocalHourSigned(h, offset) == Rem(h + offset, Day)

LocalHour(h, offset) ==
    LET r == Rem(h + offset, Day) IN IF r < 0 THEN r + Day ELSE r

isWithinWindow(h, from, to) == IF from <= to THEN h >= from /\ h < to ELSE h >= from \/ h < to

ResolvePeakHourModel(peak) == peak.on /\ isWithinWindow(LocalHour(hour, peak.offset), peak.from, peak.to)

-----------------------------------------------------------------------------
(* The balancer.                                                           *)

\* isCoolingLocked, pickHealthyLocked: the credentials of the list to choose from.
Healthy(e) == {c \in e.list : e.cooling[c] = 0}

\* soonestCooldownLocked: the ones of the list that cool the shortest.
Soonest(e) == {c \in e.list : \A d \in e.list : e.cooling[c] <= e.cooling[d]}

\* OnCredentialDeleted drops bindings and cooldowns; the list stays.
Deleted(e, c) == [e EXCEPT !.bound = IF @ = c THEN None ELSE @, !.cooling[c] = 0]

\* ExcludeAndReselect: c cools for d, listed or not, and a conversation that is not
\* bound to a healthy credential is bound to one.
Excluded(e, c, d) ==
    LET cooled == [e EXCEPT !.cooling[c] = d]
    IN  IF Cardinality(e.list) < 2 THEN {e}
        ELSE IF Healthy(cooled) = {} \/ e.bound \in Healthy(cooled) THEN {cooled}
        ELSE {[cooled EXCEPT !.bound = b] : b \in Healthy(cooled)}

\* OnModelChanged: an orphan binding goes, orphan cooldowns stay.
Changed(e, l) ==
    IF l = {} THEN NoState
    ELSE [e EXCEPT !.list = l, !.bound = IF @ \in l THEN @ ELSE None]

-----------------------------------------------------------------------------
(* The credential.                                                         *)

\* GetModelNative; one credential needs no balancer, and none cannot be resolved.
ReadModel(p) ==
    /\ call[p].pc = "idle" /\ row.list # {}
    /\ Set(p, IF Cardinality(row.list) = 1
              THEN [pc |-> "single", cred |-> CHOOSE c \in row.list : TRUE, peak |-> row.peak]
              ELSE [pc |-> "select", peak |-> row.peak])
    /\ UNCHANGED <<row, table, eng, hour, edits>>

\* GetOrSelect: the only credential, or the binding while it is usable, or a healthy
\* one, which is bound, or when all cool the one that cools the shortest, unbound.
Select(p) ==
    /\ call[p].pc = "select"
    /\ LET Pick(c) == Set(p, [pc |-> "lookup", cred |-> c, peak |-> call[p].peak])
       IN  \/ eng.list = {} /\ Set(p, Idle) /\ UNCHANGED eng
           \/ \E c \in eng.list :
                /\ Pick(c)
                /\ \/ eng.list = {c} /\ UNCHANGED eng
                   \/ /\ eng.list # {c} /\ c \in Healthy(eng)
                      /\ eng.bound \in Healthy(eng) => c = eng.bound
                      /\ eng' = [eng EXCEPT !.bound = c]
                   \/ /\ eng.list # {c} /\ Healthy(eng) = {} /\ c \in Soonest(eng)
                      /\ eng' = [eng EXCEPT !.bound = None]
    /\ UNCHANGED <<row, table, hour, edits>>

\* GetCredential finds nothing: one credential cannot be healed.
Missing(p) == Set(p, IF call[p].pc = "single" THEN Idle ELSE [pc |-> "delete", cred |-> call[p].cred])

\* GetCredential, and the upstream model of this hour.
Lookup(p) ==
    /\ call[p].pc \in {"single", "lookup"}
    /\ IF call[p].cred \in table
       THEN Set(p, [pc |-> "resolved", cred |-> call[p].cred, peak |-> call[p].peak,
                    peaked |-> ResolvePeakHourModel(call[p].peak), at |-> hour])
       ELSE Missing(p)
    /\ UNCHANGED <<row, table, eng, hour, edits>>

\* Variant for HealDelete: the vanished credential only loses its bindings.
HealDeleteUnbinds(p) ==
    /\ call[p].pc = "delete"
    /\ eng' = [eng EXCEPT !.bound = IF @ = call[p].cred THEN None ELSE @]
    /\ Set(p, Idle)
    /\ UNCHANGED <<row, table, hour, edits>>

HealDelete(p) ==
    /\ call[p].pc = "delete"
    /\ eng' = Deleted(eng, call[p].cred)
    /\ Set(p, [pc |-> "exclude", cred |-> call[p].cred])
    /\ UNCHANGED <<row, table, hour, edits>>

\* The conversation is bound anew; this resolution still fails.
HealExclude(p) ==
    /\ call[p].pc = "exclude"
    /\ eng' \in Excluded(eng, call[p].cred, DefaultCooldown)
    /\ Set(p, Idle)
    /\ UNCHANGED <<row, table, hour, edits>>

\* The request takes its answer elsewhere and the conversation asks again.
Done(p) == call[p].pc = "resolved" /\ Set(p, Idle) /\ UNCHANGED <<row, table, eng, hour, edits>>

-----------------------------------------------------------------------------
(* Administrators, upstreams, failed reads and time.                       *)

Edit == edits < MaxEdits /\ edits' = edits + 1

\* UpdateModel: the row, then OnModelChanged, under the manager's lock.
WriteModel(l, w) ==
    /\ Edit /\ row' = [list |-> l, peak |-> w]
    /\ eng' = Changed(eng, l)
    /\ UNCHANGED <<table, call, hour>>

\* A credential that rows still name disappears, in this process or in another one.
Vanish(c) ==
    /\ Edit /\ table' = table \ {c}
    /\ \/ eng' = Deleted(eng, c)
       \/ UNCHANGED eng
    /\ UNCHANGED <<row, call, hour>>

\* An upstream refused c, for its rate limit or for its quota.
Refused(c) ==
    /\ Edit /\ \E d \in {DefaultCooldown, QuotaCooldown} : eng' \in Excluded(eng, c, d)
    /\ UNCHANGED <<row, table, call, hour>>

\* GetCredential answers an error of the database as it answers a missing row.
LookupFails(p) ==
    /\ Edit /\ call[p].pc \in {"single", "lookup"}
    /\ Missing(p)
    /\ UNCHANGED <<row, table, eng, hour>>

\* The drain goroutine could not read the row: OnModelChanged with no list.
DrainFails ==
    /\ Edit /\ eng' = Changed(eng, {})
    /\ UNCHANGED <<row, table, call, hour>>

\* Cooldowns come to their end ...
Cool ==
    /\ \E c \in Creds : eng.cooling[c] > 0
    /\ eng' = [eng EXCEPT !.cooling = [c \in Creds |-> IF @[c] > 0 THEN @[c] - 1 ELSE 0]]
    /\ UNCHANGED <<row, table, call, hour, edits>>

\* ... and the hours go round.
Tick ==
    /\ hour' = (hour + 1) % Day
    /\ UNCHANGED <<row, table, eng, call, edits>>

Resolve(p) == ReadModel(p) \/ Select(p) \/ Lookup(p) \/ HealDelete(p) \/ HealExclude(p) \/ Done(p)

Next ==
    \/ \E p \in Procs : Resolve(p) \/ LookupFails(p)
    \/ \E l \in Lists, w \in Windows : WriteModel(l, w)
    \/ \E c \in Creds : Vanish(c) \/ Refused(c)
    \/ DrainFails \/ Cool \/ Tick

Spec == Init /\ [][Next]_vars
\* Every request that has started goes on, its steps wait for nobody; time passes.
FairSpec == Spec /\ WF_vars(Cool) /\ \A p \in Procs : WF_vars(Resolve(p))

-----------------------------------------------------------------------------
\* The shape of the balancer's state and of the calls.
TypeOK ==
    /\ eng.list \subseteq Creds /\ eng.bound \in eng.list \cup {None}
    /\ \A p \in Procs : call[p].pc \in {"idle", "single", "select", "lookup", "resolved", "delete", "exclude"}

\* The peak model is used exactly in the hours of the window, counted from its start
\* in local time and across midnight.
PeakMatchesWindow ==
    \A p \in Procs : call[p].pc = "resolved" =>
        LET w == call[p].peak
            length == (w.to - w.from + Day) % Day
        IN  call[p].peaked <=>
              w.on /\ \E k \in 0..length - 1 : (w.from + k) % Day = (call[p].at + w.offset + Day) % Day

\* Both, of every request.
ResolutionSound == TypeOK /\ PeakMatchesWindow

\* A credential that vanished, or could not be read, fails a conversation only for a
\* while, although the balancer keeps it in its list and forgets its cooldowns:
\* when nobody writes and nothing fails any more and the balancer still has a
\* credential that exists, from some time on every resolution succeeds.
Recovers ==
    [](edits = MaxEdits /\ eng.list \cap table # {} /\ Cardinality(row.list) > 1
        => <>[](\A p \in Procs : call[p].pc \notin {"delete", "exclude"})
           /\ []<>(\E p \in Procs : call[p].pc = "resolved"))
=============================================================================
