----------------------------- MODULE TokenCache -----------------------------
(***************************************************************************)
(* CachedTokenStore in front of auth.TokenStore, for one client token.     *)
(* A validation reads the clock, the cache and the database in separate    *)
(* steps and stores its verdict last; an administrator creates, patches    *)
(* and deletes the token meanwhile, and the database may be out of reach.  *)
(*                                                                         *)
(* A version of the token stands for its permissions.                      *)
(***************************************************************************)
EXTENDS Integers

CONSTANTS
    Calls,          \* concurrent validations
    PositiveTTL, NegativeTTL, StaleCap,
    Expiries,       \* expiry dates a token is created with
    Second,         \* ticks of the clock in a second
    MaxVersion,     \* bound: creation and patches
    MaxClock        \* bound: the clock stops here

\* NewCachedTokenStore replaces durations that are not positive by its defaults.
TokenAssumption ==
    /\ PositiveTTL \in Nat \ {0} /\ StaleCap \in Nat \ {0} /\ NegativeTTL \in Nat \ {0}
    /\ Expiries \subseteq Nat /\ Second \in Nat \ {0} /\ MaxVersion \in Nat \ {0} /\ MaxClock \in Nat \ {0}

VARIABLES
    token,          \* the row: version and expiry, and as history the expiry
                    \* that was asked for; Absent
    entry,          \* the entry of the token's hash in the LRU; Absent
    indexed,        \* idToHash knows the token
    reachable,      \* the database answers
    call,           \* validation -> its progress
    patch,          \* the administrator's request: "none", "clear" when the row
                    \* is written and the entry not yet dropped, or a patch that
                    \* has read the row
    clock,
    version,        \* versions used so far
    ended,          \* history: version -> when it stopped being the row
    accepted        \* history: the last acceptance

vars == <<token, entry, indexed, reachable, call, patch, clock, version, ended, accepted>>

Absent == [kind |-> "absent"]
Idle == [pc |-> "idle"]
Never == MaxClock + 1
Least(a, b) == IF a < b THEN a ELSE b

Init ==
    /\ token = Absent /\ entry = Absent /\ indexed = FALSE /\ reachable = TRUE
    /\ call = [c \in Calls |-> Idle] /\ patch = Idle
    /\ clock = 1 /\ version = 0
    /\ ended = [v \in 1..MaxVersion |-> Never]
    /\ accepted = [v |-> 0]

\* Variant for Positive: the token's expiry is not considered.
PositiveUnclamped(v, exp, now) ==
    [kind |-> "positive", v |-> v, at |-> now, until |-> now + PositiveTTL]

\* storePositive: fresh for PositiveTTL, or until the expiry it is given.
Positive(v, exp, now) ==
    [kind |-> "positive", v |-> v, at |-> now, until |-> Least(now + PositiveTTL, exp)]
Negative(now) == [kind |-> "negative", at |-> now]

Accept(v, now, degraded) == accepted' = [v |-> v, now |-> now, degraded |-> degraded]
Return(c) == call' = [call EXCEPT ![c] = Idle]

-----------------------------------------------------------------------------
(* ValidateToken.                                                          *)

\* cachedVerdict: a fresh positive or a fresh negative answers.
Lookup(c) ==
    /\ call[c] = Idle
    /\ \/ /\ entry.kind = "positive" /\ clock < entry.until
          /\ Accept(entry.v, clock, FALSE) /\ UNCHANGED call
       \/ /\ ~(entry.kind = "positive" /\ clock < entry.until)
          /\ ~(entry.kind = "negative" /\ clock - entry.at <= NegativeTTL)
          /\ call' = [call EXCEPT ![c] = [pc |-> "read", now |-> clock]]
          /\ UNCHANGED accepted
    /\ UNCHANGED <<token, entry, indexed, reachable, patch, clock, version, ended>>

\* IsExpired: after the expiry, not at it.
Expired(t) == clock > t.exp

\* TokenStore.ValidateToken: the row and its expiry, or an error.
Query(c) ==
    /\ call[c].pc = "read"
    /\ call' = [call EXCEPT ![c] =
                 [pc |-> IF ~reachable THEN "infra"
                         ELSE IF token = Absent \/ Expired(token) THEN "deny" ELSE "accept",
                  now |-> call[c].now, row |-> token]]
    /\ UNCHANGED <<token, entry, indexed, reachable, patch, clock, version, ended, accepted>>

\* Variant for Finish: the entry is stamped with the time of the store.
FinishLate(c) ==
    /\ call[c].pc \in {"accept", "deny"} /\ Return(c)
    /\ \/ /\ call[c].pc = "accept" /\ entry' = Positive(call[c].row.v, call[c].row.exp, clock) /\ indexed' = TRUE
          /\ Accept(call[c].row.v, call[c].now, FALSE)
       \/ call[c].pc = "deny" /\ entry' = Negative(clock) /\ UNCHANGED <<indexed, accepted>>
    /\ UNCHANGED <<token, reachable, patch, clock, version, ended>>

\* storePositive and storeNegative.
Finish(c) ==
    /\ call[c].pc \in {"accept", "deny"} /\ Return(c)
    /\ \/ /\ call[c].pc = "accept"
          /\ entry' = Positive(call[c].row.v, call[c].row.exp, call[c].now) /\ indexed' = TRUE
          /\ Accept(call[c].row.v, call[c].now, FALSE)
       \/ /\ call[c].pc = "deny"
          /\ entry' = Negative(call[c].now) /\ UNCHANGED <<indexed, accepted>>
    /\ UNCHANGED <<token, reachable, patch, clock, version, ended>>

\* The database is out of reach: a positive entry, looked up again, within
\* StaleCap is served, and nothing is stored.
Degraded(c) ==
    /\ call[c].pc = "infra" /\ Return(c)
    /\ IF entry.kind = "positive" /\ call[c].now - entry.at <= StaleCap
       THEN Accept(entry.v, call[c].now, TRUE)
       ELSE UNCHANGED accepted
    /\ UNCHANGED <<token, entry, indexed, reachable, patch, clock, version, ended>>

-----------------------------------------------------------------------------
(* The administrator: createToken, updateTokenPermission, handleTokenDetail. *)

\* The row's expires_at has whole seconds (RFC 3339).
WholeSeconds(exp) == exp - (exp % Second)

\* CreateToken writes the row and caches it as a positive, until the expiry as
\* it was asked for.
Create(exp) ==
    /\ patch = Idle /\ version = 0 /\ reachable
    /\ version' = 1
    /\ token' = [kind |-> "row", v |-> 1, exp |-> WholeSeconds(exp), asked |-> exp]
    /\ entry' = Positive(1, exp, clock) /\ indexed' = TRUE
    /\ UNCHANGED <<reachable, call, patch, clock, ended, accepted>>

\* A patch reads the row to fill in the fields that were not sent ...
PatchRead ==
    /\ patch = Idle /\ reachable /\ token # Absent /\ version < MaxVersion
    /\ patch' = [pc |-> "write"]
    /\ UNCHANGED <<token, entry, indexed, reachable, call, clock, version, ended, accepted>>

\* ... and writes all of them, the expiry excepted.
PatchWrite ==
    /\ patch.pc = "write" /\ reachable
    /\ version' = version + 1
    /\ token' = [token EXCEPT !.v = version']
    /\ ended' = [ended EXCEPT ![token.v] = clock]
    /\ patch' = [pc |-> "clear"]
    /\ UNCHANGED <<entry, indexed, reachable, call, clock, accepted>>

Delete ==
    /\ patch = Idle /\ reachable /\ token # Absent
    /\ token' = Absent /\ ended' = [ended EXCEPT ![token.v] = clock]
    /\ patch' = [pc |-> "clear"]
    /\ UNCHANGED <<entry, indexed, reachable, call, clock, version, accepted>>

\* Either then drops the entry, if idToHash has the token.
Clear ==
    /\ patch.pc = "clear" /\ patch' = Idle
    /\ entry' = IF indexed THEN Absent ELSE entry
    /\ indexed' = (indexed /\ token # Absent)
    /\ UNCHANGED <<token, reachable, call, clock, version, ended, accepted>>

-----------------------------------------------------------------------------
\* The LRU evicts the entry, the index forgets the token, the database goes
\* away or comes back, time passes.
Evict == entry # Absent /\ entry' = Absent
         /\ UNCHANGED <<token, indexed, reachable, call, patch, clock, version, ended, accepted>>
Forget == indexed /\ indexed' = FALSE
          /\ UNCHANGED <<token, entry, reachable, call, patch, clock, version, ended, accepted>>
Outage == reachable' = ~reachable
          /\ UNCHANGED <<token, entry, indexed, call, patch, clock, version, ended, accepted>>
Tick == clock < MaxClock /\ clock' = clock + 1
        /\ UNCHANGED <<token, entry, indexed, reachable, call, patch, version, ended, accepted>>

Next ==
    \/ \E c \in Calls : Lookup(c) \/ Query(c) \/ Finish(c) \/ Degraded(c)
    \/ \E exp \in Expiries : Create(exp)
    \/ PatchRead \/ PatchWrite \/ Delete \/ Clear
    \/ Evict \/ Forget \/ Outage \/ Tick

Spec == Init /\ [][Next]_vars

-----------------------------------------------------------------------------
(* Properties.                                                             *)

\* A token deleted or patched is accepted with its old permissions for less
\* than PositiveTTL afterwards, and in an outage for at most StaleCap,
\* whichever order a late validation and the administrator's write land in.
StaleBounded ==
    accepted.v # 0 => \/ accepted.now < ended[accepted.v] + PositiveTTL
                      \/ accepted.degraded /\ accepted.now <= ended[accepted.v] + StaleCap

\* A token is accepted after the expiry it was created with only when the
\* database cannot be asked.  (After the row's own expiry, a fraction of a second
\* earlier, the entry of its creation may still be fresh.)
ExpiredOnlyInOutage ==
    [][token # Absent /\ accepted' # accepted
        => accepted'.degraded \/ accepted'.now <= token.asked]_vars

\* "permission changes must not be masked by a stale positive; the next
\* ValidateToken re-reads": once an administrator's change is in and no
\* validation is under way, the cache holds no older version as fresh.
NoMaskedChange ==
    (\A c \in Calls : call[c] = Idle) /\ patch = Idle /\ entry.kind = "positive" /\ clock < entry.until
    => token # Absent /\ entry.v = token.v
=============================================================================
