-------------------------- MODULE TokenCacheProofs --------------------------
(***************************************************************************)
(* Proofs about the two caches in front of the database.                   *)
(*                                                                         *)
(* CachedTokenStore, for any number of concurrent validations and any      *)
(* durations and expiry dates: the argument is about times.  A verdict     *)
(* carries the clock its call read before it asked the database, and the   *)
(* row it found was current then, so a version is never stamped later than *)
(* it ended, whichever way the validations and the administrator           *)
(* interleave.                                                             *)
(*                                                                         *)
(* CachedModelsConfig, for any ids, requests and administrators: whatever  *)
(* is on its way to the cache holds rows of their ids, so a late fill that *)
(* rebuilds no claims takes the place of no group.                         *)
(***************************************************************************)
EXTENDS TokenCache, TLAPS

Versions == 1..MaxVersion
RowType == [kind : {"row"}, v : Versions, exp : Nat, asked : Nat]
EntryType == {Absent} \cup [kind : {"positive"}, v : Versions, at : Nat, until : Nat]
             \cup [kind : {"negative"}, at : Nat]
CallType == {Idle} \cup [pc : {"read"}, now : Nat]
            \cup [pc : {"infra", "deny", "accept"}, now : Nat, row : {Absent} \cup RowType]
PatchType == {Idle, [pc |-> "clear"], [pc |-> "write"]}

Types ==
    /\ token \in {Absent} \cup RowType /\ entry \in EntryType
    /\ call \in [Calls -> CallType] /\ patch \in PatchType
    /\ clock \in 1..MaxClock /\ version \in 0..MaxVersion /\ ended \in [Versions -> 1..Never]

\* The row is of the last version and expires no later than was asked for; no
\* version ends before it was written, and the current one has not ended.  A patch
\* under way has read a row.
RowsInv ==
    /\ token # Absent => token.v = version /\ ended[token.v] = Never /\ token.exp <= token.asked
    /\ \A v \in Versions : v > version => ended[v] = Never
    /\ patch.pc = "write" => token # Absent /\ version < MaxVersion

\* A positive entry is stamped no later than its version ended, and is fresh
\* for the TTL and no longer than the expiry that was asked for.
EntryInv ==
    entry.kind = "positive" =>
        /\ entry.v <= version /\ entry.at <= clock /\ entry.at <= ended[entry.v]
        /\ entry.until <= entry.at + PositiveTTL
        /\ token # Absent => entry.until <= token.asked

\* So is the verdict a validation is about to store.
CallInv(c) ==
    /\ call[c].pc # "idle" => call[c].now <= clock
    /\ call[c].pc = "accept" =>
        /\ call[c].row # Absent /\ call[c].row.v <= version
        /\ call[c].now <= ended[call[c].row.v] /\ call[c].now <= call[c].row.exp
        /\ token # Absent => call[c].row.exp = token.exp

AcceptedInv ==
    /\ accepted.v \in 0..MaxVersion
    /\ accepted.v # 0 => accepted.now \in Nat /\ accepted.now <= clock /\ accepted.v <= version
    /\ StaleBounded

IndInv == Types /\ RowsInv /\ EntryInv /\ (\A c \in Calls : CallInv(c)) /\ AcceptedInv

-----------------------------------------------------------------------------
\* The fields of a positive entry.
LEMMA PositiveFields ==
  ASSUME Types, entry.kind = "positive"
  PROVE  entry.v \in Versions /\ entry.at \in Nat /\ entry.until \in Nat
  <1>1. entry # Absent /\ entry \notin [kind : {"negative"}, at : Nat]  BY DEF Absent
  <1>2. entry \in [kind : {"positive"}, v : Versions, at : Nat, until : Nat]
    BY <1>1 DEF Types, EntryType
  <1>3. QED  BY <1>2

\* The fields of a row.
LEMMA TokenFields ==
  ASSUME NEW r \in {Absent} \cup RowType, r # Absent
  PROVE  r.v \in Versions /\ r.exp \in Nat /\ r.asked \in Nat
  BY DEF RowType

\* The fields of a validation under way.
LEMMA CallFields ==
  ASSUME Types, NEW c \in Calls, call[c].pc # "idle"
  PROVE  /\ call[c] # Idle /\ call[c].now \in Nat
         /\ call[c].pc \in {"read", "infra", "deny", "accept"}
         /\ call[c].pc # "read" => call[c].row \in {Absent} \cup RowType
  <1>1. call[c] \in CallType /\ call[c] # Idle  BY DEF Types, Idle
  <1>2. QED  BY <1>1 DEF CallType

\* The entry storePositive makes.
LEMMA PositiveEntry ==
  ASSUME TokenAssumption, NEW v \in Versions, NEW exp \in Nat, NEW now \in Nat
  PROVE  LET e == Positive(v, exp, now) IN
         /\ e \in EntryType /\ e.kind = "positive" /\ e.v = v /\ e.at = now
         /\ e.until <= now + PositiveTTL /\ e.until <= exp /\ e.until \in Nat
  <1> DEFINE u == Least(now + PositiveTTL, exp)
  <1>1. u \in Nat /\ u <= now + PositiveTTL /\ u <= exp  BY DEF Least, TokenAssumption
  <1> HIDE DEF u
  <1>2. Positive(v, exp, now) = [kind |-> "positive", v |-> v, at |-> now, until |-> u]
    BY DEF Positive, u
  <1>3. QED  BY <1>1, <1>2 DEF EntryType

\* The row expires no later than was asked for.
LEMMA SecondsBelow ==
  ASSUME TokenAssumption, NEW exp \in Nat
  PROVE  WholeSeconds(exp) \in Nat /\ WholeSeconds(exp) <= exp
  <1>1. Second \in Nat \ {0}  BY DEF TokenAssumption
  <1>2. exp % Second \in 0..Second - 1  BY <1>1
  <1>3. exp % Second <= exp  BY <1>1, <1>2, SMT
  <1>4. QED  BY <1>2, <1>3 DEF WholeSeconds

\* Init establishes the invariant.
LEMMA InitInv ==
  ASSUME TokenAssumption, Init
  PROVE  IndInv
  <1>1. Never \in 1..Never /\ Never \in Nat  BY DEF Never, TokenAssumption
  <1>2. Idle.pc = "idle" /\ Absent.kind = "absent"  BY DEF Idle, Absent
  <1>3. Types  BY <1>1 DEF Init, Types, EntryType, CallType, PatchType, TokenAssumption, Versions
  <1>4. RowsInv  BY <1>2 DEF Init, RowsInv, Versions
  <1>5. EntryInv  BY <1>2 DEF Init, EntryInv
  <1>6. \A c \in Calls : CallInv(c)  BY <1>2 DEF Init, CallInv
  <1>7. AcceptedInv  BY DEF Init, AcceptedInv, StaleBounded, TokenAssumption
  <1>8. QED  BY <1>3, <1>4, <1>5, <1>6, <1>7 DEF IndInv

-----------------------------------------------------------------------------
(* The steps.                                                              *)

\* An acceptance within the bound.
LEMMA AcceptKeeps ==
  ASSUME TokenAssumption, IndInv, NEW v \in Versions, NEW now \in Nat, NEW deg \in BOOLEAN,
         v <= version, now <= clock,
         now < ended[v] + PositiveTTL \/ (deg /\ now <= ended[v] + StaleCap),
         Accept(v, now, deg), UNCHANGED <<version, ended, clock>>
  PROVE  AcceptedInv'
  <1>1. accepted' = [v |-> v, now |-> now, degraded |-> deg]  BY DEF Accept
  <1>2. accepted'.v = v /\ accepted'.now = now /\ (accepted'.degraded <=> deg)  BY <1>1
  <1>3. v \in 0..MaxVersion  BY DEF Versions, TokenAssumption
  <1>4. StaleBounded'  BY <1>2 DEF StaleBounded
  <1>5. QED  BY <1>2, <1>3, <1>4 DEF AcceptedInv

\* What a step leaves alone stays as it was.
LEMMA AcceptedKept ==
  ASSUME IndInv, UNCHANGED <<accepted, version, ended, clock>>
  PROVE  AcceptedInv'
  BY DEF IndInv, AcceptedInv, StaleBounded

\* The same for the row and its versions,
LEMMA RowsKept ==
  ASSUME IndInv, UNCHANGED <<token, version, ended, patch>>
  PROVE  RowsInv'
  BY DEF IndInv, RowsInv

\* for the entry,
LEMMA EntryKept ==
  ASSUME IndInv, UNCHANGED <<entry, token, version, ended, clock>>
  PROVE  EntryInv'
  BY DEF IndInv, EntryInv

\* and for a validation.
LEMMA CallKept ==
  ASSUME IndInv, NEW c \in Calls, call'[c] = call[c], UNCHANGED <<token, version, ended, clock>>
  PROVE  CallInv(c)'
  BY DEF IndInv, CallInv

\* A validation that has answered holds nothing.
LEMMA IdleCall ==
  ASSUME NEW c \in Calls, call'[c] = Idle
  PROVE  CallInv(c)'
  BY DEF CallInv, Idle

\* A validation reads the cache.
LEMMA LookupKeeps ==
  ASSUME TokenAssumption, IndInv, NEW c \in Calls, Lookup(c)
  PROVE  IndInv'
  <1>1. Types /\ clock \in Nat  BY DEF IndInv, Types
  <1>2. UNCHANGED <<token, entry, indexed, reachable, patch, clock, version, ended>>  BY DEF Lookup
  <1>3. RowsInv' /\ EntryInv'  BY <1>2, RowsKept, EntryKept
  <1>4. CASE entry.kind = "positive" /\ clock < entry.until /\ Accept(entry.v, clock, FALSE) /\ UNCHANGED call
    <2>1. entry.v \in Versions /\ entry.at \in Nat /\ entry.until \in Nat  BY <1>1, <1>4, PositiveFields
    <2>2. /\ entry.v <= version /\ entry.at <= ended[entry.v] /\ entry.until <= entry.at + PositiveTTL
      BY <1>4 DEF IndInv, EntryInv
    <2>3. ended[entry.v] \in Nat /\ PositiveTTL \in Nat
      BY <1>1, <2>1 DEF Types, TokenAssumption, Never
    <2>4. clock < ended[entry.v] + PositiveTTL  BY <1>1, <1>4, <2>1, <2>2, <2>3
    <2>5. AcceptedInv'
      <3>1. clock \in Nat /\ clock <= clock /\ FALSE \in BOOLEAN  BY <1>1
      <3>2. Accept(entry.v, clock, FALSE) /\ UNCHANGED <<version, ended, clock>>  BY <1>2, <1>4
      <3>3. QED  BY <2>1, <2>2, <2>4, <3>1, <3>2, AcceptKeeps, Zenon
    <2>6. Types'  BY <1>1, <1>2, <1>4 DEF Types
    <2>7. \A d \in Calls : CallInv(d)'  BY <1>2, <1>4, CallKept
    <2>8. QED  BY <1>3, <2>5, <2>6, <2>7 DEF IndInv
  <1>5. CASE call' = [call EXCEPT ![c] = [pc |-> "read", now |-> clock]] /\ UNCHANGED accepted
    <2> DEFINE r == [pc |-> "read", now |-> clock]
    <2>1. r \in CallType /\ r.pc = "read" /\ r.now = clock  BY <1>1 DEF CallType
    <2> HIDE DEF r
    <2>2. call \in [Calls -> CallType] /\ call' = [call EXCEPT ![c] = r]  BY <1>1, <1>5 DEF Types, r
    <2>3. call' \in [Calls -> CallType] /\ call'[c] = r /\ \A d \in Calls \ {c} : call'[d] = call[d]
      BY <2>1, <2>2
    <2>4. CallInv(c)'  BY <1>1, <1>2, <2>1, <2>3 DEF CallInv
    <2>5. \A d \in Calls : CallInv(d)'  BY <1>2, <2>3, <2>4, CallKept
    <2>6. Types'  BY <1>1, <1>2, <2>3 DEF Types
    <2>7. AcceptedInv'  BY <1>2, <1>5, AcceptedKept
    <2>8. QED  BY <1>3, <2>5, <2>6, <2>7 DEF IndInv
  <1>6. QED  BY <1>4, <1>5 DEF Lookup

\* It asks the database: the row it finds is the current version.
LEMMA QueryKeeps ==
  ASSUME TokenAssumption, IndInv, NEW c \in Calls, Query(c)
  PROVE  IndInv'
  <1>1. Types /\ clock \in Nat /\ call[c].pc = "read"  BY DEF IndInv, Types, Query
  <1>2. UNCHANGED <<token, entry, indexed, reachable, patch, clock, version, ended, accepted>>
    BY DEF Query
  <1>3. RowsInv' /\ EntryInv' /\ AcceptedInv'  BY <1>2, RowsKept, EntryKept, AcceptedKept
  <1>4. call[c].now \in Nat /\ call[c].now <= clock
    BY <1>1, CallFields DEF IndInv, CallInv
  <1> DEFINE x == IF ~reachable THEN "infra"
                  ELSE IF token = Absent \/ Expired(token) THEN "deny" ELSE "accept"
             r == [pc |-> x, now |-> call[c].now, row |-> token]
  <1>5. x \in {"infra", "deny", "accept"} /\ (x = "accept" => token # Absent /\ clock <= token.exp)
    <2>1. x = "accept" => token # Absent /\ ~(clock > token.exp)  BY DEF Expired
    <2>2. token # Absent => token.exp \in Nat  BY <1>1, TokenFields DEF Types
    <2>3. QED  BY <1>1, <2>1, <2>2
  <1>6. call' = [call EXCEPT ![c] = r]  BY DEF Query
  <1> HIDE DEF x
  <1>7. r \in CallType /\ r.pc = x /\ r.now = call[c].now /\ r.row = token
    BY <1>1, <1>4, <1>5 DEF CallType, Types
  <1> HIDE DEF r
  <1>8. call' \in [Calls -> CallType] /\ call'[c] = r /\ \A d \in Calls \ {c} : call'[d] = call[d]
    BY <1>1, <1>6, <1>7 DEF Types
  <1>9. CallInv(c)'
    <2>1. SUFFICES ASSUME x = "accept"
                   PROVE  /\ token # Absent /\ token.v <= version
                          /\ call[c].now <= ended[token.v] /\ call[c].now <= token.exp
      BY <1>2, <1>4, <1>7, <1>8 DEF CallInv
    <2>2. token # Absent /\ token.v \in Versions /\ token.exp \in Nat
      BY <1>1, <1>5, <2>1, TokenFields DEF Types
    <2>3. token.v = version /\ ended[token.v] = Never /\ version \in Nat
      BY <1>1, <2>2 DEF IndInv, RowsInv, Types
    <2>4. clock <= MaxClock /\ MaxClock \in Nat  BY <1>1 DEF Types, TokenAssumption
    <2>5. QED  BY <1>1, <1>4, <1>5, <2>1, <2>2, <2>3, <2>4 DEF Never
  <1>10. \A d \in Calls : CallInv(d)'  BY <1>2, <1>8, <1>9, CallKept
  <1>11. Types'  BY <1>1, <1>2, <1>8 DEF Types
  <1>12. QED  BY <1>3, <1>10, <1>11 DEF IndInv

\* It stores its verdict, stamped with the time it read at its start.
LEMMA FinishKeeps ==
  ASSUME TokenAssumption, IndInv, NEW c \in Calls, Finish(c)
  PROVE  IndInv'
  <1>1. Types /\ clock \in Nat /\ call[c].pc \in {"accept", "deny"}  BY DEF IndInv, Types, Finish
  <1>2. UNCHANGED <<token, reachable, patch, clock, version, ended>>  BY DEF Finish
  <1>3. RowsInv'  BY <1>2, RowsKept
  <1>4. call[c].now \in Nat /\ call[c].now <= clock /\ call[c].row \in {Absent} \cup RowType
    BY <1>1, CallFields DEF IndInv, CallInv
  <1>5. /\ call' \in [Calls -> CallType] /\ call'[c] = Idle /\ \A d \in Calls \ {c} : call'[d] = call[d]
    BY <1>1 DEF Finish, Return, Types, CallType
  <1>6. \A d \in Calls : CallInv(d)'  BY <1>2, <1>5, CallKept, IdleCall
  <1>7. CASE call[c].pc = "accept" /\ entry' = Positive(call[c].row.v, call[c].row.exp, call[c].now)
             /\ Accept(call[c].row.v, call[c].now, FALSE)
    <2> DEFINE r == call[c].row
               now == call[c].now
    <2>1. /\ r # Absent /\ r.v <= version /\ now <= ended[r.v]
          /\ (token # Absent => r.exp = token.exp)
      BY <1>7 DEF IndInv, CallInv
    <2>2. r \in RowType /\ r.v \in Versions /\ r.exp \in Nat  BY <1>4, <2>1, TokenFields
    <2>3. now \in Nat /\ now <= clock  BY <1>4
    <2>4. entry' = Positive(r.v, r.exp, now) /\ Accept(r.v, now, FALSE)  BY <1>7
    <2> HIDE DEF r, now
    <2>5. /\ entry' \in EntryType /\ entry'.kind = "positive" /\ entry'.v = r.v /\ entry'.at = now
          /\ entry'.until <= now + PositiveTTL /\ entry'.until <= r.exp /\ entry'.until \in Nat
      BY <2>2, <2>3, <2>4, PositiveEntry
    <2>6. EntryInv'
      <3>1. token # Absent => token.exp <= token.asked /\ token.exp \in Nat /\ token.asked \in Nat
        BY <1>1, TokenFields DEF IndInv, RowsInv, Types
      <3>2. token # Absent => entry'.until <= token.asked  BY <2>1, <2>2, <2>5, <3>1
      <3>3. QED  BY <1>2, <2>1, <2>3, <2>5, <3>2 DEF EntryInv
    <2>7. Types'  BY <1>1, <1>2, <1>5, <2>5 DEF Types
    <2>8. ended[r.v] \in Nat /\ PositiveTTL \in Nat \ {0}
      BY <1>1, <2>2 DEF Types, TokenAssumption, Never
    <2>9. now < ended[r.v] + PositiveTTL  BY <2>1, <2>3, <2>8
    <2>10. AcceptedInv'  BY <1>2, <2>1, <2>2, <2>3, <2>4, <2>9, AcceptKeeps
    <2>11. QED  BY <1>3, <1>6, <2>6, <2>7, <2>10 DEF IndInv
  <1>8. CASE entry' = Negative(call[c].now) /\ UNCHANGED accepted
    <2>1. entry' \in EntryType /\ entry'.kind = "negative"  BY <1>4, <1>8 DEF Negative, EntryType
    <2>2. EntryInv'  BY <2>1 DEF EntryInv
    <2>3. Types'  BY <1>1, <1>2, <1>5, <2>1 DEF Types
    <2>4. AcceptedInv'  BY <1>2, <1>8, AcceptedKept
    <2>5. QED  BY <1>3, <1>6, <2>2, <2>3, <2>4 DEF IndInv
  <1>9. QED  BY <1>7, <1>8 DEF Finish

\* In an outage it serves the entry within the cap.
LEMMA DegradedKeeps ==
  ASSUME TokenAssumption, IndInv, NEW c \in Calls, Degraded(c)
  PROVE  IndInv'
  <1>1. Types /\ clock \in Nat /\ call[c].pc = "infra"  BY DEF IndInv, Types, Degraded
  <1>2. UNCHANGED <<token, entry, indexed, reachable, patch, clock, version, ended>>  BY DEF Degraded
  <1>3. RowsInv' /\ EntryInv'  BY <1>2, RowsKept, EntryKept
  <1>4. call[c].now \in Nat /\ call[c].now <= clock
    BY <1>1, CallFields DEF IndInv, CallInv
  <1>5. /\ call' \in [Calls -> CallType] /\ call'[c] = Idle /\ \A d \in Calls \ {c} : call'[d] = call[d]
    BY <1>1 DEF Degraded, Return, Types, CallType
  <1>6. \A d \in Calls : CallInv(d)'  BY <1>2, <1>5, CallKept, IdleCall
  <1>7. Types'  BY <1>1, <1>2, <1>5 DEF Types
  <1>8. CASE entry.kind = "positive" /\ call[c].now - entry.at <= StaleCap
             /\ Accept(entry.v, call[c].now, TRUE)
    <2>1. entry.v \in Versions /\ entry.at \in Nat  BY <1>1, <1>8, PositiveFields
    <2>2. entry.v <= version /\ entry.at <= ended[entry.v]  BY <1>8 DEF IndInv, EntryInv
    <2>3. ended[entry.v] \in Nat /\ StaleCap \in Nat
      BY <1>1, <2>1 DEF Types, TokenAssumption, Never
    <2>4. call[c].now <= ended[entry.v] + StaleCap  BY <1>4, <1>8, <2>1, <2>2, <2>3
    <2>5. AcceptedInv'  BY <1>2, <1>4, <1>8, <2>1, <2>2, <2>4, AcceptKeeps
    <2>6. QED  BY <1>3, <1>6, <1>7, <2>5 DEF IndInv
  <1>9. CASE UNCHANGED accepted
    <2>1. AcceptedInv'  BY <1>2, <1>9, AcceptedKept
    <2>2. QED  BY <1>3, <1>6, <1>7, <2>1 DEF IndInv
  <1>10. QED  BY <1>8, <1>9 DEF Degraded

-----------------------------------------------------------------------------
(* The administrator.                                                      *)

\* A version that ends now leaves every stamp and every acceptance within its
\* bound: none of them is of a later time.
LEMMA EndingKeeps ==
  ASSUME TokenAssumption, IndInv, token # Absent,
         ended' = [ended EXCEPT ![token.v] = clock],
         version' \in version..MaxVersion,
         token' # Absent => token'.exp = token.exp /\ token'.asked = token.asked,
         UNCHANGED <<entry, call, clock, accepted>>
  PROVE  /\ ended' \in [Versions -> 1..Never]
         /\ ended'[token.v] = clock
         /\ \A v \in Versions \ {token.v} : ended'[v] = ended[v]
         /\ EntryInv' /\ (\A c \in Calls : CallInv(c)') /\ AcceptedInv'
  <1>1. Types /\ clock \in Nat /\ clock \in 1..Never /\ token.v \in Versions /\ version \in Nat
    BY TokenFields DEF IndInv, Types, TokenAssumption, Never
  <1>2. ended \in [Versions -> 1..Never]  BY <1>1 DEF Types
  <1>3. /\ ended' \in [Versions -> 1..Never] /\ ended'[token.v] = clock
        /\ \A v \in Versions \ {token.v} : ended'[v] = ended[v]
    BY <1>1, <1>2
  <1>4. version' \in Nat /\ version <= version' /\ Versions \subseteq Nat
    BY <1>1 DEF Versions, TokenAssumption
  <1>5. ASSUME NEW v \in Versions, NEW t \in Nat, t <= clock, t <= ended[v]
        PROVE  t <= ended'[v]
    BY <1>1, <1>3, <1>5
  <1>6. EntryInv'
    <2>1. SUFFICES ASSUME entry.kind = "positive" PROVE EntryInv'  BY DEF EntryInv
    <2>2. entry.v \in Versions /\ entry.at \in Nat /\ entry.until \in Nat
      BY <1>1, <2>1, PositiveFields
    <2>3. /\ entry.v <= version /\ entry.at <= clock /\ entry.at <= ended[entry.v]
          /\ entry.until <= entry.at + PositiveTTL /\ entry.until <= token.asked
      BY <2>1 DEF IndInv, EntryInv
    <2>4. entry.at <= ended'[entry.v]  BY <1>5, <2>2, <2>3
    <2>5. entry.v <= version'  BY <1>1, <1>4, <2>2, <2>3 DEF Versions, TokenAssumption
    <2>6. QED  BY <2>3, <2>4, <2>5 DEF EntryInv
  <1>7. ASSUME NEW c \in Calls PROVE CallInv(c)'
    <2>1. call[c].pc # "idle" => call[c].now <= clock  BY DEF IndInv, CallInv
    <2>2. CASE call[c].pc = "accept"
      <3>1. /\ call[c].row # Absent /\ call[c].row.v <= version
            /\ call[c].now <= ended[call[c].row.v] /\ call[c].now <= call[c].row.exp
            /\ call[c].row.exp = token.exp
        BY <2>2 DEF IndInv, CallInv
      <3>2. call[c].now \in Nat /\ call[c].row \in {Absent} \cup RowType  BY <1>1, <2>2, CallFields
      <3>3. call[c].row.v \in Versions  BY <3>1, <3>2, TokenFields
      <3>4. call[c].now <= ended'[call[c].row.v]  BY <1>5, <2>1, <2>2, <3>1, <3>2, <3>3
      <3>5. call[c].row.v <= version'  BY <1>1, <1>4, <3>1, <3>3 DEF Versions, TokenAssumption
      <3>6. QED  BY <2>1, <3>1, <3>4, <3>5 DEF CallInv
    <2>3. CASE call[c].pc # "accept"  BY <2>1, <2>3 DEF CallInv
    <2>4. QED  BY <2>2, <2>3
  <1>8. AcceptedInv'
    <2>1. accepted.v \in 0..MaxVersion  BY DEF IndInv, AcceptedInv
    <2>2. CASE accepted.v = 0  BY <2>1, <2>2 DEF AcceptedInv, StaleBounded
    <2>3. CASE accepted.v # 0
      <3>1. accepted.v \in Versions  BY <2>1, <2>3 DEF Versions, TokenAssumption
      <3>2. accepted.now \in Nat /\ accepted.now <= clock /\ accepted.v <= version
        BY <2>3 DEF IndInv, AcceptedInv
      <3>3. accepted.v <= version'  BY <1>1, <1>4, <3>1, <3>2 DEF Versions, TokenAssumption
      <3>4. CASE accepted.v = token.v
        <4>1. accepted.now < ended'[accepted.v] + PositiveTTL
          BY <1>1, <1>3, <3>2, <3>4 DEF TokenAssumption
        <4>2. QED  BY <2>1, <3>2, <3>3, <4>1 DEF AcceptedInv, StaleBounded
      <3>5. CASE accepted.v # token.v
        <4>1. ended'[accepted.v] = ended[accepted.v]  BY <1>3, <3>1, <3>5
        <4>2. QED  BY <2>1, <3>2, <3>3, <4>1 DEF IndInv, AcceptedInv, StaleBounded
      <3>6. QED  BY <3>4, <3>5
    <2>4. QED  BY <2>2, <2>3
  <1>9. QED  BY <1>3, <1>6, <1>7, <1>8

\* createToken: nothing of this token is cached, asked for or accepted before.
LEMMA CreateKeeps ==
  ASSUME TokenAssumption, IndInv, NEW exp \in Expiries, Create(exp)
  PROVE  IndInv'
  <1>1. /\ Types /\ clock \in Nat /\ clock <= Never /\ version = 0 /\ patch = Idle /\ exp \in Nat
        /\ version' = 1 /\ UNCHANGED <<reachable, call, patch, clock, ended, accepted>>
    BY DEF IndInv, Types, Create, TokenAssumption, Never
  <1>2. 1 \in Versions /\ Versions \subseteq Nat \ {0}  BY DEF Versions, TokenAssumption
  <1> DEFINE w == WholeSeconds(exp)
  <1>3. token' = [kind |-> "row", v |-> 1, exp |-> w, asked |-> exp] /\ entry' = Positive(1, exp, clock)
    BY DEF Create
  <1>a. w \in Nat /\ w <= exp  BY <1>1, SecondsBelow
  <1> HIDE DEF w
  <1>4. token' \in RowType /\ token' # Absent /\ token'.v = 1 /\ token'.exp <= token'.asked /\ token'.asked = exp
    BY <1>1, <1>2, <1>3, <1>a DEF RowType, Absent
  <1>5. /\ entry' \in EntryType /\ entry'.kind = "positive" /\ entry'.v = 1 /\ entry'.at = clock
        /\ entry'.until <= clock + PositiveTTL /\ entry'.until <= token'.asked
    BY <1>1, <1>2, <1>3, <1>4, PositiveEntry
  <1>6. \A v \in Versions : ended[v] = Never  BY <1>1 DEF IndInv, RowsInv, Versions, TokenAssumption
  <1>7. Types'  BY <1>1, <1>4, <1>5 DEF Types, TokenAssumption
  <1>8. RowsInv'  BY <1>1, <1>2, <1>4, <1>6 DEF RowsInv, Idle
  <1>9. EntryInv'  BY <1>1, <1>2, <1>5, <1>6 DEF EntryInv
  <1>10. ASSUME NEW c \in Calls PROVE CallInv(c)'
    <2>1. call[c].pc # "accept"
      <3>1. SUFFICES ASSUME call[c].pc = "accept" PROVE FALSE  OBVIOUS
      <3>2. call[c].row # Absent /\ call[c].row.v <= 0  BY <1>1, <3>1 DEF IndInv, CallInv
      <3>3. call[c].row.v \in Versions  BY <1>1, <3>1, <3>2, CallFields, TokenFields
      <3>4. QED  BY <3>2, <3>3 DEF Versions, TokenAssumption
    <2>2. call[c].pc # "idle" => call[c].now <= clock  BY DEF IndInv, CallInv
    <2>3. QED  BY <1>1, <2>1, <2>2 DEF CallInv
  <1>11. accepted.v = 0  BY <1>1 DEF IndInv, AcceptedInv
  <1>12. AcceptedInv'  BY <1>1, <1>11 DEF AcceptedInv, StaleBounded, TokenAssumption
  <1>13. QED  BY <1>7, <1>8, <1>9, <1>10, <1>12 DEF IndInv

\* updateTokenPermission reads the row; nothing cached changes.
LEMMA PatchReadKeeps ==
  ASSUME TokenAssumption, IndInv, PatchRead
  PROVE  IndInv'
  <1>1. /\ Types /\ token # Absent /\ version < MaxVersion
        /\ patch' = [pc |-> "write"]
        /\ UNCHANGED <<token, entry, indexed, reachable, call, clock, version, ended, accepted>>
    BY DEF IndInv, PatchRead
  <1>3. patch' \in PatchType  BY <1>1 DEF PatchType
  <1>4. Types'  BY <1>1, <1>3 DEF Types
  <1>5. RowsInv'  BY <1>1, <1>3 DEF IndInv, RowsInv
  <1>6. EntryInv' /\ AcceptedInv' /\ \A c \in Calls : CallInv(c)'
    BY <1>1, EntryKept, AcceptedKept, CallKept
  <1>7. QED  BY <1>4, <1>5, <1>6 DEF IndInv

\* It writes the next version.
LEMMA PatchWriteKeeps ==
  ASSUME TokenAssumption, IndInv, PatchWrite
  PROVE  IndInv'
  <1>1. /\ Types /\ patch.pc = "write" /\ version' = version + 1 /\ version \in Nat
        /\ token' = [token EXCEPT !.v = version']
        /\ ended' = [ended EXCEPT ![token.v] = clock]
        /\ patch' = [pc |-> "clear"]
        /\ UNCHANGED <<entry, indexed, reachable, call, clock, accepted>>
    BY DEF IndInv, PatchWrite, Types
  <1>2. token # Absent /\ version < MaxVersion /\ token.v = version /\ token.exp <= token.asked
    BY <1>1 DEF IndInv, RowsInv
  <1>3. token \in RowType  BY <1>1, <1>2 DEF Types
  <1>4. version' \in Versions /\ version' \in version..MaxVersion /\ version' \in 0..MaxVersion
    BY <1>1, <1>2 DEF Versions, TokenAssumption
  <1>5. /\ token' \in RowType /\ token' # Absent /\ token'.v = version'
        /\ token'.exp = token.exp /\ token'.asked = token.asked
    BY <1>1, <1>3, <1>4 DEF RowType, Absent
  <1>6. /\ ended' \in [Versions -> 1..Never] /\ \A v \in Versions \ {token.v} : ended'[v] = ended[v]
        /\ EntryInv' /\ (\A c \in Calls : CallInv(c)') /\ AcceptedInv'
    BY <1>1, <1>2, <1>4, <1>5, EndingKeeps
  <1>7. Types'
    <2>1. patch' \in PatchType  BY <1>1 DEF PatchType
    <2>2. QED  BY <1>1, <1>4, <1>5, <1>6, <2>1 DEF Types
  <1>8. RowsInv'
    <2>1. ASSUME NEW v \in Versions, v > version PROVE ended'[v] = Never
      <3>1. v # token.v /\ ended[v] = Never
        BY <1>1, <1>2, <2>1 DEF IndInv, RowsInv, Versions, TokenAssumption
      <3>2. QED  BY <1>6, <3>1
    <2>2. version' > version  BY <1>1
    <2>3. \A v \in Versions : v > version' => v > version  BY <1>1 DEF Versions, TokenAssumption
    <2>4. patch'.pc # "write"  BY <1>1
    <2>5. QED  BY <1>2, <1>4, <1>5, <2>1, <2>2, <2>3, <2>4 DEF RowsInv
  <1>9. QED  BY <1>6, <1>7, <1>8 DEF IndInv

\* handleTokenDetail deletes the row.
LEMMA DeleteKeeps ==
  ASSUME TokenAssumption, IndInv, Delete
  PROVE  IndInv'
  <1>1. /\ Types /\ token # Absent /\ token' = Absent /\ version \in Nat /\ version' \in version..MaxVersion
        /\ ended' = [ended EXCEPT ![token.v] = clock]
        /\ patch' = [pc |-> "clear"]
        /\ UNCHANGED <<entry, indexed, reachable, call, clock, version, accepted>>
    BY DEF IndInv, Delete, Types, TokenAssumption
  <1>2. token.v = version  BY <1>1 DEF IndInv, RowsInv
  <1>3. /\ ended' \in [Versions -> 1..Never] /\ \A v \in Versions \ {token.v} : ended'[v] = ended[v]
        /\ EntryInv' /\ (\A c \in Calls : CallInv(c)') /\ AcceptedInv'
    BY <1>1, EndingKeeps
  <1>4. Types'
    <2>1. patch' \in PatchType  BY <1>1 DEF PatchType
    <2>2. QED  BY <1>1, <1>3, <2>1 DEF Types
  <1>5. RowsInv'
    <2>1. ASSUME NEW v \in Versions, v > version PROVE ended'[v] = Never
      <3>1. v # token.v /\ ended[v] = Never
        BY <1>1, <1>2, <2>1 DEF IndInv, RowsInv, Versions, TokenAssumption
      <3>2. QED  BY <1>3, <3>1
    <2>2. patch'.pc # "write"  BY <1>1
    <2>3. QED  BY <1>1, <2>1, <2>2 DEF RowsInv
  <1>6. QED  BY <1>3, <1>4, <1>5 DEF IndInv

\* Either drops the entry.
LEMMA ClearKeeps ==
  ASSUME TokenAssumption, IndInv, Clear
  PROVE  IndInv'
  <1>1. /\ Types /\ patch' = Idle /\ entry' \in {Absent, entry}
        /\ UNCHANGED <<token, reachable, call, clock, version, ended, accepted>>
    BY DEF IndInv, Clear
  <1>2. Types'  BY <1>1 DEF Types, PatchType, EntryType
  <1>3. RowsInv'  BY <1>1 DEF IndInv, RowsInv, Idle
  <1>4. EntryInv'
    <2>1. CASE entry' = Absent  BY <2>1 DEF EntryInv, Absent
    <2>2. CASE entry' = entry  BY <1>1, <2>2, EntryKept
    <2>3. QED  BY <1>1, <2>1, <2>2
  <1>5. AcceptedInv' /\ \A c \in Calls : CallInv(c)'  BY <1>1, AcceptedKept, CallKept
  <1>6. QED  BY <1>2, <1>3, <1>4, <1>5 DEF IndInv

\* The LRU, the index, the database and a step that changes nothing.
LEMMA SurroundingsKeep ==
  ASSUME TokenAssumption, IndInv, Evict \/ Forget \/ Outage \/ UNCHANGED vars
  PROVE  IndInv'
  <1>1. /\ Types /\ entry' \in {Absent, entry}
        /\ UNCHANGED <<token, call, patch, clock, version, ended, accepted>>
    BY DEF IndInv, Evict, Forget, Outage, vars
  <1>2. Types'  BY <1>1 DEF Types, EntryType
  <1>3. EntryInv'
    <2>1. CASE entry' = Absent  BY <2>1 DEF EntryInv, Absent
    <2>2. CASE entry' = entry  BY <1>1, <2>2, EntryKept
    <2>3. QED  BY <1>1, <2>1, <2>2
  <1>4. RowsInv' /\ AcceptedInv' /\ \A c \in Calls : CallInv(c)'
    BY <1>1, RowsKept, AcceptedKept, CallKept
  <1>5. QED  BY <1>2, <1>3, <1>4 DEF IndInv

\* Time passes.
LEMMA TickKeeps ==
  ASSUME TokenAssumption, IndInv, Tick
  PROVE  IndInv'
  <1>1. /\ Types /\ clock \in Nat /\ clock' = clock + 1 /\ clock' \in 1..MaxClock
        /\ UNCHANGED <<token, entry, indexed, reachable, call, patch, version, ended, accepted>>
    BY DEF IndInv, Types, Tick, TokenAssumption
  <1>2. Types'  BY <1>1 DEF Types
  <1>3. RowsInv'  BY <1>1, RowsKept
  <1>4. EntryInv'
    <2>1. SUFFICES ASSUME entry.kind = "positive" PROVE EntryInv'  BY <1>1 DEF EntryInv
    <2>2. entry.at \in Nat /\ entry.at <= clock  BY <1>1, <2>1, PositiveFields DEF IndInv, EntryInv
    <2>3. entry.at <= clock'  BY <1>1, <2>2
    <2>4. QED  BY <1>1, <2>1, <2>3 DEF IndInv, EntryInv
  <1>5. ASSUME NEW c \in Calls PROVE CallInv(c)'
    <2>1. call[c].pc # "idle" => call[c].now \in Nat /\ call[c].now <= clock
      BY <1>1, CallFields DEF IndInv, CallInv
    <2>2. call[c].pc # "idle" => call[c].now <= clock'  BY <1>1, <2>1
    <2>3. QED  BY <1>1, <2>2 DEF IndInv, CallInv
  <1>6. AcceptedInv'
    <2>1. accepted.v # 0 => accepted.now \in Nat /\ accepted.now <= clock  BY DEF IndInv, AcceptedInv
    <2>2. accepted.v # 0 => accepted.now <= clock'  BY <1>1, <2>1
    <2>3. QED  BY <1>1, <2>2 DEF IndInv, AcceptedInv, StaleBounded
  <1>7. QED  BY <1>2, <1>3, <1>4, <1>5, <1>6 DEF IndInv

\* Every step keeps the invariant.
LEMMA StepInv ==
  ASSUME TokenAssumption, IndInv, [Next]_vars
  PROVE  IndInv'
  <1>1. ASSUME NEW c \in Calls, Lookup(c) \/ Query(c) \/ Finish(c) \/ Degraded(c) PROVE IndInv'
    BY <1>1, LookupKeeps, QueryKeeps, FinishKeeps, DegradedKeeps
  <1>2. ASSUME NEW exp \in Expiries, Create(exp) PROVE IndInv'  BY <1>2, CreateKeeps
  <1>3. CASE PatchRead \/ PatchWrite \/ Delete \/ Clear
    BY <1>3, PatchReadKeeps, PatchWriteKeeps, DeleteKeeps, ClearKeeps
  <1>4. CASE Evict \/ Forget \/ Outage \/ UNCHANGED vars  BY <1>4, SurroundingsKeep
  <1>5. CASE Tick  BY <1>5, TickKeeps
  <1>6. QED  BY <1>1, <1>2, <1>3, <1>4, <1>5 DEF Next

-----------------------------------------------------------------------------
(* The theorems.                                                           *)

\* The invariant holds in every behaviour, for all durations the store can be
\* configured with.
THEOREM TokenInductive ==
  ASSUME TokenAssumption
  PROVE  Spec => []IndInv
  <1>1. Init => IndInv  BY InitInv
  <1>2. IndInv /\ [Next]_vars => IndInv'  BY StepInv
  <1>3. QED  BY <1>1, <1>2, PTL DEF Spec

\* A token deleted or patched is accepted with its old permissions for less than
\* PositiveTTL afterwards, or for at most StaleCap while the database is out of
\* reach, however validations and the administrator interleave.
THEOREM StalenessIsBounded ==
  ASSUME TokenAssumption
  PROVE  Spec => []StaleBounded
  <1>1. IndInv => StaleBounded  BY DEF IndInv, AcceptedInv
  <1>2. QED  BY <1>1, TokenInductive, PTL

\* A step that accepts does so no later than the expiry asked for, or in an outage.
LEMMA AcceptsUnexpired ==
  ASSUME TokenAssumption, IndInv, [Next]_vars, token # Absent, accepted' # accepted
  PROVE  accepted'.degraded \/ accepted'.now <= token.asked
  <1>1. Types /\ clock \in Nat /\ token.exp \in Nat /\ token.asked \in Nat  BY TokenFields DEF IndInv, Types
  <1>2. PICK c \in Calls : Lookup(c) \/ Finish(c) \/ Degraded(c)
    BY DEF Next, Query, Create, PatchRead, PatchWrite, Delete, Clear, Evict, Forget, Outage, Tick, vars
  <1>3. CASE Lookup(c)
    <2>1. entry.kind = "positive" /\ clock < entry.until /\ Accept(entry.v, clock, FALSE)
      BY <1>3 DEF Lookup
    <2>2. entry.until \in Nat /\ entry.until <= token.asked
      BY <1>1, <2>1, PositiveFields DEF IndInv, EntryInv
    <2>3. accepted'.now = clock  BY <2>1 DEF Accept
    <2>4. QED  BY <1>1, <2>1, <2>2, <2>3
  <1>4. CASE Finish(c)
    <2>1. call[c].pc = "accept" /\ Accept(call[c].row.v, call[c].now, FALSE)
      BY <1>4 DEF Finish
    <2>2. call[c].now <= token.exp /\ token.exp <= token.asked
      BY <2>1 DEF IndInv, CallInv, RowsInv
    <2>3. accepted'.now = call[c].now /\ call[c].now \in Nat  BY <1>1, <2>1, CallFields DEF Accept
    <2>4. QED  BY <1>1, <2>2, <2>3
  <1>5. CASE Degraded(c)
    <2>1. Accept(entry.v, call[c].now, TRUE)  BY <1>5 DEF Degraded
    <2>2. QED  BY <2>1 DEF Accept
  <1>6. QED  BY <1>2, <1>3, <1>4, <1>5

\* A token is accepted after the expiry it was created with only when the database
\* cannot be asked, whatever fraction of a second the row loses of it.
THEOREM ExpiryIsKept ==
  ASSUME TokenAssumption
  PROVE  Spec => ExpiredOnlyInOutage
  <1>1. IndInv /\ [Next]_vars =>
        [token # Absent /\ accepted' # accepted
            => accepted'.degraded \/ accepted'.now <= token.asked]_vars
    BY AcceptsUnexpired
  <1>2. QED  BY <1>1, TokenInductive, PTL DEF Spec, ExpiredOnlyInOutage

-----------------------------------------------------------------------------
(* CachedModelsConfig: the same question for the cache of models, whose    *)
(* fills, write-throughs and scans are applied late and in any order.      *)

CONSTANTS Ids, None, Readers, Admins, Drafts, CredVersions, Budget
VARIABLES db, cdb, up, byID, ccache, snap, neg, claims, healthy, scan, fill, admin, spent
Models == INSTANCE ModelsCache

Table(t) == DOMAIN t = Ids /\ \A id \in Ids : t[id] \in Models!RowsOf(id)
\* What a request or an administrator has read or written and not yet applied.
Applies(f) == f.id \in Ids /\ f.row \in Models!RowsOf(f.id)

\* The tables, whatever is on its way to the cache, and the cache hold rows of
\* their ids.  No empty scan that met a list with models is swapped in.
ModelRowsInv ==
    /\ Table(db) /\ Table(byID)
    /\ scan.pc \in {"models", "check", "swap"} => Table(scan.rows)
    /\ scan.pc = "swap" => ~(scan.rows = Models!NoRows /\ scan.had)
    /\ DOMAIN fill = Readers /\ \A r \in Readers : fill[r].pc = "apply" => Applies(fill[r])
    /\ DOMAIN admin = Admins /\ \A a \in Admins : admin[a].pc = "model" => Applies(admin[a])

\* The list is that of the index by id; the claim index leads to groups that
\* claim the id and, when ids keep their kind, is exactly that of the rows.
IndexInv ==
    /\ snap = byID
    /\ claims \in [Ids -> Ids \cup {None}]
    /\ Models!IndexSound

ModelsInv == ModelRowsInv /\ IndexInv

\* A rebuilt index leads only to groups that claim the id.
LEMMA ClaimsLead ==
  ASSUME NEW t
  PROVE  /\ Models!Claims(t) \in [Ids -> Ids \cup {None}]
         /\ \A i \in Ids : Models!Claims(t)[i] # None =>
              t[Models!Claims(t)[i]].shadow = i
  <1>1. \A i \in Ids : Models!Claimants(t, i) # {} =>
          (CHOOSE g \in Models!Claimants(t, i) : TRUE) \in Models!Claimants(t, i)
    OBVIOUS
  <1>2. \A i \in Ids : Models!Claimants(t, i) \subseteq Ids
                       /\ \A g \in Models!Claimants(t, i) : t[g].shadow = i
    BY DEF Models!Claimants
  <1> QED  BY <1>1, <1>2 DEF Models!Claims

\* Tables with the same groups have the same index.
LEMMA SameGroups ==
  ASSUME NEW t, NEW u,
         \A g \in Ids : Models!IsOpenGroup(t[g]) <=> Models!IsOpenGroup(u[g]),
         \A g \in Ids : Models!IsOpenGroup(t[g]) => t[g] = u[g]
  PROVE  Models!Claims(t) = Models!Claims(u)
  <1>1. \A i \in Ids : Models!Claimants(t, i) = Models!Claimants(u, i)
    <2> SUFFICES ASSUME NEW i \in Ids PROVE Models!Claimants(t, i) = Models!Claimants(u, i)
      OBVIOUS
    <2>1. \A g \in Ids : (Models!IsOpenGroup(t[g]) /\ t[g].shadow = i)
                         <=> (Models!IsOpenGroup(u[g]) /\ u[g].shadow = i)
      OBVIOUS
    <2> QED  BY <2>1 DEF Models!Claimants
  <1> DEFINE pick(S) == IF S # {} THEN CHOOSE g \in S : TRUE ELSE None
  <1>2. \A T : Models!Claims(T) = [i \in Ids |-> pick(Models!Claimants(T, i))]  BY DEF Models!Claims
  <1> HIDE DEF pick
  <1> QED  BY <1>1, <1>2

\* The index invariant of a cache whose claims have just been rebuilt.
LEMMA Rebuilt ==
  ASSUME snap' = byID', claims' = Models!Claims(byID')
  PROVE  IndexInv'
  <1>1. claims' \in [Ids -> Ids \cup {None}]  BY ClaimsLead
  <1>2. Models!LiveRedirect'  BY ClaimsLead DEF Models!LiveRedirect, Models!Claimed
  <1>3. Models!ClaimsFollowCache'  BY DEF Models!ClaimsFollowCache
  <1> QED  BY <1>1, <1>2, <1>3 DEF IndexInv, Models!IndexSound

\* The cache as it is primed.
LEMMA ModelsInit == ASSUME Models!ModelsAssumption, Models!Init PROVE ModelsInv
  <1>1. /\ Table(db) /\ byID = db /\ snap = byID /\ claims = Models!Claims(byID)
        /\ scan = Models!Idle
        /\ fill = [r \in Readers |-> Models!Idle] /\ admin = [a \in Admins |-> Models!Idle]
    BY DEF Models!Init, Table
  <1>2. Models!Idle.pc = "idle"  BY DEF Models!Idle
  <1>3. ModelRowsInv  BY <1>1, <1>2 DEF ModelRowsInv
  <1>4. claims \in [Ids -> Ids \cup {None}]  BY <1>1, ClaimsLead
  <1>5. Models!LiveRedirect  BY <1>1, ClaimsLead DEF Models!LiveRedirect, Models!Claimed
  <1> QED  BY <1>1, <1>3, <1>4, <1>5 DEF ModelsInv, IndexInv, Models!IndexSound, Models!ClaimsFollowCache

\* Steps that leave the indexes alone.
LEMMA IndexKept ==
  ASSUME IndexInv, UNCHANGED <<byID, snap, claims>>
  PROVE  IndexInv'
  <1>1. Models!LiveRedirect'  BY DEF IndexInv, Models!IndexSound, Models!LiveRedirect, Models!Claimed
  <1>2. Models!KindKept => Models!ClaimsFollowCache'  BY DEF IndexInv, Models!IndexSound, Models!ClaimsFollowCache
  <1> QED  BY <1>1, <1>2 DEF IndexInv, Models!IndexSound

\* The reconciler: a scan holds rows of the tables, or none.
LEMMA ScanKeeps ==
  ASSUME Models!ModelsAssumption, ModelsInv, Models!Scan \/ Models!ScanEmpty
  PROVE  ModelsInv'
  <1>1. CASE Models!ScanModels \/ Models!ScanEmpty \/ Models!ScanCredentials \/ Models!ScanFails \/ Models!ScanCheck
    <2>1. UNCHANGED <<db, byID, snap, claims, fill, admin>>
      BY <1>1 DEF Models!ScanModels, Models!ScanEmpty, Models!ScanCredentials, Models!ScanFails,
                  Models!ScanCheck, Models!tables, Models!cached
    <2>2. Table(Models!NoRows)  BY DEF Table, Models!NoRows, Models!RowsOf
    <2>3. /\ scan'.pc \in {"models", "check", "swap"} => Table(scan'.rows)
          /\ scan'.pc = "swap" => ~(scan'.rows = Models!NoRows /\ scan'.had)
      <3>1. CASE Models!ScanModels
        BY <3>1 DEF Models!ScanModels, ModelsInv, ModelRowsInv
      <3>2. CASE Models!ScanEmpty
        BY <2>2, <3>2 DEF Models!ScanEmpty
      <3>3. CASE Models!ScanCredentials
        BY <3>3 DEF Models!ScanCredentials, ModelsInv, ModelRowsInv
      <3>4. CASE Models!ScanFails
        BY <3>4 DEF Models!ScanFails, Models!Idle
      <3>5. CASE Models!ScanCheck
        <4>1. CASE Models!Suspicious(scan)  BY <3>5, <4>1 DEF Models!ScanCheck, Models!Idle
        <4>2. CASE ~Models!Suspicious(scan)
          <5>1. /\ scan.pc = "check"
                /\ scan' = [pc |-> "swap", rows |-> scan.rows, cred |-> scan.cred, had |-> snap # Models!NoRows]
            BY <3>5, <4>2 DEF Models!ScanCheck
          <5>2. ~(scan.rows = Models!NoRows /\ snap # Models!NoRows)  BY <4>2 DEF Models!Suspicious
          <5>3. Table(scan.rows)  BY <5>1 DEF ModelsInv, ModelRowsInv
          <5> QED  BY <5>1, <5>2, <5>3
        <4> QED  BY <4>1, <4>2
      <3> QED  BY <1>1, <3>1, <3>2, <3>3, <3>4, <3>5
    <2>4. ModelRowsInv'  BY <2>1, <2>3 DEF ModelsInv, ModelRowsInv, Table, Applies
    <2> QED  BY <2>1, <2>4, IndexKept DEF ModelsInv
  <1>2. CASE Models!ScanApply
    <2>1. /\ scan.pc = "swap" /\ scan' = Models!Idle /\ UNCHANGED <<db, fill, admin>>
          /\ byID' = scan.rows /\ snap' = scan.rows /\ claims' = Models!Claims(scan.rows)
      BY <1>2 DEF Models!ScanApply, Models!tables
    <2>2. scan'.pc = "idle"  BY <2>1 DEF Models!Idle
    <2>3. Table(byID')  BY <2>1 DEF ModelsInv, ModelRowsInv
    <2>4. ModelRowsInv'  BY <2>1, <2>2, <2>3 DEF ModelsInv, ModelRowsInv, Table, Applies
    <2> QED  BY <2>1, <2>4, Rebuilt DEF ModelsInv
  <1> QED  BY <1>1, <1>2 DEF Models!Scan

\* Requests read rows of the tables.
LEMMA ReadKeeps ==
  ASSUME ModelsInv, NEW r \in Readers,
         Models!CredRead(r) \/ Models!CredStore(r)
         \/ \E id \in Ids, native \in BOOLEAN : Models!FillRead(r, id, native)
  PROVE  ModelsInv'
  <1>1. UNCHANGED <<db, byID, snap, claims, scan, admin>>
    BY DEF Models!CredRead, Models!CredStore, Models!FillRead, Models!tables, Models!cached
  <1>2. DOMAIN fill' = Readers /\ \A q \in Readers : fill'[q].pc = "apply" => Applies(fill'[q])
    <2>1. CASE Models!CredRead(r)
      BY <2>1 DEF Models!CredRead, ModelsInv, ModelRowsInv
    <2>2. CASE Models!CredStore(r)
      BY <2>2 DEF Models!CredStore, Models!Idle, ModelsInv, ModelRowsInv
    <2>3. ASSUME NEW id \in Ids, NEW native \in BOOLEAN, Models!FillRead(r, id, native)
          PROVE  DOMAIN fill' = Readers /\ \A q \in Readers : fill'[q].pc = "apply" => Applies(fill'[q])
      <3> DEFINE new == [pc |-> "apply", id |-> id, row |-> db[id], native |-> native]
      <3>1. new.id = id /\ new.row = db[id]  OBVIOUS
      <3>2. Applies(new)  BY <3>1 DEF Applies, ModelsInv, ModelRowsInv, Table
      <3>3. fill' = fill \/ fill' = [fill EXCEPT ![r] = new]  BY <2>3 DEF Models!FillRead
      <3> HIDE DEF new
      <3> QED  BY <3>2, <3>3 DEF ModelsInv, ModelRowsInv
    <2> QED  BY <2>1, <2>2, <2>3
  <1>3. ModelRowsInv'  BY <1>1, <1>2 DEF ModelsInv, ModelRowsInv, Table, Applies
  <1> QED  BY <1>1, <1>3, IndexKept DEF ModelsInv

\* A late row that is no group takes the place of no group, if ids keep their kind.
LEMMA LateModel ==
  ASSUME Models!ModelsAssumption, Models!KindKept, Table(byID), NEW id \in Ids, NEW row \in Models!RowsOf(id),
         row # None, ~row.group
  PROVE  Models!Claims([byID EXCEPT ![id] = row]) = Models!Claims(byID)
  <1> DEFINE t == [byID EXCEPT ![id] = row]
  <1>1. PICK d \in Drafts : d[1] = id /\ d[2] = row  BY DEF Models!RowsOf
  <1>2. byID[id] # None => ~byID[id].group
    <2>1. SUFFICES ASSUME byID[id] # None PROVE ~byID[id].group
      OBVIOUS
    <2>2. PICK e \in Drafts : e[1] = id /\ e[2] = byID[id]  BY <2>1 DEF Table, Models!RowsOf
    <2> QED  BY <1>1, <2>2 DEF Models!KindKept
  <1>3. ~Models!IsOpenGroup(byID[id]) /\ ~Models!IsOpenGroup(row)
    BY <1>2 DEF Models!IsOpenGroup
  <1>4. t[id] = row /\ \A g \in Ids \ {id} : t[g] = byID[g]  BY DEF Table
  <1> HIDE DEF t
  <1>5. \A g \in Ids : Models!IsOpenGroup(t[g]) <=> Models!IsOpenGroup(byID[g])  BY <1>3, <1>4
  <1>6. \A g \in Ids : Models!IsOpenGroup(t[g]) => t[g] = byID[g]  BY <1>3, <1>4
  <1>7. Models!Claims(t) = Models!Claims(byID)  BY <1>5, <1>6, SameGroups
  <1> QED  BY <1>7 DEF t

\* A row that is no group leaves the redirects that lead past it.
LEMMA LateRedirect ==
  ASSUME Table(byID), NEW id \in Ids, NEW row, ~row.group, IndexInv,
         byID' = [byID EXCEPT ![id] = row], claims' = claims
  PROVE  Models!LiveRedirect'
  <1> SUFFICES ASSUME NEW i \in Ids, claims[i] # None, Models!IsOpenGroup(byID'[claims[i]])
               PROVE  byID'[claims[i]].shadow = i
    BY DEF Models!LiveRedirect, Models!Claimed, Models!IsOpenGroup
  <1>1. claims[i] \in Ids  BY DEF IndexInv
  <1>2. byID'[id] = row /\ \A g \in Ids \ {id} : byID'[g] = byID[g]  BY DEF Table
  <1>3. claims[i] # id  BY <1>2 DEF Models!IsOpenGroup
  <1>4. byID'[claims[i]] = byID[claims[i]]  BY <1>1, <1>2, <1>3
  <1> QED  BY <1>4 DEF IndexInv, Models!IndexSound, Models!LiveRedirect, Models!Claimed

\* A fill is applied, whatever happened to its id since it was read.
LEMMA FillKeeps ==
  ASSUME Models!ModelsAssumption, ModelsInv, NEW r \in Readers, fill[r].pc = "apply", Models!FillApply(r)
  PROVE  ModelsInv'
  <1> DEFINE f == fill[r]
  <1>1. f.id \in Ids /\ f.row \in Models!RowsOf(f.id)  BY DEF ModelsInv, ModelRowsInv, Applies
  <1>2. UNCHANGED <<db, scan, admin>> /\ fill' = [fill EXCEPT ![r] = Models!Idle]
    BY DEF Models!FillApply, Models!tables
  <1>3. DOMAIN fill' = Readers /\ \A q \in Readers : fill'[q].pc = "apply" => Applies(fill'[q])
    BY <1>2 DEF ModelsInv, ModelRowsInv, Models!Idle
  <1>4. Table(byID)  BY DEF ModelsInv, ModelRowsInv
  <1>5. CASE f.row = None
    <2>1. UNCHANGED <<byID, snap, claims>>  BY <1>5 DEF Models!FillApply
    <2>2. ModelRowsInv'  BY <1>2, <1>3, <2>1 DEF ModelsInv, ModelRowsInv, Table, Applies
    <2> QED  BY <2>1, <2>2, IndexKept DEF ModelsInv
  <1>6. CASE f.row # None
    <2>1. /\ byID' = [byID EXCEPT ![f.id] = f.row] /\ snap' = byID'
          /\ claims' = IF f.row.group THEN Models!Claims(byID') ELSE claims
      BY <1>6 DEF Models!FillApply
    <2> HIDE DEF f
    <2>2. DOMAIN byID' = Ids /\ byID'[f.id] = f.row /\ \A i \in Ids \ {f.id} : byID'[i] = byID[i]
      BY <1>1, <1>4, <2>1 DEF Table
    <2>3. Table(byID')
      <3>1. DOMAIN byID' = Ids  BY <2>2
      <3>2. \A i \in Ids : byID'[i] \in Models!RowsOf(i)  BY <1>1, <1>4, <2>2 DEF Table
      <3> QED  BY <3>1, <3>2 DEF Table
    <2>4. ModelRowsInv'  BY <1>2, <1>3, <2>3 DEF ModelsInv, ModelRowsInv, Table, Applies
    <2>5. IndexInv'
      <3>1. CASE f.row.group  BY <2>1, <3>1, Rebuilt
      <3>2. CASE ~f.row.group
        <4>1. Models!LiveRedirect'  BY <1>1, <1>4, <2>1, <3>2, LateRedirect DEF ModelsInv
        <4>2. ASSUME Models!KindKept PROVE Models!ClaimsFollowCache'
          <5>1. Models!Claims(byID') = Models!Claims(byID)
            BY <1>1, <1>4, <1>6, <2>1, <3>2, <4>2, LateModel
          <5>2. claims = Models!Claims(byID)
            BY <4>2 DEF ModelsInv, IndexInv, Models!IndexSound, Models!ClaimsFollowCache
          <5> QED  BY <2>1, <3>2, <5>1, <5>2 DEF Models!ClaimsFollowCache
        <4>3. claims' \in [Ids -> Ids \cup {None}]  BY <2>1, <3>2 DEF ModelsInv, IndexInv
        <4> QED  BY <2>1, <4>1, <4>2, <4>3 DEF IndexInv, Models!IndexSound
      <3> QED  BY <3>1, <3>2
    <2> QED  BY <2>4, <2>5 DEF ModelsInv
  <1> QED  BY <1>5, <1>6

\* An administrator's write reaches the table.
LEMMA CommitKeeps ==
  ASSUME Models!ModelsAssumption, ModelsInv, NEW a \in Admins, NEW id \in Ids, NEW row \in Models!RowsOf(id),
         Models!CommitModel(a, id, row)
  PROVE  ModelsInv'
  <1> DEFINE w == [pc |-> "model", id |-> id, row |-> row]
  <1>1. /\ db' = [db EXCEPT ![id] = row] /\ admin' = [admin EXCEPT ![a] = w]
        /\ UNCHANGED <<byID, snap, claims, scan, fill>>
    BY DEF Models!CommitModel, Models!Commit, Models!cached
  <1>2. w.id = id /\ w.row = row  OBVIOUS
  <1>3. Applies(w)  BY <1>2 DEF Applies
  <1> HIDE DEF w
  <1>4. DOMAIN admin' = Admins /\ \A b \in Admins : admin'[b].pc = "model" => Applies(admin'[b])
    BY <1>1, <1>3 DEF ModelsInv, ModelRowsInv
  <1>5. DOMAIN db' = Ids /\ db'[id] = row /\ \A i \in Ids \ {id} : db'[i] = db[i]
    BY <1>1 DEF ModelsInv, ModelRowsInv, Table
  <1>6. \A i \in Ids : db'[i] \in Models!RowsOf(i)  BY <1>5 DEF ModelsInv, ModelRowsInv, Table
  <1>7. Table(db')  BY <1>5, <1>6 DEF Table
  <1>8. ModelRowsInv'  BY <1>1, <1>4, <1>7 DEF ModelsInv, ModelRowsInv, Table, Applies
  <1> QED  BY <1>1, <1>8, IndexKept DEF ModelsInv

\* It is written through: shadowed ids are evicted and the index rebuilt.
LEMMA ThroughKeeps ==
  ASSUME ModelsInv, NEW a \in Admins, Models!WriteThrough(a)
  PROVE  ModelsInv'
  <1> DEFINE w == admin[a]
  <1> DEFINE gone == Models!Shadows(byID[w.id], w.row)
  <1>1. /\ admin[a].pc = "model" /\ admin' = [admin EXCEPT ![a] = Models!Idle]
        /\ byID' = [i \in Ids |-> IF i \in gone THEN None ELSE IF i = w.id THEN w.row ELSE byID[i]]
        /\ snap' = byID' /\ claims' = Models!Claims(byID')
        /\ UNCHANGED <<db, scan, fill>>
    BY DEF Models!WriteThrough, Models!tables
  <1>2. w.id \in Ids /\ w.row \in Models!RowsOf(w.id)  BY <1>1 DEF ModelsInv, ModelRowsInv, Applies
  <1>3. DOMAIN admin' = Admins /\ \A b \in Admins : admin'[b].pc = "model" => Applies(admin'[b])
    BY <1>1 DEF ModelsInv, ModelRowsInv, Models!Idle
  <1> HIDE DEF w, gone
  <1>4. \A i \in Ids : None \in Models!RowsOf(i) /\ byID[i] \in Models!RowsOf(i)
    BY DEF Models!RowsOf, ModelsInv, ModelRowsInv, Table
  <1>5. Table(byID')  BY <1>1, <1>2, <1>4 DEF Table
  <1>6. ModelRowsInv'  BY <1>1, <1>3, <1>5 DEF ModelsInv, ModelRowsInv, Table, Applies
  <1> QED  BY <1>1, <1>6, Rebuilt DEF ModelsInv

\* Credentials, outages and verdicts that grow old.
LEMMA OtherKeeps ==
  ASSUME ModelsInv,
         \/ \E a \in Admins : \/ Models!Refetch(a) \/ Models!CredThrough(a)
                              \/ \E v \in CredVersions \cup {0} : Models!CommitCredential(a, v)
         \/ Models!Outage
         \/ \E id \in Ids : Models!Expire(id)
         \/ UNCHANGED Models!vars
  PROVE  ModelsInv'
  <1>1. UNCHANGED <<db, byID, snap, claims, scan, fill>>
    BY DEF Models!Refetch, Models!CredThrough, Models!CommitCredential, Models!Commit, Models!Outage,
           Models!Expire, Models!vars, Models!tables, Models!cached
  <1>2. DOMAIN admin' = Admins /\ \A b \in Admins : admin'[b].pc = "model" => Applies(admin'[b])
    <2>1. ASSUME NEW a \in Admins, Models!Refetch(a)
          PROVE  DOMAIN admin' = Admins /\ \A b \in Admins : admin'[b].pc = "model" => Applies(admin'[b])
      BY <2>1 DEF Models!Refetch, Models!Idle, ModelsInv, ModelRowsInv
    <2>2. ASSUME NEW a \in Admins, Models!CredThrough(a)
          PROVE  DOMAIN admin' = Admins /\ \A b \in Admins : admin'[b].pc = "model" => Applies(admin'[b])
      BY <2>2 DEF Models!CredThrough, Models!Idle, ModelsInv, ModelRowsInv
    <2>3. ASSUME NEW a \in Admins, NEW v, Models!CommitCredential(a, v)
          PROVE  DOMAIN admin' = Admins /\ \A b \in Admins : admin'[b].pc = "model" => Applies(admin'[b])
      <3>1. admin' = [admin EXCEPT ![a] = [pc |-> IF cdb # 0 /\ v # 0 THEN "refetch" ELSE "cred", cred |-> v]]
        BY <2>3 DEF Models!CommitCredential, Models!Commit
      <3> QED  BY <3>1 DEF ModelsInv, ModelRowsInv
    <2>4. CASE UNCHANGED admin
      BY <2>4 DEF ModelsInv, ModelRowsInv, Applies
    <2>5. Models!Outage \/ (\E id \in Ids : Models!Expire(id)) \/ UNCHANGED Models!vars => UNCHANGED admin
      BY DEF Models!Outage, Models!Expire, Models!vars
    <2> QED  BY <2>1, <2>2, <2>3, <2>4, <2>5
  <1>3. ModelRowsInv'  BY <1>1, <1>2 DEF ModelsInv, ModelRowsInv, Table, Applies
  <1> QED  BY <1>1, <1>3, IndexKept DEF ModelsInv

\* Every step of the cache keeps the invariant.
LEMMA ModelsStep ==
  ASSUME Models!ModelsAssumption, ModelsInv, [Models!Next]_Models!vars
  PROVE  ModelsInv'
  <1>1. \A id \in Ids : None \in Models!RowsOf(id)  BY DEF Models!RowsOf
  <1>2. \A d \in Drafts : d[1] \in Ids /\ d[2] \in Models!RowsOf(d[1])  BY DEF Models!RowsOf, Models!ModelsAssumption
  <1>3. CASE Models!Scan \/ Models!ScanEmpty  BY <1>3, ScanKeeps
  <1>4. ASSUME NEW r \in Readers,
               \/ Models!FinishFill(r) \/ Models!CredRead(r)
               \/ \E id \in Ids, native \in BOOLEAN : Models!FillRead(r, id, native)
        PROVE  ModelsInv'
    <2>1. CASE fill[r].pc = "apply" /\ Models!FillApply(r)  BY <2>1, FillKeeps
    <2>2. CASE ~(fill[r].pc = "apply" /\ Models!FillApply(r))
      BY <1>4, <2>2, ReadKeeps DEF Models!FinishFill
    <2> QED  BY <2>1, <2>2
  <1>5. ASSUME NEW a \in Admins,
               \/ Models!FinishWrite(a)
               \/ \E d \in Drafts : Models!CommitModel(a, d[1], d[2])
               \/ \E id \in Ids : Models!CommitModel(a, id, None)
               \/ \E v \in CredVersions \cup {0} : Models!CommitCredential(a, v)
        PROVE  ModelsInv'
    <2>1. CASE Models!WriteThrough(a)  BY <2>1, ThroughKeeps
    <2>2. CASE Models!Refetch(a) \/ Models!CredThrough(a)
               \/ \E v \in CredVersions \cup {0} : Models!CommitCredential(a, v)
      BY <2>2, OtherKeeps
    <2>3. CASE \E d \in Drafts : Models!CommitModel(a, d[1], d[2])  BY <1>2, <2>3, CommitKeeps
    <2>4. CASE \E id \in Ids : Models!CommitModel(a, id, None)  BY <1>1, <2>4, CommitKeeps
    <2> QED  BY <1>5, <2>1, <2>2, <2>3, <2>4 DEF Models!FinishWrite
  <1>6. CASE Models!Outage \/ (\E id \in Ids : Models!Expire(id)) \/ UNCHANGED Models!vars
    BY <1>6, OtherKeeps
  <1> QED  BY <1>3, <1>4, <1>5, <1>6 DEF Models!Next

\* The invariant of the cache of models, for any ids, requests and administrators.
THEOREM ModelsInductive ==
  ASSUME Models!ModelsAssumption
  PROVE  Models!Spec => []ModelsInv
  <1>1. Models!Init => ModelsInv  BY ModelsInit
  <1>2. ModelsInv /\ [Models!Next]_Models!vars => ModelsInv'  BY ModelsStep
  <1> QED  BY <1>1, <1>2, PTL DEF Models!Spec

\* In whatever order late fills, writes and scans are applied, GetModel redirects
\* only to an enabled group that, in the cache, shadows the id, also where an id
\* changes its kind and a late fill brings back the model it was; where ids keep
\* their kind, the claim index is that of the cached rows (cacheModel rebuilds it
\* for groups only).
THEOREM IndexIsSound ==
  ASSUME Models!ModelsAssumption
  PROVE  Models!Spec => []Models!IndexSound
  <1>1. ModelsInv => Models!IndexSound  BY DEF ModelsInv, IndexInv
  <1> QED  BY <1>1, ModelsInductive, PTL

-----------------------------------------------------------------------------
(* Outages.                                                                *)

\* With nothing on its way to the cache but an empty scan that met models, the cache
\* keeps its rows.
LEMMA QuietStep ==
  ASSUME ModelsInv, [Models!Next]_Models!vars, Models!Quiet,
         scan.pc = "swap" => scan.rows = Models!NoRows /\ scan.had
  PROVE  UNCHANGED <<byID, claims>> /\ neg' \subseteq neg
  <1>1. Models!Idle.pc = "idle"  BY DEF Models!Idle
  <1>2. (\A r \in Readers : fill[r].pc = "idle") /\ \A a \in Admins : admin[a].pc = "idle"
    BY <1>1 DEF Models!Quiet
  <1>3. CASE Models!ScanApply  BY <1>3 DEF Models!ScanApply, ModelsInv, ModelRowsInv
  <1>4. CASE \/ Models!ScanModels \/ Models!ScanCredentials \/ Models!ScanFails \/ Models!ScanCheck
             \/ Models!ScanEmpty \/ Models!Outage
    BY <1>4 DEF Models!ScanModels, Models!ScanCredentials, Models!ScanFails, Models!ScanCheck,
                Models!ScanEmpty, Models!Outage, Models!cached
  <1>5. ASSUME NEW r \in Readers,
               \/ Models!FinishFill(r) \/ Models!CredRead(r)
               \/ \E id \in Ids, native \in BOOLEAN : Models!FillRead(r, id, native)
        PROVE  UNCHANGED <<byID, claims, neg>>
    BY <1>2, <1>5 DEF Models!FinishFill, Models!CredStore, Models!CredRead, Models!FillRead, Models!cached
  <1>6. ASSUME NEW a \in Admins,
               \/ Models!FinishWrite(a)
               \/ \E d \in Drafts : Models!CommitModel(a, d[1], d[2])
               \/ \E id \in Ids : Models!CommitModel(a, id, None)
               \/ \E v \in CredVersions \cup {0} : Models!CommitCredential(a, v)
        PROVE  UNCHANGED <<byID, claims, neg>>
    BY <1>2, <1>6 DEF Models!FinishWrite, Models!WriteThrough, Models!Refetch, Models!CredThrough,
                      Models!CommitModel, Models!CommitCredential, Models!Commit, Models!cached
  <1>7. CASE \E id \in Ids : Models!Expire(id)  BY <1>7 DEF Models!Expire
  <1>8. CASE UNCHANGED Models!vars  BY <1>8 DEF Models!vars, Models!cached
  <1> QED  BY <1>3, <1>4, <1>5, <1>6, <1>7, <1>8 DEF Models!Next, Models!Scan

\* What GetModel finds it still finds after such a step.
LEMMA OutageStep ==
  ASSUME ModelsInv, [Models!Next]_Models!vars, Models!Quiet,
         scan.pc = "swap" => scan.rows = Models!NoRows /\ scan.had,
         NEW id \in Ids, Models!GetModel(id) # None
  PROVE  Models!GetModel(id)' # None
  <1>1. UNCHANGED <<byID, claims>> /\ neg' \subseteq neg  BY QuietStep
  <1> QED  BY <1>1 DEF Models!GetModel, Models!Claimed, Models!Lookup, Models!IsOpenGroup

\* Neither an outage nor a database that answers with empty tables makes a model
\* disappear, unless the cache was empty when the scan was checked and was filled
\* before it was swapped in (reconcileOnce).
THEOREM OutagesServe ==
  ASSUME Models!ModelsAssumption
  PROVE  Models!Spec => Models!OutageServes
  <1>1. ModelsInv /\ [Models!Next]_Models!vars =>
        [Models!Quiet /\ (scan.pc = "swap" => scan.rows = Models!NoRows /\ scan.had)
           => \A id \in Ids : Models!GetModel(id) # None => Models!GetModel(id)' # None]_Models!vars
    BY OutageStep
  <1> QED  BY <1>1, ModelsInductive, PTL DEF Models!Spec, Models!OutageServes
=============================================================================
