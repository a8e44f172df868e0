----------------------- MODULE RaceCoordinatorProofs -----------------------
(***************************************************************************)
(* Proofs about one race, for any chain, any credential lists, any limit   *)
(* on parallel attempts and any interference by other requests.            *)
(*                                                                         *)
(* A step writes the attempt rows in one of two ways: every row goes on    *)
(* with its life (Evolves), or manage() appends rows.  The inductive       *)
(* invariant says, beside the types, that a failed row stays as it is, who *)
(* may be cancelled at each point of manage() (ScanInv), that the budgets  *)
(* count the failover rows (BudgetInv), and how far the chain was walked   *)
(* (WalkInv).                                                              *)
(***************************************************************************)
EXTENDS RaceCoordinator, TLAPS, FiniteSetTheorems, FunctionTheorems,
        WellFoundedInduction

\* An error is recorded by MarkFailed only, together with the status.
RowsInv == \A i \in DOMAIN reqs : reqs[i].err # "none" => reqs[i].status = "failed"

\* The binding of a model is one of its credentials.
EngineInv == \A m \in Models : bound[m] \in CredsOf[m] \cup {NoCred}

\* While manage() may still pick a winner there is none, and nobody has been
\* cancelled.
Picking == {"select", "gate", "case1", "case2", "terminal", "cancelAll"}
ScanInv ==
    mpc \in Picking => winner = 0 /\ \A i \in DOMAIN reqs : ~reqs[i].cancelled

\* The failover budget of a model is what it has spent, and the credentials
\* of failover rows are booked as tried.
FailoverIn(s, m) == {i \in DOMAIN s : s[i].mtype = "credfo" /\ s[i].model = m}
FailoverRows(m) == FailoverIn(reqs, m)
BudgetInv ==
    /\ \A m \in Models :
          Cardinality(FailoverRows(m)) = rotations[m] /\ rotations[m] < Cardinality(CredsOf[m])
    /\ \A i \in DOMAIN reqs : reqs[i].mtype = "credfo" => reqs[i].resel \in tried

\* The latest row is at position k of the chain, and k rows, or k + 1 after an
\* idle spawn, were spawned for models.
Position(k) == Chain[k] = Latest.model /\ ModelAttempts \in {k, k + 1}
WalkInv ==
    /\ reqs[1].mtype = "main" /\ reqs[1].model = Chain[1]
    /\ \E k \in 1..Len(Chain) : Position(k)

IndInv ==
    /\ TypeOK /\ RowsInv /\ EngineInv /\ ScanInv /\ WinnerKept /\ NoOrphans
    /\ BudgetInv /\ WalkInv /\ SpawnsJustified

-----------------------------------------------------------------------------
(* Numbers, and the configuration.                                         *)

\* A nonempty set of numbers has a least element: the scan finds a first row.
LEMMA SmallestNat ==
  ASSUME NEW S \in SUBSET Nat, S # {}
  PROVE  \E i \in S : \A j \in S : i <= j
  <1> DEFINE R == OpToRel(<, Nat)
  <1>1. IsWellFoundedOn(R, Nat)  BY NatLessThanWellFounded
  <1> HIDE DEF R
  <1>2. PICK i \in S : \A j \in S : ~(<<j, i>> \in R)  BY <1>1, WFMin
  <1>3. \A j \in S : ~(j < i)  BY <1>2 DEF R, OpToRel
  <1>4. QED  BY <1>3

\* What the configuration of the race is known to satisfy.
LEMMA ConfigFacts ==
  ASSUME cfg \in Configs
  PROVE  /\ Len(Chain) \in Nat \ {0} /\ DOMAIN Chain = 1..Len(Chain)
         /\ \A k \in 1..Len(Chain) : Chain[k] \in Models
         /\ \A j, k \in 1..Len(Chain) : Chain[j] = Chain[k] => j = k
         /\ \A m \in Models :
               /\ CredsOf[m] # {} /\ IsFiniteSet(CredsOf[m]) /\ NoCred \notin CredsOf[m]
               /\ CredsOf[m] \subseteq AllCreds
               /\ Cardinality(CredsOf[m]) \in Nat \ {0}
  <1>1. /\ Chain \in Seq(STRING) /\ Len(Chain) > 0
        /\ \A j, k \in DOMAIN Chain : Chain[j] = Chain[k] => j = k
        /\ \A m \in Models :
              CredsOf[m] # {} /\ IsFiniteSet(CredsOf[m]) /\ NoCred \notin CredsOf[m]
    BY ConfigsAssumption DEF Chain, CredsOf, Models
  <1>2. DOMAIN Chain = 1..Len(Chain) /\ Len(Chain) \in Nat \ {0}
    BY <1>1
  <1>3. \A k \in 1..Len(Chain) : Chain[k] \in Models
    BY <1>2 DEF Models, ModelsOf, Chain
  <1>4. \A m \in Models : CredsOf[m] \subseteq AllCreds
    BY DEF AllCreds, Models, CredsOf
  <1>5. ASSUME NEW m \in Models
        PROVE  Cardinality(CredsOf[m]) \in Nat \ {0}
    BY <1>1, FS_EmptySet, FS_CardinalityType
  <1>6. QED  BY <1>1, <1>2, <1>3, <1>4, <1>5

-----------------------------------------------------------------------------
(* Rows that go on with their life.                                        *)

\* What any step may do to a row it does not append.
Evolves(r, s) ==
    /\ s.mtype = r.mtype /\ s.model = r.model /\ s.resel = r.resel
    /\ IsDone(r) => s.status = r.status /\ s.err = r.err /\ s.cred = r.cred
    /\ s.err # "none" => s.status = "failed"
    /\ s.cred = r.cred \/ (r.resel \in CredsOf[r.model] => s.cred = r.resel)
    /\ r.cancelled => s.cancelled

RowsEvolve ==
    /\ reqs' \in Seq(Row) /\ Len(reqs') = Len(reqs)
    /\ \A i \in DOMAIN reqs : Evolves(reqs[i], reqs'[i])

\* A row that is left alone evolves.
LEMMA SameEvolves ==
  ASSUME RowsInv, NEW i \in DOMAIN reqs
  PROVE  Evolves(reqs[i], reqs[i])
  BY DEF Evolves, RowsInv

\* Writing one row.
LEMMA SetRowEvolves ==
  ASSUME TypeOK, RowsInv, NEW i \in DOMAIN reqs, NEW r \in Row,
         Evolves(reqs[i], r), SetRow(i, r)
  PROVE  RowsEvolve /\ reqs'[i] = r /\ \A j \in DOMAIN reqs \ {i} : reqs'[j] = reqs[j]
  <1>1. reqs' \in Seq(Row) /\ Len(reqs') = Len(reqs)
    BY DEF TypeOK, SetRow
  <1>2. \A j \in DOMAIN reqs : reqs'[j] = IF j = i THEN r ELSE reqs[j]
    BY DEF TypeOK, SetRow
  <1>3. QED  BY <1>1, <1>2, SameEvolves DEF RowsEvolve

\* A row with another byte count is a row.
LEMMA RowBytes ==
  ASSUME NEW r \in Row, NEW n \in 0..MaxBytes
  PROVE  [r EXCEPT !.bytes = n] \in Row
  BY DEF Row

\* Cancel spares the fields the other invariants read.
LEMMA CancelEvolves ==
  ASSUME TypeOK, RowsInv, NEW i \in DOMAIN reqs
  PROVE  Cancel(reqs[i]) \in Row /\ Evolves(reqs[i], Cancel(reqs[i])) /\ Cancel(reqs[i]).cancelled
  <1> DEFINE r == reqs[i]
  <1>1. r \in Row  BY DEF TypeOK
  <1>2. CASE r.cancelled  BY <1>1, <1>2, SameEvolves DEF Cancel
  <1>3. CASE ~r.cancelled
    <2>1. Cancel(r) = [r EXCEPT !.cancelled = TRUE, !.cut = (r.status # "pending"), !.bytes = 0]
      BY <1>3 DEF Cancel
    <2>2. Cancel(r) \in Row
      <3>1. [r EXCEPT !.cancelled = TRUE] \in Row  BY <1>1 DEF Row
      <3>2. [r EXCEPT !.cancelled = TRUE, !.cut = (r.status # "pending")] \in Row
        BY <3>1 DEF Row
      <3>3. 0 \in 0..MaxBytes  BY BoundsAssumption
      <3>4. QED  BY <2>1, <3>2, <3>3, RowBytes
    <2>3. /\ Cancel(r).mtype = r.mtype /\ Cancel(r).model = r.model /\ Cancel(r).resel = r.resel
          /\ Cancel(r).status = r.status /\ Cancel(r).err = r.err /\ Cancel(r).cred = r.cred
          /\ Cancel(r).cancelled = TRUE
      BY <1>1, <2>1 DEF Row
    <2>4. Evolves(r, Cancel(r))  BY <2>3 DEF Evolves, RowsInv
    <2>5. QED  BY <2>2, <2>3, <2>4
  <1>4. QED  BY <1>2, <1>3

\* cancelAllExcept.
LEMMA CancelAllEvolves ==
  ASSUME TypeOK, RowsInv, NEW w, reqs' = CancelAllExcept(w)
  PROVE  /\ RowsEvolve
         /\ \A i \in DOMAIN reqs : i # w => reqs'[i].cancelled
         /\ w \in DOMAIN reqs => reqs'[w] = reqs[w]
  <1>1. DOMAIN reqs = 1..Len(reqs) /\ Len(reqs) \in Nat  BY DEF TypeOK
  <1>2. \A i \in DOMAIN reqs : reqs'[i] = IF i = w THEN reqs[i] ELSE Cancel(reqs[i])
    BY DEF CancelAllExcept
  <1>3. \A i \in DOMAIN reqs : reqs'[i] \in Row
    BY <1>2, CancelEvolves DEF TypeOK
  <1>4. reqs' \in Seq(Row) /\ Len(reqs') = Len(reqs)
    <2>1. reqs' = [i \in 1..Len(reqs) |-> reqs'[i]]
      BY <1>1, <1>2 DEF CancelAllExcept
    <2>2. QED  BY <1>1, <1>3, <2>1
  <1>5. \A i \in DOMAIN reqs : Evolves(reqs[i], reqs'[i])
    BY <1>2, SameEvolves, CancelEvolves
  <1>6. QED  BY <1>2, <1>4, <1>5, CancelEvolves DEF RowsEvolve

\* Rows that evolve keep what the rows before a spawn justified, the budgets
\* and the walk along the chain.
LEMMA EvolveKeeps ==
  ASSUME IndInv, RowsEvolve, UNCHANGED <<cfg, tried, rotations>>
  PROVE  RowsInv' /\ BudgetInv' /\ WalkInv' /\ SpawnsJustified'
  <1>1. /\ DOMAIN reqs = 1..Len(reqs) /\ DOMAIN reqs' = DOMAIN reqs
        /\ Len(reqs) \in Nat \ {0} /\ Len(reqs') = Len(reqs)
    BY DEF IndInv, TypeOK, RowsEvolve
  <1>2. \A i \in DOMAIN reqs :
          /\ reqs'[i].mtype = reqs[i].mtype /\ reqs'[i].model = reqs[i].model
          /\ reqs'[i].resel = reqs[i].resel
    BY DEF RowsEvolve, Evolves
  <1>3. RowsInv'  BY <1>1 DEF RowsInv, RowsEvolve, Evolves
  <1>4. /\ Chain' = Chain /\ CredsOf' = CredsOf /\ Models' = Models
    BY DEF Chain, CredsOf, Models
  <1>5. \A m : FailoverRows(m)' = FailoverRows(m)
    BY <1>1, <1>2 DEF FailoverRows, FailoverIn
  <1>6. BudgetInv'
    BY <1>1, <1>2, <1>4, <1>5 DEF IndInv, BudgetInv
  <1>7. ModelAttempts' = ModelAttempts
    <2>1. {i \in DOMAIN reqs' : reqs'[i].mtype # "credfo"} = {i \in DOMAIN reqs : reqs[i].mtype # "credfo"}
      BY <1>1, <1>2
    <2>2. QED  BY <2>1 DEF ModelAttempts
  <1>8. Latest'.model = Latest.model
    BY <1>1, <1>2 DEF Latest
  <1>9. WalkInv'
    BY <1>1, <1>2, <1>4, <1>7, <1>8 DEF IndInv, WalkInv, Position
  <1>10. NoReselectTwice'
    BY <1>1, <1>2 DEF IndInv, SpawnsJustified, NoReselectTwice
  <1>11. FailoverKeepsModel'
    <2> SUFFICES ASSUME NEW i \in DOMAIN reqs, reqs[i].mtype = "credfo"
                 PROVE  /\ i > 1 /\ reqs'[i - 1].err = "cred" /\ reqs'[i].model = reqs'[i - 1].model
                        /\ reqs'[i].resel \in CredsOf[reqs'[i].model] \ {reqs'[i - 1].cred}
                        /\ reqs'[i].cred \in {NoCred, reqs'[i].resel}
      BY <1>1, <1>2, <1>4 DEF FailoverKeepsModel
    <2>1. /\ i > 1 /\ reqs[i - 1].err = "cred" /\ reqs[i].model = reqs[i - 1].model
          /\ reqs[i].resel \in CredsOf[reqs[i].model] \ {reqs[i - 1].cred}
          /\ reqs[i].cred \in {NoCred, reqs[i].resel}
      BY DEF IndInv, SpawnsJustified, FailoverKeepsModel
    <2>2. i - 1 \in DOMAIN reqs  BY <1>1, <2>1
    <2>3. IsDone(reqs[i - 1])  BY <2>1, <2>2 DEF IndInv, RowsInv, IsDone
    <2>4. reqs'[i - 1].err = "cred" /\ reqs'[i - 1].cred = reqs[i - 1].cred
      BY <2>1, <2>2, <2>3 DEF RowsEvolve, Evolves
    <2>5. reqs'[i].cred \in {NoCred, reqs[i].resel}
      BY <2>1 DEF RowsEvolve, Evolves
    <2>6. QED  BY <1>2, <2>1, <2>2, <2>4, <2>5
  <1>12. ChainInOrder'
    <2> SUFFICES ASSUME NEW i \in DOMAIN reqs, reqs[i].mtype = "fallback"
                 PROVE  \E k \in 2..Len(Chain) :
                           /\ Chain[k] = reqs'[i].model
                           /\ \E j \in 1..(i - 1) : reqs'[j].model = Chain[k - 1]
      BY <1>1, <1>2, <1>4 DEF ChainInOrder
    <2>1. PICK k \in 2..Len(Chain) : /\ Chain[k] = reqs[i].model
                                     /\ \E j \in 1..(i - 1) : reqs[j].model = Chain[k - 1]
      BY DEF IndInv, SpawnsJustified, ChainInOrder
    <2>2. PICK j \in 1..(i - 1) : reqs[j].model = Chain[k - 1]  BY <2>1
    <2>3. j \in DOMAIN reqs  BY <1>1
    <2>4. QED  BY <1>2, <2>1, <2>2, <2>3
  <1>13. QED  BY <1>3, <1>6, <1>9, <1>10, <1>11, <1>12 DEF SpawnsJustified

-----------------------------------------------------------------------------
(* The steps of an attempt.                                                *)

\* Single fields of a row.
LEMMA RowFields ==
  ASSUME NEW r \in Row
  PROVE  /\ \A s \in {"pending", "running", "streaming", "completed", "failed"} :
               [r EXCEPT !.status = s] \in Row
         /\ \A e \in {"none", "cred", "other"} : [r EXCEPT !.err = e] \in Row
         /\ \A c \in AllCreds \cup {NoCred} : [r EXCEPT !.cred = c] \in Row
  BY DEF Row

\* The engine's answers are credentials of the model, and so is what it binds.
LEMMA EngineAnswers ==
  ASSUME TypeOK, EngineInv, NEW m \in Models
  PROVE  /\ \A o \in GetOrSelect(m) : o.cred \in CredsOf[m] /\ o.bound \in CredsOf[m] \cup {NoCred}
         /\ \A x : \A o \in ExcludeAndReselect(m, x) :
               o.cred \in CredsOf[m] /\ o.bound \in CredsOf[m] \cup {NoCred}
  <1>1. bound[m] \in CredsOf[m] \cup {NoCred}  BY DEF EngineInv
  <1>2. NoCred \notin CredsOf[m]  BY ConfigFacts DEF TypeOK
  <1>3. ASSUME NEW o \in GetOrSelect(m)
        PROVE  o.cred \in CredsOf[m] /\ o.bound \in CredsOf[m] \cup {NoCred}
    BY <1>1, <1>2 DEF GetOrSelect, Healthy
  <1>4. ASSUME NEW x, NEW o \in ExcludeAndReselect(m, x)
        PROVE  o.cred \in CredsOf[m] /\ o.bound \in CredsOf[m] \cup {NoCred}
    BY <1>1, <1>2 DEF ExcludeAndReselect, Healthy
  <1>5. QED  BY <1>3, <1>4

AttemptStep(i) ==
    \/ Start(i) \/ Resolve(i) \/ MarkStreaming(i) \/ AddBytes(i)
    \/ MarkCompleted(i) \/ MarkFailed(i)

\* An attempt writes its own row, cancels nobody, and may bind.
LEMMA AttemptEvolves ==
  ASSUME IndInv, NEW i, AttemptStep(i)
  PROVE  /\ RowsEvolve
         /\ \A j \in DOMAIN reqs : reqs'[j].cancelled = reqs[j].cancelled
         /\ EngineInv' /\ bound' \in [Models -> AllCreds \cup {NoCred}]
         /\ UNCHANGED <<winner, streamCh, done, deadlineErr, budgetVars, mgrVars, cooling,
                        others, cfg, hdlVars>>
  <1> DEFINE r == reqs[i]
  <1>1. i \in DOMAIN reqs /\ r \in Row
    BY DEF AttemptStep, Start, Resolve, MarkStreaming, AddBytes, MarkCompleted, MarkFailed,
           Alive, IndInv, TypeOK
  <1>2. TypeOK /\ RowsInv /\ EngineInv /\ (r.err # "none" => r.status = "failed")
    BY <1>1 DEF IndInv, RowsInv
  <1>3. /\ UNCHANGED <<winner, streamCh, done, deadlineErr, budgetVars, mgrVars, cooling,
                       others, cfg, hdlVars>>
        /\ Resolve(i) \/ bound' = bound
    BY DEF AttemptStep, Start, Resolve, MarkStreaming, AddBytes, MarkCompleted, MarkFailed,
           engVars
  <1>4. Models' = Models /\ CredsOf' = CredsOf
    BY <1>3 DEF Models, CredsOf
  <1>5. ASSUME NEW s \in Row, Evolves(r, s), s.cancelled = r.cancelled, SetRow(i, s)
        PROVE  RowsEvolve /\ \A j \in DOMAIN reqs : reqs'[j].cancelled = reqs[j].cancelled
    BY <1>1, <1>2, <1>5, SetRowEvolves
  <1>6. ASSUME bound' = bound
        PROVE  EngineInv' /\ bound' \in [Models -> AllCreds \cup {NoCred}]
    BY <1>2, <1>4, <1>6 DEF EngineInv, TypeOK
  <1>7. CASE Start(i)
    <2> DEFINE s == [r EXCEPT !.status = "running"]
    <2>1. SetRow(i, s) /\ r.status = "pending" /\ bound' = bound  BY <1>7 DEF Start, Alive, engVars
    <2>2. s \in Row  BY <1>1, RowFields
    <2>3. Evolves(r, s) /\ s.cancelled = r.cancelled
      BY <1>1, <1>2, <2>1 DEF Evolves, IsDone, Row
    <2>4. QED  BY <1>3, <1>5, <1>6, <2>1, <2>2, <2>3
  <1>8. CASE Resolve(i)
    <2>1. /\ r.status = "running" /\ r.cred = NoCred /\ r.model \in Models
      BY <1>1, <1>8 DEF Resolve, Alive, Row
    <2>2. ASSUME NEW c \in CredsOf[r.model], r.resel \in CredsOf[r.model] => c = r.resel,
                 SetRow(i, [r EXCEPT !.cred = c])
          PROVE  RowsEvolve /\ \A j \in DOMAIN reqs : reqs'[j].cancelled = reqs[j].cancelled
      <3> DEFINE s == [r EXCEPT !.cred = c]
      <3>1. c \in AllCreds  BY <1>2, <2>1, ConfigFacts DEF TypeOK
      <3>2. s \in Row  BY <1>1, <3>1, RowFields
      <3>3. Evolves(r, s) /\ s.cancelled = r.cancelled
        BY <1>1, <1>2, <2>1, <2>2 DEF Evolves, IsDone, Row
      <3>4. QED  BY <1>5, <2>2, <3>2, <3>3
    <2>3. CASE r.resel \in CredsOf[r.model]
      BY <1>3, <1>6, <1>8, <2>2, <2>3 DEF Resolve
    <2>4. CASE r.resel \notin CredsOf[r.model]
      <3>1. PICK o \in GetOrSelect(r.model) :
              /\ SetRow(i, [r EXCEPT !.cred = o.cred])
              /\ bound' = [bound EXCEPT ![r.model] = o.bound]
        BY <1>8, <2>4 DEF Resolve
      <3>2. o.cred \in CredsOf[r.model] /\ o.bound \in CredsOf[r.model] \cup {NoCred}
        BY <1>2, <2>1, <3>1, EngineAnswers
      <3>3. CredsOf[r.model] \subseteq AllCreds  BY <1>2, <2>1, ConfigFacts DEF TypeOK
      <3>4. EngineInv' /\ bound' \in [Models -> AllCreds \cup {NoCred}]
        BY <1>2, <1>4, <2>1, <3>1, <3>2, <3>3 DEF EngineInv, TypeOK
      <3>5. QED  BY <1>3, <2>2, <2>4, <3>1, <3>2, <3>4
    <2>5. QED  BY <2>3, <2>4
  <1>9. CASE MarkStreaming(i)
    <2> DEFINE s == [r EXCEPT !.status = "streaming"]
    <2>1. SetRow(i, s) /\ r.status = "running" /\ bound' = bound
      BY <1>9 DEF MarkStreaming, Alive, engVars
    <2>2. s \in Row  BY <1>1, RowFields
    <2>3. Evolves(r, s) /\ s.cancelled = r.cancelled
      BY <1>1, <1>2, <2>1 DEF Evolves, IsDone, Row
    <2>4. QED  BY <1>3, <1>5, <1>6, <2>1, <2>2, <2>3
  <1>10. CASE AddBytes(i)
    <2> DEFINE s == [r EXCEPT !.bytes = r.bytes + 1]
    <2>1. /\ SetRow(i, s) /\ r.status = "streaming" /\ bound' = bound
          /\ r.bytes < MaxBytes
      BY <1>1, <1>10 DEF AddBytes, Alive, engVars
    <2>2. r.bytes + 1 \in 0..MaxBytes  BY <1>1, <2>1, BoundsAssumption DEF Row
    <2>3. s \in Row  BY <1>1, <2>2, RowBytes
    <2>4. Evolves(r, s) /\ s.cancelled = r.cancelled
      BY <1>1, <1>2, <2>1 DEF Evolves, IsDone, Row
    <2>5. QED  BY <1>3, <1>5, <1>6, <2>1, <2>3, <2>4
  <1>11. CASE MarkCompleted(i)
    <2> DEFINE n == IF r.cancelled \/ r.bytes > 0 THEN r.bytes ELSE 1
               s == [r EXCEPT !.status = "completed", !.bytes = n]
    <2>1. /\ SetRow(i, s) /\ r.status \in {"running", "streaming"} /\ bound' = bound
      BY <1>1, <1>11 DEF MarkCompleted, Alive, engVars
    <2>2. n \in 0..MaxBytes  BY <1>1, BoundsAssumption DEF Row
    <2>3. [r EXCEPT !.status = "completed"] \in Row  BY <1>1, RowFields
    <2>4. s \in Row  BY <2>2, <2>3, RowBytes
    <2>5. Evolves(r, s) /\ s.cancelled = r.cancelled
      BY <1>1, <1>2, <2>1 DEF Evolves, IsDone, Row
    <2>6. QED  BY <1>3, <1>5, <1>6, <2>1, <2>4, <2>5
  <1>12. CASE MarkFailed(i)
    <2>1. /\ r.status \in {"running", "streaming"} /\ bound' = bound
      BY <1>12 DEF MarkFailed, Alive, engVars
    <2>2. PICK class \in {"cred", "other"} :
            SetRow(i, [r EXCEPT !.status = "failed", !.err = class])
      BY <1>12 DEF MarkFailed
    <2> DEFINE s == [r EXCEPT !.status = "failed", !.err = class]
    <2>3. [r EXCEPT !.status = "failed"] \in Row  BY <1>1, RowFields
    <2>4. s \in Row  BY <2>3, RowFields
    <2>5. Evolves(r, s) /\ s.cancelled = r.cancelled
      BY <1>1, <1>2, <2>1 DEF Evolves, IsDone, Row
    <2>6. QED  BY <1>3, <1>5, <1>6, <2>1, <2>2, <2>4, <2>5
  <1>13. QED
    BY <1>7, <1>8, <1>9, <1>10, <1>11, <1>12 DEF AttemptStep

-----------------------------------------------------------------------------
(* Rows that manage() appends.                                             *)

ModelRowsIn(s) == {i \in DOMAIN s : s[i].mtype # "credfo"}

\* The two counts are of finite sets.
LEMMA CountsFinite ==
  ASSUME NEW s \in Seq(Row), NEW m
  PROVE  /\ IsFiniteSet(ModelRowsIn(s)) /\ Cardinality(ModelRowsIn(s)) \in Nat
         /\ IsFiniteSet(FailoverIn(s, m)) /\ Cardinality(FailoverIn(s, m)) \in Nat
  <1>1. IsFiniteSet(DOMAIN s)
    <2>1. DOMAIN s = 1..Len(s) /\ Len(s) \in Int  OBVIOUS
    <2>2. QED  BY <2>1, FS_Interval
  <1>2. ModelRowsIn(s) \in SUBSET DOMAIN s /\ FailoverIn(s, m) \in SUBSET DOMAIN s
    BY DEF ModelRowsIn, FailoverIn
  <1>3. QED  BY <1>1, <1>2, FS_Subset, FS_CardinalityType

\* Appending a row.
LEMMA AppendFacts ==
  ASSUME NEW s \in Seq(Row), NEW r \in Row
  PROVE  LET t == Append(s, r) IN
         /\ t \in Seq(Row) /\ Len(t) = Len(s) + 1 /\ DOMAIN t = DOMAIN s \cup {Len(s) + 1}
         /\ DOMAIN s = 1..Len(s) /\ Len(s) \in Nat
         /\ t[Len(s) + 1] = r /\ \A i \in DOMAIN s : t[i] = s[i]
         /\ Cardinality(ModelRowsIn(t))
               = Cardinality(ModelRowsIn(s)) + (IF r.mtype # "credfo" THEN 1 ELSE 0)
         /\ \A m : Cardinality(FailoverIn(t, m))
               = Cardinality(FailoverIn(s, m))
                 + (IF r.mtype = "credfo" /\ r.model = m THEN 1 ELSE 0)
  <1> DEFINE t == Append(s, r)
             n == Len(s) + 1
  <1>1. /\ t \in Seq(Row) /\ Len(t) = n /\ DOMAIN s = 1..Len(s) /\ Len(s) \in Nat
        /\ DOMAIN t = DOMAIN s \cup {n} /\ n \notin DOMAIN s
        /\ t[n] = r /\ \A i \in DOMAIN s : t[i] = s[i]
    OBVIOUS
  <1> HIDE DEF t
  <1>2. Cardinality(ModelRowsIn(t))
          = Cardinality(ModelRowsIn(s)) + (IF r.mtype # "credfo" THEN 1 ELSE 0)
    <2>1. n \notin ModelRowsIn(s)  BY <1>1 DEF ModelRowsIn
    <2>2. IsFiniteSet(ModelRowsIn(s)) /\ Cardinality(ModelRowsIn(s)) \in Nat  BY CountsFinite
    <2>3. CASE r.mtype # "credfo"
      <3>1. ModelRowsIn(t) = ModelRowsIn(s) \cup {n}  BY <1>1, <2>3 DEF ModelRowsIn
      <3>2. QED  BY <2>1, <2>2, <2>3, <3>1, FS_AddElement
    <2>4. CASE r.mtype = "credfo"
      <3>1. ModelRowsIn(t) = ModelRowsIn(s)  BY <1>1, <2>4 DEF ModelRowsIn
      <3>2. QED  BY <2>2, <2>4, <3>1
    <2>5. QED  BY <2>3, <2>4
  <1>3. ASSUME NEW m
        PROVE  Cardinality(FailoverIn(t, m))
                 = Cardinality(FailoverIn(s, m))
                   + (IF r.mtype = "credfo" /\ r.model = m THEN 1 ELSE 0)
    <2>1. n \notin FailoverIn(s, m)  BY <1>1 DEF FailoverIn
    <2>2. IsFiniteSet(FailoverIn(s, m)) /\ Cardinality(FailoverIn(s, m)) \in Nat
      BY CountsFinite
    <2>3. CASE r.mtype = "credfo" /\ r.model = m
      <3>1. FailoverIn(t, m) = FailoverIn(s, m) \cup {n}  BY <1>1, <2>3 DEF FailoverIn
      <3>2. QED  BY <2>1, <2>2, <2>3, <3>1, FS_AddElement
    <2>4. CASE ~(r.mtype = "credfo" /\ r.model = m)
      <3>1. FailoverIn(t, m) = FailoverIn(s, m)  BY <1>1, <2>4 DEF FailoverIn
      <3>2. QED  BY <2>2, <2>4, <3>1
    <2>5. QED  BY <2>3, <2>4
  <1>4. QED  BY <1>1, <1>2, <1>3 DEF t

\* A new row.
LEMMA NewRowType ==
  ASSUME NEW mtype \in {"main", "second", "fallback", "credfo"}, NEW m \in Models,
         NEW c \in AllCreds \cup {NoCred}
  PROVE  /\ NewRow(mtype, m, c) \in Row
         /\ NewRow(mtype, m, c).mtype = mtype /\ NewRow(mtype, m, c).model = m
         /\ NewRow(mtype, m, c).resel = c /\ NewRow(mtype, m, c).cred = NoCred
         /\ NewRow(mtype, m, c).err = "none" /\ ~NewRow(mtype, m, c).cancelled
  BY BoundsAssumption DEF NewRow, Row

\* The latest row.
LEMMA LatestFacts ==
  ASSUME TypeOK
  PROVE  /\ reqs \in Seq(Row) /\ Len(reqs) \in Nat \ {0} /\ DOMAIN reqs = 1..Len(reqs)
         /\ Len(reqs) \in DOMAIN reqs /\ 1 \in DOMAIN reqs
         /\ Latest = reqs[Len(reqs)] /\ Latest \in Row /\ Latest.model \in Models
  <1>1. /\ reqs \in Seq(Row) /\ Len(reqs) \in Nat \ {0} /\ DOMAIN reqs = 1..Len(reqs)
        /\ Len(reqs) \in DOMAIN reqs /\ 1 \in DOMAIN reqs
    BY DEF TypeOK
  <1>2. Latest = reqs[Len(reqs)] /\ Latest \in Row  BY <1>1 DEF Latest
  <1>3. Latest.model \in Models  BY <1>2 DEF Row
  <1>4. QED  BY <1>1, <1>2, <1>3

\* A row appended for a reason keeps every row justified.
Justified(row) ==
    /\ row.err = "none" /\ row.cred = NoCred
    /\ row.mtype = "credfo" =>
          /\ Latest.err = "cred" /\ row.model = Latest.model /\ row.resel \notin tried
          /\ row.resel \in CredsOf[row.model] \ {Latest.cred}
    /\ row.mtype = "fallback" =>
          \E k \in 2..Len(Chain) : Chain[k] = row.model /\ Latest.model = Chain[k - 1]

\* A justified row at the end of the list keeps the rows justified.
LEMMA AppendJustified ==
  ASSUME IndInv, NEW row \in Row, Justified(row), reqs' = Append(reqs, row), UNCHANGED cfg
  PROVE  /\ RowsInv' /\ SpawnsJustified'
         /\ reqs' \in Seq(Row) /\ Len(reqs') = Len(reqs) + 1
         /\ DOMAIN reqs' = DOMAIN reqs \cup {Len(reqs) + 1}
         /\ reqs'[Len(reqs) + 1] = row /\ \A i \in DOMAIN reqs : reqs'[i] = reqs[i]
         /\ Latest' = row
  <1> DEFINE n == Len(reqs)
  <1>1. /\ TypeOK /\ reqs \in Seq(Row) /\ n \in Nat \ {0} /\ DOMAIN reqs = 1..n /\ n \in DOMAIN reqs
        /\ Latest = reqs[n]
    BY LatestFacts DEF IndInv
  <1>2. Chain' = Chain /\ CredsOf' = CredsOf  BY DEF Chain, CredsOf
  <1>3. /\ reqs' \in Seq(Row) /\ Len(reqs') = n + 1 /\ DOMAIN reqs' = DOMAIN reqs \cup {n + 1}
        /\ reqs'[n + 1] = row /\ \A i \in DOMAIN reqs : reqs'[i] = reqs[i]
    BY <1>1, AppendFacts
  <1>4. Latest' = row  BY <1>3 DEF Latest
  <1>5. RowsInv'  BY <1>3 DEF IndInv, RowsInv, Justified
  <1>6. NoReselectTwice'
    <2>1. row.mtype = "credfo" => \A i \in DOMAIN reqs : reqs[i].mtype = "credfo" => reqs[i].resel # row.resel
      BY DEF IndInv, BudgetInv, Justified
    <2>2. QED  BY <1>3, <2>1 DEF IndInv, SpawnsJustified, NoReselectTwice
  <1>7. FailoverKeepsModel'
    <2> SUFFICES ASSUME NEW i \in DOMAIN reqs', reqs'[i].mtype = "credfo"
                 PROVE  /\ i > 1 /\ reqs'[i - 1].err = "cred" /\ reqs'[i].model = reqs'[i - 1].model
                        /\ reqs'[i].resel \in CredsOf[reqs'[i].model] \ {reqs'[i - 1].cred}
                        /\ reqs'[i].cred \in {NoCred, reqs'[i].resel}
      BY <1>2 DEF FailoverKeepsModel
    <2>1. CASE i \in DOMAIN reqs
      <3>1. /\ i > 1 /\ reqs[i - 1].err = "cred" /\ reqs[i].model = reqs[i - 1].model
            /\ reqs[i].resel \in CredsOf[reqs[i].model] \ {reqs[i - 1].cred}
            /\ reqs[i].cred \in {NoCred, reqs[i].resel}
        BY <1>3, <2>1 DEF IndInv, SpawnsJustified, FailoverKeepsModel
      <3>2. i - 1 \in DOMAIN reqs  BY <1>1, <2>1, <3>1
      <3>3. QED  BY <1>3, <2>1, <3>1, <3>2
    <2>2. CASE i = n + 1
      <3>1. reqs'[i] = row /\ reqs'[i - 1] = Latest /\ i > 1  BY <1>1, <1>3, <2>2
      <3>2. QED  BY <3>1 DEF Justified
    <2>3. QED  BY <1>3, <2>1, <2>2
  <1>8. ChainInOrder'
    <2> SUFFICES ASSUME NEW i \in DOMAIN reqs', reqs'[i].mtype = "fallback"
                 PROVE  \E k \in 2..Len(Chain) :
                           /\ Chain[k] = reqs'[i].model
                           /\ \E j \in 1..(i - 1) : reqs'[j].model = Chain[k - 1]
      BY <1>2 DEF ChainInOrder
    <2>1. CASE i \in DOMAIN reqs
      <3>1. PICK k \in 2..Len(Chain) : /\ Chain[k] = reqs[i].model
                                       /\ \E j \in 1..(i - 1) : reqs[j].model = Chain[k - 1]
        BY <1>3, <2>1 DEF IndInv, SpawnsJustified, ChainInOrder
      <3>2. PICK j \in 1..(i - 1) : reqs[j].model = Chain[k - 1]  BY <3>1
      <3>3. j \in DOMAIN reqs  BY <1>1, <2>1
      <3>4. QED  BY <1>3, <2>1, <3>1, <3>2, <3>3
    <2>2. CASE i = n + 1
      <3>1. PICK k \in 2..Len(Chain) : Chain[k] = row.model /\ Latest.model = Chain[k - 1]
        BY <1>3, <2>2 DEF Justified
      <3>2. n \in 1..(i - 1) /\ reqs'[n].model = Chain[k - 1]  BY <1>1, <1>3, <2>2, <3>1
      <3>3. QED  BY <1>3, <2>2, <3>1, <3>2
    <2>3. QED  BY <1>3, <2>1, <2>2
  <1>9. QED  BY <1>3, <1>4, <1>5, <1>6, <1>7, <1>8 DEF SpawnsJustified

\* What the other invariants need to know of a spawn.
Spawned ==
    /\ RowsInv' /\ BudgetInv' /\ WalkInv' /\ SpawnsJustified'
    /\ reqs' \in Seq(Row) /\ Len(reqs') >= Len(reqs)
    /\ \A i \in DOMAIN reqs' : reqs'[i].cancelled => i \in DOMAIN reqs /\ reqs[i].cancelled
    /\ tried' \subseteq AllCreds /\ rotations' \in [Models -> Nat] /\ soonestSpent' \subseteq Models

\* The failover row: its budget is spent and its credential booked.
LEMMA FailoverSpawned ==
  ASSUME IndInv, CredFailoverEligible, UNCHANGED cfg,
         NEW o, o.cred \in CredsOf[Latest.model], UsablePlan(o), SpawnCredFailover(o)
  PROVE  Spawned
  <1> DEFINE n == Len(reqs)
             m == Latest.model
             row == NewRow("credfo", m, o.cred)
  <1>1. /\ TypeOK /\ reqs \in Seq(Row) /\ n \in Nat \ {0} /\ 1 \in DOMAIN reqs
        /\ m \in Models /\ cfg \in Configs
    BY LatestFacts DEF IndInv, TypeOK
  <1>2. o.cred \in AllCreds  BY <1>1, ConfigFacts
  <1>3. /\ row \in Row /\ row.mtype = "credfo" /\ row.model = m /\ row.resel = o.cred
        /\ row.cred = NoCred /\ row.err = "none" /\ ~row.cancelled
    BY <1>1, <1>2, NewRowType
  <1>4. Chain' = Chain /\ CredsOf' = CredsOf /\ Models' = Models  BY DEF Chain, CredsOf, Models
  <1>5. /\ reqs' = Append(reqs, row) /\ tried' = tried \cup {o.cred}
        /\ rotations' = [rotations EXCEPT ![m] = rotations[m] + 1]
        /\ soonestSpent' \subseteq soonestSpent \cup {m}
    BY DEF SpawnCredFailover
  <1> HIDE DEF row
  <1>6. Justified(row)  BY <1>3 DEF Justified, UsablePlan, CredFailoverEligible
  <1>7. /\ RowsInv' /\ SpawnsJustified'
        /\ reqs' \in Seq(Row) /\ Len(reqs') = n + 1 /\ DOMAIN reqs' = DOMAIN reqs \cup {n + 1}
        /\ reqs'[n + 1] = row /\ \A i \in DOMAIN reqs : reqs'[i] = reqs[i]
        /\ Latest' = row
    BY <1>3, <1>5, <1>6, AppendJustified
  <1>8. /\ Cardinality(ModelRowsIn(reqs')) = Cardinality(ModelRowsIn(reqs))
        /\ \A x : Cardinality(FailoverIn(reqs', x))
                    = Cardinality(FailoverIn(reqs, x)) + (IF x = m THEN 1 ELSE 0)
    <2>1. Cardinality(ModelRowsIn(reqs)) \in Nat  BY <1>1, CountsFinite
    <2>2. QED  BY <1>1, <1>3, <1>5, <2>1, AppendFacts
  <1>9. /\ tried' \subseteq AllCreds /\ rotations' \in [Models -> Nat] /\ soonestSpent' \subseteq Models
    BY <1>1, <1>2, <1>5 DEF TypeOK
  <1>10. BudgetInv'
    <2>1. ASSUME NEW x \in Models
          PROVE  Cardinality(FailoverIn(reqs', x)) = rotations'[x] /\ rotations'[x] < Cardinality(CredsOf[x])
      <3>1. /\ Cardinality(FailoverIn(reqs, x)) = rotations[x] /\ rotations[x] < Cardinality(CredsOf[x])
            /\ rotations[x] \in Nat
        BY <1>1 DEF IndInv, BudgetInv, FailoverRows, TypeOK
      <3>2. rotations[m] < Cardinality(CredsOf[m]) - 1  BY DEF CredFailoverEligible
      <3>3. Cardinality(CredsOf[x]) \in Nat  BY <1>1, ConfigFacts
      <3>4. rotations'[x] = rotations[x] + (IF x = m THEN 1 ELSE 0)
        BY <1>1, <1>5, <3>1 DEF TypeOK
      <3>5. QED  BY <1>8, <3>1, <3>2, <3>3, <3>4
    <2>2. \A i \in DOMAIN reqs' : reqs'[i].mtype = "credfo" => reqs'[i].resel \in tried'
      BY <1>3, <1>5, <1>7 DEF IndInv, BudgetInv
    <2>3. QED  BY <1>4, <2>1, <2>2 DEF BudgetInv, FailoverRows
  <1>11. WalkInv'
    <2>1. PICK k \in 1..Len(Chain) : Position(k)  BY DEF IndInv, WalkInv
    <2>2. ModelAttempts' = ModelAttempts  BY <1>8 DEF ModelAttempts, ModelRowsIn
    <2>3. Latest'.model = m  BY <1>3, <1>7
    <2>4. QED  BY <1>1, <1>4, <1>7, <2>1, <2>2, <2>3 DEF IndInv, WalkInv, Position
  <1>12. QED  BY <1>1, <1>3, <1>7, <1>9, <1>10, <1>11 DEF Spawned

\* The next model of the chain: one position further, one row more.
LEMMA FallbackSpawned ==
  ASSUME IndInv, UNCHANGED <<cfg, budgetVars>>, NEW m \in AdvanceTarget(Latest.model),
         reqs' = Append(reqs, NewRow("fallback", m, NoCred))
  PROVE  Spawned
  <1> DEFINE n == Len(reqs)
             row == NewRow("fallback", m, NoCred)
  <1>1. /\ TypeOK /\ reqs \in Seq(Row) /\ n \in Nat \ {0} /\ 1 \in DOMAIN reqs /\ cfg \in Configs
    BY LatestFacts DEF IndInv, TypeOK
  <1>2. /\ Len(Chain) \in Nat \ {0} /\ \A k \in 1..Len(Chain) : Chain[k] \in Models
        /\ \A j, k \in 1..Len(Chain) : Chain[j] = Chain[k] => j = k
    BY <1>1, ConfigFacts
  <1>3. PICK k \in 2..Len(Chain) : Chain[k] = m /\ Chain[k - 1] = Latest.model
    BY DEF AdvanceTarget
  <1>4. /\ row \in Row /\ row.mtype = "fallback" /\ row.model = m
        /\ row.cred = NoCred /\ row.err = "none" /\ ~row.cancelled
    BY <1>2, <1>3, NewRowType
  <1>5. Chain' = Chain /\ CredsOf' = CredsOf /\ Models' = Models  BY DEF Chain, CredsOf, Models
  <1> HIDE DEF row
  <1>6. Justified(row)  BY <1>3, <1>4 DEF Justified
  <1>7. /\ RowsInv' /\ SpawnsJustified'
        /\ reqs' \in Seq(Row) /\ Len(reqs') = n + 1 /\ DOMAIN reqs' = DOMAIN reqs \cup {n + 1}
        /\ reqs'[n + 1] = row /\ \A i \in DOMAIN reqs : reqs'[i] = reqs[i]
        /\ Latest' = row
    BY <1>4, <1>6, AppendJustified DEF row
  <1>8. /\ Cardinality(ModelRowsIn(reqs')) = Cardinality(ModelRowsIn(reqs)) + 1
        /\ \A x : Cardinality(FailoverIn(reqs', x)) = Cardinality(FailoverIn(reqs, x))
    <2>1. \A x : Cardinality(FailoverIn(reqs, x)) \in Nat  BY <1>1, CountsFinite
    <2>2. reqs' = Append(reqs, row)  BY DEF row
    <2>3. QED  BY <1>1, <1>4, <2>1, <2>2, AppendFacts
  <1>9. BudgetInv'
    <2>1. /\ UNCHANGED <<tried, rotations>>  BY DEF budgetVars
    <2>2. QED  BY <1>4, <1>5, <1>7, <1>8, <2>1 DEF IndInv, BudgetInv, FailoverRows
  <1>10. WalkInv'
    <2>1. PICK j \in 1..Len(Chain) : Position(j)  BY DEF IndInv, WalkInv
    <2>2. k = j + 1 /\ j \in Nat  BY <1>2, <1>3, <2>1 DEF Position
    <2>3. ModelAttempts' = ModelAttempts + 1  BY <1>8 DEF ModelAttempts, ModelRowsIn
    <2>4. Latest'.model = Chain[k]  BY <1>3, <1>4, <1>7
    <2>5. ModelAttempts' \in {k, k + 1}  BY <2>1, <2>2, <2>3 DEF Position
    <2>6. Position(k)'  BY <1>5, <2>4, <2>5 DEF Position
    <2>7. k \in 1..Len(Chain)'  BY <1>2, <1>5
    <2>8. QED  BY <1>1, <1>5, <1>7, <2>6, <2>7 DEF IndInv, WalkInv
  <1>11. QED  BY <1>1, <1>4, <1>7, <1>9, <1>10 DEF Spawned, TypeOK, budgetVars

\* No row at all.
LEMMA NothingSpawned ==
  ASSUME IndInv, UNCHANGED <<cfg, reqs, budgetVars>>
  PROVE  Spawned
  <1>1. TypeOK /\ RowsInv  BY DEF IndInv
  <1>2. RowsEvolve  BY <1>1, SameEvolves DEF RowsEvolve, TypeOK
  <1>3. RowsInv' /\ BudgetInv' /\ WalkInv' /\ SpawnsJustified'
    BY <1>2, EvolveKeeps DEF budgetVars
  <1>4. Len(reqs) \in Nat  BY <1>1 DEF TypeOK
  <1>5. QED  BY <1>1, <1>3, <1>4 DEF Spawned, TypeOK, budgetVars

\* The idle spawn: from the main row alone to the main row, a second one and
\* a fallback, or to nothing more when the chain has one model.
LEMMA IdleSpawned ==
  ASSUME IndInv, UNCHANGED <<cfg, budgetVars>>, Len(reqs) = 1, reqs' = IdleSpawn
  PROVE  Spawned
  <1> DEFINE second == NewRow("second", Chain[1], NoCred)
             next == NewRow("fallback", Chain[2], NoCred)
             two == Append(reqs, second)
  <1>1. /\ TypeOK /\ reqs \in Seq(Row) /\ DOMAIN reqs = {1} /\ cfg \in Configs
    BY LatestFacts DEF IndInv, TypeOK
  <1>2. Len(Chain) \in Nat \ {0} /\ \A k \in 1..Len(Chain) : Chain[k] \in Models
    BY <1>1, ConfigFacts
  <1>3. CASE Len(Chain) = 1
    <2>1. reqs' = reqs  BY <1>3 DEF IdleSpawn
    <2>2. QED  BY <2>1, NothingSpawned
  <1>4. CASE Len(Chain) # 1
    <2>1. Len(Chain) > 1 /\ Chain[1] \in Models /\ Chain[2] \in Models /\ 2 \in 2..Len(Chain)
      BY <1>2, <1>4
    <2>2. reqs' = Append(two, next)  BY <2>1 DEF IdleSpawn
    <2>3. /\ second \in Row /\ second.mtype = "second" /\ second.model = Chain[1]
          /\ second.err = "none" /\ ~second.cancelled
          /\ next \in Row /\ next.mtype = "fallback" /\ next.model = Chain[2]
          /\ next.err = "none" /\ ~next.cancelled
      BY <2>1, NewRowType
    <2> HIDE DEF second, next
    <2>4. /\ two \in Seq(Row) /\ Len(two) = 2 /\ DOMAIN two = {1, 2}
          /\ two[1] = reqs[1] /\ two[2] = second
          /\ Cardinality(ModelRowsIn(two)) = Cardinality(ModelRowsIn(reqs)) + 1
          /\ \A x : Cardinality(FailoverIn(two, x)) = Cardinality(FailoverIn(reqs, x))
      <3>1. \A x : Cardinality(FailoverIn(reqs, x)) \in Nat  BY <1>1, CountsFinite
      <3>2. QED  BY <1>1, <2>3, <3>1, AppendFacts
    <2> HIDE DEF two
    <2>5. /\ reqs' \in Seq(Row) /\ Len(reqs') = 3 /\ DOMAIN reqs' = {1, 2, 3}
          /\ reqs'[1] = reqs[1] /\ reqs'[2] = second /\ reqs'[3] = next
          /\ Cardinality(ModelRowsIn(reqs')) = Cardinality(ModelRowsIn(reqs)) + 2
          /\ \A x : Cardinality(FailoverIn(reqs', x)) = Cardinality(FailoverIn(reqs, x))
      <3>1. \A x : Cardinality(FailoverIn(two, x)) \in Nat  BY <2>4, CountsFinite
      <3>2. Cardinality(ModelRowsIn(reqs)) \in Nat  BY <1>1, CountsFinite
      <3>3. QED  BY <2>2, <2>3, <2>4, <3>1, <3>2, AppendFacts
    <2>6. Chain' = Chain /\ CredsOf' = CredsOf /\ Models' = Models
      BY DEF Chain, CredsOf, Models
    <2>7. reqs[1].mtype = "main" /\ reqs[1].model = Chain[1]  BY DEF IndInv, WalkInv
    <2>8. RowsInv'  BY <1>1, <2>3, <2>5 DEF IndInv, RowsInv
    <2>9. BudgetInv'
      <3>1. UNCHANGED <<tried, rotations>>  BY DEF budgetVars
      <3>2. QED  BY <2>3, <2>5, <2>6, <2>7, <3>1 DEF IndInv, BudgetInv, FailoverRows
    <2>10. WalkInv'
      <3>1. ModelRowsIn(reqs) = {1}  BY <1>1, <2>7 DEF ModelRowsIn
      <3>2. Cardinality(ModelRowsIn(reqs)) = 1  BY <3>1, FS_Singleton
      <3>3. ModelAttempts' = 3  BY <2>5, <3>2 DEF ModelAttempts, ModelRowsIn
      <3>4. Latest'.model = Chain[2]  BY <2>3, <2>5 DEF Latest
      <3>5. Position(2)'  BY <2>6, <3>3, <3>4 DEF Position
      <3>6. 2 \in 1..Len(Chain)'  BY <1>2, <2>1, <2>6
      <3>7. QED  BY <2>5, <2>6, <2>7, <3>5, <3>6 DEF WalkInv
    <2>11. NoReselectTwice' /\ FailoverKeepsModel'
      BY <2>3, <2>5, <2>7 DEF NoReselectTwice, FailoverKeepsModel
    <2>12. ChainInOrder'
      <3>1. Chain[2] = reqs'[3].model /\ 1 \in 1..(3 - 1) /\ reqs'[1].model = Chain[2 - 1]
        BY <2>3, <2>5, <2>7
      <3>2. \E k \in 2..Len(Chain) :
              Chain[k] = reqs'[3].model /\ \E j \in 1..(3 - 1) : reqs'[j].model = Chain[k - 1]
        BY <2>1, <3>1
      <3>3. QED  BY <2>3, <2>5, <2>6, <2>7, <3>2 DEF ChainInOrder
    <2>13. \A i \in DOMAIN reqs' : reqs'[i].cancelled => i \in DOMAIN reqs /\ reqs[i].cancelled
      BY <1>1, <2>3, <2>5
    <2>14. QED
      BY <1>1, <2>5, <2>8, <2>9, <2>10, <2>11, <2>12, <2>13
      DEF Spawned, SpawnsJustified, TypeOK, budgetVars
  <1>5. QED  BY <1>3, <1>4

-----------------------------------------------------------------------------
(* The inductive step.                                                     *)

\* The configuration never changes, and with it the types.
LEMMA SameConfig ==
  ASSUME UNCHANGED cfg
  PROVE  Row' = Row /\ Models' = Models /\ CredsOf' = CredsOf /\ Chain' = Chain
  BY DEF Row, Models, CredsOf, Chain

\* The engine's variables, when a step leaves them alone.
LEMMA EngineSame ==
  ASSUME EngineInv, UNCHANGED <<cfg, bound>>
  PROVE  EngineInv'
  BY DEF EngineInv, Models, CredsOf

\* A step that leaves the rows, the engine and the budgets alone.
LEMMA RowsSame ==
  ASSUME IndInv, UNCHANGED <<cfg, reqs, budgetVars, bound>>
  PROVE  RowsInv' /\ EngineInv' /\ BudgetInv' /\ WalkInv' /\ SpawnsJustified'
  BY NothingSpawned, EngineSame DEF IndInv, Spawned

\* A step of manage() that cancels everybody but w and exits.
LEMMA CancelAndExit ==
  ASSUME IndInv, NEW w \in 0..Len(reqs), reqs' = CancelAllExcept(w), mpc' = "exit",
         UNCHANGED <<cfg, budgetVars, bound, cooling, others, mAttempts, hdlVars>>,
         winner' = w, w # 0 /\ hpc # "ended" => ~reqs[w].cancelled,
         hpc = "relaying" => w # 0,
         streamCh' \in BOOLEAN, done' \in BOOLEAN, deadlineErr' \in BOOLEAN
  PROVE  IndInv'
  <1>1. TypeOK /\ RowsInv /\ EngineInv  BY DEF IndInv
  <1>2. /\ RowsEvolve /\ \A i \in DOMAIN reqs : i # w => reqs'[i].cancelled
        /\ w \in DOMAIN reqs => reqs'[w] = reqs[w]
    BY <1>1, CancelAllEvolves
  <1>3. RowsInv' /\ BudgetInv' /\ WalkInv' /\ SpawnsJustified'
    BY <1>2, EvolveKeeps DEF budgetVars
  <1>4. DOMAIN reqs' = DOMAIN reqs /\ DOMAIN reqs = 1..Len(reqs) /\ Len(reqs) \in Nat
    BY <1>1, <1>2 DEF TypeOK, RowsEvolve
  <1>5. TypeOK'
    BY <1>1, <1>2, SameConfig DEF TypeOK, RowsEvolve, budgetVars, hdlVars
  <1>6. ScanInv'  BY DEF ScanInv, Picking
  <1>7. WinnerKept'  BY <1>2, <1>4 DEF WinnerKept, hdlVars
  <1>8. NoOrphans'  BY <1>2, <1>4 DEF NoOrphans
  <1>9. QED  BY <1>1, <1>3, <1>5, <1>6, <1>7, <1>8, EngineSame DEF IndInv

\* manage() writes no row and stays where it may pick, or stops on rows that
\* all failed.
LEMMA ManageQuiet ==
  ASSUME IndInv, UNCHANGED <<reqs, winner, budgetVars, engVars, hdlVars>>,
         mpc \in Picking,
         \/ mpc' \in Picking
         \/ mpc' = "exit" /\ \A i \in DOMAIN reqs : Failed(reqs[i]),
         mAttempts' \in Nat, streamCh' \in BOOLEAN, done' \in BOOLEAN, deadlineErr' \in BOOLEAN
  PROVE  IndInv'
  <1>1. RowsInv' /\ EngineInv' /\ BudgetInv' /\ WalkInv' /\ SpawnsJustified'
    BY RowsSame DEF engVars
  <1>2. TypeOK'
    BY SameConfig DEF IndInv, TypeOK, budgetVars, engVars, hdlVars, Picking
  <1>3. ScanInv'  BY DEF IndInv, ScanInv
  <1>4. WinnerKept'  BY DEF IndInv, WinnerKept, hdlVars
  <1>5. NoOrphans'  BY DEF NoOrphans, Picking, IndInv
  <1>6. QED  BY <1>1, <1>2, <1>3, <1>4, <1>5 DEF IndInv

\* The handler and the environment cancel nobody unless the relay does.
LEMMA HandlerQuiet ==
  ASSUME IndInv, UNCHANGED <<coordVars, budgetVars, mgrVars, engVars>>,
         hpc' \in {"waiting", "relaying", "ended"}, hpc = "ended" => hpc' = "ended",
         hpc' = "relaying" => winner # 0,
         baseDone' \in BOOLEAN, hardElapsed' \in BOOLEAN
  PROVE  IndInv'
  <1>1. RowsInv' /\ EngineInv' /\ BudgetInv' /\ WalkInv' /\ SpawnsJustified'
    BY RowsSame DEF engVars, coordVars
  <1>2. TypeOK'
    BY SameConfig DEF IndInv, TypeOK, budgetVars, engVars, coordVars, mgrVars
  <1>3. ScanInv' /\ NoOrphans'  BY DEF IndInv, ScanInv, NoOrphans, coordVars, mgrVars
  <1>4. WinnerKept'  BY DEF IndInv, WinnerKept, coordVars
  <1>5. QED  BY <1>1, <1>2, <1>3, <1>4 DEF IndInv

\* Rows evolve behind the back of manage(); cancelled rows may be added once
\* manage() has stopped picking.
LEMMA EvolveQuiet ==
  ASSUME IndInv, RowsEvolve, EngineInv',
         UNCHANGED <<winner, streamCh, done, deadlineErr, budgetVars, mgrVars, cooling, others, cfg,
                     hardElapsed>>,
         bound' \in [Models -> AllCreds \cup {NoCred}],
         mpc \in Picking => \A i \in DOMAIN reqs : ~reqs'[i].cancelled,
         hpc' \in {"waiting", "relaying", "ended"}, baseDone' \in BOOLEAN,
         hpc' # "ended" =>
            hpc' = hpc /\ \A i \in DOMAIN reqs : reqs'[i].cancelled = reqs[i].cancelled
  PROVE  IndInv'
  <1>1. RowsInv' /\ BudgetInv' /\ WalkInv' /\ SpawnsJustified'
    BY EvolveKeeps DEF budgetVars
  <1>2. /\ DOMAIN reqs' = DOMAIN reqs /\ DOMAIN reqs = 1..Len(reqs) /\ Len(reqs) \in Nat
        /\ winner \in 0..Len(reqs)
    BY DEF IndInv, TypeOK, RowsEvolve
  <1>3. TypeOK'
    BY SameConfig DEF IndInv, TypeOK, RowsEvolve, budgetVars, mgrVars
  <1>4. ScanInv'  BY <1>2 DEF IndInv, ScanInv, mgrVars
  <1>5. WinnerKept'  BY <1>2 DEF IndInv, WinnerKept
  <1>6. NoOrphans'
    <2> SUFFICES ASSUME mpc = "exit", NEW i \in DOMAIN reqs
                 PROVE  i = winner \/ reqs'[i].cancelled \/ Failed(reqs'[i])
      BY <1>2 DEF NoOrphans, mgrVars
    <2>1. i = winner \/ reqs[i].cancelled \/ Failed(reqs[i])  BY DEF IndInv, NoOrphans
    <2>2. Evolves(reqs[i], reqs'[i])  BY DEF RowsEvolve
    <2>3. QED  BY <2>1, <2>2 DEF Evolves, Failed, IsDone
  <1>7. QED  BY <1>1, <1>3, <1>4, <1>5, <1>6 DEF IndInv

\* Rows are appended while manage() may pick.
LEMMA SpawnQuiet ==
  ASSUME IndInv, Spawned, EngineInv',
         cooling' \in [Models -> SUBSET AllCreds], bound' \in [Models -> AllCreds \cup {NoCred}],
         UNCHANGED <<winner, streamCh, done, deadlineErr, mAttempts, others, cfg, hdlVars>>,
         mpc \in Picking, mpc' \in Picking
  PROVE  IndInv'
  <1>1. winner = 0 /\ \A i \in DOMAIN reqs : ~reqs[i].cancelled  BY DEF IndInv, ScanInv
  <1>2. TypeOK'
    <2>1. Len(reqs') \in Nat /\ Len(reqs) \in Nat  BY DEF IndInv, TypeOK, Spawned
    <2>2. QED  BY <1>1, <2>1, SameConfig DEF IndInv, TypeOK, Spawned, hdlVars, Picking
  <1>3. ScanInv'  BY <1>1 DEF ScanInv, Spawned
  <1>4. WinnerKept'  BY <1>1 DEF IndInv, WinnerKept, hdlVars
  <1>5. NoOrphans'  BY DEF NoOrphans, Picking
  <1>6. QED  BY <1>2, <1>3, <1>4, <1>5 DEF IndInv, Spawned

\* A race starts with the main row, uncancelled and unbooked.
LEMMA InitInv == Init => IndInv
  <1> SUFFICES ASSUME Init PROVE IndInv  OBVIOUS
  <1> DEFINE row == NewRow("main", Chain[1], NoCred)
  <1>1. cfg \in Configs /\ reqs = <<row>>  BY DEF Init
  <1>2. /\ Len(Chain) \in Nat \ {0} /\ \A k \in 1..Len(Chain) : Chain[k] \in Models
        /\ \A m \in Models : Cardinality(CredsOf[m]) \in Nat \ {0}
    BY <1>1, ConfigFacts
  <1>3. 1 \in 1..Len(Chain) /\ Chain[1] \in Models  BY <1>2
  <1>4. /\ row \in Row /\ row.mtype = "main" /\ row.model = Chain[1]
        /\ row.err = "none" /\ ~row.cancelled
    BY <1>3, NewRowType
  <1> HIDE DEF row
  <1>5. /\ reqs \in Seq(Row) /\ Len(reqs) = 1 /\ DOMAIN reqs = {1} /\ reqs[1] = row
    BY <1>1, <1>4
  <1>6. TypeOK
    <2>1. rotations \in [Models -> Nat]  BY DEF Init
    <2>2. /\ winner = 0 /\ tried = {} /\ soonestSpent = {} /\ mpc = "select" /\ mAttempts = 0
          /\ cooling \in [Models -> SUBSET AllCreds] /\ bound \in [Models -> AllCreds \cup {NoCred}]
          /\ others = 0 /\ hpc = "waiting"
      BY DEF Init
    <2>3. /\ streamCh \in BOOLEAN /\ done \in BOOLEAN /\ deadlineErr \in BOOLEAN
          /\ baseDone \in BOOLEAN /\ hardElapsed \in BOOLEAN
      BY DEF Init
    <2>4. QED  BY <1>1, <1>5, <2>1, <2>2, <2>3 DEF TypeOK
  <1>7. RowsInv /\ ScanInv /\ WinnerKept /\ NoOrphans
    BY <1>4, <1>5 DEF Init, RowsInv, ScanInv, WinnerKept, NoOrphans
  <1>8. EngineInv
    <2> SUFFICES ASSUME NEW m \in Models PROVE bound[m] \in CredsOf[m] \cup {NoCred}
      BY DEF EngineInv
    <2>1. CASE Cardinality(CredsOf[m]) = 1  BY <2>1 DEF Init
    <2>2. CASE Cardinality(CredsOf[m]) # 1  BY <2>2 DEF Init
    <2>3. QED  BY <2>1, <2>2
  <1>9. BudgetInv
    <2>1. \A m : FailoverRows(m) = {}  BY <1>4, <1>5 DEF FailoverRows, FailoverIn
    <2>2. \A m \in Models : rotations[m] = 0  BY DEF Init
    <2>3. \A m \in Models : 0 < Cardinality(CredsOf[m])  BY <1>2
    <2>4. QED  BY <1>4, <1>5, <2>1, <2>2, <2>3, FS_EmptySet DEF BudgetInv
  <1>10. WalkInv
    <2>1. ModelRowsIn(reqs) = {1}  BY <1>4, <1>5 DEF ModelRowsIn
    <2>2. ModelAttempts = 1  BY <2>1, FS_Singleton DEF ModelAttempts, ModelRowsIn
    <2>3. Position(1)  BY <1>4, <1>5, <2>2 DEF Position, Latest
    <2>4. QED  BY <1>3, <1>4, <1>5, <2>3 DEF WalkInv
  <1>11. SpawnsJustified
    BY <1>4, <1>5 DEF SpawnsJustified, NoReselectTwice, FailoverKeepsModel, ChainInOrder
  <1>12. QED  BY <1>6, <1>7, <1>8, <1>9, <1>10, <1>11 DEF IndInv

\* Case 1: a failover row, a fallback row, or none.
LEMMA Case1Keeps ==
  ASSUME IndInv, Case1
  PROVE  IndInv'
  <1> DEFINE m == Latest.model
  <1>1. /\ TypeOK /\ EngineInv /\ cfg \in Configs /\ m \in Models /\ Latest \in Row
    BY LatestFacts DEF IndInv, TypeOK
  <1>2. /\ UNCHANGED <<winner, streamCh, done, deadlineErr, mAttempts, others, cfg, hdlVars>>
        /\ mpc \in Picking
    BY DEF Case1, Picking
  <1>3. ASSUME UNCHANGED <<cooling, bound>>
        PROVE  /\ EngineInv' /\ cooling' \in [Models -> SUBSET AllCreds]
               /\ bound' \in [Models -> AllCreds \cup {NoCred}]
    BY <1>1, <1>2, <1>3, EngineSame DEF TypeOK
  <1>4. ASSUME AdvanceOrNot
        PROVE  Spawned /\ mpc' \in Picking
    <2>1. UNCHANGED <<cfg, budgetVars>>  BY <1>2, <1>4 DEF AdvanceOrNot
    <2>2. CASE AdvanceTarget(m) # {}
      <3>1. PICK x \in AdvanceTarget(m) :
              reqs' = Append(reqs, NewRow("fallback", x, NoCred)) /\ mpc' = "terminal"
        BY <1>4, <2>2 DEF AdvanceOrNot
      <3>2. QED  BY <2>1, <3>1, FallbackSpawned DEF Picking
    <2>3. CASE AdvanceTarget(m) = {}
      BY <1>4, <2>1, <2>3, NothingSpawned DEF AdvanceOrNot, Picking
    <2>4. QED  BY <2>2, <2>3
  <1>5. CASE Running >= MaxParallel
    BY <1>2, <1>3, <1>5, NothingSpawned, SpawnQuiet DEF Case1, Picking
  <1>6. CASE ~(Running >= MaxParallel) /\ ~Failed(Latest)
    BY <1>2, <1>3, <1>6, NothingSpawned, SpawnQuiet DEF Case1, Picking
  <1>7. CASE /\ ~(Running >= MaxParallel) /\ Failed(Latest)
             /\ ~(CredFailoverEligible /\ Latest.cred # NoCred)
    <2>1. AdvanceOrNot /\ UNCHANGED <<cooling, bound>>  BY <1>7 DEF Case1
    <2>2. QED  BY <1>2, <1>3, <1>4, <2>1, SpawnQuiet
  <1>8. CASE /\ ~(Running >= MaxParallel) /\ Failed(Latest)
             /\ CredFailoverEligible /\ Latest.cred # NoCred
    <2>1. PICK o \in ExcludeAndReselect(m, Latest.cred) :
            /\ cooling' = [cooling EXCEPT ![m] = cooling[m] \cup {Latest.cred}]
            /\ bound' = [bound EXCEPT ![m] = o.bound]
            /\ IF UsablePlan(o) THEN SpawnCredFailover(o) ELSE AdvanceOrNot
      BY <1>8 DEF Case1
    <2>2. Latest.cred \in AllCreds  BY <1>1, <1>8 DEF Row
    <2>3. o.cred \in CredsOf[m] /\ o.bound \in CredsOf[m] \cup {NoCred}
      BY <1>1, <2>1, EngineAnswers
    <2>4. CredsOf[m] \subseteq AllCreds  BY <1>1, ConfigFacts
    <2>5. /\ cooling' \in [Models -> SUBSET AllCreds]
          /\ bound' \in [Models -> AllCreds \cup {NoCred}]
      BY <1>1, <2>1, <2>2, <2>3, <2>4 DEF TypeOK
    <2>6. EngineInv'
      BY <1>1, <1>2, <2>1, <2>3, SameConfig DEF EngineInv, TypeOK
    <2>7. Spawned /\ mpc' \in Picking
      <3>1. CASE UsablePlan(o)
        BY <1>2, <1>8, <2>1, <2>3, <3>1, FailoverSpawned DEF SpawnCredFailover, Picking
      <3>2. CASE ~UsablePlan(o)  BY <1>4, <2>1, <3>2
      <3>3. QED  BY <3>1, <3>2
    <2>8. QED  BY <1>2, <2>5, <2>6, <2>7, SpawnQuiet
  <1>9. QED  BY <1>5, <1>6, <1>7, <1>8

\* Other requests move bindings and cooldowns of the model's credentials.
LEMMA ElsewhereKeeps ==
  ASSUME IndInv, EngineElsewhere
  PROVE  IndInv'
  <1>1. TypeOK /\ EngineInv /\ cfg \in Configs  BY DEF IndInv, TypeOK
  <1>2. UNCHANGED <<cfg, coordVars, budgetVars, mgrVars, hdlVars>> /\ others' \in Nat
    BY <1>1 DEF EngineElsewhere, TypeOK
  <1>3. PICK m \in Models : \E c \in CredsOf[m] :
          OtherCools(m, c) \/ CooldownExpires(m, c) \/ OtherRebinds(m, c)
    BY DEF EngineElsewhere
  <1>4. PICK c \in CredsOf[m] : OtherCools(m, c) \/ CooldownExpires(m, c) \/ OtherRebinds(m, c)
    BY <1>3
  <1>5. CredsOf[m] \subseteq AllCreds  BY <1>1, ConfigFacts
  <1>6. cooling' \in [Models -> SUBSET AllCreds]
    BY <1>1, <1>4, <1>5 DEF OtherCools, CooldownExpires, OtherRebinds, TypeOK
  <1>7. \/ bound' = bound
        \/ \E b \in CredsOf[m] \cup {NoCred} : bound' = [bound EXCEPT ![m] = b]
    <2>1. CASE OtherRebinds(m, c)
      <3>1. PICK o \in ExcludeAndReselect(m, c) : bound' = [bound EXCEPT ![m] = o.bound]
        BY <2>1 DEF OtherRebinds
      <3>2. o.bound \in CredsOf[m] \cup {NoCred}  BY <1>1, <3>1, EngineAnswers
      <3>3. QED  BY <3>1, <3>2
    <2>2. CASE OtherCools(m, c) \/ CooldownExpires(m, c)
      BY <2>2 DEF OtherCools, CooldownExpires
    <2>3. QED  BY <1>4, <2>1, <2>2
  <1>8. EngineInv' /\ bound' \in [Models -> AllCreds \cup {NoCred}]
    BY <1>1, <1>2, <1>5, <1>7, SameConfig DEF EngineInv, TypeOK
  <1>9. RowsInv' /\ BudgetInv' /\ WalkInv' /\ SpawnsJustified'
    BY <1>2, NothingSpawned DEF Spawned, coordVars
  <1>10. TypeOK'
    BY <1>1, <1>2, <1>6, <1>8, SameConfig DEF TypeOK, coordVars, budgetVars, mgrVars, hdlVars
  <1>11. ScanInv' /\ WinnerKept' /\ NoOrphans'
    BY <1>2 DEF IndInv, ScanInv, WinnerKept, NoOrphans, coordVars, mgrVars, hdlVars
  <1>12. QED  BY <1>8, <1>9, <1>10, <1>11 DEF IndInv

\* Every step keeps the invariant.
LEMMA NextInv == IndInv /\ [Next]_vars => IndInv'
  <1> SUFFICES ASSUME IndInv, [Next]_vars PROVE IndInv'  OBVIOUS
  <1>1. /\ TypeOK /\ RowsInv /\ EngineInv /\ Len(reqs) \in Nat \ {0} /\ DOMAIN reqs = 1..Len(reqs)
        /\ winner \in 0..Len(reqs) /\ mAttempts \in Nat
        /\ streamCh \in BOOLEAN /\ done \in BOOLEAN /\ deadlineErr \in BOOLEAN
        /\ hpc \in {"waiting", "relaying", "ended"} /\ baseDone \in BOOLEAN /\ hardElapsed \in BOOLEAN
    BY LatestFacts DEF IndInv, TypeOK
  <1>2. mpc \in Picking => winner = 0 /\ hpc # "relaying" /\ \A i \in DOMAIN reqs : ~reqs[i].cancelled
    BY DEF IndInv, ScanInv, WinnerKept
  <1>3. CASE TickScan
    <2> DEFINE elig == {i \in DOMAIN reqs : Eligible(reqs[i])}
    <2>1. /\ mpc = "select" /\ mpc \in Picking
          /\ UNCHANGED <<reqs, done, deadlineErr, budgetVars, mAttempts, engVars, hdlVars>>
      BY <1>3 DEF TickScan, Picking
    <2>2. CASE elig = {}
      <3>1. mpc' = "gate" /\ UNCHANGED <<winner, streamCh>>  BY <1>3, <2>2 DEF TickScan
      <3>2. QED  BY <1>1, <2>1, <3>1, ManageQuiet DEF Picking
    <2>3. CASE elig # {}
      <3>1. /\ winner' = CHOOSE i \in elig : \A j \in elig : i <= j
            /\ streamCh' = TRUE /\ mpc' = "cancelOthers"
        BY <1>3, <2>3 DEF TickScan
      <3>2. \E i \in elig : \A j \in elig : i <= j
        <4>1. elig \subseteq Nat  BY <1>1
        <4>2. QED  BY <2>3, <4>1, SmallestNat
      <3>3. winner' \in DOMAIN reqs  BY <3>1, <3>2
      <3>4. RowsInv' /\ EngineInv' /\ BudgetInv' /\ WalkInv' /\ SpawnsJustified'
        BY <2>1, RowsSame DEF engVars
      <3>5. TypeOK'
        BY <1>1, <2>1, <3>1, <3>3, SameConfig DEF TypeOK, budgetVars, engVars, hdlVars
      <3>6. ScanInv' /\ NoOrphans'  BY <3>1 DEF ScanInv, NoOrphans, Picking
      <3>7. WinnerKept'  BY <1>1, <1>2, <2>1, <3>3 DEF WinnerKept, hdlVars
      <3>8. QED  BY <3>4, <3>5, <3>6, <3>7 DEF IndInv
    <2>4. QED  BY <2>2, <2>3
  <1>4. CASE CancelOthers
    <2>1. /\ reqs' = CancelAllExcept(winner) /\ mpc' = "exit"
          /\ UNCHANGED <<winner, streamCh, done, deadlineErr, cfg, budgetVars, bound, cooling, others,
                         mAttempts, hdlVars>>
      BY <1>4 DEF CancelOthers, engVars
    <2>2. /\ winner # 0 /\ hpc # "ended" => ~reqs[winner].cancelled
          /\ hpc = "relaying" => winner # 0
      BY DEF IndInv, WinnerKept
    <2>3. QED  BY <1>1, <2>1, <2>2, CancelAndExit
  <1>5. CASE Gate
    <2>1. Cardinality(ModelRowsIn(reqs)) \in Nat  BY <1>1, CountsFinite DEF TypeOK
    <2>2. mAttempts' \in Nat  BY <1>5, <2>1 DEF Gate, ModelAttempts, ModelRowsIn
    <2>3. /\ mpc \in Picking /\ mpc' \in Picking
          /\ UNCHANGED <<reqs, winner, streamCh, done, deadlineErr, budgetVars, engVars, hdlVars>>
      BY <1>5 DEF Gate, Picking, coordVars
    <2>4. QED  BY <1>1, <2>2, <2>3, ManageQuiet
  <1>6. CASE Case1  BY <1>6, Case1Keeps
  <1>7. CASE Case2
    <2>1. /\ mpc \in Picking /\ mpc' \in Picking
          /\ UNCHANGED <<winner, streamCh, done, deadlineErr, budgetVars, mAttempts, others, cfg,
                         cooling, bound, hdlVars>>
      BY <1>7 DEF Case2, Picking, engVars
    <2>2. Spawned
      BY <1>7, <2>1, NothingSpawned, IdleSpawned DEF Case2
    <2>3. EngineInv'  BY <1>1, <2>1, EngineSame
    <2>4. QED  BY <1>1, <2>1, <2>2, <2>3, SpawnQuiet DEF TypeOK
  <1>8. CASE Terminal
    BY <1>1, <1>8, ManageQuiet DEF Terminal, Picking
  <1>9. CASE BaseCtxArm \/ HardDeadlineArm
    <2>1. /\ reqs' = CancelAllExcept(0) /\ mpc' = "exit" /\ mpc \in Picking
          /\ done' = TRUE /\ streamCh' = TRUE
          /\ UNCHANGED <<winner, deadlineErr, cfg, budgetVars, bound, cooling, others, mAttempts,
                         hdlVars>>
      BY <1>9 DEF BaseCtxArm, HardDeadlineArm, engVars, Picking
    <2>2. QED  BY <1>1, <1>2, <2>1, CancelAndExit
  <1>10. CASE StreamDeadlineArm
    <2>1. /\ mpc \in Picking
          /\ UNCHANGED <<cfg, budgetVars, bound, cooling, others, mAttempts, hdlVars>>
      BY <1>10 DEF StreamDeadlineArm, engVars, Picking
    <2>2. CASE \E i \in Best : LiveGate => reqs[i].bytes > 0
      <3>1. /\ winner' \in Best /\ streamCh' = TRUE
            /\ reqs' = CancelAllExcept(winner') /\ mpc' = "exit"
            /\ UNCHANGED <<done, deadlineErr>>
        BY <1>10, <2>2 DEF StreamDeadlineArm
      <3>2. winner' \in DOMAIN reqs  BY <3>1 DEF Best
      <3>3. PICK w \in 0..Len(reqs) : w = winner'  BY <1>1, <3>2
      <3>4. ~reqs[w].cancelled /\ w # 0  BY <1>1, <1>2, <2>1, <3>2, <3>3
      <3>5. QED  BY <1>1, <2>1, <3>1, <3>3, <3>4, CancelAndExit
    <2>3. CASE ~\E i \in Best : LiveGate => reqs[i].bytes > 0
      <3>1. /\ deadlineErr' = TRUE /\ done' = TRUE /\ streamCh' = TRUE
            /\ mpc' = "cancelAll" /\ UNCHANGED <<winner, reqs>>
        BY <1>10, <2>3 DEF StreamDeadlineArm
      <3>2. QED  BY <1>1, <2>1, <3>1, ManageQuiet DEF Picking, engVars
    <2>4. QED  BY <2>2, <2>3
  <1>11. CASE DeadlineCancelAll
    <2>1. /\ reqs' = CancelAllExcept(0) /\ mpc' = "exit" /\ mpc \in Picking
          /\ UNCHANGED <<winner, streamCh, done, deadlineErr, cfg, budgetVars, bound, cooling, others,
                         mAttempts, hdlVars>>
      BY <1>11 DEF DeadlineCancelAll, engVars, Picking
    <2>2. QED  BY <1>1, <1>2, <2>1, CancelAndExit
  <1>12. ASSUME NEW i \in 1..MaxRows, AttemptStep(i) PROVE IndInv'
    <2>1. /\ RowsEvolve /\ \A j \in DOMAIN reqs : reqs'[j].cancelled = reqs[j].cancelled
          /\ EngineInv' /\ bound' \in [Models -> AllCreds \cup {NoCred}]
          /\ UNCHANGED <<winner, streamCh, done, deadlineErr, budgetVars, mgrVars, cooling,
                         others, cfg, hdlVars>>
      BY <1>12, AttemptEvolves
    <2>2. QED  BY <1>1, <1>2, <2>1, EvolveQuiet DEF hdlVars
  <1>13. CASE WaitForWinner \/ RelayDone
    BY <1>1, <1>13, HandlerQuiet DEF WaitForWinner, RelayDone, HandlerReturns
  <1>14. CASE ClientWriteFails
    <2>1. /\ hpc = "relaying" /\ reqs' = CancelAllExcept(winner) /\ hpc' = "ended" /\ baseDone' = TRUE
          /\ UNCHANGED <<winner, streamCh, done, deadlineErr, budgetVars, mgrVars, cooling, bound,
                         others, cfg, hardElapsed>>
      BY <1>14 DEF ClientWriteFails, HandlerReturns, engVars
    <2>2. RowsEvolve  BY <1>1, <2>1, CancelAllEvolves
    <2>3. EngineInv'  BY <1>1, <2>1, EngineSame
    <2>4. QED  BY <1>1, <1>2, <2>1, <2>2, <2>3, EvolveQuiet DEF TypeOK
  <1>15. CASE RelayIdle
    <2>1. /\ hpc = "relaying" /\ SetRow(winner, Cancel(reqs[winner])) /\ hpc' = "ended"
          /\ baseDone' = TRUE
          /\ UNCHANGED <<winner, streamCh, done, deadlineErr, budgetVars, mgrVars, cooling, bound,
                         others, cfg, hardElapsed>>
      BY <1>15 DEF RelayIdle, HandlerReturns, engVars, SetRow
    <2>2. winner \in DOMAIN reqs  BY <1>1, <2>1 DEF IndInv, WinnerKept
    <2>3. RowsEvolve  BY <1>1, <2>1, <2>2, CancelEvolves, SetRowEvolves
    <2>4. EngineInv'  BY <1>1, <2>1, EngineSame
    <2>5. QED  BY <1>1, <1>2, <2>1, <2>3, <2>4, EvolveQuiet DEF TypeOK
  <1>16. CASE ClientDisconnect \/ HardDeadlinePasses
    <2>1. hpc = "relaying" => winner # 0  BY DEF IndInv, WinnerKept
    <2>2. QED  BY <1>1, <1>16, <2>1, HandlerQuiet DEF ClientDisconnect, HardDeadlinePasses
  <1>17. CASE EngineElsewhere  BY <1>17, ElsewhereKeeps
  <1>18. CASE UNCHANGED vars
    BY <1>1, <1>18, HandlerQuiet DEF vars, hdlVars, IndInv, WinnerKept
  <1>19. QED
    BY <1>3, <1>4, <1>5, <1>6, <1>7, <1>8, <1>9, <1>10, <1>11, <1>12, <1>13, <1>14, <1>15, <1>16,
       <1>17, <1>18
    DEF Next, AttemptStep

\* The bound on the whole race: the rows spawned for models are as many as the
\* chain plus one, and the failover rows have different credentials.
LEMMA RowsBounded ==
  ASSUME IndInv
  PROVE  RaceBounded
  <1> DEFINE fo == {i \in DOMAIN reqs : reqs[i].mtype = "credfo"}
             mo == ModelRowsIn(reqs)
  <1>1. /\ TypeOK /\ cfg \in Configs /\ reqs \in Seq(Row)
        /\ Len(reqs) \in Nat \ {0} /\ DOMAIN reqs = 1..Len(reqs)
    BY LatestFacts DEF IndInv, TypeOK
  <1>2. Len(Chain) \in Nat \ {0} /\ DOMAIN Chain = 1..Len(Chain)  BY <1>1, ConfigFacts
  <1>3. ModelAttempts <= Len(Chain) + 1 /\ ModelAttempts = Cardinality(mo)
    <2>1. PICK k \in 1..Len(Chain) : Position(k)  BY DEF IndInv, WalkInv
    <2>2. QED  BY <1>2, <2>1 DEF Position, ModelAttempts, ModelRowsIn
  <1>4. \A m \in Models :
          Cardinality({i \in DOMAIN reqs : reqs[i].mtype = "credfo" /\ reqs[i].model = m})
              < Cardinality(CredsOf[m])
    BY DEF IndInv, BudgetInv, FailoverRows, FailoverIn
  <1>5. IsFiniteSet(DOMAIN reqs) /\ Cardinality(DOMAIN reqs) = Len(reqs)
    BY <1>1, FS_Interval
  <1>6. IsFiniteSet(mo) /\ IsFiniteSet(fo) /\ Cardinality(mo) \in Nat /\ Cardinality(fo) \in Nat
    <2>1. mo \in SUBSET DOMAIN reqs /\ fo \in SUBSET DOMAIN reqs  BY DEF ModelRowsIn
    <2>2. IsFiniteSet(mo) /\ IsFiniteSet(fo)  BY <1>5, <2>1, FS_Subset
    <2>3. QED  BY <2>2, FS_CardinalityType
  <1>7. Len(reqs) = Cardinality(mo) + Cardinality(fo)
    <2>1. DOMAIN reqs = mo \cup fo /\ mo \cap fo = {}  BY DEF ModelRowsIn
    <2>2. Cardinality(mo \cap fo) = 0  BY <2>1, FS_EmptySet
    <2>3. Cardinality(mo \cup fo) = Cardinality(mo) + Cardinality(fo) - Cardinality(mo \cap fo)
      BY <1>6, FS_Union
    <2>4. QED  BY <1>5, <1>6, <2>1, <2>2, <2>3
  <1>8. Cardinality(fo) <= Cardinality(AllCreds)
    <2> DEFINE f == [i \in fo |-> reqs[i].resel]
    <2>1. f \in [fo -> AllCreds]  BY <1>1 DEF IndInv, BudgetInv, TypeOK
    <2>2. \A i, j \in fo : f[i] = f[j] => i = j
      BY DEF IndInv, SpawnsJustified, NoReselectTwice
    <2>3. f \in Injection(fo, AllCreds)  BY <2>1, <2>2 DEF Injection, IsInjective
    <2>4. QED  BY <2>3, FS_Injection, BoundsAssumption
  <1>9. Len(Chain) <= Cardinality(AllModels)
    <2> DEFINE g == [k \in 1..Len(Chain) |-> Chain[k]]
    <2>1. g \in [1..Len(Chain) -> AllModels]
      BY <1>1, ConfigFacts DEF AllModels, Models
    <2>2. \A j, k \in 1..Len(Chain) : g[j] = g[k] => j = k  BY <1>1, ConfigFacts
    <2>3. g \in Injection(1..Len(Chain), AllModels)  BY <2>1, <2>2 DEF Injection, IsInjective
    <2>4. Cardinality(1..Len(Chain)) <= Cardinality(AllModels)
      BY <2>3, FS_Injection, BoundsAssumption
    <2>5. QED  BY <1>2, <2>4, FS_Interval
  <1>10. Cardinality(AllModels) \in Nat /\ Cardinality(AllCreds) \in Nat
    BY BoundsAssumption, FS_CardinalityType
  <1>11. Len(reqs) <= MaxRows
    BY <1>2, <1>3, <1>6, <1>7, <1>8, <1>9, <1>10 DEF MaxRows
  <1>12. QED  BY <1>3, <1>4, <1>11 DEF RaceBounded

-----------------------------------------------------------------------------
(* What holds of every race.                                               *)

\* The inductive invariant holds in every reachable state.
THEOREM RaceInductive == Spec => []IndInv
  BY InitInv, NextInv, PTL DEF Spec

\* Types: newRaceCoordinator, manage() and execute() keep every field of the
\* race within its type, for every configuration.
THEOREM RaceTypes == Spec => []TypeOK
  <1>1. IndInv => TypeOK  BY DEF IndInv
  <1>2. QED  BY <1>1, RaceInductive, PTL

\* The attempt whose buffer the handler relays is not cancelled under it,
\* however the scan, the deadlines and the handler interleave.
THEOREM WinnerIsKept == Spec => []WinnerKept
  <1>1. IndInv => WinnerKept  BY DEF IndInv
  <1>2. QED  BY <1>1, RaceInductive, PTL

\* manage() leaves no attempt running that nobody will stop.
THEOREM ManagerLeavesNoOrphans == Spec => []NoOrphans
  <1>1. IndInv => NoOrphans  BY DEF IndInv
  <1>2. QED  BY <1>1, RaceInductive, PTL

\* Failover and fallback cannot spawn without end: the budgets of
\* credFailoverEligibleLocked and the single pass over the chain bound a race.
THEOREM RaceIsBounded == Spec => []RaceBounded
  <1>1. IndInv => RaceBounded  BY RowsBounded
  <1>2. QED  BY <1>1, RaceInductive, PTL

\* Every attempt after the first has its reason in the attempts before it.
THEOREM EverySpawnJustified == Spec => []SpawnsJustified
  <1>1. IndInv => SpawnsJustified  BY DEF IndInv
  <1>2. QED  BY <1>1, RaceInductive, PTL
=============================================================================
