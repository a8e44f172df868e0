------------------------ MODULE CredentialLBProofs ------------------------
(***************************************************************************)
(* Proofs about the credential engine, for any set of requests, keys and   *)
(* credentials, any configured lists and any durations.                    *)
(*                                                                         *)
(* IndInv adds to the types what a call knows at each point (CallInv) and  *)
(* that a live modelState has a list (RefsInv), and carries CountMirrors   *)
(* and BindingsConfigured: the mirror is what keeps bindingsCount from     *)
(* wrapping below zero, and a confirmed hit is configured only because     *)
(* every binding is.  TimeInv adds that what a call read of the clock is   *)
(* past and that what it excludes cools.                                   *)
(***************************************************************************)
EXTENDS CredentialLB, TLAPS, FiniteSetTheorems

InState == {"count", "first", "probe", "confirm", "full", "exclude"}

\* The types, with bindingsCount an integer.
TypeInv ==
    /\ inc \in States \cup {0}
    /\ refs \in [States -> RefLists \cup {<<>>}]
    /\ bind \in [States -> [Keys -> [cred : Creds \cup {NoCred}, at : Nat]]]
    /\ cool \in [States -> [Creds -> Nat]]
    /\ count \in [States -> Int]
    /\ calls \in [Procs -> Call]
    /\ sweepAt \in Nat /\ stopped \in BOOLEAN /\ clock \in Nat \ {0}

\* What a call has established when it is at a given point.
CallOK(c) ==
    /\ c.pc \in InState => c.st \in States /\ refs[c.st] # <<>>
    /\ c.pc \in {"probe", "confirm"} => c.key \in Keys
    /\ c.pc \in {"lookup", "count"} => c.n = 0
    /\ c.pc = "first" => c.n = 1
    /\ c.pc \in {"first", "probe", "confirm", "full"} => c.op = "get"
    /\ c.pc = "exclude" => c.op = "exclude"
    /\ c.op = "exclude" /\ c.pc \in {"lookup", "count", "exclude"} => c.cred \in Creds
    /\ c.pc = "confirm" => c.cred \in Creds
CallInv == \A p \in Procs : CallOK(calls[p])

RefsInv == inc # 0 => refs[inc] # <<>>

IndInv == TypeInv /\ CallInv /\ RefsInv /\ CountMirrors /\ BindingsConfigured

-----------------------------------------------------------------------------
(* Lemmas on the operators.                                                *)

\* Every cooldown the policy yields is a number.
LEMMA CooldownType == Cooldowns \subseteq Nat
  BY DurationsAssumption DEF Cooldowns, CooldownFor

\* A configured list holds credentials.
LEMMA RefsType ==
  ASSUME TypeInv, NEW s \in States
  PROVE  /\ refs[s] \in Seq(Creds)
         /\ Ids(refs[s]) \subseteq Creds
         /\ refs[s] # <<>> => Head(refs[s]) \in Creds
         /\ Len(refs[s]) \in Nat
  <1>1. refs[s] \in Seq(Creds)
    <2>1. refs[s] \in RefLists \cup {<<>>}  BY DEF TypeInv
    <2>2. CASE refs[s] = <<>>  BY <2>2
    <2>3. CASE refs[s] \in RefLists  BY <2>3, ListsAssumption
    <2>4. QED  BY <2>1, <2>2, <2>3
  <1>2. QED  BY <1>1 DEF Ids

\* The soonest credential is one of the list.
LEMMA SoonestType ==
  ASSUME NEW list, NEW until
  PROVE  Soonest(list, until) \subseteq Ids(list)
  BY DEF Soonest, Ids

\* Answer keeps the type of calls.
LEMMA AnswerType ==
  ASSUME calls \in [Procs -> Call], NEW p \in Procs, NEW c \in Creds \cup {NoCred},
         Answer(p, c)
  PROVE  /\ calls' \in [Procs -> Call]
         /\ calls'[p].pc = "answered"
         /\ calls'[p].cred = c
         /\ \A q \in Procs \ {p} : calls'[q] = calls[q]
  BY DEF Answer, Idle, Call

-----------------------------------------------------------------------------
(* Every step writes the bindings in one of four ways.                     *)

BoundKeys(s) == {k \in Keys : Bound(s, k)}
Binding == [cred : Creds, at : Nat]

Touched(s, k, at) == Bound(s, k) /\ Touch(s, k, at) /\ count' = count

\* The idle window of a binding restarts; an entry is written; an entry is
\* dropped; several are dropped.
BindEffect(s) ==
    \/ UNCHANGED <<bind, count>>
    \/ \E k \in Keys, at \in Nat : Touched(s, k, at)
    \/ \E k \in Keys, b \in Binding : b.cred \in Ids(refs[s]) /\ refs' = refs /\ SetBinding(s, k, b)
    \/ \E k \in Keys : SetBinding(s, k, NoBinding)
    \/ \E gone \in SUBSET BoundKeys(s) : DropBindings(s, gone)

\* A bound entry names a configured credential, and so a real one.
LEMMA BoundCred ==
  ASSUME TypeInv, BindingsConfigured, NEW s \in States, NEW k \in Keys, Bound(s, k)
  PROVE  bind[s][k].cred \in Creds /\ bind[s][k] \in Binding
  <1>1. bind[s][k].cred \in Ids(refs[s])  BY DEF BindingsConfigured
  <1>2. Ids(refs[s]) \subseteq Creds  BY RefsType
  <1>3. QED  BY <1>1, <1>2 DEF TypeInv, Binding

\* A rebind is a write of the entry.
LEMMA RebindIsSet ==
  ASSUME TypeInv, NEW s \in States, NEW k \in Keys, NEW b \in Binding, RebindTo(s, k, b)
  PROVE  SetBinding(s, k, b)
  <1>1. b # NoBinding  BY CallersAssumption DEF Binding, NoBinding
  <1>2. count[s] \in Int  BY DEF TypeInv
  <1>3. (IF Bound(s, k) THEN count[s] ELSE count[s] + 1)
          = count[s] - (IF Bound(s, k) THEN 1 ELSE 0) + (IF b # NoBinding THEN 1 ELSE 0)
    BY <1>1, <1>2
  <1>4. QED  BY <1>3, Zenon DEF RebindTo, SetBinding

\* The types survive every effect, and only state s is written.
LEMMA EffectType ==
  ASSUME IndInv, NEW s \in States, BindEffect(s)
  PROVE  /\ bind' \in [States -> [Keys -> [cred : Creds \cup {NoCred}, at : Nat]]]
         /\ count' \in [States -> Int]
         /\ \A t \in States \ {s} : bind'[t] = bind[t] /\ count'[t] = count[t]
  <1>0. TypeInv  BY DEF IndInv
  <1>1. CASE UNCHANGED <<bind, count>>  BY <1>0, <1>1 DEF TypeInv
  <1>2. ASSUME NEW k \in Keys, NEW at \in Nat, Touched(s, k, at)
        PROVE  /\ bind' \in [States -> [Keys -> [cred : Creds \cup {NoCred}, at : Nat]]]
               /\ count' \in [States -> Int]
               /\ \A t \in States \ {s} : bind'[t] = bind[t] /\ count'[t] = count[t]
    BY <1>0, <1>2 DEF TypeInv, Touched, Touch
  <1>3. ASSUME NEW k \in Keys, NEW b \in Binding \cup {NoBinding}, SetBinding(s, k, b)
        PROVE  /\ bind' \in [States -> [Keys -> [cred : Creds \cup {NoCred}, at : Nat]]]
               /\ count' \in [States -> Int]
               /\ \A t \in States \ {s} : bind'[t] = bind[t] /\ count'[t] = count[t]
    <2>1. b \in [cred : Creds \cup {NoCred}, at : Nat]  BY DEF Binding, NoBinding
    <2>2. QED  BY <1>0, <1>3, <2>1 DEF TypeInv, SetBinding
  <1>4. ASSUME NEW gone \in SUBSET BoundKeys(s), DropBindings(s, gone)
        PROVE  /\ bind' \in [States -> [Keys -> [cred : Creds \cup {NoCred}, at : Nat]]]
               /\ count' \in [States -> Int]
               /\ \A t \in States \ {s} : bind'[t] = bind[t] /\ count'[t] = count[t]
    <2>1. IsFiniteSet(gone)  BY CallersAssumption, FS_Subset DEF BoundKeys
    <2>2. Cardinality(gone) \in Nat  BY <2>1, FS_CardinalityType
    <2>3. NoBinding \in [cred : Creds \cup {NoCred}, at : Nat]  BY DEF NoBinding
    <2>4. QED  BY <1>0, <1>4, <2>2, <2>3 DEF TypeInv, DropBindings
  <1>5. QED  BY <1>1, <1>2, <1>3, <1>4 DEF BindEffect

\* The mirror survives every effect.
LEMMA EffectCount ==
  ASSUME IndInv, NEW s \in States, BindEffect(s)
  PROVE  CountMirrors'
  <1>0. TypeInv /\ CountMirrors /\ BindingsConfigured  BY DEF IndInv
  <1>a. /\ bind' \in [States -> [Keys -> [cred : Creds \cup {NoCred}, at : Nat]]]
        /\ count' \in [States -> Int]
        /\ \A t \in States \ {s} : bind'[t] = bind[t] /\ count'[t] = count[t]
    BY EffectType
  <1>b. IsFiniteSet(BoundKeys(s)) /\ Cardinality(BoundKeys(s)) \in Nat
    <2>1. BoundKeys(s) \in SUBSET Keys  BY DEF BoundKeys
    <2>2. QED  BY <2>1, CallersAssumption, FS_Subset, FS_CardinalityType
  <1>c. count[s] = Cardinality(BoundKeys(s))  BY <1>0 DEF CountMirrors, BoundKeys
  <1>d. SUFFICES count'[s] = Cardinality(BoundKeys(s)')
    <2>1. ASSUME NEW t \in States  PROVE count'[t] = Cardinality({k \in Keys : Bound(t, k)'})
      <3>1. CASE t = s  BY <3>1 DEF BoundKeys
      <3>2. CASE t # s
        <4>1. {k \in Keys : Bound(t, k)'} = {k \in Keys : Bound(t, k)}  BY <1>a, <3>2 DEF Bound
        <4>2. QED  BY <1>0, <1>a, <3>2, <4>1 DEF CountMirrors
      <3>3. QED  BY <3>1, <3>2
    <2>2. QED  BY <2>1 DEF CountMirrors
  <1>1. CASE UNCHANGED <<bind, count>>
    BY <1>1, <1>c DEF BoundKeys, Bound
  <1>2. ASSUME NEW k \in Keys, NEW at \in Nat, Touched(s, k, at)
        PROVE  count'[s] = Cardinality(BoundKeys(s)')
    <2>1. bind[s][k].cred \in Creds  BY <1>0, <1>2, BoundCred DEF Touched
    <2>2. bind'[s][k].cred = bind[s][k].cred /\ \A j \in Keys \ {k} : bind'[s][j] = bind[s][j]
      BY <1>0, <1>2 DEF Touched, Touch, TypeInv
    <2>3. bind'[s][k] # NoBinding  BY <2>1, <2>2, CallersAssumption DEF NoBinding
    <2>4. BoundKeys(s)' = BoundKeys(s)  BY <1>2, <2>2, <2>3 DEF BoundKeys, Bound, Touched
    <2>5. QED  BY <1>2, <1>c, <2>4 DEF Touched
  <1>3. ASSUME NEW k \in Keys, NEW b \in Binding, SetBinding(s, k, b)
        PROVE  count'[s] = Cardinality(BoundKeys(s)')
    <2>1. b # NoBinding  BY CallersAssumption DEF Binding, NoBinding
    <2>2. bind'[s][k] = b /\ \A j \in Keys \ {k} : bind'[s][j] = bind[s][j]
      BY <1>0, <1>3 DEF SetBinding, TypeInv
    <2>3. BoundKeys(s)' = BoundKeys(s) \cup {k}  BY <2>1, <2>2 DEF BoundKeys, Bound
    <2>4. Cardinality(BoundKeys(s) \cup {k})
            = IF k \in BoundKeys(s) THEN Cardinality(BoundKeys(s)) ELSE Cardinality(BoundKeys(s)) + 1
      BY <1>b, FS_AddElement
    <2>5. k \in BoundKeys(s) <=> Bound(s, k)  BY DEF BoundKeys
    <2>6. count'[s] = count[s] - (IF Bound(s, k) THEN 1 ELSE 0) + 1
      BY <1>0, <1>3, <2>1 DEF SetBinding, TypeInv
    <2>7. QED  BY <1>b, <1>c, <2>3, <2>4, <2>5, <2>6
  <1>4. ASSUME NEW k \in Keys, SetBinding(s, k, NoBinding)
        PROVE  count'[s] = Cardinality(BoundKeys(s)')
    <2>2. bind'[s][k] = NoBinding /\ \A j \in Keys \ {k} : bind'[s][j] = bind[s][j]
      BY <1>0, <1>4 DEF SetBinding, TypeInv
    <2>3. BoundKeys(s)' = BoundKeys(s) \ {k}  BY <2>2 DEF BoundKeys, Bound
    <2>4. Cardinality(BoundKeys(s) \ {k})
            = IF k \in BoundKeys(s) THEN Cardinality(BoundKeys(s)) - 1 ELSE Cardinality(BoundKeys(s))
      BY <1>b, FS_RemoveElement
    <2>5. k \in BoundKeys(s) <=> Bound(s, k)  BY DEF BoundKeys
    <2>6. count'[s] = count[s] - (IF Bound(s, k) THEN 1 ELSE 0)
      BY <1>0, <1>4 DEF SetBinding, TypeInv
    <2>7. QED  BY <1>b, <1>c, <2>3, <2>4, <2>5, <2>6
  <1>5. ASSUME NEW gone \in SUBSET BoundKeys(s), DropBindings(s, gone)
        PROVE  count'[s] = Cardinality(BoundKeys(s)')
    <2>1. \A j \in Keys : bind'[s][j] = IF j \in gone THEN NoBinding ELSE bind[s][j]
      BY <1>0, <1>5 DEF DropBindings, TypeInv
    <2>2. BoundKeys(s)' = BoundKeys(s) \ gone  BY <2>1 DEF BoundKeys, Bound
    <2>3. Cardinality(BoundKeys(s) \ gone)
            = Cardinality(BoundKeys(s)) - Cardinality(BoundKeys(s) \cap gone)
      BY <1>b, FS_Difference
    <2>4. BoundKeys(s) \cap gone = gone  OBVIOUS
    <2>5. count'[s] = count[s] - Cardinality(gone)
      BY <1>0, <1>5 DEF DropBindings, TypeInv
    <2>6. QED  BY <1>c, <2>2, <2>3, <2>4, <2>5
  <1>6. QED  BY <1>1, <1>2, <1>3, <1>4, <1>5 DEF BindEffect

\* With the lists unchanged, every effect keeps bindings configured.
LEMMA EffectConfigured ==
  ASSUME IndInv, NEW s \in States, BindEffect(s), refs' = refs
  PROVE  BindingsConfigured'
  <1>0. TypeInv /\ BindingsConfigured  BY DEF IndInv
  <1>a. /\ bind' \in [States -> [Keys -> [cred : Creds \cup {NoCred}, at : Nat]]]
        /\ \A t \in States \ {s} : bind'[t] = bind[t]
    BY EffectType
  <1>b. SUFFICES ASSUME NEW j \in Keys, bind'[s][j] # NoBinding
                 PROVE  bind'[s][j].cred \in Ids(refs[s])
    <2>1. ASSUME NEW t \in States, NEW j \in Keys, bind'[t][j] # NoBinding
          PROVE  bind'[t][j].cred \in Ids(refs'[t])
      <3>1. CASE t = s  BY <1>b, <2>1, <3>1
      <3>2. CASE t # s  BY <1>0, <1>a, <2>1, <3>2 DEF BindingsConfigured, Bound
      <3>3. QED  BY <3>1, <3>2
    <2>2. QED  BY <2>1 DEF BindingsConfigured, Bound
  <1>c. bind[s][j] # NoBinding => bind[s][j].cred \in Ids(refs[s])
    BY <1>0 DEF BindingsConfigured, Bound
  <1>1. CASE UNCHANGED <<bind, count>>  BY <1>1, <1>b, <1>c
  <1>2. ASSUME NEW k \in Keys, NEW at \in Nat, Touched(s, k, at)
        PROVE  bind'[s][j].cred \in Ids(refs[s])
    <2>1. bind'[s] = [bind[s] EXCEPT ![k] = [cred |-> bind[s][k].cred, at |-> at]]
      BY <1>0, <1>2 DEF Touched, Touch, TypeInv
    <2>2. bind'[s][j] = IF j = k THEN [cred |-> bind[s][k].cred, at |-> at] ELSE bind[s][j]
      BY <1>0, <2>1 DEF TypeInv
    <2>3. QED  BY <1>2, <1>b, <1>c, <2>2 DEF Touched, Bound
  <1>3. ASSUME NEW k \in Keys, NEW b, SetBinding(s, k, b),
               b = NoBinding \/ b.cred \in Ids(refs[s])
        PROVE  bind'[s][j].cred \in Ids(refs[s])
    <2>1. bind'[s][j] = IF j = k THEN b ELSE bind[s][j]
      BY <1>0, <1>3 DEF SetBinding, TypeInv
    <2>2. QED  BY <1>3, <1>b, <1>c, <2>1
  <1>4. ASSUME NEW gone \in SUBSET BoundKeys(s), DropBindings(s, gone)
        PROVE  bind'[s][j].cred \in Ids(refs[s])
    <2>1. bind'[s][j] = IF j \in gone THEN NoBinding ELSE bind[s][j]
      BY <1>0, <1>4 DEF DropBindings, TypeInv
    <2>2. QED  BY <1>b, <1>c, <2>1
  <1>5. QED  BY <1>1, <1>2, <1>3, <1>4 DEF BindEffect

-----------------------------------------------------------------------------
(* What each action does to the bindings.                                  *)

\* The hit of a call restarts the idle window of its binding; everything else
\* the full path does is a write or a drop of its entry.
LEMMA FullEffect ==
  ASSUME IndInv, NEW p \in Procs, Full(p)
  PROVE  BindEffect(calls[p].st)
  <1> DEFINE s == calls[p].st
             k == calls[p].key
             now == calls[p].now
  <1>0. TypeInv /\ s \in States /\ k \in Keys \cup {NoKey} /\ now \in Nat /\ refs' = refs
    BY DEF IndInv, TypeInv, CallInv, CallOK, InState, Full, Call
  <1>1. Healthy(s, now) \subseteq Ids(refs[s]) /\ Ids(refs[s]) \subseteq Creds
    BY <1>0, RefsType DEF Healthy
  <1>2. CASE k # NoKey /\ Valid(s, k, now)
    <2>1. Touched(s, k, now)  BY <1>2 DEF Full, Touched, Valid
    <2>2. QED  BY <1>0, <1>2, <2>1 DEF BindEffect
  <1>3. CASE ~(k # NoKey /\ Valid(s, k, now)) /\ Healthy(s, now) # {}
    <2>1. PICK c \in Healthy(s, now) :
             IF k = NoKey THEN UNCHANGED <<bind, count>> ELSE SetBinding(s, k, [cred |-> c, at |-> now])
      BY <1>3 DEF Full
    <2>2. [cred |-> c, at |-> now] \in Binding /\ [cred |-> c, at |-> now].cred \in Ids(refs[s])
      BY <1>0, <1>1 DEF Binding
    <2>3. QED  BY <1>0, <2>1, <2>2 DEF BindEffect
  <1>4. CASE ~(k # NoKey /\ Valid(s, k, now)) /\ Healthy(s, now) = {}
    <2>1. IF k = NoKey THEN UNCHANGED <<bind, count>> ELSE SetBinding(s, k, NoBinding)
      BY <1>4 DEF Full
    <2>2. QED  BY <1>0, <2>1 DEF BindEffect
  <1>5. QED  BY <1>2, <1>3, <1>4

\* An exclusion rebinds or leaves the bindings alone.
LEMMA ExcludeEffect ==
  ASSUME IndInv, NEW p \in Procs, Exclude(p)
  PROVE  BindEffect(calls[p].st)
  <1> DEFINE s == calls[p].st
             k == calls[p].key
             now == calls[p].now
             rest == Healthy(s, now) \ {calls[p].cred}
  <1>0. TypeInv /\ s \in States /\ k \in Keys \cup {NoKey} /\ now \in Nat /\ refs' = refs
    BY DEF IndInv, TypeInv, CallInv, CallOK, InState, Exclude, Call
  <1>1. rest \subseteq Ids(refs[s]) /\ Ids(refs[s]) \subseteq Creds
    BY <1>0, RefsType DEF Healthy
  <1>2. CASE KeepsBinding(p) \/ rest = {}
    <2>1. UNCHANGED <<bind, count>>  BY <1>2 DEF Exclude
    <2>2. QED  BY <2>1 DEF BindEffect
  <1>3. CASE ~KeepsBinding(p) /\ rest # {}
    <2>1. PICK c \in rest :
             IF k = NoKey THEN UNCHANGED <<bind, count>> ELSE RebindTo(s, k, [cred |-> c, at |-> now])
      BY <1>3 DEF Exclude
    <2>2. [cred |-> c, at |-> now] \in Binding /\ [cred |-> c, at |-> now].cred \in Ids(refs[s])
      BY <1>0, <1>1 DEF Binding
    <2>3. CASE k = NoKey  BY <2>1, <2>3 DEF BindEffect
    <2>4. CASE k # NoKey
      <3>1. SetBinding(s, k, [cred |-> c, at |-> now])  BY <1>0, <2>1, <2>2, <2>4, RebindIsSet
      <3>2. QED  BY <1>0, <2>2, <2>4, <3>1 DEF BindEffect
    <2>5. QED  BY <2>3, <2>4
  <1>4. QED  BY <1>2, <1>3

\* Every step of a request writes the bindings of its state in one of these
\* ways, and no list.
LEMMA RequestEffect ==
  ASSUME IndInv, NEW p \in Procs, Request(p)
  PROVE  \E s \in States : BindEffect(s) /\ UNCHANGED <<inc, refs>>
  <1>1. CASE UNCHANGED engVars
    BY <1>1, StatesAssumption DEF engVars, BindEffect, States
  <1>2. CASE Confirm(p)
    <2>1. calls[p].st \in States /\ calls[p].key \in Keys /\ calls[p].now \in Nat
      BY <1>2 DEF Confirm, IndInv, CallInv, CallOK, InState, TypeInv, Call
    <2>2. BindEffect(calls[p].st)  BY <1>2, <2>1 DEF Confirm, BindEffect, Touched
    <2>3. QED  BY <1>2, <2>1, <2>2 DEF Confirm
  <1>3. CASE Full(p)
    BY <1>3, FullEffect DEF Full, IndInv, CallInv, CallOK, InState
  <1>4. CASE Exclude(p)
    BY <1>4, ExcludeEffect DEF Exclude, IndInv, CallInv, CallOK, InState
  <1>5. QED
    BY <1>1, <1>2, <1>3, <1>4
    DEF Request, StartGet, StartExclude, Lookup, CredCount, FirstCredential, Probe

\* A change of the configuration, the janitor and the clock.
LEMMA OtherEffect ==
  ASSUME IndInv, ConfigChange \/ SweepStart \/ SweepOnce \/ Stop \/ Tick
  PROVE  \E s \in States : BindEffect(s)
  <1>0. inc # 0 => inc \in States  BY DEF IndInv, TypeInv
  <1>1. CASE UNCHANGED <<bind, count>>
    BY <1>1, StatesAssumption DEF BindEffect, States
  <1>2. ASSUME NEW list \in RefLists, OnModelChanged(list)
        PROVE  BindEffect(inc) /\ inc \in States
    <2>1. {k \in Keys : Bound(inc, k) /\ bind[inc][k].cred \notin Ids(list)} \in SUBSET BoundKeys(inc)
      BY DEF BoundKeys
    <2>2. QED  BY <1>0, <1>2, <2>1 DEF OnModelChanged, BindEffect
  <1>3. ASSUME NEW c \in Creds, OnCredentialDeleted(c)
        PROVE  BindEffect(inc) /\ inc \in States
    <2>1. {k \in Keys : Bound(inc, k) /\ bind[inc][k].cred = c} \in SUBSET BoundKeys(inc)
      BY DEF BoundKeys
    <2>2. QED  BY <1>0, <1>3, <2>1 DEF OnCredentialDeleted, BindEffect
  <1>4. CASE SweepOnce /\ inc # 0
    <2>1. {k \in Keys : Bound(inc, k) /\ Expired(bind[inc][k], sweepAt)} \in SUBSET BoundKeys(inc)
      BY DEF BoundKeys
    <2>2. QED  BY <1>0, <1>4, <2>1 DEF SweepOnce, BindEffect
  <1>5. QED
    BY <1>1, <1>2, <1>3, <1>4
    DEF ConfigChange, ModelAdded, ModelRemoved, SweepStart, SweepOnce, Stop, Tick, engVars

\* A replaced list drops the bindings it orphans; a new state has none.
LEMMA ConfigConfigured ==
  ASSUME IndInv, ConfigChange
  PROVE  BindingsConfigured'
  <1>0. TypeInv /\ BindingsConfigured /\ (inc # 0 => inc \in States)
    BY DEF IndInv, TypeInv
  <1>1. ASSUME NEW list \in RefLists, OnModelChanged(list)
        PROVE  BindingsConfigured'
    <2>1. SUFFICES ASSUME NEW t \in States, NEW j \in Keys, bind'[t][j] # NoBinding
                   PROVE  bind'[t][j].cred \in Ids(refs'[t])
      BY DEF BindingsConfigured, Bound
    <2>2. CASE t # inc
      BY <1>0, <1>1, <2>1, <2>2
      DEF OnModelChanged, DropBindings, TypeInv, BindingsConfigured, Bound
    <2>3. CASE t = inc
      <3>1. bind'[t][j] = IF Bound(t, j) /\ bind[t][j].cred \notin Ids(list)
                          THEN NoBinding ELSE bind[t][j]
        BY <1>0, <1>1, <2>3 DEF OnModelChanged, DropBindings, TypeInv
      <3>2. refs'[t] = list  BY <1>0, <1>1, <2>3 DEF OnModelChanged, TypeInv
      <3>3. QED  BY <2>1, <3>1, <3>2 DEF Bound
    <2>4. QED  BY <2>2, <2>3
  <1>2. ASSUME NEW list \in RefLists, ModelAdded(list)
        PROVE  BindingsConfigured'
    <2>1. PICK s \in States : /\ \A t \in States : refs[t] # <<>> <=> t < s
                              /\ refs' = [refs EXCEPT ![s] = list]
      BY <1>2 DEF ModelAdded
    <2>2. refs[s] = <<>>  BY <2>1, StatesAssumption DEF States
    <2>3. \A j \in Keys : bind[s][j] = NoBinding
      BY <1>0, <2>2 DEF BindingsConfigured, Bound, Ids
    <2>4. QED
      BY <1>0, <1>2, <2>1, <2>3 DEF ModelAdded, BindingsConfigured, Bound, TypeInv
  <1>3. CASE refs' = refs
    BY <1>3, OtherEffect, EffectConfigured
  <1>4. QED
    BY <1>1, <1>2, <1>3 DEF ConfigChange, ModelRemoved, OnCredentialDeleted

-----------------------------------------------------------------------------
(* The rest of the types, and what calls know.                             *)

\* A call moves on.
LEMMA GotoType ==
  ASSUME calls \in [Procs -> Call], NEW p \in Procs, NEW pc \in {"confirm", "full", "count", "first", "probe", "exclude"},
         calls' = [calls EXCEPT ![p].pc = pc]
  PROVE  /\ calls' \in [Procs -> Call]
         /\ calls'[p].pc = pc
         /\ \A q \in Procs \ {p} : calls'[q] = calls[q]
         /\ calls'[p].op = calls[p].op /\ calls'[p].key = calls[p].key /\ calls'[p].cred = calls[p].cred /\ calls'[p].cd = calls[p].cd
         /\ calls'[p].now = calls[p].now /\ calls'[p].st = calls[p].st /\ calls'[p].n = calls[p].n
  BY Zenon DEF Call

\* A call finds the model.
LEMMA FoundType ==
  ASSUME calls \in [Procs -> Call], NEW p \in Procs, NEW s \in States,
         calls' = [calls EXCEPT ![p] = [calls[p] EXCEPT !.pc = "count", !.st = s]]
  PROVE  /\ calls' \in [Procs -> Call] /\ \A q \in Procs \ {p} : calls'[q] = calls[q]
         /\ calls'[p].pc = "count" /\ calls'[p].st = s
         /\ calls'[p].op = calls[p].op /\ calls'[p].key = calls[p].key /\ calls'[p].cred = calls[p].cred
         /\ calls'[p].cd = calls[p].cd /\ calls'[p].now = calls[p].now /\ calls'[p].n = calls[p].n
  <1> DEFINE c == [calls[p] EXCEPT !.pc = "count", !.st = s]
  <1>1. c \in Call  BY Zenon DEF Call
  <1>2. c.pc = "count" /\ c.st = s  BY Zenon DEF Call
  <1>3. c.op = calls[p].op /\ c.key = calls[p].key /\ c.cred = calls[p].cred  BY Zenon DEF Call
  <1>4. c.cd = calls[p].cd /\ c.now = calls[p].now /\ c.n = calls[p].n  BY Zenon DEF Call
  <1> HIDE DEF c
  <1>5. calls' = [calls EXCEPT ![p] = c]  BY DEF c
  <1>6. QED  BY <1>1, <1>2, <1>3, <1>4, <1>5

\* A call knows the number of credentials.
LEMMA CountedType ==
  ASSUME calls \in [Procs -> Call], NEW p \in Procs,
         NEW pc \in {"full", "first", "probe", "exclude"},
         NEW n \in Nat,
         calls' = [calls EXCEPT ![p] = [calls[p] EXCEPT !.pc = pc, !.n = n]]
  PROVE  /\ calls' \in [Procs -> Call] /\ \A q \in Procs \ {p} : calls'[q] = calls[q]
         /\ calls'[p].pc = pc /\ calls'[p].n = n
         /\ calls'[p].op = calls[p].op /\ calls'[p].key = calls[p].key /\ calls'[p].cred = calls[p].cred
         /\ calls'[p].cd = calls[p].cd /\ calls'[p].now = calls[p].now /\ calls'[p].st = calls[p].st
  <1> DEFINE c == [calls[p] EXCEPT !.pc = pc, !.n = n]
  <1>1. c \in Call  BY Zenon DEF Call
  <1>2. c.pc = pc /\ c.n = n  BY Zenon DEF Call
  <1>3. c.op = calls[p].op /\ c.key = calls[p].key /\ c.cred = calls[p].cred  BY Zenon DEF Call
  <1>4. c.cd = calls[p].cd /\ c.now = calls[p].now /\ c.st = calls[p].st  BY Zenon DEF Call
  <1> HIDE DEF c
  <1>5. calls' = [calls EXCEPT ![p] = c]  BY DEF c
  <1>6. QED  BY <1>1, <1>2, <1>3, <1>4, <1>5

\* A call has seen a binding, or has found that it is gone.
LEMMA ProbedType ==
  ASSUME calls \in [Procs -> Call], NEW p \in Procs, NEW d \in Creds \cup {NoCred},
         NEW pc \in {"confirm", "full"},
         calls' = [calls EXCEPT ![p] = [calls[p] EXCEPT !.pc = pc, !.cred = d]]
  PROVE  /\ calls' \in [Procs -> Call] /\ \A q \in Procs \ {p} : calls'[q] = calls[q]
         /\ calls'[p].pc = pc /\ calls'[p].cred = d
         /\ calls'[p].op = calls[p].op /\ calls'[p].key = calls[p].key /\ calls'[p].cd = calls[p].cd
         /\ calls'[p].now = calls[p].now /\ calls'[p].st = calls[p].st /\ calls'[p].n = calls[p].n
  <1> DEFINE c == [calls[p] EXCEPT !.pc = pc, !.cred = d]
  <1>1. c \in Call  BY Zenon DEF Call
  <1>2. c.pc = pc /\ c.cred = d  BY Zenon DEF Call
  <1>3. c.op = calls[p].op /\ c.key = calls[p].key /\ c.cd = calls[p].cd  BY Zenon DEF Call
  <1>4. c.now = calls[p].now /\ c.st = calls[p].st /\ c.n = calls[p].n  BY Zenon DEF Call
  <1> HIDE DEF c
  <1>5. calls' = [calls EXCEPT ![p] = c]  BY DEF c
  <1>6. QED  BY <1>1, <1>2, <1>3, <1>4, <1>5

\* Steps of a request keep calls well formed.
LEMMA RequestCalls ==
  ASSUME IndInv, NEW p \in Procs, Request(p)
  PROVE  /\ calls' \in [Procs -> Call] /\ CallInv'
         /\ \A q \in Procs \ {p} : calls'[q] = calls[q]
  <1>0. /\ TypeInv /\ CallInv /\ RefsInv /\ calls \in [Procs -> Call] /\ calls[p] \in Call
        /\ CallOK(calls[p])
    BY DEF IndInv, TypeInv, CallInv
  <1>r. refs' = refs /\ inc' = inc  BY RequestEffect
  <1>s. SUFFICES /\ calls' \in [Procs -> Call] /\ CallOK(calls'[p])
                 /\ \A q \in Procs \ {p} : calls'[q] = calls[q]
    <2>1. ASSUME NEW q \in Procs  PROVE CallOK(calls[q])'
      <3>1. CASE q = p  BY <1>s, <1>r, <3>1 DEF CallOK
      <3>2. CASE q # p  BY <1>0, <1>s, <1>r, <3>2 DEF CallInv, CallOK
      <3>3. QED  BY <3>1, <3>2
    <2>2. QED  BY <1>s, <2>1 DEF CallInv
  <1>a. ASSUME NEW c \in Creds \cup {NoCred},
               Answer(p, c)
        PROVE  /\ calls' \in [Procs -> Call] /\ CallOK(calls'[p])
               /\ \A q \in Procs \ {p} : calls'[q] = calls[q]
    BY <1>0, <1>a, AnswerType DEF CallOK, InState
  <1>1. ASSUME NEW k \in Keys \cup {NoKey}, StartGet(p, k)
        PROVE  /\ calls' \in [Procs -> Call] /\ CallOK(calls'[p])
               /\ \A q \in Procs \ {p} : calls'[q] = calls[q]
    BY <1>0, <1>1 DEF StartGet, TypeInv, CallOK, Call, Idle, InState
  <1>2. ASSUME NEW cd \in Cooldowns, StartExclude(p, cd)
        PROVE  /\ calls' \in [Procs -> Call] /\ CallOK(calls'[p])
               /\ \A q \in Procs \ {p} : calls'[q] = calls[q]
    BY <1>0, <1>2, CooldownType DEF StartExclude, TypeInv, CallOK, Call, Idle, InState
  <1>3. CASE Lookup(p)
    <2>1. CASE inc = 0  BY <1>3, <1>a, <2>1 DEF Lookup
    <2>2. CASE inc # 0
      <3>1. inc \in States /\ refs[inc] # <<>>  BY <1>0, <2>2 DEF TypeInv, RefsInv
      <3>2. calls' = [calls EXCEPT ![p] = [calls[p] EXCEPT !.pc = "count", !.st = inc]]  BY <1>3, <2>2 DEF Lookup
      <3>3. QED  BY <1>0, <1>3, <3>1, <3>2, FoundType DEF Lookup, CallOK, InState
    <2>3. QED  BY <2>1, <2>2
  <1>4. CASE CredCount(p)
    <2> DEFINE n == Len(refs[calls[p].st])
               pc == IF calls[p].op = "exclude" THEN "exclude"
                     ELSE IF n = 1 THEN "first"
                     ELSE IF calls[p].key # NoKey THEN "probe" ELSE "full"
    <2>1. CASE calls[p].op = "exclude" /\ n = 1  BY <1>4, <1>a, <2>1 DEF CredCount
    <2>2. CASE ~(calls[p].op = "exclude" /\ n = 1)
      <3>1. calls' = [calls EXCEPT ![p] = [calls[p] EXCEPT !.pc = pc, !.n = n]]  BY <1>4, <2>2 DEF CredCount
      <3>2. calls[p].pc = "count" /\ calls[p].st \in States /\ calls[p].op \in {"get", "exclude"}
             /\ calls[p].key \in Keys \cup {NoKey}
        BY <1>0, <1>4 DEF CredCount, CallOK, InState, Call
      <3>3. n \in Nat  BY <1>0, <3>2, RefsType
      <3>4. pc \in {"full", "first", "probe", "exclude"}  OBVIOUS
      <3>5. /\ pc = "first" => n = 1
            /\ pc = "probe" => calls[p].key \in Keys
            /\ pc = "exclude" <=> calls[p].op = "exclude"
            /\ pc # "confirm"
        BY <3>2
      <3> HIDE DEF pc, n
      <3>6. /\ calls' \in [Procs -> Call] /\ \A q \in Procs \ {p} : calls'[q] = calls[q]
            /\ calls'[p].pc = pc /\ calls'[p].n = n /\ calls'[p].op = calls[p].op
            /\ calls'[p].key = calls[p].key /\ calls'[p].cred = calls[p].cred
            /\ calls'[p].st = calls[p].st
        BY <1>0, <3>1, <3>3, <3>4, CountedType, Zenon
      <3>7. QED  BY <1>0, <3>2, <3>4, <3>5, <3>6 DEF CallOK, InState
    <2>3. QED  BY <2>1, <2>2
  <1>5. CASE FirstCredential(p)
    <2>1. Head(refs[calls[p].st]) \in Creds
      BY <1>0, <1>5, RefsType DEF FirstCredential, CallOK, InState
    <2>2. QED  BY <1>5, <1>a, <2>1 DEF FirstCredential
  <1>6. CASE Probe(p)
    <2>0. calls[p].pc = "probe" /\ calls[p].st \in States /\ calls[p].key \in Keys
      BY <1>0, <1>6 DEF Probe, CallOK, InState
    <2>1. CASE Valid(calls[p].st, calls[p].key, calls[p].now)
      <3>1. bind[calls[p].st][calls[p].key].cred \in Creds
        BY <2>0, <2>1, BoundCred DEF Valid, IndInv
      <3>2. calls' = [calls EXCEPT ![p] = [calls[p] EXCEPT !.pc = "confirm",
                        !.cred = bind[calls[p].st][calls[p].key].cred]]
        BY <1>6, <2>1 DEF Probe
      <3>3. QED  BY <1>0, <2>0, <3>1, <3>2, ProbedType DEF CallOK, InState
    <2>2. CASE ~Valid(calls[p].st, calls[p].key, calls[p].now)
      <3>1. calls' = [calls EXCEPT ![p].pc = "full"]  BY <1>6, <2>2 DEF Probe, Goto
      <3>2. QED  BY <1>0, <2>0, <3>1, GotoType DEF CallOK, InState
    <2>3. QED  BY <2>1, <2>2
  <1>7. CASE Confirm(p)
    <2>0. calls[p].pc = "confirm" /\ calls[p].st \in States /\ calls[p].key \in Keys
           /\ calls[p].cred \in Creds
      BY <1>0, <1>7 DEF Confirm, CallOK, InState
    <2>1. CASE Answer(p, calls[p].cred)  BY <1>a, <2>0, <2>1
    <2>2. CASE LeaveProbe(p)
      BY <1>0, <2>0, <2>2, ProbedType DEF CallOK, InState, LeaveProbe
    <2>3. QED  BY <1>7, <2>1, <2>2 DEF Confirm
  <1>8. CASE Full(p)
    <2>0. calls[p].st \in States /\ calls[p].key \in Keys \cup {NoKey}
      BY <1>0, <1>8 DEF Full, CallOK, InState, Call
    <2>1. Ids(refs[calls[p].st]) \subseteq Creds  BY <1>0, <2>0, RefsType
    <2>2. Healthy(calls[p].st, calls[p].now) \subseteq Creds
           /\ Soonest(refs[calls[p].st], cool[calls[p].st]) \subseteq Creds
      BY <2>1, SoonestType DEF Healthy
    <2>3. calls[p].key # NoKey /\ Valid(calls[p].st, calls[p].key, calls[p].now)
            => bind[calls[p].st][calls[p].key].cred \in Creds
      BY <2>0, BoundCred DEF Valid, IndInv
    <2>4. \E c \in Creds : Answer(p, c)
      BY <1>8, <2>2, <2>3 DEF Full
    <2>5. QED  BY <1>a, <2>4
  <1>9. CASE Exclude(p)
    <2>0. calls[p].st \in States /\ calls[p].key \in Keys \cup {NoKey}
      BY <1>0, <1>9 DEF Exclude, CallOK, InState, Call
    <2>1. Ids(refs[calls[p].st]) \subseteq Creds  BY <1>0, <2>0, RefsType
    <2>2. Healthy(calls[p].st, calls[p].now) \subseteq Creds
           /\ Soonest(refs[calls[p].st], cool'[calls[p].st]) \subseteq Creds
      BY <2>1, SoonestType DEF Healthy
    <2>3. KeepsBinding(p) => bind[calls[p].st][calls[p].key].cred \in Creds
      BY <2>0, BoundCred DEF KeepsBinding, IndInv
    <2>4. \E c \in Creds : Answer(p, c)
      BY <1>9, <2>2, <2>3 DEF Exclude
    <2>5. QED  BY <1>a, <2>4
  <1>10. QED  BY <1>1, <1>2, <1>3, <1>4, <1>5, <1>6, <1>7, <1>8, <1>9 DEF Request

\* Cooldowns stay numbers.
LEMMA CoolType ==
  ASSUME IndInv, Next
  PROVE  cool' \in [States -> [Creds -> Nat]]
  <1>0. TypeInv /\ (inc # 0 => inc \in States) /\ cool \in [States -> [Creds -> Nat]]
    BY DEF IndInv, TypeInv
  <1>1. CASE cool' = cool  BY <1>0, <1>1
  <1>2. ASSUME NEW p \in Procs, Exclude(p)  PROVE cool' \in [States -> [Creds -> Nat]]
    <2>1. calls[p].st \in States /\ calls[p].cred \in Creds /\ calls[p].now + calls[p].cd \in Nat
      BY <1>0, <1>2 DEF Exclude, IndInv, CallInv, CallOK, InState, TypeInv, Call
    <2>2. cool' = [cool EXCEPT ![calls[p].st][calls[p].cred] = calls[p].now + calls[p].cd]
      BY <1>2 DEF Exclude
    <2>3. QED  BY <1>0, <2>1, <2>2
  <1>3. ASSUME NEW c \in Creds, OnCredentialDeleted(c)  PROVE cool' \in [States -> [Creds -> Nat]]
    BY <1>0, <1>3 DEF OnCredentialDeleted
  <1>4. CASE SweepOnce /\ inc # 0  BY <1>0, <1>4 DEF SweepOnce
  <1>5. QED
    BY <1>1, <1>2, <1>3, <1>4
    DEF Next, Request, StartGet, StartExclude, Lookup, CredCount, FirstCredential, Probe, Confirm,
        Full, ConfigChange, OnModelChanged, ModelAdded, ModelRemoved, SweepStart, SweepOnce,
        Stop, Tick, engVars

\* Lists stay lists, and a state that has one keeps one.
LEMMA RefsStep ==
  ASSUME IndInv, Next
  PROVE  /\ inc' \in States \cup {0} /\ refs' \in [States -> RefLists \cup {<<>>}]
         /\ \A s \in States : refs[s] # <<>> => refs'[s] # <<>>
         /\ RefsInv'
  <1>0. TypeInv /\ RefsInv  BY DEF IndInv
  <1>1. CASE UNCHANGED <<inc, refs>>  BY <1>0, <1>1 DEF TypeInv, RefsInv
  <1>2. CASE ModelRemoved  BY <1>0, <1>2 DEF TypeInv, RefsInv, ModelRemoved
  <1>3. ASSUME NEW list \in RefLists, OnModelChanged(list) \/ ModelAdded(list)
        PROVE  /\ inc' \in States \cup {0} /\ refs' \in [States -> RefLists \cup {<<>>}]
               /\ \A s \in States : refs[s] # <<>> => refs'[s] # <<>>
               /\ RefsInv'
    <2>1. list # <<>>  BY ListsAssumption
    <2>2. \E s \in States : inc' = s /\ refs' = [refs EXCEPT ![s] = list]
      BY <1>0, <1>3 DEF OnModelChanged, ModelAdded, TypeInv
    <2>3. QED  BY <1>0, <2>1, <2>2 DEF TypeInv, RefsInv
  <1>4. QED
    BY <1>1, <1>2, <1>3, RequestEffect
    DEF Next, ConfigChange, OnCredentialDeleted, SweepStart, SweepOnce, Stop, Tick, engVars

\* The invariant holds at startup.
LEMMA InitInv == Init => IndInv
  <1> SUFFICES ASSUME Init PROVE IndInv  OBVIOUS
  <1>1. 1 \in States  BY StatesAssumption DEF States
  <1>2. PICK list \in RefLists : refs = [s \in States |-> IF s = 1 THEN list ELSE <<>>]
    BY DEF Init
  <1>3. list # <<>>  BY ListsAssumption
  <1>4. \A s \in States, k \in Keys : bind[s][k] = NoBinding  BY DEF Init
  <1>5. TypeInv
    <2>1. /\ inc \in States \cup {0} /\ refs \in [States -> RefLists \cup {<<>>}]
          /\ cool \in [States -> [Creds -> Nat]] /\ count \in [States -> Int]
          /\ sweepAt \in Nat /\ clock \in Nat \ {0}
      BY <1>1, <1>2 DEF Init
    <2>2. bind \in [States -> [Keys -> [cred : Creds \cup {NoCred}, at : Nat]]]
      BY DEF Init, NoBinding
    <2>3. Idle \in Call  BY DEF Idle, Call
    <2>4. calls \in [Procs -> Call]  BY <2>3 DEF Init
    <2>5. stopped \in BOOLEAN  BY Zenon DEF Init
    <2>6. QED  BY <2>1, <2>2, <2>4, <2>5 DEF TypeInv
  <1>6. CallInv  BY DEF Init, CallInv, CallOK, Idle, InState
  <1>7. RefsInv  BY <1>1, <1>2, <1>3 DEF Init, RefsInv
  <1>8. CountMirrors
    <2>1. \A s \in States : {k \in Keys : Bound(s, k)} = {}  BY <1>4 DEF Bound
    <2>2. QED  BY <2>1, FS_EmptySet DEF CountMirrors, Init
  <1>9. BindingsConfigured  BY <1>4 DEF BindingsConfigured, Bound
  <1>10. QED  BY <1>5, <1>6, <1>7, <1>8, <1>9 DEF IndInv

\* Every step keeps it.
LEMMA Inductive == IndInv /\ [Next]_vars => IndInv'
  <1> SUFFICES ASSUME IndInv, [Next]_vars PROVE IndInv'  OBVIOUS
  <1>1. CASE UNCHANGED vars
    BY <1>1
    DEF vars, engVars, IndInv, TypeInv, CallInv, CallOK, RefsInv, CountMirrors, BindingsConfigured, Bound
  <1>2. CASE Next
    <2>1. PICK s \in States : BindEffect(s)
      BY <1>2, RequestEffect, OtherEffect DEF Next
    <2>2. /\ bind' \in [States -> [Keys -> [cred : Creds \cup {NoCred}, at : Nat]]]
          /\ count' \in [States -> Int]
      BY <2>1, EffectType
    <2>3. CountMirrors'  BY <2>1, EffectCount
    <2>4. BindingsConfigured'
      <3>1. CASE refs' = refs  BY <2>1, <3>1, EffectConfigured
      <3>2. CASE ConfigChange  BY <3>2, ConfigConfigured
      <3>3. QED
        BY <1>2, <3>1, <3>2, RequestEffect DEF Next, SweepStart, SweepOnce, Stop, Tick, engVars
    <2>5. calls' \in [Procs -> Call] /\ CallInv'
      <3>1. CASE \E p \in Procs : Request(p)  BY <3>1, RequestCalls
      <3>2. CASE calls' = calls
        <4>1. calls \in [Procs -> Call] /\ CallInv  BY DEF IndInv, TypeInv
        <4>2. \A p \in Procs : CallOK(calls[p])'
          BY <1>2, <3>2, <4>1, RefsStep DEF CallInv, CallOK
        <4>3. QED  BY <3>2, <4>1, <4>2 DEF CallInv
      <3>3. QED
        BY <1>2, <3>1, <3>2
        DEF Next, ConfigChange, OnModelChanged, ModelAdded, ModelRemoved, OnCredentialDeleted,
            SweepStart, SweepOnce, Stop, Tick
    <2>6. sweepAt' \in Nat /\ stopped' \in BOOLEAN /\ clock' \in Nat \ {0}
      <3>1. sweepAt \in Nat /\ stopped \in BOOLEAN /\ clock \in Nat \ {0}  BY DEF IndInv, TypeInv
      <3>2. sweepAt' \in {sweepAt, clock, 0} /\ stopped' \in {stopped, TRUE}
             /\ clock' \in {clock, clock + 1}
        BY <1>2
        DEF Next, Request, StartGet, StartExclude, Lookup, CredCount, FirstCredential, Probe,
            Confirm, Full, Exclude, ConfigChange, OnModelChanged, ModelAdded, ModelRemoved,
            OnCredentialDeleted, SweepStart, SweepOnce, Stop, Tick
      <3>3. sweepAt' \in Nat /\ clock' \in Nat \ {0}
        <4>1. sweepAt \in Nat /\ clock \in Nat \ {0}  BY <3>1
        <4>2. sweepAt' \in {sweepAt, clock, 0} /\ clock' \in {clock, clock + 1}  BY <3>2
        <4>3. QED  BY <4>1, <4>2
      <3>4. stopped' \in BOOLEAN  BY <3>1, <3>2, Zenon
      <3>5. QED  BY <3>3, <3>4
    <2>7. TypeInv'  BY <1>2, <2>2, <2>5, <2>6, CoolType, RefsStep DEF TypeInv
    <2>8. QED  BY <1>2, <2>3, <2>4, <2>5, <2>7, RefsStep DEF IndInv
  <1>3. QED  BY <1>1, <1>2

\* So it holds in every state of every behaviour.
LEMMA IndInvHolds == Spec => []IndInv
  BY InitInv, Inductive, PTL DEF Spec

-----------------------------------------------------------------------------
(* The theorems.                                                           *)

\* bindingsCount mirrors the number of bindings, whatever requests, store and
\* janitor do to the map.
THEOREM CountCorrect == Spec => []CountMirrors
  <1>1. IndInv => CountMirrors  BY DEF IndInv
  <1>2. QED  BY IndInvHolds, <1>1, PTL

\* No binding of the engine points at a credential that is not configured.
THEOREM ConfiguredAlways == Spec => []BindingsConfigured
  <1>1. IndInv => BindingsConfigured  BY DEF IndInv
  <1>2. QED  BY IndInvHolds, <1>1, PTL

\* Types, with the unsigned bindingsCount never below zero.
THEOREM TypeCorrect == Spec => []TypeOK
  <1>1. ASSUME IndInv  PROVE TypeOK
    <2>1. ASSUME NEW s \in States  PROVE count[s] \in Nat
      <3>1. IsFiniteSet({k \in Keys : Bound(s, k)})
        <4>1. {k \in Keys : Bound(s, k)} \in SUBSET Keys  OBVIOUS
        <4>2. QED  BY <4>1, CallersAssumption, FS_Subset
      <3>2. Cardinality({k \in Keys : Bound(s, k)}) \in Nat  BY <3>1, FS_CardinalityType
      <3>3. QED  BY <1>1, <3>2 DEF IndInv, CountMirrors
    <2>2. count \in [States -> Nat]  BY <1>1, <2>1 DEF IndInv, TypeInv
    <2>3. QED  BY <1>1, <2>2 DEF IndInv, TypeInv, TypeOK
  <1>2. QED  BY IndInvHolds, <1>1, PTL

\* A get answers, and leaves bound, what one critical section would have, no
\* matter what others did between its probe and its confirmation.
THEOREM GetAtomic == Spec => GetIsAtomic
  <1> DEFINE Good(p) ==
        LET s == calls[p].st  k == calls[p].key IN
        calls[p].op = "get" /\ calls[p].n > 1 /\ calls'[p].pc = "answered" /\ calls[p].pc # "answered"
        => /\ calls'[p].cred \in AtomicAnswers(s, k, calls[p].now)
           /\ k # NoKey /\ ~IsCooling(s, calls'[p].cred, calls[p].now)
              => bind'[s][k].cred = calls'[p].cred
  <1>1. ASSUME IndInv, Next, NEW p \in Procs  PROVE Good(p)
    <2> DEFINE s == calls[p].st
               k == calls[p].key
               now == calls[p].now
    <2>0. TypeInv /\ BindingsConfigured /\ CallOK(calls[p]) /\ calls \in [Procs -> Call]
           /\ calls[p] \in Call
      BY <1>1 DEF IndInv, TypeInv, CallInv
    <2>1. CASE calls'[p].pc = calls[p].pc  BY <2>1
    <2>2. CASE Confirm(p)
      <3>1. s \in States /\ k \in Keys /\ calls[p].cred \in Creds
        BY <2>0, <2>2 DEF Confirm, CallOK, InState
      <3>2. CASE LeaveProbe(p)
        <4>1. calls'[p].pc = "full"  BY <2>0, <3>2, ProbedType DEF LeaveProbe
        <4>2. QED  BY <4>1
      <3>3. CASE ~LeaveProbe(p)
        <4>1. /\ Bound(s, k) /\ bind[s][k].cred = calls[p].cred
              /\ ~Expired(bind[s][k], now) /\ ~IsCooling(s, bind[s][k].cred, now)
              /\ Touch(s, k, now) /\ Answer(p, bind[s][k].cred)
          BY <2>2, <3>3 DEF Confirm
        <4>2. bind[s][k].cred \in Ids(refs[s])  BY <2>0, <3>1, <4>1 DEF BindingsConfigured
        <4>3. k # NoKey /\ Valid(s, k, now)  BY <3>1, <4>1, <4>2, CallersAssumption DEF Valid
        <4>4. AtomicAnswers(s, k, now) = {bind[s][k].cred}  BY <4>3 DEF AtomicAnswers
        <4>5. calls'[p].cred = bind[s][k].cred  BY <2>0, <3>1, <4>1, AnswerType
        <4>6. bind'[s][k].cred = bind[s][k].cred  BY <2>0, <3>1, <4>1 DEF Touch, TypeInv
        <4>7. QED  BY <4>4, <4>5, <4>6
      <3>4. QED  BY <3>2, <3>3
    <2>3. CASE Full(p)
      <3>1. s \in States /\ k \in Keys \cup {NoKey}
        BY <2>0, <2>3 DEF Full, CallOK, InState, Call
      <3>2. Ids(refs[s]) \subseteq Creds  BY <2>0, <3>1, RefsType
      <3>3. CASE k # NoKey /\ Valid(s, k, now)
        <4>1. Touch(s, k, now) /\ Answer(p, bind[s][k].cred)  BY <2>3, <3>3 DEF Full
        <4>2. bind[s][k].cred \in Creds  BY <3>2, <3>3 DEF Valid
        <4>3. calls'[p].cred = bind[s][k].cred  BY <2>0, <4>1, <4>2, AnswerType
        <4>4. bind'[s][k].cred = bind[s][k].cred  BY <2>0, <3>1, <3>3, <4>1 DEF Touch, TypeInv
        <4>5. AtomicAnswers(s, k, now) = {bind[s][k].cred}  BY <3>3 DEF AtomicAnswers
        <4>6. QED  BY <4>3, <4>4, <4>5
      <3>4. CASE ~(k # NoKey /\ Valid(s, k, now)) /\ Healthy(s, now) # {}
        <4>1. PICK c \in Healthy(s, now) :
                 /\ Answer(p, c)
                 /\ k # NoKey => SetBinding(s, k, [cred |-> c, at |-> now])
          BY <2>3, <3>4 DEF Full
        <4>2. c \in Creds  BY <3>2 DEF Healthy
        <4>3. calls'[p].cred = c  BY <2>0, <4>1, <4>2, AnswerType
        <4>4. k # NoKey => bind'[s][k].cred = c  BY <2>0, <3>1, <4>1 DEF SetBinding, TypeInv
        <4>5. AtomicAnswers(s, k, now) = Healthy(s, now)  BY <3>4 DEF AtomicAnswers
        <4>6. QED  BY <4>3, <4>4, <4>5
      <3>5. CASE ~(k # NoKey /\ Valid(s, k, now)) /\ Healthy(s, now) = {}
        <4>1. PICK c \in Soonest(refs[s], cool[s]) : Answer(p, c)
          BY <2>3, <3>5 DEF Full
        <4>2. c \in Creds  BY <3>2, SoonestType
        <4>3. calls'[p].cred = c  BY <2>0, <4>1, <4>2, AnswerType
        <4>4. AtomicAnswers(s, k, now) = Soonest(refs[s], cool[s])  BY <3>5 DEF AtomicAnswers
        <4>5. IsCooling(s, c, now)  BY <3>5, <4>1, SoonestType DEF Healthy
        <4>6. QED  BY <4>1, <4>3, <4>4, <4>5
      <3>6. QED  BY <3>3, <3>4, <3>5
    <2>4. CASE calls[p].pc = "first"  BY <2>0, <2>4 DEF CallOK
    <2>5. CASE calls[p].op = "exclude"  BY <2>5
    <2>6. ASSUME NEW cd \in Cooldowns, StartExclude(p, cd)  PROVE Good(p)
      BY <2>0, <2>6 DEF StartExclude, Idle
    <2>7. CASE Lookup(p)  BY <2>0, <2>7 DEF Lookup, CallOK
    <2>8. CASE CredCount(p)  BY <2>0, <2>8 DEF CredCount, CallOK
    <2>9. CASE Probe(p)
      <3>1. s \in States /\ k \in Keys  BY <2>0, <2>9 DEF Probe, CallOK, InState
      <3>2. CASE Goto(p, "full")  BY <2>0, <3>2, GotoType DEF Goto
      <3>3. CASE ~Goto(p, "full")
        <4>1. /\ bind[s][k].cred \in Creds
              /\ calls' = [calls EXCEPT ![p] = [calls[p] EXCEPT !.pc = "confirm", !.cred = bind[s][k].cred]]
          BY <1>1, <2>0, <2>9, <3>1, <3>3, BoundCred DEF Probe, Valid
        <4>2. calls'[p].pc = "confirm"  BY <2>0, <4>1, ProbedType, Zenon
        <4>3. QED  BY <4>2
      <3>4. QED  BY <3>2, <3>3
    <2>10. CASE \E q \in Procs \ {p} : Request(q)  BY <1>1, <2>1, <2>10, RequestCalls
    <2>11. CASE calls' = calls  BY <2>1, <2>11
    <2>12. ASSUME NEW j \in Keys \cup {NoKey}, StartGet(p, j)  PROVE Good(p)
      BY <2>0, <2>12 DEF StartGet, Idle
    <2>13. CASE Request(p)
      BY <2>2, <2>3, <2>4, <2>5, <2>6, <2>7, <2>8, <2>9, <2>12, <2>13, <2>0
      DEF Request, FirstCredential, Exclude, CallOK
    <2>14. QED
      BY <1>1, <2>10, <2>11, <2>13
      DEF Next, ConfigChange, OnModelChanged, ModelAdded, ModelRemoved, OnCredentialDeleted,
          SweepStart, SweepOnce, Stop, Tick
  <1>2. IndInv /\ [Next]_vars => [\A p \in Procs : Good(p)]_vars
    BY <1>1
  <1>3. QED  BY <1>2, IndInvHolds, PTL DEF Spec, GetIsAtomic

-----------------------------------------------------------------------------
(* Affinity.                                                               *)

\* A call reads the clock first; what it excludes cools for some time.
TimeOK(c) == c.now <= clock /\ (c.op = "exclude" => c.cd > 0)
TimeInv == \A p \in Procs : TimeOK(calls[p])

\* Every cooldown the policy yields ends after it began.
LEMMA CooldownPositive == \A cd \in Cooldowns : cd > 0
  BY DurationsAssumption DEF Cooldowns, CooldownFor

\* A call goes on with the clock and the cooldown it began with, or begins, or
\* ends.
LEMMA RequestTimes ==
  ASSUME IndInv, NEW p \in Procs, Request(p), TimeOK(calls[p])
  PROVE  calls'[p].now <= clock /\ (calls'[p].op = "exclude" => calls'[p].cd > 0)
  <1>0. /\ TypeInv /\ RefsInv /\ calls \in [Procs -> Call] /\ calls[p] \in Call /\ CallOK(calls[p])
        /\ clock \in Nat
    BY DEF IndInv, TypeInv, CallInv
  <1> DEFINE Kept == calls'[p].now = calls[p].now /\ calls'[p].op = calls[p].op /\ calls'[p].cd = calls[p].cd
  <1>a. Kept => calls'[p].now <= clock /\ (calls'[p].op = "exclude" => calls'[p].cd > 0)
    BY DEF TimeOK
  <1>b. ASSUME NEW c, Answer(p, c)
        PROVE  calls'[p].now <= clock /\ (calls'[p].op = "exclude" => calls'[p].cd > 0)
    BY <1>0, <1>b DEF Answer, Idle
  <1>1. ASSUME NEW k \in Keys \cup {NoKey}, StartGet(p, k)
        PROVE  calls'[p].now <= clock /\ (calls'[p].op = "exclude" => calls'[p].cd > 0)
    BY <1>0, <1>1 DEF StartGet, Idle
  <1>2. ASSUME NEW cd \in Cooldowns, StartExclude(p, cd)
        PROVE  calls'[p].now <= clock /\ (calls'[p].op = "exclude" => calls'[p].cd > 0)
    BY <1>0, <1>2, CooldownPositive DEF StartExclude, Idle
  <1>3. CASE Lookup(p)
    <2>1. CASE inc = 0  BY <1>3, <1>b, <2>1 DEF Lookup
    <2>2. CASE inc # 0
      <3>1. inc \in States  BY <1>0, <2>2 DEF TypeInv
      <3>2. calls' = [calls EXCEPT ![p] = [calls[p] EXCEPT !.pc = "count", !.st = inc]]  BY <1>3, <2>2 DEF Lookup
      <3>3. Kept  BY <1>0, <3>1, <3>2, FoundType
      <3>4. QED  BY <1>a, <3>3
    <2>3. QED  BY <2>1, <2>2
  <1>4. CASE CredCount(p)
    <2> DEFINE n == Len(refs[calls[p].st])
               pc == IF calls[p].op = "exclude" THEN "exclude"
                     ELSE IF n = 1 THEN "first"
                     ELSE IF calls[p].key # NoKey THEN "probe" ELSE "full"
    <2>1. CASE calls[p].op = "exclude" /\ n = 1  BY <1>4, <1>b, <2>1 DEF CredCount
    <2>2. CASE ~(calls[p].op = "exclude" /\ n = 1)
      <3>1. calls' = [calls EXCEPT ![p] = [calls[p] EXCEPT !.pc = pc, !.n = n]]  BY <1>4, <2>2 DEF CredCount
      <3>2. n \in Nat  BY <1>0, <1>4, RefsType DEF CredCount, CallOK, InState
      <3>3. pc \in {"full", "first", "probe", "exclude"}  OBVIOUS
      <3> HIDE DEF pc, n
      <3>4. Kept  BY <1>0, <3>1, <3>2, <3>3, CountedType, Zenon
      <3>5. QED  BY <1>a, <3>4
    <2>3. QED  BY <2>1, <2>2
  <1>5. CASE FirstCredential(p)  BY <1>5, <1>b DEF FirstCredential
  <1>6. CASE Probe(p)
    <2>0. calls[p].st \in States /\ calls[p].key \in Keys
      BY <1>0, <1>6 DEF Probe, CallOK, InState
    <2>1. CASE Valid(calls[p].st, calls[p].key, calls[p].now)
      <3>1. bind[calls[p].st][calls[p].key].cred \in Creds
        BY <2>0, <2>1, BoundCred DEF Valid, IndInv
      <3>2. calls' = [calls EXCEPT ![p] = [calls[p] EXCEPT !.pc = "confirm",
                        !.cred = bind[calls[p].st][calls[p].key].cred]]
        BY <1>6, <2>1 DEF Probe
      <3>3. Kept  BY <1>0, <3>1, <3>2, ProbedType
      <3>4. QED  BY <1>a, <3>3
    <2>2. CASE ~Valid(calls[p].st, calls[p].key, calls[p].now)
      <3>1. calls' = [calls EXCEPT ![p].pc = "full"]  BY <1>6, <2>2 DEF Probe, Goto
      <3>2. Kept  BY <1>0, <3>1, GotoType
      <3>3. QED  BY <1>a, <3>2
    <2>3. QED  BY <2>1, <2>2
  <1>7. CASE Confirm(p)
    <2>1. CASE \E c : Answer(p, c)  BY <1>b, <2>1
    <2>2. CASE LeaveProbe(p)
      <3>1. Kept  BY <1>0, <2>2, ProbedType DEF LeaveProbe
      <3>2. QED  BY <1>a, <3>1
    <2>3. QED  BY <1>7, <2>1, <2>2 DEF Confirm
  <1>8. CASE Full(p)
    <2>1. \E c : Answer(p, c)  BY <1>8 DEF Full
    <2>2. QED  BY <1>b, <2>1
  <1>9. CASE Exclude(p)
    <2>1. \E c : Answer(p, c)  BY <1>9 DEF Exclude
    <2>2. QED  BY <1>b, <2>1
  <1>10. QED  BY <1>1, <1>2, <1>3, <1>4, <1>5, <1>6, <1>7, <1>8, <1>9 DEF Request

\* The clock does not go back, so what a call read stays in the past.
LEMMA TimeStep == IndInv /\ TimeInv /\ [Next]_vars => TimeInv'
  <1> SUFFICES ASSUME IndInv, TimeInv, [Next]_vars, NEW q \in Procs  PROVE TimeOK(calls[q])'
    BY DEF TimeInv
  <1>0. TimeOK(calls[q]) /\ calls[q] \in Call /\ clock \in Nat
    BY DEF TimeInv, IndInv, TypeInv
  <1>1. ASSUME NEW p \in Procs, Request(p)  PROVE TimeOK(calls[q])'
    <2>1. clock' = clock
      BY <1>1
      DEF Request, StartGet, StartExclude, Lookup, CredCount, FirstCredential, Probe, Confirm, Full, Exclude
    <2>2. CASE q = p  BY <1>0, <1>1, <2>1, <2>2, RequestTimes DEF TimeOK
    <2>3. CASE q # p  BY <1>0, <1>1, <2>1, <2>3, RequestCalls DEF TimeOK
    <2>4. QED  BY <2>2, <2>3
  <1>2. CASE calls' = calls /\ clock' \in {clock, clock + 1}  BY <1>0, <1>2 DEF TimeOK, Call
  <1>3. QED
    BY <1>1, <1>2
    DEF Next, ConfigChange, OnModelChanged, ModelAdded, ModelRemoved, OnCredentialDeleted,
        SweepStart, SweepOnce, Stop, Tick, vars, engVars

\* A restarted idle window leaves the credential.
LEMMA TouchKeeps ==
  ASSUME TypeInv, NEW t \in States, NEW j \in Keys, NEW now \in Nat, Touch(t, j, now),
         NEW s \in States, NEW k \in Keys
  PROVE  bind'[s][k].cred = bind[s][k].cred
  <1> DEFINE b == [cred |-> bind[t][j].cred, at |-> now]
  <1>1. b.cred = bind[t][j].cred  OBVIOUS
  <1>2. bind' = [bind EXCEPT ![t][j] = b]  BY DEF Touch
  <1> HIDE DEF b
  <1>3. bind'[s][k] = IF s = t /\ k = j THEN b ELSE bind[s][k]  BY <1>2 DEF TypeInv
  <1>4. QED  BY <1>1, <1>3

\* A conversation changes its credential only for a reason, although the lookup
\* of a call, its probe and its rebind are separate critical sections: the
\* binding a call finds invalid is invalid when it is replaced.
THEOREM AffinityHolds == Spec => AffinityKept
  <1> DEFINE Good(s, k) ==
        LET old == bind[s][k] IN
        Bound(s, k) /\ bind'[s][k].cred \notin {NoCred, old.cred} =>
            \/ \E p \in Procs : calls[p].st = s /\ cool'[s][old.cred] > calls[p].now
            \/ Expired(old, clock)
            \/ old.cred \notin Ids(refs[s])
  <1>1. ASSUME IndInv, TimeInv, [Next]_vars, NEW s \in States, NEW k \in Keys  PROVE Good(s, k)
    <2>1. SUFFICES ASSUME Bound(s, k), bind'[s][k].cred \notin {NoCred, bind[s][k].cred},
                          bind[s][k].cred \in Ids(refs[s])
                   PROVE  \/ \E p \in Procs : calls[p].st = s /\ cool'[s][bind[s][k].cred] > calls[p].now
                          \/ Expired(bind[s][k], clock)
      OBVIOUS
    <2>0. /\ TypeInv /\ clock \in Nat /\ bind[s][k].cred \in Creds /\ bind[s][k].at \in Nat
          /\ cool \in [States -> [Creds -> Nat]]
      BY <1>1, <2>1, BoundCred DEF IndInv, TypeInv, Binding
    <2>2. ASSUME NEW p \in Procs, Full(p)
          PROVE  \/ \E q \in Procs : calls[q].st = s /\ cool'[s][bind[s][k].cred] > calls[q].now
                 \/ Expired(bind[s][k], clock)
      <3>0. /\ calls[p].st \in States /\ calls[p].key \in Keys \cup {NoKey}
            /\ calls[p].now \in Nat /\ calls[p].now <= clock /\ cool' = cool
        BY <1>1, <2>2 DEF IndInv, TypeInv, CallInv, CallOK, InState, Full, Call, TimeInv, TimeOK
      <3>1. calls[p].st = s /\ calls[p].key = k /\ ~Valid(s, k, calls[p].now)
        <4> DEFINE t == calls[p].st
                   j == calls[p].key
                   now == calls[p].now
        <4>1. bind' # bind  BY <2>1
        <4>2. j # NoKey /\ j \in Keys
          <5>1. j = NoKey => bind' = bind  BY <2>2 DEF Full
          <5>2. QED  BY <3>0, <4>1, <5>1
        <4>3. ~Touch(t, j, now)  BY <2>0, <2>1, <3>0, <4>2, TouchKeeps
        <4>4. ~Valid(t, j, now)  BY <2>2, <4>2, <4>3 DEF Full
        <4>5. PICK b : SetBinding(t, j, b)  BY <2>2, <4>2, <4>4 DEF Full
        <4>6. bind' = [bind EXCEPT ![t][j] = b]  BY <4>5 DEF SetBinding
        <4> HIDE DEF t, j
        <4>7. bind'[s][k] = IF s = t /\ k = j THEN b ELSE bind[s][k]
          BY <2>0, <3>0, <4>2, <4>6 DEF t, TypeInv
        <4>8. s = t /\ k = j  BY <2>1, <4>7
        <4>9. QED  BY <4>4, <4>8 DEF t, j
      <3>2. Expired(bind[s][k], calls[p].now) \/ IsCooling(s, bind[s][k].cred, calls[p].now)
        BY <2>1, <3>1 DEF Valid
      <3>3. Expired(bind[s][k], calls[p].now) => Expired(bind[s][k], clock)
        BY <2>0, <3>0, DurationsAssumption DEF Expired
      <3>4. QED  BY <3>0, <3>1, <3>2, <3>3 DEF IsCooling
    <2>3. ASSUME NEW p \in Procs, Exclude(p)
          PROVE  \E q \in Procs : calls[q].st = s /\ cool'[s][bind[s][k].cred] > calls[q].now
      <3>0. /\ calls[p].st \in States /\ calls[p].key \in Keys \cup {NoKey} /\ calls[p].cred \in Creds
            /\ calls[p].now \in Nat /\ calls[p].cd \in Nat /\ calls[p].cd > 0
            /\ cool' = [cool EXCEPT ![calls[p].st][calls[p].cred] = calls[p].now + calls[p].cd]
        BY <1>1, <2>3 DEF IndInv, TypeInv, CallInv, CallOK, InState, Exclude, Call, TimeInv, TimeOK
      <3>1. calls[p].st = s /\ calls[p].key = k /\ ~KeepsBinding(p)
        <4> DEFINE t == calls[p].st
                   j == calls[p].key
        <4>1. bind' # bind  BY <2>1
        <4>2. j # NoKey /\ j \in Keys
          <5>1. j = NoKey => bind' = bind  BY <2>3 DEF Exclude
          <5>2. QED  BY <3>0, <4>1, <5>1
        <4>3. ~KeepsBinding(p)  BY <2>3, <4>1 DEF Exclude
        <4>4. PICK b : RebindTo(t, j, b)  BY <2>3, <4>1, <4>2, <4>3 DEF Exclude
        <4>5. bind' = [bind EXCEPT ![t][j] = b]  BY <4>4 DEF RebindTo
        <4> HIDE DEF t, j
        <4>6. bind'[s][k] = IF s = t /\ k = j THEN b ELSE bind[s][k]
          BY <2>0, <3>0, <4>2, <4>5 DEF t, TypeInv
        <4>7. s = t /\ k = j  BY <2>1, <4>6
        <4>8. QED  BY <4>3, <4>7 DEF t, j
      <3>2. CASE bind[s][k].cred = calls[p].cred
        BY <2>0, <3>0, <3>1, <3>2
      <3>3. CASE bind[s][k].cred # calls[p].cred
        <4>1. k # NoKey  BY CallersAssumption
        <4>2. IsCooling(s, bind[s][k].cred, calls[p].now)
          BY <2>1, <3>1, <3>3, <4>1 DEF KeepsBinding
        <4>3. cool'[s][bind[s][k].cred] = cool[s][bind[s][k].cred]  BY <2>0, <3>0, <3>1, <3>3
        <4>4. QED  BY <3>1, <4>2, <4>3 DEF IsCooling
      <3>4. QED  BY <3>2, <3>3
    <2>4. CASE \E p \in Procs : Confirm(p)
      <3>1. PICK p \in Procs : Confirm(p)  BY <2>4
      <3>2. calls[p].st \in States /\ calls[p].key \in Keys
        BY <1>1, <3>1 DEF IndInv, CallInv, CallOK, InState, Confirm
      <3>3. bind'[s][k].cred = bind[s][k].cred
        <4>1. calls[p].now \in Nat  BY <2>0 DEF TypeInv, Call
        <4>2. bind' = bind \/ Touch(calls[p].st, calls[p].key, calls[p].now)  BY <3>1 DEF Confirm
        <4>3. QED  BY <2>0, <3>2, <4>1, <4>2, TouchKeeps
      <3>4. QED  BY <2>1, <3>3
    <2>5. CASE \E t \in States, gone \in SUBSET Keys : DropBindings(t, gone)
      <3>1. PICK t \in States, gone \in SUBSET Keys : DropBindings(t, gone)  BY <2>5
      <3>2. bind'[s][k] \in {bind[s][k], NoBinding}  BY <2>0, <3>1 DEF DropBindings, TypeInv
      <3>3. QED  BY <2>1, <3>2 DEF NoBinding
    <2>6. CASE bind' = bind  BY <2>1, <2>6
    <2>7. inc # 0 => inc \in States  BY <2>0 DEF TypeInv
    <2>8. QED
      <3>1. CASE \E p \in Procs : Request(p)
        BY <2>2, <2>3, <2>4, <2>6, <3>1
        DEF Request, StartGet, StartExclude, Lookup, CredCount, FirstCredential, Probe, engVars
      <3>2. CASE ConfigChange
        BY <2>5, <2>6, <2>7, <3>2
        DEF ConfigChange, OnModelChanged, ModelAdded, ModelRemoved, OnCredentialDeleted
      <3>3. CASE SweepOnce  BY <2>5, <2>6, <2>7, <3>3 DEF SweepOnce
      <3>4. QED
        BY <1>1, <2>6, <3>1, <3>2, <3>3 DEF Next, SweepStart, Stop, Tick, vars, engVars
  <1>2. IndInv /\ TimeInv /\ [Next]_vars => [\A s \in States, k \in Keys : Good(s, k)]_vars
    BY <1>1
  <1>3. Init => TimeInv  BY DEF Init, TimeInv, TimeOK, Idle
  <1>4. QED  BY <1>2, <1>3, TimeStep, IndInvHolds, PTL DEF Spec, AffinityKept
=============================================================================
