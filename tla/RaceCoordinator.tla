-------------------------- MODULE RaceCoordinator --------------------------
(***************************************************************************)
(* One race of upstream attempts: pkg/proxy/race_coordinator.go, the       *)
(* attempt rows of race_request.go, the credential step of                 *)
(* race_executor.go and the handler's wait for a winner in handler.go.     *)
(*                                                                         *)
(* Three kinds of goroutine interleave.  manage() is a select over         *)
(* baseCtx, two deadlines and a 100 ms tick; c.mu does not guard the       *)
(* status of an attempt, so a tick is split where it reads statuses again: *)
(* the winner scan, the admission gate, Case 1, Case 2, the terminal test. *)
(* Each attempt runs execute().  The handler waits, relays and returns.    *)
(*                                                                         *)
(* The credential engine (pkg/credentiallb) appears as its two operations  *)
(* on one conversation: GetOrSelect and ExcludeAndReselect.  Weighted      *)
(* picks and the soonest-expiring pick are nondeterministic choices.       *)
(***************************************************************************)
EXTENDS Integers, Sequences, FiniteSets

CONSTANTS
    Configs,         \* the requests and settings a race may be built with
    MaxBytes         \* bound: bytes an attempt reserves in its buffer

NoCred == "nocred"

\* A configuration.  chain: c.models, the model and its fallback chain;
\* credsOf: the credentials of each model; liveGate: liveFirstByteGate;
\* maxParallel: cfg.RaceMaxParallel; parallelOnIdle: cfg.RaceParallelOnIdle;
\* hasKey: the request has a conversation key; maxOthers, a bound: engine
\* steps of other requests and the clock.
ModelsOf(c) == {c.chain[k] : k \in DOMAIN c.chain}
AllCreds == UNION {UNION {c.credsOf[m] : m \in ModelsOf(c)} : c \in Configs}
AllModels == UNION {ModelsOf(c) : c \in Configs}

ASSUME ConfigsAssumption ==
    \A c \in Configs :
        /\ c.chain \in Seq(STRING) /\ Len(c.chain) > 0
        /\ \A j, k \in DOMAIN c.chain : c.chain[j] = c.chain[k] => j = k
        /\ \A m \in ModelsOf(c) :
              c.credsOf[m] # {} /\ IsFiniteSet(c.credsOf[m]) /\ NoCred \notin c.credsOf[m]
        /\ c.maxParallel \in Nat \ {0} /\ c.maxOthers \in Nat
        /\ c.liveGate \in BOOLEAN /\ c.parallelOnIdle \in BOOLEAN /\ c.hasKey \in BOOLEAN
ASSUME BoundsAssumption ==
    MaxBytes \in Nat \ {0} /\ IsFiniteSet(AllCreds) /\ IsFiniteSet(AllModels)

VARIABLES
    cfg,           \* what newRaceCoordinator was given; never changes
    \* raceCoordinator
    reqs,          \* c.requests
    winner,        \* index of c.winner in reqs, 0 for nil
    streamCh, done,\* the channel is closed
    deadlineErr,   \* streamDeadlineError is set
    tried,         \* triedCredIDs
    rotations,     \* failoverAttemptsByModel
    soonestSpent,  \* models whose soonestExpiryAttemptedByModel is set
    \* manage()
    mpc,           \* where the goroutine is
    mAttempts,     \* its local modelAttempts
    \* credential engine, for this conversation
    cooling,       \* model -> credentials under an active cooldown
    bound,         \* model -> credential of the binding, or NoCred
    others,        \* engine steps taken by other requests and the clock
    \* handler and time
    hpc,           \* "waiting", "relaying", "ended"
    baseDone,      \* baseCtx is done
    hardElapsed    \* MaxGenerationTime has passed

coordVars == <<reqs, winner, streamCh, done, deadlineErr>>
budgetVars == <<tried, rotations, soonestSpent>>
mgrVars == <<mpc, mAttempts>>
engVars == <<cooling, bound, others, cfg>>
hdlVars == <<hpc, baseDone, hardElapsed>>
vars == <<coordVars, budgetVars, mgrVars, engVars, hdlVars>>

Chain == cfg.chain
CredsOf == cfg.credsOf
LiveGate == cfg.liveGate
MaxParallel == cfg.maxParallel
HasKey == cfg.hasKey
Models == ModelsOf(cfg)

-----------------------------------------------------------------------------
(* Attempt rows.                                                           *)

\* newUpstreamRequest, with the reselected credential of a failover row.
NewRow(mtype, model, resel) ==
    [mtype |-> mtype, model |-> model, resel |-> resel, cred |-> NoCred,
     status |-> "pending", err |-> "none", bytes |-> 0,
     cancelled |-> FALSE, cut |-> FALSE]

IsDone(r) == r.status \in {"completed", "failed"}
Failed(r) == IsDone(r) /\ r.err # "none"

\* Cancel, once: the context is cut only if execute has set one; the buffer
\* is released, so TotalLen reads 0 from then on.
Cancel(r) ==
    IF r.cancelled THEN r
    ELSE [r EXCEPT !.cancelled = TRUE, !.cut = (r.status # "pending"), !.bytes = 0]

\* Variant for CancelAllExcept: nobody is spared.
CancelAllExceptAll(w) == [i \in DOMAIN reqs |-> Cancel(reqs[i])]
\* cancelAllExcept; 0 spares nobody (cancelAll).
CancelAllExcept(w) == [i \in DOMAIN reqs |-> IF i = w THEN reqs[i] ELSE Cancel(reqs[i])]

Latest == reqs[Len(reqs)]
Running == Cardinality({i \in DOMAIN reqs : ~IsDone(reqs[i])})

-----------------------------------------------------------------------------
(* The credential engine, seen from one conversation.  An operation is the *)
(* set of its possible outcomes.                                           *)

Healthy(m, cool) == CredsOf[m] \ cool

\* GetOrSelect: the only credential; the healthy binding; a healthy pick,
\* which is bound; or the soonest-expiring one, the dead binding dropped.
GetOrSelect(m) ==
    IF Cardinality(CredsOf[m]) = 1 THEN {[cred |-> c, bound |-> bound[m]] : c \in CredsOf[m]}
    ELSE IF HasKey /\ bound[m] \in Healthy(m, cooling[m])
    THEN {[cred |-> bound[m], bound |-> bound[m]]}
    ELSE IF Healthy(m, cooling[m]) # {}
    THEN {[cred |-> c, bound |-> IF HasKey THEN c ELSE NoCred] : c \in Healthy(m, cooling[m])}
    ELSE {[cred |-> c, bound |-> NoCred] : c \in CredsOf[m]}

\* ExcludeAndReselectForClass on a model with several credentials: cool the
\* excluded one; keep a healthy binding another request has moved to; else
\* rebind to a healthy pick; else offer the soonest-expiring one.
ExcludeAndReselect(m, excluded) ==
    LET cool == cooling[m] \cup {excluded} IN
    IF HasKey /\ bound[m] \notin {NoCred, excluded} /\ bound[m] \notin cool
    THEN {[cred |-> bound[m], soonest |-> FALSE, bound |-> bound[m]]}
    ELSE IF Healthy(m, cool) # {}
    THEN {[cred |-> c, soonest |-> FALSE, bound |-> IF HasKey THEN c ELSE NoCred] :
             c \in Healthy(m, cool)}
    ELSE {[cred |-> c, soonest |-> TRUE, bound |-> bound[m]] : c \in CredsOf[m]}

-----------------------------------------------------------------------------
(* Decisions of manage().                                                  *)

\* modelAttemptCountLocked: failover rows are not counted.
ModelAttempts == Cardinality({i \in DOMAIN reqs : reqs[i].mtype # "credfo"})

\* Variant for CredFailoverEligible: the budget is one rotation too large.
CredFailoverEligibleOffByOne ==
    /\ Failed(Latest) /\ Latest.err = "cred" /\ winner = 0
    /\ Cardinality(CredsOf[Latest.model]) > 1
    /\ Latest.model \notin soonestSpent
    /\ rotations[Latest.model] <= Cardinality(CredsOf[Latest.model]) - 1
\* credFailoverEligibleLocked: a rate-limit or quota failure of a model with
\* rotations left in its own budget.
CredFailoverEligible ==
    /\ Failed(Latest) /\ Latest.err = "cred" /\ winner = 0
    /\ Cardinality(CredsOf[Latest.model]) > 1
    /\ Latest.model \notin soonestSpent
    /\ rotations[Latest.model] < Cardinality(CredsOf[Latest.model]) - 1

\* Variant for AdvanceTarget: the end of the chain is the next model.
AdvanceTargetLast(m) == {Chain[Len(Chain)]} \ {m}
\* fallbackAdvanceTargetLocked: the models that follow m in the chain.
AdvanceTarget(m) == {Chain[k] : k \in {j \in 2..Len(Chain) : Chain[j - 1] = m}}

\* The gate of the winner scan.
Eligible(r) ==
    /\ r.err = "none"
    /\ IF LiveGate THEN r.bytes > 0 ELSE r.status = "completed"

Init ==
    /\ cfg \in Configs
    /\ reqs = <<NewRow("main", Chain[1], NoCred)>>
    /\ winner = 0 /\ streamCh = FALSE /\ done = FALSE /\ deadlineErr = FALSE
    /\ tried = {} /\ rotations = [m \in Models |-> 0] /\ soonestSpent = {}
    /\ mpc = "select" /\ mAttempts = 0
    /\ cooling \in [Models -> SUBSET AllCreds] /\ bound \in [Models -> AllCreds \cup {NoCred}]
    /\ \A m \in Models :
          IF Cardinality(CredsOf[m]) = 1 THEN cooling[m] = {} /\ bound[m] = NoCred
          ELSE /\ cooling[m] \subseteq CredsOf[m]
               /\ bound[m] \in (IF HasKey THEN CredsOf[m] \cup {NoCred} ELSE {NoCred})
    /\ others = 0
    /\ hpc = "waiting" /\ baseDone = FALSE /\ hardElapsed = FALSE

-----------------------------------------------------------------------------
(* manage(), tick by tick.                                                 *)

\* The winner scan: the first eligible row wins and the handler is woken.
TickScan ==
    /\ mpc = "select"
    /\ LET elig == {i \in DOMAIN reqs : Eligible(reqs[i])} IN
       IF elig # {}
       THEN /\ winner' = CHOOSE i \in elig : \A j \in elig : i <= j
            /\ streamCh' = TRUE /\ mpc' = "cancelOthers"
       ELSE mpc' = "gate" /\ UNCHANGED <<winner, streamCh>>
    /\ UNCHANGED <<reqs, done, deadlineErr, budgetVars, mAttempts, engVars, hdlVars>>

\* With a winner the manager cancels the others and exits: its timers stop.
CancelOthers ==
    /\ mpc = "cancelOthers"
    /\ reqs' = CancelAllExcept(winner) /\ mpc' = "exit"
    /\ UNCHANGED <<winner, streamCh, done, deadlineErr, budgetVars, mAttempts,
                   engVars, hdlVars>>

\* The admission gate, from one look at the rows.
Gate ==
    /\ mpc = "gate"
    /\ mAttempts' = ModelAttempts
    /\ mpc' = IF ModelAttempts < Len(Chain) \/ CredFailoverEligible
              THEN "case1" ELSE "terminal"
    /\ UNCHANGED <<coordVars, budgetVars, engVars, hdlVars>>

\* credFailoverPlanLocked keeps the engine's answer o for the failed row.
UsablePlan(o) == o.cred # Latest.cred /\ o.cred \notin tried

\* Variant for SpawnCredFailover: the credential is not booked as tried.
SpawnCredFailoverForgets(o) ==
    /\ reqs' = Append(reqs, NewRow("credfo", Latest.model, o.cred))
    /\ tried' = tried
    /\ rotations' = [rotations EXCEPT ![Latest.model] = @ + 1]
    /\ soonestSpent' = IF o.soonest THEN soonestSpent \cup {Latest.model} ELSE soonestSpent
    /\ mpc' = "select"
\* Variant for SpawnCredFailover: the budget is counted down from zero.
SpawnCredFailoverCountsDown(o) ==
    /\ reqs' = Append(reqs, NewRow("credfo", Latest.model, o.cred))
    /\ tried' = tried \cup {o.cred}
    /\ rotations' = [rotations EXCEPT ![Latest.model] = @ - 1]
    /\ soonestSpent' = IF o.soonest THEN soonestSpent \cup {Latest.model} ELSE soonestSpent
    /\ mpc' = "select"
\* The failover row and its bookkeeping; the tick ends here.
SpawnCredFailover(o) ==
    /\ reqs' = Append(reqs, NewRow("credfo", Latest.model, o.cred))
    /\ tried' = tried \cup {o.cred}
    /\ rotations' = [rotations EXCEPT ![Latest.model] = @ + 1]
    /\ soonestSpent' = IF o.soonest THEN soonestSpent \cup {Latest.model} ELSE soonestSpent
    /\ mpc' = "select"

\* The error path of the spawn: the next model of the chain, if there is one.
AdvanceOrNot ==
    /\ IF AdvanceTarget(Latest.model) # {}
       THEN \E m \in AdvanceTarget(Latest.model) :
                reqs' = Append(reqs, NewRow("fallback", m, NoCred)) /\ mpc' = "terminal"
       ELSE reqs' = reqs /\ mpc' = "case2"
    /\ UNCHANGED budgetVars

\* Case 1: the latest row failed.  Credential failover comes before the next
\* model.  Below RaceMaxParallel only.
Case1 ==
    /\ mpc = "case1"
    /\ IF Running >= MaxParallel
       THEN mpc' = "terminal" /\ UNCHANGED <<reqs, budgetVars, cooling, bound>>
       ELSE IF ~Failed(Latest)
       THEN mpc' = "case2" /\ UNCHANGED <<reqs, budgetVars, cooling, bound>>
       ELSE IF CredFailoverEligible /\ Latest.cred # NoCred
       THEN \E o \in ExcludeAndReselect(Latest.model, Latest.cred) :
               /\ cooling' = [cooling EXCEPT ![Latest.model] = @ \cup {Latest.cred}]
               /\ bound' = [bound EXCEPT ![Latest.model] = o.bound]
               /\ IF UsablePlan(o) THEN SpawnCredFailover(o) ELSE AdvanceOrNot
       ELSE AdvanceOrNot /\ UNCHANGED <<cooling, bound>>
    /\ UNCHANGED <<winner, streamCh, done, deadlineErr, mAttempts, others, cfg,
                   hdlVars>>

\* The rows of an idle spawn: a second attempt of the first model when the
\* window has room, and a fallback when there is a second model.
IdleSpawn ==
    LET second == IF Len(reqs) < Len(Chain)
                  THEN Append(reqs, NewRow("second", Chain[1], NoCred)) ELSE reqs
    IN  IF Len(Chain) > 1 THEN Append(second, NewRow("fallback", Chain[2], NoCred)) ELSE second

\* Case 2: the main attempt, alone, has started and is idle.
Case2 ==
    /\ mpc = "case2" /\ mpc' = "terminal"
    /\ \/ reqs' = reqs
       \/ /\ cfg.parallelOnIdle /\ Len(reqs) = 1 /\ reqs[1].status \in {"running", "streaming"}
          /\ reqs' = IdleSpawn
    /\ UNCHANGED <<winner, streamCh, done, deadlineErr, budgetVars, mAttempts,
                   engVars, hdlVars>>

\* Variant for Terminal: the window is one row too large.
TerminalOffByOne ==
    /\ mpc = "terminal"
    /\ IF mAttempts > Len(Chain) /\ \A i \in DOMAIN reqs : Failed(reqs[i])
       THEN done' = TRUE /\ streamCh' = TRUE /\ mpc' = "exit"
       ELSE mpc' = "select" /\ UNCHANGED <<done, streamCh>>
    /\ UNCHANGED <<reqs, winner, deadlineErr, budgetVars, mAttempts, engVars, hdlVars>>

\* The terminal test: the attempt count of the gate, the statuses of now.
Terminal ==
    /\ mpc = "terminal"
    /\ IF mAttempts >= Len(Chain) /\ \A i \in DOMAIN reqs : Failed(reqs[i])
       THEN done' = TRUE /\ streamCh' = TRUE /\ mpc' = "exit"
       ELSE mpc' = "select" /\ UNCHANGED <<done, streamCh>>
    /\ UNCHANGED <<reqs, winner, deadlineErr, budgetVars, mAttempts, engVars, hdlVars>>

\* baseCtx is done: cancel everybody, close both channels, exit.
BaseCtxArm ==
    /\ mpc = "select" /\ baseDone
    /\ reqs' = CancelAllExcept(0) /\ done' = TRUE /\ streamCh' = TRUE /\ mpc' = "exit"
    /\ UNCHANGED <<winner, deadlineErr, budgetVars, mAttempts, engVars, hdlVars>>

\* handleStreamingDeadline: the unfinished attempt with most bytes, the
\* earliest among equals, wins; without one, or in live mode with none that
\* has a byte, the race ends with an error.
Best ==
    {i \in DOMAIN reqs :
        /\ ~IsDone(reqs[i])
        /\ \A j \in DOMAIN reqs : ~IsDone(reqs[j]) =>
              \/ reqs[j].bytes < reqs[i].bytes
              \/ reqs[j].bytes = reqs[i].bytes /\ i <= j}

\* Variant for StreamDeadlineArm: the handler is not woken for the winner.
StreamDeadlineArmSilent ==
    /\ mpc = "select"
    /\ IF \E i \in Best : LiveGate => reqs[i].bytes > 0
       THEN /\ winner' \in Best /\ streamCh' = streamCh
            /\ reqs' = CancelAllExcept(winner') /\ mpc' = "exit"
            /\ UNCHANGED <<done, deadlineErr>>
       ELSE /\ deadlineErr' = TRUE /\ done' = TRUE /\ streamCh' = TRUE
            /\ mpc' = "cancelAll" /\ UNCHANGED <<winner, reqs>>
    /\ UNCHANGED <<budgetVars, mAttempts, engVars, hdlVars>>

StreamDeadlineArm ==
    /\ mpc = "select"
    /\ IF \E i \in Best : LiveGate => reqs[i].bytes > 0
       THEN /\ winner' \in Best /\ streamCh' = TRUE
            /\ reqs' = CancelAllExcept(winner') /\ mpc' = "exit"
            /\ UNCHANGED <<done, deadlineErr>>
       ELSE /\ deadlineErr' = TRUE /\ done' = TRUE /\ streamCh' = TRUE
            /\ mpc' = "cancelAll" /\ UNCHANGED <<winner, reqs>>
    /\ UNCHANGED <<budgetVars, mAttempts, engVars, hdlVars>>

\* Variant for DeadlineCancelAll: the attempts are left running.
DeadlineCancelAllForgets ==
    /\ mpc = "cancelAll"
    /\ reqs' = reqs /\ mpc' = "exit"
    /\ UNCHANGED <<winner, streamCh, done, deadlineErr, budgetVars, mAttempts,
                   engVars, hdlVars>>

\* The cancelAll that follows the unlock of an error at the deadline.
DeadlineCancelAll ==
    /\ mpc = "cancelAll"
    /\ reqs' = CancelAllExcept(0) /\ mpc' = "exit"
    /\ UNCHANGED <<winner, streamCh, done, deadlineErr, budgetVars, mAttempts,
                   engVars, hdlVars>>

\* handleHardDeadline.
HardDeadlineArm ==
    /\ mpc = "select" /\ hardElapsed
    /\ reqs' = CancelAllExcept(0) /\ done' = TRUE /\ streamCh' = TRUE /\ mpc' = "exit"
    /\ UNCHANGED <<winner, deadlineErr, budgetVars, mAttempts, engVars, hdlVars>>

-----------------------------------------------------------------------------
(* An attempt: execute() around executeRequest.                            *)

SetRow(i, r) == reqs' = [reqs EXCEPT ![i] = r]
Alive(i, statuses) == i \in DOMAIN reqs /\ reqs[i].status \in statuses
Cut(i) == reqs[i].cut \/ baseDone

\* SetContext and MarkStarted.
Start(i) ==
    /\ Alive(i, {"pending"})
    /\ SetRow(i, [reqs[i] EXCEPT !.status = "running"])
    /\ UNCHANGED <<winner, streamCh, done, deadlineErr, budgetVars, mgrVars, engVars, hdlVars>>

\* Variant for Resolve: a failover row asks the engine again.
ResolveIgnoresReselected(i) ==
    /\ Alive(i, {"running"}) /\ reqs[i].cred = NoCred
    /\ \E o \in GetOrSelect(reqs[i].model) :
           /\ SetRow(i, [reqs[i] EXCEPT !.cred = o.cred])
           /\ bound' = [bound EXCEPT ![reqs[i].model] = o.bound]
    /\ UNCHANGED <<winner, streamCh, done, deadlineErr, budgetVars, mgrVars, cooling, others,
                   cfg, hdlVars>>
\* The credential: the reselected one of a failover row when it belongs to
\* the row's model, else the engine's.
Resolve(i) ==
    /\ Alive(i, {"running"}) /\ reqs[i].cred = NoCred
    /\ LET m == reqs[i].model IN
       IF reqs[i].resel \in CredsOf[m]
       THEN SetRow(i, [reqs[i] EXCEPT !.cred = reqs[i].resel]) /\ bound' = bound
       ELSE \E o \in GetOrSelect(m) :
               /\ SetRow(i, [reqs[i] EXCEPT !.cred = o.cred])
               /\ bound' = [bound EXCEPT ![m] = o.bound]
    /\ UNCHANGED <<winner, streamCh, done, deadlineErr, budgetVars, mgrVars, cooling, others,
                   cfg, hdlVars>>

\* The provider opened the event stream.
MarkStreaming(i) ==
    /\ Alive(i, {"running"}) /\ reqs[i].cred # NoCred
    /\ SetRow(i, [reqs[i] EXCEPT !.status = "streaming"])
    /\ UNCHANGED <<winner, streamCh, done, deadlineErr, budgetVars, mgrVars, engVars, hdlVars>>

\* Add reserves bytes in the buffer the row still owns.
AddBytes(i) ==
    /\ Alive(i, {"streaming"}) /\ ~reqs[i].cancelled /\ ~Cut(i)
    /\ reqs[i].bytes < MaxBytes
    /\ SetRow(i, [reqs[i] EXCEPT !.bytes = @ + 1])
    /\ UNCHANGED <<winner, streamCh, done, deadlineErr, budgetVars, mgrVars, engVars, hdlVars>>

\* executeRequest returned nil: the response, or its final chunk, was added.
MarkCompleted(i) ==
    /\ Alive(i, {"running", "streaming"}) /\ reqs[i].cred # NoCred
    /\ SetRow(i, [reqs[i] EXCEPT !.status = "completed",
                                 !.bytes = IF reqs[i].cancelled \/ @ > 0 THEN @ ELSE 1])
    /\ UNCHANGED <<winner, streamCh, done, deadlineErr, budgetVars, mgrVars, engVars, hdlVars>>

\* executeRequest returned an error; only an upstream answer can be of the
\* rate-limit or quota class.
MarkFailed(i) ==
    /\ Alive(i, {"running", "streaming"})
    /\ \E class \in {"cred", "other"} :
           /\ class = "cred" => reqs[i].cred # NoCred
           /\ SetRow(i, [reqs[i] EXCEPT !.status = "failed", !.err = class])
    /\ UNCHANGED <<winner, streamCh, done, deadlineErr, budgetVars, mgrVars, engVars, hdlVars>>

-----------------------------------------------------------------------------
(* The handler, the client, the clock and the rest of the process.         *)

\* Variant for HandlerReturns: the attempts have a context of their own.
HandlerReturnsDetached == hpc' = "ended" /\ baseDone' = baseDone
\* The handler returns and net/http cancels the request context.
HandlerReturns == hpc' = "ended" /\ baseDone' = TRUE

\* WaitForWinner: relay the winner, or report the failure.
WaitForWinner ==
    /\ hpc = "waiting" /\ (streamCh \/ done \/ baseDone)
    /\ \/ (streamCh \/ done) /\ winner # 0 /\ hpc' = "relaying" /\ baseDone' = baseDone
       \/ (baseDone \/ winner = 0) /\ HandlerReturns
    /\ UNCHANGED <<coordVars, budgetVars, mgrVars, engVars, hardElapsed>>

\* The relay ends by itself once the winner is done (StreamRelay).
RelayDone ==
    /\ hpc = "relaying" /\ IsDone(reqs[winner])
    /\ HandlerReturns
    /\ UNCHANGED <<coordVars, budgetVars, mgrVars, engVars, hardElapsed>>

\* A client write failed: cancelAllExcept(winner), then return.
ClientWriteFails ==
    /\ hpc = "relaying"
    /\ reqs' = CancelAllExcept(winner)
    /\ HandlerReturns
    /\ UNCHANGED <<winner, streamCh, done, deadlineErr, budgetVars, mgrVars, engVars, hardElapsed>>

\* Idle termination: the relay cancels the winner itself and returns.
RelayIdle ==
    /\ hpc = "relaying" /\ reqs[winner].status = "streaming"
    /\ reqs' = [reqs EXCEPT ![winner] = Cancel(reqs[winner])]
    /\ HandlerReturns
    /\ UNCHANGED <<winner, streamCh, done, deadlineErr, budgetVars, mgrVars, engVars, hardElapsed>>

ClientDisconnect ==
    /\ ~baseDone /\ baseDone' = TRUE
    /\ UNCHANGED <<coordVars, budgetVars, mgrVars, engVars, hpc, hardElapsed>>

HardDeadlinePasses ==
    /\ ~hardElapsed /\ hardElapsed' = TRUE
    /\ UNCHANGED <<coordVars, budgetVars, mgrVars, engVars, hpc, baseDone>>

\* Other requests cool a credential, a cooldown runs out, or another request
\* of this conversation rebinds after a failure of the bound credential.
OtherCools(m, c) ==
    cooling' = [cooling EXCEPT ![m] = @ \cup {c}] /\ bound' = bound
CooldownExpires(m, c) ==
    c \in cooling[m] /\ cooling' = [cooling EXCEPT ![m] = @ \ {c}] /\ bound' = bound
OtherRebinds(m, c) ==
    /\ HasKey /\ c = bound[m]
    /\ cooling' = [cooling EXCEPT ![m] = @ \cup {c}]
    /\ \E o \in ExcludeAndReselect(m, c) : bound' = [bound EXCEPT ![m] = o.bound]

EngineElsewhere ==
    /\ others < cfg.maxOthers /\ others' = others + 1
    /\ \E m \in Models : Cardinality(CredsOf[m]) > 1 /\ \E c \in CredsOf[m] :
           OtherCools(m, c) \/ CooldownExpires(m, c) \/ OtherRebinds(m, c)
    /\ UNCHANGED <<cfg, coordVars, budgetVars, mgrVars, hdlVars>>

-----------------------------------------------------------------------------
\* No race has more rows: the chain, a second row, a failover row per credential.
MaxRows == Cardinality(AllModels) + 1 + Cardinality(AllCreds)

ManageStep ==
    \/ TickScan \/ CancelOthers \/ Gate \/ Case1 \/ Case2 \/ Terminal \/ DeadlineCancelAll

Next ==
    \/ TickScan \/ CancelOthers \/ Gate \/ Case1 \/ Case2 \/ Terminal
    \/ BaseCtxArm \/ StreamDeadlineArm \/ DeadlineCancelAll \/ HardDeadlineArm
    \/ \E i \in 1..MaxRows :
          \/ Start(i) \/ Resolve(i) \/ MarkStreaming(i) \/ AddBytes(i)
          \/ MarkCompleted(i) \/ MarkFailed(i)
    \/ WaitForWinner \/ RelayDone \/ ClientWriteFails \/ RelayIdle \/ ClientDisconnect
    \/ HardDeadlinePasses \/ EngineElsewhere

Spec == Init /\ [][Next]_vars

\* Fairness.  The ticker keeps manage() going and a goroutine that can run
\* does.  Select picks at random among ready cases, so a case that is ready
\* again and again is taken.
ProxyFair ==
    /\ WF_vars(ManageStep) /\ SF_vars(BaseCtxArm)
    /\ WF_vars(WaitForWinner) /\ WF_vars(RelayDone)
\* An attempt whose context is done starts, resolves and returns.
CutAttemptsReturn ==
    \A i \in 1..MaxRows :
        /\ WF_vars(Start(i))
        /\ WF_vars(i \in DOMAIN reqs /\ Cut(i) /\ (MarkCompleted(i) \/ MarkFailed(i)))
\* The streaming deadline elapses.
DeadlineFair == SF_vars(StreamDeadlineArm)
\* Every attempt returns (the provider client has a timeout of its own).
AttemptsReturn ==
    \A i \in 1..MaxRows : WF_vars(MarkCompleted(i) \/ MarkFailed(i))

FairSpec == Spec /\ ProxyFair /\ CutAttemptsReturn
-----------------------------------------------------------------------------
(* Properties.                                                             *)

Row == [mtype : {"main", "second", "fallback", "credfo"}, model : Models,
        resel : AllCreds \cup {NoCred}, cred : AllCreds \cup {NoCred},
        status : {"pending", "running", "streaming", "completed", "failed"},
        err : {"none", "cred", "other"}, bytes : 0..MaxBytes,
        cancelled : BOOLEAN, cut : BOOLEAN]

\* Every variable keeps its type; the winner is a row.
TypeOK ==
    /\ cfg \in Configs
    /\ reqs \in Seq(Row) /\ Len(reqs) > 0
    /\ winner \in 0..Len(reqs)
    /\ streamCh \in BOOLEAN /\ done \in BOOLEAN /\ deadlineErr \in BOOLEAN
    /\ tried \subseteq AllCreds /\ rotations \in [Models -> Nat] /\ soonestSpent \subseteq Models
    /\ mpc \in {"select", "gate", "case1", "case2", "terminal", "cancelOthers", "cancelAll",
               "exit"}
    /\ mAttempts \in Nat
    /\ cooling \in [Models -> SUBSET AllCreds] /\ bound \in [Models -> AllCreds \cup {NoCred}]
    /\ others \in Nat
    /\ hpc \in {"waiting", "relaying", "ended"}
    /\ baseDone \in BOOLEAN /\ hardElapsed \in BOOLEAN

\* Until the handler returns, the attempt chosen as winner is not cancelled,
\* so the buffer that streamResult reads is not released under it: not by
\* manage(), not by a deadline, not by the handler's own cancelAllExcept.
WinnerKept ==
    /\ winner # 0 /\ hpc # "ended" => ~reqs[winner].cancelled
    /\ hpc = "relaying" => winner # 0

\* When manage() has exited no attempt is left running unsupervised: each is
\* the winner, has failed, or has been cancelled.
NoOrphans ==
    mpc = "exit" =>
        \A i \in DOMAIN reqs : i = winner \/ reqs[i].cancelled \/ Failed(reqs[i])

\* A race is bounded: a model's failover rows stay within its credentials
\* minus one, at most one row more than the chain is spawned for models, and
\* so the whole race stays within the rows the attempts are numbered by.
RaceBounded ==
    /\ \A m \in Models :
          Cardinality({i \in DOMAIN reqs : reqs[i].mtype = "credfo" /\ reqs[i].model = m})
              < Cardinality(CredsOf[m])
    /\ ModelAttempts <= Len(Chain) + 1
    /\ Len(reqs) <= MaxRows

\* No two failover rows of a race, on whatever model, use one credential.
NoReselectTwice ==
    \A i, j \in DOMAIN reqs :
        reqs[i].mtype = "credfo" /\ reqs[j].mtype = "credfo" /\ reqs[i].resel = reqs[j].resel
            => i = j

\* A failover row retries the model of the row that failed before it, on a
\* credential of that model other than the one that failed, and calls the
\* provider with exactly that credential.
FailoverKeepsModel ==
    \A i \in DOMAIN reqs : reqs[i].mtype = "credfo" =>
        /\ i > 1 /\ reqs[i - 1].err = "cred" /\ reqs[i].model = reqs[i - 1].model
        /\ reqs[i].resel \in CredsOf[reqs[i].model] \ {reqs[i - 1].cred}
        /\ reqs[i].cred \in {NoCred, reqs[i].resel}

\* The chain is walked in order: a fallback row runs only after some row of
\* the model before it, and never the first model.
ChainInOrder ==
    \A i \in DOMAIN reqs : reqs[i].mtype = "fallback" =>
        \E k \in 2..Len(Chain) :
            Chain[k] = reqs[i].model /\ \E j \in 1..(i - 1) : reqs[j].model = Chain[k - 1]

\* Every attempt but the first has its reason in the attempts before it: a
\* failover its failed row and a fresh credential, a fallback the model before.
SpawnsJustified == NoReselectTwice /\ FailoverKeepsModel /\ ChainInOrder

RaceResolves == hpc = "waiting" ~> hpc # "waiting"

\* The handler never waits forever once the streaming deadline elapses,
\* whatever the upstreams do: handleStreamingDeadline always ends the race
\* and wakes WaitForWinner.
ResolvedByDeadline == DeadlineFair => RaceResolves

\* Without any deadline the ticks of manage() alone end the race, provided
\* every attempt returns: the admission gate and the terminal test leave no
\* state in which nothing runs and nothing is given up.
ResolvedByTicks == AttemptsReturn => RaceResolves

\* Once the handler has returned every attempt comes to an end, the ones
\* cancelled before they had a context included.
AttemptsStop == hpc = "ended" ~> \A i \in DOMAIN reqs : IsDone(reqs[i])

-----------------------------------------------------------------------------
(* Statements of the repository that the code does not keep.               *)

\* handleHardDeadline: "no requests are allowed to continue past this point".
HardDeadlineHolds ==
    hardElapsed /\ mpc = "exit" =>
        \A i \in DOMAIN reqs : IsDone(reqs[i]) \/ reqs[i].cancelled \/ baseDone

\* credFailoverPlanLocked: re-selection of a credential tried in this request
\* is impossible.
NoDoubleTry ==
    \A i, j \in DOMAIN reqs :
        i < j /\ reqs[j].mtype = "credfo" => reqs[j].resel # reqs[i].cred

\* The streaming deadline reports "no response" only when there is none.
DeadlineKeepsAnswer ==
    [][deadlineErr' # deadlineErr =>
          \A i \in DOMAIN reqs : reqs[i].status # "completed"]_vars
=============================================================================
