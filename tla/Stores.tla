------------------------------- MODULE Stores -------------------------------
(***************************************************************************)
(* What the proxy stores, caches and resolves, each component on variables *)
(* of its own.  part is chosen at the start and says which component takes *)
(* the steps; the others stay in an initial state.                         *)
(*                                                                         *)
(* The configuration store is there twice: as administrators who wait for  *)
(* their answers meet it, with a drain channel that overflows (Tables), and*)
(* as overlapping requests meet it when no notice is lost (Notices).       *)
(***************************************************************************)
EXTENDS Integers, Sequences

CONSTANTS
    Parts,                                      \* the components to look at
    Admins, Procs,                              \* administrators; requests
    Ids, Creds, Providers,                      \* of the configuration stores
    TableDrafts, TableBuffer, NoticeDrafts, NoticeBuffer, JsonDrafts, JsonProviders,
    Sent, Envs,                                 \* of Settings
    ModelIds, NoRow, ModelDrafts, CredVersions, Budget,     \* of ModelsCache
    PositiveTTL, NegativeTTL, StaleCap, Expiries, Second, MaxVersion, MaxClock,     \* of TokenCache
    Keys, Lists, Windows, Day, DefaultCooldown, QuotaCooldown, MaxEdits,        \* of Resolution
    Streams, Cap, MaxSubscribers, MaxEvents,    \* of EventBus
    BufferIds, Sizes, MaxSize                   \* of BufferStore

VARIABLES part,
    rows, cred, claims, engine, groups, admin, channel, drain, degraded, unguarded, missed,
    file, jsonAdmin, answer,
    stored, backup, mem, env, mgr, next, readOnly, last, made,
    db, cdb, up, byID, ccache, snap, neg, shadowed, healthy, scan, fill, writer, spent,
    token, entry, indexed, reachable, call, patch, clock, version, ended, accepted,
    row, table, eng, resolving, hour, edits,
    count, history, chan, stage, seen, joined, lost,
    dir, save, left

tableVars == <<rows, cred, claims>>
storeVars == <<engine, groups, admin, channel, drain, degraded, unguarded, missed>>
jsonVars == <<file, jsonAdmin, answer>>
settingVars == <<stored, backup, mem, env, mgr, next, readOnly, last, made>>
modelVars == <<db, cdb, up, byID, ccache, snap, neg, shadowed, healthy, scan, fill, writer, spent>>
tokenVars == <<token, entry, indexed, reachable, call, patch, clock, version, ended, accepted>>
resolveVars == <<row, table, eng, resolving, hour, edits>>
busVars == <<count, history, chan, stage, seen, joined, lost>>
bufferVars == <<dir, save, left>>
vars == <<part, tableVars, storeVars, jsonVars, settingVars, modelVars, tokenVars, resolveVars,
          busVars, bufferVars>>

-----------------------------------------------------------------------------
Tables == INSTANCE ConfigStore WITH
    Drafts <- TableDrafts, Buffer <- TableBuffer, Lossy <- TRUE, Sequential <- TRUE
Notices == INSTANCE ConfigStore WITH
    Drafts <- NoticeDrafts, Buffer <- NoticeBuffer, Lossy <- FALSE, Sequential <- FALSE
Json == INSTANCE JsonStore WITH Providers <- JsonProviders, Drafts <- JsonDrafts, admin <- jsonAdmin
RowSettings == INSTANCE Settings WITH Backend <- "database"
FileSettings == INSTANCE Settings WITH Backend <- "file"
Models == INSTANCE ModelsCache WITH
    Ids <- ModelIds, None <- NoRow, Readers <- Procs, Drafts <- ModelDrafts, claims <- shadowed,
    admin <- writer
Tokens == INSTANCE TokenCache WITH Calls <- Procs
Resolved == INSTANCE Resolution WITH Creds <- Keys, call <- resolving
Bus == INSTANCE EventBus
Buffers == INSTANCE BufferStore WITH Ids <- BufferIds

-----------------------------------------------------------------------------
Init ==
    /\ part \in Parts
    /\ Tables!Init /\ Json!Init
    /\ IF part = "file" THEN FileSettings!Init ELSE RowSettings!Init
    /\ Models!Init /\ Tokens!Init /\ Resolved!Init /\ Bus!Init /\ Buffers!Init

Rest == <<part, busVars, bufferVars>>
Next ==
    \/ /\ \/ part = "tables" /\ Tables!Next
          \/ part = "notices" /\ Notices!Next
       /\ UNCHANGED <<Rest, jsonVars, settingVars, modelVars, tokenVars, resolveVars>>
    \/ /\ part = "json" /\ Json!Next
       /\ UNCHANGED <<Rest, storeVars, settingVars, modelVars, tokenVars, resolveVars>>
    \/ /\ \/ part = "row" /\ RowSettings!Next
          \/ part = "file" /\ FileSettings!Next
       /\ UNCHANGED <<Rest, tableVars, storeVars, jsonVars, modelVars, tokenVars, resolveVars>>
    \/ /\ part = "models" /\ Models!Next
       /\ UNCHANGED <<Rest, tableVars, storeVars, jsonVars, settingVars, tokenVars, resolveVars>>
    \/ /\ part = "tokens" /\ Tokens!Next
       /\ UNCHANGED <<Rest, tableVars, storeVars, jsonVars, settingVars, modelVars, resolveVars>>
    \/ /\ part = "resolve" /\ Resolved!Next
       /\ UNCHANGED <<Rest, tableVars, storeVars, jsonVars, settingVars, modelVars, tokenVars>>
    \/ /\ \/ part = "bus" /\ Bus!Next /\ UNCHANGED bufferVars
          \/ part = "buffers" /\ Buffers!Next /\ UNCHANGED busVars
       /\ UNCHANGED <<part, tableVars, storeVars, jsonVars, settingVars, modelVars, tokenVars, resolveVars>>

Spec == Init /\ [][Next]_vars

-----------------------------------------------------------------------------
\* The configuration stays closed: no write or deletion leaves a group with a member
\* that is gone or an id with two enabled owners, and a model's credential goes
\* only where its deletion could not read the models; GetModel redirects as the rows
\* say, or not at all; with no notice lost the balancers follow the rows they could
\* read; models.json always loads again.
ConfigSound ==
    /\ part = "tables" => Tables!ConfigSound
    /\ part = "notices" => Notices!ConfigSound
    /\ part = "json" => Json!FileValid
\* Whatever sequence of saves was accepted: the running settings show every
\* override of the environment, what Validate refuses of them is an override's
\* doing, a restart on the same row in the same environment changes nothing, and
\* while the settings file is away its backup is what it held last.
SettingsSound ==
    /\ part = "row" => RowSettings!SettingsSound
    /\ part = "file" => FileSettings!SettingsSound
\* The claim index is that of the cached rows, and a token's old row is accepted
\* for a bounded time after it was replaced.
CachesSound ==
    /\ part = "models" => Models!IndexSound
    /\ part = "tokens" => Tokens!StaleBounded
\* An outage never makes a model disappear, and only an outage makes a token pass
\* after the expiry it was created with.
OutageSafe == Models!OutageServes /\ Tokens!ExpiredOnlyInOutage
=============================================================================
