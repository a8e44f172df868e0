------------------------------ MODULE Settings ------------------------------
(***************************************************************************)
(* The settings of the proxy: ConfigManager (one row of the database,      *)
(* partial saves merged into the settings in memory) and config.Manager    *)
(* (a file, whole saves), both under environment overrides.                *)
(*                                                                         *)
(* A setting stands for a kind of field: port for a number merged by       *)
(* itself, on and par for a section merged as a whole, idle and wait for   *)
(* one whose zero is "not sent" and whose fields Validate looks at         *)
(* together, img for a field mergeConfig leaves out.  A wait of 1 is less  *)
(* than a second: the environment may ask for it, Validate refuses it.     *)
(***************************************************************************)
EXTENDS Integers

CONSTANTS
    Backend,    \* "database" or "file"
    Sent,       \* bound: the settings administrators send
    Envs        \* bound: the overrides a process may be started with

VARIABLES
    stored,     \* the row, or the file; NoStore when there is none
    backup,     \* the file's .bak, of config.Manager
    mem,        \* m.cfg
    env,        \* field -> override, of the running process
    mgr,        \* "idle", or "renamed": the file is away and not yet rewritten
    next,       \* the settings such a save is about to write
    readOnly,   \* m.readOnly: Load found no file and could not write one
    last,       \* history: what was stored last
    made        \* history: the overrides a file holds that Load created

vars == <<stored, backup, mem, env, mgr, next, readOnly, last, made>>

NoStore == [port |-> 0]
Defaults == [port |-> 1, on |-> FALSE, par |-> 1, idle |-> FALSE, wait |-> 3, img |-> 0]
\* The shortest wait Validate lets through, a second.
MinWait == 2

Fields == {"port", "on", "par", "idle", "wait", "img"}
Config == [port : Nat, on : BOOLEAN, par : Nat, idle : BOOLEAN, wait : Nat, img : Nat]

\* What administrators send is a Config; an override is what applyEnvOverrides
\* takes from the environment: a boolean, or a number it does not skip.
SettingsAssumption ==
    /\ Backend \in {"database", "file"}
    /\ Sent \subseteq Config
    /\ \A e \in Envs : \A f \in DOMAIN e :
         /\ f \in Fields
         /\ IF f \in {"on", "idle"} THEN e[f] \in BOOLEAN ELSE e[f] \in Nat
         /\ f \in {"port", "par", "wait"} => e[f] # 0

\* Validate.
Valid(c) == c.port # 0 /\ c.par # 0 /\ (c.idle => c.wait >= MinWait)

\* ApplyEnvOverrides.
Overlay(c, e) == [f \in DOMAIN c |-> IF f \in DOMAIN e THEN e[f] ELSE c[f]]

\* A section counts as sent when any of its fields is.
mergeConfig(old, new) ==
    LET section == new.on \/ new.par # 0 IN
    [old EXCEPT !.port = IF new.port # 0 THEN new.port ELSE @,
                !.on = IF section THEN new.on ELSE @,
                !.par = IF section THEN new.par ELSE @,
                !.idle = IF new.idle \/ new.wait # 0 THEN new.idle ELSE @,
                !.wait = IF new.wait # 0 THEN new.wait ELSE @]

Base(s) == IF s = NoStore THEN Defaults ELSE s

\* NewConfigManager and NewManager.  The latter writes a file it does not find,
\* without Validate, and goes on read-only if it cannot.
Start(e) ==
    /\ env' = e
    /\ mem' = Overlay(Base(stored), e)
    /\ \/ /\ Backend = "file" /\ stored = NoStore
          /\ stored' = mem' /\ last' = mem' /\ made' = DOMAIN e /\ readOnly' = FALSE
       \/ /\ readOnly' = (Backend = "file" /\ stored = NoStore)
          /\ UNCHANGED <<stored, last, made>>

Init ==
    /\ env \in Envs /\ mem = Overlay(Defaults, env)
    /\ \/ Backend = "file" /\ stored = mem /\ made = DOMAIN env /\ readOnly = FALSE
       \/ stored = NoStore /\ made = {} /\ readOnly = (Backend = "file")
    /\ backup = NoStore /\ mgr = "idle" /\ next = NoStore /\ last = stored

\* Variant for SaveRow: memory is set without the overrides.
SaveRowBare(c) ==
    /\ Backend = "database"
    /\ LET merged == mergeConfig(mem, c) IN
       Valid(merged) /\ stored' = merged /\ last' = merged /\ mem' = merged
    /\ UNCHANGED <<backup, env, mgr, next, readOnly, made>>

\* Variant for SaveRow: memory changes even when the write fails.
SaveRowEarly(c) ==
    /\ Backend = "database"
    /\ LET merged == mergeConfig(mem, c) IN
       Valid(merged) /\ stored' \in {stored, merged} /\ last' = stored' /\ mem' = Overlay(merged, env)
    /\ UNCHANGED <<backup, env, mgr, next, readOnly, made>>

\* Variant for SaveRow: the settings are validated as they were sent.
SaveRowUnmerged(c) ==
    /\ Backend = "database" /\ (c.port # 0 \/ c.on \/ c.par # 0)
    /\ LET merged == mergeConfig(mem, c) IN
       stored' = merged /\ last' = merged /\ mem' = Overlay(merged, env)
    /\ UNCHANGED <<backup, env, mgr, next, readOnly, made>>

\* ConfigManager.Save, wholly under m.mu: merge into the settings in memory,
\* validate, write the row, overlay.  A failing write changes nothing.
SaveRow(c) ==
    /\ Backend = "database"
    /\ LET merged == mergeConfig(mem, c) IN
       /\ Valid(merged)
       /\ stored' = merged /\ last' = merged
       /\ mem' = Overlay(merged, env)
    /\ UNCHANGED <<backup, env, mgr, next, readOnly, made>>

\* Variant for SaveFile: the backup is replaced even when there is no file.
SaveFileAlways(c) ==
    /\ Backend = "file" /\ mgr = "idle" /\ Valid(c) /\ ~readOnly
    /\ backup' = stored /\ stored' = NoStore /\ mgr' = "renamed" /\ next' = c
    /\ UNCHANGED <<mem, env, readOnly, last, made>>

\* Manager.Save: validate, move the file to its backup ...
SaveFile(c) ==
    /\ Backend = "file" /\ mgr = "idle" /\ Valid(c) /\ ~readOnly
    /\ backup' = IF stored = NoStore THEN backup ELSE stored
    /\ stored' = NoStore
    /\ mgr' = "renamed" /\ next' = c
    /\ UNCHANGED <<mem, env, readOnly, last, made>>

\* ... saveToFile: a temporary file, renamed over the path ...
WriteFile ==
    /\ mgr = "renamed" /\ mgr' = "idle" /\ next' = NoStore
    /\ stored' = next /\ last' = next /\ made' = {}
    /\ mem' = Overlay(next, env)
    /\ UNCHANGED <<backup, env, readOnly>>

\* ... or it fails: memory keeps the old settings and the path stays empty.
WriteFileFails ==
    /\ mgr = "renamed" /\ mgr' = "idle" /\ next' = NoStore
    /\ UNCHANGED <<stored, backup, mem, env, readOnly, last, made>>

\* A crash or an orderly restart, perhaps with another environment.
Restart(e) ==
    /\ Start(e)
    /\ mgr' = "idle" /\ next' = NoStore
    /\ UNCHANGED backup

Save(c) == SaveRow(c) \/ SaveFile(c)

Next ==
    \/ \E c \in Sent : Save(c)
    \/ WriteFile \/ WriteFileFails
    \/ \E e \in Envs : Restart(e)

Spec == Init /\ [][Next]_vars

-----------------------------------------------------------------------------
(* Properties.                                                             *)

\* "env always wins": whatever was saved, loaded or merged, the running
\* settings show every override of the process.
EnvWins == \A f \in DOMAIN env : mem[f] = env[f]

\* A restart in the same environment is invisible, once a database holds the
\* settings: what runs is what would be loaded.
RestartInvisible == Backend = "database" => mem = Overlay(Base(stored), env)

\* The settings c, with the defaults in the place of some of its fields.
Without(c, fs) == [f \in DOMAIN c |-> IF f \in fs THEN Defaults[f] ELSE c[f]]

\* What Validate refuses, stored or running, is the environment's doing: partial
\* saves, each accepted, do not add up to settings Validate refuses, and neither
\* do a row and the defaults.  A row passes Validate as it is, and so does a file
\* unless Load created it under overrides.
StoredIsValid ==
    /\ Valid(Without(Base(stored), made))
    /\ Valid(Without(mem, made \cup DOMAIN env))

\* "Backup existing file before overwrite": while the path is empty, because
\* saves failed or one was cut off, the backup is what the file held last.
BackupHeld == Backend = "file" /\ stored = NoStore => backup = last

\* Whatever sequence of saves, failed writes and restarts: all four.
SettingsSound == EnvWins /\ StoredIsValid /\ RestartInvisible /\ BackupHeld
=============================================================================
