------------------------------ MODULE MCGroups ------------------------------
(* Small instances of GroupEngine and GroupRouting, one per behaviour: part *)
(* is chosen at the start and says which of them takes the steps.  The      *)
(* default pool is GroupEngine with the constants of the configuration.     *)
EXTENDS Groups, TLC

CONSTANTS p, q

VARIABLE part

engineVars == <<states, inc, calls, stopped>>
routingVars == <<row, eng, servable, req, good, edits>>

\* Two defaults with a backup, one default with two backups, one default.
OneDefault == ("a" :> "default") @@ ("b" :> "backup") @@ ("c" :> "backup")
Lone == "a" :> "default"
Lists == {("a" :> "default") @@ ("b" :> "default") @@ ("c" :> "backup"), OneDefault, Lone}
InDefault == {<<"default", "k">>}
InBackup == {<<"backup", "k">>}

Backup == INSTANCE GroupEngine WITH Wanted <- InBackup, MaxClock <- 3
Lifecycle == INSTANCE GroupEngine WITH Configs <- {OneDefault}, MaxStates <- 2, MaxClock <- 1, Shutdown <- TRUE

MCInit ==
    /\ part \in {"default", "backup", "lifecycle", "routing"}
    /\ Init /\ (part \in {"lifecycle", "routing"} => states[1].conf = OneDefault)
    /\ Routing!Init /\ (part # "routing" => row = Lone /\ servable = {})

MCNext ==
    \/ part = "default" /\ Next /\ UNCHANGED <<part, routingVars>>
    \/ part = "backup" /\ Backup!Next /\ UNCHANGED <<part, routingVars>>
    \/ part = "lifecycle" /\ Lifecycle!Next /\ UNCHANGED <<part, routingVars>>
    \/ part = "routing" /\ Routing!Next /\ UNCHANGED <<part, engineVars>>

MCSpec == MCInit /\ [][MCNext]_<<part, clock, engineVars, routingVars>>
Alike == Permutations({p, q})
=============================================================================
