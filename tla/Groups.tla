------------------------------- MODULE Groups -------------------------------
(***************************************************************************)
(* A load-balancing group seen twice: its engine with the engine's locks   *)
(* (GroupEngine), and requests routed through it (Routing), over the same  *)
(* members, lists and durations and one clock.  Routing starts with the    *)
(* engine seeded, and no cooldown that starts meanwhile ends while the     *)
(* requests are routed: a rewrite takes no time next to a cooldown.        *)
(***************************************************************************)
EXTENDS GroupEngine

CONSTANTS
    Requests, Key,  \* requests, all of one conversation, and its key
    MaxEdits,       \* bound: administrative writes
    RouteClock      \* bound: the clock while requests are routed

ASSUME RoutingAssumption ==
    /\ Key \in Keys \cup {NoKey} /\ IsFiniteSet(Members)
    /\ RouteClock \in Nat \ {0} /\ RouteClock <= Cooldown

VARIABLES row, eng, servable, req, good, edits

Routing == INSTANCE GroupRouting WITH Seeded <- TRUE, MaxClock <- RouteClock

\* A request moves to the backup pool only after the default pool has failed
\* it, and is refused (errNoServableGroupMember) only when no member of the
\* group was healthy and servable throughout.
LastResort == [](Routing!TypeOK /\ Routing!UnservableIsReal) /\ Routing!BackupLastResort
=============================================================================
