------------------------- MODULE MCRaceCoordinator -------------------------
(* Instances of RaceCoordinator for TLC: chains and credential lists.      *)
EXTENDS RaceCoordinator

Config(chain, credsOf, live, parallel, idle, key, maxOther) ==
    [chain |-> chain, credsOf |-> credsOf, liveGate |-> live, maxParallel |-> parallel,
     parallelOnIdle |-> idle, hasKey |-> key, maxOthers |-> maxOther]

\* One model with three credentials: all of the failover, no fallback.
ChainOne == <<"m1">>
CredsOne == [m \in {"m1"} |-> {"a", "b", "c"}]
CredsPair == [m \in {"m1"} |-> {"a", "b"}]

\* Two models that share a credential; two with one credential each.
ChainTwo == <<"m1", "m2">>
CredsTwo == [m \in {"m1", "m2"} |-> IF m = "m1" THEN {"a", "b"} ELSE {"b", "c"}]
CredsTwoSingle == [m \in {"m1", "m2"} |-> {"a"}]

\* Three models with one credential each.
ChainThree == <<"m1", "m2", "m3">>
CredsThree == [m \in {"m1", "m2", "m3"} |-> {"a"}]

\* Buffered failover with interference; layered live failover; a live chain
\* with idle spawns.
SafetyConfigs ==
    {Config(ChainOne, CredsOne, FALSE, 3, TRUE, TRUE, 2),
     Config(ChainTwo, CredsTwo, TRUE, 3, FALSE, TRUE, 0),
     Config(ChainThree, CredsThree, TRUE, 3, TRUE, FALSE, 0)}

\* Two models raced two at a time; one model's failover.
FairConfigs ==
    {Config(ChainTwo, CredsTwoSingle, TRUE, 2, TRUE, FALSE, 0),
     Config(ChainOne, CredsPair, FALSE, 3, FALSE, FALSE, 0)}

LiveOne == {Config(ChainOne, CredsOne, TRUE, 3, FALSE, FALSE, 0)}
BufferedOne == {Config(ChainOne, CredsOne, FALSE, 3, FALSE, FALSE, 0)}
SharedOne == {Config(ChainOne, CredsOne, FALSE, 3, FALSE, TRUE, 1)}
=============================================================================
