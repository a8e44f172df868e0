--------------------------- MODULE MCCredentialLB ---------------------------
(* Small instances of CredentialLB.                                        *)
EXTENDS CredentialLB, TLC

Pair == {<<"a", "b">>}
TripleOrOne == {<<"a", "b", "c">>, <<"a">>}
Requests == Permutations(Procs)
=============================================================================
