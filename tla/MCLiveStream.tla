---------------------------- MODULE MCLiveStream ----------------------------
(* A small instance of LiveStream.                                         *)
EXTENDS LiveStream

\* Two parallel calls, streamed live to an Anthropic client.
Parallel == {[live |-> TRUE, buffered |-> TRUE, calls |-> {0, 1}, joint |-> FALSE, size |-> 1]}
=============================================================================
