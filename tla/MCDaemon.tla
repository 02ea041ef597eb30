------------------------------- MODULE MCDaemon -------------------------------
(* Daemon with the sessions and the brokers of one workspace and language. *)
EXTENDS Daemon, TLC

Processes == Permutations(Broker) \cup Permutations(Session)
==============================================================================
