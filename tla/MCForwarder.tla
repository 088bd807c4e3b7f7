---------------------------- MODULE MCForwarder -----------------------------
(* Instances of Forwarder for TLC. *)
EXTENDS Forwarder, TLC

\* The live forwarders of docker-compose.evtfwd.yml have no start time, the
\* historical ones a fixed one; an operator may change it between two starts.
LiveOrHistory == {None, -3}
=============================================================================
