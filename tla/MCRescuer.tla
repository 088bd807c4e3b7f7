----------------------------- MODULE MCRescuer ------------------------------
(* Instances of Rescuer for TLC. *)
EXTENDS Rescuer, TLC

CONSTANTS e1, e2, e3, e4, alice, bob

\* Two events of one author, to be sent in order, and two of another, one of them
\* on a line the exporter cannot read.
MCAuthor    == (e1 :> alice) @@ (e2 :> alice) @@ (e3 :> bob) @@ (e4 :> bob)
MCCreatedAt == (e1 :> 1) @@ (e2 :> 2) @@ (e3 :> 1) @@ (e4 :> 2)
=============================================================================
