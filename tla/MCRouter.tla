------------------------------- MODULE MCRouter -------------------------------
(* Instances of Router for TLC. *)
EXTENDS Router, TLC

CONSTANTS e1, e2, e3, e4, ann, ben

\* Two events of one author, one of another, and one that is malformed.
MCAuthor == (e1 :> ann) @@ (e2 :> ann) @@ (e3 :> ben) @@ (e4 :> ann)
MCInput == <<e1, e4, e2, e3>>
=============================================================================
