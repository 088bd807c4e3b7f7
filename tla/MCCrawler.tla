----------------------------- MODULE MCCrawler -----------------------------
(* Two accounts whose lists the relays hold, the first in two versions, and *)
(* a node with the second's name in capitals left by an older crawler.      *)
EXTENDS Crawler

MCKeys == {"a", "b", "B"}
MCValid == {"a", "b"}
MCLower == [a |-> "a", b |-> "b", B |-> "b"]
MCLegacy == {"B"}
MCEvents == {"a1", "a2", "b1"}
MCAuthor == [a1 |-> "a", a2 |-> "a", b1 |-> "b"]
MCCreatedAt == [a1 |-> 1, a2 |-> 2, b1 |-> 1]
MCFollows == [a1 |-> {"b"}, a2 |-> {"a"}, b1 |-> {"a"}]
MCClass == {"transport", "filter"}
MCThreshold == [transport |-> 2, filter |-> 1]
=============================================================================
