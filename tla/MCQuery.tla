------------------------------ MODULE MCQuery ------------------------------
(* Six events: three of one second, of which two have expired and carry all *)
(* the tag values of a filter; one that is too old; one that is stored      *)
(* during the walk.  Six filters, for every index but the author's; one has *)
(* two tag values of which the keys of the first may look like the second's. *)
EXTENDS Query, TLC

MCEvents  == {"a", "b", "c", "d", "new", "old"}
MCCreated == [e \in MCEvents |-> CASE e \in {"a", "b", "c"} -> 3 [] e \in {"d", "new"} -> 2
                                   [] e = "old" -> 1]
MCAttr    == [e \in MCEvents |->
    [id     |-> e,
     author |-> IF e \in {"a", "b", "new"} THEN "p" ELSE "q",
     kind   |-> IF e \in {"d", "new"} THEN 2 ELSE 1,
     tags   |-> CASE e \in {"a", "c"} -> {<<"t", 1>>, <<"t", 2>>, <<"t", 3>>}
                  [] e = "b" -> {<<"t", 1>>, <<"t", 3>>}
                  [] e = "d" -> {<<"t", 2>>, <<"t", 4>>} [] e = "old" -> {<<"t", 2>>}
                  [] e = "new" -> {<<"t", 2>>, <<"t", 3>>}]]
MCDecode  == [t \in MCEvents \cup {"p", "q", "Q", "bad"} |->
                 CASE t = "Q" -> "q" [] t = "bad" -> None [] OTHER -> t]
MCUnreadable == {"a", "c"}
MCInitial == MCEvents \ {"new"}
\* Every order of the three that share a second.
MCNumberings == {f @@ [e \in {"d", "old"} |-> IF e = "d" THEN 4 ELSE 5] :
                    f \in {g \in [{"a", "b", "c"} -> 1 .. 3] : IsInjective(g)}}

\* The order of the values in the keys.  Tag 4 is tag 3 and one byte more, which
\* second 3 spells.
MCKeyRank ==
    [id         |-> [e \in MCEvents |-> CASE e = "a" -> 1 [] e = "b" -> 2 [] e = "c" -> 3
                                          [] e = "d" -> 4 [] e = "new" -> 5 [] e = "old" -> 6],
     pubkeyKind |-> [x \in {"p", "q"} \X {1, 2} |-> x[2] + (IF x[1] = "p" THEN 0 ELSE 2)],
     kind       |-> [k \in {1, 2} |-> k],
     tag        |-> [x \in {"t"} \X (1 .. 4) |-> x[2]],
     created_at |-> [x \in {"all"} |-> 1]]
MCSpelt == {<<<<"t", 3>>, 3, <<"t", 4>>>>}

AnyEvent == [ids |-> None, authors |-> None, kinds |-> None, tags |-> None, since |-> 2, until |-> 4]
MCFilters == {
    AnyEvent,
    [AnyEvent EXCEPT !.ids = {"b", "new", "d", "bad"}, !.authors = {"p"}],
    [AnyEvent EXCEPT !.authors = {"p", "Q"}, !.kinds = {1, 2}],
    [AnyEvent EXCEPT !.kinds = {1, 2}, !.tags = {[name |-> "t", values |-> {1, 2}]}, !.until = 2],
    [AnyEvent EXCEPT !.tags = {[name |-> "t", values |-> {1, 2, 3}]}],
    [AnyEvent EXCEPT !.tags = {[name |-> "t", values |-> {3, 4}]}, !.until = 2]}
=============================================================================
