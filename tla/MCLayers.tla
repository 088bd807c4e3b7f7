------------------------------ MODULE MCLayers ------------------------------
(* Seven tokens: two words, the first one in capitals too, the links to two *)
(* hosts, one of them cut into two words, a hashtag with an emoji that      *)
(* holds no word, with the selector that goes with it, and such a selector  *)
(* alone, which joins any character before it and counts as an emoji where  *)
(* it begins a grapheme.  Hashes have four bits.                            *)
EXTENDS Layers, TLC

MCLower == <<1, 2, 1, 4, 5, 6, 7>>
MCChars == <<<<"g", "m">>, <<"g", "o">>, <<"g", "m">>, <<"x">>, <<"y">>, <<"#", "e", "v">>, <<"v">>>>
MCHost == <<"", "", "", "h2", "h1", "", "">>
MCHostRank == [h \in {"h1", "h2"} |-> IF h = "h1" THEN 1 ELSE 2]
MCEmoji == {"e", "v"}
MCClings == {<<c, "v">> : c \in {" ", "g", "m", "o", "x", "y", "#", "e", "v"}}
MCHashtag == <<FALSE, FALSE, FALSE, FALSE, FALSE, TRUE, FALSE>>
MCWords == <<<<1>>, <<2>>, <<1>>, <<4, 1>>, <<5>>, <<>>, <<>>>>

Contents == {<<>>, <<1>>, <<3>>, <<1, 2>>, <<2, 1, 2>>, <<4>>, <<4, 4, 5>>, <<5, 2>>, <<6>>, <<7>>}

MCPosts == [content : Contents, p : {0}, t : {0}]
           \cup {[content |-> <<1>>, p |-> 2, t |-> 0], [content |-> <<5, 2>>, p |-> 0, t |-> 3]}

\* log2 of 1 .. 36.
MCLog2 == <<0, 1000, 1585, 2000, 2322, 2585, 2807, 3000, 3170, 3322, 3459, 3585,
            3700, 3807, 3907, 4000, 4087, 4170, 4248, 4322, 4392, 4459, 4524, 4585,
            4644, 4700, 4755, 4807, 4858, 4907, 4954, 5000, 5044, 5087, 5129, 5170>>
=============================================================================
