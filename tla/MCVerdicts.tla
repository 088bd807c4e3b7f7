------------------------------ MODULE MCVerdicts ------------------------------
(***************************************************************************)
(* Two pubkeys: 1 posts copies and is on no whitelist, 2 is on it and      *)
(* posts fewer.  The first configuration flags both, the second one does   *)
(* without the layer L0 and flags 1 only; the walk may miss 2.  The        *)
(* regression returns a set of weights that tells them apart by the        *)
(* whitelist, or one that goes by the events.                              *)
(***************************************************************************)
EXTENDS Verdicts

MCKeys      == 1 .. 2
MCWalks     == {{1}, MCKeys}
MCListed    == {2}
MCContent   == [p \in MCKeys |-> 3 - p]
MCLayers    == {"L0", "L1"}
MCOrder     == <<"L0", "L1", "_bias", "_threshold">>
W(a, b)     == [l \in MCLayers |-> IF l = "L0" THEN a ELSE b]
MCConfigs   == {[tau |-> 0, bias |-> 0, w |-> W(1, 2), on |-> MCLayers, sample |-> 1],
                [tau |-> 1, bias |-> 0, w |-> W(1, 1), on |-> {"L1"}, sample |-> 2]}
MCFits      == {[w |-> W(2, 0), bias |-> 0], [w |-> W(0, 1), bias |-> 0]}
MCLabelSets == {[p \in MCKeys |-> IF p = 1 THEN TRUE ELSE None]}
=============================================================================
