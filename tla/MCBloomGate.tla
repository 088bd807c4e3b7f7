----------------------------- MODULE MCBloomGate -----------------------------
(* Instances of BloomGate for TLC. *)
EXTENDS BloomGate, TLC

CONSTANTS ann, forwarder, garbage

\* Three rows over pages of two: one without a pubkey, one with an invalid one.
MCPubkeyOf == (1 :> NoKey) @@ (2 :> garbage) @@ (3 :> ann)
=============================================================================
