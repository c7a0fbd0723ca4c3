---------------------------- MODULE MCBlocklist ----------------------------
(* An instance of Blocklist for TLC: two lists that may overlap.            *)
EXTENDS Blocklist

OverlappingRanges == {<<0, 0>>, <<1, 3>>}
=============================================================================
