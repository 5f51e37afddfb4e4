--------------------------- MODULE MCPrefixCache ---------------------------
(* Instances of PrefixCache for TLC. *)
EXTENDS PrefixCache

(* Two units in each tier, unit 0 aside; one unit at a time may be in      *)
(* transfer to the device.                                                 *)
TwoTiers     == {"device", "host"}
SmallTotal   == [t \in TwoTiers |-> 3]
SmallPending == [t \in TwoTiers |-> IF t = "device" THEN 1 ELSE 0]

PageSymmetry == Permutations(Page) \cup Permutations(Pin)
=============================================================================
