------------------------------ MODULE MCCaches ------------------------------
(* The two caches of an engine, one at a time: of prefixes, and of choices *)
(* of kernels.                                                             *)
(*                                                                         *)
(* Three builtin kernels, of which one fails to prepare, and one a plugin  *)
(* adds, which reads a fact the others do not; an engine with a policy     *)
(* that measures, and one on another device whose rules read that fact as  *)
(* well and may conflict; and a plugin that insists on a family.           *)
EXTENDS MCPrefixCache, KernelSelection

VARIABLE part   \* the one that is used

Kernels ==
  [fast   |-> [when |-> [device |-> {"gpu"}], reference |-> FALSE, capture_safe |-> FALSE],
   plugin |-> [when |-> [rows |-> {1}], reference |-> FALSE, capture_safe |-> TRUE],
   graph  |-> [when |-> <<>>, reference |-> FALSE, capture_safe |-> TRUE],
   ref    |-> [when |-> <<>>, reference |-> TRUE, capture_safe |-> TRUE]]
ByPriority == <<"fast", "plugin", "graph", "ref">>

Static == [profile |-> "static", fallback |-> "reference", rules |-> {}, overrides |-> {}]
Policies ==
  [static   |-> Static,
   measured |-> [Static EXCEPT !.profile = "autotune"],
   rules    |-> [Static EXCEPT !.fallback = "error", !.rules =
     {[priority |-> 1, when |-> [rows |-> {1}], kernels |-> <<"graph", "fast">>, glob |-> FALSE],
      [priority |-> 1, when |-> [mode |-> {"capture"}], kernels |-> <<"ref">>, glob |-> FALSE]}],
   override |-> [Static EXCEPT !.overrides =
     {[priority |-> 1, when |-> [mode |-> {"eager"}], kernels |-> <<"fast", "plugin">>, glob |-> TRUE]}]]

NoEngine == [policy |-> "static", device |-> "gpu"]
Engines  ==
  {[policy |-> "measured", device |-> "gpu"], [policy |-> "rules", device |-> "cpu"]}

Preference == [a |-> <<>>, b |-> <<"ref">>]

Calls ==
  {[mode |-> "eager", device |-> Inherit, rows |-> 1], [mode |-> "eager", device |-> Inherit, rows |-> 2],
   [mode |-> "capture", device |-> "gpu", rows |-> 1]}

MCInit == Init /\ KernelInit /\ part \in {"prefixes", "kernels"} /\ (part = "prefixes" => ~verify)
MCNext ==
  /\ UNCHANGED part
  /\ \/ part = "prefixes" /\ Next /\ UNCHANGED kernelVars
     \/ part = "kernels" /\ KernelNext /\ UNCHANGED vars
MCSpec == MCInit /\ [][MCNext]_<<part, vars, kernelVars>>
=============================================================================
