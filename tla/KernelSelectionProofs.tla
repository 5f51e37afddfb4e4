----------------------- MODULE KernelSelectionProofs -----------------------
(***************************************************************************)
(* Proofs about KernelSelection, for any kernels, policies, engines, call  *)
(* sites and calls.                                                        *)
(***************************************************************************)
EXTENDS KernelSelection, WellFoundedInduction, TLAPS

-----------------------------------------------------------------------------
(* Orders.                                                                 *)

(* A set of naturals that is not empty has a least element, which Min is. *)
LEMMA MinIsLeast ==
  ASSUME NEW S \in SUBSET Nat, S # {}
  PROVE  Min(S) \in S /\ \A y \in S : Min(S) <= y
<1> DEFINE R == OpToRel(<, Nat)
<1>1. IsWellFoundedOn(R, Nat)
  BY NatLessThanWellFounded
<1>2. \A x, y \in Nat : x < y => <<x, y>> \in R
  BY DEF OpToRel
<1> HIDE DEF R
<1>3. PICK x \in S : \A y \in S : ~(<<y, x>> \in R)
  BY <1>1, WFMin
<1>4. \A y \in S : x \in Nat /\ y \in Nat /\ ~(y < x)
  BY <1>2, <1>3, Zenon
<1>5. \A y \in S : x <= y
  BY <1>4
<1> QED
  BY <1>5 DEF Min

(* The first kernel of a list that is in a set is in it and in the list,   *)
(* and none before it is in the set.                                       *)
LEMMA EarliestIsFirst ==
  ASSUME NEW list \in Seq(Kernel), NEW ks, ks \cap ToSet(list) # {}
  PROVE  \E i \in DOMAIN list :
           /\ Earliest(ks, list) = list[i] /\ list[i] \in ks
           /\ \A j \in DOMAIN list : list[j] \in ks => i <= j
<1> DEFINE S == {i \in DOMAIN list : list[i] \in ks}
<1>1. S \in SUBSET Nat
  OBVIOUS
<1>2. S # {}
  BY DEF ToSet
<1>3. Min(S) \in S /\ \A y \in S : Min(S) <= y
  BY <1>1, <1>2, MinIsLeast
<1>4. Earliest(ks, list) = list[Min(S)]
  BY DEF Earliest
<1> QED
  BY <1>3, <1>4

(* The first kernel of a set, by a list and then by priority, is in it.    *)
LEMMA FirstIsMember ==
  ASSUME NEW list \in Seq(Kernel), NEW ks \in SUBSET Kernel, ks # {}
  PROVE  First(ks, list) \in ks
<1>1. CASE ks \cap ToSet(list) # {}
  BY <1>1, EarliestIsFirst DEF First
<1>2. CASE ks \cap ToSet(list) = {}
  <2>1. Ranked \in Seq(Kernel) /\ ks \cap ToSet(Ranked) # {}
    BY KernelAssumption
  <2> QED
    BY <1>2, <2>1, EarliestIsFirst DEF First
<1> QED
  BY <1>1, <1>2

(* Two sets that both have a place in a list, the first place of the       *)
(* larger one held by the smaller one.                                     *)
LEMMA EarliestOfPart ==
  ASSUME NEW list \in Seq(Kernel), NEW ks, NEW part \in SUBSET ks,
         ks \cap ToSet(list) # {}, Earliest(ks, list) \in part
  PROVE  Earliest(part, list) = Earliest(ks, list)
<1>1. PICK i \in DOMAIN list :
        /\ Earliest(ks, list) = list[i] /\ list[i] \in ks
        /\ \A j \in DOMAIN list : list[j] \in ks => i <= j
  BY EarliestIsFirst
<1>2. part \cap ToSet(list) # {}
  BY <1>1 DEF ToSet
<1>3. PICK n \in DOMAIN list :
        /\ Earliest(part, list) = list[n] /\ list[n] \in part
        /\ \A j \in DOMAIN list : list[j] \in part => n <= j
  BY <1>2, EarliestIsFirst
<1>4. i <= n /\ n <= i /\ i \in Int /\ n \in Int
  BY <1>1, <1>3
<1>5. i = n
  BY <1>4
<1> QED
  BY <1>1, <1>3, <1>5

(* Leaving out kernels behind the first changes nothing: why explain(),    *)
(* which does not prepare, names what select() returns when the first can  *)
(* be prepared.                                                            *)
LEMMA FirstOfPart ==
  ASSUME NEW list \in Seq(Kernel), NEW ks \in SUBSET Kernel, NEW part \in SUBSET ks,
         First(ks, list) \in part
  PROVE  First(part, list) = First(ks, list)
<1>1. CASE ks \cap ToSet(list) # {}
  <2>1. First(ks, list) = Earliest(ks, list)
    BY <1>1 DEF First
  <2>2. Earliest(ks, list) \in ToSet(list)
    BY <1>1, EarliestIsFirst DEF ToSet
  <2>3. First(part, list) = Earliest(part, list)
    BY <2>1, <2>2 DEF First
  <2> QED
    BY <1>1, <2>1, <2>3, EarliestOfPart
<1>2. CASE ks \cap ToSet(list) = {}
  <2>1. First(ks, list) = Earliest(ks, Ranked) /\ First(part, list) = Earliest(part, Ranked)
    BY <1>2 DEF First
  <2>2. Ranked \in Seq(Kernel) /\ ks \cap ToSet(Ranked) # {}
    BY KernelAssumption
  <2> QED
    BY <2>1, <2>2, EarliestOfPart
<1> QED
  BY <1>1, <1>2

-----------------------------------------------------------------------------
(* What a selection depends on.                                            *)

(* Facts that agree on the mode, the device and, where it is read, the     *)
(* number of rows.                                                         *)
Alike(paths, f, g) ==
  /\ f.mode = g.mode /\ f.device = g.device
  /\ "rows" \in paths => f.rows = g.rows

(* A condition that reads facts among some paths holds of facts that are   *)
(* alike on them, or of neither.                                           *)
LEMMA HoldsAlike ==
  ASSUME NEW paths, NEW f, NEW g, Alike(paths, f, g),
         NEW when, DOMAIN when \subseteq paths \cap {"mode", "device", "rows"}
  PROVE  Holds(when, f) = Holds(when, g)
<1>1. \A n \in DOMAIN when : f[n] = g[n]
  BY DEF Alike
<1> QED
  BY <1>1 DEF Holds

(* assess() finds the same kernels for facts that are alike. *)
LEMMA EligibleAlike ==
  ASSUME NEW catalog \in SUBSET Kernel, NEW policy \in DOMAIN Policy, NEW f, NEW g,
         Alike(FactsUsed(catalog, policy), f, g)
  PROVE  Eligible(catalog, f) = Eligible(catalog, g)
<1>1. ASSUME NEW k \in catalog
      PROVE  Captures(f, k) = Captures(g, k) /\ Holds(Impl[k].when, f) = Holds(Impl[k].when, g)
  <2>1. DOMAIN Impl[k].when \subseteq FactsUsed(catalog, policy)
    BY DEF FactsUsed
  <2>2. DOMAIN Impl[k].when \subseteq {"mode", "device", "rows"}
    BY KernelAssumption
  <2>3. Holds(Impl[k].when, f) = Holds(Impl[k].when, g)
    BY <2>1, <2>2, HoldsAlike
  <2>4. Captures(f, k) = Captures(g, k)
    BY DEF Captures, Alike
  <2> QED
    BY <2>3, <2>4
<1> QED
  BY <1>1 DEF Eligible

(* The rules that decide are the same for facts that are alike. *)
LEMMA HighestAlike ==
  ASSUME NEW catalog \in SUBSET Kernel, NEW policy \in DOMAIN Policy, NEW f, NEW g,
         Alike(FactsUsed(catalog, policy), f, g), NEW rules \in SUBSET Rules(policy)
  PROVE  Highest(rules, f) = Highest(rules, g)
<1>1. ASSUME NEW r \in rules
      PROVE  Holds(r.when, f) = Holds(r.when, g)
  <2>0. DOMAIN r.when \in {DOMAIN o.when : o \in Rules(policy)}
    OBVIOUS
  <2>1. DOMAIN r.when \subseteq FactsUsed(catalog, policy)
    BY <2>0 DEF FactsUsed
  <2>2. DOMAIN r.when \subseteq {"mode", "device", "rows"}
    BY KernelAssumption
  <2> QED
    BY <2>1, <2>2, HoldsAlike
<1>2. {r \in rules : Holds(r.when, f)} = {r \in rules : Holds(r.when, g)}
  BY <1>1
<1> QED
  BY <1>2 DEF Highest

(* The policy decides the same. *)
LEMMA DecideAlike ==
  ASSUME NEW catalog \in SUBSET Kernel, NEW policy \in DOMAIN Policy, NEW f, NEW g,
         Alike(FactsUsed(catalog, policy), f, g)
  PROVE  Decide(catalog, policy, f) = Decide(catalog, policy, g)
<1>1. Highest(Policy[policy].overrides, f) = Highest(Policy[policy].overrides, g)
  BY HighestAlike DEF Rules
<1>2. Highest(Policy[policy].rules, f) = Highest(Policy[policy].rules, g)
  BY HighestAlike DEF Rules
<1> QED
  BY <1>1, <1>2 DEF Decide

(* A kernel that select() may return: one that can be used, and the first  *)
(* of them unless they are measured.                                       *)
Right(catalog, policy, facts, prefer, k) ==
  LET decision == Decide(catalog, policy, facts)
      prepared == Prepared(catalog, policy, facts, decision)
  IN /\ k \in prepared
     /\ Tuning(policy, facts, decision) \/ k = First(prepared, ListOf(decision, prefer))

(* The memo key holds all that a selection depends on. *)
LEMMA RightAlike ==
  ASSUME NEW catalog \in SUBSET Kernel, NEW policy \in DOMAIN Policy, NEW f, NEW g,
         Alike(FactsUsed(catalog, policy), f, g), NEW prefer, NEW k,
         Right(catalog, policy, f, prefer, k)
  PROVE  Right(catalog, policy, g, prefer, k)
<1> DEFINE d == Decide(catalog, policy, f)
<1>1. d = Decide(catalog, policy, g)
  BY DecideAlike
<1>2. Eligible(catalog, f) = Eligible(catalog, g)
  BY EligibleAlike
<1> HIDE DEF d
<1>3. Order(catalog, policy, f, d) = Order(catalog, policy, g, d)
  BY <1>2 DEF Order
<1>4. Prepared(catalog, policy, f, d) = Prepared(catalog, policy, g, d)
  BY <1>3 DEF Prepared
<1>5. Tuning(policy, f, d) = Tuning(policy, g, d)
  BY DEF Tuning, Alike
<1>6. /\ k \in Prepared(catalog, policy, f, d)
      /\ Tuning(policy, f, d) \/ k = First(Prepared(catalog, policy, f, d), ListOf(d, prefer))
  BY DEF Right, d
<1> QED
  BY <1>1, <1>4, <1>5, <1>6 DEF Right

(* Calls with one memo key have facts that are alike. *)
LEMMA KeyedAlike ==
  ASSUME NEW paths, NEW q, NEW r, KeyOf(paths, q) = KeyOf(paths, r), NEW device
  PROVE  Alike(paths, Facts(device, q), Facts(device, r))
<1>1. q.mode = r.mode /\ q.device = r.device /\ ("rows" \in paths => q.rows = r.rows)
  BY DEF KeyOf
<1> QED
  BY <1>1 DEF Alike, Facts

-----------------------------------------------------------------------------
(* What Selector.select() returns.                                         *)

(* A decision lists kernels. *)
LEMMA ListIsSequence ==
  ASSUME NEW catalog \in SUBSET Kernel, NEW policy \in DOMAIN Policy, NEW facts, NEW s \in Site
  PROVE  /\ Decide(catalog, policy, facts).list \in Seq(Kernel)
         /\ ListOf(Decide(catalog, policy, facts), Prefer[s]) \in Seq(Kernel)
<1> DEFINE o == Highest(Policy[policy].overrides, facts)
           m == IF o # {} THEN o ELSE Highest(Policy[policy].rules, facts)
           rule == CHOOSE r \in m : TRUE
<1>1. m \subseteq Rules(policy)
  BY DEF Highest, Rules
<1>2. m # {} => rule \in m
  OBVIOUS
<1>3. m # {} => rule.kernels \in Seq(Kernel)
  BY <1>1, <1>2, KernelAssumption
<1>4. Decide(catalog, policy, facts).list = IF m = {} THEN <<>> ELSE rule.kernels
  BY DEF Decide
<1>5. Decide(catalog, policy, facts).list \in Seq(Kernel)
  BY <1>3, <1>4
<1>6. Prefer[s] \in Seq(Kernel)
  BY KernelAssumption
<1> QED
  BY <1>5, <1>6 DEF ListOf

(* What can be used is registered and, in a graph, safe to capture. *)
LEMMA PreparedIsEligible ==
  ASSUME NEW catalog \in SUBSET Kernel, NEW policy, NEW facts, NEW decision,
         NEW k \in Prepared(catalog, policy, facts, decision)
  PROVE  k \in catalog /\ k \in Kernel /\ Captures(facts, k)
BY DEF Prepared, Order, Eligible

(* select() returns a kernel that is right. *)
LEMMA WinnersAreRight ==
  ASSUME NEW catalog \in SUBSET Kernel, NEW policy \in DOMAIN Policy, NEW facts, NEW s \in Site,
         NEW table, NEW k \in Winners(catalog, policy, facts, Prefer[s], table)
  PROVE  Right(catalog, policy, facts, Prefer[s], k)
<1> DEFINE d == Decide(catalog, policy, facts)
           prepared == Prepared(catalog, policy, facts, d)
           list == ListOf(d, Prefer[s])
<1>1. list \in Seq(Kernel)
  BY ListIsSequence
<1>2. prepared \in SUBSET Kernel
  BY PreparedIsEligible
<1>3. prepared # {}
  BY DEF Winners
<1> HIDE DEF d, prepared, list
<1>4. First(prepared, list) \in prepared
  BY <1>1, <1>2, <1>3, FirstIsMember
<1>5. k \in IF Tuning(policy, facts, d)
            THEN Tuned(Recorded(table, TuneKey(catalog, policy, facts)), prepared, list)
            ELSE {First(prepared, list)}
  BY <1>3 DEF Winners, d, prepared, list
<1>6. k \in prepared /\ (Tuning(policy, facts, d) \/ k = First(prepared, list))
  BY <1>4, <1>5 DEF Tuned
<1> QED
  BY <1>6 DEF Right, d, prepared, list

-----------------------------------------------------------------------------
(* The invariant.                                                          *)

FactSet ==
  [mode : {q.mode : q \in CallQuery}, rows : {q.rows : q \in CallQuery},
   device : {q.device : q \in CallQuery} \cup {e.device : e \in Engine \cup {Default}}]
KeySet ==
  [catalog : SUBSET Kernel, policy : DOMAIN Policy, facts : FactSet, prefer : {Prefer[s] : s \in Site}]
TuneSet      == [catalog : SUBSET Kernel, policy : DOMAIN Policy, facts : FactSet]
SelectionSet == [kernel : Kernel, key : KeySet, made : Nat \X Nat]
MemoKeySet   ==
  [mode : {q.mode : q \in CallQuery}, device : {q.device : q \in CallQuery},
   rows : SUBSET {q.rows : q \in CallQuery}]
FingerprintSet ==
  [catalog : SUBSET Kernel, policy : DOMAIN Policy,
   device : {e.device : e \in Engine \cup {Default}}, epoch : 0..MaxEpoch]

Dict(keys, values) == UNION {[D -> values] : D \in SUBSET keys}

SelectorSet ==
  [catalog : SUBSET Kernel, policy : DOMAIN Policy,
   device : {e.device : e \in Engine \cup {Default}}, epoch : 0..MaxEpoch,
   cache : SUBSET SelectionSet, autotune : Dict(TuneSet, Kernel)]

SiteSet ==
  [memo : Dict(MemoKeySet, SelectionSet), fingerprint : FingerprintSet \cup {NoEntries},
   frozen : Dict({q.mode : q \in CallQuery}, SelectionSet)]

Shape ==
  /\ pool \in Seq(SelectorSet) /\ active \in 1..Len(pool) /\ Len(pool) <= MaxSelectors
  /\ verify \in BOOLEAN /\ file \in Dict(TuneSet, Kernel) /\ site \in [Site -> SiteSet]

(* A record names a kernel that could be used when it was made. *)
TableRight(table) ==
  \A t \in DOMAIN table :
    table[t] \in Prepared(t.catalog, t.policy, t.facts, Decide(t.catalog, t.policy, t.facts))

(* What is cached when kernels are measured: the recorded one, or the      *)
(* first when none could be measured.                                      *)
AsRecorded(table, x) ==
  LET key      == x.key
      decision == Decide(key.catalog, key.policy, key.facts)
      prepared == Prepared(key.catalog, key.policy, key.facts, decision)
      t        == TuneKey(key.catalog, key.policy, key.facts)
  IN Tuning(key.policy, key.facts, decision) =>
       IF t \in DOMAIN table THEN x.kernel = table[t]
       ELSE prepared \cap Measurable = {} /\ x.kernel = First(prepared, ListOf(decision, key.prefer))

SelectorRight(p) ==
  /\ Builtin \subseteq p.catalog /\ TableRight(p.autotune)
  /\ \A x \in p.cache :
       /\ x.key.catalog = p.catalog /\ x.key.policy = p.policy
       /\ Right(x.key.catalog, x.key.policy, x.key.facts, x.key.prefer, x.kernel)
       /\ AsRecorded(p.autotune, x)
  /\ \A x, y \in p.cache : x.key = y.key => x = y

(* A selection of registered kernels that is safe in its mode. *)
Sound(x) == x.kernel \in x.key.catalog /\ Captures(x.key.facts, x.kernel)

(* Each entry of a memo is right for the calls that have its key. *)
MemoRight(s, f, memo) ==
  \A k \in DOMAIN memo :
    /\ Sound(memo[k]) /\ memo[k].key.facts.mode = k.mode
    /\ f \in FingerprintSet
    /\ \A q \in CallQuery : KeyOf(FactsUsed(f.catalog, f.policy), q) = k =>
         Right(f.catalog, f.policy, Facts(f.device, q), Prefer[s], memo[k].kernel)

FrozenRight(frozen) ==
  \A m \in DOMAIN frozen : Sound(frozen[m]) /\ frozen[m].key.facts.mode = m

IInv ==
  /\ Shape /\ TableRight(file)
  /\ \A i \in 1..Len(pool) : SelectorRight(pool[i])
  /\ \A s \in Site : MemoRight(s, site[s].fingerprint, site[s].memo) /\ FrozenRight(site[s].frozen)

-----------------------------------------------------------------------------
(* Helpers on dicts and selectors.                                         *)

(* A dict without entries. *)
LEMMA EmptyDict ==
  ASSUME NEW keys, NEW values
  PROVE  NoEntries \in Dict(keys, values) /\ DOMAIN NoEntries = {}
<1>1. NoEntries \in [{} -> values] /\ DOMAIN NoEntries = {}
  BY DEF NoEntries
<1> QED
  BY <1>1 DEF Dict

(* The keys and values of a dict. *)
LEMMA DictIs ==
  ASSUME NEW keys, NEW values, NEW dict \in Dict(keys, values)
  PROVE  DOMAIN dict \subseteq keys /\ \A k \in DOMAIN dict : dict[k] \in values
BY DEF Dict

(* An assignment to a dict. *)
LEMMA PutIs ==
  ASSUME NEW keys, NEW values, NEW dict \in Dict(keys, values), NEW key \in keys, NEW value \in values
  PROVE  /\ Put(dict, key, value) \in Dict(keys, values)
         /\ DOMAIN Put(dict, key, value) = DOMAIN dict \cup {key}
         /\ Put(dict, key, value)[key] = value
         /\ \A k \in DOMAIN dict : k # key => Put(dict, key, value)[k] = dict[k]
<1>1. DOMAIN dict \subseteq keys /\ \A k \in DOMAIN dict : dict[k] \in values
  BY DictIs
<1>2. Put(dict, key, value) \in [DOMAIN dict \cup {key} -> values]
  BY <1>1 DEF Put
<1>3. DOMAIN dict \cup {key} \in SUBSET keys
  BY <1>1
<1>4. Put(dict, key, value) \in Dict(keys, values)
  BY <1>2, <1>3 DEF Dict
<1> QED
  BY <1>4 DEF Put

(* The installed selector and its parts. *)
LEMMA SelectorIs ==
  ASSUME Shape
  PROVE  /\ Selector \in SelectorSet /\ active \in 1..Len(pool)
         /\ Selector.catalog \in SUBSET Kernel /\ Selector.policy \in DOMAIN Policy
         /\ Selector.device \in {e.device : e \in Engine \cup {Default}}
         /\ Selector.epoch \in 0..MaxEpoch
         /\ Selector.cache \in SUBSET SelectionSet /\ Selector.autotune \in Dict(TuneSet, Kernel)
<1>1. Selector \in SelectorSet /\ active \in 1..Len(pool)
  BY DEF Shape, Selector
<1> QED
  BY <1>1 DEF SelectorSet

(* A new selector. *)
LEMMA FreshIs ==
  ASSUME NEW e \in Engine \cup {Default}, NEW table \in Dict(TuneSet, Kernel), TableRight(table)
  PROVE  Fresh(e, table) \in SelectorSet /\ SelectorRight(Fresh(e, table))
<1>1. Builtin \in SUBSET Kernel /\ e.policy \in DOMAIN Policy /\ 0 \in 0..MaxEpoch
  BY KernelAssumption
<1>2. Fresh(e, table) \in SelectorSet
  BY <1>1 DEF Fresh, SelectorSet
<1>3. SelectorRight(Fresh(e, table))
  BY DEF SelectorRight, Fresh
<1> QED
  BY <1>2, <1>3

(* The key of a selection that is made now. *)
LEMMA CacheKeyIs ==
  ASSUME Shape, NEW s \in Site, NEW q \in CallQuery
  PROVE  /\ Facts(Selector.device, q) \in FactSet /\ Facts(Selector.device, q).mode = q.mode
         /\ CacheKey(s, q) \in KeySet
         /\ CacheKey(s, q).catalog = Selector.catalog /\ CacheKey(s, q).policy = Selector.policy
         /\ CacheKey(s, q).facts = Facts(Selector.device, q) /\ CacheKey(s, q).prefer = Prefer[s]
         /\ MemoKey(q) \in MemoKeySet /\ MemoKey(q).mode = q.mode
         /\ Fingerprint \in FingerprintSet
<1>1. Facts(Selector.device, q) \in FactSet /\ Facts(Selector.device, q).mode = q.mode
  BY SelectorIs DEF Facts, FactSet
<1>2. CacheKey(s, q) \in KeySet
  BY <1>1, SelectorIs DEF CacheKey, KeySet
<1>3. /\ CacheKey(s, q).catalog = Selector.catalog /\ CacheKey(s, q).policy = Selector.policy
      /\ CacheKey(s, q).facts = Facts(Selector.device, q) /\ CacheKey(s, q).prefer = Prefer[s]
  BY DEF CacheKey
<1>4. MemoKey(q) \in MemoKeySet /\ MemoKey(q).mode = q.mode
  BY DEF MemoKey, KeyOf, MemoKeySet
<1>5. Fingerprint \in FingerprintSet
  BY SelectorIs DEF Fingerprint, FingerprintSet
<1> QED
  BY <1>1, <1>2, <1>3, <1>4, <1>5

-----------------------------------------------------------------------------
(* The invariant is inductive.                                             *)

(* At first there is the default selector, and no site has been called. *)
LEMMA InitIInv == KernelInit => IInv
<1> SUFFICES ASSUME KernelInit PROVE IInv
  OBVIOUS
<1> DEFINE first == Fresh(Default, NoEntries)
<1>1. NoEntries \in Dict(TuneSet, Kernel) /\ TableRight(NoEntries)
  BY EmptyDict DEF TableRight
<1>2. first \in SelectorSet /\ SelectorRight(first)
  BY <1>1, FreshIs
<1> HIDE DEF first
<1>3. pool = <<first>> /\ active = 1 /\ file = NoEntries /\ verify \in BOOLEAN
  BY DEF KernelInit, first
<1>4. pool \in Seq(SelectorSet) /\ Len(pool) = 1 /\ pool[1] = first
  BY <1>2, <1>3
<1>5. \A s \in Site : site[s] = [memo |-> NoEntries, fingerprint |-> NoEntries, frozen |-> NoEntries]
  BY DEF KernelInit
<1>6. site \in [Site -> SiteSet]
  <2>1. [memo |-> NoEntries, fingerprint |-> NoEntries, frozen |-> NoEntries] \in SiteSet
    BY EmptyDict DEF SiteSet
  <2> QED
    BY <2>1 DEF KernelInit
<1>7. Shape
  <2>1. active \in 1..Len(pool) /\ Len(pool) <= MaxSelectors
    BY <1>3, <1>4, KernelAssumption
  <2> QED
    BY <1>1, <1>3, <1>4, <1>6, <2>1 DEF Shape
<1>8. \A i \in 1..Len(pool) : SelectorRight(pool[i])
  BY <1>2, <1>4
<1>9. \A s \in Site : MemoRight(s, site[s].fingerprint, site[s].memo) /\ FrozenRight(site[s].frozen)
  BY <1>5, EmptyDict DEF MemoRight, FrozenRight
<1> QED
  BY <1>1, <1>3, <1>7, <1>8, <1>9 DEF IInv

(* What Selector.select() returns, cached or not: a kernel that is right   *)
(* for the call, in a selection that has its key.                          *)
LEMMA SelectedIs ==
  ASSUME IInv, NEW s \in Site, NEW q \in CallQuery, NEW x \in Selected(s, q)
  PROVE  /\ x \in SelectionSet /\ x.key = CacheKey(s, q) /\ Sound(x)
         /\ Right(Selector.catalog, Selector.policy, Facts(Selector.device, q), Prefer[s], x.kernel)
         /\ x \in Selector.cache \/ Cached(s, q) = {}
         /\ Cached(s, q) = {} =>
              x.kernel \in Winners(Selector.catalog, Selector.policy, Facts(Selector.device, q),
                                   Prefer[s], Selector.autotune)
<1> DEFINE catalog == Selector.catalog
           policy  == Selector.policy
           facts   == Facts(Selector.device, q)
           winners == Winners(catalog, policy, facts, Prefer[s], Selector.autotune)
<1>0. Shape /\ SelectorRight(Selector)
  BY DEF IInv, Selector, Shape
<1>1. /\ catalog \in SUBSET Kernel /\ policy \in DOMAIN Policy
      /\ Selector.cache \in SUBSET SelectionSet /\ Selector.epoch \in 0..MaxEpoch
      /\ active \in 1..Len(pool)
  BY <1>0, SelectorIs
<1>2. /\ CacheKey(s, q) \in KeySet
      /\ CacheKey(s, q).catalog = catalog /\ CacheKey(s, q).policy = policy
      /\ CacheKey(s, q).facts = facts /\ CacheKey(s, q).prefer = Prefer[s]
  BY <1>0, CacheKeyIs
<1> HIDE DEF catalog, policy, facts
<1>3. /\ x \in SelectionSet /\ x.key = CacheKey(s, q)
      /\ Right(catalog, policy, facts, Prefer[s], x.kernel)
      /\ x \in Selector.cache \/ Cached(s, q) = {}
      /\ Cached(s, q) = {} => x.kernel \in winners
  <2>1. CASE Cached(s, q) # {}
    <3>1. x \in Selector.cache /\ x.key = CacheKey(s, q)
      BY <2>1 DEF Selected, Cached
    <3>2. Right(x.key.catalog, x.key.policy, x.key.facts, x.key.prefer, x.kernel)
      BY <1>0, <3>1 DEF SelectorRight
    <3> QED
      BY <1>1, <1>2, <2>1, <3>1, <3>2
  <2>2. CASE Cached(s, q) = {}
    <3>1. PICK k \in winners :
            x = [kernel |-> k, key |-> CacheKey(s, q), made |-> <<active, Selector.epoch>>]
      BY <2>2 DEF Selected, catalog, policy, facts
    <3>2. Right(catalog, policy, facts, Prefer[s], k)
      BY <1>1, WinnersAreRight
    <3>3. k \in Kernel
      BY <1>1, <3>2, PreparedIsEligible DEF Right
    <3>4. <<active, Selector.epoch>> \in Nat \X Nat
      BY <1>0, <1>1, KernelAssumption DEF Shape
    <3>5. x \in SelectionSet
      BY <1>2, <3>1, <3>3, <3>4 DEF SelectionSet
    <3> QED
      BY <2>2, <3>1, <3>2, <3>5
  <2> QED
    BY <2>1, <2>2
<1>4. Sound(x)
  <2>1. x.kernel \in catalog /\ Captures(facts, x.kernel)
    BY <1>1, <1>3, PreparedIsEligible DEF Right
  <2> QED
    BY <1>2, <1>3, <2>1 DEF Sound
<1> QED
  BY <1>3, <1>4 DEF catalog, policy, facts

(* A kernel that _tune() returns is the recorded one, or it is measured    *)
(* and nothing was recorded, or nothing could be measured.                 *)
LEMMA TunedIs ==
  ASSUME NEW catalog, NEW policy, NEW facts, NEW prefer, NEW table, TableRight(table),
         NEW t, t = TuneKey(catalog, policy, facts),
         NEW d, d = Decide(catalog, policy, facts),
         NEW prepared, prepared = Prepared(catalog, policy, facts, d),
         Tuning(policy, facts, d), NEW k \in Winners(catalog, policy, facts, prefer, table)
  PROVE  IF t \in DOMAIN table THEN k = table[t]
         ELSE \/ k \in prepared \cap Measurable
              \/ prepared \cap Measurable = {} /\ k = First(prepared, ListOf(d, prefer))
<1>1. t.catalog = catalog /\ t.policy = policy /\ t.facts = facts
  BY DEF TuneKey
<1>2. t \in DOMAIN table => table[t] \in prepared
  BY <1>1 DEF TableRight
<1>3. k \in Tuned(Recorded(table, t), prepared, ListOf(d, prefer))
  BY DEF Winners
<1> QED
  BY <1>2, <1>3 DEF Tuned, Recorded

(* select() leaves the cache and the records right. *)
LEMMA RememberIs ==
  ASSUME IInv, NEW s \in Site, NEW q \in CallQuery, NEW x \in Selected(s, q), Remember(x, s, q)
  PROVE  /\ pool' \in Seq(SelectorSet) /\ Len(pool') = Len(pool)
         /\ \A i \in 1..Len(pool) : SelectorRight(pool'[i])
         /\ file' \in Dict(TuneSet, Kernel) /\ TableRight(file')
<1> DEFINE catalog == Selector.catalog
           policy  == Selector.policy
           facts   == Facts(Selector.device, q)
           old     == Selector.autotune
           t       == TuneKey(catalog, policy, facts)
           d       == Decide(catalog, policy, facts)
           prepared == Prepared(catalog, policy, facts, d)
           list    == ListOf(d, Prefer[s])
           table   == IF Measures(x, s, q) THEN Put(old, t, x.kernel) ELSE old
           new     == [Selector EXCEPT !.cache = @ \cup {x}, !.autotune = table]
<1>1. Shape /\ SelectorRight(Selector) /\ file \in Dict(TuneSet, Kernel) /\ TableRight(file)
  BY DEF IInv, Selector, Shape
<1>2. /\ Selector \in SelectorSet /\ catalog \in SUBSET Kernel /\ policy \in DOMAIN Policy
      /\ old \in Dict(TuneSet, Kernel) /\ active \in 1..Len(pool)
  BY <1>1, SelectorIs
<1>3. /\ facts \in FactSet /\ CacheKey(s, q).catalog = catalog /\ CacheKey(s, q).policy = policy
      /\ CacheKey(s, q).facts = facts /\ CacheKey(s, q).prefer = Prefer[s]
  BY <1>1, CacheKeyIs
<1>4. /\ x \in SelectionSet /\ x.key = CacheKey(s, q)
      /\ Right(catalog, policy, facts, Prefer[s], x.kernel)
      /\ x \in Selector.cache \/ Cached(s, q) = {}
      /\ Cached(s, q) = {} => x.kernel \in Winners(catalog, policy, facts, Prefer[s], old)
  BY SelectedIs
<1>5. t \in TuneSet /\ t.catalog = catalog /\ t.policy = policy /\ t.facts = facts
  BY <1>2, <1>3 DEF TuneKey, TuneSet
<1>6. x.kernel \in prepared
  BY <1>4 DEF Right
<1>7. /\ Measures(x, s, q) = (/\ Cached(s, q) = {} /\ x.kernel \in Measurable
                              /\ x.kernel \notin Recorded(old, t) /\ Tuning(policy, facts, d))
      /\ pool' = [pool EXCEPT ![active].cache = @ \cup {x}, ![active].autotune = table]
      /\ file' = IF Measures(x, s, q) THEN table ELSE file
  BY DEF Measures, Remember
<1>8. Cached(s, q) = {} /\ Tuning(policy, facts, d) =>
        IF t \in DOMAIN old THEN x.kernel = old[t]
        ELSE \/ x.kernel \in prepared \cap Measurable
             \/ prepared \cap Measurable = {} /\ x.kernel = First(prepared, list)
  <2> SUFFICES ASSUME Cached(s, q) = {}, Tuning(policy, facts, d)
               PROVE  IF t \in DOMAIN old THEN x.kernel = old[t]
                      ELSE \/ x.kernel \in prepared \cap Measurable
                           \/ prepared \cap Measurable = {} /\ x.kernel = First(prepared, list)
    OBVIOUS
  <2>1. TableRight(old)
    BY <1>1 DEF SelectorRight
  <2> QED
    <3> HIDE DEF catalog, policy, facts, old, t, d, prepared, list
    <3>1. t = TuneKey(catalog, policy, facts)
      BY DEF t
    <3>2. d = Decide(catalog, policy, facts)
      BY DEF d
    <3>3. prepared = Prepared(catalog, policy, facts, d) /\ list = ListOf(d, Prefer[s])
      BY DEF prepared, list
    <3>4. x.kernel \in Winners(catalog, policy, facts, Prefer[s], old)
      BY <1>4
    <3> QED
      BY <2>1, <3>1, <3>2, <3>3, <3>4, TunedIs
<1> HIDE DEF catalog, policy, facts, old, t, d, prepared, list
<1>9. x.kernel \in Kernel
  BY <1>4 DEF SelectionSet
<1>10. Measures(x, s, q) => t \notin DOMAIN old /\ x.kernel \in prepared \cap Measurable
  BY <1>6, <1>7, <1>8 DEF Recorded
<1>11. table \in Dict(TuneSet, Kernel) /\ TableRight(table)
  <2>1. old \in Dict(TuneSet, Kernel) /\ TableRight(old)
    BY <1>1, <1>2 DEF SelectorRight, old
  <2>2. CASE ~Measures(x, s, q)
    BY <2>1, <2>2
  <2>3. CASE Measures(x, s, q)
    <3> DEFINE put == Put(old, t, x.kernel)
    <3>0. old \in Dict(TuneSet, Kernel) /\ t \in TuneSet
      BY <1>5, <2>1
    <3>1. /\ put \in Dict(TuneSet, Kernel) /\ DOMAIN put = DOMAIN old \cup {t}
          /\ put[t] = x.kernel /\ \A k \in DOMAIN old : k # t => put[k] = old[k]
      BY <1>9, <3>0, PutIs
    <3> HIDE DEF put
    <3>2. x.kernel \in Prepared(t.catalog, t.policy, t.facts, Decide(t.catalog, t.policy, t.facts))
      BY <1>5, <1>6 DEF prepared, d
    <3>3. TableRight(put)
      BY <2>1, <3>1, <3>2 DEF TableRight
    <3>4. table = put
      BY <2>3 DEF put
    <3> QED
      BY <3>1, <3>3, <3>4
  <2> QED
    BY <2>2, <2>3
<1>12. /\ DOMAIN old \subseteq DOMAIN table /\ \A k \in DOMAIN old : table[k] = old[k]
       /\ \A k \in DOMAIN table : k \in DOMAIN old \/ (k = t /\ Measures(x, s, q))
       /\ Measures(x, s, q) => t \in DOMAIN table /\ table[t] = x.kernel
  BY <1>10 DEF Put
<1>13. \A y \in Selector.cache \cup {x} : AsRecorded(table, y)
  <2>1. ASSUME NEW y \in Selector.cache PROVE AsRecorded(table, y)
    <3> DEFINE u == TuneKey(y.key.catalog, y.key.policy, y.key.facts)
    <3>1. AsRecorded(old, y)
      BY <1>1 DEF SelectorRight, old
    <3>2. CASE u \in DOMAIN old \/ u \notin DOMAIN table
      BY <1>12, <3>1, <3>2 DEF AsRecorded
    <3>3. CASE u \notin DOMAIN old /\ u \in DOMAIN table
      <4>1. u = t /\ Measures(x, s, q)
        BY <1>12, <3>3
      <4>2. y.key.catalog = catalog /\ y.key.policy = policy /\ y.key.facts = facts
        BY <4>1, <1>5 DEF TuneKey
      <4>3. Tuning(y.key.policy, y.key.facts, Decide(y.key.catalog, y.key.policy, y.key.facts))
        BY <1>7, <4>1, <4>2 DEF d
      <4>4. prepared \cap Measurable = {}
        BY <3>1, <3>3, <4>2, <4>3 DEF AsRecorded, prepared, d
      <4> QED
        BY <1>10, <4>1, <4>4
    <3> QED
      BY <3>2, <3>3
  <2>2. AsRecorded(table, x)
    <3>1. CASE x \in Selector.cache
      BY <2>1, <3>1
    <3>2. CASE Cached(s, q) = {}
      <4>1. x.key.catalog = catalog /\ x.key.policy = policy /\ x.key.facts = facts /\ x.key.prefer = Prefer[s]
        BY <1>3, <1>4
      <4>2. Tuning(policy, facts, d) =>
              IF t \in DOMAIN table THEN x.kernel = table[t]
              ELSE prepared \cap Measurable = {} /\ x.kernel = First(prepared, list)
        BY <1>7, <1>8, <1>12, <3>2 DEF Recorded
      <4> QED
        BY <4>1, <4>2 DEF AsRecorded, t, d, prepared, list
    <3> QED
      BY <1>4, <3>1, <3>2
  <2> QED
    BY <2>1, <2>2
<1>14. \A y, z \in Selector.cache \cup {x} : y.key = z.key => y = z
  <2>1. \A y, z \in Selector.cache : y.key = z.key => y = z
    BY <1>1 DEF SelectorRight
  <2>2. x \in Selector.cache \/ \A y \in Selector.cache : y.key # x.key
    BY <1>4 DEF Cached
  <2> QED
    BY <2>1, <2>2
<1> HIDE DEF table
<1>15. new \in SelectorSet /\ new.catalog = Selector.catalog /\ new.policy = Selector.policy
       /\ new.cache = Selector.cache \cup {x} /\ new.autotune = table
  <2>1. Selector.cache \cup {x} \in SUBSET SelectionSet
    BY <1>1, <1>4, SelectorIs
  <2> QED
    BY <1>2, <1>11, <2>1 DEF SelectorSet
<1>16. SelectorRight(new)
  <2>1. Builtin \subseteq new.catalog
    BY <1>1, <1>15 DEF SelectorRight
  <2>2. ASSUME NEW y \in new.cache
        PROVE  /\ y.key.catalog = new.catalog /\ y.key.policy = new.policy
               /\ Right(y.key.catalog, y.key.policy, y.key.facts, y.key.prefer, y.kernel)
    <3>1. CASE y \in Selector.cache
      BY <1>1, <1>15, <3>1 DEF SelectorRight
    <3>2. CASE y = x
      BY <1>3, <1>4, <1>15, <3>2 DEF catalog, policy
    <3> QED
      BY <1>15, <2>2, <3>1, <3>2
  <2> HIDE DEF new
  <2> QED
    BY <1>11, <1>13, <1>14, <1>15, <2>1, <2>2 DEF SelectorRight
<1>17. pool' = [pool EXCEPT ![active] = new]
  BY <1>7 DEF Selector
<1> HIDE DEF new
<1>18. pool' \in Seq(SelectorSet) /\ Len(pool') = Len(pool)
  BY <1>1, <1>2, <1>15, <1>17 DEF Shape
<1>19. \A i \in 1..Len(pool) : SelectorRight(pool'[i])
  BY <1>1, <1>2, <1>16, <1>17 DEF IInv, Shape
<1> QED
  BY <1>1, <1>7, <1>11, <1>18, <1>19

(* The memo of a site as key_paths() leaves it is right for the selector   *)
(* that is installed.                                                      *)
LEMMA MemoIs ==
  ASSUME IInv, NEW s \in Site
  PROVE  /\ Memo(s) \in Dict(MemoKeySet, SelectionSet)
         /\ MemoRight(s, Fingerprint, Memo(s))
<1>1. site[s] \in SiteSet /\ MemoRight(s, site[s].fingerprint, site[s].memo)
  BY DEF IInv, Shape
<1>2. site[s].memo \in Dict(MemoKeySet, SelectionSet)
  BY <1>1 DEF SiteSet
<1>3. CASE site[s].fingerprint = Fingerprint
  BY <1>1, <1>2, <1>3 DEF Memo
<1>4. CASE site[s].fingerprint # Fingerprint
  <2>1. Memo(s) = NoEntries
    BY <1>4 DEF Memo
  <2>2. NoEntries \in Dict(MemoKeySet, SelectionSet) /\ DOMAIN NoEntries = {}
    BY EmptyDict
  <2> QED
    BY <2>1, <2>2 DEF MemoRight
<1> QED
  BY <1>3, <1>4

(* An entry made now is right for every call that has its key. *)
LEMMA NewEntryRight ==
  ASSUME IInv, NEW s \in Site, NEW q \in CallQuery, NEW x \in Selected(s, q)
  PROVE  MemoRight(s, Fingerprint, Put(Memo(s), MemoKey(q), x))
<1> DEFINE key == MemoKey(q)
           memo == Put(Memo(s), key, x)
           f == Fingerprint
<1>1. Shape
  BY DEF IInv
<1>2. /\ f \in FingerprintSet /\ key \in MemoKeySet /\ key.mode = q.mode
      /\ CacheKey(s, q).facts.mode = q.mode
  BY <1>1, CacheKeyIs
<1>3. f.catalog = Selector.catalog /\ f.policy = Selector.policy /\ f.device = Selector.device
  BY DEF Fingerprint
<1>4. /\ x \in SelectionSet /\ x.key = CacheKey(s, q) /\ Sound(x)
      /\ Right(f.catalog, f.policy, Facts(f.device, q), Prefer[s], x.kernel)
  BY <1>3, SelectedIs
<1>5. key = KeyOf(FactsUsed(f.catalog, f.policy), q)
  BY <1>3 DEF MemoKey
<1>6. f.catalog \in SUBSET Kernel /\ f.policy \in DOMAIN Policy
  BY <1>2 DEF FingerprintSet
<1>7. Memo(s) \in Dict(MemoKeySet, SelectionSet) /\ MemoRight(s, f, Memo(s))
  BY MemoIs
<1> HIDE DEF key, f
<1>8. /\ DOMAIN memo = DOMAIN Memo(s) \cup {key} /\ memo[key] = x
      /\ \A k \in DOMAIN Memo(s) : k # key => memo[k] = Memo(s)[k]
  <2>1. Memo(s) \in Dict(MemoKeySet, SelectionSet) /\ key \in MemoKeySet /\ x \in SelectionSet
    BY <1>2, <1>4, <1>7
  <2> DEFINE old == Memo(s)
  <2> HIDE DEF old
  <2>2. old \in Dict(MemoKeySet, SelectionSet)
    BY <2>1 DEF old
  <2>3. /\ DOMAIN Put(old, key, x) = DOMAIN old \cup {key} /\ Put(old, key, x)[key] = x
        /\ \A k \in DOMAIN old : k # key => Put(old, key, x)[k] = old[k]
    BY <2>1, <2>2, PutIs
  <2> QED
    BY <2>3 DEF old
<1> HIDE DEF memo
<1>9. ASSUME NEW r \in CallQuery, KeyOf(FactsUsed(f.catalog, f.policy), r) = key
      PROVE  Right(f.catalog, f.policy, Facts(f.device, r), Prefer[s], x.kernel)
  <2>1. Alike(FactsUsed(f.catalog, f.policy), Facts(f.device, q), Facts(f.device, r))
    BY <1>5, <1>9, KeyedAlike
  <2> QED
    BY <1>4, <1>6, <2>1, RightAlike
<1>10. ASSUME NEW k \in DOMAIN memo
       PROVE  /\ Sound(memo[k]) /\ memo[k].key.facts.mode = k.mode
              /\ \A r \in CallQuery : KeyOf(FactsUsed(f.catalog, f.policy), r) = k =>
                   Right(f.catalog, f.policy, Facts(f.device, r), Prefer[s], memo[k].kernel)
  <2>1. CASE k = key
    BY <1>2, <1>4, <1>8, <1>9, <2>1
  <2>2. CASE k # key
    BY <1>7, <1>8, <2>2 DEF MemoRight
  <2> QED
    BY <2>1, <2>2
<1>11. MemoRight(s, f, memo)
  BY <1>2, <1>10 DEF MemoRight
<1> QED
  BY <1>11 DEF memo, key, f

(* One site changes. *)
LEMMA SiteStep ==
  ASSUME IInv, NEW s \in Site, NEW memo \in Dict(MemoKeySet, SelectionSet),
         MemoRight(s, Fingerprint, memo),
         site' = [site EXCEPT ![s].memo = memo, ![s].fingerprint = Fingerprint]
  PROVE  /\ site' \in [Site -> SiteSet]
         /\ \A r \in Site : MemoRight(r, site'[r].fingerprint, site'[r].memo) /\ FrozenRight(site'[r].frozen)
<1> DEFINE new == [site[s] EXCEPT !.memo = memo, !.fingerprint = Fingerprint]
<1>1. site \in [Site -> SiteSet] /\ site[s] \in SiteSet /\ Fingerprint \in FingerprintSet
  BY CacheKeyIs, SelectorIs DEF IInv, Shape, Fingerprint, FingerprintSet
<1>2. /\ new \in SiteSet /\ new.memo = memo /\ new.fingerprint = Fingerprint
      /\ new.frozen = site[s].frozen
  BY <1>1 DEF SiteSet
<1>3. site' = [site EXCEPT ![s] = new]
  OBVIOUS
<1> HIDE DEF new
<1>4. site' \in [Site -> SiteSet] /\ site'[s] = new /\ \A r \in Site : r # s => site'[r] = site[r]
  BY <1>1, <1>2, <1>3
<1>5. \A r \in Site : MemoRight(r, site[r].fingerprint, site[r].memo) /\ FrozenRight(site[r].frozen)
  BY DEF IInv
<1> QED
  BY <1>2, <1>4, <1>5

(* A call that is not answered by a frozen choice or the memo. *)
LEMMA SelectStep ==
  ASSUME IInv, NEW s \in Site, NEW q \in CallQuery, Select(s, q)
  PROVE  IInv'
<1>1. active' = active /\ verify' = verify
  BY DEF Select
<1>2. Memo(s) \in Dict(MemoKeySet, SelectionSet) /\ MemoRight(s, Fingerprint, Memo(s))
  BY MemoIs
<1>3. CASE \E x \in Selected(s, q) :
             /\ site' = [site EXCEPT ![s].memo = Put(Memo(s), MemoKey(q), x), ![s].fingerprint = Fingerprint]
             /\ Remember(x, s, q)
  <2>1. PICK x \in Selected(s, q) :
          /\ site' = [site EXCEPT ![s].memo = Put(Memo(s), MemoKey(q), x), ![s].fingerprint = Fingerprint]
          /\ Remember(x, s, q)
    BY <1>3
  <2>2. /\ pool' \in Seq(SelectorSet) /\ Len(pool') = Len(pool)
        /\ \A i \in 1..Len(pool) : SelectorRight(pool'[i])
        /\ file' \in Dict(TuneSet, Kernel) /\ TableRight(file')
    BY <2>1, RememberIs
  <2>3. x \in SelectionSet /\ MemoKey(q) \in MemoKeySet
    BY SelectedIs, CacheKeyIs DEF IInv
  <2>4. Put(Memo(s), MemoKey(q), x) \in Dict(MemoKeySet, SelectionSet)
    BY <1>2, <2>3, PutIs
  <2>5. MemoRight(s, Fingerprint, Put(Memo(s), MemoKey(q), x))
    BY NewEntryRight
  <2>6. /\ site' \in [Site -> SiteSet]
        /\ \A r \in Site : MemoRight(r, site'[r].fingerprint, site'[r].memo) /\ FrozenRight(site'[r].frozen)
    BY <2>1, <2>4, <2>5, SiteStep
  <2> QED
    BY <1>1, <2>2, <2>6 DEF IInv, Shape
<1>4. CASE /\ site' = [site EXCEPT ![s].memo = Memo(s), ![s].fingerprint = Fingerprint]
           /\ UNCHANGED <<pool, file>>
  <2>1. /\ site' \in [Site -> SiteSet]
        /\ \A r \in Site : MemoRight(r, site'[r].fingerprint, site'[r].memo) /\ FrozenRight(site'[r].frozen)
    BY <1>2, <1>4, SiteStep
  <2> QED
    BY <1>1, <1>4, <2>1 DEF IInv, Shape
<1> QED
  BY <1>3, <1>4 DEF Select

(* freeze(): each choice is an entry of the memo, of the mode it is for. *)
LEMMA ChoicesAreRight ==
  ASSUME NEW s, NEW f, NEW memo \in Dict(MemoKeySet, SelectionSet), MemoRight(s, f, memo)
  PROVE  /\ SiteChoices(memo) \in Dict({q.mode : q \in CallQuery}, SelectionSet)
         /\ FrozenRight(SiteChoices(memo))
         /\ DOMAIN SiteChoices(memo) = {k.mode : k \in DOMAIN memo}
         /\ \A m \in DOMAIN SiteChoices(memo) : \E k \in DOMAIN memo :
              k.mode = m /\ SiteChoices(memo)[m] = memo[k]
<1> DEFINE modes == {k.mode : k \in DOMAIN memo}
<1>1. DOMAIN memo \subseteq MemoKeySet /\ \A k \in DOMAIN memo : memo[k] \in SelectionSet
  BY DictIs
<1>2. modes \in SUBSET {q.mode : q \in CallQuery}
  BY <1>1 DEF MemoKeySet
<1>3. DOMAIN SiteChoices(memo) = modes
  BY DEF SiteChoices
<1>4. ASSUME NEW m \in modes
      PROVE  \E k \in DOMAIN memo : k.mode = m /\ SiteChoices(memo)[m] = memo[k]
  <2>1. PICK k \in DOMAIN memo : k.mode = m
    OBVIOUS
  <2> DEFINE c == CHOOSE l \in DOMAIN memo : l.mode = m
  <2>2. c \in DOMAIN memo /\ c.mode = m
    BY <2>1
  <2>3. SiteChoices(memo)[m] = memo[c]
    BY DEF SiteChoices
  <2> QED
    BY <2>2, <2>3
<1>5. SiteChoices(memo) \in [modes -> SelectionSet]
  <2>1. \A m \in modes : SiteChoices(memo)[m] \in SelectionSet
    BY <1>1, <1>4
  <2>2. SiteChoices(memo) = [m \in modes |-> SiteChoices(memo)[m]]
    BY DEF SiteChoices
  <2> HIDE DEF modes
  <2> QED
    BY <2>1, <2>2
<1>6. FrozenRight(SiteChoices(memo))
  BY <1>3, <1>4 DEF FrozenRight, MemoRight
<1> HIDE DEF modes
<1>7. SiteChoices(memo) \in Dict({q.mode : q \in CallQuery}, SelectionSet)
  BY <1>2, <1>5 DEF Dict
<1> QED
  BY <1>3, <1>4, <1>6, <1>7 DEF modes

(* freeze_kernel_choices(). *)
LEMMA FreezeStep ==
  ASSUME IInv, FreezeKernelChoices
  PROVE  IInv'
<1>1. UNCHANGED <<pool, active, file, verify>>
  BY DEF FreezeKernelChoices
<1>2. ASSUME NEW s \in Site
      PROVE  /\ site'[s] \in SiteSet
             /\ MemoRight(s, site'[s].fingerprint, site'[s].memo) /\ FrozenRight(site'[s].frozen)
  <2>1. /\ site[s] \in SiteSet /\ MemoRight(s, site[s].fingerprint, site[s].memo)
        /\ FrozenRight(site[s].frozen)
    BY DEF IInv, Shape
  <2>2. site[s].memo \in Dict(MemoKeySet, SelectionSet)
    BY <2>1 DEF SiteSet
  <2>3. /\ SiteChoices(site[s].memo) \in Dict({q.mode : q \in CallQuery}, SelectionSet)
        /\ FrozenRight(SiteChoices(site[s].memo))
    BY <2>1, <2>2, ChoicesAreRight
  <2>4. \/ site'[s] = site[s]
        \/ site'[s] = [site[s] EXCEPT !.frozen = SiteChoices(site[s].memo)]
    BY DEF FreezeKernelChoices
  <2>5. CASE site'[s] = [site[s] EXCEPT !.frozen = SiteChoices(site[s].memo)]
    <3>1. /\ site'[s] \in SiteSet /\ site'[s].frozen = SiteChoices(site[s].memo)
          /\ site'[s].fingerprint = site[s].fingerprint /\ site'[s].memo = site[s].memo
      BY <2>1, <2>3, <2>5 DEF SiteSet
    <3> QED
      BY <2>1, <2>3, <3>1
  <2> QED
    BY <2>1, <2>4, <2>5
<1>3. site' \in [Site -> SiteSet]
  <2>1. site' = [s \in Site |-> site'[s]]
    BY DEF FreezeKernelChoices
  <2> QED
    BY <1>2, <2>1
<1> QED
  BY <1>1, <1>2, <1>3 DEF IInv, Shape

(* unfreeze_kernel_choices(). *)
LEMMA UnfreezeStep ==
  ASSUME IInv, UnfreezeKernelChoices
  PROVE  IInv'
<1>1. UNCHANGED <<pool, active, file, verify>>
  BY DEF UnfreezeKernelChoices
<1>2. ASSUME NEW s \in Site
      PROVE  /\ site'[s] \in SiteSet
             /\ MemoRight(s, site'[s].fingerprint, site'[s].memo) /\ FrozenRight(site'[s].frozen)
  <2>1. site[s] \in SiteSet /\ MemoRight(s, site[s].fingerprint, site[s].memo)
    BY DEF IInv, Shape
  <2>2. NoEntries \in Dict({q.mode : q \in CallQuery}, SelectionSet) /\ FrozenRight(NoEntries)
    BY EmptyDict DEF FrozenRight
  <2>3. site'[s] = [site[s] EXCEPT !.frozen = NoEntries]
    BY DEF UnfreezeKernelChoices
  <2>4. /\ site'[s] \in SiteSet /\ site'[s].frozen = NoEntries
        /\ site'[s].fingerprint = site[s].fingerprint /\ site'[s].memo = site[s].memo
    BY <2>1, <2>2, <2>3 DEF SiteSet
  <2> QED
    BY <2>1, <2>2, <2>4
<1>3. site' \in [Site -> SiteSet]
  <2>1. site' = [s \in Site |-> site'[s]]
    BY DEF UnfreezeKernelChoices
  <2> QED
    BY <1>2, <2>1
<1> QED
  BY <1>1, <1>2, <1>3 DEF IInv, Shape

(* A plugin configures the selector, which loses its cache. *)
LEMMA ConfigureStep ==
  ASSUME IInv, Configure
  PROVE  IInv'
<1> DEFINE new == [Selector EXCEPT !.catalog = @ \cup {PluginKernel}, !.policy = PluginPolicy,
                                   !.cache = {}, !.epoch = @ + 1]
<1>1. Shape /\ SelectorRight(Selector)
  BY DEF IInv, Shape, Selector
<1>2. /\ Selector \in SelectorSet /\ Selector.catalog \in SUBSET Kernel
      /\ Selector.epoch \in 0..MaxEpoch /\ active \in 1..Len(pool)
  BY <1>1, SelectorIs
<1>3. Selector.epoch + 1 \in 0..MaxEpoch
  BY <1>2, KernelAssumption DEF Configure
<1>4. Selector.catalog \cup {PluginKernel} \in SUBSET Kernel /\ PluginPolicy \in DOMAIN Policy
  BY <1>2, KernelAssumption
<1>5. /\ new \in SelectorSet /\ new.cache = {} /\ new.catalog = Selector.catalog \cup {PluginKernel}
      /\ new.autotune = Selector.autotune
  BY <1>2, <1>3, <1>4 DEF SelectorSet
<1>6. pool' = [pool EXCEPT ![active] = new]
  BY DEF Configure, Selector
<1> HIDE DEF new
<1>7. SelectorRight(new)
  BY <1>1, <1>5 DEF SelectorRight
<1>8. pool' \in Seq(SelectorSet) /\ Len(pool') = Len(pool)
  BY <1>1, <1>2, <1>5, <1>6 DEF Shape
<1>9. \A i \in 1..Len(pool') : SelectorRight(pool'[i])
  BY <1>1, <1>2, <1>6, <1>7, <1>8 DEF IInv, Shape
<1>10. UNCHANGED <<active, file, site, verify>>
  BY DEF Configure
<1> QED
  BY <1>8, <1>9, <1>10 DEF IInv, Shape

(* A new selector is installed. *)
LEMMA InstallStep ==
  ASSUME IInv, NEW new \in SelectorSet, SelectorRight(new), Install(new)
  PROVE  IInv'
<1>1. pool \in Seq(SelectorSet) /\ Len(pool) < MaxSelectors
  BY DEF IInv, Shape, Install
<1>2. PICK n \in Nat : n = Len(pool)
  BY <1>1
<1>3. /\ pool' = Append(pool, new) /\ active' = n + 1
      /\ UNCHANGED <<file, site, verify>>
  BY <1>2 DEF Install
<1>4. /\ pool' \in Seq(SelectorSet) /\ Len(pool') = n + 1 /\ pool'[n + 1] = new
      /\ \A i \in 1..n : pool'[i] = pool[i]
  BY <1>1, <1>2, <1>3
<1>5. \A i \in 1..Len(pool') : SelectorRight(pool'[i])
  <2>1. \A i \in 1..n : SelectorRight(pool[i])
    BY <1>2 DEF IInv
  <2> QED
    BY <1>2, <1>4, <2>1
<1>6. active' \in 1..Len(pool') /\ Len(pool') <= MaxSelectors
  BY <1>1, <1>2, <1>3, <1>4, KernelAssumption
<1> QED
  BY <1>3, <1>4, <1>5, <1>6 DEF IInv, Shape

(* Every step keeps the invariant. *)
LEMMA StepIInv == IInv /\ [KernelNext]_kernelVars => IInv'
<1> SUFFICES ASSUME IInv, [KernelNext]_kernelVars PROVE IInv'
  OBVIOUS
<1>1. CASE \E s \in Site, q \in CallQuery : Select(s, q)
  BY <1>1, SelectStep
<1>2. CASE FreezeKernelChoices
  BY <1>2, FreezeStep
<1>3. CASE UnfreezeKernelChoices
  BY <1>3, UnfreezeStep
<1>4. CASE Configure
  BY <1>4, ConfigureStep
<1>5. CASE ResetKernelSelector
  <2>1. NoEntries \in Dict(TuneSet, Kernel) /\ TableRight(NoEntries)
    BY EmptyDict DEF TableRight
  <2>2. Fresh(Default, NoEntries) \in SelectorSet /\ SelectorRight(Fresh(Default, NoEntries))
    BY <2>1, FreshIs
  <2> QED
    BY <1>5, <2>2, InstallStep DEF ResetKernelSelector
<1>6. ASSUME NEW e \in Engine, Initialize(e) PROVE IInv'
  <2>1. file \in Dict(TuneSet, Kernel) /\ TableRight(file)
    BY DEF IInv, Shape
  <2>2. Fresh(e, file) \in SelectorSet /\ SelectorRight(Fresh(e, file))
    BY <2>1, FreshIs
  <2> QED
    BY <1>6, <2>2, InstallStep DEF Initialize
<1>7. ASSUME NEW i \in 1..Len(pool), SetKernelSelector(i) PROVE IInv'
  BY <1>7 DEF SetKernelSelector, IInv, Shape
<1>8. CASE UNCHANGED kernelVars
  BY <1>8 DEF kernelVars, IInv, Shape
<1> QED
  BY <1>1, <1>2, <1>3, <1>4, <1>5, <1>6, <1>7, <1>8 DEF KernelNext

-----------------------------------------------------------------------------
(* What the invariant implies.                                             *)

(* Types. *)
LEMMA TypeFromIInv == IInv => KernelTypeOK
<1> SUFFICES ASSUME IInv PROVE KernelTypeOK
  OBVIOUS
<1>1. Shape
  BY DEF IInv
<1>2. ASSUME NEW i \in 1..Len(pool)
      PROVE  /\ Builtin \subseteq pool[i].catalog /\ pool[i].catalog \subseteq Kernel
             /\ pool[i].policy \in DOMAIN Policy
             /\ pool[i].epoch \in 0..MaxEpoch
             /\ \A x, y \in pool[i].cache : SelectionType(x) /\ (x.key = y.key => x = y)
             /\ \A t \in DOMAIN pool[i].autotune : pool[i].autotune[t] \in t.catalog
  <2>1. pool[i] \in SelectorSet /\ SelectorRight(pool[i])
    BY <1>1 DEF IInv, Shape
  <2>2. /\ pool[i].catalog \subseteq Kernel /\ pool[i].policy \in DOMAIN Policy
        /\ pool[i].epoch \in 0..MaxEpoch /\ pool[i].cache \subseteq SelectionSet
        /\ pool[i].autotune \in Dict(TuneSet, Kernel)
    BY <2>1 DEF SelectorSet
  <2>3. ASSUME NEW x \in pool[i].cache PROVE SelectionType(x)
    <3>1. /\ x.key.catalog = pool[i].catalog
          /\ Right(x.key.catalog, x.key.policy, x.key.facts, x.key.prefer, x.kernel)
      BY <2>1 DEF SelectorRight
    <3>2. x.kernel \in x.key.catalog /\ x.kernel \in Kernel
      BY <2>2, <3>1, PreparedIsEligible DEF Right
    <3> QED
      BY <3>2 DEF SelectionType
  <2>4. ASSUME NEW t \in DOMAIN pool[i].autotune PROVE pool[i].autotune[t] \in t.catalog
    <3>1. t \in TuneSet
      BY <2>2, DictIs
    <3>2. t.catalog \in SUBSET Kernel
      BY <3>1 DEF TuneSet
    <3>3. pool[i].autotune[t] \in Prepared(t.catalog, t.policy, t.facts, Decide(t.catalog, t.policy, t.facts))
      BY <2>1 DEF SelectorRight, TableRight
    <3> QED
      BY <3>2, <3>3, PreparedIsEligible
  <2>5. \A x, y \in pool[i].cache : x.key = y.key => x = y
    BY <2>1 DEF SelectorRight
  <2>6. Builtin \subseteq pool[i].catalog
    BY <2>1 DEF SelectorRight
  <2> QED
    BY <2>2, <2>3, <2>4, <2>5, <2>6
<1>3. ASSUME NEW s \in Site, NEW k \in DOMAIN site[s].memo PROVE SelectionType(site[s].memo[k])
  <2>1. site[s] \in SiteSet /\ MemoRight(s, site[s].fingerprint, site[s].memo)
    BY <1>1 DEF IInv, Shape
  <2>2. site[s].memo \in Dict(MemoKeySet, SelectionSet)
    BY <2>1 DEF SiteSet
  <2>3. site[s].memo[k] \in SelectionSet
    BY <2>2, DictIs
  <2>4. Sound(site[s].memo[k])
    BY <2>1 DEF MemoRight
  <2> QED
    BY <2>3, <2>4 DEF SelectionType, Sound, SelectionSet
<1> QED
  BY <1>1, <1>2, <1>3 DEF KernelTypeOK, Shape

(* A kept answer to a call that is keyed is the memo's or the cache's. *)
LEMMA KeptIs ==
  ASSUME IInv, NEW s \in Site, NEW q \in CallQuery, Keyed(s, q), NEW x \in Kept(s, q)
  PROVE  /\ Sound(x) /\ x.key.facts.mode = q.mode
         /\ Right(Selector.catalog, Selector.policy, Facts(Selector.device, q), Prefer[s], x.kernel)
<1>1. Shape /\ SelectorRight(Selector)
  BY DEF IInv, Shape, Selector
<1>2. MemoKey(q).mode = q.mode /\ CacheKey(s, q).facts.mode = q.mode
  BY <1>1, CacheKeyIs
<1>3. CASE MemoKey(q) \in DOMAIN Memo(s)
  <2>1. x = Memo(s)[MemoKey(q)]
    BY <1>3 DEF Kept
  <2>2. MemoRight(s, Fingerprint, Memo(s))
    BY MemoIs
  <2>3. /\ Fingerprint.catalog = Selector.catalog /\ Fingerprint.policy = Selector.policy
        /\ Fingerprint.device = Selector.device
    BY DEF Fingerprint
  <2>4. KeyOf(FactsUsed(Fingerprint.catalog, Fingerprint.policy), q) = MemoKey(q)
    BY <2>3 DEF MemoKey
  <2>5. /\ Sound(x) /\ x.key.facts.mode = MemoKey(q).mode
        /\ Right(Fingerprint.catalog, Fingerprint.policy, Facts(Fingerprint.device, q), Prefer[s], x.kernel)
    BY <1>3, <2>1, <2>2, <2>4 DEF MemoRight
  <2> QED
    BY <1>2, <2>3, <2>5
<1>4. CASE MemoKey(q) \notin DOMAIN Memo(s)
  <2>1. x \in Cached(s, q)
    BY <1>4 DEF Kept
  <2>2. x \in Selected(s, q)
    BY <2>1 DEF Selected
  <2> QED
    BY <1>2, <2>2, SelectedIs
<1> QED
  BY <1>3, <1>4

(* Memo and cache agree with a selection from nothing. *)
LEMMA NeverStaleFromIInv == IInv => NeverStale
<1> SUFFICES ASSUME IInv, NEW s \in Site, NEW q \in CallQuery, Keyed(s, q), NEW x \in Kept(s, q)
             PROVE  Right(Selector.catalog, Selector.policy, Facts(Selector.device, q), Prefer[s], x.kernel)
  BY DEF NeverStale, Right
<1> QED
  BY KeptIs

(* explain() agrees with select(). *)
LEMMA ExplainFromIInv == IInv => ExplainAgrees
<1> SUFFICES ASSUME IInv, NEW s \in Site, NEW q \in CallQuery, NEW x \in Cached(s, q),
                    LET facts    == Facts(Selector.device, q)
                        decision == Decide(Selector.catalog, Selector.policy, facts)
                        ordered  == Order(Selector.catalog, Selector.policy, facts, decision)
                    IN First(ordered, ListOf(decision, Prefer[s])) \notin Broken
             PROVE  Explained(s, q) = {x.kernel}
  BY DEF ExplainAgrees
<1> DEFINE catalog == Selector.catalog
           policy  == Selector.policy
           facts   == Facts(Selector.device, q)
           table   == Selector.autotune
           t       == TuneKey(catalog, policy, facts)
           d       == Decide(catalog, policy, facts)
           ordered == Order(catalog, policy, facts, d)
           prepared == Prepared(catalog, policy, facts, d)
           list    == ListOf(d, Prefer[s])
           recorded == Recorded(table, t)
           named   == IF Tuning(policy, facts, d) /\ recorded \cap ordered # {} THEN recorded
                      ELSE IF ordered = {} THEN {} ELSE {First(ordered, list)}
<1>1. Shape /\ SelectorRight(Selector)
  BY DEF IInv, Shape, Selector
<1>2. catalog \in SUBSET Kernel /\ policy \in DOMAIN Policy
  BY <1>1, SelectorIs
<1>3. /\ x.key.catalog = catalog /\ x.key.policy = policy /\ x.key.facts = facts
      /\ x.key.prefer = Prefer[s] /\ x \in Selector.cache
  BY <1>1, CacheKeyIs DEF Cached
<1>4. x.kernel \in prepared /\ (Tuning(policy, facts, d) \/ x.kernel = First(prepared, list))
  BY <1>1, <1>3 DEF SelectorRight, Right
<1>5. Tuning(policy, facts, d) =>
        IF t \in DOMAIN table THEN x.kernel = table[t]
        ELSE prepared \cap Measurable = {} /\ x.kernel = First(prepared, list)
  BY <1>1, <1>3 DEF SelectorRight, AsRecorded
<1>6. First(ordered, list) \notin Broken
  OBVIOUS
<1>7. list \in Seq(Kernel) /\ d.list \in Seq(Kernel)
  BY <1>2, ListIsSequence
<1>8. Explained(s, q) = {k \in named : ~d.conflict /\ (d.strict => Wanted(d, k))}
  BY DEF Explained
<1>9. /\ ordered \in SUBSET Kernel /\ prepared \in SUBSET ordered /\ ~d.conflict
      /\ d.strict => Wanted(d, x.kernel)
      /\ ~d.strict => prepared = ordered \ Broken
  BY <1>2, <1>4 DEF Order, Eligible, Prepared
<1>10. d.strict => ordered \subseteq d.candidates \/ d.candidates = {}
  BY DEF Order
<1>11. Tuning(policy, facts, d) => ~d.strict
  BY DEF Tuning
<1>12. d.candidates # {} => list = d.list
  BY DEF ListOf
<1> HIDE DEF catalog, policy, facts, table, t, d, ordered, prepared, list, recorded
<1>13. First(ordered, list) \in ordered
  BY <1>4, <1>7, <1>9, FirstIsMember
<1>14. ~d.strict => First(prepared, list) = First(ordered, list)
  BY <1>6, <1>7, <1>9, <1>13, FirstOfPart
<1>15. d.strict => First(ordered, list) = x.kernel
  <2> SUFFICES ASSUME d.strict PROVE First(ordered, list) = x.kernel
    OBVIOUS
  <2>1. d.candidates # {} /\ x.kernel = Earliest(d.candidates, d.list) /\ x.kernel \in ordered
    BY <1>4, <1>9 DEF Wanted
  <2>2. ordered \subseteq d.candidates /\ list = d.list
    BY <1>10, <1>12, <2>1
  <2>3. d.candidates \subseteq ToSet(d.list)
    BY <2>1 DEF d, Decide, Expand
  <2>4. d.candidates \cap ToSet(list) # {}
    BY <2>1, <2>2, <2>3
  <2>5. Earliest(ordered, list) = x.kernel
    BY <1>7, <2>1, <2>2, <2>4, EarliestOfPart
  <2>6. ordered \cap ToSet(list) # {}
    BY <2>1, <2>2, <2>3
  <2> QED
    BY <2>5, <2>6 DEF First
<1>16. named = {x.kernel}
  <2>1. CASE Tuning(policy, facts, d) /\ t \in DOMAIN table
    <3>1. recorded = {x.kernel}
      BY <1>5, <2>1 DEF recorded, Recorded
    <3> QED
      BY <1>4, <1>9, <2>1, <3>1
  <2>2. CASE Tuning(policy, facts, d) /\ t \notin DOMAIN table
    <3>1. recorded = {}
      BY <2>2 DEF recorded, Recorded
    <3> QED
      BY <1>5, <1>11, <1>13, <1>14, <2>2, <3>1
  <2>3. CASE ~Tuning(policy, facts, d)
    <3>1. x.kernel = First(ordered, list)
      BY <1>4, <1>14, <1>15, <2>3
    <3> QED
      BY <1>13, <2>3, <3>1
  <2> QED
    BY <2>1, <2>2, <2>3
<1> QED
  BY <1>8, <1>9, <1>16

(* Whatever a graph is captured with can be captured. *)
LEMMA GraphSafeFromIInv == IInv => GraphSafe
<1> SUFFICES ASSUME IInv, NEW s \in Site, NEW q \in CallQuery, NEW x \in Kept(s, q)
             PROVE  Captures(q, x.kernel)
  BY DEF GraphSafe
<1>1. Sound(x) /\ x.key.facts.mode = q.mode
  <2>1. CASE Keyed(s, q)
    BY <2>1, KeptIs
  <2>2. CASE ~Keyed(s, q)
    <3>1. x \in Frozen(s, q)
      BY <2>2 DEF Kept
    <3>2. q.mode \in DOMAIN site[s].frozen /\ x = site[s].frozen[q.mode]
      BY <3>1 DEF Frozen
    <3> QED
      BY <3>2 DEF IInv, FrozenRight
  <2> QED
    BY <2>1, <2>2
<1> QED
  BY <1>1 DEF Sound, Captures

(* Freezing a site that is not polymorphic keeps the answers in its memo. *)
LEMMA FreezeAnswers ==
  ASSUME IInv, FreezeKernelChoices, NEW s \in Site, NEW q \in CallQuery,
         site[s].frozen = NoEntries, site'[s].frozen # NoEntries,
         site[s].fingerprint = Fingerprint, MemoKey(q) \in DOMAIN site[s].memo
  PROVE  Served(s, q)' = Served(s, q)
<1> DEFINE memo == site[s].memo
           key  == MemoKey(q)
<1>1. site[s] \in SiteSet /\ MemoRight(s, site[s].fingerprint, memo)
  BY DEF IInv, Shape
<1>2. memo \in Dict(MemoKeySet, SelectionSet)
  BY <1>1 DEF SiteSet
<1>3. /\ DOMAIN SiteChoices(memo) = {k.mode : k \in DOMAIN memo}
      /\ \A m \in DOMAIN SiteChoices(memo) : \E k \in DOMAIN memo :
           k.mode = m /\ SiteChoices(memo)[m] = memo[k]
  BY <1>1, <1>2, ChoicesAreRight
<1>4. key.mode = q.mode
  BY CacheKeyIs DEF IInv
<1>5. /\ site'[s] = [site[s] EXCEPT !.frozen = SiteChoices(memo)] /\ ~Polymorphic(memo)
      /\ UNCHANGED <<pool, active, verify>>
  BY DEF FreezeKernelChoices
<1>6. /\ site'[s].frozen = SiteChoices(memo) /\ site'[s].memo = memo
      /\ site'[s].fingerprint = site[s].fingerprint
  BY <1>1, <1>5 DEF SiteSet
<1>7. q.mode \in DOMAIN SiteChoices(memo)
  BY <1>3, <1>4
<1>8. SiteChoices(memo)[q.mode] = memo[key]
  <2>1. PICK k \in DOMAIN memo : k.mode = q.mode /\ SiteChoices(memo)[q.mode] = memo[k]
    BY <1>3, <1>7
  <2> QED
    BY <1>4, <1>5, <2>1 DEF Polymorphic
<1>9. Selector' = Selector /\ MemoKey(q)' = key /\ Fingerprint' = Fingerprint
  BY <1>5 DEF Selector, MemoKey, Fingerprint
<1>10. Memo(s) = memo /\ Memo(s)' = memo
  BY <1>6, <1>9 DEF Memo
<1>11. Found(s, q) = {memo[key]} /\ Found(s, q)' = {memo[key]}
  BY <1>9, <1>10 DEF Found
<1>12. Frozen(s, q) = {} /\ Frozen(s, q)' = {memo[key]}
  <2>1. DOMAIN NoEntries = {}
    BY EmptyDict
  <2> QED
    BY <1>6, <1>7, <1>8, <2>1 DEF Frozen
<1> HIDE DEF memo, key
<1> QED
  BY <1>5, <1>11, <1>12 DEF Served

(* Only freeze_kernel_choices() freezes a site. *)
LEMMA OnlyFreezeFreezes ==
  ASSUME IInv, KernelNext, NEW s \in Site,
         site[s].frozen = NoEntries, site'[s].frozen # NoEntries
  PROVE  FreezeKernelChoices
<1>1. site \in [Site -> SiteSet]
  BY DEF IInv, Shape
<1>2. ASSUME NEW r \in Site, NEW q \in CallQuery, Select(r, q) PROVE FALSE
  <2>1. PICK memo : site' = [site EXCEPT ![r].memo = memo, ![r].fingerprint = Fingerprint]
    BY <1>2 DEF Select
  <2>2. CASE r = s
    <3>1. site[s] \in SiteSet
      BY <1>1
    <3>2. site'[s] = [site[s] EXCEPT !.memo = memo, !.fingerprint = Fingerprint]
      BY <1>1, <2>1, <2>2
    <3>3. site'[s].frozen = site[s].frozen
      BY <3>1, <3>2 DEF SiteSet
    <3> QED
      BY <3>3
  <2>3. CASE r # s
    BY <1>1, <2>1, <2>3
  <2> QED
    BY <2>2, <2>3
<1>3. UnfreezeKernelChoices => FALSE
  <2> SUFFICES ASSUME UnfreezeKernelChoices PROVE FALSE
    OBVIOUS
  <2>1. site[s] \in SiteSet /\ site'[s] = [site[s] EXCEPT !.frozen = NoEntries]
    BY <1>1 DEF UnfreezeKernelChoices
  <2>2. site'[s].frozen = NoEntries
    BY <2>1 DEF SiteSet
  <2> QED
    BY <2>2
<1>4. Configure \/ ResetKernelSelector \/ (\E e \in Engine : Initialize(e))
        \/ (\E i \in 1..Len(pool) : SetKernelSelector(i)) => site' = site
  BY DEF Configure, ResetKernelSelector, Initialize, SetKernelSelector, Install
<1> QED
  BY <1>2, <1>3, <1>4 DEF KernelNext

-----------------------------------------------------------------------------
(* Theorems.                                                               *)

(* The invariant holds always. *)
LEMMA AlwaysIInv == KernelSpec => []IInv
<1>1. KernelInit => IInv
  BY InitIInv
<1>2. IInv /\ [KernelNext]_kernelVars => IInv'
  BY StepIInv
<1> QED
  BY <1>1, <1>2, PTL DEF KernelSpec

(* For all kernels, policies, engines, sites and calls, and any order of   *)
(* calls, freezes, plugins and engines: what Selector and CallSite         *)
(* remember is what a selection from nothing would find now (NeverStale),  *)
(* and explain() names it.  The memo key holds every fact that a           *)
(* capability or a rule reads, and the fingerprint all else.               *)
THEOREM SelectionsNeverStale == KernelSpec => []ChoicesCorrect
<1>1. IInv => ChoicesCorrect
  BY TypeFromIInv, NeverStaleFromIInv, ExplainFromIInv DEF ChoicesCorrect
<1> QED
  BY <1>1, AlwaysIInv, PTL

(* No graph is captured with a kernel that cannot be captured, whether it  *)
(* was selected, remembered or frozen (assess(), freeze()).                *)
THEOREM CapturesAreSafe == KernelSpec => []GraphSafe
<1>1. IInv => GraphSafe
  BY GraphSafeFromIInv
<1> QED
  BY <1>1, AlwaysIInv, PTL

(* freeze_kernel_choices() changes no answer that a site has memoized for  *)
(* the selector as it is.                                                  *)
THEOREM FreezingKeepsAnswers == KernelSpec => FreezeKeepsAnswers
<1>1. IInv /\ [KernelNext]_kernelVars =>
        [\A s \in Site :
           /\ site[s].frozen = NoEntries /\ site'[s].frozen # NoEntries
           /\ site[s].fingerprint = Fingerprint
           => \A q \in CallQuery :
                MemoKey(q) \in DOMAIN site[s].memo => Served(s, q)' = Served(s, q)]_kernelVars
  <2> SUFFICES ASSUME IInv, KernelNext, NEW s \in Site,
                      site[s].frozen = NoEntries, site'[s].frozen # NoEntries,
                      site[s].fingerprint = Fingerprint,
                      NEW q \in CallQuery, MemoKey(q) \in DOMAIN site[s].memo
               PROVE  Served(s, q)' = Served(s, q)
    OBVIOUS
  <2> QED
    BY OnlyFreezeFreezes, FreezeAnswers
<1> QED
  BY <1>1, AlwaysIInv, PTL DEF KernelSpec, FreezeKeepsAnswers
=============================================================================
