-------------------------- MODULE KernelSelection --------------------------
(***************************************************************************)
(* How a layer finds the kernel for a call: the catalog, the policy and    *)
(* the caches of phyai/kernel (registry.py, policy.py, selector.py), the   *)
(* memo of a call site and its frozen choices (call.py), and the installed *)
(* selector (bootstrap.py).                                                *)
(*                                                                         *)
(* One operation on weights of one signature is modelled, so that sites    *)
(* share what a selector caches.  A call supplies facts; a capability, or  *)
(* the match of a rule, is a function from the facts it reads to the       *)
(* values it accepts.  The version of a catalog is its set of kernels, of  *)
(* a policy its name; the device of a selector stands for all that calls   *)
(* inherit from it, the model context too.  Selections are compared by     *)
(* identity, as in the code: one is known by its cache key and the life of *)
(* its cache.                                                              *)
(*                                                                         *)
(* Call sites belong to layers, but for the embedding's, which outlives    *)
(* engines (layers/vocab_embedding/ops.py); all are kept here, since a new *)
(* one is as good as a site that has not been called.                      *)
(***************************************************************************)
EXTENDS Integers, Sequences, FiniteSets, SequencesExt, FiniteSetsExt

CONSTANTS
  Impl,          \* each implementation: [when, reference, capture_safe]
  Ranked,        \* all of them by priority, then id
  Builtin,       \* the ones build_catalog() registers
  Broken,        \* the ones whose prepare() raises
  Measurable,    \* the ones the benchmark can run
  Policy,        \* each policy: [profile, fallback, rules, overrides]
  Engine,        \* what engines ask for: [policy, device]
  Default,       \* the same without an engine
  PluginKernel, PluginPolicy,     \* what a plugin configures
  Site,          \* call sites
  Prefer,        \* of each site: its preference
  CallQuery,         \* what calls supply: [mode, device, rows]
  MaxSelectors,  \* bound: selectors ever made
  MaxEpoch,      \* bound: configurations of a selector
  MaxHeld        \* bound: selections in caches, memos and frozen choices

Kernel  == DOMAIN Impl
Inherit == "inherit"   \* the device of a call that supplies none

Rules(policy) == Policy[policy].rules \cup Policy[policy].overrides

(* Kernels and rules read facts that calls have, and only the policies of  *)
(* engines measure.                                                        *)
ASSUME KernelAssumption ==
  /\ Builtin \cup Broken \cup Measurable \cup {PluginKernel} \subseteq Kernel
  /\ Ranked \in Seq(Kernel) /\ IsInjective(Ranked) /\ ToSet(Ranked) = Kernel
  /\ {e.policy : e \in Engine \cup {Default}} \cup {PluginPolicy} \subseteq DOMAIN Policy
  /\ \A p \in {Default.policy, PluginPolicy} : Policy[p].profile # "autotune"
  /\ \A k \in Kernel : DOMAIN Impl[k].when \subseteq {"mode", "device", "rows"}
  /\ \A p \in DOMAIN Policy : \A r \in Rules(p) :
       DOMAIN r.when \subseteq {"mode", "device", "rows"} /\ r.kernels \in Seq(Kernel)
  /\ Prefer \in [Site -> Seq(Kernel)]
  /\ MaxSelectors \in Nat \ {0} /\ MaxEpoch \in Nat /\ MaxHeld \in Nat

VARIABLES
  pool,    \* selectors made: [catalog, policy, device, epoch, cache, autotune]
  active,  \* the installed one
  file,    \* the file of autotune_cache
  site,    \* each site: [memo, fingerprint, frozen]
  verify   \* PHYAI_KERNEL_VERIFY_FROZEN, read once

kernelVars == <<pool, active, file, site, verify>>

Selector == pool[active]
NoEntries    == <<>>   \* a dict without entries

Fresh(engine, autotune) ==
  [catalog |-> Builtin, policy |-> engine.policy, device |-> engine.device, epoch |-> 0,
   cache |-> {}, autotune |-> autotune]

KernelInit ==
  /\ pool = <<Fresh(Default, NoEntries)>>
  /\ active = 1 /\ file = NoEntries /\ verify \in BOOLEAN
  /\ site = [s \in Site |-> [memo |-> NoEntries, fingerprint |-> NoEntries, frozen |-> NoEntries]]

-----------------------------------------------------------------------------
(* Selector.  What a call gets depends on the facts, the catalog and the   *)
(* policy, which are the arguments.  An order is a set of kernels and the  *)
(* list that comes before the catalog's own order.                         *)

(* normalize(), facts_for(): a device is inherited only by calls that      *)
(* supply none.                                                            *)
Facts(device, q) ==
  [mode |-> q.mode, rows |-> q.rows,
   device |-> IF q.device = Inherit THEN device ELSE q.device]

Holds(when, facts) == \A n \in DOMAIN when : facts[n] \in when[n]

Captures(facts, k) == facts.mode = "capture" => Impl[k].capture_safe

(* assess(). *)
Eligible(catalog, facts) ==
  {k \in catalog : Captures(facts, k) /\ Holds(Impl[k].when, facts)}

(* The first kernel of a list that is in a set. *)
Earliest(ks, list) == list[Min({i \in DOMAIN list : list[i] \in ks})]

(* The first of a set: as listed, else by priority and id, which is how    *)
(* Catalog.impls() sorts them.                                             *)
First(ks, list) == Earliest(ks, IF ks \cap ToSet(list) # {} THEN list ELSE Ranked)

Highest(rules, facts) ==
  LET matching == {r \in rules : Holds(r.when, facts)}
  IN {r \in matching : \A o \in matching : o.priority <= r.priority}

(* _expand(): a glob means the kernels of the catalog that match it. *)
Expand(catalog, rule) ==
  IF rule.glob THEN ToSet(rule.kernels) \cap catalog ELSE ToSet(rule.kernels)

(* Policy.decide(): overrides come first; two rules that match are a       *)
(* conflict, which raises.                                                 *)
Decide(catalog, policy, facts) ==
  LET overrides == Highest(Policy[policy].overrides, facts)
      matched   == IF overrides # {} THEN overrides ELSE Highest(Policy[policy].rules, facts)
      rule      == CHOOSE r \in matched : TRUE
  IN [strict |-> overrides # {}, conflict |-> Cardinality(matched) > 1,
      candidates |-> IF matched = {} THEN {} ELSE Expand(catalog, rule),
      list |-> IF matched = {} THEN <<>> ELSE rule.kernels]

(* order(), and the list that its result is ordered by. *)
Order(catalog, policy, facts, decision) ==
  {k \in Eligible(catalog, facts) :
     \/ decision.candidates = {} \/ k \in decision.candidates
     \/ ~decision.strict /\ Policy[policy].fallback # "error" /\ Impl[k].reference}

ListOf(decision, prefer) == IF decision.candidates = {} THEN prefer ELSE decision.list

(* What a strict override insists on. *)
Wanted(decision, k) ==
  decision.candidates # {} /\ k = Earliest(decision.candidates, decision.list)

(* select() and _prepare_first(): the kernels it can use, none when it     *)
(* raises.                                                                 *)
Prepared(catalog, policy, facts, decision) ==
  {k \in Order(catalog, policy, facts, decision) \ Broken :
     ~decision.conflict /\ (decision.strict => Wanted(decision, k))}

(* _tuning().  A selector whose policy measures has a benchmark. *)
Tuning(policy, facts, decision) ==
  ~decision.strict /\ Policy[policy].profile = "autotune" /\ facts.mode = "eager"

TuneKey(catalog, policy, facts) == [catalog |-> catalog, policy |-> policy, facts |-> facts]

Recorded(table, key) == IF key \in DOMAIN table THEN {table[key]} ELSE {}

(* _tune(): the kernel recorded, else the fastest, which is any of those   *)
(* that can be measured, else the first.                                   *)
Tuned(recorded, prepared, list) ==
  IF recorded \cap prepared # {} THEN recorded \cap prepared
  ELSE IF prepared \cap Measurable # {} THEN prepared \cap Measurable
  ELSE {First(prepared, list)}

Winners(catalog, policy, facts, prefer, table) ==
  LET decision == Decide(catalog, policy, facts)
      prepared == Prepared(catalog, policy, facts, decision)
      list     == ListOf(decision, prefer)
  IN IF prepared = {} THEN {}
     ELSE IF Tuning(policy, facts, decision)
     THEN Tuned(Recorded(table, TuneKey(catalog, policy, facts)), prepared, list)
     ELSE {First(prepared, list)}

CacheKey(s, q) ==
  [catalog |-> Selector.catalog, policy |-> Selector.policy,
   facts |-> Facts(Selector.device, q), prefer |-> Prefer[s]]

Cached(s, q) == {x \in Selector.cache : x.key = CacheKey(s, q)}

(* Selector.select(): the selections it may return, none when it raises. *)
Selected(s, q) ==
  IF Cached(s, q) # {} THEN Cached(s, q)
  ELSE {[kernel |-> k, key |-> CacheKey(s, q), made |-> <<active, Selector.epoch>>] :
          k \in Winners(Selector.catalog, Selector.policy, Facts(Selector.device, q),
                        Prefer[s], Selector.autotune)}

(* A dict after an assignment. *)
Put(dict, key, value) ==
  [k \in DOMAIN dict \cup {key} |-> IF k = key THEN value ELSE dict[k]]

(* Whether select() measures, which it does when nothing is recorded. *)
Measures(x, s, q) ==
  LET facts == Facts(Selector.device, q)
      key   == TuneKey(Selector.catalog, Selector.policy, facts)
  IN /\ Cached(s, q) = {} /\ x.kernel \in Measurable
     /\ x.kernel \notin Recorded(Selector.autotune, key)
     /\ Tuning(Selector.policy, facts, Decide(Selector.catalog, Selector.policy, facts))

(* What it leaves behind: the cache, and the record and the file of a      *)
(* measurement.                                                            *)
Remember(x, s, q) ==
  LET key   == TuneKey(Selector.catalog, Selector.policy, Facts(Selector.device, q))
      measures == Measures(x, s, q)
      table == IF measures THEN Put(Selector.autotune, key, x.kernel) ELSE Selector.autotune
  IN /\ pool' = [pool EXCEPT ![active].cache = @ \cup {x}, ![active].autotune = table]
     /\ file' = IF measures THEN table ELSE file

(* explain(): the kernel it names, none when it raises. *)
Explained(s, q) ==
  LET facts    == Facts(Selector.device, q)
      decision == Decide(Selector.catalog, Selector.policy, facts)
      ordered  == Order(Selector.catalog, Selector.policy, facts, decision)
      recorded == Recorded(Selector.autotune, TuneKey(Selector.catalog, Selector.policy, facts))
      named    == IF Tuning(Selector.policy, facts, decision) /\ recorded \cap ordered # {}
                  THEN recorded
                  ELSE IF ordered = {} THEN {} ELSE {First(ordered, ListOf(decision, Prefer[s]))}
  IN {k \in named : ~decision.conflict /\ (decision.strict => Wanted(decision, k))}

-----------------------------------------------------------------------------
(* Call sites.                                                             *)

Fingerprint ==
  [catalog |-> Selector.catalog, policy |-> Selector.policy,
   device |-> Selector.device, epoch |-> Selector.epoch]

FactsUsed_Catalog(catalog, policy) == UNION {DOMAIN Impl[k].when : k \in catalog}

(* key_paths(): the facts that capabilities and rules read. *)
FactsUsed(catalog, policy) ==
  (UNION {DOMAIN Impl[k].when : k \in catalog})
    \cup (UNION {DOMAIN r.when : r \in Rules(policy)})

(* _memo_key(): mode and device are always in it. *)
KeyOf(paths, q) ==
  [mode |-> q.mode, device |-> q.device, rows |-> IF "rows" \in paths THEN {q.rows} ELSE {}]

MemoKey(q) == KeyOf(FactsUsed(Selector.catalog, Selector.policy), q)

(* The memo after key_paths(). *)
Memo(s) == IF site[s].fingerprint = Fingerprint THEN site[s].memo ELSE NoEntries

Frozen(s, q) == IF q.mode \in DOMAIN site[s].frozen THEN {site[s].frozen[q.mode]} ELSE {}

Found(s, q) == IF MemoKey(q) \in DOMAIN Memo(s) THEN {Memo(s)[MemoKey(q)]} ELSE Selected(s, q)

(* CallSite.select(): what it returns, nothing when it raises. *)
Served(s, q) ==
  IF Frozen(s, q) = {} THEN Found(s, q)
  ELSE IF verify THEN Found(s, q) \cap Frozen(s, q)
  ELSE Frozen(s, q)

Keyed(s, q) == Frozen(s, q) = {} \/ verify

(* The answer that is kept for a call, if any. *)
Kept(s, q) ==
  IF ~Keyed(s, q) THEN Frozen(s, q)
  ELSE IF MemoKey(q) \in DOMAIN Memo(s) THEN {Memo(s)[MemoKey(q)]}
  ELSE Cached(s, q)

-----------------------------------------------------------------------------
(* Actions.  A call that a frozen choice or the memo answers changes       *)
(* nothing.                                                                *)

Held == (UNION {pool[i].cache : i \in 1..Len(pool)})
          \cup (UNION {Range(site[s].memo) \cup Range(site[s].frozen) : s \in Site})

(* select() past the memo: a kernel is found, or none, or rules conflict. *)
Select(s, q) ==
  LET memo  == Memo(s)
      key   == MemoKey(q)
      found == Selected(s, q)
  IN /\ Keyed(s, q) /\ key \notin DOMAIN memo
     /\ \/ \E x \in found :
             /\ site' = [site EXCEPT ![s].memo = Put(memo, key, x), ![s].fingerprint = Fingerprint]
             /\ Cardinality(Held \cup {x}) <= MaxHeld /\ Remember(x, s, q)
        \/ /\ found = {}
           /\ site' = [site EXCEPT ![s].memo = memo, ![s].fingerprint = Fingerprint]
           /\ UNCHANGED <<pool, file>>
     /\ UNCHANGED <<active, verify>>

Polymorphic_Never(memo) == FALSE

Polymorphic(memo) ==
  \E k, l \in DOMAIN memo : k.mode = l.mode /\ memo[k] # memo[l]

SiteChoices_Any(memo) ==
  [m \in {q.mode : q \in CallQuery} |-> memo[CHOOSE k \in DOMAIN memo : TRUE]]

(* freeze(): one choice for each mode the site has seen. *)
SiteChoices(memo) ==
  [m \in {k.mode : k \in DOMAIN memo} |->
     memo[CHOOSE k \in DOMAIN memo : k.mode = m]]

(* freeze_kernel_choices(): sites that are frozen, cold or polymorphic are *)
(* left as they are.                                                       *)
FreezeKernelChoices ==
  /\ site' = [s \in Site |->
       IF site[s].frozen # NoEntries \/ site[s].memo = NoEntries \/ Polymorphic(site[s].memo)
       THEN site[s] ELSE [site[s] EXCEPT !.frozen = SiteChoices(site[s].memo)]]
  /\ UNCHANGED <<pool, active, file, verify>>

UnfreezeKernelChoices ==
  /\ site' = [s \in Site |-> [site[s] EXCEPT !.frozen = NoEntries]]
  /\ UNCHANGED <<pool, active, file, verify>>

(* configure_humanwam_goal_kernels(): a kernel is registered, the policy   *)
(* replaced and the cache cleared.                                         *)
Configure ==
  /\ Selector.epoch < MaxEpoch
  /\ pool' = [pool EXCEPT ![active].catalog = @ \cup {PluginKernel},
                          ![active].policy = PluginPolicy,
                          ![active].cache = {}, ![active].epoch = @ + 1]
  /\ UNCHANGED <<active, file, site, verify>>

Install(selector) ==
  /\ Len(pool) < MaxSelectors
  /\ pool' = Append(pool, selector) /\ active' = Len(pool) + 1
  /\ UNCHANGED <<file, site, verify>>

(* initialize_kernel_system(), of a new engine. *)
Initialize(e) == Install(Fresh(e, file))

(* reset_kernel_selector(), of an engine that closes; get_kernel_selector() *)
(* then makes the default one, which has no file.                           *)
ResetKernelSelector == Install(Fresh(Default, NoEntries))

(* set_kernel_selector(), kernel_selector_scope(): back to another one. *)
SetKernelSelector(i) ==
  /\ active' = i
  /\ UNCHANGED <<pool, file, site, verify>>

KernelNext ==
  \/ \E s \in Site, q \in CallQuery : Select(s, q)
  \/ FreezeKernelChoices \/ UnfreezeKernelChoices
  \/ Configure \/ ResetKernelSelector
  \/ \E e \in Engine : Initialize(e)
  \/ \E i \in 1..Len(pool) : SetKernelSelector(i)

KernelSpec == KernelInit /\ [][KernelNext]_kernelVars

-----------------------------------------------------------------------------
(* Properties.                                                             *)

SelectionType(x) == x.kernel \in Kernel \cap x.key.catalog

(* Every variable has its type; a cache holds one selection for a key, and *)
(* selections and records name kernels of the catalog they are made from.  *)
KernelTypeOK ==
  /\ active \in 1..Len(pool) /\ Len(pool) <= MaxSelectors /\ verify \in BOOLEAN
  /\ \A i \in 1..Len(pool) :
       /\ Builtin \subseteq pool[i].catalog /\ pool[i].catalog \subseteq Kernel
       /\ pool[i].policy \in DOMAIN Policy
       /\ pool[i].epoch \in 0..MaxEpoch
       /\ \A x, y \in pool[i].cache : SelectionType(x) /\ (x.key = y.key => x = y)
       /\ \A t \in DOMAIN pool[i].autotune : pool[i].autotune[t] \in t.catalog
  /\ \A s \in Site : \A k \in DOMAIN site[s].memo : SelectionType(site[s].memo[k])

(* A selection is never stale: whatever policies, catalogs, devices and    *)
(* selectors have come and gone, a call that no frozen choice answers, or  *)
(* that verifies it, gets from memo and cache the kernel a selection from  *)
(* nothing would find: the first that can be used, or, when measured, one  *)
(* that can.  Memo keys and fingerprints of CallSite.key_paths() hold all  *)
(* it depends on.                                                          *)
NeverStale ==
  \A s \in Site, q \in CallQuery : \A x \in Kept(s, q) : Keyed(s, q) =>
    LET facts    == Facts(Selector.device, q)
        decision == Decide(Selector.catalog, Selector.policy, facts)
        prepared == Prepared(Selector.catalog, Selector.policy, facts, decision)
    IN /\ x.kernel \in prepared
       /\ Tuning(Selector.policy, facts, decision)
          \/ x.kernel = First(prepared, ListOf(decision, Prefer[s]))

(* A captured graph contains no kernel that cannot be captured, whether    *)
(* the call was selected, remembered or frozen, and whatever was frozen    *)
(* before the capture: choices are frozen for each mode (CallSite.freeze). *)
GraphSafe ==
  \A s \in Site, q \in CallQuery : \A x \in Kept(s, q) : Captures(q, x.kernel)

(* explain() names the kernel that select() has returned, with and without *)
(* tuning, as long as the first one of the order could be prepared: what   *)
(* select() remembers is what explain() works out anew (the gate in        *)
(* _tuning, and a cache key that holds all the order depends on).          *)
ExplainAgrees ==
  \A s \in Site, q \in CallQuery : \A x \in Cached(s, q) :
    LET facts    == Facts(Selector.device, q)
        decision == Decide(Selector.catalog, Selector.policy, facts)
        ordered  == Order(Selector.catalog, Selector.policy, facts, decision)
    IN First(ordered, ListOf(decision, Prefer[s])) \notin Broken
       => Explained(s, q) = {x.kernel}

(* Freezing changes no answer: a call that a site has memoized for the     *)
(* selector as it is gets the same selection afterwards, in graphs and     *)
(* outside, and sites that have given two in one mode are left alone       *)
(* (freeze_kernel_choices).                                                *)
FreezeKeepsAnswers ==
  [][\A s \in Site :
       /\ site[s].frozen = NoEntries /\ site'[s].frozen # NoEntries
       /\ site[s].fingerprint = Fingerprint
       => \A q \in CallQuery :
            MemoKey(q) \in DOMAIN site[s].memo => Served(s, q)' = Served(s, q)]_kernelVars

(* What Selector and CallSite remember is what they would select now,    *)
(* and what explain() says.                                              *)
ChoicesCorrect == KernelTypeOK /\ NeverStale /\ ExplainAgrees

=============================================================================
