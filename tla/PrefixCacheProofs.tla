------------------------- MODULE PrefixCacheProofs -------------------------
(***************************************************************************)
(* Proofs about PrefixCache, for any tiers with any numbers of units, any  *)
(* pages and any number of callers and node_refs.  What has to be shown of *)
(* every number or of every position in an order is shown of the least one *)
(* for which it would fail (LeastNumber).                                  *)
(***************************************************************************)
EXTENDS PrefixCache, FiniteSetTheorems, SequenceTheorems, WellFoundedInduction, TLAPS

-----------------------------------------------------------------------------
(* Paths: the order of prefixes.                                           *)

(* A query is a sequence of at least one page. *)
LEMMA QueryIsPath ==
  ASSUME NEW n \in Query
  PROVE  /\ Len(n) \in Nat /\ 1 <= Len(n) /\ Len(n) <= MaxLen
         /\ n \in [1..Len(n) -> Page] /\ n \in Seq(Page)
<1>1. PICK k \in 1..MaxLen : n \in [1..k -> Page]
  BY DEF Query
<1>2. k \in Nat /\ MaxLen \in Nat
  BY CacheAssumption
<1>3. n \in Seq(Page)
  BY <1>1, <1>2
<1>4. Len(n) = k
  BY <1>1, <1>2, <1>3
<1> QED
  BY <1>1, <1>2, <1>3, <1>4

(* The first pages of a query are a query. *)
LEMMA PreIsPath ==
  ASSUME NEW n \in Query, NEW k \in Nat, 1 <= k, k <= Len(n)
  PROVE  /\ Pre(n, k) \in Query /\ Len(Pre(n, k)) = k
         /\ Pre(n, k) = [i \in 1..k |-> n[i]]
<1>1. n \in Seq(Page) /\ Len(n) \in Nat /\ Len(n) <= MaxLen /\ MaxLen \in Nat
      /\ n \in [1..Len(n) -> Page]
  BY QueryIsPath, CacheAssumption
<1>2. Pre(n, k) = [i \in 1..k |-> n[i]]
  BY <1>1 DEF Pre
<1>3. Pre(n, k) \in [1..k -> Page]
  BY <1>1, <1>2
<1>4. k \in 1..MaxLen
  BY <1>1
<1>5. Pre(n, k) \in Query
  BY <1>3, <1>4 DEF Query
<1>6. Len(Pre(n, k)) = k
  BY <1>2
<1> QED
  BY <1>2, <1>5, <1>6

(* The whole of a path. *)
LEMMA PreWhole ==
  ASSUME NEW n \in Query
  PROVE  Pre(n, Len(n)) = n
<1>1. Len(n) \in Nat /\ 1 <= Len(n) /\ n \in [1..Len(n) -> Page]
  BY QueryIsPath
<1>2. Pre(n, Len(n)) = [i \in 1..Len(n) |-> n[i]]
  BY <1>1, PreIsPath
<1> QED
  BY <1>1, <1>2

(* The first pages of the first pages. *)
LEMMA PrePre ==
  ASSUME NEW n \in Query, NEW k \in Nat, NEW j \in Nat, 1 <= j, j <= k, k <= Len(n)
  PROVE  Pre(Pre(n, k), j) = Pre(n, j)
<1>1. /\ Pre(n, k) \in Query /\ Len(Pre(n, k)) = k
      /\ Pre(n, k) = [i \in 1..k |-> n[i]]
  BY PreIsPath
<1>2. Len(n) \in Nat
  BY QueryIsPath
<1>3. Pre(Pre(n, k), j) = [i \in 1..j |-> Pre(n, k)[i]]
  BY <1>1, PreIsPath
<1>4. Pre(n, j) = [i \in 1..j |-> n[i]]
  BY <1>2, PreIsPath
<1>5. \A i \in 1..j : Pre(n, k)[i] = n[i]
  BY <1>1
<1> QED
  BY <1>3, <1>4, <1>5

(* A prefix of a path is its first pages. *)
LEMMA PrefixIsPre ==
  ASSUME NEW m \in Query, NEW n \in Query
  PROVE  IsPrefix(m, n) <=> Len(m) <= Len(n) /\ m = Pre(n, Len(m))
BY PreWhole DEF IsPrefix, Pre

(* The prefixes of a path, by their length. *)
LEMMA PreIsPrefix ==
  ASSUME NEW n \in Query, NEW k \in Nat, 1 <= k, k <= Len(n)
  PROVE  /\ Pre(n, k) \in Query /\ Len(Pre(n, k)) = k /\ IsPrefix(Pre(n, k), n)
         /\ \A p \in Query : IsPrefix(p, n) /\ Len(p) = k => p = Pre(n, k)
<1>1. Pre(n, k) \in Query /\ Len(Pre(n, k)) = k
  BY PreIsPath
<1>2. IsPrefix(Pre(n, k), n)
  BY <1>1, PrefixIsPre
<1> QED
  BY <1>1, <1>2, PrefixIsPre

(* Prefixes are partially ordered, and those of one path are a chain. *)
LEMMA PrefixOrder ==
  /\ \A n \in Query : Len(n) \in Nat /\ 1 <= Len(n) /\ Len(n) <= MaxLen
  /\ \A n \in Query : IsPrefix(n, n)
  /\ \A a, b \in Query : IsPrefix(a, b) => Len(a) <= Len(b)
  /\ \A a, b \in Query : IsPrefix(a, b) /\ Len(b) <= Len(a) => a = b
  /\ \A a, b, n \in Query : IsPrefix(a, b) /\ IsPrefix(b, n) => IsPrefix(a, n)
  /\ \A a, b, n \in Query : IsPrefix(a, n) /\ IsPrefix(b, n) /\ Len(a) <= Len(b) => IsPrefix(a, b)
<1>1. \A n \in Query : Len(n) \in Nat /\ 1 <= Len(n) /\ Len(n) <= MaxLen
  BY QueryIsPath
<1>2. \A n \in Query : IsPrefix(n, n)
  BY <1>1, PreWhole, PrefixIsPre
<1>3. \A a, b \in Query : IsPrefix(a, b) => Len(a) <= Len(b)
  BY PrefixIsPre
<1>4. ASSUME NEW a \in Query, NEW b \in Query, IsPrefix(a, b), Len(b) <= Len(a)
      PROVE  a = b
  <2>1. Len(a) = Len(b) /\ a = Pre(b, Len(a))
    BY <1>1, <1>4, PrefixIsPre
  <2> QED
    BY <2>1, PreWhole
<1>5. ASSUME NEW a \in Query, NEW b \in Query, NEW n \in Query, IsPrefix(a, b), IsPrefix(b, n)
      PROVE  IsPrefix(a, n)
  <2>1. /\ Len(a) <= Len(b) /\ a = Pre(b, Len(a)) /\ Len(b) <= Len(n) /\ b = Pre(n, Len(b))
    BY <1>5, PrefixIsPre
  <2>2. Pre(Pre(n, Len(b)), Len(a)) = Pre(n, Len(a))
    BY <1>1, <2>1, PrePre
  <2>3. a = Pre(n, Len(a)) /\ Len(a) <= Len(n)
    BY <1>1, <2>1, <2>2
  <2> QED
    BY <2>3, PrefixIsPre
<1>6. ASSUME NEW a \in Query, NEW b \in Query, NEW n \in Query, IsPrefix(a, n), IsPrefix(b, n),
             Len(a) <= Len(b)
      PROVE  IsPrefix(a, b)
  <2>1. /\ a = Pre(n, Len(a)) /\ Len(b) <= Len(n) /\ b = Pre(n, Len(b))
    BY <1>6, PrefixIsPre
  <2>2. Pre(Pre(n, Len(b)), Len(a)) = Pre(n, Len(a))
    BY <1>1, <1>6, <2>1, PrePre
  <2>3. a = Pre(b, Len(a))
    BY <2>1, <2>2
  <2> QED
    BY <1>6, <2>3, PrefixIsPre
<1> QED
  BY <1>1, <1>2, <1>3, <1>4, <1>5, <1>6

(* A non-empty set of numbers has a least one. *)
LEMMA LeastNumber ==
  ASSUME NEW S \in SUBSET Nat, S # {}
  PROVE  \E x \in S : \A y \in S : x <= y
<1> DEFINE R == OpToRel(<, Nat)
<1>1. IsWellFoundedOn(R, Nat)
  BY NatLessThanWellFounded
<1>2. \A x, y \in Nat : x < y => <<x, y>> \in R
  BY DEF OpToRel
<1> HIDE DEF R
<1>3. PICK x \in S : \A y \in S : ~(<<y, x>> \in R)
  BY <1>1, WFMin
<1>4. \A y \in S : x \in Nat /\ y \in Nat /\ ~(y < x)
  BY <1>2, <1>3, Zenon
<1> QED
  BY <1>4

(* common_atom_prefix(): how many first pages two paths share. *)
LEMMA CommonPages ==
  ASSUME NEW n \in Query, NEW m \in Query
  PROVE  /\ Common(n, m) \in Nat /\ Common(n, m) <= Len(n) /\ Common(n, m) <= Len(m)
         /\ \A k \in Nat : 1 <= k /\ k <= Len(n) =>
              (IsPrefix(Pre(n, k), m) <=> k <= Common(n, m))
<1> DEFINE S == {k \in DOMAIN n : IsPrefix(Pre(n, k), m)}
           T == {k \in 1..(Len(n) + 1) : k \notin S}
<1>1. Len(n) \in Nat /\ 1 <= Len(n) /\ n \in [1..Len(n) -> Page] /\ Len(m) \in Nat
  BY QueryIsPath
<1>2. DOMAIN n = 1..Len(n)
  BY <1>1
<1>3. \A k \in S : k \in Nat /\ 1 <= k /\ k <= Len(n) /\ IsPrefix(Pre(n, k), m)
  BY <1>1, <1>2
<1>4. Len(n) + 1 \in T /\ T \in SUBSET Nat
  BY <1>1, <1>3
<1>5. PICK x \in T : \A y \in T : x <= y
  BY <1>4, LeastNumber
<1>6. x \in Nat /\ 1 <= x /\ x <= Len(n) + 1 /\ x \notin S
  BY <1>1, <1>5
<1>7. ASSUME NEW k \in S, NEW j \in Nat, 1 <= j, j <= k
      PROVE  j \in S
  <2>1. /\ Pre(n, k) \in Query /\ Len(Pre(n, k)) = k /\ Pre(n, j) \in Query /\ Len(Pre(n, j)) = j
        /\ IsPrefix(Pre(n, k), n) /\ IsPrefix(Pre(n, j), n)
    BY <1>1, <1>3, <1>7, PreIsPrefix
  <2>2. IsPrefix(Pre(n, j), Pre(n, k))
    BY <1>7, <2>1, PrefixOrder
  <2>3. IsPrefix(Pre(n, j), m)
    BY <1>3, <1>7, <2>1, <2>2, PrefixOrder
  <2> QED
    BY <1>1, <1>2, <1>3, <1>7, <2>3
<1>8. S = 1..(x - 1)
  <2>1. ASSUME NEW k \in S PROVE k \in 1..(x - 1)
    <3>1. k \in Nat /\ 1 <= k
      BY <1>3
    <3>2. ~(x <= k)
      BY <1>6, <1>7, <3>1
    <3> QED
      BY <1>6, <3>1, <3>2
  <2>2. ASSUME NEW k \in 1..(x - 1) PROVE k \in S
    <3>1. k \in Nat /\ k \in 1..(Len(n) + 1) /\ ~(x <= k)
      BY <1>1, <1>6, <2>2
    <3> QED
      BY <1>5, <3>1
  <2> QED
    BY <2>1, <2>2
<1>9. Cardinality(S) = x - 1
  <2>1. Cardinality(1..(x - 1)) = (x - 1) - 1 + 1
    <3>1. 1 \in Int /\ x - 1 \in Int /\ (~(1 > x - 1) \/ x = 1)
      BY <1>6
    <3> QED
      BY <1>6, <3>1, FS_Interval
  <2> HIDE DEF S
  <2> QED
    BY <1>6, <1>8, <2>1
<1>10. Common(n, m) = x - 1
  BY <1>9 DEF Common
<1>11. ASSUME NEW k \in Nat, 1 <= k, k <= Len(n)
       PROVE  IsPrefix(Pre(n, k), m) <=> k <= Common(n, m)
  <2>1. k \in S <=> IsPrefix(Pre(n, k), m)
    BY <1>1, <1>2, <1>11
  <2>2. k \in 1..(x - 1) <=> k <= x - 1
    BY <1>6, <1>11
  <2> QED
    BY <1>8, <1>10, <2>1, <2>2
<1>12. Common(n, m) <= Len(m)
  <2>1. CASE x - 1 = 0
    BY <1>1, <1>10, <2>1
  <2>2. CASE x - 1 >= 1
    <3>1. x - 1 \in Nat /\ 1 <= x - 1 /\ x - 1 <= Len(n)
      BY <1>1, <1>6, <2>2
    <3>2. IsPrefix(Pre(n, x - 1), m) /\ Pre(n, x - 1) \in Query /\ Len(Pre(n, x - 1)) = x - 1
      BY <1>10, <1>11, <3>1, PreIsPrefix
    <3> QED
      BY <1>10, <3>2, PrefixOrder
  <2> QED
    BY <1>6, <2>1, <2>2
<1> QED
  BY <1>1, <1>6, <1>10, <1>11, <1>12

(* The paths that two paths have as a prefix are those that are not longer *)
(* than what they share.                                                   *)
LEMMA SharedPrefix ==
  ASSUME NEW n \in Query, NEW m \in Query, NEW p \in Query, IsPrefix(p, n)
  PROVE  IsPrefix(p, m) <=> Len(p) <= Common(n, m)
<1>1. Len(p) \in Nat /\ 1 <= Len(p) /\ Len(p) <= Len(n)
  BY PrefixOrder
<1>2. p = Pre(n, Len(p))
  BY PrefixIsPre
<1> QED
  BY <1>1, <1>2, CommonPages

-----------------------------------------------------------------------------
(* The inductive invariant, as a predicate on a cache: the calls compute   *)
(* one cache from another in several steps.                                *)

From(c, n)   == c.tree[n].from
Res(c, n, t) == c.tree[n].res[t]

TreeNode  == [from : Nat, res : [Tier -> Resource]]
PendingOp == [node : Query, src : Tier, dst : Tier, promote : BOOLEAN, data : Seq(Content)]
NodeRef   == [node : Query, tier : Tier, path : Query]

Record(c) ==
  c = [tree |-> c.tree, free |-> c.free, ops |-> c.ops, stray |-> c.stray, locks |-> c.locks,
       fault |-> c.fault]

(* The cache has its type, and is finite. *)
Formed(c) ==
  /\ Record(c)
  /\ \A n \in Live(c) : n \in Query /\ c.tree[n] \in TreeNode
  /\ \A o \in c.ops : o \in PendingOp /\ o.src # o.dst
  /\ DOMAIN c.locks = Pin
  /\ \A r \in Pin : c.locks[r] # None => c.locks[r] \in NodeRef
  /\ IsFiniteSet(Live(c)) /\ IsFiniteSet(c.ops) /\ IsFiniteSet({r \in Pin : c.locks[r] # None})

(* Node n holds the last page of p. *)
Covers(c, n, p) == From(c, n) < Len(p) /\ IsPrefix(p, n)

(* Every node has its parent, and no prefix is held twice. *)
Radix(c) ==
  /\ \A n \in Live(c) :
       /\ From(c, n) < Len(n)
       /\ From(c, n) > 0 => Pre(n, From(c, n)) \in Live(c)
  /\ \A n, m \in Live(c), p \in Query : Covers(c, n, p) /\ Covers(c, m, p) => n = m

(* What a resource of a node from depth k on may be. *)
Right(n, k, r) ==
  /\ r.state = "none" => r = NoRes
  /\ r.state # "none" => Len(r.units) = Len(n) - k
  /\ r.state = "ready" => \A i \in 1..(Len(n) - k) : r.units[i] \in {Pre(n, k + i), Lost}

Filled(c) == \A n \in Live(c), t \in Tier : Right(n, From(c, n), Res(c, n, t))

Carried(c, n) == (\E m \in Live(c) : IsPrefix(n, m) /\ m # n) \/ (\E t \in Tier : Has(c, n, t))

NoBareLeaf(c) == \A n \in Live(c) : Carried(c, n)

(* The transfer o will find its reservation, and has the data for it. *)
OpKept(c, o) ==
  /\ o.node \in Live(c) /\ Res(c, o.node, o.dst).state = "pending"
  /\ Len(o.node) - From(c, o.node) <= Len(o.data)
  /\ \A i \in 1..(Len(o.node) - From(c, o.node)) :
       o.data[i] \in {Pre(o.node, From(c, o.node) + i), Lost}

OpsKept(c) ==
  /\ \A o \in c.ops : OpKept(c, o)
  /\ \A o, p \in c.ops : o.node = p.node /\ o.dst = p.dst => o = p

LocksOn(c, n, t) ==
  {r \in Pin : c.locks[r] # None /\ c.locks[r].tier = t /\ IsPrefix(n, c.locks[r].path)}

(* A ready node holds each page of a locked path. *)
PathsKept(c) ==
  \A r \in Pin : c.locks[r] # None =>
    /\ IsPrefix(c.locks[r].node, c.locks[r].path)
    /\ \A p \in Query : IsPrefix(p, c.locks[r].path) =>
         \E n \in Live(c) : /\ IsPrefix(n, c.locks[r].path) /\ Covers(c, n, p)
                            /\ Res(c, n, c.locks[r].tier).state = "ready"

(* A resource has at least the locks that are due to it. *)
LocksCounted(c) ==
  \A n \in Live(c), t \in Tier : Cardinality(LocksOn(c, n, t)) <= Res(c, n, t).refs

CacheInv(c) ==
  /\ Formed(c) /\ Radix(c) /\ Filled(c) /\ NoBareLeaf(c)
  /\ OpsKept(c) /\ PathsKept(c) /\ LocksCounted(c)

-----------------------------------------------------------------------------
(* Facts about one cache.                                                  *)

(* The parts of a node have their types. *)
LEMMA NodeParts ==
  ASSUME NEW c, Formed(c), NEW n \in Live(c)
  PROVE  /\ n \in Query /\ From(c, n) \in Nat
         /\ \A t \in Tier : Res(c, n, t) \in Resource
BY DEF Formed, TreeNode, From, Res

(* A resource has its fields. *)
LEMMA ResourceParts ==
  ASSUME NEW r \in Resource
  PROVE  /\ r.state \in {"none", "ready", "pending"} /\ r.refs \in Nat
         /\ r.units \in Seq(Content) /\ Len(r.units) \in Nat
         /\ DOMAIN r.units = 1..Len(r.units)
<1>1. /\ r.state \in {"none", "ready", "pending"} /\ r.refs \in Nat
      /\ r.units \in Seq(Content)
  BY DEF Resource
<1> QED
  BY <1>1, LenProperties

(* Of two nodes on one path the longer one begins where the shorter one    *)
(* ends, or later.                                                         *)
LEMMA BelowBegins ==
  ASSUME NEW c, Formed(c), Radix(c), NEW m \in Live(c), NEW n \in Live(c), IsPrefix(m, n), m # n
  PROVE  Len(m) <= From(c, n)
<1>1. m \in Query /\ n \in Query /\ From(c, n) \in Nat /\ From(c, m) \in Nat /\ Len(m) \in Nat
  BY NodeParts, PrefixOrder
<1>2. SUFFICES ASSUME From(c, n) < Len(m) PROVE FALSE
  BY <1>1
<1>3. Covers(c, m, m) /\ Covers(c, n, m)
  BY <1>1, <1>2, PrefixOrder DEF Covers, Radix
<1> QED
  BY <1>1, <1>3 DEF Radix

(* The nodes from the root to n hold every page of n's path. *)
LEMMA PathHeld ==
  ASSUME NEW c, Formed(c), Radix(c), NEW n \in Live(c), NEW p \in Query, IsPrefix(p, n)
  PROVE  \E m \in Live(c) : IsPrefix(m, n) /\ Covers(c, m, p)
<1> DEFINE on == {m \in Live(c) : IsPrefix(p, m) /\ IsPrefix(m, n)}
           S  == {Len(m) : m \in on}
<1>1. n \in Query /\ \A m \in on : m \in Query /\ From(c, m) \in Nat /\ Len(m) \in Nat
  BY NodeParts, PrefixOrder
<1>2. n \in on
  BY <1>1, PrefixOrder
<1>3. S \in SUBSET Nat /\ S # {}
  BY <1>1, <1>2
<1>4. PICK x \in S : \A y \in S : x <= y
  BY <1>3, LeastNumber
<1>5. PICK m \in on : x = Len(m)
  BY <1>4
<1>6. CASE From(c, m) < Len(p)
  BY <1>6 DEF Covers
<1>7. CASE Len(p) <= From(c, m)
  <2> DEFINE q == Pre(m, From(c, m))
  <2>1. Len(p) \in Nat /\ 1 <= Len(p) /\ From(c, m) < Len(m)
    BY <1>1, PrefixOrder DEF Radix
  <2>2. q \in Live(c)
    BY <1>1, <1>7, <2>1 DEF Radix
  <2>3. q \in Query /\ Len(q) = From(c, m) /\ IsPrefix(q, m)
    BY <1>1, <1>7, <2>1, PreIsPrefix
  <2> HIDE DEF q
  <2>4. IsPrefix(p, q) /\ IsPrefix(q, n)
    BY <1>1, <1>7, <2>3, PrefixOrder
  <2>5. Len(q) \in S
    BY <2>2, <2>4
  <2> QED
    BY <1>1, <1>4, <1>5, <2>1, <2>3, <2>5
<1> QED
  BY <1>1, <1>6, <1>7, PrefixOrder

(* The node_refs on a node and tier are finitely many. *)
LEMMA LocksFinite ==
  ASSUME NEW c, Formed(c), NEW n, NEW t
  PROVE  IsFiniteSet(LocksOn(c, n, t)) /\ Cardinality(LocksOn(c, n, t)) \in Nat
<1>1. LocksOn(c, n, t) \subseteq {r \in Pin : c.locks[r] # None}
  BY DEF LocksOn
<1>2. IsFiniteSet(LocksOn(c, n, t))
  BY <1>1, FS_Subset DEF Formed
<1> QED
  BY <1>2, FS_CardinalityType

(* Nobody has locked a resource that is not ready, or has no locks. *)
LEMMA Unlocked ==
  ASSUME NEW c, Formed(c), Radix(c), PathsKept(c), LocksCounted(c), NEW n \in Live(c), NEW t \in Tier,
         Res(c, n, t).refs = 0 \/ Res(c, n, t).state # "ready"
  PROVE  LocksOn(c, n, t) = {}
<1>1. CASE Res(c, n, t).refs = 0
  <2>1. Cardinality(LocksOn(c, n, t)) <= 0
    BY <1>1 DEF LocksCounted
  <2>2. Cardinality(LocksOn(c, n, t)) = 0
    BY <2>1, LocksFinite
  <2> QED
    BY <2>2, LocksFinite, FS_EmptySet
<1>2. CASE Res(c, n, t).state # "ready"
  <2>1. SUFFICES ASSUME NEW r \in LocksOn(c, n, t) PROVE FALSE
    OBVIOUS
  <2>2. r \in Pin /\ c.locks[r] # None /\ c.locks[r].tier = t /\ IsPrefix(n, c.locks[r].path)
    BY DEF LocksOn
  <2>3. n \in Query
    BY NodeParts
  <2>4. PICK m \in Live(c) : Covers(c, m, n) /\ Res(c, m, t).state = "ready"
    BY <2>2, <2>3 DEF PathsKept
  <2>5. Covers(c, n, n)
    BY <2>3, PrefixOrder DEF Covers, Radix
  <2>6. m = n
    BY <2>3, <2>4, <2>5 DEF Radix
  <2> QED
    BY <1>2, <2>4, <2>6
<1> QED
  BY <1>1, <1>2

-----------------------------------------------------------------------------
(* Steps that write one resource.                                          *)

(* d is c with r as n's resource in tier t. *)
Writes(c, d, n, t, r) ==
  /\ Record(d) /\ Live(d) = Live(c) /\ d.locks = c.locks
  /\ \A m \in Live(c) : d.tree[m] \in TreeNode /\ From(d, m) = From(c, m)
  /\ \A m \in Live(c), u \in Tier : Res(d, m, u) = IF m = n /\ u = t THEN r ELSE Res(c, m, u)

(* An update of the tree at one place. *)
LEMMA TreeWrite ==
  ASSUME NEW c, NEW d, NEW n \in Live(c), NEW t \in Tier, NEW r \in Resource,
         \A m \in Live(c) : c.tree[m] \in TreeNode,
         Record(d), d.locks = c.locks, d.tree = [c.tree EXCEPT ![n].res[t] = r]
  PROVE  Writes(c, d, n, t, r)
<1>1. DOMAIN d.tree = DOMAIN c.tree
  OBVIOUS
<1>2. ASSUME NEW m \in Live(c)
      PROVE  /\ d.tree[m] \in TreeNode /\ From(d, m) = From(c, m)
             /\ \A u \in Tier : Res(d, m, u) = IF m = n /\ u = t THEN r ELSE Res(c, m, u)
  <2>1. c.tree[m] \in TreeNode
    OBVIOUS
  <2>2. CASE m # n
    <3>1. d.tree[m] = c.tree[m]
      BY <2>2 DEF Live
    <3> QED
      BY <2>1, <2>2, <3>1 DEF From, Res
  <2>3. CASE m = n
    <3>1. d.tree[m] = [c.tree[m] EXCEPT !.res[t] = r]
      BY <2>3 DEF Live
    <3>2. c.tree[m].from \in Nat /\ c.tree[m].res \in [Tier -> Resource]
      BY <2>1 DEF TreeNode
    <3>3. /\ d.tree[m].from = c.tree[m].from /\ d.tree[m].res = [c.tree[m].res EXCEPT ![t] = r]
          /\ d.tree[m] = [from |-> c.tree[m].from, res |-> [c.tree[m].res EXCEPT ![t] = r]]
      BY <2>1, <3>1 DEF TreeNode
    <3>4. d.tree[m] \in TreeNode
      BY <3>2, <3>3 DEF TreeNode
    <3> QED
      BY <2>3, <3>2, <3>3, <3>4 DEF From, Res
  <2> QED
    BY <2>2, <2>3
<1> QED
  BY <1>1, <1>2 DEF Writes, Live

(* The last of two writes to a place counts. *)
LEMMA WriteTwice ==
  ASSUME NEW c, NEW d, NEW e, NEW n, NEW t, NEW r, NEW s,
         Writes(c, d, n, t, r), Writes(d, e, n, t, s)
  PROVE  Writes(c, e, n, t, s)
BY DEF Writes

(* No resource is a resource. *)
LEMMA NothingIsResource ==
  NoRes \in Resource
<1>1. <<>> \in Seq(Content)
  OBVIOUS
<1> QED
  BY <1>1 DEF NoRes, Resource

(* Detach. *)
LEMMA DetachWrites ==
  ASSUME NEW c, Record(c), \A m \in Live(c) : c.tree[m] \in TreeNode,
         NEW n \in Live(c), NEW t \in Tier
  PROVE  LET d == Detach(c, n, t) IN
         Writes(c, d, n, t, NoRes) /\ d.ops = c.ops /\ d.fault = c.fault
<1> DEFINE d == Detach(c, n, t)
           k == Len(c.tree[n].res[t].units)
           s == Strays(c, n, t)
<1>1. d = [c EXCEPT !.tree[n].res[t] = NoRes, !.free[t] = @ + k, !.stray = @ \cup s]
  BY DEF Detach
<1> HIDE DEF d, k, s
<1>2. /\ d.tree = [c.tree EXCEPT ![n].res[t] = NoRes] /\ d.locks = c.locks /\ d.ops = c.ops
      /\ d.fault = c.fault /\ Record(d)
  BY <1>1 DEF Record
<1>3. Writes(c, d, n, t, NoRes)
  BY <1>2, NothingIsResource, TreeWrite
<1> QED
  BY <1>2, <1>3 DEF d

(* The units that a reservation holds. *)
Reserved(k) == [state |-> "pending", units |-> [i \in 1..k |-> <<>>], refs |-> 0]

(* A reservation is a resource. *)
LEMMA ReservedIsResource ==
  ASSUME NEW k \in Nat
  PROVE  Reserved(k) \in Resource /\ Len(Reserved(k).units) = k /\ Reserved(k).state = "pending"
<1> DEFINE u == [i \in 1..k |-> <<>>]
<1>1. u \in Seq(Content) /\ Len(u) = k
  <2>1. <<>> \in Content
    BY DEF Content
  <2> QED
    BY <2>1
<1> HIDE DEF u
<1>2. Reserved(k) = [state |-> "pending", units |-> u, refs |-> 0]
  BY DEF Reserved, u
<1> QED
  BY <1>1, <1>2 DEF Resource

(* Reserve. *)
LEMMA ReserveWrites ==
  ASSUME NEW c, Formed(c), NEW n \in Live(c), NEW src \in Tier, NEW dst \in Tier, NEW promote
  PROVE  LET d == Reserve(c, n, src, dst, promote)
             u == Res(c, n, src).units
         IN /\ Writes(c, d, n, dst, Reserved(Len(u)))
            /\ d.ops = c.ops \cup {[node |-> n, src |-> src, dst |-> dst, promote |-> promote, data |-> u]}
            /\ d.fault = IF InUse(Res(c, n, dst)) THEN "overwrite" ELSE c.fault
<1> DEFINE d == Reserve(c, n, src, dst, promote)
           e == Detach(c, n, dst)
           u == Res(c, n, src).units
           o == [node |-> n, src |-> src, dst |-> dst, promote |-> promote, data |-> u]
           r == [state |-> "pending", units |-> [i \in DOMAIN u |-> <<>>], refs |-> 0]
           s == HandedOut(c.stray, dst) \cup Strays(c, n, dst)
<1>1. /\ Record(c) /\ \A m \in Live(c) : c.tree[m] \in TreeNode
  BY DEF Formed
<1>2. Writes(c, e, n, dst, NoRes) /\ e.ops = c.ops /\ e.fault = c.fault
  BY <1>1, DetachWrites
<1>3. Res(c, n, src) \in Resource
  BY NodeParts
<1>4. Len(u) \in Nat /\ DOMAIN u = 1..Len(u)
  BY <1>3, ResourceParts
<1>5. r = Reserved(Len(u))
  BY <1>4 DEF Reserved
<1>6. r \in Resource
  BY <1>4, <1>5, ReservedIsResource
<1>7. Record(e) /\ Live(e) = Live(c) /\ \A m \in Live(e) : e.tree[m] \in TreeNode
  BY <1>2 DEF Writes
<1> HIDE DEF e
<1>8. d = [e EXCEPT !.free[dst] = @ - Len(u),
                    !.stray = s,
                    !.tree[n].res[dst] = r,
                    !.ops   = @ \cup {o},
                    !.fault = IF InUse(Res(c, n, dst)) THEN "overwrite" ELSE @]
  BY DEF Reserve, Res, e
<1> HIDE DEF r, u, o, d, s
<1>9. /\ d.tree = [e.tree EXCEPT ![n].res[dst] = r] /\ d.locks = e.locks
      /\ d.ops = e.ops \cup {o} /\ Record(d)
      /\ d.fault = IF InUse(Res(c, n, dst)) THEN "overwrite" ELSE e.fault
  BY <1>7, <1>8 DEF Record
<1>10. Writes(e, d, n, dst, r)
  BY <1>6, <1>7, <1>9, TreeWrite
<1>11. Writes(c, d, n, dst, r)
  BY <1>2, <1>10, WriteTwice
<1> QED
  BY <1>2, <1>5, <1>9, <1>11 DEF d, u, o

(* What a write keeps, if the resource is right for its node. *)
LEMMA WriteFormed ==
  ASSUME NEW c, NEW d, NEW n, NEW t, NEW r, Formed(c), Writes(c, d, n, t, r),
         \A o \in d.ops : o \in PendingOp /\ o.src # o.dst, IsFiniteSet(d.ops)
  PROVE  Formed(d)
<1>1. {r1 \in Pin : d.locks[r1] # None} = {r1 \in Pin : c.locks[r1] # None}
  BY DEF Writes
<1> QED
  BY <1>1 DEF Writes, Formed

(* Writing a resource does not change the shape of the tree. *)
LEMMA WriteRadix ==
  ASSUME NEW c, NEW d, NEW n, NEW t, NEW r, Writes(c, d, n, t, r), Radix(c)
  PROVE  Radix(d)
<1>1. Live(d) = Live(c) /\ \A m \in Live(c) : From(d, m) = From(c, m)
  BY DEF Writes
<1>2. \A m \in Live(c), p \in Query : Covers(d, m, p) <=> Covers(c, m, p)
  BY <1>1 DEF Covers
<1> QED
  BY <1>1, <1>2 DEF Radix

(* A resource that is right for its node keeps the contents right. *)
LEMMA WriteFilled ==
  ASSUME NEW c, NEW d, NEW n, NEW t, NEW r, Writes(c, d, n, t, r), Filled(c),
         Right(n, From(c, n), r)
  PROVE  Filled(d)
BY DEF Writes, Filled

(* A locked path stays ready if what is written is ready or not locked. *)
LEMMA WritePaths ==
  ASSUME NEW c, NEW d, NEW n, NEW t, NEW r, Formed(c), Writes(c, d, n, t, r), PathsKept(c),
         LocksOn(c, n, t) = {} \/ r.state = "ready"
  PROVE  PathsKept(d)
<1>1. Live(d) = Live(c) /\ d.locks = c.locks /\ \A m \in Live(c) : From(d, m) = From(c, m)
  BY DEF Writes
<1>2. ASSUME NEW r1 \in Pin, c.locks[r1] # None
      PROVE  /\ IsPrefix(c.locks[r1].node, c.locks[r1].path)
             /\ \A p \in Query : IsPrefix(p, c.locks[r1].path) =>
                  \E m \in Live(c) : /\ IsPrefix(m, c.locks[r1].path) /\ Covers(d, m, p)
                                     /\ Res(d, m, c.locks[r1].tier).state = "ready"
  <2>1. IsPrefix(c.locks[r1].node, c.locks[r1].path)
    BY <1>2 DEF PathsKept
  <2>2. ASSUME NEW p \in Query, IsPrefix(p, c.locks[r1].path)
        PROVE  \E m \in Live(c) : /\ IsPrefix(m, c.locks[r1].path) /\ Covers(d, m, p)
                                  /\ Res(d, m, c.locks[r1].tier).state = "ready"
    <3>1. PICK m \in Live(c) : /\ IsPrefix(m, c.locks[r1].path) /\ Covers(c, m, p)
                               /\ Res(c, m, c.locks[r1].tier).state = "ready"
      BY <1>2, <2>2 DEF PathsKept
    <3>2. Covers(d, m, p)
      BY <1>1, <3>1 DEF Covers
    <3>3. c.locks[r1].tier \in Tier
      BY <1>2 DEF Formed, NodeRef
    <3>4. CASE m = n /\ c.locks[r1].tier = t
      <4>1. r1 \in LocksOn(c, n, t)
        BY <1>2, <3>1, <3>4 DEF LocksOn
      <4>2. Res(d, m, c.locks[r1].tier) = r
        BY <3>3, <3>4 DEF Writes
      <4> QED
        BY <3>1, <3>2, <4>1, <4>2
    <3>5. CASE ~(m = n /\ c.locks[r1].tier = t)
      <4>1. Res(d, m, c.locks[r1].tier) = Res(c, m, c.locks[r1].tier)
        BY <3>3, <3>5 DEF Writes
      <4> QED
        BY <3>1, <3>2, <4>1
    <3> QED
      BY <3>4, <3>5
  <2> QED
    BY <2>1, <2>2
<1> QED
  BY <1>1, <1>2 DEF PathsKept

(* The locks stay counted if what is written counts those of its node. *)
LEMMA WriteCounted ==
  ASSUME NEW c, NEW d, NEW n, NEW t, NEW r, Writes(c, d, n, t, r), LocksCounted(c),
         Cardinality(LocksOn(c, n, t)) <= r.refs
  PROVE  LocksCounted(d)
<1>1. Live(d) = Live(c)
  BY DEF Writes
<1>2. \A m, u : LocksOn(d, m, u) = LocksOn(c, m, u)
  BY DEF Writes, LocksOn
<1>3. ASSUME NEW m \in Live(c), NEW u \in Tier
      PROVE  Cardinality(LocksOn(c, m, u)) <= Res(d, m, u).refs
  <2>1. Res(d, m, u) = IF m = n /\ u = t THEN r ELSE Res(c, m, u)
    BY DEF Writes
  <2> QED
    BY <2>1 DEF LocksCounted
<1> QED
  BY <1>1, <1>2, <1>3 DEF LocksCounted

(* A node that is not written to is no bare leaf if it was none. *)
LEMMA WriteLeaves ==
  ASSUME NEW c, NEW d, NEW n, NEW t, NEW r, Writes(c, d, n, t, r), NEW m \in Live(c),
         Carried(c, m), m # n
  PROVE  Carried(d, m)
<1>1. \A u \in Tier : Has(d, m, u) <=> Has(c, m, u)
  BY DEF Writes, Has, Res
<1> QED
  BY <1>1 DEF Carried, Writes

(* A transfer keeps a reservation that is not written to. *)
LEMMA WriteOp ==
  ASSUME NEW c, NEW d, NEW n, NEW t, NEW r, Writes(c, d, n, t, r), NEW o, OpKept(c, o),
         o.dst \in Tier, o.node # n \/ o.dst # t
  PROVE  OpKept(d, o)
BY DEF Writes, OpKept

-----------------------------------------------------------------------------
(* prune_empty().                                                          *)

(* d is c without bare nodes on the path of n. *)
Prunes(c, d, n) ==
  /\ Record(d) /\ d.ops = c.ops /\ d.locks = c.locks /\ d.fault = c.fault
  /\ Live(d) \subseteq Live(c) /\ \A m \in Live(d) : d.tree[m] = c.tree[m]
  /\ \A m \in Live(c) \ Live(d) :
       /\ IsPrefix(m, n) /\ Bare(c, m)
       /\ \A x \in Live(d) : IsPrefix(m, x) => x = m
  /\ \A m \in Live(d) :
       IsPrefix(m, n) /\ Bare(c, m) => \E x \in Live(d) : IsPrefix(m, x) /\ x # m

(* The loop of prune_empty() removes the bare nodes below which all is gone. *)
LEMMA PruneIs ==
  ASSUME NEW c, Formed(c), NEW n
  PROVE  Prunes(c, Prune(c, n), n)
<1> DEFINE d == Prune(c, n)
           up == Chain(c, n)
           gone == {m \in up : \A x \in Below(c, m) \cup {m} : x \in up /\ Bare(c, x)}
           tr == [m \in Live(c) \ gone |-> c.tree[m]]
<1>1. d = [c EXCEPT !.tree = tr]
  BY DEF Prune
<1>2. Live(d) = Live(c) \ gone /\ \A m \in Live(d) : d.tree[m] = c.tree[m]
  <2>1. d.tree = tr
    BY <1>1 DEF Formed, Record
  <2> QED
    BY <2>1 DEF Live
<1>3. Record(d) /\ d.ops = c.ops /\ d.locks = c.locks /\ d.fault = c.fault
  <2> HIDE DEF tr, d
  <2> QED
    BY <1>1 DEF Formed, Record
<1> HIDE DEF d, tr
<1>4. \A m \in Live(c) : m \in up <=> IsPrefix(m, n)
  BY DEF Chain
<1>5. \A m, x \in Live(c) : x \in Below(c, m) <=> IsPrefix(m, x) /\ x # m
  BY DEF Below, IsStrictPrefix
<1>6. \A m : Below(c, m) \subseteq Live(c)
  BY DEF Below
<1>7. gone \subseteq Live(c) /\ up \subseteq Live(c)
  BY DEF Chain
<1> HIDE DEF up
<1>8. ASSUME NEW m \in Live(c) \ Live(d)
      PROVE  /\ IsPrefix(m, n) /\ Bare(c, m)
             /\ \A x \in Live(d) : IsPrefix(m, x) => x = m
  <2>1. m \in gone
    BY <1>2
  <2>2. IsPrefix(m, n) /\ Bare(c, m)
    BY <1>4, <2>1
  <2>3. ASSUME NEW x \in Live(d), IsPrefix(m, x), x # m
        PROVE  FALSE
    <3>1. x \in Live(c) /\ x \notin gone
      BY <1>2
    <3>2. x \in Below(c, m)
      BY <1>5, <2>1, <2>3, <3>1
    <3>3. x \in up
      BY <2>1, <3>2
    <3>4. ASSUME NEW y \in Below(c, x) PROVE y \in Below(c, m)
      <4>1. y \in Live(c) /\ IsPrefix(x, y) /\ y # x
        BY <1>5, <1>6, <3>1
      <4>2. m \in Query /\ x \in Query /\ y \in Query
        BY <3>1, <4>1 DEF Formed
      <4>3. IsPrefix(m, y)
        BY <2>3, <4>1, <4>2, PrefixOrder
      <4>4. y # m
        BY <2>3, <4>1, <4>2, PrefixOrder
      <4> QED
        BY <1>5, <4>1, <4>3, <4>4
    <3>5. \A y \in Below(c, x) \cup {x} : y \in up /\ Bare(c, y)
      BY <2>1, <3>2, <3>4
    <3> QED
      BY <3>1, <3>3, <3>5
  <2> QED
    BY <2>2, <2>3
<1>9. ASSUME NEW m \in Live(d), IsPrefix(m, n), Bare(c, m)
      PROVE  \E x \in Live(d) : IsPrefix(m, x) /\ x # m
  <2>1. m \in Live(c) /\ m \in up /\ m \notin gone
    BY <1>2, <1>4, <1>9
  <2>2. PICK x \in Below(c, m) \cup {m} : ~(x \in up /\ Bare(c, x))
    BY <2>1
  <2>3. x \in Below(c, m) /\ x \in Live(c)
    BY <1>6, <1>9, <2>1, <2>2
  <2>4. x \notin gone
    BY <2>2
  <2> QED
    BY <1>2, <1>5, <2>1, <2>3, <2>4
<1>10. Live(d) \subseteq Live(c)
  BY <1>2
<1> QED
  BY <1>2, <1>3, <1>8, <1>9, <1>10 DEF Prunes, d

(* A node without resources is bare. *)
LEMMA BareIsEmpty ==
  ASSUME NEW c, Formed(c), Filled(c), NEW n \in Live(c)
  PROVE  Bare(c, n) <=> \A t \in Tier : ~Has(c, n, t)
<1>1. c.tree[n].res \in [Tier -> Resource]
  BY DEF Formed, TreeNode
<1>2. \A t \in Tier : ~Has(c, n, t) => c.tree[n].res[t] = NoRes
  BY DEF Filled, Right, Has, Res
<1>3. ASSUME NEW t \in Tier, Bare(c, n) PROVE ~Has(c, n, t)
  BY <1>3 DEF Bare, Empty, Has, NoRes
<1>4. ASSUME \A t \in Tier : ~Has(c, n, t) PROVE Bare(c, n)
  <2>1. \A t \in Tier : c.tree[n].res[t] = NoRes
    BY <1>2, <1>4
  <2> QED
    BY <1>1, <2>1 DEF Bare, Empty
<1> QED
  BY <1>3, <1>4

(* Pruning restores the invariant where n alone may be a bare leaf. *)
LEMMA PruneKeeps ==
  ASSUME NEW c, NEW d, NEW n \in Query, Prunes(c, d, n), Formed(c), Radix(c), Filled(c),
         OpsKept(c), PathsKept(c), LocksCounted(c),
         \A m \in Live(c) : m # n => Carried(c, m)
  PROVE  CacheInv(d)
<1>1. /\ Record(d) /\ d.ops = c.ops /\ d.locks = c.locks
      /\ Live(d) \subseteq Live(c) /\ \A m \in Live(d) : d.tree[m] = c.tree[m]
  BY DEF Prunes
<1>2. /\ \A m \in Live(d) : From(d, m) = From(c, m)
      /\ \A m \in Live(d) : \A t : Res(d, m, t) = Res(c, m, t) /\ (Has(d, m, t) <=> Has(c, m, t))
      /\ \A m \in Live(d) : \A p : Covers(d, m, p) <=> Covers(c, m, p)
  BY <1>1 DEF From, Res, Has, Covers
<1>3. ASSUME NEW m \in Live(c), NEW t \in Tier, Res(c, m, t).state # "none"
      PROVE  m \in Live(d)
  <2>1. ~Bare(c, m)
    BY <1>3, BareIsEmpty DEF Has, Res
  <2> QED
    BY <2>1 DEF Prunes
<1>4. Formed(d)
  <2>1. IsFiniteSet(Live(d))
    BY <1>1, FS_Subset DEF Formed
  <2> QED
    BY <1>1, <2>1 DEF Formed
<1>5. Radix(d)
  <2>1. ASSUME NEW m \in Live(d), From(c, m) > 0 PROVE Pre(m, From(c, m)) \in Live(d)
    <3> DEFINE p == Pre(m, From(c, m))
    <3>1. m \in Live(c) /\ m \in Query /\ From(c, m) \in Nat /\ Len(m) \in Nat
      BY <1>1, NodeParts, PrefixOrder
    <3>2. p \in Live(c) /\ From(c, m) < Len(m)
      BY <2>1, <3>1 DEF Radix
    <3>3. IsPrefix(p, m) /\ Len(p) = From(c, m)
      BY <2>1, <3>1, <3>2, PreIsPrefix
    <3> HIDE DEF p
    <3>4. p # m
      BY <3>1, <3>2, <3>3
    <3>5. p \in Live(d)
      BY <3>2, <3>3, <3>4 DEF Prunes
    <3> QED
      BY <3>5 DEF p
  <2> QED
    BY <1>1, <1>2, <2>1 DEF Radix
<1>6. Filled(d)
  BY <1>1, <1>2 DEF Filled
<1>7. NoBareLeaf(d)
  <2>1. SUFFICES ASSUME NEW m \in Live(d), ~Carried(d, m) PROVE FALSE
    BY DEF NoBareLeaf
  <2>2. /\ ~\E x \in Live(d) : IsPrefix(m, x) /\ x # m
        /\ \A t \in Tier : ~Has(c, m, t)
    BY <1>2, <2>1 DEF Carried
  <2>3. m \in Live(c) /\ m \in Query
    BY <1>1, NodeParts
  <2>4. Bare(c, m)
    BY <2>2, <2>3, BareIsEmpty
  <2>5. IsPrefix(m, n)
    <3>1. CASE m = n
      BY <3>1, PrefixOrder
    <3>2. CASE m # n
      <4>1. PICK x \in Live(c) : IsPrefix(m, x) /\ x # m
        BY <2>2, <2>3, <3>2 DEF Carried
      <4>2. x \in Query /\ IsPrefix(x, n)
        BY <2>2, <4>1, NodeParts DEF Prunes
      <4> QED
        BY <2>3, <4>1, <4>2, PrefixOrder
    <3> QED
      BY <3>1, <3>2
  <2> QED
    BY <2>2, <2>4, <2>5 DEF Prunes
<1>8. OpsKept(d)
  <2>1. ASSUME NEW o \in c.ops PROVE OpKept(d, o)
    <3>1. OpKept(c, o) /\ o.dst \in Tier
      BY DEF OpsKept, Formed, PendingOp
    <3>2. o.node \in Live(d)
      BY <1>3, <3>1 DEF OpKept
    <3> QED
      BY <1>2, <3>1, <3>2 DEF OpKept
  <2> QED
    BY <1>1, <2>1 DEF OpsKept
<1>9. PathsKept(d)
  <2>1. ASSUME NEW r \in Pin, c.locks[r] # None, NEW p \in Query, IsPrefix(p, c.locks[r].path)
        PROVE  \E m \in Live(d) : /\ IsPrefix(m, c.locks[r].path) /\ Covers(d, m, p)
                                  /\ Res(d, m, c.locks[r].tier).state = "ready"
    <3>1. PICK m \in Live(c) : /\ IsPrefix(m, c.locks[r].path) /\ Covers(c, m, p)
                               /\ Res(c, m, c.locks[r].tier).state = "ready"
      BY <2>1 DEF PathsKept
    <3>2. c.locks[r].tier \in Tier
      BY <2>1 DEF Formed, NodeRef
    <3>3. m \in Live(d)
      BY <1>3, <3>1, <3>2
    <3> QED
      BY <1>2, <3>1, <3>3
  <2> QED
    BY <1>1, <2>1 DEF PathsKept
<1>10. LocksCounted(d)
  <2>1. \A m, t : LocksOn(d, m, t) = LocksOn(c, m, t)
    BY <1>1 DEF LocksOn
  <2> QED
    BY <1>1, <1>2, <2>1 DEF LocksCounted
<1> QED
  BY <1>4, <1>5, <1>6, <1>7, <1>8, <1>9, <1>10 DEF CacheInv

(* A right resource for n in tier t that replaces one nobody holds. *)
LEMMA WriteKeeps ==
  ASSUME NEW c, NEW d, NEW n \in Live(c), NEW t \in Tier, NEW r \in Resource,
         CacheInv(c), Writes(c, d, n, t, r), Right(n, From(c, n), r),
         LocksOn(c, n, t) = {} \/ (r.state = "ready" /\ r.refs = Res(c, n, t).refs),
         \A o \in d.ops : o \in PendingOp /\ o.src # o.dst, IsFiniteSet(d.ops)
  PROVE  /\ Formed(d) /\ Radix(d) /\ Filled(d) /\ PathsKept(d) /\ LocksCounted(d)
         /\ \A m \in Live(d) : m # n \/ r.state # "none" => Carried(d, m)
         /\ \A o : OpKept(c, o) /\ o.dst \in Tier /\ (o.node # n \/ o.dst # t) => OpKept(d, o)
<1>1. /\ Formed(c) /\ Radix(c) /\ Filled(c) /\ NoBareLeaf(c) /\ PathsKept(c) /\ LocksCounted(c)
  BY DEF CacheInv
<1>2. Formed(d) /\ Radix(d) /\ Filled(d) /\ PathsKept(d)
  BY <1>1, WriteFormed, WriteRadix, WriteFilled, WritePaths
<1>3. LocksCounted(d)
  <2>1. Cardinality(LocksOn(c, n, t)) <= r.refs
    <3>1. CASE LocksOn(c, n, t) = {}
      <4>1. Cardinality(LocksOn(c, n, t)) = 0
        BY <3>1, FS_EmptySet
      <4> QED
        BY <4>1, ResourceParts
    <3>2. CASE r.refs = Res(c, n, t).refs
      BY <1>1, <3>2 DEF LocksCounted
    <3> QED
      BY <3>1, <3>2
  <2> QED
    BY <1>1, <2>1, WriteCounted
<1>4. ASSUME NEW m \in Live(d), m # n \/ r.state # "none" PROVE Carried(d, m)
  <2>1. m \in Live(c) /\ Carried(c, m)
    BY <1>1 DEF Writes, NoBareLeaf
  <2>2. CASE m # n
    BY <2>1, <2>2, WriteLeaves
  <2>3. CASE m = n /\ r.state # "none"
    <3>1. Has(d, m, t)
      BY <2>1, <2>3 DEF Writes, Has, Res
    <3> QED
      BY <3>1 DEF Carried
  <2> QED
    BY <1>4, <2>2, <2>3
<1>5. ASSUME NEW o, OpKept(c, o), o.dst \in Tier, o.node # n \/ o.dst # t PROVE OpKept(d, o)
  BY <1>5, WriteOp
<1> QED
  BY <1>2, <1>3, <1>4, <1>5

-----------------------------------------------------------------------------
(* Eviction and transfers.                                                 *)

(* The resources of all nodes but n are those of c. *)
Spares(c, d, n) ==
  \A m \in Live(c), t \in Tier :
    m # n /\ Res(c, m, t).state # "none" => m \in Live(d) /\ Res(d, m, t) = Res(c, m, t)

(* No resource is right for every node. *)
LEMMA NothingIsRight ==
  ASSUME NEW n, NEW k
  PROVE  Right(n, k, NoRes)
BY DEF Right, NoRes

(* To drop what nobody holds, and prune.  b is c when the transfer that    *)
(* has failed is forgotten.                                                *)
LEMMA DropKeeps ==
  ASSUME NEW c, NEW b, CacheInv(c), Record(b), b.tree = c.tree, b.locks = c.locks,
         b.ops \subseteq c.ops, NEW n \in Live(c), NEW t \in Tier, LocksOn(c, n, t) = {},
         \A o \in b.ops : o.node # n \/ o.dst # t
  PROVE  LET e == Prune(Detach(b, n, t), n) IN
         CacheInv(e) /\ e.fault = b.fault /\ e.ops = b.ops /\ Spares(c, e, n)
<1> DEFINE d == Detach(b, n, t)
           e == Prune(d, n)
<1>1. Formed(c) /\ OpsKept(c) /\ Filled(c)
  BY DEF CacheInv
<1>2. Live(b) = Live(c) /\ \A m \in Live(b) : b.tree[m] \in TreeNode
  BY <1>1 DEF Live, Formed
<1>3. Writes(b, d, n, t, NoRes) /\ d.ops = b.ops /\ d.fault = b.fault
  BY <1>2, DetachWrites
<1> HIDE DEF d
<1>4. Writes(c, d, n, t, NoRes)
  BY <1>3 DEF Writes, Live, From, Res
<1>5. /\ \A o \in d.ops : o \in PendingOp /\ o.src # o.dst
      /\ IsFiniteSet(d.ops)
  BY <1>1, <1>3, FS_Subset DEF Formed
<1>6. Right(n, From(c, n), NoRes) /\ NoRes \in Resource
  BY NothingIsRight, NothingIsResource
<1>7. /\ Formed(d) /\ Radix(d) /\ Filled(d) /\ PathsKept(d) /\ LocksCounted(d)
      /\ \A m \in Live(d) : m # n => Carried(d, m)
      /\ \A o : OpKept(c, o) /\ o.dst \in Tier /\ (o.node # n \/ o.dst # t) => OpKept(d, o)
  BY <1>4, <1>5, <1>6, WriteKeeps
<1>8. OpsKept(d)
  BY <1>1, <1>3, <1>7 DEF OpsKept, Formed, PendingOp
<1>9. Prunes(d, e, n)
  BY <1>7, PruneIs
<1>10. n \in Query
  BY <1>1, NodeParts
<1> HIDE DEF e
<1>11. CacheInv(e)
  BY <1>7, <1>8, <1>9, <1>10, PruneKeeps
<1>12. Spares(c, e, n)
  <2>1. ASSUME NEW m \in Live(c), NEW u \in Tier, m # n, Res(c, m, u).state # "none"
        PROVE  m \in Live(e) /\ Res(e, m, u) = Res(c, m, u)
    <3>1. m \in Live(d) /\ Res(d, m, u) = Res(c, m, u)
      BY <1>4, <2>1 DEF Writes
    <3>2. ~Bare(d, m)
      BY <1>7, <2>1, <3>1, BareIsEmpty DEF Has, Res
    <3>3. m \in Live(e) /\ e.tree[m] = d.tree[m]
      BY <1>9, <3>1, <3>2 DEF Prunes
    <3> QED
      BY <3>1, <3>3 DEF Res
  <2> QED
    BY <2>1 DEF Spares
<1>13. e.fault = b.fault /\ e.ops = b.ops
  BY <1>3, <1>9 DEF Prunes
<1> QED
  BY <1>11, <1>12, <1>13 DEF e, d

(* A transfer is under way only to a reservation. *)
LEMMA NoOpOn ==
  ASSUME NEW c, OpsKept(c), NEW n, NEW t, Res(c, n, t).state # "pending"
  PROVE  \A o \in c.ops : o.node # n \/ o.dst # t
BY DEF OpsKept, OpKept

(* To drop a resource of a node that has another one. *)
LEMMA DetachKeeps ==
  ASSUME NEW c, CacheInv(c), NEW n \in Live(c), NEW t \in Tier, NEW u \in Tier, u # t, Has(c, n, u),
         ~InUse(Res(c, n, t))
  PROVE  LET d == Detach(c, n, t) IN
         CacheInv(d) /\ d.fault = c.fault /\ d.ops = c.ops /\ Spares(c, d, n)
<1> DEFINE d == Detach(c, n, t)
<1>1. /\ Formed(c) /\ OpsKept(c) /\ Radix(c) /\ PathsKept(c) /\ LocksCounted(c)
  BY DEF CacheInv
<1>2. Record(c) /\ \A m \in Live(c) : c.tree[m] \in TreeNode
  BY <1>1 DEF Formed
<1>3. Writes(c, d, n, t, NoRes) /\ d.ops = c.ops /\ d.fault = c.fault
  BY <1>2, DetachWrites
<1> HIDE DEF d
<1>4. Res(c, n, t).refs = 0 /\ Res(c, n, t).state # "pending"
  <2>1. Res(c, n, t) \in Resource
    BY <1>1, NodeParts
  <2> QED
    BY <2>1, ResourceParts DEF InUse
<1>5. LocksOn(c, n, t) = {}
  BY <1>1, <1>4, Unlocked
<1>6. Right(n, From(c, n), NoRes) /\ NoRes \in Resource
  BY NothingIsRight, NothingIsResource
<1>7. /\ \A o \in d.ops : o \in PendingOp /\ o.src # o.dst
      /\ IsFiniteSet(d.ops)
  BY <1>1, <1>3 DEF Formed
<1>8. /\ Formed(d) /\ Radix(d) /\ Filled(d) /\ PathsKept(d) /\ LocksCounted(d)
      /\ \A m \in Live(d) : m # n => Carried(d, m)
      /\ \A o : OpKept(c, o) /\ o.dst \in Tier /\ (o.node # n \/ o.dst # t) => OpKept(d, o)
  BY <1>3, <1>5, <1>6, <1>7, WriteKeeps
<1>9. Carried(d, n)
  <2>1. Has(d, n, u)
    BY <1>3 DEF Writes, Has, Res
  <2> QED
    BY <2>1 DEF Carried
<1>10. OpsKept(d)
  BY <1>1, <1>3, <1>4, <1>8, NoOpOn DEF OpsKept, Formed, PendingOp
<1>11. CacheInv(d)
  BY <1>8, <1>9, <1>10 DEF CacheInv, NoBareLeaf
<1>12. Spares(c, d, n)
  BY <1>3 DEF Spares, Writes
<1> QED
  BY <1>3, <1>11, <1>12 DEF d

(* To start a transfer of what is ready to a place that nobody holds. *)
LEMMA ReserveKeeps ==
  ASSUME NEW c, CacheInv(c), NEW n \in Live(c), NEW src \in Tier, NEW dst \in Tier, src # dst,
         NEW promote \in BOOLEAN, Res(c, n, src).state = "ready", ~InUse(Res(c, n, dst))
  PROVE  LET d == Reserve(c, n, src, dst, promote) IN
         /\ CacheInv(d) /\ d.fault = c.fault /\ Spares(c, d, n) /\ Live(d) = Live(c)
         /\ Res(d, n, src) = Res(c, n, src) /\ Has(d, n, dst)
<1> DEFINE d == Reserve(c, n, src, dst, promote)
           u == Res(c, n, src).units
           r == Reserved(Len(u))
           o == [node |-> n, src |-> src, dst |-> dst, promote |-> promote, data |-> u]
<1>1. /\ Formed(c) /\ OpsKept(c) /\ Radix(c) /\ Filled(c) /\ PathsKept(c) /\ LocksCounted(c)
  BY DEF CacheInv
<1>2. Writes(c, d, n, dst, r) /\ d.ops = c.ops \cup {o} /\ d.fault = c.fault
  BY <1>1, ReserveWrites
<1>3. /\ Res(c, n, dst) \in Resource /\ Res(c, n, src) \in Resource
      /\ n \in Query /\ From(c, n) \in Nat /\ Len(n) \in Nat
  BY <1>1, NodeParts, PrefixOrder
<1>4. Res(c, n, dst).refs = 0 /\ Res(c, n, dst).state # "pending"
  BY <1>3, ResourceParts DEF InUse
<1>5. LocksOn(c, n, dst) = {}
  BY <1>1, <1>4, Unlocked
<1>6. Len(u) \in Nat /\ u \in Seq(Content)
  BY <1>3, ResourceParts
<1>7. Len(u) = Len(n) - From(c, n) /\ \A i \in 1..(Len(n) - From(c, n)) :
        u[i] \in {Pre(n, From(c, n) + i), Lost}
  BY <1>1 DEF Filled, Right
<1>8. r \in Resource /\ Len(r.units) = Len(u) /\ r.state = "pending"
  BY <1>6, ReservedIsResource
<1>9. Right(n, From(c, n), r)
  BY <1>7, <1>8 DEF Right
<1>10. o \in PendingOp /\ o.node = n /\ o.dst = dst /\ o.src = src /\ o.data = u
  BY <1>3, <1>6 DEF PendingOp
<1> HIDE DEF r, o, u, d
<1>11. /\ \A p \in d.ops : p \in PendingOp /\ p.src # p.dst
       /\ IsFiniteSet(d.ops)
  <2>1. IsFiniteSet(d.ops)
    BY <1>1, <1>2, FS_AddElement DEF Formed
  <2> QED
    BY <1>1, <1>2, <1>10, <2>1 DEF Formed
<1>12. /\ Formed(d) /\ Radix(d) /\ Filled(d) /\ PathsKept(d) /\ LocksCounted(d)
       /\ \A m \in Live(d) : Carried(d, m)
       /\ \A p : OpKept(c, p) /\ p.dst \in Tier /\ (p.node # n \/ p.dst # dst) => OpKept(d, p)
  <2>1. /\ Formed(d) /\ Radix(d) /\ Filled(d) /\ PathsKept(d) /\ LocksCounted(d)
        /\ \A m \in Live(d) : m # n \/ r.state # "none" => Carried(d, m)
        /\ \A p : OpKept(c, p) /\ p.dst \in Tier /\ (p.node # n \/ p.dst # dst) => OpKept(d, p)
    <3>1. r \in Resource
      BY <1>8
    <3>2. Writes(c, d, n, dst, r)
      BY <1>2
    <3>3. LocksOn(c, n, dst) = {} \/ (r.state = "ready" /\ r.refs = Res(c, n, dst).refs)
      BY <1>5
    <3> QED
      BY <1>9, <1>11, <3>1, <3>2, <3>3, WriteKeeps
  <2>2. r.state # "none"
    BY <1>8
  <2> QED
    BY <2>1, <2>2
<1>13. \A p \in c.ops : p.node # n \/ p.dst # dst
  BY <1>1, <1>4, NoOpOn
<1>14. OpKept(d, o)
  <2>1. Live(d) = Live(c) /\ From(d, n) = From(c, n) /\ Res(d, n, dst) = r
    BY <1>2 DEF Writes
  <2> QED
    BY <1>6, <1>7, <1>8, <1>10, <2>1 DEF OpKept
<1>15. OpsKept(d)
  BY <1>1, <1>2, <1>10, <1>12, <1>13, <1>14 DEF OpsKept, Formed, PendingOp
<1>16. CacheInv(d)
  BY <1>12, <1>15 DEF CacheInv, NoBareLeaf
<1>17. /\ Spares(c, d, n) /\ Live(d) = Live(c) /\ Res(d, n, src) = Res(c, n, src)
       /\ Res(d, n, dst) = r
  BY <1>2 DEF Spares, Writes
<1> QED
  BY <1>2, <1>8, <1>16, <1>17 DEF d, Has, Res

(* A fault stays. *)
LEMMA FaultStays ==
  ASSUME NEW c, Record(c), NEW n, NEW t, NEW to
  PROVE  LET d == Detach(c, n, t)
             e == Evict(c, n, t, to)
         IN /\ Record(d) /\ d.fault = c.fault
            /\ Record(e) /\ (c.fault # "none" => e.fault # "none")
<1>1. ASSUME NEW b, Record(b), NEW u
      PROVE  Record(Detach(b, n, u)) /\ Detach(b, n, u).fault = b.fault
  <2> DEFINE x == Len(b.tree[n].res[u].units)
             s == Strays(b, n, u)
             d == Detach(b, n, u)
  <2>1. d = [b EXCEPT !.tree[n].res[u] = NoRes, !.free[u] = @ + x, !.stray = @ \cup s]
    BY DEF Detach
  <2> HIDE DEF x, d, s
  <2>2. Record(d) /\ d.fault = b.fault
    BY <1>1, <2>1 DEF Record
  <2> QED
    BY <2>2 DEF d
<1>2. ASSUME NEW b, Record(b)
      PROVE  Record(Prune(b, n)) /\ Prune(b, n).fault = b.fault
  <2> DEFINE d == Prune(b, n)
  <2>1. \E x : d = [b EXCEPT !.tree = x]
    BY DEF Prune
  <2> HIDE DEF d
  <2>2. Record(d) /\ d.fault = b.fault
    BY <1>2, <2>1 DEF Record
  <2> QED
    BY <2>2 DEF d
<1>3. LET d == Reserve(c, n, t, to, FALSE) IN
      Record(d) /\ (d.fault = c.fault \/ d.fault = "overwrite")
  <2> DEFINE d == Reserve(c, n, t, to, FALSE)
             b == Detach(c, n, to)
  <2>1. Record(b) /\ b.fault = c.fault
    BY <1>1
  <2> HIDE DEF b
  <2>2. \E k, s, r, o, h : d = [b EXCEPT !.free[to] = @ - k, !.stray = s, !.tree[n].res[to] = r,
                                      !.ops = @ \cup {o}, !.fault = IF h THEN "overwrite" ELSE @]
    BY DEF Reserve, b
  <2> HIDE DEF d
  <2>3. Record(d) /\ (d.fault = b.fault \/ d.fault = "overwrite")
    BY <2>1, <2>2 DEF Record
  <2> QED
    BY <2>1, <2>3 DEF d
<1>4. Record(Detach(c, n, t)) /\ Detach(c, n, t).fault = c.fault
  BY <1>1
<1>5. LET d == Detach(Reserve(c, n, t, to, FALSE), n, t) IN
      Record(d) /\ (d.fault = c.fault \/ d.fault = "overwrite")
  BY <1>1, <1>3
<1>6. LET d == Prune(Detach(c, n, t), n) IN Record(d) /\ d.fault = c.fault
  BY <1>2, <1>4
<1> QED
  BY <1>4, <1>5, <1>6 DEF Evict

(* evict_node_resource() of a candidate. *)
LEMMA EvictKeeps ==
  ASSUME NEW c, CacheInv(c), NEW n \in Live(c), NEW t \in Tier, Res(c, n, t).state = "ready",
         Res(c, n, t).refs = 0, NEW to \in Tier \cup {None}, to # t, c.fault = "none"
  PROVE  LET e == Evict(c, n, t, to) IN
         /\ e.fault = c.fault => CacheInv(e) /\ Spares(c, e, n)
         /\ to = None => e.fault = c.fault
         /\ e.fault = c.fault \/ e.fault = "overwrite"
<1>1. /\ Formed(c) /\ OpsKept(c) /\ Radix(c) /\ PathsKept(c) /\ LocksCounted(c) /\ Record(c)
  BY DEF CacheInv, Formed
<1>2. CASE to # None /\ CanReserve(c, to, Len(c.tree[n].res[t].units))
  <2> DEFINE d == Reserve(c, n, t, to, FALSE)
             e == Detach(d, n, t)
  <2>1. Evict(c, n, t, to) = e
    BY <1>2 DEF Evict
  <2>2. to \in Tier
    BY <1>2
  <2>3. Writes(c, d, n, to, Reserved(Len(Res(c, n, t).units)))
        /\ d.fault = IF InUse(Res(c, n, to)) THEN "overwrite" ELSE c.fault
    <3>1. \A p : LET x == Reserve(c, n, t, to, p) IN
            /\ Writes(c, x, n, to, Reserved(Len(Res(c, n, t).units)))
            /\ x.fault = IF InUse(Res(c, n, to)) THEN "overwrite" ELSE c.fault
      BY <1>1, <2>2, ReserveWrites
    <3> QED
      BY <3>1, Zenon
  <2>4. Record(d)
    BY <2>3 DEF Writes
  <2>5. e.fault = d.fault
    BY <2>4, FaultStays
  <2>6. CASE InUse(Res(c, n, to))
    BY <1>2, <2>1, <2>3, <2>5, <2>6
  <2>7. CASE ~InUse(Res(c, n, to))
    <3>1. /\ CacheInv(d) /\ d.fault = c.fault /\ Spares(c, d, n) /\ Live(d) = Live(c)
          /\ Res(d, n, t) = Res(c, n, t) /\ Has(d, n, to)
      BY <2>2, <2>7, ReserveKeeps
    <3> HIDE DEF d
    <3>2. ~InUse(Res(d, n, t))
      <4>1. ~InUse(Res(c, n, t))
        BY DEF InUse
      <4> QED
        BY <3>1, <4>1
    <3>3. CacheInv(e) /\ Spares(d, e, n)
      BY <2>2, <3>1, <3>2, DetachKeeps
    <3>4. Spares(c, e, n)
      BY <3>1, <3>3 DEF Spares
    <3> QED
      BY <1>2, <2>1, <2>5, <3>1, <3>3, <3>4
  <2> QED
    BY <2>6, <2>7
<1>3. CASE ~(to # None /\ CanReserve(c, to, Len(c.tree[n].res[t].units)))
  <2>1. Evict(c, n, t, to) = Prune(Detach(c, n, t), n)
    BY <1>3 DEF Evict
  <2>2. LocksOn(c, n, t) = {}
    BY <1>1, Unlocked
  <2>3. \A o \in c.ops : o.node # n \/ o.dst # t
    BY <1>1, NoOpOn
  <2> QED
    BY <1>1, <2>1, <2>2, <2>3, DropKeeps
<1> QED
  BY <1>2, <1>3

(* To forget a transfer changes nothing else. *)
LEMMA ForgetIs ==
  ASSUME NEW c, Record(c), NEW o
  PROVE  LET b == Forget(c, o) IN
         /\ Record(b) /\ b.tree = c.tree /\ b.locks = c.locks /\ b.ops = c.ops \ {o}
         /\ b.fault = c.fault /\ b.free = c.free
<1> DEFINE b == Forget(c, o)
           s == {x \in c.stray : x.node # o.node \/ x.dst # o.dst}
           q == c.ops \ {o}
<1>1. b = [c EXCEPT !.ops = q, !.stray = s]
  BY DEF Forget
<1> HIDE DEF b, s
<1>2. /\ Record(b) /\ b.tree = c.tree /\ b.locks = c.locks /\ b.ops = q
      /\ b.fault = c.fault /\ b.free = c.free
  BY <1>1 DEF Record
<1> QED
  BY <1>2 DEF b

(* complete_op() of a transfer that failed. *)
LEMMA FailKeeps ==
  ASSUME NEW c, CacheInv(c), NEW o \in c.ops
  PROVE  LET e == Complete(c, o, FALSE, FALSE) IN
         CacheInv(e) /\ e.fault = c.fault /\ e.ops = c.ops \ {o}
<1> DEFINE n == o.node
           b == Forget(c, o)
           e == Prune(Detach(b, n, o.dst), n)
<1>1. /\ Formed(c) /\ OpsKept(c) /\ Radix(c) /\ PathsKept(c) /\ LocksCounted(c) /\ Record(c)
  BY DEF CacheInv, Formed
<1>2. Record(b) /\ b.tree = c.tree /\ b.locks = c.locks /\ b.ops = c.ops \ {o} /\ b.fault = c.fault
  BY <1>1, ForgetIs
<1>3. n \in Live(c) /\ o.dst \in Tier /\ Res(c, n, o.dst).state = "pending"
  BY <1>1 DEF OpsKept, OpKept, Formed, PendingOp
<1>4. LocksOn(c, n, o.dst) = {}
  BY <1>1, <1>3, Unlocked
<1>5. \A p \in b.ops : p.node # n \/ p.dst # o.dst
  BY <1>1, <1>2 DEF OpsKept
<1>6. Has(c, n, o.dst)
  BY <1>3 DEF Has, Res
<1>7. Complete(c, o, FALSE, FALSE) = e
  BY <1>6 DEF Complete
<1> HIDE DEF b
<1>8. b.ops \subseteq c.ops
  BY <1>2
<1>9. CacheInv(e) /\ e.fault = b.fault /\ e.ops = b.ops
  BY <1>2, <1>3, <1>4, <1>5, <1>8, DropKeeps
<1> QED
  BY <1>2, <1>7, <1>9

(* What the copy leaves in the reservation r. *)
CopyOf(r, data) == [r EXCEPT !.state = "ready", !.units = SubSeq(data, 1, Len(r.units))]

(* A copy is a resource. *)
LEMMA CopyIsResource ==
  ASSUME NEW r \in Resource, NEW data \in Seq(Content), Len(r.units) <= Len(data)
  PROVE  /\ CopyOf(r, data) \in Resource /\ CopyOf(r, data).state = "ready"
         /\ Len(CopyOf(r, data).units) = Len(r.units) /\ CopyOf(r, data).refs = r.refs
         /\ \A i \in 1..Len(r.units) : CopyOf(r, data).units[i] = data[i]
<1> DEFINE u == SubSeq(data, 1, Len(r.units))
           x == CopyOf(r, data)
<1>1. Len(r.units) \in Nat /\ Len(data) \in Nat /\ r.refs \in Nat
  BY ResourceParts
<1>2. /\ u \in Seq(Content) /\ Len(u) = Len(r.units)
      /\ \A i \in 1..Len(r.units) : u[i] = data[i]
  BY <1>1
<1> HIDE DEF u
<1>3. x = [r EXCEPT !.state = "ready", !.units = u]
  BY DEF CopyOf, u
<1>4. x.state = "ready" /\ x.units = u /\ x.refs = r.refs /\ x \in Resource
  BY <1>1, <1>2, <1>3 DEF Resource
<1> QED
  BY <1>2, <1>4

(* What was copied is what was there, or lost. *)
LEMMA CopiedIs ==
  ASSUME NEW o, o.data \in Seq(Content), NEW late \in BOOLEAN
  PROVE  /\ Copied(o, late) \in Seq(Content) /\ Len(Copied(o, late)) = Len(o.data)
         /\ \A i \in 1..Len(o.data) : Copied(o, late)[i] \in {o.data[i], Lost}
<1>1. CASE ~late
  BY <1>1 DEF Copied
<1>2. CASE late
  <2> DEFINE k == Len(o.data)
             u == [i \in 1..k |-> Lost]
  <2>1. k \in Nat /\ DOMAIN o.data = 1..k
    OBVIOUS
  <2>2. Copied(o, late) = u
    BY <1>2, <2>1 DEF Copied
  <2> HIDE DEF k
  <2>3. Lost \in Content
    BY DEF Content
  <2>4. u \in Seq(Content) /\ Len(u) = k /\ \A i \in 1..k : u[i] = Lost
    BY <2>1, <2>3
  <2> QED
    BY <2>2, <2>4 DEF k
<1> QED
  BY <1>1, <1>2

(* complete_op() of o leaves e: x, from which a demotion drops the source. *)
Completed(c, o, e, x) ==
  /\ CacheInv(x) /\ x.locks = c.locks /\ x.ops = c.ops \ {o} /\ o.node \in Live(x)
  /\ e = IF o.promote THEN x ELSE Detach(x, o.node, o.src)
  /\ Has(x, o.node, o.dst) /\ Res(x, o.node, o.src) = Res(c, o.node, o.src)
  /\ x.fault = IF ~o.promote /\ InUse(Res(c, o.node, o.src)) THEN "unpinned" ELSE "none"

(* complete_op() of a transfer that succeeded: a right cache with the copy, *)
(* from which a demotion drops the source.                                  *)
LEMMA CopyKeeps ==
  ASSUME NEW c, CacheInv(c), c.fault = "none", NEW o \in c.ops, NEW late \in BOOLEAN
  PROVE  \E x : Completed(c, o, Complete(c, o, TRUE, late), x)
<1> DEFINE n == o.node
           b == Forget(c, o)
           u == Copied(o, late)
           r == CopyOf(Res(c, n, o.dst), u)
           bad == ~o.promote /\ InUse(Res(c, n, o.src))
           x == [b EXCEPT
                  !.tree[n].res[o.dst] = r,
                  !.fault = IF bad THEN "unpinned" ELSE @]
           e == Complete(c, o, TRUE, late)
<1>1. /\ Formed(c) /\ OpsKept(c) /\ Radix(c) /\ PathsKept(c) /\ LocksCounted(c) /\ Record(c)
  BY DEF CacheInv, Formed
<1>2. Record(b) /\ b.tree = c.tree /\ b.locks = c.locks /\ b.ops = c.ops \ {o} /\ b.fault = c.fault
  BY <1>1, ForgetIs
<1>3. /\ n \in Live(c) /\ o.dst \in Tier /\ o.src \in Tier /\ o.src # o.dst
      /\ o.promote \in BOOLEAN /\ o.data \in Seq(Content)
      /\ Res(c, n, o.dst).state = "pending" /\ Len(n) - From(c, n) <= Len(o.data)
      /\ \A i \in 1..(Len(n) - From(c, n)) : o.data[i] \in {Pre(n, From(c, n) + i), Lost}
  BY <1>1 DEF OpsKept, OpKept, Formed, PendingOp
<1>4. Has(c, n, o.dst)
  BY <1>3 DEF Has, Res
<1>5. e = IF o.promote THEN x ELSE Detach(x, n, o.src)
  BY <1>4 DEF Complete, CopyOf, Res
<1>6. Res(c, n, o.dst) \in Resource
  BY <1>1, <1>3, NodeParts
<1>7. Len(Res(c, n, o.dst).units) = Len(n) - From(c, n)
  BY <1>3 DEF CacheInv, Filled, Right
<1>8. /\ r \in Resource /\ r.state = "ready" /\ Len(r.units) = Len(n) - From(c, n)
      /\ \A i \in 1..(Len(n) - From(c, n)) : r.units[i] \in {Pre(n, From(c, n) + i), Lost}
  <2>1. /\ u \in Seq(Content) /\ Len(u) = Len(o.data)
        /\ \A i \in 1..Len(o.data) : u[i] \in {o.data[i], Lost}
    BY <1>3, CopiedIs
  <2>2. n \in Query /\ Len(n) \in Nat /\ From(c, n) \in Nat /\ Len(o.data) \in Nat
    BY <1>1, <1>3, NodeParts, PrefixOrder
  <2>3. \A i \in 1..(Len(n) - From(c, n)) : i \in 1..Len(o.data)
    BY <1>3, <2>2
  <2>4. \A i \in 1..(Len(n) - From(c, n)) : u[i] \in {Pre(n, From(c, n) + i), Lost}
    BY <1>3, <2>1, <2>3
  <2>5. /\ r \in Resource /\ r.state = "ready" /\ Len(r.units) = Len(n) - From(c, n)
        /\ \A i \in 1..(Len(n) - From(c, n)) : r.units[i] = u[i]
    <3> HIDE DEF u
    <3> QED
      BY <1>3, <1>6, <1>7, <2>1, CopyIsResource
  <2> QED
    BY <2>4, <2>5
<1> HIDE DEF b, e
<1>9. /\ Record(x) /\ x.tree = [c.tree EXCEPT ![n].res[o.dst] = r] /\ x.locks = c.locks
      /\ x.ops = c.ops \ {o} /\ x.fault = IF bad THEN "unpinned" ELSE "none"
  <2>1. x = [b EXCEPT !.tree[n].res[o.dst] = r, !.fault = IF bad THEN "unpinned" ELSE @]
    OBVIOUS
  <2> HIDE DEF x, r, bad
  <2> QED
    BY <1>2, <2>1 DEF Record
<1> HIDE DEF x, r, bad
<1>10. Writes(c, x, n, o.dst, r)
  <2>1. \A m \in Live(c) : c.tree[m] \in TreeNode
    BY <1>1 DEF Formed
  <2> QED
    BY <1>3, <1>8, <1>9, <2>1, TreeWrite
<1>11. Right(n, From(c, n), r)
  BY <1>3, <1>8 DEF Right
<1>12. LocksOn(c, n, o.dst) = {}
  BY <1>1, <1>3, Unlocked
<1>13. CacheInv(x)
  <2>1. /\ \A p \in x.ops : p \in PendingOp /\ p.src # p.dst
        /\ IsFiniteSet(x.ops)
    BY <1>1, <1>9, FS_Subset DEF Formed
  <2>2. LocksOn(c, n, o.dst) = {} \/ (r.state = "ready" /\ r.refs = Res(c, n, o.dst).refs)
    BY <1>12
  <2>3. r \in Resource
    BY <1>8
  <2>4. /\ Formed(x) /\ Radix(x) /\ Filled(x) /\ PathsKept(x) /\ LocksCounted(x)
        /\ \A m \in Live(x) : m # n \/ r.state # "none" => Carried(x, m)
        /\ \A p : OpKept(c, p) /\ p.dst \in Tier /\ (p.node # n \/ p.dst # o.dst) => OpKept(x, p)
    BY <1>3, <1>10, <1>11, <2>1, <2>2, <2>3, WriteKeeps
  <2>5. NoBareLeaf(x)
    BY <1>8, <2>4 DEF NoBareLeaf
  <2>6. OpsKept(x)
    BY <1>1, <1>9, <2>4 DEF OpsKept, Formed, PendingOp
  <2> QED
    BY <2>4, <2>5, <2>6 DEF CacheInv
<1>14. n \in Live(x) /\ Res(x, n, o.src) = Res(c, n, o.src) /\ Res(x, n, o.dst) = r
  BY <1>3, <1>10 DEF Writes
<1>15. Has(x, n, o.dst)
  BY <1>8, <1>14 DEF Has, Res
<1>16. Completed(c, o, e, x)
  BY <1>5, <1>9, <1>13, <1>14, <1>15 DEF Completed, bad
<1> QED
  BY <1>16 DEF e

(* complete_op() of a transfer that succeeded. *)
LEMMA DoneKeeps ==
  ASSUME NEW c, CacheInv(c), c.fault = "none", NEW o \in c.ops, NEW late \in BOOLEAN
  PROVE  LET e == Complete(c, o, TRUE, late) IN e.fault = "none" => CacheInv(e)
<1> DEFINE n == o.node
           bad == ~o.promote /\ InUse(Res(c, n, o.src))
           e == Complete(c, o, TRUE, late)
<1>1. PICK x : /\ CacheInv(x) /\ x.locks = c.locks /\ x.ops = c.ops \ {o} /\ n \in Live(x)
               /\ e = IF o.promote THEN x ELSE Detach(x, n, o.src)
               /\ Has(x, n, o.dst) /\ Res(x, n, o.src) = Res(c, n, o.src)
               /\ x.fault = IF bad THEN "unpinned" ELSE "none"
  <2>1. \E x : Completed(c, o, e, x)
    BY CopyKeeps
  <2> HIDE DEF e
  <2> QED
    BY <2>1 DEF Completed
<1>2. o.dst \in Tier /\ o.src \in Tier /\ o.src # o.dst /\ o.promote \in BOOLEAN
  BY DEF CacheInv, Formed, PendingOp
<1> HIDE DEF e
<1>3. CASE o.promote
  BY <1>1, <1>3 DEF e
<1>4. CASE ~o.promote /\ bad
  <2>1. Record(x)
    BY <1>1 DEF CacheInv, Formed
  <2>2. e.fault = x.fault
    BY <1>1, <1>4, <2>1, FaultStays
  <2>3. x.fault # "none"
    BY <1>1, <1>4
  <2> QED
    BY <2>2, <2>3 DEF e
<1>5. CASE ~o.promote /\ ~bad
  <2>1. ~InUse(Res(x, n, o.src))
    BY <1>1, <1>5
  <2>2. CacheInv(Detach(x, n, o.src))
    BY <1>1, <1>2, <2>1, DetachKeeps
  <2> QED
    BY <1>1, <1>5, <2>2 DEF e
<1> QED
  BY <1>2, <1>3, <1>4, <1>5

-----------------------------------------------------------------------------
(* The loops: a step for each element of a sequence.                       *)

Step(fail, d, x, t, need, to) ==
  IF fail THEN Complete(d, x, FALSE, FALSE)
  ELSE IF need # None /\ d.free[t] >= need THEN d ELSE Evict(d, x, t, to)

(* f gives the caches between the steps. *)
IsRun(f, k, c, order, fail, t, need, to) ==
  f = [i \in 0..k |-> IF i = 0 THEN c ELSE Step(fail, f[i - 1], order[i], t, need, to)]

(* The caches between the steps are well defined. *)
LEMMA RunExists ==
  ASSUME NEW c, NEW order, NEW fail, NEW t, NEW need, NEW to, NEW k \in Nat
  PROVE  \E f : IsRun(f, k, c, order, fail, t, need, to)
<1> DEFINE Run(f, j) == IsRun(f, j, c, order, fail, t, need, to)
           S == {j \in Nat : ~\E f : Run(f, j)}
           next(d, i) == Step(fail, d, order[i], t, need, to)
<1>1. SUFFICES ASSUME S # {} PROVE FALSE
  OBVIOUS
<1>2. PICK x \in S : \A y \in S : x <= y
  BY <1>1, LeastNumber
<1>3. x \in Nat /\ ~\E f : Run(f, x)
  BY <1>2
<1>4. ASSUME x = 0 PROVE FALSE
  <2> DEFINE g == [i \in 0..0 |-> c]
             h == [i \in 0..0 |-> IF i = 0 THEN c ELSE next(g[i - 1], i)]
  <2>1. \A i \in 0..0 : i = 0
    OBVIOUS
  <2> HIDE DEF next
  <2>2. g = h
    BY <2>1
  <2>3. Run(g, 0)
    BY <2>2 DEF IsRun, next
  <2> QED
    BY <1>3, <1>4, <2>3
<1>5. x - 1 \in Nat /\ x > 0
  BY <1>3, <1>4
<1>6. PICK f : Run(f, x - 1)
  BY <1>2, <1>5
<1>7. f = [i \in 0..(x - 1) |-> IF i = 0 THEN c ELSE next(f[i - 1], i)]
  BY <1>6 DEF IsRun
<1> DEFINE g == [i \in 0..x |-> IF i < x THEN f[i] ELSE next(f[x - 1], x)]
           h == [i \in 0..x |-> IF i = 0 THEN c ELSE next(g[i - 1], i)]
<1>8. ASSUME NEW i \in 0..x PROVE g[i] = h[i]
  <2> HIDE DEF next, Run
  <2>1. CASE i = 0
    BY <1>5, <1>7, <2>1
  <2>2. CASE i > 0 /\ i < x
    <3>1. i - 1 \in 0..x /\ i - 1 < x /\ i \in 0..(x - 1)
      BY <1>3, <2>2
    <3>2. g[i - 1] = f[i - 1] /\ g[i] = f[i]
      BY <1>3, <2>2, <3>1
    <3>3. f[i] = next(f[i - 1], i)
      BY <1>7, <2>2, <3>1
    <3>4. h[i] = next(g[i - 1], i)
      BY <2>2
    <3> QED
      BY <3>2, <3>3, <3>4
  <2>3. CASE i = x
    <3>1. x - 1 \in 0..x /\ x - 1 < x
      BY <1>3, <1>5
    <3>2. g[x - 1] = f[x - 1] /\ g[x] = next(f[x - 1], x)
      BY <1>3, <3>1
    <3>3. h[x] = next(g[x - 1], x)
      BY <1>3, <1>5
    <3> QED
      BY <2>3, <3>2, <3>3
  <2> QED
    BY <1>3, <2>1, <2>2, <2>3
<1>9. g = [i \in 0..x |-> g[i]] /\ h = [i \in 0..x |-> h[i]]
  OBVIOUS
<1>10. g = h
  <2> HIDE DEF g, h
  <2> QED
    BY <1>8, <1>9
<1>11. Run(g, x)
  <2> HIDE DEF g
  <2> QED
    BY <1>10 DEF IsRun
<1> QED
  BY <1>3, <1>11

(* A sequence of all elements of a finite set, each of them once. *)
LEMMA OrderOfSet ==
  ASSUME NEW S, IsFiniteSet(S), NEW order \in SetToSeqs(S)
  PROVE  /\ Len(order) \in Nat
         /\ \A i \in 1..Len(order) : order[i] \in S
         /\ \A i, j \in 1..Len(order) : i # j => order[i] # order[j]
<1>1. Cardinality(S) \in Nat
  BY FS_CardinalityType
<1>2. order \in [1..Cardinality(S) -> S]
      /\ \A i, j \in 1..Cardinality(S) : i # j => order[i] # order[j]
  BY DEF SetToSeqs
<1>3. Len(order) = Cardinality(S)
  <2>1. order \in Seq(S)
    BY <1>1, <1>2
  <2> QED
    BY <1>1, <1>2, <2>1
<1> QED
  BY <1>1, <1>2, <1>3

(* One step of a run. *)
LEMMA RunStep ==
  ASSUME NEW f, NEW k \in Nat, NEW c, NEW order, NEW fail, NEW t, NEW need, NEW to,
         IsRun(f, k, c, order, fail, t, need, to)
  PROVE  /\ f[0] = c
         /\ \A i \in 1..k : f[i] = Step(fail, f[i - 1], order[i], t, need, to)
<1> DEFINE next(d, i) == Step(fail, d, order[i], t, need, to)
<1>1. f = [i \in 0..k |-> IF i = 0 THEN c ELSE next(f[i - 1], i)]
  BY DEF IsRun
<1> HIDE DEF next
<1>2. f[0] = c
  BY <1>1
<1>3. ASSUME NEW i \in 1..k PROVE f[i] = next(f[i - 1], i)
  <2>1. i \in 0..k /\ i # 0
    OBVIOUS
  <2> QED
    BY <1>1, <2>1
<1> QED
  BY <1>2, <1>3 DEF next

(* The caches between the evictions of a loop. *)
LEMMA EvictRun ==
  ASSUME NEW c, NEW t, NEW need, NEW to, NEW order, Len(order) \in Nat
  PROVE  \E f : /\ f[0] = c /\ f[Len(order)] = EvictUntil(c, t, need, to, order)
                /\ \A i \in 1..Len(order) : f[i] = f[i - 1] \/ f[i] = Evict(f[i - 1], order[i], t, to)
<1> DEFINE k == Len(order)
           after[i \in 0..Len(order)] ==
             IF i = 0 THEN c
             ELSE LET d == after[i - 1] IN
                  IF need # None /\ d.free[t] >= need THEN d ELSE Evict(d, order[i], t, to)
<1>1. EvictUntil(c, t, need, to, order) = after[k]
  BY DEF EvictUntil
<1>2. IsRun(after, k, c, order, FALSE, t, need, to)
  <2>1. \E f : IsRun(f, k, c, order, FALSE, t, need, to)
    BY RunExists
  <2> QED
    BY <2>1 DEF IsRun, Step
<1> HIDE DEF after
<1>3. /\ after[0] = c
      /\ \A i \in 1..k : after[i] = Step(FALSE, after[i - 1], order[i], t, need, to)
  <2>1. \A b : IsRun(after, k, c, order, b, t, need, to) =>
          /\ after[0] = c
          /\ \A i \in 1..k : after[i] = Step(b, after[i - 1], order[i], t, need, to)
    BY RunStep
  <2> QED
    BY <1>2, <2>1, Zenon
<1>4. \A i \in 1..k : after[i] = after[i - 1] \/ after[i] = Evict(after[i - 1], order[i], t, to)
  BY <1>3 DEF Step
<1> QED
  BY <1>1, <1>3, <1>4

(* The loops of ensure_capacity() and evict_by_predicate() over candidates. *)
LEMMA EvictUntilKeeps ==
  ASSUME NEW c, CacheInv(c), c.fault = "none", NEW t \in Tier, NEW to \in Tier \cup {None}, to # t,
         NEW need, NEW S \in SUBSET Candidates(c, t), NEW order \in SetToSeqs(S)
  PROVE  LET e == EvictUntil(c, t, need, to, order) IN
         /\ e.fault = "none" => CacheInv(e)
         /\ to = None => e.fault = "none"
<1> DEFINE k == Len(order)
           after[i \in 0..Len(order)] ==
             IF i = 0 THEN c
             ELSE LET d == after[i - 1] IN
                  IF need # None /\ d.free[t] >= need THEN d ELSE Evict(d, order[i], t, to)
<1>1. EvictUntil(c, t, need, to, order) = after[k]
  BY DEF EvictUntil
<1>2. S \subseteq Live(c) /\ IsFiniteSet(S)
        /\ \A n \in S : n \in Live(c) /\ Res(c, n, t).state = "ready" /\ Res(c, n, t).refs = 0
  <2>1. \A n \in S : n \in Live(c) /\ Res(c, n, t).state = "ready" /\ Res(c, n, t).refs = 0
    BY DEF Candidates, Evictable, Res
  <2>2. IsFiniteSet(Live(c))
    BY DEF CacheInv, Formed
  <2> QED
    BY <2>1, <2>2, FS_Subset
<1>3. /\ k \in Nat /\ \A i \in 1..k : order[i] \in S
      /\ \A i, j \in 1..k : i # j => order[i] # order[j]
  BY <1>2, OrderOfSet
<1>4. IsRun(after, k, c, order, FALSE, t, need, to)
  <2>1. \E f : IsRun(f, k, c, order, FALSE, t, need, to)
    BY <1>3, RunExists
  <2> QED
    BY <2>1 DEF IsRun, Step
<1> HIDE DEF after
<1>5. /\ after[0] = c
      /\ \A i \in 1..k : after[i] = Step(FALSE, after[i - 1], order[i], t, need, to)
  <2>1. \A b : IsRun(after, k, c, order, b, t, need, to) =>
          /\ after[0] = c
          /\ \A i \in 1..k : after[i] = Step(b, after[i - 1], order[i], t, need, to)
    BY <1>3, RunStep
  <2> QED
    BY <1>4, <2>1, Zenon
<1> HIDE DEF k
<1> DEFINE ready(d, n) == n \in Live(d) /\ Res(d, n, t).state = "ready" /\ Res(d, n, t).refs = 0
           P(i) == /\ Record(after[i])
                   /\ after[i].fault = "none" =>
                        CacheInv(after[i]) /\ \A j \in 1..k : j > i => ready(after[i], order[j])
                   /\ to = None => after[i].fault = "none"
           bad == {i \in 0..k : ~P(i)}
<1>6. P(0)
  BY <1>2, <1>3, <1>5 DEF CacheInv, Formed
<1>7. ASSUME NEW i \in 1..k, P(i - 1) PROVE P(i)
  <2> DEFINE d == after[i - 1]
             n == order[i]
             e == after[i]
  <2>1. e = IF need # None /\ d.free[t] >= need THEN d ELSE Evict(d, n, t, to)
    BY <1>5 DEF Step
  <2>2. /\ Record(d)
        /\ d.fault = "none" => CacheInv(d) /\ \A j \in 1..k : j > i - 1 => ready(d, order[j])
        /\ to = None => d.fault = "none"
    BY <1>7
  <2>3. \A j \in 1..k : j > i => j > i - 1
    BY <1>3
  <2>4. i > i - 1 /\ \A j \in 1..k : j > i => order[j] # n
    BY <1>3
  <2>5. CASE e = d
    BY <2>2, <2>3, <2>5
  <2>6. CASE e = Evict(d, n, t, to) /\ d.fault # "none"
    <3>1. Record(e) /\ e.fault # "none"
      BY <2>2, <2>6, FaultStays
    <3> QED
      BY <2>2, <2>6, <3>1
  <2>7. CASE e = Evict(d, n, t, to) /\ d.fault = "none"
    <3> HIDE DEF d, e, n
    <3>1. CacheInv(d) /\ \A j \in 1..k : j > i - 1 => ready(d, order[j])
      BY <2>2, <2>7
    <3>2. ready(d, n)
      BY <2>4, <3>1 DEF n
    <3>3. Record(e)
      BY <2>2, <2>7, FaultStays
    <3>4. /\ e.fault = d.fault => CacheInv(e) /\ Spares(d, e, n)
          /\ to = None => e.fault = d.fault
      BY <2>7, <3>1, <3>2, EvictKeeps
    <3>5. ASSUME e.fault = "none", NEW j \in 1..k, j > i PROVE ready(e, order[j])
      <4>1. ready(d, order[j]) /\ order[j] # n
        BY <2>3, <2>4, <3>1, <3>5
      <4>2. Spares(d, e, n)
        BY <2>7, <3>4, <3>5
      <4> QED
        BY <4>1, <4>2 DEF Spares
    <3>6. /\ e.fault = "none" => CacheInv(e) /\ \A j \in 1..k : j > i => ready(e, order[j])
          /\ to = None => e.fault = "none"
      BY <2>7, <3>4, <3>5
    <3> QED
      BY <3>3, <3>6 DEF e
  <2> QED
    BY <2>1, <2>5, <2>6, <2>7
<1> HIDE DEF P
<1>8. bad = {}
  <2>1. SUFFICES ASSUME bad # {} PROVE FALSE
    OBVIOUS
  <2>2. bad \in SUBSET Nat
    BY <1>3
  <2>3. PICK x \in bad : \A y \in bad : x <= y
    BY <2>1, <2>2, LeastNumber
  <2>4. x \in 1..k /\ x - 1 \in 0..k
    BY <1>3, <1>6, <2>3
  <2>5. P(x - 1)
    BY <1>3, <2>3, <2>4
  <2> QED
    BY <1>7, <2>3, <2>4, <2>5
<1>9. P(k)
  BY <1>3, <1>8
<1> QED
  BY <1>1, <1>9 DEF P

(* fail_all_inflight(): the transfers fail one after the other. *)
LEMMA FailAllKeeps ==
  ASSUME NEW c, CacheInv(c), c.fault = "none", NEW order \in SetToSeqs(c.ops), NEW e,
         LET after[i \in 0..Len(order)] ==
               IF i = 0 THEN c ELSE Complete(after[i - 1], order[i], FALSE, FALSE)
         IN e = after[Len(order)]
  PROVE  CacheInv(e) /\ e.fault = "none"
<1> DEFINE k == Len(order)
           after[i \in 0..Len(order)] ==
             IF i = 0 THEN c ELSE Complete(after[i - 1], order[i], FALSE, FALSE)
<1>1. e = after[k]
  OBVIOUS
<1>2. IsFiniteSet(c.ops)
  BY DEF CacheInv, Formed
<1>3. /\ k \in Nat /\ \A i \in 1..k : order[i] \in c.ops
      /\ \A i, j \in 1..k : i # j => order[i] # order[j]
  BY <1>2, OrderOfSet
<1>4. IsRun(after, k, c, order, TRUE, None, None, None)
  <2>1. \E f : IsRun(f, k, c, order, TRUE, None, None, None)
    BY <1>3, RunExists
  <2> QED
    BY <2>1 DEF IsRun, Step
<1> HIDE DEF after
<1>5. /\ after[0] = c
      /\ \A i \in 1..k : after[i] = Step(TRUE, after[i - 1], order[i], None, None, None)
  <2>1. \A b : IsRun(after, k, c, order, b, None, None, None) =>
          /\ after[0] = c
          /\ \A i \in 1..k : after[i] = Step(b, after[i - 1], order[i], None, None, None)
    BY <1>3, RunStep
  <2> QED
    BY <1>4, <2>1, Zenon
<1> HIDE DEF k
<1> DEFINE P(i) == /\ CacheInv(after[i]) /\ after[i].fault = "none"
                   /\ \A j \in 1..k : j > i => order[j] \in after[i].ops
           bad == {i \in 0..k : ~P(i)}
<1>6. P(0)
  BY <1>3, <1>5
<1>7. ASSUME NEW i \in 1..k, P(i - 1) PROVE P(i)
  <2> DEFINE d == after[i - 1]
             o == order[i]
             x == after[i]
  <2>1. x = Complete(d, o, FALSE, FALSE)
    BY <1>5 DEF Step
  <2>2. /\ i > i - 1 /\ \A j \in 1..k : j > i => j > i - 1 /\ order[j] # o
    BY <1>3
  <2>3. CacheInv(d) /\ d.fault = "none" /\ o \in d.ops
    BY <1>7, <2>2
  <2>4. CacheInv(x) /\ x.fault = d.fault /\ x.ops = d.ops \ {o}
    <3> HIDE DEF d, o, x
    <3> QED
      BY <2>1, <2>3, FailKeeps
  <2>5. \A j \in 1..k : j > i => order[j] \in d.ops
    BY <1>7, <2>2
  <2> QED
    BY <2>2, <2>3, <2>4, <2>5
<1> HIDE DEF P
<1>8. bad = {}
  <2>1. SUFFICES ASSUME bad # {} PROVE FALSE
    OBVIOUS
  <2>2. bad \in SUBSET Nat
    BY <1>3
  <2>3. PICK x \in bad : \A y \in bad : x <= y
    BY <2>1, <2>2, LeastNumber
  <2>4. x \in 1..k /\ x - 1 \in 0..k
    BY <1>3, <1>6, <2>3
  <2>5. P(x - 1)
    BY <1>3, <2>3, <2>4
  <2> QED
    BY <1>7, <2>3, <2>4, <2>5
<1>9. P(k)
  BY <1>3, <1>8
<1> QED
  BY <1>1, <1>9 DEF P

-----------------------------------------------------------------------------
(* walk() and split_self().                                                *)

(* The first part of a resource is right for the upper half of its node. *)
LEMMA CutHead ==
  ASSUME NEW n \in Query, NEW f \in Nat, NEW k \in Nat, f < k, k < Len(n),
         NEW r \in Resource, Right(n, f, r)
  PROVE  LET x == Cut(r, 1, k - f) IN
         x \in Resource /\ x.state = r.state /\ x.refs = r.refs /\ Right(Pre(n, k), f, x)
<1> DEFINE x == Cut(r, 1, k - f)
           u == SubSeq(r.units, 1, k - f)
           h == Pre(n, k)
<1>1. /\ r.state \in {"none", "ready", "pending"} /\ r.refs \in Nat
      /\ r.units \in Seq(Content) /\ Len(r.units) \in Nat /\ Len(n) \in Nat
  BY ResourceParts, PrefixOrder
<1>2. Len(h) = k
  BY <1>1, PreIsPath
<1> HIDE DEF h
<1>3. CASE r.state = "none"
  <2>1. x = r
    BY <1>3 DEF Cut
  <2> QED
    BY <1>3, <2>1 DEF Right, h
<1>4. CASE r.state # "none"
  <2>1. Len(r.units) = Len(n) - f
    BY <1>4 DEF Right
  <2>2. /\ u \in Seq(Content) /\ Len(u) = k - f
        /\ \A i \in 1..(k - f) : u[i] = r.units[i]
    <3>1. 1 \in 1..(Len(r.units) + 1) /\ k - f \in 0..Len(r.units) /\ k - f \in Nat
      BY <1>1, <2>1
    <3> QED
      BY <1>1, <3>1, SubSeqProperties
  <2> HIDE DEF u
  <2>3. x = [r EXCEPT !.units = u]
    BY <1>4 DEF Cut, u
  <2> HIDE DEF x
  <2>4. x \in Resource /\ x.state = r.state /\ x.refs = r.refs /\ x.units = u
    BY <1>1, <2>2, <2>3 DEF Resource
  <2>5. ASSUME r.state = "ready", NEW i \in 1..(k - f) PROVE u[i] \in {Pre(h, f + i), Lost}
    <3>1. i \in 1..(Len(n) - f) /\ f + i \in Nat /\ 1 <= f + i /\ f + i <= k
      BY <1>1
    <3>2. r.units[i] \in {Pre(n, f + i), Lost}
      BY <2>5, <3>1 DEF Right
    <3>3. Pre(h, f + i) = Pre(n, f + i)
      BY <1>1, <3>1, PrePre DEF h
    <3> QED
      BY <2>2, <3>2, <3>3
  <2>6. Right(h, f, x)
    BY <1>2, <1>4, <2>2, <2>4, <2>5 DEF Right
  <2> QED
    BY <2>4, <2>6 DEF x, h
<1> QED
  BY <1>3, <1>4

(* And the rest for the lower half. *)
LEMMA CutTail ==
  ASSUME NEW n \in Query, NEW f \in Nat, NEW k \in Nat, f < k, k < Len(n),
         NEW r \in Resource, Right(n, f, r)
  PROVE  LET x == Cut(r, k - f + 1, Len(n) - f) IN
         x \in Resource /\ x.state = r.state /\ x.refs = r.refs /\ Right(n, k, x)
<1> DEFINE x == Cut(r, k - f + 1, Len(n) - f)
           u == SubSeq(r.units, k - f + 1, Len(n) - f)
<1>1. /\ r.state \in {"none", "ready", "pending"} /\ r.refs \in Nat
      /\ r.units \in Seq(Content) /\ Len(r.units) \in Nat /\ Len(n) \in Nat
  BY ResourceParts, PrefixOrder
<1>2. CASE r.state = "none"
  <2>1. x = r
    BY <1>2 DEF Cut
  <2> QED
    BY <1>2, <2>1 DEF Right
<1>3. CASE r.state # "none"
  <2>1. Len(r.units) = Len(n) - f
    BY <1>3 DEF Right
  <2>2. /\ u \in Seq(Content) /\ Len(u) = Len(n) - k
        /\ \A i \in 1..(Len(n) - k) : u[i] = r.units[(k - f) + i]
    <3> DEFINE a == k - f + 1
               b == Len(n) - f
    <3>1. a \in 1..(Len(r.units) + 1) /\ b \in (a - 1)..Len(r.units) /\ a <= b
          /\ a \in Nat /\ b \in Nat
      BY <1>1, <2>1
    <3>2. b - a + 1 = Len(n) - k /\ a = (k - f) + 1
      BY <1>1
    <3> HIDE DEF a, b
    <3>3. /\ SubSeq(r.units, a, b) \in Seq(Content)
          /\ Len(SubSeq(r.units, a, b)) = (IF a <= b THEN b - a + 1 ELSE 0)
          /\ \A i \in 1..(b - a + 1) : SubSeq(r.units, a, b)[i] = r.units[a + i - 1]
      <4> DEFINE v == r.units
      <4>1. v \in Seq(Content) /\ a \in 1..(Len(v) + 1) /\ b \in (a - 1)..Len(v)
        BY <1>1, <3>1
      <4> HIDE DEF v
      <4>2. /\ SubSeq(v, a, b) \in Seq(Content)
            /\ Len(SubSeq(v, a, b)) = (IF a <= b THEN b - a + 1 ELSE 0)
            /\ \A i \in 1..(b - a + 1) : SubSeq(v, a, b)[i] = v[a + i - 1]
        <5>1. a \in Int /\ b \in Int
          BY <3>1
        <5>2. \A i \in a..b : v[i] \in Content
          <6>1. \A i \in 1..Len(v) : v[i] \in Content
            BY <4>1
          <6>2. \A i \in a..b : i \in 1..Len(v)
            BY <1>1, <2>1, <3>1 DEF v
          <6> QED
            BY <6>1, <6>2
        <5> QED
          BY <5>1, <5>2, SubSeqProperties
      <4> QED
        BY <4>2 DEF v
    <3>4. u = SubSeq(r.units, a, b)
      BY DEF a, b
    <3> HIDE DEF u
    <3>5. \A i \in 1..(Len(n) - k) : a + i - 1 = (k - f) + i
      BY <1>1, <3>2
    <3>6. Len(u) = Len(n) - k
      BY <3>1, <3>2, <3>3, <3>4
    <3>7. \A i \in 1..(Len(n) - k) : u[i] = r.units[(k - f) + i]
      BY <3>2, <3>3, <3>4, <3>5
    <3> QED
      BY <3>3, <3>4, <3>6, <3>7
  <2> HIDE DEF u
  <2>3. x = [r EXCEPT !.units = u]
    BY <1>3 DEF Cut, u
  <2> HIDE DEF x
  <2>4. x \in Resource /\ x.state = r.state /\ x.refs = r.refs /\ x.units = u
    BY <1>1, <2>2, <2>3 DEF Resource
  <2>5. ASSUME r.state = "ready", NEW i \in 1..(Len(n) - k) PROVE u[i] \in {Pre(n, k + i), Lost}
    <3>1. (k - f) + i \in 1..(Len(n) - f) /\ f + ((k - f) + i) = k + i
      BY <1>1
    <3>2. r.units[(k - f) + i] \in {Pre(n, f + ((k - f) + i)), Lost}
      BY <2>5, <3>1 DEF Right
    <3> QED
      BY <2>2, <3>1, <3>2
  <2>6. Right(n, k, x)
    BY <1>3, <2>2, <2>4, <2>5 DEF Right
  <2> QED
    BY <2>4, <2>6 DEF x
<1> QED
  BY <1>2, <1>3

(* A transfer or node_ref follows its node. *)
Moved(x, n, h) == [x EXCEPT !.node = IF @ = n THEN h ELSE @]

(* d is c with n split into h and the rest. *)
Splits(c, d, n, k) ==
  LET h == Pre(n, k) IN
  /\ h \in Query /\ Len(h) = k /\ IsPrefix(h, n) /\ h # n /\ h \notin Live(c)
  /\ Record(d) /\ d.fault = c.fault /\ d.free = c.free /\ Live(d) = Live(c) \cup {h}
  /\ \A m \in Live(d) : d.tree[m] \in TreeNode
  /\ \A m \in Live(c) : m # n => From(d, m) = From(c, m) /\ \A t \in Tier : Res(d, m, t) = Res(c, m, t)
  /\ From(d, h) = From(c, n) /\ From(d, n) = k
  /\ \A t \in Tier : \A m \in {h, n} :
       Res(d, m, t).state = Res(c, n, t).state /\ Res(d, m, t).refs = Res(c, n, t).refs
  /\ \A t \in Tier : Right(h, From(c, n), Res(d, h, t)) /\ Right(n, k, Res(d, n, t))
  /\ d.ops = {Moved(o, n, h) : o \in c.ops}
  /\ d.locks = [r \in Pin |-> IF c.locks[r] = None THEN None ELSE Moved(c.locks[r], n, h)]

(* split_self(). *)
LEMMA SplitIs ==
  ASSUME NEW c, Formed(c), Radix(c), Filled(c), NEW n \in Live(c), NEW k \in Nat,
         From(c, n) < k, k < Len(n)
  PROVE  Splits(c, Split(c, n, k), n, k)
<1> DEFINE d == Split(c, n, k)
           h == Pre(n, k)
           f == From(c, n)
           part(lo, hi) == [t \in Tier |-> Cut(c.tree[n].res[t], lo, hi)]
           up == [from |-> f, res |-> part(1, k - f)]
           low == [from |-> k, res |-> part(k - f + 1, Len(n) - f)]
           tr == [m \in Live(c) \cup {h} |-> IF m = h THEN up ELSE IF m = n THEN low ELSE c.tree[m]]
           ops == {Moved(o, n, h) : o \in c.ops}
           stray == {Moved(o, n, h) : o \in c.stray}
           locks == [r \in Pin |-> IF c.locks[r] = None THEN None ELSE Moved(c.locks[r], n, h)]
<1>1. n \in Query /\ f \in Nat /\ Len(n) \in Nat /\ Record(c)
      /\ \A t \in Tier : Res(c, n, t) \in Resource
  BY NodeParts, PrefixOrder DEF Formed
<1>2. h \in Query /\ Len(h) = k /\ IsPrefix(h, n) /\ h # n
  BY <1>1, PreIsPrefix
<1>3. h \notin Live(c)
  <2>1. SUFFICES ASSUME h \in Live(c) PROVE FALSE
    OBVIOUS
  <2>2. Len(h) <= From(c, n)
    BY <1>2, <2>1, BelowBegins
  <2> QED
    BY <1>1, <1>2, <2>2
<1>4. d = [c EXCEPT !.tree = tr, !.ops = ops, !.stray = stray, !.locks = locks]
  BY DEF Split, From, Moved
<1>5. ASSUME NEW t \in Tier
      PROVE  /\ up.res[t] \in Resource /\ low.res[t] \in Resource
             /\ up.res[t].state = Res(c, n, t).state /\ up.res[t].refs = Res(c, n, t).refs
             /\ low.res[t].state = Res(c, n, t).state /\ low.res[t].refs = Res(c, n, t).refs
             /\ Right(h, f, up.res[t]) /\ Right(n, k, low.res[t])
  <2>1. up.res[t] = Cut(Res(c, n, t), 1, k - f)
        /\ low.res[t] = Cut(Res(c, n, t), k - f + 1, Len(n) - f)
    BY DEF Res
  <2>2. Res(c, n, t) \in Resource /\ Right(n, f, Res(c, n, t))
    BY <1>1 DEF Filled
  <2> HIDE DEF f, up, low
  <2>3. LET x == Cut(Res(c, n, t), 1, k - f) IN
        /\ x \in Resource /\ x.state = Res(c, n, t).state /\ x.refs = Res(c, n, t).refs /\ Right(h, f, x)
    BY <1>1, <2>2, CutHead DEF f
  <2>4. LET x == Cut(Res(c, n, t), k - f + 1, Len(n) - f) IN
        /\ x \in Resource /\ x.state = Res(c, n, t).state /\ x.refs = Res(c, n, t).refs /\ Right(n, k, x)
    BY <1>1, <2>2, CutTail DEF f
  <2> QED
    BY <2>1, <2>3, <2>4
<1>6. up \in TreeNode /\ low \in TreeNode /\ up.from = f /\ low.from = k
  <2>1. up.res \in [Tier -> Resource] /\ low.res \in [Tier -> Resource]
    BY <1>5
  <2> QED
    BY <1>1, <2>1 DEF TreeNode
<1> HIDE DEF d, h, f, up, low, ops, stray, locks
<1>7. /\ Live(d) = Live(c) \cup {h} /\ d.tree = tr
  <2>1. d.tree = tr
    <3> HIDE DEF tr
    <3> QED
      BY <1>1, <1>4 DEF Record
  <2> QED
    BY <2>1 DEF Live
<1>8. Record(d) /\ d.fault = c.fault /\ d.free = c.free /\ d.ops = ops /\ d.locks = locks
  <2> HIDE DEF tr
  <2> QED
    BY <1>1, <1>4 DEF Record
<1>9. /\ d.tree[h] = up /\ d.tree[n] = low /\ \A m \in Live(c) : m # n => d.tree[m] = c.tree[m]
  BY <1>2, <1>3, <1>7
<1> HIDE DEF tr
<1>10. \A m \in Live(d) : d.tree[m] \in TreeNode
  BY <1>6, <1>7, <1>9 DEF Formed
<1>11. /\ \A m \in Live(c) : m # n => From(d, m) = From(c, m) /\ \A t \in Tier : Res(d, m, t) = Res(c, m, t)
       /\ From(d, h) = f /\ From(d, n) = k
       /\ \A t \in Tier : Res(d, h, t) = up.res[t] /\ Res(d, n, t) = low.res[t]
  BY <1>6, <1>9 DEF From, Res
<1>12. /\ \A t \in Tier : \A m \in {h, n} :
            Res(d, m, t).state = Res(c, n, t).state /\ Res(d, m, t).refs = Res(c, n, t).refs
       /\ \A t \in Tier : Right(h, f, Res(d, h, t)) /\ Right(n, k, Res(d, n, t))
  BY <1>5, <1>11
<1> QED
  BY <1>2, <1>3, <1>7, <1>8, <1>10, <1>11, <1>12 DEF Splits, d, h, f, ops, locks

(* The upper half covers what n covered up to depth k, n the rest. *)
LEMMA SplitCovers ==
  ASSUME NEW c, NEW d, NEW n \in Live(c), NEW k \in Nat, Splits(c, d, n, k), Formed(c),
         From(c, n) < k, k < Len(n), NEW p \in Query
  PROVE  /\ Covers(d, Pre(n, k), p) <=> Covers(c, n, p) /\ Len(p) <= k
         /\ Covers(d, n, p) <=> Covers(c, n, p) /\ k < Len(p)
         /\ \A m \in Live(c) : m # n => (Covers(d, m, p) <=> Covers(c, m, p))
<1> DEFINE h == Pre(n, k)
<1>1. n \in Query /\ From(c, n) \in Nat /\ Len(n) \in Nat /\ Len(p) \in Nat
  BY NodeParts, PrefixOrder
<1>2. /\ h \in Query /\ Len(h) = k /\ IsPrefix(h, n)
      /\ From(d, h) = From(c, n) /\ From(d, n) = k
      /\ \A m \in Live(c) : m # n => From(d, m) = From(c, m)
  BY DEF Splits
<1> HIDE DEF h
<1>3. IsPrefix(p, h) <=> IsPrefix(p, n) /\ Len(p) <= k
  BY <1>1, <1>2, PrefixOrder
<1>4. Covers(d, h, p) <=> Covers(c, n, p) /\ Len(p) <= k
  BY <1>2, <1>3 DEF Covers
<1>5. Covers(d, n, p) <=> Covers(c, n, p) /\ k < Len(p)
  BY <1>1, <1>2 DEF Covers
<1>6. \A m \in Live(c) : m # n => (Covers(d, m, p) <=> Covers(c, m, p))
  BY <1>2 DEF Covers
<1> QED
  BY <1>4, <1>5, <1>6 DEF h

(* What follows its node keeps its other fields. *)
LEMMA MovedParts ==
  ASSUME NEW n \in Query, NEW h \in Query
  PROVE  /\ \A o \in PendingOp :
              LET x == Moved(o, n, h) IN
              /\ x \in PendingOp /\ x.src = o.src /\ x.dst = o.dst /\ x.data = o.data
              /\ x.node = IF o.node = n THEN h ELSE o.node
         /\ \A l \in NodeRef :
              LET x == Moved(l, n, h) IN
              /\ x \in NodeRef /\ x.tier = l.tier /\ x.path = l.path
              /\ x.node = IF l.node = n THEN h ELSE l.node
<1>1. ASSUME NEW o \in PendingOp
      PROVE  LET x == Moved(o, n, h) IN
             /\ x \in PendingOp /\ x.src = o.src /\ x.dst = o.dst /\ x.data = o.data
             /\ x.node = IF o.node = n THEN h ELSE o.node
  <2> DEFINE y == IF o.node = n THEN h ELSE o.node
             x == Moved(o, n, h)
  <2>1. y \in Query
    BY DEF PendingOp
  <2>2. x = [o EXCEPT !.node = y]
    BY DEF Moved
  <2> HIDE DEF y, x
  <2>3. x \in PendingOp /\ x.src = o.src /\ x.dst = o.dst /\ x.data = o.data /\ x.node = y
    BY <2>1, <2>2 DEF PendingOp
  <2> QED
    BY <2>3 DEF x, y
<1>2. ASSUME NEW l \in NodeRef
      PROVE  LET x == Moved(l, n, h) IN
             /\ x \in NodeRef /\ x.tier = l.tier /\ x.path = l.path
             /\ x.node = IF l.node = n THEN h ELSE l.node
  <2> DEFINE y == IF l.node = n THEN h ELSE l.node
             x == Moved(l, n, h)
  <2>1. y \in Query
    BY DEF NodeRef
  <2>2. x = [l EXCEPT !.node = y]
    BY DEF Moved
  <2> HIDE DEF y, x
  <2>3. x \in NodeRef /\ x.tier = l.tier /\ x.path = l.path /\ x.node = y
    BY <2>1, <2>2 DEF NodeRef
  <2> QED
    BY <2>3 DEF x, y
<1> QED
  BY <1>1, <1>2

(* A split keeps the invariant. *)
LEMMA SplitKeeps ==
  ASSUME NEW c, NEW d, CacheInv(c), NEW n \in Live(c), NEW k \in Nat, Splits(c, d, n, k),
         From(c, n) < k, k < Len(n)
  PROVE  CacheInv(d)
<1> DEFINE h == Pre(n, k)
<1>1. /\ Formed(c) /\ Radix(c) /\ Filled(c) /\ NoBareLeaf(c)
      /\ OpsKept(c) /\ PathsKept(c) /\ LocksCounted(c)
  BY DEF CacheInv
<1>2. n \in Query /\ From(c, n) \in Nat /\ Len(n) \in Nat /\ k \in Nat
  BY <1>1, NodeParts, PrefixOrder
<1>3. /\ h \in Query /\ Len(h) = k /\ IsPrefix(h, n) /\ h # n /\ h \notin Live(c)
      /\ Record(d) /\ Live(d) = Live(c) \cup {h}
      /\ \A m \in Live(d) : d.tree[m] \in TreeNode
      /\ \A m \in Live(c) : m # n => From(d, m) = From(c, m) /\ \A t \in Tier : Res(d, m, t) = Res(c, m, t)
      /\ From(d, h) = From(c, n) /\ From(d, n) = k
      /\ \A t \in Tier : /\ Res(d, h, t).state = Res(c, n, t).state /\ Res(d, h, t).refs = Res(c, n, t).refs
                         /\ Res(d, n, t).state = Res(c, n, t).state /\ Res(d, n, t).refs = Res(c, n, t).refs
      /\ \A t \in Tier : Right(h, From(c, n), Res(d, h, t)) /\ Right(n, k, Res(d, n, t))
  BY DEF Splits
<1>4. /\ d.ops = {Moved(o, n, h) : o \in c.ops}
      /\ d.locks = [r \in Pin |-> IF c.locks[r] = None THEN None ELSE Moved(c.locks[r], n, h)]
  BY DEF Splits
<1>5. \A p \in Query : /\ Covers(d, h, p) <=> Covers(c, n, p) /\ Len(p) <= k
                       /\ Covers(d, n, p) <=> Covers(c, n, p) /\ k < Len(p)
                       /\ \A m \in Live(c) : m # n => (Covers(d, m, p) <=> Covers(c, m, p))
  BY <1>1, SplitCovers
<1> HIDE DEF h
<1>6. \A r \in Pin : d.locks[r] # None =>
        /\ c.locks[r] # None /\ c.locks[r] \in NodeRef /\ d.locks[r] \in NodeRef
        /\ d.locks[r].tier = c.locks[r].tier /\ d.locks[r].path = c.locks[r].path
        /\ d.locks[r].node = IF c.locks[r].node = n THEN h ELSE c.locks[r].node
  BY <1>1, <1>2, <1>3, <1>4, MovedParts DEF Formed
<1>7. \A o \in c.ops : LET x == Moved(o, n, h) IN
        /\ o \in PendingOp /\ x \in PendingOp /\ x.src = o.src /\ x.dst = o.dst /\ x.data = o.data
        /\ x.node = IF o.node = n THEN h ELSE o.node
  BY <1>1, <1>2, <1>3, MovedParts DEF Formed
<1>8. Formed(d)
  <2>1. IsFiniteSet(Live(d))
    BY <1>1, <1>3, FS_AddElement DEF Formed
  <2>2. IsFiniteSet(d.ops)
    <3> DEFINE f == [o \in c.ops |-> Moved(o, n, h)]
    <3>1. f \in Surjection(c.ops, d.ops)
      BY <1>4 DEF Surjection
    <3> HIDE DEF f
    <3> QED
      BY <1>1, <3>1, FS_Surjection DEF Formed
  <2>3. IsFiniteSet({r \in Pin : d.locks[r] # None})
    <3>1. {r \in Pin : d.locks[r] # None} \subseteq {r \in Pin : c.locks[r] # None}
      BY <1>6
    <3> QED
      BY <1>1, <3>1, FS_Subset DEF Formed
  <2>4. \A o \in d.ops : o \in PendingOp /\ o.src # o.dst
    BY <1>1, <1>4, <1>7 DEF Formed
  <2>5. \A m \in Live(d) : m \in Query
    BY <1>1, <1>3 DEF Formed
  <2>6. DOMAIN d.locks = Pin
    BY <1>4
  <2> QED
    BY <1>3, <1>6, <2>1, <2>2, <2>3, <2>4, <2>5, <2>6 DEF Formed
<1>9. Radix(d)
  <2>1. ASSUME NEW m \in Live(d)
        PROVE  From(d, m) < Len(m) /\ (From(d, m) > 0 => Pre(m, From(d, m)) \in Live(d))
    <3>1. CASE m = h
      <4>1. From(d, m) < Len(m)
        BY <1>3, <3>1
      <4>2. ASSUME From(c, n) > 0 PROVE Pre(h, From(c, n)) \in Live(c)
        <5>1. Pre(h, From(c, n)) = Pre(n, From(c, n))
          BY <1>2, <4>2, PrePre DEF h
        <5> QED
          BY <1>1, <4>2, <5>1 DEF Radix
      <4> QED
        BY <1>3, <3>1, <4>1, <4>2
    <3>2. CASE m = n
      BY <1>2, <1>3, <3>2 DEF h
    <3>3. CASE m # h /\ m # n
      <4>1. m \in Live(c) /\ From(d, m) = From(c, m)
        BY <1>3, <3>3
      <4> QED
        BY <1>1, <1>3, <4>1 DEF Radix
    <3> QED
      BY <3>1, <3>2, <3>3
  <2>2. ASSUME NEW x \in Live(d), NEW y \in Live(d), NEW p \in Query, Covers(d, x, p), Covers(d, y, p)
        PROVE  x = y
    <3> DEFINE g(m) == IF m = h THEN n ELSE m
    <3>1. g(x) \in Live(c) /\ g(y) \in Live(c)
      BY <1>3
    <3>2. Covers(c, g(x), p) /\ Covers(c, g(y), p)
      BY <1>3, <1>5, <2>2
    <3>3. g(x) = g(y)
      BY <1>1, <3>1, <3>2 DEF Radix
    <3>4. Len(p) \in Nat
      BY PrefixOrder
    <3>5. ~(x = h /\ y = n) /\ ~(x = n /\ y = h)
      BY <1>2, <1>5, <2>2, <3>4
    <3> QED
      BY <3>3, <3>5
  <2> QED
    BY <2>1, <2>2 DEF Radix
<1>10. Filled(d)
  <2>1. ASSUME NEW m \in Live(d), NEW t \in Tier PROVE Right(m, From(d, m), Res(d, m, t))
    <3>1. CASE m = h
      BY <1>3, <3>1
    <3>2. CASE m = n
      BY <1>3, <3>2
    <3>3. CASE m # h /\ m # n
      BY <1>1, <1>3, <3>3 DEF Filled
    <3> QED
      BY <3>1, <3>2, <3>3
  <2> QED
    BY <2>1 DEF Filled
<1>11. NoBareLeaf(d)
  <2>1. ASSUME NEW m \in Live(d) PROVE Carried(d, m)
    <3>1. CASE m = h
      BY <1>3, <3>1 DEF Carried
    <3>2. CASE m # h
      <4>1. m \in Live(c) /\ Carried(c, m)
        BY <1>1, <1>3, <3>2 DEF NoBareLeaf
      <4>2. \A t \in Tier : Has(c, m, t) => Has(d, m, t)
        BY <1>3, <4>1 DEF Has, Res
      <4> QED
        BY <1>3, <4>1, <4>2 DEF Carried
    <3> QED
      BY <3>1, <3>2
  <2> QED
    BY <2>1 DEF NoBareLeaf
<1>12. OpsKept(d)
  <2>1. ASSUME NEW o \in c.ops PROVE OpKept(d, Moved(o, n, h))
    <3> DEFINE x == Moved(o, n, h)
    <3>1. OpKept(c, o) /\ o.dst \in Tier /\ o.data \in Seq(Content) /\ Len(o.data) \in Nat
      BY <1>1, <1>7 DEF OpsKept, PendingOp
    <3>2. x.dst = o.dst /\ x.data = o.data /\ x.node = IF o.node = n THEN h ELSE o.node
      BY <1>7
    <3> HIDE DEF x
    <3>3. CASE o.node = n
      <4>1. x.node = h /\ h \in Live(d) /\ Res(d, h, x.dst).state = "pending"
        BY <1>3, <3>1, <3>2, <3>3 DEF OpKept
      <4>2. Len(h) - From(d, h) <= Len(x.data)
        BY <1>2, <1>3, <3>1, <3>2, <3>3 DEF OpKept
      <4>3. ASSUME NEW i \in 1..(Len(h) - From(d, h)) PROVE x.data[i] \in {Pre(h, From(d, h) + i), Lost}
        <5>1. i \in 1..(Len(n) - From(c, n)) /\ From(c, n) + i \in Nat /\ 1 <= From(c, n) + i
              /\ From(c, n) + i <= k
          BY <1>2, <1>3
        <5>2. o.data[i] \in {Pre(n, From(c, n) + i), Lost}
          BY <3>1, <3>3, <5>1 DEF OpKept
        <5>3. Pre(h, From(c, n) + i) = Pre(n, From(c, n) + i)
          BY <1>2, <5>1, PrePre DEF h
        <5> QED
          BY <1>3, <3>2, <5>2, <5>3
      <4>4. OpKept(d, x)
        BY <4>1, <4>2, <4>3 DEF OpKept
      <4> QED
        BY <4>4 DEF x
    <3>4. CASE o.node # n
      <4>1. x.node = o.node /\ o.node \in Live(c)
        BY <3>1, <3>2, <3>4 DEF OpKept
      <4>2. From(d, o.node) = From(c, o.node) /\ Res(d, o.node, o.dst) = Res(c, o.node, o.dst)
        BY <1>3, <3>1, <3>4, <4>1
      <4>3. OpKept(d, x)
        BY <1>3, <3>1, <3>2, <4>1, <4>2 DEF OpKept
      <4> QED
        BY <4>3 DEF x
    <3> QED
      BY <3>3, <3>4
  <2>2. ASSUME NEW o \in c.ops, NEW p \in c.ops, Moved(o, n, h).node = Moved(p, n, h).node,
               Moved(o, n, h).dst = Moved(p, n, h).dst
        PROVE  o = p
    <3>1. o.node \in Live(c) /\ p.node \in Live(c)
      BY <1>1 DEF OpsKept, OpKept
    <3>2. o.node = p.node /\ o.dst = p.dst
      BY <1>3, <1>7, <2>2, <3>1
    <3> QED
      BY <1>1, <3>2 DEF OpsKept
  <2>3. \A x \in d.ops : \E o \in c.ops : x = Moved(o, n, h)
    BY <1>4
  <2> QED
    BY <2>1, <2>2, <2>3 DEF OpsKept
<1>13. PathsKept(d)
  <2>1. ASSUME NEW r \in Pin, d.locks[r] # None
        PROVE  /\ IsPrefix(d.locks[r].node, d.locks[r].path)
               /\ \A p \in Query : IsPrefix(p, d.locks[r].path) =>
                    \E m \in Live(d) : /\ IsPrefix(m, d.locks[r].path) /\ Covers(d, m, p)
                                       /\ Res(d, m, d.locks[r].tier).state = "ready"
    <3> DEFINE path == c.locks[r].path
               tier == c.locks[r].tier
    <3>1. /\ c.locks[r] # None /\ d.locks[r].tier = tier /\ d.locks[r].path = path
          /\ path \in Query /\ tier \in Tier
          /\ d.locks[r].node = IF c.locks[r].node = n THEN h ELSE c.locks[r].node
      BY <1>6, <2>1 DEF NodeRef
    <3>2. IsPrefix(c.locks[r].node, path)
      BY <1>1, <3>1 DEF PathsKept
    <3>3. IsPrefix(d.locks[r].node, path)
      BY <1>2, <1>3, <3>1, <3>2, PrefixOrder
    <3>4. ASSUME NEW p \in Query, IsPrefix(p, path)
          PROVE  \E m \in Live(d) : /\ IsPrefix(m, path) /\ Covers(d, m, p)
                                    /\ Res(d, m, tier).state = "ready"
      <4>1. PICK m \in Live(c) : IsPrefix(m, path) /\ Covers(c, m, p) /\ Res(c, m, tier).state = "ready"
        BY <1>1, <3>1, <3>4 DEF PathsKept
      <4> HIDE DEF path, tier
      <4>2. CASE m # n
        BY <1>3, <1>5, <3>1, <4>1, <4>2
      <4>3. CASE m = n /\ k < Len(p)
        BY <1>3, <1>5, <3>1, <4>1, <4>3
      <4>4. CASE m = n /\ Len(p) <= k
        <5>1. IsPrefix(h, path)
          BY <1>2, <1>3, <3>1, <4>1, <4>4, PrefixOrder
        <5> QED
          BY <1>3, <1>5, <3>1, <4>1, <4>4, <5>1
      <4>5. Len(p) \in Nat
        BY PrefixOrder
      <4> QED
        BY <1>2, <4>2, <4>3, <4>4, <4>5
    <3> QED
      BY <3>1, <3>3, <3>4
  <2> QED
    BY <2>1 DEF PathsKept
<1>14. LocksCounted(d)
  <2>1. ASSUME NEW m \in Live(d), NEW t \in Tier PROVE Cardinality(LocksOn(d, m, t)) <= Res(d, m, t).refs
    <3> DEFINE x == IF m = h THEN n ELSE m
    <3>1. x \in Live(c) /\ Res(d, m, t).refs = Res(c, x, t).refs
      BY <1>3
    <3>2. ASSUME NEW r \in LocksOn(d, m, t) PROVE r \in LocksOn(c, x, t)
      <4>1. r \in Pin /\ d.locks[r] # None /\ d.locks[r].tier = t /\ IsPrefix(m, d.locks[r].path)
        BY DEF LocksOn
      <4>2. /\ c.locks[r] # None /\ c.locks[r].tier = t /\ c.locks[r].path \in Query
            /\ IsPrefix(m, c.locks[r].path)
        BY <1>6, <4>1 DEF NodeRef
      <4>3. CASE m # h
        BY <4>1, <4>2, <4>3 DEF LocksOn
      <4>4. CASE m = h
        <5>1. PICK y \in Live(c) : IsPrefix(y, c.locks[r].path) /\ Covers(c, y, h)
          BY <1>1, <1>3, <4>1, <4>2, <4>4 DEF PathsKept
        <5>2. Covers(c, n, h)
          BY <1>3 DEF Covers
        <5>3. y = n
          BY <1>1, <1>3, <5>1, <5>2 DEF Radix
        <5> QED
          BY <4>1, <4>2, <4>4, <5>1, <5>3 DEF LocksOn
      <4> QED
        BY <4>3, <4>4
    <3> HIDE DEF x
    <3>3. LocksOn(d, m, t) \subseteq LocksOn(c, x, t)
      BY <3>2
    <3>4. Cardinality(LocksOn(d, m, t)) <= Cardinality(LocksOn(c, x, t))
      BY <1>1, <3>3, LocksFinite, FS_Subset
    <3>5. Cardinality(LocksOn(c, x, t)) <= Res(c, x, t).refs
      BY <1>1, <3>1 DEF LocksCounted
    <3>6. /\ Cardinality(LocksOn(d, m, t)) \in Nat /\ Cardinality(LocksOn(c, x, t)) \in Nat
          /\ Res(c, x, t).refs \in Nat
      BY <1>1, <1>8, <3>1, LocksFinite, NodeParts, ResourceParts
    <3> QED
      BY <3>1, <3>4, <3>5, <3>6
  <2> QED
    BY <2>1 DEF LocksCounted
<1> QED
  BY <1>8, <1>9, <1>10, <1>11, <1>12, <1>13, <1>14 DEF CacheInv

-----------------------------------------------------------------------------
(* The walk along a query.                                                 *)

(* q leaves n in its middle. *)
Leaves(c, n, q) == From(c, n) < Common(n, q) /\ Common(n, q) < Len(n)

(* A node that holds a page of q's path is a node of q's path. *)
Whole(c, q) == \A n \in Live(c), p \in Query : Covers(c, n, p) /\ IsPrefix(p, q) => IsPrefix(n, q)

(* A query leaves the tree in one node. *)
LEMMA LeftOnce ==
  ASSUME NEW c, Formed(c), Radix(c), NEW q \in Query, NEW n \in Live(c), NEW m \in Live(c),
         Leaves(c, n, q), Leaves(c, m, q), Common(n, q) <= Common(m, q)
  PROVE  n = m
<1> DEFINE a == Common(n, q)
           b == Common(m, q)
           p == Pre(n, a)
           s == Pre(m, b)
<1>1. /\ n \in Query /\ From(c, n) \in Nat /\ Len(n) \in Nat /\ a \in Nat
      /\ m \in Query /\ From(c, m) \in Nat /\ Len(m) \in Nat /\ b \in Nat
  BY NodeParts, PrefixOrder, CommonPages
<1>2. 1 <= a /\ a < Len(n) /\ From(c, n) < a /\ 1 <= b /\ b < Len(m) /\ From(c, m) < b /\ a <= b
  BY <1>1 DEF Leaves
<1>3. p \in Query /\ Len(p) = a /\ IsPrefix(p, n) /\ s \in Query /\ Len(s) = b /\ IsPrefix(s, m)
  BY <1>1, <1>2, PreIsPrefix
<1>4. IsPrefix(p, q) /\ IsPrefix(s, q)
  BY <1>1, <1>2, CommonPages
<1> HIDE DEF p, s
<1>5. ~IsPrefix(n, q)
  <2>1. IsPrefix(n, n)
    BY <1>1, PrefixOrder
  <2>2. IsPrefix(n, q) <=> Len(n) <= Common(n, q)
    BY <1>1, <2>1, SharedPrefix
  <2> QED
    BY <1>1, <1>2, <2>2
<1> HIDE DEF a, b
<1>6. IsPrefix(p, s) /\ IsPrefix(p, m)
  BY <1>1, <1>2, <1>3, <1>4, PrefixOrder
<1>7. Covers(c, n, p)
  BY <1>2, <1>3 DEF Covers
<1>8. CASE From(c, m) < a
  <2>1. Covers(c, m, p)
    BY <1>3, <1>6, <1>8 DEF Covers
  <2> QED
    BY <1>3, <1>7, <2>1 DEF Radix
<1>9. CASE a <= From(c, m)
  <2>1. PICK x \in Live(c) : IsPrefix(x, m) /\ Covers(c, x, p)
    BY <1>3, <1>6, PathHeld
  <2>2. x = n
    BY <1>3, <1>7, <2>1 DEF Radix
  <2>3. SUFFICES ASSUME n # m PROVE FALSE
    OBVIOUS
  <2>4. Len(n) <= From(c, m)
    BY <2>1, <2>2, <2>3, BelowBegins
  <2>5. IsPrefix(n, s)
    BY <1>1, <1>2, <1>3, <2>1, <2>2, <2>4, PrefixOrder
  <2>6. IsPrefix(n, q)
    BY <1>1, <1>3, <1>4, <2>5, PrefixOrder
  <2> QED
    BY <1>5, <2>6
<1> QED
  BY <1>1, <1>8, <1>9

(* A page of q's path is on a node's path up to where they part. *)
LEMMA PartsAt ==
  ASSUME NEW c, Formed(c), Radix(c), NEW q \in Query, NEW n \in Live(c), NEW p \in Query,
         Covers(c, n, p), IsPrefix(p, q), ~Leaves(c, n, q)
  PROVE  IsPrefix(n, q)
<1>1. n \in Query /\ From(c, n) \in Nat /\ Len(n) \in Nat /\ Common(n, q) \in Nat /\ Len(p) \in Nat
  BY NodeParts, PrefixOrder, CommonPages
<1>2. From(c, n) < Len(p) /\ IsPrefix(p, n)
  BY DEF Covers
<1>3. Len(p) <= Common(n, q)
  BY <1>1, <1>2, SharedPrefix
<1>4. Len(n) <= Common(n, q)
  BY <1>1, <1>2, <1>3 DEF Leaves
<1>5. IsPrefix(n, n)
  BY <1>1, PrefixOrder
<1> QED
  BY <1>1, <1>4, <1>5, SharedPrefix

(* walk() keeps the invariant, and makes q end where a node ends. *)
LEMMA WalkKeeps ==
  ASSUME NEW c, CacheInv(c), NEW q \in Query
  PROVE  LET w == Walk(c, q) IN CacheInv(w) /\ w.fault = c.fault /\ Whole(w, q)
<1> DEFINE w == Walk(c, q)
           left == {n \in Live(c) : Common(n, q) \in (c.tree[n].from + 1)..(Len(n) - 1)}
<1>1. Formed(c) /\ Radix(c) /\ Filled(c)
  BY DEF CacheInv
<1>2. \A n \in Live(c) : n \in Query /\ From(c, n) \in Nat /\ Len(n) \in Nat /\ Common(n, q) \in Nat
  BY <1>1, NodeParts, PrefixOrder, CommonPages
<1>3. \A n \in Live(c) : n \in left <=> Leaves(c, n, q)
  BY <1>2 DEF Leaves, From
<1>4. w = IF left = {} THEN c ELSE LET n == CHOOSE x \in left : TRUE IN Split(c, n, Common(n, q))
  BY DEF Walk
<1> HIDE DEF w
<1>5. CASE left = {}
  <2>1. w = c
    BY <1>4, <1>5
  <2>2. Whole(c, q)
    BY <1>1, <1>3, <1>5, PartsAt DEF Whole
  <2> QED
    BY <2>1, <2>2 DEF w
<1>6. CASE left # {}
  <2> DEFINE n == CHOOSE x \in left : TRUE
             k == Common(n, q)
             h == Pre(n, k)
  <2>1. n \in left /\ n \in Live(c)
    BY <1>6
  <2>2. w = Split(c, n, k)
    BY <1>4, <1>6
  <2> HIDE DEF n
  <2>3. n \in Query /\ k \in Nat /\ From(c, n) \in Nat /\ Len(n) \in Nat
        /\ From(c, n) < k /\ k < Len(n)
    BY <1>2, <1>3, <2>1 DEF Leaves
  <2>4. Splits(c, w, n, k)
    <3> HIDE DEF k
    <3> QED
      BY <1>1, <2>1, <2>2, <2>3, SplitIs
  <2>5. CacheInv(w)
    <3> HIDE DEF k
    <3> QED
      BY <2>1, <2>3, <2>4, SplitKeeps
  <2>6. w.fault = c.fault /\ Live(w) = Live(c) \cup {h}
    <3> HIDE DEF k
    <3> QED
      BY <2>4 DEF Splits
  <2>7. IsPrefix(h, q)
    <3>1. 1 <= k /\ k <= Len(n)
      BY <2>3
    <3> QED
      BY <2>3, <3>1, CommonPages
  <2>8. ASSUME NEW m \in Live(w), NEW p \in Query, Covers(w, m, p), IsPrefix(p, q)
        PROVE  IsPrefix(m, q)
    <3>1. /\ Covers(w, n, p) <=> Covers(c, n, p) /\ k < Len(p)
          /\ \A x \in Live(c) : x # n => (Covers(w, x, p) <=> Covers(c, x, p))
      <4> HIDE DEF k
      <4> QED
        BY <1>1, <2>1, <2>3, <2>4, SplitCovers
    <3>2. CASE m = h
      BY <2>7, <3>2
    <3>3. CASE m = n
      <4>1. IsPrefix(p, n) /\ k < Len(p)
        BY <2>8, <3>1, <3>3 DEF Covers
      <4>2. Len(p) <= k
        BY <2>3, <2>8, <4>1, SharedPrefix
      <4>3. Len(p) \in Nat
        BY PrefixOrder
      <4> QED
        BY <2>3, <4>1, <4>2, <4>3
    <3>4. CASE m # h /\ m # n
      <4>1. m \in Live(c) /\ Covers(c, m, p)
        BY <2>6, <2>8, <3>1, <3>4
      <4>2. ~Leaves(c, m, q)
        <5>1. SUFFICES ASSUME Leaves(c, m, q) PROVE FALSE
          OBVIOUS
        <5>2. Leaves(c, n, q)
          BY <1>3, <2>1
        <5>3. Common(n, q) <= Common(m, q) \/ Common(m, q) <= Common(n, q)
          BY <1>2, <2>1, <4>1
        <5>4. n = m
          BY <1>1, <2>1, <4>1, <5>1, <5>2, <5>3, LeftOnce
        <5> QED
          BY <3>4, <5>4
      <4> QED
        BY <1>1, <2>8, <4>1, <4>2, PartsAt
    <3> QED
      BY <3>2, <3>3, <3>4
  <2>9. Whole(w, q)
    BY <2>8 DEF Whole
  <2> QED
    BY <2>5, <2>6, <2>9 DEF w
<1> QED
  BY <1>5, <1>6

-----------------------------------------------------------------------------
(* Calls that change the free lists, or the locks.                         *)

(* The invariant is about the tree, the transfers and the node_refs. *)
LEMMA SameTree ==
  ASSUME NEW c, NEW d, CacheInv(c), Record(d), d.tree = c.tree, d.ops = c.ops, d.locks = c.locks
  PROVE  CacheInv(d)
<1>1. /\ Live(d) = Live(c) /\ \A n : From(d, n) = From(c, n)
      /\ \A n, t : Res(d, n, t) = Res(c, n, t) /\ (Has(d, n, t) <=> Has(c, n, t))
      /\ \A n, p : Covers(d, n, p) <=> Covers(c, n, p)
      /\ \A n, t : LocksOn(d, n, t) = LocksOn(c, n, t)
  BY DEF Live, From, Res, Has, Covers, LocksOn
<1>2. Formed(d)
  BY <1>1 DEF CacheInv, Formed
<1>3. Radix(d)
  BY <1>1 DEF CacheInv, Radix
<1>4. Filled(d)
  BY <1>1 DEF CacheInv, Filled
<1>5. NoBareLeaf(d)
  BY <1>1 DEF CacheInv, NoBareLeaf, Carried
<1>6. OpsKept(d)
  BY <1>1 DEF CacheInv, OpsKept, OpKept
<1>7. PathsKept(d)
  BY <1>1 DEF CacheInv, PathsKept
<1>8. LocksCounted(d)
  BY <1>1 DEF CacheInv, LocksCounted
<1> QED
  BY <1>2, <1>3, <1>4, <1>5, <1>6, <1>7, <1>8 DEF CacheInv

(* The locks of a resource after lock() or unlock(). *)
Counted(k, by) == IF k + by < 0 THEN k ELSE k + by

(* d is c with the resources of tier t from n to the root locked anew. *)
Marks(c, d, n, t, by) ==
  /\ Record(d) /\ d.ops = c.ops /\ d.fault = c.fault /\ d.free = c.free /\ Live(d) = Live(c)
  /\ \A m \in Live(c) : d.tree[m] \in TreeNode /\ From(d, m) = From(c, m)
  /\ \A m \in Live(c), u \in Tier :
       /\ Res(d, m, u).state = Res(c, m, u).state /\ Res(d, m, u).units = Res(c, m, u).units
       /\ IF IsPrefix(m, n) /\ Has(c, m, t) /\ u = t
          THEN Res(d, m, u).refs = Counted(Res(c, m, u).refs, by)
          ELSE Res(d, m, u) = Res(c, m, u)

(* OnChain, and the node_ref r. *)
LEMMA OnChainMarks ==
  ASSUME NEW c, Formed(c), NEW n, NEW t \in Tier, NEW by \in {1, -1}, NEW r \in Pin, NEW l
  PROVE  LET d == [OnChain(c, n, t, by) EXCEPT !.locks[r] = l] IN
         Marks(c, d, n, t, by) /\ d.locks = [c.locks EXCEPT ![r] = l]
<1> DEFINE e == OnChain(c, n, t, by)
           d == [e EXCEPT !.locks[r] = l]
           up(m) == [c.tree[m] EXCEPT !.res[t].refs = IF @ + by < 0 THEN @ ELSE @ + by]
           tr == [m \in Live(c) |-> IF m \in Chain(c, n) /\ Has(c, m, t) THEN up(m) ELSE c.tree[m]]
<1>1. Record(c)
  BY DEF Formed
<1>2. e = [c EXCEPT !.tree = tr]
  BY DEF OnChain
<1>3. ASSUME NEW m \in Live(c)
      PROVE  LET x == IF m \in Chain(c, n) /\ Has(c, m, t) THEN up(m) ELSE c.tree[m] IN
             /\ x \in TreeNode /\ x.from = From(c, m)
             /\ \A u \in Tier :
                  /\ x.res[u].state = Res(c, m, u).state /\ x.res[u].units = Res(c, m, u).units
                  /\ IF IsPrefix(m, n) /\ Has(c, m, t) /\ u = t
                     THEN x.res[u].refs = Counted(Res(c, m, u).refs, by)
                     ELSE x.res[u] = Res(c, m, u)
  <2>1. c.tree[m] \in TreeNode
    BY DEF Formed
  <2>2. CASE ~(m \in Chain(c, n) /\ Has(c, m, t))
    BY <2>1, <2>2 DEF Chain, From, Res
  <2>3. CASE m \in Chain(c, n) /\ Has(c, m, t)
    <3> DEFINE b == c.tree[m].res[t]
               v == Counted(b.refs, by)
               s == [b EXCEPT !.refs = v]
               x == up(m)
    <3>1. c.tree[m].res \in [Tier -> Resource] /\ c.tree[m].from \in Nat /\ b \in Resource
      BY <2>1 DEF TreeNode
    <3>2. v \in Nat
      <4>1. b.refs \in Nat
        BY <3>1 DEF Resource
      <4> HIDE DEF b
      <4> QED
        BY <4>1 DEF Counted
    <3>3. x = [c.tree[m] EXCEPT !.res[t].refs = v]
      BY DEF Counted
    <3>4. x = [c.tree[m] EXCEPT !.res = [c.tree[m].res EXCEPT ![t] = s]]
      BY <3>3
    <3> HIDE DEF v, x
    <3>5. s \in Resource /\ s.state = b.state /\ s.units = b.units /\ s.refs = v
      BY <3>1, <3>2 DEF Resource
    <3> HIDE DEF s
    <3>6. x = [from |-> c.tree[m].from, res |-> [c.tree[m].res EXCEPT ![t] = s]]
      BY <2>1, <3>4 DEF TreeNode
    <3>7. x \in TreeNode /\ x.from = From(c, m)
      BY <3>1, <3>5, <3>6 DEF TreeNode, From
    <3>8. \A u \in Tier : x.res[u] = IF u = t THEN s ELSE Res(c, m, u)
      BY <3>1, <3>6 DEF Res
    <3>9. b = Res(c, m, t) /\ IsPrefix(m, n)
      BY <2>3 DEF Res, Chain
    <3> QED
      BY <2>3, <3>5, <3>7, <3>8, <3>9 DEF x, v
  <2> QED
    BY <2>2, <2>3
<1>4. DOMAIN tr = Live(c) /\ \A m \in Live(c) :
        tr[m] = IF m \in Chain(c, n) /\ Has(c, m, t) THEN up(m) ELSE c.tree[m]
  OBVIOUS
<1> HIDE DEF tr, e
<1>5. /\ Record(e) /\ e.tree = tr /\ e.ops = c.ops /\ e.fault = c.fault /\ e.locks = c.locks
      /\ e.free = c.free
  BY <1>1, <1>2 DEF Record
<1>6. d = [e EXCEPT !.locks = [c.locks EXCEPT ![r] = l]]
  BY <1>5
<1> HIDE DEF d
<1>7. /\ Record(d) /\ d.tree = tr /\ d.ops = c.ops /\ d.fault = c.fault /\ d.free = c.free
      /\ d.locks = [c.locks EXCEPT ![r] = l]
  BY <1>5, <1>6 DEF Record
<1> HIDE DEF up
<1>8. \A m \in Live(c) : From(d, m) = d.tree[m].from /\ \A u \in Tier : Res(d, m, u) = d.tree[m].res[u]
  BY DEF From, Res
<1>9. Marks(c, d, n, t, by)
  <2>1. Live(d) = Live(c)
    BY <1>4, <1>7 DEF Live
  <2>2. ASSUME NEW m \in Live(c)
        PROVE  /\ d.tree[m] \in TreeNode /\ From(d, m) = From(c, m)
               /\ \A u \in Tier :
                    /\ Res(d, m, u).state = Res(c, m, u).state /\ Res(d, m, u).units = Res(c, m, u).units
                    /\ IF IsPrefix(m, n) /\ Has(c, m, t) /\ u = t
                       THEN Res(d, m, u).refs = Counted(Res(c, m, u).refs, by)
                       ELSE Res(d, m, u) = Res(c, m, u)
    <3>1. d.tree[m] = IF m \in Chain(c, n) /\ Has(c, m, t) THEN up(m) ELSE c.tree[m]
      BY <1>4, <1>7
    <3> QED
      BY <1>3, <1>8, <3>1
  <2> QED
    BY <1>7, <2>1, <2>2 DEF Marks
<1> QED
  BY <1>7, <1>9 DEF d, e

(* The counts of locks leave the tree and the transfers as they are. *)
LEMMA MarksKeep ==
  ASSUME NEW c, NEW d, NEW n, NEW t, NEW by, CacheInv(c), Marks(c, d, n, t, by)
  PROVE  Radix(d) /\ Filled(d) /\ NoBareLeaf(d) /\ OpsKept(d)
<1>1. /\ Live(d) = Live(c) /\ d.ops = c.ops
      /\ \A m \in Live(c) : From(d, m) = From(c, m)
      /\ \A m \in Live(c), u \in Tier :
           Res(d, m, u).state = Res(c, m, u).state /\ Res(d, m, u).units = Res(c, m, u).units
  BY DEF Marks
<1>2. \A m \in Live(c), p \in Query : Covers(d, m, p) <=> Covers(c, m, p)
  BY <1>1 DEF Covers
<1>3. \A m \in Live(c), u \in Tier : Has(d, m, u) <=> Has(c, m, u)
  BY <1>1 DEF Has, Res
<1>4. Radix(d)
  BY <1>1, <1>2 DEF CacheInv, Radix
<1>5. Filled(d)
  <2>1. ASSUME NEW m \in Live(c), NEW u \in Tier PROVE Right(m, From(d, m), Res(d, m, u))
    <3>1. Right(m, From(c, m), Res(c, m, u))
      BY DEF CacheInv, Filled
    <3>2. Res(c, m, u).state = "none" => Res(d, m, u) = Res(c, m, u)
      BY DEF Marks, Has, Res
    <3> QED
      BY <1>1, <3>1, <3>2 DEF Right
  <2> QED
    BY <1>1, <2>1 DEF Filled
<1>6. NoBareLeaf(d)
  BY <1>1, <1>3 DEF CacheInv, NoBareLeaf, Carried
<1>7. OpsKept(d)
  <2>1. \A o \in c.ops : o.dst \in Tier /\ OpKept(c, o)
    BY DEF CacheInv, OpsKept, Formed, PendingOp
  <2>2. \A o \in c.ops : OpKept(d, o)
    BY <1>1, <2>1 DEF OpKept
  <2> QED
    BY <1>1, <2>2 DEF CacheInv, OpsKept
<1> QED
  BY <1>4, <1>5, <1>6, <1>7

(* lock() of a node up to which tier t is ready. *)
LEMMA LockKeeps ==
  ASSUME NEW c, NEW d, CacheInv(c), NEW t \in Tier, NEW n \in Matched(c, t), NEW r \in Pin,
         c.locks[r] = None, Marks(c, d, n, t, 1),
         d.locks = [c.locks EXCEPT ![r] = [node |-> n, tier |-> t, path |-> n]]
  PROVE  CacheInv(d)
<1> DEFINE l == [node |-> n, tier |-> t, path |-> n]
<1>1. /\ Formed(c) /\ Radix(c) /\ PathsKept(c) /\ LocksCounted(c)
      /\ DOMAIN c.locks = Pin
  BY DEF CacheInv, Formed
<1>2. n \in Live(c) /\ n \in Query /\ \A m \in Live(c) : IsPrefix(m, n) => Res(c, m, t).state = "ready"
  <2>1. n \in Live(c) /\ \A m \in Live(c) : IsPrefix(m, n) => Res(c, m, t).state = "ready"
    BY DEF Matched, Chain, Res
  <2> QED
    BY <1>1, <2>1, NodeParts
<1>3. l \in NodeRef /\ l.node = n /\ l.tier = t /\ l.path = n
  BY <1>2 DEF NodeRef
<1>4. d.locks[r] = l /\ DOMAIN d.locks = Pin /\ \A r1 \in Pin : r1 # r => d.locks[r1] = c.locks[r1]
  BY <1>1
<1> HIDE DEF l
<1>5. Radix(d) /\ Filled(d) /\ NoBareLeaf(d) /\ OpsKept(d)
  BY MarksKeep
<1>6. /\ Record(d) /\ d.ops = c.ops /\ Live(d) = Live(c)
      /\ \A m \in Live(c) : d.tree[m] \in TreeNode /\ From(d, m) = From(c, m)
      /\ \A m \in Live(c), u \in Tier :
           Res(d, m, u).state = Res(c, m, u).state /\ Res(d, m, u).units = Res(c, m, u).units
  BY DEF Marks
<1>7. \A m \in Live(c), p \in Query : Covers(d, m, p) <=> Covers(c, m, p)
  BY <1>6 DEF Covers
<1>8. Formed(d)
  <2>1. IsFiniteSet({r1 \in Pin : d.locks[r1] # None})
    <3> DEFINE S == {r1 \in Pin : c.locks[r1] # None}
    <3>1. {r1 \in Pin : d.locks[r1] # None} \subseteq S \cup {r}
      BY <1>4
    <3>2. IsFiniteSet(S \cup {r})
      BY <1>1, FS_AddElement DEF Formed
    <3> QED
      BY <3>1, <3>2, FS_Subset
  <2> QED
    BY <1>1, <1>3, <1>4, <1>6, <2>1 DEF Formed
<1>9. PathsKept(d)
  <2>1. ASSUME NEW r1 \in Pin, d.locks[r1] # None
        PROVE  /\ IsPrefix(d.locks[r1].node, d.locks[r1].path)
               /\ \A p \in Query : IsPrefix(p, d.locks[r1].path) =>
                    \E m \in Live(c) : /\ IsPrefix(m, d.locks[r1].path) /\ Covers(d, m, p)
                                       /\ Res(d, m, d.locks[r1].tier).state = "ready"
    <3>1. CASE r1 = r
      <4>1. IsPrefix(n, n)
        BY <1>2, PrefixOrder
      <4>2. ASSUME NEW p \in Query, IsPrefix(p, n)
            PROVE  \E m \in Live(c) : IsPrefix(m, n) /\ Covers(d, m, p) /\ Res(d, m, t).state = "ready"
        <5>1. PICK m \in Live(c) : IsPrefix(m, n) /\ Covers(c, m, p)
          BY <1>1, <1>2, <4>2, PathHeld
        <5> QED
          BY <1>2, <1>6, <1>7, <5>1
      <4> QED
        BY <1>3, <1>4, <3>1, <4>1, <4>2
    <3>2. CASE r1 # r
      <4>1. d.locks[r1] = c.locks[r1] /\ c.locks[r1].tier \in Tier
        BY <1>1, <1>4, <2>1, <3>2 DEF Formed, NodeRef
      <4> QED
        BY <1>1, <1>6, <1>7, <2>1, <4>1 DEF PathsKept
    <3> QED
      BY <3>1, <3>2
  <2> QED
    BY <1>6, <2>1 DEF PathsKept
<1>10. LocksCounted(d)
  <2>1. ASSUME NEW m \in Live(c), NEW u \in Tier
        PROVE  Cardinality(LocksOn(d, m, u)) <= Res(d, m, u).refs
    <3>1. Cardinality(LocksOn(c, m, u)) <= Res(c, m, u).refs /\ IsFiniteSet(LocksOn(c, m, u))
          /\ Cardinality(LocksOn(c, m, u)) \in Nat
      BY <1>1, LocksFinite DEF LocksCounted
    <3>2. Cardinality(LocksOn(d, m, u)) \in Nat /\ Res(c, m, u).refs \in Nat
      BY <1>1, <1>8, LocksFinite, NodeParts, ResourceParts
    <3>3. CASE IsPrefix(m, n) /\ u = t
      <4>1. LocksOn(d, m, u) \subseteq LocksOn(c, m, u) \cup {r}
        BY <1>4 DEF LocksOn
      <4>2. r \notin LocksOn(c, m, u)
        BY DEF LocksOn
      <4>3. /\ IsFiniteSet(LocksOn(c, m, u) \cup {r})
            /\ Cardinality(LocksOn(c, m, u) \cup {r}) = Cardinality(LocksOn(c, m, u)) + 1
        BY <3>1, <4>2, FS_AddElement
      <4>4. Cardinality(LocksOn(d, m, u)) <= Cardinality(LocksOn(c, m, u) \cup {r})
        BY <4>1, <4>3, FS_Subset
      <4>5. Has(c, m, t)
        BY <1>2, <3>3 DEF Has, Res
      <4>6. Res(d, m, u).refs = Counted(Res(c, m, u).refs, 1)
        BY <3>3, <4>5 DEF Marks
      <4>7. Res(d, m, u).refs = Res(c, m, u).refs + 1
        BY <3>2, <4>6 DEF Counted
      <4> QED
        BY <3>1, <3>2, <4>3, <4>4, <4>7
    <3>4. CASE ~(IsPrefix(m, n) /\ u = t)
      <4>1. LocksOn(d, m, u) \subseteq LocksOn(c, m, u)
        BY <1>3, <1>4, <3>4 DEF LocksOn
      <4>2. Cardinality(LocksOn(d, m, u)) <= Cardinality(LocksOn(c, m, u))
        BY <3>1, <4>1, FS_Subset
      <4>3. Res(d, m, u) = Res(c, m, u)
        BY <3>4 DEF Marks
      <4> QED
        BY <3>1, <3>2, <4>2, <4>3
    <3> QED
      BY <3>3, <3>4
  <2> QED
    BY <1>6, <2>1 DEF LocksCounted
<1> QED
  BY <1>5, <1>8, <1>9, <1>10 DEF CacheInv

(* ~node_ref() unlocks no more than lock() had locked. *)
LEMMA ReleaseKeeps ==
  ASSUME NEW c, NEW d, CacheInv(c), NEW r \in Pin, c.locks[r] # None,
         Marks(c, d, c.locks[r].node, c.locks[r].tier, -1), d.locks = [c.locks EXCEPT ![r] = None]
  PROVE  CacheInv(d)
<1> DEFINE l == c.locks[r]
<1>1. /\ Formed(c) /\ Radix(c) /\ PathsKept(c) /\ LocksCounted(c)
      /\ DOMAIN c.locks = Pin /\ l \in NodeRef
  BY DEF CacheInv, Formed
<1>2. IsPrefix(l.node, l.path) /\ l.node \in Query /\ l.path \in Query /\ l.tier \in Tier
  BY <1>1 DEF PathsKept, NodeRef
<1>3. d.locks[r] = None /\ DOMAIN d.locks = Pin /\ \A r1 \in Pin : r1 # r => d.locks[r1] = c.locks[r1]
  BY <1>1
<1>4. Marks(c, d, l.node, l.tier, -1)
  OBVIOUS
<1> HIDE DEF l
<1>5. Radix(d) /\ Filled(d) /\ NoBareLeaf(d) /\ OpsKept(d)
  BY <1>4, MarksKeep
<1>6. /\ Record(d) /\ d.ops = c.ops /\ Live(d) = Live(c)
      /\ \A m \in Live(c) : d.tree[m] \in TreeNode /\ From(d, m) = From(c, m)
      /\ \A m \in Live(c), u \in Tier :
           Res(d, m, u).state = Res(c, m, u).state /\ Res(d, m, u).units = Res(c, m, u).units
  BY <1>4 DEF Marks
<1>7. \A m \in Live(c), p \in Query : Covers(d, m, p) <=> Covers(c, m, p)
  BY <1>6 DEF Covers
<1>8. Formed(d)
  <2>1. IsFiniteSet({r1 \in Pin : d.locks[r1] # None})
    <3>1. {r1 \in Pin : d.locks[r1] # None} \subseteq {r1 \in Pin : c.locks[r1] # None}
      BY <1>3
    <3> QED
      BY <1>1, <3>1, FS_Subset DEF Formed
  <2> QED
    BY <1>1, <1>3, <1>6, <2>1 DEF Formed
<1>9. PathsKept(d)
  <2>1. ASSUME NEW r1 \in Pin, d.locks[r1] # None
        PROVE  /\ IsPrefix(d.locks[r1].node, d.locks[r1].path)
               /\ \A p \in Query : IsPrefix(p, d.locks[r1].path) =>
                    \E m \in Live(c) : /\ IsPrefix(m, d.locks[r1].path) /\ Covers(d, m, p)
                                       /\ Res(d, m, d.locks[r1].tier).state = "ready"
    <3>1. d.locks[r1] = c.locks[r1] /\ c.locks[r1].tier \in Tier
      BY <1>1, <1>3, <2>1 DEF Formed, NodeRef
    <3> QED
      BY <1>1, <1>6, <1>7, <2>1, <3>1 DEF PathsKept
  <2> QED
    BY <1>6, <2>1 DEF PathsKept
<1>10. LocksCounted(d)
  <2>1. ASSUME NEW m \in Live(c), NEW u \in Tier
        PROVE  Cardinality(LocksOn(d, m, u)) <= Res(d, m, u).refs
    <3>1. Cardinality(LocksOn(c, m, u)) <= Res(c, m, u).refs /\ IsFiniteSet(LocksOn(c, m, u))
          /\ Cardinality(LocksOn(c, m, u)) \in Nat
      BY <1>1, LocksFinite DEF LocksCounted
    <3>2. Cardinality(LocksOn(d, m, u)) \in Nat /\ Res(c, m, u).refs \in Nat /\ m \in Query
      BY <1>1, <1>8, LocksFinite, NodeParts, ResourceParts
    <3>3. LocksOn(d, m, u) \subseteq LocksOn(c, m, u) \ {r}
      BY <1>3 DEF LocksOn
    <3>4. CASE IsPrefix(m, l.node) /\ Has(c, m, l.tier) /\ u = l.tier
      <4>1. IsPrefix(m, l.path)
        BY <1>2, <3>2, <3>4, PrefixOrder
      <4>2. r \in LocksOn(c, m, u)
        BY <3>4, <4>1 DEF LocksOn, l
      <4>3. /\ IsFiniteSet(LocksOn(c, m, u) \ {r})
            /\ Cardinality(LocksOn(c, m, u) \ {r}) = Cardinality(LocksOn(c, m, u)) - 1
        BY <3>1, <4>2, FS_RemoveElement
      <4>4. Cardinality(LocksOn(d, m, u)) <= Cardinality(LocksOn(c, m, u) \ {r})
        BY <3>3, <4>3, FS_Subset
      <4>5. Res(d, m, u).refs = Counted(Res(c, m, u).refs, -1)
        BY <1>4, <3>4 DEF Marks
      <4>6. Res(c, m, u).refs >= 1
        BY <3>1, <3>2, <4>3, <4>4
      <4>7. Res(d, m, u).refs = Res(c, m, u).refs - 1
        BY <3>2, <4>5, <4>6 DEF Counted
      <4> QED
        BY <3>1, <3>2, <4>3, <4>4, <4>7
    <3>5. CASE ~(IsPrefix(m, l.node) /\ Has(c, m, l.tier) /\ u = l.tier)
      <4>1. LocksOn(d, m, u) \subseteq LocksOn(c, m, u)
        BY <3>3
      <4>2. Cardinality(LocksOn(d, m, u)) <= Cardinality(LocksOn(c, m, u))
        BY <3>1, <4>1, FS_Subset
      <4>3. Res(d, m, u) = Res(c, m, u)
        BY <1>4, <3>5 DEF Marks
      <4> QED
        BY <3>1, <3>2, <4>2, <4>3
    <3> QED
      BY <3>4, <3>5
  <2> QED
    BY <1>6, <2>1 DEF LocksCounted
<1> QED
  BY <1>5, <1>8, <1>9, <1>10 DEF CacheInv

-----------------------------------------------------------------------------
(* insert().                                                               *)

(* walk() returns the last node of q's path up to which tier t is ready. *)
LEMMA LastNodeIs ==
  ASSUME NEW c, Formed(c), NEW q \in Query, NEW t \in Tier
  PROVE  LET x == LastNode(c, q, t) IN
         /\ Len(x) \in Nat /\ Len(x) <= Len(q)
         /\ Len(x) > 0 => x \in Live(c) /\ IsPrefix(x, q)
<1> DEFINE on == Chain(c, q) \cap Matched(c, t)
           x == LastNode(c, q, t)
           S == {Len(q) - Len(m) : m \in on}
<1>1. /\ Len(q) \in Nat
      /\ \A m \in on : m \in Live(c) /\ m \in Query /\ IsPrefix(m, q) /\ Len(m) \in Nat /\ Len(m) <= Len(q)
  BY NodeParts, PrefixOrder DEF Chain
<1>2. x = CHOOSE n \in on \cup {Root} : \A m \in on : Len(m) <= Len(n)
  BY DEF LastNode
<1>3. \E n \in on \cup {Root} : \A m \in on : Len(m) <= Len(n)
  <2>1. CASE on = {}
    BY <2>1
  <2>2. CASE on # {}
    <3>1. S \in SUBSET Nat /\ S # {}
      BY <1>1, <2>2
    <3>2. PICK y \in S : \A z \in S : y <= z
      BY <3>1, LeastNumber
    <3>3. PICK n \in on : y = Len(q) - Len(n)
      BY <3>2
    <3>4. ASSUME NEW m \in on PROVE Len(m) <= Len(n)
      <4>1. y <= Len(q) - Len(m)
        BY <3>2
      <4> QED
        BY <1>1, <3>3, <4>1
    <3> QED
      BY <3>3, <3>4
  <2> QED
    BY <2>1, <2>2
<1> HIDE DEF on, x
<1>4. x \in on \cup {Root}
  BY <1>2, <1>3
<1>5. Len(Root) = 0
  BY DEF Root
<1>6. CASE x \in on
  BY <1>1, <1>6 DEF x
<1>7. CASE x = Root
  BY <1>1, <1>5, <1>7 DEF x
<1> QED
  BY <1>4, <1>6, <1>7

(* The units of the pages of q from depth k on. *)
LEMMA NewUnits ==
  ASSUME NEW q \in Query, NEW k \in Nat, k < Len(q)
  PROVE  LET u == Suffix([i \in DOMAIN q |-> Pre(q, i)], k) IN
         /\ u \in Seq(Content) /\ Len(u) = Len(q) - k
         /\ \A i \in 1..(Len(q) - k) : u[i] = Pre(q, k + i)
<1> DEFINE w == [i \in DOMAIN q |-> Pre(q, i)]
           u == Suffix(w, k)
           a == k + 1
           b == Len(q)
<1>1. Len(q) \in Nat /\ q \in [1..Len(q) -> Page]
  BY QueryIsPath
<1>2. \A i \in 1..Len(q) : Pre(q, i) \in Query
  BY <1>1, PreIsPath
<1>3. DOMAIN q = 1..Len(q)
  BY <1>1
<1>4. /\ w \in [1..Len(q) -> Content]
      /\ \A i \in 1..Len(q) : w[i] = Pre(q, i)
  BY <1>2, <1>3 DEF Content
<1> HIDE DEF w
<1>5. w \in Seq(Content) /\ Len(w) = Len(q)
  BY <1>1, <1>4
<1>6. a \in 1..(Len(w) + 1) /\ b \in (a - 1)..Len(w) /\ a <= b /\ a \in Nat /\ b \in Nat
  BY <1>1, <1>5
<1>7. b - a + 1 = Len(q) - k
  BY <1>1
<1>8. u = SubSeq(w, a, b)
  BY <1>5 DEF Suffix
<1> HIDE DEF a, b, u
<1>9. /\ SubSeq(w, a, b) \in Seq(Content)
      /\ Len(SubSeq(w, a, b)) = (IF a <= b THEN b - a + 1 ELSE 0)
      /\ \A i \in 1..(b - a + 1) : SubSeq(w, a, b)[i] = w[a + i - 1]
  BY <1>5, <1>6, SubSeqProperties
<1>10. ASSUME NEW i \in 1..(Len(q) - k) PROVE u[i] = Pre(q, k + i)
  <2>1. a + i - 1 = k + i /\ k + i \in 1..Len(q)
    BY <1>1 DEF a
  <2>2. u[i] = w[k + i]
    BY <1>7, <1>8, <1>9, <2>1
  <2> QED
    BY <1>4, <2>1, <2>2
<1>11. Len(u) = Len(q) - k
  BY <1>6, <1>7, <1>8, <1>9
<1> QED
  BY <1>8, <1>9, <1>10, <1>11 DEF u, w

(* d is c with a new node for q from depth k on. *)
Grows(c, d, q, k, t) ==
  /\ Record(d) /\ d.ops = c.ops /\ d.locks = c.locks /\ Live(d) = Live(c) \cup {q}
  /\ \A n \in Live(c) : n # q => d.tree[n] = c.tree[n]
  /\ d.tree[q] \in TreeNode /\ From(d, q) = k /\ Has(d, q, t)
  /\ \A u \in Tier : Right(q, k, Res(d, q, u))

(* A new node where no node holds q's path any further. *)
LEMMA GrowKeeps ==
  ASSUME NEW c, NEW d, CacheInv(c), NEW q \in Query, Whole(c, q), NEW k \in Nat, k < Len(q),
         NEW t \in Tier, k > 0 => Pre(q, k) \in Live(c),
         \A n \in Live(c) : IsPrefix(n, q) => From(c, n) < k, Grows(c, d, q, k, t)
  PROVE  CacheInv(d)
<1>1. /\ Formed(c) /\ Radix(c) /\ Filled(c) /\ NoBareLeaf(c)
      /\ OpsKept(c) /\ PathsKept(c) /\ LocksCounted(c)
  BY DEF CacheInv
<1>2. /\ Record(d) /\ d.ops = c.ops /\ d.locks = c.locks /\ Live(d) = Live(c) \cup {q}
      /\ \A n \in Live(c) : n # q => d.tree[n] = c.tree[n]
      /\ d.tree[q] \in TreeNode /\ From(d, q) = k /\ Has(d, q, t)
      /\ \A u \in Tier : Right(q, k, Res(d, q, u))
  BY DEF Grows
<1>3. Len(q) \in Nat /\ \A n \in Live(c) : n \in Query /\ Len(n) \in Nat /\ From(c, n) \in Nat
  BY <1>1, NodeParts, PrefixOrder
<1>4. ASSUME NEW n \in Live(c), IsPrefix(n, q) PROVE Len(n) <= k
  <2>1. From(c, n) < k /\ k > 0
    BY <1>3, <1>4
  <2> DEFINE p == Pre(q, k)
  <2>2. p \in Live(c) /\ p \in Query /\ Len(p) = k /\ IsPrefix(p, q)
    BY <1>3, <2>1, PreIsPrefix
  <2> HIDE DEF p
  <2>3. SUFFICES ASSUME k < Len(n) PROVE FALSE
    BY <1>3
  <2>4. IsPrefix(p, n) /\ p # n
    BY <1>3, <1>4, <2>2, <2>3, PrefixOrder
  <2>5. Len(p) <= From(c, n)
    BY <1>1, <2>2, <2>4, BelowBegins
  <2> QED
    BY <1>3, <2>1, <2>2, <2>5
<1>5. ASSUME NEW n \in Live(c), NEW p \in Query, IsPrefix(p, q), k < Len(p), Covers(c, n, p) PROVE FALSE
  <2>1. IsPrefix(n, q) /\ IsPrefix(p, n)
    BY <1>5 DEF Whole, Covers
  <2>2. Len(n) <= k /\ Len(p) <= Len(n) /\ Len(p) \in Nat
    BY <1>3, <1>4, <2>1, PrefixOrder
  <2> QED
    BY <1>3, <1>5, <2>2
<1>6. IsPrefix(q, q)
  BY PrefixOrder
<1>7. q \notin Live(c)
  BY <1>3, <1>4, <1>6
<1>8. /\ \A n \in Live(c) : n # q /\ From(d, n) = From(c, n)
      /\ \A n \in Live(c) : \A u : Res(d, n, u) = Res(c, n, u) /\ (Has(d, n, u) <=> Has(c, n, u))
      /\ \A n \in Live(c) : \A p : Covers(d, n, p) <=> Covers(c, n, p)
  BY <1>2, <1>7 DEF From, Res, Has, Covers
<1>9. Formed(d)
  <2>1. IsFiniteSet(Live(d))
    BY <1>1, <1>2, FS_AddElement DEF Formed
  <2>2. \A n \in Live(d) : n \in Query /\ d.tree[n] \in TreeNode
    BY <1>1, <1>2, <1>7 DEF Formed
  <2> QED
    BY <1>1, <1>2, <2>1, <2>2 DEF Formed
<1>10. Radix(d)
  <2>1. ASSUME NEW n \in Live(d)
        PROVE  From(d, n) < Len(n) /\ (From(d, n) > 0 => Pre(n, From(d, n)) \in Live(d))
    BY <1>1, <1>2, <1>8 DEF Radix
  <2>2. ASSUME NEW x \in Live(d), NEW y \in Live(d), NEW p \in Query, Covers(d, x, p), Covers(d, y, p)
        PROVE  x = y
    <3>1. \A n \in Live(c) : ~(Covers(d, q, p) /\ Covers(d, n, p))
      BY <1>2, <1>5, <1>8 DEF Covers
    <3> QED
      BY <1>1, <1>2, <1>8, <2>2, <3>1 DEF Radix
  <2> QED
    BY <2>1, <2>2 DEF Radix
<1>11. Filled(d)
  BY <1>1, <1>2, <1>8 DEF Filled
<1>12. NoBareLeaf(d)
  <2>1. ASSUME NEW n \in Live(c) PROVE Carried(d, n)
    <3>1. Carried(c, n)
      BY <1>1 DEF NoBareLeaf
    <3> QED
      BY <1>2, <1>8, <3>1 DEF Carried
  <2>2. Carried(d, q)
    BY <1>2 DEF Carried
  <2> QED
    BY <1>2, <2>1, <2>2 DEF NoBareLeaf
<1>13. OpsKept(d)
  <2>1. \A o \in c.ops : OpKept(d, o)
    BY <1>1, <1>2, <1>8 DEF OpsKept, OpKept
  <2> QED
    BY <1>1, <1>2, <2>1 DEF OpsKept
<1>14. PathsKept(d)
  BY <1>1, <1>2, <1>8 DEF PathsKept
<1>15. LocksCounted(d)
  <2>1. \A n, u : LocksOn(d, n, u) = LocksOn(c, n, u)
    BY <1>2 DEF LocksOn
  <2>2. ASSUME NEW u \in Tier PROVE Cardinality(LocksOn(c, q, u)) <= Res(d, q, u).refs
    <3>1. LocksOn(c, q, u) = {}
      <4>1. SUFFICES ASSUME NEW r \in LocksOn(c, q, u) PROVE FALSE
        OBVIOUS
      <4>2. PICK n \in Live(c) : Covers(c, n, q)
        BY <1>1 DEF LocksOn, PathsKept
      <4> QED
        BY <1>5, <1>6, <4>2
    <3>2. Cardinality(LocksOn(c, q, u)) = 0
      BY <3>1, FS_EmptySet
    <3>3. Res(d, q, u).refs \in Nat
      BY <1>2, <1>9, NodeParts, ResourceParts
    <3> QED
      BY <3>2, <3>3
  <2> QED
    BY <1>1, <1>2, <1>8, <2>1, <2>2 DEF LocksCounted
<1> QED
  BY <1>9, <1>10, <1>11, <1>12, <1>13, <1>14, <1>15 DEF CacheInv

(* The cache after insert() with units of tier t. *)
Inserted(c, q, t) ==
  LET w == Walk(c, q)
      m == Len(LastNode(w, q, t))
      x == [w EXCEPT !.free[t] = @ + m]
      us == Suffix([i \in DOMAIN q |-> Pre(q, i)], m)
  IN IF m = Len(q) THEN x
     ELSE IF \E n \in Chain(w, q) : w.tree[n].from >= m THEN [x EXCEPT !.fault = "collision"]
     ELSE [x EXCEPT !.tree = [n \in Live(w) \cup {q} |->
            IF n # q THEN w.tree[n]
            ELSE [from |-> m, res |->
                   [Empty EXCEPT ![t] = [state |-> "ready", units |-> us, refs |-> 0]]]]]

(* insert() keeps the cache right, also when it meets a child on its way. *)
LEMMA InsertKeeps ==
  ASSUME NEW c, CacheInv(c), NEW q \in Query, NEW t \in Tier, NEW e, e = Inserted(c, q, t)
  PROVE  CacheInv(e)
<1> DEFINE w == Walk(c, q)
           m == Len(LastNode(w, q, t))
           x == [w EXCEPT !.free[t] = @ + m]
           us == Suffix([i \in DOMAIN q |-> Pre(q, i)], m)
           s == [state |-> "ready", units |-> us, refs |-> 0]
           rs == [Empty EXCEPT ![t] = s]
           nd == [from |-> m, res |-> rs]
           tr == [n \in Live(w) \cup {q} |-> IF n # q THEN w.tree[n] ELSE nd]
<1>1. e = IF m = Len(q) THEN x
          ELSE IF \E n \in Chain(w, q) : w.tree[n].from >= m THEN [x EXCEPT !.fault = "collision"]
          ELSE [x EXCEPT !.tree = tr]
  BY DEF Inserted
<1>2. CacheInv(w) /\ Whole(w, q)
  BY WalkKeeps
<1> HIDE DEF w
<1>3. Formed(w) /\ Record(w)
  BY <1>2 DEF CacheInv, Formed
<1>4. /\ m \in Nat /\ m <= Len(q)
      /\ m > 0 => LastNode(w, q, t) \in Live(w) /\ IsPrefix(LastNode(w, q, t), q)
  BY <1>3, LastNodeIs
<1>5. m > 0 => Pre(q, m) \in Live(w)
  <2>1. SUFFICES ASSUME m > 0 PROVE Pre(q, m) \in Live(w)
    OBVIOUS
  <2>2. LastNode(w, q, t) \in Query
    BY <1>3, <1>4, <2>1, NodeParts
  <2>3. LastNode(w, q, t) = Pre(q, m)
    BY <1>4, <2>1, <2>2, PrefixIsPre
  <2> QED
    BY <1>4, <2>1, <2>3
<1>6. ASSUME m # Len(q)
      PROVE  /\ us \in Seq(Content) /\ Len(us) = Len(q) - m
             /\ \A i \in 1..(Len(q) - m) : us[i] = Pre(q, m + i)
  <2> HIDE DEF m
  <2>1. m \in Nat /\ m < Len(q)
    BY <1>4, <1>6, PrefixOrder
  <2> QED
    BY <2>1, NewUnits
<1> HIDE DEF m, us
<1>7. /\ Record(x) /\ x.tree = w.tree /\ x.ops = w.ops /\ x.locks = w.locks /\ x.fault = w.fault
  BY <1>3 DEF Record
<1> HIDE DEF x, tr
<1>8. CASE m = Len(q)
  BY <1>1, <1>2, <1>7, <1>8, SameTree
<1>9. CASE m # Len(q) /\ \E n \in Chain(w, q) : w.tree[n].from >= m
  <2>1. e = [x EXCEPT !.fault = "collision"]
    BY <1>1, <1>9
  <2>2. Record(e) /\ e.tree = w.tree /\ e.ops = w.ops /\ e.locks = w.locks
    BY <1>7, <2>1 DEF Record
  <2> QED
    BY <1>2, <2>2, SameTree
<1>10. CASE m # Len(q) /\ ~\E n \in Chain(w, q) : w.tree[n].from >= m
  <2>1. e = [x EXCEPT !.tree = tr]
    BY <1>1, <1>10
  <2>2. Record(e) /\ e.tree = tr /\ e.ops = w.ops /\ e.locks = w.locks
    BY <1>7, <2>1 DEF Record
  <2>3. m < Len(q) /\ Len(q) \in Nat
    BY <1>4, <1>10, PrefixOrder
  <2>4. /\ Live(e) = Live(w) \cup {q} /\ e.tree[q] = nd
        /\ \A n \in Live(w) : n # q => e.tree[n] = w.tree[n]
    <3> HIDE DEF nd
    <3> QED
      BY <2>2 DEF Live, tr
  <2>5. s \in Resource /\ s.state = "ready" /\ s.units = us
    BY <1>6, <1>10 DEF Resource
  <2>6. Right(q, m, s)
    <3> HIDE DEF s
    <3> QED
      BY <1>6, <1>10, <2>5 DEF Right
  <2> HIDE DEF s
  <2>7. rs \in [Tier -> Resource] /\ \A u \in Tier : rs[u] = IF u = t THEN s ELSE NoRes
    BY <2>5, NothingIsResource DEF Empty
  <2> HIDE DEF rs
  <2>8. nd \in TreeNode /\ nd.from = m /\ nd.res = rs
    BY <1>4, <2>7 DEF TreeNode
  <2> HIDE DEF nd
  <2>9. From(e, q) = m /\ \A u \in Tier : Res(e, q, u) = rs[u]
    BY <2>4, <2>8 DEF From, Res
  <2>10. Has(e, q, t)
    BY <2>5, <2>7, <2>9 DEF Has, Res
  <2>11. \A u \in Tier : Right(q, m, Res(e, q, u))
    BY <2>6, <2>7, <2>9, NothingIsRight
  <2>12. Grows(w, e, q, m, t)
    BY <2>2, <2>4, <2>8, <2>9, <2>10, <2>11 DEF Grows
  <2>13. \A n \in Live(w) : IsPrefix(n, q) => From(w, n) < m
    <3>1. \A n \in Live(w) : From(w, n) \in Nat
      BY <1>3, NodeParts
    <3> QED
      BY <1>4, <1>10, <3>1 DEF Chain, From
  <2> QED
    BY <1>2, <1>4, <1>5, <2>3, <2>12, <2>13, GrowKeeps
<1> QED
  BY <1>8, <1>9, <1>10

-----------------------------------------------------------------------------
(* The calls keep the invariant.                                           *)

(* What a caller holds has a tier. *)
HandKept == DOMAIN hand = Caller /\ \A r \in Caller : hand[r] # None => hand[r].tier \in Tier

(* The inductive invariant of the specification. *)
IInv == HandKept /\ (Sound => CacheInv(cache))

(* An empty cache is right. *)
LEMMA InitKeeps ==
  ASSUME Init
  PROVE  IInv
<1>1. /\ cache = [tree |-> <<>>, free |-> [t \in Tier |-> Total[t] - 1], ops |-> {},
                  stray |-> {}, locks |-> [r \in Pin |-> None], fault |-> "none"]
      /\ hand = [r \in Caller |-> None]
  BY DEF Init
<1> DEFINE f == [t \in Tier |-> Total[t] - 1]
           k == [r \in Pin |-> None]
<1>2. /\ Record(cache) /\ cache.tree = <<>> /\ cache.ops = {} /\ cache.locks = k
  <2> HIDE DEF f, k
  <2>1. cache = [tree |-> <<>>, free |-> f, ops |-> {}, stray |-> {}, locks |-> k, fault |-> "none"]
    BY <1>1 DEF f, k
  <2> QED
    BY <2>1 DEF Record
<1>3. Live(cache) = {}
  BY <1>2 DEF Live
<1>4. DOMAIN cache.locks = Pin /\ \A r \in Pin : cache.locks[r] = None
  BY <1>2
<1>5. {r \in Pin : cache.locks[r] # None} = {}
  BY <1>4
<1>6. IsFiniteSet({})
  BY FS_EmptySet
<1>7. Formed(cache)
  BY <1>2, <1>3, <1>4, <1>5, <1>6 DEF Formed
<1>8. Radix(cache) /\ Filled(cache) /\ NoBareLeaf(cache) /\ LocksCounted(cache)
  BY <1>3 DEF Radix, Filled, NoBareLeaf, LocksCounted
<1>9. OpsKept(cache) /\ PathsKept(cache)
  BY <1>2, <1>4 DEF OpsKept, PathsKept
<1>10. HandKept
  BY <1>1 DEF HandKept
<1> QED
  BY <1>7, <1>8, <1>9, <1>10 DEF IInv, CacheInv

(* d is c with v units in the free list of t. *)
FreeWrite(c, d, t, v) ==
  /\ Record(d) /\ d.tree = c.tree /\ d.ops = c.ops /\ d.locks = c.locks
  /\ d.free = [c.free EXCEPT ![t] = v] /\ d.fault = c.fault

(* allocate() and ~owned_units() change the free list of a tier. *)
LEMMA FreeIs ==
  ASSUME NEW c, Record(c), NEW t, NEW v, NEW d,
         \/ d = [c EXCEPT !.free[t] = v]
         \/ \E s : d = [c EXCEPT !.free[t] = v, !.stray = s]
  PROVE  FreeWrite(c, d, t, v)
BY DEF Record, FreeWrite

(* They keep the invariant. *)
LEMMA FreeKeeps ==
  ASSUME NEW c, CacheInv(c), NEW t, NEW v, NEW d,
         \/ d = [c EXCEPT !.free[t] = v]
         \/ \E s : d = [c EXCEPT !.free[t] = v, !.stray = s]
  PROVE  CacheInv(d)
<1>1. Record(c)
  BY DEF CacheInv, Formed
<1>2. FreeWrite(c, d, t, v)
  BY <1>1, FreeIs
<1> QED
  BY <1>2, SameTree DEF FreeWrite

(* ensure_capacity(): the two evictions, one after the other. *)
LEMMA EnsureKeeps ==
  ASSUME CacheInv(cache), NEW t \in Tier, NEW need, NEW to \in Tier \cup {None},
         EnsureCapacity(t, need, to), cache'.fault = "none"
  PROVE  CacheInv(cache')
<1>1. cache.fault = "none" /\ to # t /\ None \notin Tier
  BY CacheAssumption DEF EnsureCapacity, Sound
<1>2. PICK first \in IF to = None THEN {<<>>} ELSE SetToSeqs(Candidates(cache, to)) :
        LET c == IF to = None THEN cache ELSE EvictUntil(cache, to, need, None, first) IN
        \E order \in SetToSeqs(Candidates(c, t)) : cache' = EvictUntil(c, t, need, to, order)
  BY DEF EnsureCapacity
<1> DEFINE c == IF to = None THEN cache ELSE EvictUntil(cache, to, need, None, first)
<1>3. PICK order \in SetToSeqs(Candidates(c, t)) : cache' = EvictUntil(c, t, need, to, order)
  BY <1>2
<1>4. CacheInv(c) /\ c.fault = "none"
  <2>1. CASE to = None
    BY <1>1, <2>1
  <2>2. CASE to # None
    <3>1. to \in Tier /\ None \in Tier \cup {None} /\ None # to
      BY <1>1, <2>2
    <3>2. first \in SetToSeqs(Candidates(cache, to))
      BY <1>2, <2>2
    <3>3. Candidates(cache, to) \in SUBSET Candidates(cache, to)
      OBVIOUS
    <3> DEFINE e == EvictUntil(cache, to, need, None, first)
    <3>4. /\ e.fault = "none" => CacheInv(e)
          /\ None = None => e.fault = "none"
      BY <1>1, <3>1, <3>2, <3>3, EvictUntilKeeps
    <3> QED
      BY <2>2, <3>4
  <2> QED
    BY <2>1, <2>2
<1> HIDE DEF c
<1>5. Candidates(c, t) \in SUBSET Candidates(c, t)
  OBVIOUS
<1> DEFINE e == EvictUntil(c, t, need, to, order)
<1>6. e.fault = "none" => CacheInv(e)
  BY <1>1, <1>3, <1>4, <1>5, EvictUntilKeeps
<1> HIDE DEF e
<1>7. cache' = e
  BY <1>3 DEF e
<1> QED
  BY <1>6, <1>7

(* evict_by_predicate(). *)
LEMMA EvictByKeeps ==
  ASSUME CacheInv(cache), NEW t \in Tier, NEW S \in SUBSET Candidates(cache, t), EvictBy(t, S)
  PROVE  CacheInv(cache')
<1>1. cache.fault = "none" /\ None \notin Tier /\ None \in Tier \cup {None} /\ None # t
  BY CacheAssumption DEF EvictBy, Sound
<1>2. PICK order \in SetToSeqs(S) : cache' = EvictUntil(cache, t, None, None, order)
  BY DEF EvictBy
<1> DEFINE e == EvictUntil(cache, t, None, None, order)
<1>3. /\ e.fault = "none" => CacheInv(e)
      /\ None = None => e.fault = "none"
  BY <1>1, <1>2, EvictUntilKeeps
<1> QED
  BY <1>2, <1>3

(* start_demote() and start_promote() keep the invariant, or overwrite. *)
LEMMA StartKeeps ==
  ASSUME CacheInv(cache), NEW src \in Tier, NEW dst \in Tier, NEW promote \in BOOLEAN,
         NEW n \in Matched(cache, src), StartTransfer(n, src, dst, promote), cache'.fault = "none"
  PROVE  CacheInv(cache')
<1> DEFINE d == Reserve(cache, n, src, dst, promote)
<1>1. src # dst /\ cache' = d /\ Formed(cache)
  BY DEF StartTransfer, CacheInv
<1>2. n \in Live(cache) /\ n \in Query
  BY <1>1, NodeParts DEF Matched
<1>3. Res(cache, n, src).state = "ready"
  BY <1>2, PrefixOrder DEF Matched, Chain, Res
<1>4. d.fault = IF InUse(Res(cache, n, dst)) THEN "overwrite" ELSE cache.fault
  BY <1>1, <1>2, ReserveWrites
<1>5. ~InUse(Res(cache, n, dst))
  <2> HIDE DEF d
  <2> QED
    BY <1>1, <1>4
<1>6. CacheInv(d)
  BY <1>1, <1>2, <1>3, <1>5, ReserveKeeps
<1> QED
  BY <1>1, <1>6

(* complete_op() keeps the invariant, or gives up a source that is held. *)
LEMMA CompleteKeeps ==
  ASSUME CacheInv(cache), NEW o \in cache.ops, NEW success \in BOOLEAN, NEW late \in BOOLEAN,
         CompleteOp(o, success, late), cache'.fault = "none"
  PROVE  CacheInv(cache')
<1>1. /\ cache.fault = "none" /\ cache' = Complete(cache, o, success, late)
      /\ success = FALSE => late = FALSE
  BY DEF CompleteOp, Sound
<1>2. CASE success = TRUE
  <2> DEFINE e == Complete(cache, o, TRUE, late)
  <2>1. e.fault = "none" => CacheInv(e)
    BY <1>1, DoneKeeps
  <2>2. cache' = e
    BY <1>1, <1>2
  <2> QED
    BY <2>1, <2>2
<1>3. CASE success = FALSE
  <2> DEFINE e == Complete(cache, o, FALSE, FALSE)
  <2>1. CacheInv(e)
    BY FailKeeps
  <2>2. cache' = e
    BY <1>1, <1>3
  <2> QED
    BY <2>1, <2>2
<1> QED
  BY <1>2, <1>3

(* After a fault nothing happens. *)
LEMMA FaultEnds ==
  ASSUME Next, ~Sound
  PROVE  UNCHANGED vars
BY DEF Next, Match, Allocate, Discard, Insert, Lock, Release, EnsureCapacity, EvictBy,
       StartTransfer, CompleteOp, FailAllInflight, Undefined

(* The calls in which a transfer or its end may take what is held. *)
MayFault ==
  \/ \E t \in Tier, need \in 1..MaxLen, to \in Tier \cup {None} : EnsureCapacity(t, need, to)
  \/ \E src, dst \in Tier, promote \in BOOLEAN :
       \E n \in Matched(cache, src) : StartTransfer(n, src, dst, promote)
  \/ \E o \in cache.ops, late \in BOOLEAN : CompleteOp(o, TRUE, late)

(* Every step keeps the cache right, or takes what is held. *)
LEMMA StepKeeps ==
  ASSUME IInv, Next, Sound
  PROVE  HandKept' /\ (cache'.fault = "none" \/ ~MayFault => CacheInv(cache'))
<1>1. HandKept /\ (Sound => CacheInv(cache))
  BY DEF IInv
<1>3. ASSUME UNCHANGED hand PROVE HandKept'
  BY <1>1, <1>3 DEF HandKept
<1>5. ASSUME NEW q \in Query, Match(q) PROVE HandKept' /\ CacheInv(cache')
  BY <1>1, <1>3, <1>5, WalkKeeps DEF Match
<1>6. ASSUME NEW r \in Caller, NEW t \in Tier, NEW n \in 1..MaxLen, Allocate(r, t, n)
      PROVE  HandKept' /\ CacheInv(cache')
  <2>1. /\ CacheInv(cache)
        /\ cache' = [cache EXCEPT !.free[t] = cache.free[t] - n, !.stray = HandedOut(cache.stray, t)]
    BY <1>1, <1>6 DEF Allocate
  <2>2. CacheInv(cache')
    BY <2>1, FreeKeeps
  <2>3. HandKept'
    BY <1>1, <1>6 DEF Allocate, HandKept
  <2> QED
    BY <2>2, <2>3
<1>7. ASSUME NEW r \in Caller, Discard(r) PROVE HandKept' /\ CacheInv(cache')
  <2> DEFINE t == hand[r].tier
  <2>1. CacheInv(cache) /\ cache' = [cache EXCEPT !.free[t] = cache.free[t] + hand[r].size]
    BY <1>1, <1>7 DEF Discard
  <2>2. CacheInv(cache')
    BY <2>1, FreeKeeps
  <2>3. HandKept'
    BY <1>1, <1>7 DEF Discard, HandKept
  <2> QED
    BY <2>2, <2>3
<1>8. ASSUME NEW r \in Caller, NEW q \in Query, Insert(r, q)
      PROVE  HandKept' /\ CacheInv(cache')
  <2> DEFINE t == hand[r].tier
  <2>1. CacheInv(cache) /\ t \in Tier
    BY <1>1, <1>8 DEF Insert, HandKept
  <2>2. cache' = Inserted(cache, q, t)
    BY <1>8 DEF Insert, Inserted
  <2> HIDE DEF t
  <2>3. CacheInv(cache')
    BY <2>1, <2>2, InsertKeeps
  <2>4. HandKept'
    BY <1>1, <1>8 DEF Insert, HandKept
  <2> QED
    BY <2>3, <2>4
<1>9. ASSUME NEW r \in Pin, Release(r) PROVE HandKept' /\ CacheInv(cache')
  <2> DEFINE l == cache.locks[r]
  <2>1. /\ CacheInv(cache) /\ l # None
        /\ cache' = [OnChain(cache, l.node, l.tier, -1) EXCEPT !.locks[r] = None]
    BY <1>1, <1>9 DEF Release
  <2>2. Formed(cache) /\ l.tier \in Tier
    BY <2>1 DEF CacheInv, Formed, NodeRef
  <2>3. -1 \in {1, -1}
    OBVIOUS
  <2>4. Marks(cache, cache', l.node, l.tier, -1) /\ cache'.locks = [cache.locks EXCEPT ![r] = None]
    <3> HIDE DEF l
    <3> QED
      BY <2>1, <2>2, <2>3, OnChainMarks
  <2>5. CacheInv(cache')
    BY <2>1, <2>4, ReleaseKeeps
  <2> QED
    BY <1>3, <1>9, <2>5 DEF Release
<1>10. ASSUME NEW r \in Pin, NEW t \in Tier, NEW n \in Matched(cache, t), Lock(r, t, n)
       PROVE  HandKept' /\ CacheInv(cache')
  <2> DEFINE l == [node |-> n, tier |-> t, path |-> n]
  <2>1. /\ CacheInv(cache) /\ cache.locks[r] = None
        /\ cache' = [OnChain(cache, n, t, 1) EXCEPT !.locks[r] = l]
    BY <1>1, <1>10 DEF Lock
  <2>2. Formed(cache) /\ 1 \in {1, -1}
    BY <2>1 DEF CacheInv
  <2>3. Marks(cache, cache', n, t, 1) /\ cache'.locks = [cache.locks EXCEPT ![r] = l]
    <3> HIDE DEF l
    <3> QED
      BY <2>1, <2>2, OnChainMarks
  <2>4. CacheInv(cache')
    BY <2>1, <2>3, LockKeeps
  <2> QED
    BY <1>3, <1>10, <2>4 DEF Lock
<1>11. ASSUME NEW t \in Tier, NEW need \in 1..MaxLen, NEW to \in Tier \cup {None},
              EnsureCapacity(t, need, to)
       PROVE  HandKept' /\ (cache'.fault = "none" => CacheInv(cache'))
  <2>1. CacheInv(cache) /\ HandKept'
    BY <1>1, <1>3, <1>11 DEF EnsureCapacity
  <2> QED
    BY <1>11, <2>1, EnsureKeeps
<1>12. ASSUME NEW t \in Tier, NEW S \in (SUBSET Candidates(cache, t)) \ {{}}, EvictBy(t, S)
       PROVE  HandKept' /\ CacheInv(cache')
  <2>1. CacheInv(cache) /\ HandKept'
    BY <1>1, <1>3, <1>12 DEF EvictBy
  <2> QED
    BY <1>12, <2>1, EvictByKeeps
<1>13. ASSUME NEW src \in Tier, NEW dst \in Tier, NEW promote \in BOOLEAN,
              NEW n \in Matched(cache, src), StartTransfer(n, src, dst, promote)
       PROVE  HandKept' /\ (cache'.fault = "none" => CacheInv(cache'))
  <2>1. CacheInv(cache) /\ HandKept'
    BY <1>1, <1>3, <1>13 DEF StartTransfer
  <2> QED
    BY <1>13, <2>1, StartKeeps
<1>14. ASSUME NEW o \in cache.ops, NEW success \in BOOLEAN, NEW late \in BOOLEAN,
              CompleteOp(o, success, late)
       PROVE  /\ HandKept' /\ (cache'.fault = "none" => CacheInv(cache'))
              /\ success = FALSE => cache'.fault = "none"
  <2>1. CacheInv(cache) /\ HandKept' /\ cache.fault = "none"
    BY <1>1, <1>3, <1>14 DEF CompleteOp, Sound
  <2>2. cache'.fault = "none" => CacheInv(cache')
    BY <1>14, <2>1, CompleteKeeps
  <2>3. ASSUME success = FALSE PROVE cache'.fault = "none"
    <3> DEFINE e == Complete(cache, o, FALSE, FALSE)
    <3>1. e.fault = cache.fault
      BY <2>1, FailKeeps
    <3>2. cache' = e
      BY <1>14, <2>3 DEF CompleteOp
    <3> QED
      BY <2>1, <3>1, <3>2
  <2> QED
    BY <2>1, <2>2, <2>3
<1>15. ASSUME FailAllInflight PROVE HandKept' /\ CacheInv(cache')
  <2>1. CacheInv(cache) /\ HandKept' /\ cache.fault = "none"
    BY <1>1, <1>3, <1>15 DEF FailAllInflight, Sound
  <2>2. PICK order \in SetToSeqs(cache.ops) :
          LET after[i \in 0..Len(order)] ==
                IF i = 0 THEN cache ELSE Complete(after[i - 1], order[i], FALSE, FALSE)
          IN cache' = after[Len(order)]
    BY <1>15 DEF FailAllInflight
  <2> QED
    BY <2>1, <2>2, FailAllKeeps
<1>16. ASSUME NEW t \in Tier, NEW need \in 1..MaxLen, NEW to \in Tier \cup {None},
              EnsureCapacity(t, need, to)
       PROVE  MayFault
  BY <1>16 DEF MayFault
<1>17. ASSUME NEW src \in Tier, NEW dst \in Tier, NEW promote \in BOOLEAN,
              NEW n \in Matched(cache, src), StartTransfer(n, src, dst, promote)
       PROVE  MayFault
  BY <1>17 DEF MayFault
<1>18. ASSUME NEW o \in cache.ops, NEW success \in BOOLEAN, NEW late \in BOOLEAN,
              CompleteOp(o, success, late)
       PROVE  MayFault \/ success = FALSE
  BY <1>18 DEF MayFault
<1>19. ~Undefined
  BY DEF Undefined
<1> HIDE DEF MayFault
<1> QED
  BY <1>5, <1>6, <1>7, <1>8, <1>9, <1>10, <1>11, <1>12, <1>13, <1>14, <1>15, <1>16, <1>17, <1>18,
     <1>19 DEF Next

(* Every step keeps the invariant. *)
LEMMA NextKeeps ==
  ASSUME IInv, [Next]_vars
  PROVE  IInv'
<1>1. CASE UNCHANGED vars
  BY <1>1 DEF IInv, HandKept, Sound, vars
<1>2. CASE Next /\ Sound
  <2>1. HandKept' /\ (cache'.fault = "none" => CacheInv(cache'))
    BY <1>2, StepKeeps
  <2> QED
    BY <2>1 DEF IInv, Sound
<1>3. CASE Next /\ ~Sound
  BY <1>1, <1>3, FaultEnds
<1> QED
  BY <1>1, <1>2, <1>3

-----------------------------------------------------------------------------
(* The properties.                                                         *)

(* The nodes of a right cache form a radix tree. *)
LEMMA IsRadixTree ==
  ASSUME IInv
  PROVE  RadixTree
<1>1. SUFFICES ASSUME Sound, NEW n \in Live(cache)
      PROVE  LET x == cache.tree[n] IN
             /\ x.from > 0 => Pre(n, x.from) \in Live(cache)
             /\ \A m \in Live(cache) \ {n} : Common(n, m) <= x.from \/ Common(n, m) <= cache.tree[m].from
             /\ \A t \in Tier : Has(cache, n, t) => Len(x.res[t].units) = Len(n) - x.from
             /\ Below(cache, n) = {} => ~Bare(cache, n)
  BY DEF RadixTree
<1>2. Formed(cache) /\ Radix(cache) /\ Filled(cache) /\ NoBareLeaf(cache)
  BY <1>1 DEF IInv, CacheInv
<1>3. /\ \A m \in Live(cache) : m \in Query /\ From(cache, m) \in Nat /\ Len(m) \in Nat
      /\ \A m \in Live(cache) : Common(n, m) \in Nat /\ Common(n, m) <= Len(n)
  BY <1>2, NodeParts, PrefixOrder, CommonPages
<1>4. From(cache, n) > 0 => Pre(n, From(cache, n)) \in Live(cache)
  BY <1>2 DEF Radix
<1>5. ASSUME NEW m \in Live(cache) \ {n}
      PROVE  Common(n, m) <= From(cache, n) \/ Common(n, m) <= From(cache, m)
  <2> DEFINE k == Common(n, m)
             p == Pre(n, k)
  <2>1. SUFFICES ASSUME From(cache, n) < k, From(cache, m) < k PROVE FALSE
    BY <1>3
  <2>2. k \in Nat /\ 1 <= k /\ k <= Len(n)
    BY <1>3, <2>1
  <2>3. p \in Query /\ Len(p) = k /\ IsPrefix(p, n)
    BY <1>3, <2>2, PreIsPrefix
  <2>4. IsPrefix(p, m)
    BY <1>3, <2>2, CommonPages
  <2> HIDE DEF k, p
  <2>5. Covers(cache, n, p) /\ Covers(cache, m, p)
    BY <2>1, <2>3, <2>4 DEF Covers
  <2> QED
    BY <1>2, <2>3, <2>5 DEF Radix
<1>6. ASSUME NEW t \in Tier, Has(cache, n, t)
      PROVE  Len(Res(cache, n, t).units) = Len(n) - From(cache, n)
  BY <1>2, <1>6 DEF Filled, Right, Has, Res
<1>7. ASSUME Below(cache, n) = {} PROVE ~Bare(cache, n)
  <2>1. ~\E m \in Live(cache) : IsPrefix(n, m) /\ m # n
    BY <1>7 DEF Below, IsStrictPrefix
  <2>2. \E t \in Tier : Has(cache, n, t)
    BY <1>2, <2>1 DEF NoBareLeaf, Carried
  <2> QED
    BY <1>2, <2>2, BareIsEmpty
<1> QED
  BY <1>4, <1>5, <1>6, <1>7 DEF From, Res

(* The units of a right cache hold what they should. *)
LEMMA IsContentCorrect ==
  ASSUME IInv
  PROVE  ContentCorrect
<1>1. SUFFICES ASSUME Sound, NEW n \in Live(cache), NEW t \in Tier, Res(cache, n, t).state = "ready",
                      NEW i \in DOMAIN Res(cache, n, t).units
               PROVE  Res(cache, n, t).units[i] \in {Pre(n, From(cache, n) + i), Lost}
  BY DEF ContentCorrect, UnitsOf, Res, From
<1>2. Formed(cache) /\ Filled(cache)
  BY <1>1 DEF IInv, CacheInv
<1>3. Right(n, From(cache, n), Res(cache, n, t)) /\ Res(cache, n, t) \in Resource
  BY <1>2, NodeParts DEF Filled
<1>4. i \in 1..(Len(n) - From(cache, n))
  BY <1>1, <1>3, ResourceParts DEF Right
<1> QED
  BY <1>1, <1>3, <1>4 DEF Right

(* The transfers of a right cache find their reservations. *)
LEMMA AreReserved ==
  ASSUME IInv
  PROVE  TransfersKeepReservation
<1>1. SUFFICES ASSUME Sound, NEW o \in cache.ops
               PROVE  /\ o.node \in Live(cache) /\ Res(cache, o.node, o.dst).state = "pending"
                      /\ Len(Res(cache, o.node, o.dst).units) <= Len(o.data)
  BY DEF TransfersKeepReservation, UnitsOf, Res
<1>2. OpKept(cache, o) /\ Filled(cache) /\ o.dst \in Tier
  BY <1>1 DEF IInv, CacheInv, OpsKept, Formed, PendingOp
<1> QED
  BY <1>2 DEF OpKept, Filled, Right

(* The invariant holds in every state. *)
LEMMA CacheIsRight ==
  Spec => []IInv
<1>1. Init => IInv
  BY InitKeeps
<1>2. IInv /\ [Next]_vars => IInv'
  BY NextKeeps
<1> QED
  BY <1>1, <1>2, PTL DEF Spec

(* Whatever the number of tiers, pages, callers and node_refs and whatever *)
(* order of eviction a policy chooses: as long as no call has met one of   *)
(* the faults, match() walks a radix tree in which every node has its      *)
(* parent, no prefix is held twice and no leaf is bare, and each ready     *)
(* unit holds the state of its own page after exactly the pages before it. *)
THEOREM CachedPrefixesAreRight ==
  Spec => []TreeCorrect
<1>1. IInv => TreeCorrect
  BY IsRadixTree, IsContentCorrect DEF TreeCorrect
<1> QED
  BY <1>1, CacheIsRight, PTL

-----------------------------------------------------------------------------
(* What is pinned, also through a step that ends in a fault.               *)

(* A ready node holds each page of the path that l pinned. *)
PinKept(c, l) ==
  \A p \in Query : IsPrefix(p, l.path) =>
    \E n \in Live(c) : IsPrefix(n, l.path) /\ Covers(c, n, p) /\ Res(c, n, l.tier).state = "ready"

(* The node_refs of a right cache pin their paths. *)
LEMMA PinsAreKept ==
  ASSUME NEW c, CacheInv(c), NEW r \in Pin, c.locks[r] # None
  PROVE  c.locks[r] \in NodeRef /\ PinKept(c, c.locks[r])
BY DEF CacheInv, Formed, PathsKept, PinKept

(* Such a path is ready. *)
LEMMA KeptIsReady ==
  ASSUME NEW c, NEW l \in NodeRef, PinKept(c, l)
  PROVE  PathReady(c, l)
<1>1. SUFFICES ASSUME NEW i \in DOMAIN l.path
               PROVE  \E n \in Live(c) : /\ From(c, n) < i /\ IsPrefix(Pre(l.path, i), n)
                                         /\ Res(c, n, l.tier).state = "ready"
  BY DEF PathReady, From, Res
<1> DEFINE q == l.path
           p == Pre(q, i)
<1>2. q \in Query
  BY DEF NodeRef
<1>3. i \in Nat /\ 1 <= i /\ i <= Len(q)
  <2>1. Len(q) \in Nat /\ q \in [1..Len(q) -> Page] /\ i \in DOMAIN q
    BY <1>2, QueryIsPath
  <2> HIDE DEF q
  <2> QED
    BY <2>1
<1>4. p \in Query /\ Len(p) = i /\ IsPrefix(p, q)
  <2> HIDE DEF q
  <2> QED
    BY <1>2, <1>3, PreIsPrefix
<1> HIDE DEF p
<1>5. PICK n \in Live(c) : Covers(c, n, p) /\ Res(c, n, l.tier).state = "ready"
  BY <1>4 DEF PinKept
<1> QED
  BY <1>4, <1>5 DEF Covers, p

(* A path that is pinned in another tier or does not lead through n. *)
LEMMA WritePin ==
  ASSUME NEW c, NEW d, NEW n, NEW t, NEW r, Writes(c, d, n, t, r), NEW l \in NodeRef, PinKept(c, l),
         l.tier # t \/ ~IsPrefix(n, l.path)
  PROVE  PinKept(d, l)
<1>1. SUFFICES ASSUME NEW p \in Query, IsPrefix(p, l.path)
               PROVE  \E m \in Live(d) : /\ IsPrefix(m, l.path) /\ Covers(d, m, p)
                                         /\ Res(d, m, l.tier).state = "ready"
  BY DEF PinKept
<1>2. PICK m \in Live(c) : /\ IsPrefix(m, l.path) /\ Covers(c, m, p)
                           /\ Res(c, m, l.tier).state = "ready"
  BY <1>1 DEF PinKept
<1>3. l.tier \in Tier
  BY DEF NodeRef
<1>4. m \in Live(d) /\ From(d, m) = From(c, m) /\ Res(d, m, l.tier) = Res(c, m, l.tier)
  BY <1>2, <1>3 DEF Writes
<1> QED
  BY <1>2, <1>4 DEF Covers

(* Pruning spares what is ready. *)
LEMMA PrunePin ==
  ASSUME NEW c, NEW d, NEW n, Prunes(c, d, n), NEW l \in NodeRef, PinKept(c, l)
  PROVE  PinKept(d, l)
<1>1. SUFFICES ASSUME NEW p \in Query, IsPrefix(p, l.path)
               PROVE  \E m \in Live(d) : /\ IsPrefix(m, l.path) /\ Covers(d, m, p)
                                         /\ Res(d, m, l.tier).state = "ready"
  BY DEF PinKept
<1>2. PICK m \in Live(c) : /\ IsPrefix(m, l.path) /\ Covers(c, m, p)
                           /\ Res(c, m, l.tier).state = "ready"
  BY <1>1 DEF PinKept
<1>3. l.tier \in Tier
  BY DEF NodeRef
<1>4. ~Bare(c, m)
  BY <1>2, <1>3 DEF Bare, Empty, NoRes, Res
<1>5. m \in Live(d) /\ d.tree[m] = c.tree[m]
  BY <1>2, <1>4 DEF Prunes
<1> QED
  BY <1>2, <1>5 DEF Covers, From, Res

(* A node on a pinned path is ready, and no transfer writes to it. *)
LEMMA PinnedNode ==
  ASSUME NEW c, CacheInv(c), NEW n \in Live(c), NEW r \in Pin, c.locks[r] # None,
         IsPrefix(n, c.locks[r].path)
  PROVE  /\ r \in LocksOn(c, n, c.locks[r].tier)
         /\ \A o \in c.ops : o.node # n \/ o.dst # c.locks[r].tier
<1> DEFINE t == c.locks[r].tier
<1>1. /\ Formed(c) /\ Radix(c) /\ PathsKept(c) /\ LocksCounted(c) /\ OpsKept(c) /\ t \in Tier
  BY DEF CacheInv, Formed, NodeRef
<1>2. r \in LocksOn(c, n, t)
  BY DEF LocksOn
<1> HIDE DEF t
<1>3. Res(c, n, t).state # "pending"
  BY <1>1, <1>2, Unlocked
<1> QED
  BY <1>1, <1>2, <1>3, NoOpOn DEF t

(* What l pinned in c is still pinned in d, or a new transfer replaces it. *)
Spared(c, d, l) ==
  \/ PinKept(d, l)
  \/ \E o \in d.ops \ c.ops : o.dst = l.tier /\ IsPrefix(o.node, l.path)

Alive(c, d) == Formed(d) /\ d.locks = c.locks /\ c.ops \subseteq d.ops

(* Reserve, whatever it overwrites in d: a cache that came from c. *)
LEMMA ReservePins ==
  ASSUME NEW c, CacheInv(c), NEW d, Alive(c, d), NEW n \in Live(c), n \in Live(d),
         NEW src \in Tier, NEW dst \in Tier, src # dst, NEW promote \in BOOLEAN
  PROVE  LET e == Reserve(d, n, src, dst, promote) IN
         /\ Alive(c, e) /\ Live(e) = Live(d)
         /\ \A m \in Live(d), u \in Tier : m # n => Res(e, m, u) = Res(d, m, u)
         /\ \A r \in Pin : c.locks[r] # None /\ Spared(c, d, c.locks[r]) => Spared(c, e, c.locks[r])
<1> DEFINE e == Reserve(d, n, src, dst, promote)
           x == Res(d, n, src).units
           o == [node |-> n, src |-> src, dst |-> dst, promote |-> promote, data |-> x]
           w == Reserved(Len(x))
<1>1. Formed(d) /\ d.locks = c.locks /\ c.ops \subseteq d.ops
  BY DEF Alive
<1>2. Writes(d, e, n, dst, w) /\ e.ops = d.ops \cup {o}
  BY <1>1, ReserveWrites
<1>3. n \in Query /\ Res(d, n, src) \in Resource
  BY <1>1, NodeParts
<1>4. o \in PendingOp /\ o.node = n /\ o.dst = dst /\ o.src = src
  <2>1. x \in Seq(Content)
    BY <1>3, ResourceParts
  <2> HIDE DEF x
  <2> QED
    BY <1>3, <2>1 DEF PendingOp
<1> HIDE DEF e, o, w
<1>5. Formed(e)
  <2>1. IsFiniteSet(e.ops)
    <3>1. IsFiniteSet(d.ops)
      BY <1>1 DEF Formed
    <3> QED
      BY <1>2, <3>1, FS_AddElement
  <2>2. \A p \in e.ops : p \in PendingOp /\ p.src # p.dst
    BY <1>1, <1>2, <1>4 DEF Formed
  <2> QED
    BY <1>1, <1>2, <2>1, <2>2, WriteFormed
<1>6. Alive(c, e) /\ Live(e) = Live(d)
  BY <1>1, <1>2, <1>5 DEF Alive, Writes
<1>7. \A m \in Live(d), u \in Tier : m # n => Res(e, m, u) = Res(d, m, u)
  BY <1>2 DEF Writes
<1>8. ASSUME NEW r \in Pin, c.locks[r] # None, Spared(c, d, c.locks[r]) PROVE Spared(c, e, c.locks[r])
  <2> DEFINE l == c.locks[r]
  <2>1. l \in NodeRef
    BY <1>8, PinsAreKept
  <2>2. CASE ~PinKept(d, l)
    BY <1>2, <1>8, <2>2 DEF Spared
  <2>3. CASE l.tier = dst /\ IsPrefix(n, l.path)
    <3>1. o \notin c.ops
      BY <1>4, <1>8, <2>3, PinnedNode
    <3> QED
      BY <1>2, <1>4, <2>3, <3>1 DEF Spared
  <2>4. CASE PinKept(d, l) /\ ~(l.tier = dst /\ IsPrefix(n, l.path))
    <3>1. PinKept(e, l)
      <4> HIDE DEF l
      <4> QED
        BY <1>2, <2>1, <2>4, WritePin
    <3> QED
      BY <3>1 DEF Spared
  <2> QED
    BY <2>2, <2>3, <2>4
<1> QED
  BY <1>6, <1>7, <1>8 DEF e

(* Detach, of what is pinned by none of the node_refs of c. *)
LEMMA DetachPins ==
  ASSUME NEW c, CacheInv(c), NEW d, Alive(c, d), NEW n \in Live(d), NEW t \in Tier,
         LocksOn(c, n, t) = {}
  PROVE  LET e == Detach(d, n, t) IN
         /\ Alive(c, e) /\ Live(e) = Live(d)
         /\ \A m \in Live(d), u \in Tier : m # n => Res(e, m, u) = Res(d, m, u)
         /\ \A r \in Pin : c.locks[r] # None /\ Spared(c, d, c.locks[r]) => Spared(c, e, c.locks[r])
<1> DEFINE e == Detach(d, n, t)
<1>1. /\ Formed(d) /\ d.locks = c.locks /\ c.ops \subseteq d.ops
      /\ Record(d) /\ \A m \in Live(d) : d.tree[m] \in TreeNode
  BY DEF Alive, Formed
<1>2. Writes(d, e, n, t, NoRes) /\ e.ops = d.ops
  BY <1>1, DetachWrites
<1> HIDE DEF e
<1>3. Formed(e)
  <2>1. /\ \A p \in e.ops : p \in PendingOp /\ p.src # p.dst
        /\ IsFiniteSet(e.ops)
    BY <1>1, <1>2 DEF Formed
  <2> QED
    BY <1>1, <1>2, <2>1, WriteFormed
<1>4. Alive(c, e) /\ Live(e) = Live(d)
  BY <1>1, <1>2, <1>3 DEF Alive, Writes
<1>5. \A m \in Live(d), u \in Tier : m # n => Res(e, m, u) = Res(d, m, u)
  BY <1>2 DEF Writes
<1>6. ASSUME NEW r \in Pin, c.locks[r] # None, Spared(c, d, c.locks[r]) PROVE Spared(c, e, c.locks[r])
  <2> DEFINE l == c.locks[r]
  <2>1. l \in NodeRef
    BY <1>6, PinsAreKept
  <2>2. l.tier # t \/ ~IsPrefix(n, l.path)
    BY <1>6 DEF LocksOn
  <2>3. CASE ~PinKept(d, l)
    BY <1>2, <1>6, <2>3 DEF Spared
  <2>4. CASE PinKept(d, l)
    <3>1. PinKept(e, l)
      <4> HIDE DEF l
      <4> QED
        BY <1>2, <2>1, <2>2, <2>4, WritePin
    <3> QED
      BY <3>1 DEF Spared
  <2> QED
    BY <2>3, <2>4
<1> QED
  BY <1>4, <1>5, <1>6 DEF e

(* Prune. *)
LEMMA PrunePins ==
  ASSUME NEW c, CacheInv(c), NEW d, Alive(c, d), NEW n
  PROVE  LET e == Prune(d, n) IN
         /\ Alive(c, e)
         /\ \A m \in Live(d), u \in Tier : Res(d, m, u).state # "none" =>
              m \in Live(e) /\ Res(e, m, u) = Res(d, m, u)
         /\ \A r \in Pin : c.locks[r] # None /\ Spared(c, d, c.locks[r]) => Spared(c, e, c.locks[r])
<1> DEFINE e == Prune(d, n)
<1>1. Formed(d) /\ d.locks = c.locks /\ c.ops \subseteq d.ops
  BY DEF Alive
<1>2. Prunes(d, e, n)
  BY <1>1, PruneIs
<1> HIDE DEF e
<1>3. /\ Record(e) /\ e.ops = d.ops /\ e.locks = d.locks
      /\ Live(e) \subseteq Live(d) /\ \A m \in Live(e) : e.tree[m] = d.tree[m]
  BY <1>2 DEF Prunes
<1>4. Formed(e)
  <2>1. IsFiniteSet(Live(e))
    BY <1>1, <1>3, FS_Subset DEF Formed
  <2> QED
    BY <1>1, <1>3, <2>1 DEF Formed
<1>5. Alive(c, e)
  BY <1>1, <1>3, <1>4 DEF Alive
<1>6. ASSUME NEW m \in Live(d), NEW u \in Tier, Res(d, m, u).state # "none"
      PROVE  m \in Live(e) /\ Res(e, m, u) = Res(d, m, u)
  <2>1. ~Bare(d, m)
    BY <1>6 DEF Bare, Empty, NoRes, Res
  <2> QED
    BY <1>2, <2>1 DEF Prunes, Res
<1>7. ASSUME NEW r \in Pin, c.locks[r] # None, Spared(c, d, c.locks[r]) PROVE Spared(c, e, c.locks[r])
  <2>1. c.locks[r] \in NodeRef
    BY <1>7, PinsAreKept
  <2>2. PinKept(d, c.locks[r]) => PinKept(e, c.locks[r])
    BY <1>2, <2>1, PrunePin
  <2> QED
    BY <1>3, <1>7, <2>2 DEF Spared
<1> QED
  BY <1>5, <1>6, <1>7 DEF e

(* evict_node_resource() of a candidate of c. *)
LEMMA EvictPins ==
  ASSUME NEW c, CacheInv(c), NEW d, Alive(c, d), NEW n \in Live(c), n \in Live(d),
         NEW t \in Tier, LocksOn(c, n, t) = {}, NEW to \in Tier \cup {None}, to # t
  PROVE  LET e == Evict(d, n, t, to) IN
         /\ Alive(c, e) /\ Spares(d, e, n)
         /\ \A r \in Pin : c.locks[r] # None /\ Spared(c, d, c.locks[r]) => Spared(c, e, c.locks[r])
<1>1. CASE to # None /\ CanReserve(d, to, Len(d.tree[n].res[t].units))
  <2> DEFINE b == Reserve(d, n, t, to, FALSE)
             e == Detach(b, n, t)
  <2>1. Evict(d, n, t, to) = e /\ to \in Tier
    BY <1>1 DEF Evict
  <2>2. /\ Alive(c, b) /\ Live(b) = Live(d)
        /\ \A m \in Live(d), u \in Tier : m # n => Res(b, m, u) = Res(d, m, u)
        /\ \A r \in Pin : c.locks[r] # None /\ Spared(c, d, c.locks[r]) => Spared(c, b, c.locks[r])
    BY <2>1, ReservePins
  <2> HIDE DEF b
  <2>3. /\ Alive(c, e) /\ Live(e) = Live(b)
        /\ \A m \in Live(b), u \in Tier : m # n => Res(e, m, u) = Res(b, m, u)
        /\ \A r \in Pin : c.locks[r] # None /\ Spared(c, b, c.locks[r]) => Spared(c, e, c.locks[r])
    BY <2>2, DetachPins
  <2> HIDE DEF e
  <2>4. Spares(d, e, n)
    BY <2>2, <2>3 DEF Spares
  <2> QED
    BY <2>1, <2>2, <2>3, <2>4
<1>2. CASE ~(to # None /\ CanReserve(d, to, Len(d.tree[n].res[t].units)))
  <2> DEFINE b == Detach(d, n, t)
             e == Prune(b, n)
  <2>1. Evict(d, n, t, to) = e
    BY <1>2 DEF Evict
  <2>2. /\ Alive(c, b) /\ Live(b) = Live(d)
        /\ \A m \in Live(d), u \in Tier : m # n => Res(b, m, u) = Res(d, m, u)
        /\ \A r \in Pin : c.locks[r] # None /\ Spared(c, d, c.locks[r]) => Spared(c, b, c.locks[r])
    BY DetachPins
  <2> HIDE DEF b
  <2>3. /\ Alive(c, e)
        /\ \A m \in Live(b), u \in Tier : Res(b, m, u).state # "none" =>
             m \in Live(e) /\ Res(e, m, u) = Res(b, m, u)
        /\ \A r \in Pin : c.locks[r] # None /\ Spared(c, b, c.locks[r]) => Spared(c, e, c.locks[r])
    BY <2>2, PrunePins
  <2> HIDE DEF e
  <2>4. Spares(d, e, n)
    BY <2>2, <2>3 DEF Spares
  <2> QED
    BY <2>1, <2>2, <2>3, <2>4
<1> QED
  BY <1>1, <1>2

(* The loops of ensure_capacity(), whatever they overwrite. *)
LEMMA EvictUntilPins ==
  ASSUME NEW c, CacheInv(c), NEW t \in Tier, NEW to \in Tier \cup {None}, to # t, NEW need,
         NEW order \in SetToSeqs(Candidates(c, t))
  PROVE  LET e == EvictUntil(c, t, need, to, order) IN
         Alive(c, e) /\ \A r \in Pin : c.locks[r] # None => Spared(c, e, c.locks[r])
<1> DEFINE k == Len(order)
           S == Candidates(c, t)
           has(d, n) == n \in Live(d) /\ Res(d, n, t).state # "none"
           held(d) == \A r \in Pin : c.locks[r] # None => Spared(c, d, c.locks[r])
<1>1. IsFiniteSet(S) /\ \A n \in S : n \in Live(c) /\ has(c, n) /\ LocksOn(c, n, t) = {}
  <2>1. \A n \in S : n \in Live(c) /\ Res(c, n, t).state = "ready" /\ Res(c, n, t).refs = 0
    BY DEF Candidates, Evictable, Res
  <2>2. /\ Formed(c) /\ Radix(c) /\ PathsKept(c) /\ LocksCounted(c)
        /\ IsFiniteSet(Live(c)) /\ S \subseteq Live(c)
    BY <2>1 DEF CacheInv, Formed
  <2>3. \A n \in S : LocksOn(c, n, t) = {}
    BY <2>1, <2>2, Unlocked
  <2> QED
    BY <2>1, <2>2, <2>3, FS_Subset
<1> HIDE DEF S
<1>2. /\ k \in Nat /\ \A i \in 1..k : order[i] \in S
      /\ \A i, j \in 1..k : i # j => order[i] # order[j]
  BY <1>1, OrderOfSet DEF S
<1>3. PICK after :
        /\ after[0] = c /\ after[k] = EvictUntil(c, t, need, to, order)
        /\ \A i \in 1..k : after[i] = after[i - 1] \/ after[i] = Evict(after[i - 1], order[i], t, to)
  BY <1>2, EvictRun
<1> HIDE DEF k
<1> DEFINE P(i) == /\ Alive(c, after[i]) /\ held(after[i])
                   /\ \A j \in 1..k : j > i => has(after[i], order[j])
           bad == {i \in 0..k : ~P(i)}
<1>4. P(0)
  <2>1. Alive(c, c) /\ held(c)
    BY PinsAreKept DEF Alive, Spared, CacheInv
  <2> QED
    BY <1>1, <1>2, <1>3, <2>1
<1>5. ASSUME NEW i \in 1..k, P(i - 1) PROVE P(i)
  <2> DEFINE d == after[i - 1]
             n == order[i]
             e == after[i]
  <2>1. e = d \/ e = Evict(d, n, t, to)
    BY <1>3
  <2>2. Alive(c, d) /\ held(d) /\ \A j \in 1..k : j > i - 1 => has(d, order[j])
    BY <1>5
  <2>3. i > i - 1 /\ \A j \in 1..k : j > i => j > i - 1 /\ order[j] # n
    BY <1>2
  <2>4. CASE e = d
    BY <2>2, <2>3, <2>4
  <2>5. CASE e = Evict(d, n, t, to)
    <3>1. n \in Live(d) /\ n \in Live(c) /\ LocksOn(c, n, t) = {}
      BY <1>1, <1>2, <2>2, <2>3
    <3> HIDE DEF d, e, n
    <3>2. /\ Alive(c, e) /\ Spares(d, e, n)
          /\ \A r \in Pin : c.locks[r] # None /\ Spared(c, d, c.locks[r]) => Spared(c, e, c.locks[r])
      BY <2>2, <2>5, <3>1, EvictPins
    <3>3. held(e)
      BY <2>2, <3>2
    <3>4. \A j \in 1..k : j > i => has(e, order[j])
      BY <2>2, <2>3, <3>2 DEF Spares
    <3> QED
      BY <3>2, <3>3, <3>4 DEF e
  <2> QED
    BY <2>1, <2>4, <2>5
<1> HIDE DEF P
<1>6. bad = {}
  <2>1. SUFFICES ASSUME bad # {} PROVE FALSE
    OBVIOUS
  <2>2. bad \in SUBSET Nat
    BY <1>2
  <2>3. PICK x \in bad : \A y \in bad : x <= y
    BY <2>1, <2>2, LeastNumber
  <2>4. x \in 1..k /\ x - 1 \in 0..k
    BY <1>2, <1>4, <2>3
  <2>5. P(x - 1)
    BY <1>2, <2>3, <2>4
  <2> QED
    BY <1>5, <2>3, <2>4, <2>5
<1>7. P(k)
  BY <1>2, <1>6
<1> QED
  BY <1>3, <1>7 DEF P

(* PinsStay for one node_ref. *)
PinStays(l) ==
  \/ PathReady(cache', l)
  \/ \E o \in cache.ops \ cache'.ops : ~o.promote /\ o.src = l.tier /\ IsPrefix(o.node, l.path)
  \/ \E o \in cache'.ops \ cache.ops : o.dst = l.tier /\ IsPrefix(o.node, l.path)

(* ensure_capacity(), also when it overwrites. *)
LEMMA EnsurePins ==
  ASSUME CacheInv(cache), NEW t \in Tier, NEW need, NEW to \in Tier \cup {None},
         EnsureCapacity(t, need, to)
  PROVE  PinsStay
<1>1. cache.fault = "none" /\ to # t /\ None \notin Tier
  BY CacheAssumption DEF EnsureCapacity, Sound
<1>2. PICK first \in IF to = None THEN {<<>>} ELSE SetToSeqs(Candidates(cache, to)) :
        LET c == IF to = None THEN cache ELSE EvictUntil(cache, to, need, None, first) IN
        \E order \in SetToSeqs(Candidates(c, t)) : cache' = EvictUntil(c, t, need, to, order)
  BY DEF EnsureCapacity
<1> DEFINE c == IF to = None THEN cache ELSE EvictUntil(cache, to, need, None, first)
<1>3. PICK order \in SetToSeqs(Candidates(c, t)) : cache' = EvictUntil(c, t, need, to, order)
  BY <1>2
<1>4. CacheInv(c) /\ c.locks = cache.locks /\ cache.ops \subseteq c.ops
  <2>1. CASE to = None
    BY <2>1
  <2>2. CASE to # None
    <3> DEFINE e == EvictUntil(cache, to, need, None, first)
               S == Candidates(cache, to)
    <3>1. to \in Tier /\ None \in Tier \cup {None} /\ None # to
      BY <1>1, <2>2
    <3>2. first \in SetToSeqs(S) /\ S \in SUBSET Candidates(cache, to)
      BY <1>2, <2>2
    <3>3. /\ e.fault = "none" => CacheInv(e)
          /\ None = None => e.fault = "none"
      BY <1>1, <3>1, <3>2, EvictUntilKeeps
    <3>4. Alive(cache, e)
      BY <3>1, <3>2, EvictUntilPins
    <3> QED
      BY <2>2, <3>3, <3>4 DEF Alive
  <2> QED
    BY <2>1, <2>2
<1> HIDE DEF c
<1>5. Alive(c, cache') /\ \A r \in Pin : c.locks[r] # None => Spared(c, cache', c.locks[r])
  <2> DEFINE e == EvictUntil(c, t, need, to, order)
  <2>1. Alive(c, e) /\ \A r \in Pin : c.locks[r] # None => Spared(c, e, c.locks[r])
    BY <1>1, <1>3, <1>4, EvictUntilPins
  <2> HIDE DEF e
  <2>2. cache' = e
    BY <1>3 DEF e
  <2> QED
    BY <2>1, <2>2
<1>6. ASSUME NEW r \in Pin, cache'.locks[r] # None PROVE PinStays(cache'.locks[r])
  <2> DEFINE l == c.locks[r]
  <2>1. cache'.locks[r] = l /\ l # None
    BY <1>5, <1>6 DEF Alive
  <2>2. l \in NodeRef /\ Spared(c, cache', l)
    BY <1>4, <1>5, <2>1, PinsAreKept
  <2> HIDE DEF l
  <2>3. CASE PinKept(cache', l)
    BY <2>1, <2>2, <2>3, KeptIsReady DEF PinStays
  <2>4. CASE \E o \in cache'.ops \ c.ops : o.dst = l.tier /\ IsPrefix(o.node, l.path)
    BY <1>4, <2>1, <2>4 DEF PinStays
  <2> QED
    BY <2>2, <2>3, <2>4 DEF Spared
<1> QED
  BY <1>6 DEF PinsStay, PinStays

(* start_demote() and start_promote(), also when they overwrite. *)
LEMMA StartPins ==
  ASSUME CacheInv(cache), NEW src \in Tier, NEW dst \in Tier, NEW promote \in BOOLEAN,
         NEW n \in Matched(cache, src), StartTransfer(n, src, dst, promote)
  PROVE  PinsStay
<1> DEFINE e == Reserve(cache, n, src, dst, promote)
<1>1. src # dst /\ cache' = e /\ n \in Live(cache)
  BY DEF StartTransfer, Matched
<1>2. Alive(cache, cache) /\ \A r \in Pin : cache.locks[r] # None => Spared(cache, cache, cache.locks[r])
  BY PinsAreKept DEF Alive, Spared, CacheInv
<1>3. /\ Alive(cache, e)
      /\ \A r \in Pin : cache.locks[r] # None /\ Spared(cache, cache, cache.locks[r]) =>
           Spared(cache, e, cache.locks[r])
  BY <1>1, <1>2, ReservePins
<1> HIDE DEF e
<1>4. ASSUME NEW r \in Pin, cache'.locks[r] # None PROVE PinStays(cache'.locks[r])
  <2> DEFINE l == cache.locks[r]
  <2>1. cache'.locks[r] = l /\ l # None
    BY <1>1, <1>3, <1>4 DEF Alive
  <2>2. l \in NodeRef /\ Spared(cache, cache', l)
    BY <1>1, <1>2, <1>3, <2>1, PinsAreKept
  <2> HIDE DEF l
  <2>3. CASE PinKept(cache', l)
    BY <2>1, <2>2, <2>3, KeptIsReady DEF PinStays
  <2>4. CASE \E o \in cache'.ops \ cache.ops : o.dst = l.tier /\ IsPrefix(o.node, l.path)
    BY <2>1, <2>4 DEF PinStays
  <2> QED
    BY <2>2, <2>3, <2>4 DEF Spared
<1> QED
  BY <1>4 DEF PinsStay, PinStays

(* complete_op(), also when it gives up a source that is held. *)
LEMMA CompletePins ==
  ASSUME CacheInv(cache), NEW o \in cache.ops, NEW late \in BOOLEAN, CompleteOp(o, TRUE, late)
  PROVE  PinsStay
<1>1. cache.fault = "none" /\ cache' = Complete(cache, o, TRUE, late)
  BY DEF CompleteOp, Sound
<1> DEFINE n == o.node
<1>2. PICK x : /\ CacheInv(x) /\ x.locks = cache.locks /\ x.ops = cache.ops \ {o} /\ n \in Live(x)
               /\ cache' = IF o.promote THEN x ELSE Detach(x, n, o.src)
  <2> DEFINE e == Complete(cache, o, TRUE, late)
  <2>1. \E x : Completed(cache, o, e, x)
    BY <1>1, CopyKeeps
  <2> QED
    BY <1>1, <2>1 DEF Completed
<1>3. /\ Formed(x) /\ Record(x) /\ (\A m \in Live(x) : x.tree[m] \in TreeNode) /\ o.src \in Tier
      /\ o.promote \in BOOLEAN
  BY <1>2 DEF CacheInv, Formed, PendingOp
<1>4. CASE o.promote
  <2>1. \A r \in Pin : cache'.locks[r] # None => PathReady(cache', cache'.locks[r])
    BY <1>2, <1>4, PinsAreKept, KeptIsReady
  <2> QED
    BY <2>1 DEF PinsStay
<1>5. CASE ~o.promote
  <2>1. cache' = Detach(x, n, o.src)
    BY <1>2, <1>5
  <2>2. Writes(x, cache', n, o.src, NoRes) /\ cache'.ops = x.ops
    BY <1>2, <1>3, <2>1, DetachWrites
  <2>3. ASSUME NEW r \in Pin, cache'.locks[r] # None PROVE PinStays(cache'.locks[r])
    <3> DEFINE l == x.locks[r]
    <3>1. cache'.locks[r] = l /\ l # None
      BY <2>2, <2>3 DEF Writes
    <3>2. l \in NodeRef /\ PinKept(x, l)
      BY <1>2, <3>1, PinsAreKept
    <3> HIDE DEF l
    <3>3. CASE l.tier = o.src /\ IsPrefix(n, l.path)
      <4>1. o \in cache.ops \ cache'.ops
        BY <1>2, <2>2
      <4> QED
        BY <1>5, <3>1, <3>3, <4>1 DEF PinStays
    <3>4. CASE ~(l.tier = o.src /\ IsPrefix(n, l.path))
      <4>1. PinKept(cache', l)
        BY <2>2, <3>2, <3>4, WritePin
      <4> QED
        BY <3>1, <3>2, <4>1, KeptIsReady DEF PinStays
    <3> QED
      BY <3>3, <3>4
  <2> QED
    BY <2>3 DEF PinsStay, PinStays
<1> QED
  BY <1>3, <1>4, <1>5

(* Every step keeps what is pinned. *)
LEMMA NextPins ==
  ASSUME IInv, [Next]_vars
  PROVE  [PinsStay]_vars
<1>1. SUFFICES ASSUME Next, Sound PROVE PinsStay
  BY FaultEnds
<1>2. CacheInv(cache)
  BY <1>1 DEF IInv
<1>3. CASE ~MayFault
  <2>1. CacheInv(cache')
    BY <1>1, <1>3, StepKeeps
  <2>2. \A r \in Pin : cache'.locks[r] # None => PathReady(cache', cache'.locks[r])
    BY <2>1, PinsAreKept, KeptIsReady
  <2> QED
    BY <2>2 DEF PinsStay
<1>4. CASE MayFault
  <2>1. ASSUME NEW t \in Tier, NEW need \in 1..MaxLen, NEW to \in Tier \cup {None},
               EnsureCapacity(t, need, to)
        PROVE  PinsStay
    BY <1>2, <2>1, EnsurePins
  <2>2. ASSUME NEW src \in Tier, NEW dst \in Tier, NEW promote \in BOOLEAN,
               NEW n \in Matched(cache, src), StartTransfer(n, src, dst, promote)
        PROVE  PinsStay
    BY <1>2, <2>2, StartPins
  <2>3. ASSUME NEW o \in cache.ops, NEW late \in BOOLEAN, CompleteOp(o, TRUE, late) PROVE PinsStay
    BY <1>2, <2>3, CompletePins
  <2> QED
    BY <1>4, <2>1, <2>2, <2>3 DEF MayFault
<1> QED
  BY <1>3, <1>4

(* Under the same conditions complete_op() finds the node and the          *)
(* reservation of every transfer in flight; and after any step, one that   *)
(* meets a fault included, the whole path of every node_ref is ready,      *)
(* except what a transfer of the caller took from it in that step: a       *)
(* demotion of a node on the path, which has completed, or a transfer to   *)
(* the tier of such a node, which has started.                             *)
THEOREM HeldUnitsAlwaysStay ==
  Spec => HeldUnitsStay
<1>1. IInv => TransfersKeepReservation
  BY AreReserved
<1>2. IInv /\ [Next]_vars => [PinsStay]_vars
  BY NextPins
<1> QED
  BY <1>1, <1>2, CacheIsRight, PTL DEF Spec, HeldUnitsStay

-----------------------------------------------------------------------------
(* Counting units.                                                         *)

(* The units that holder x has. *)
At(size, x) == IF x \in DOMAIN size THEN size[x] ELSE 0

Sizes(size) == IsFiniteSet(DOMAIN size) /\ \A x \in DOMAIN size : size[x] \in Nat

(* A slot is one of the units of a holder. *)
LEMMA SlotsAre ==
  ASSUME NEW size, Sizes(size)
  PROVE  /\ \A p \in Slots(size) : p = <<p[1], p[2]>>
         /\ \A x, i : <<x, i>> \in Slots(size) <=> i \in 1..At(size, x)
<1>1. ASSUME NEW p \in Slots(size) PROVE p = <<p[1], p[2]>>
  BY DEF Slots
<1>2. ASSUME NEW x, NEW i, <<x, i>> \in Slots(size) PROVE i \in 1..At(size, x)
  BY <1>2 DEF Slots, At
<1>3. ASSUME NEW x, NEW i \in 1..At(size, x) PROVE <<x, i>> \in Slots(size)
  <2>1. x \in DOMAIN size
    BY <1>3 DEF At
  <2>2. <<x, i>> \in {x} \X (1..size[x])
    BY <1>3, <2>1 DEF At
  <2> QED
    BY <2>1, <2>2 DEF Slots
<1> QED
  BY <1>1, <1>2, <1>3

(* There are finitely many. *)
LEMMA SlotsFinite ==
  ASSUME NEW size, Sizes(size)
  PROVE  IsFiniteSet(Slots(size)) /\ CountUnits(size) \in Nat
<1> DEFINE D == DOMAIN size
           T == {{x} \X (1..size[x]) : x \in D}
           f == [x \in D |-> {x} \X (1..size[x])]
<1>1. f \in Surjection(D, T)
  BY DEF Surjection
<1>2. IsFiniteSet(T)
  BY <1>1, FS_Surjection DEF Sizes
<1>3. ASSUME NEW x \in D PROVE IsFiniteSet({x} \X (1..size[x]))
  <2>1. IsFiniteSet({x})
    BY FS_Singleton
  <2>2. IsFiniteSet(1..size[x])
    <3>1. 1 \in Int /\ size[x] \in Int
      BY DEF Sizes
    <3> QED
      BY <3>1, FS_Interval
  <2> QED
    BY <2>1, <2>2, FS_Product
<1>4. \A X \in T : IsFiniteSet(X)
  BY <1>3
<1>5. IsFiniteSet(UNION T)
  BY <1>2, <1>4, FS_UNION
<1> QED
  BY <1>5, FS_CardinalityType DEF Slots, CountUnits

(* The units of holder x and those of the others. *)
LEMMA CountApart ==
  ASSUME NEW size, Sizes(size), NEW x
  PROVE  LET others == {p \in Slots(size) : p[1] # x} IN
         /\ At(size, x) \in Nat /\ Cardinality(others) \in Nat
         /\ CountUnits(size) = Cardinality(others) + At(size, x)
<1> DEFINE others == {p \in Slots(size) : p[1] # x}
           k == At(size, x)
           own == {x} \X (1..k)
<1>1. k \in Nat
  BY DEF At, Sizes
<1>2. IsFiniteSet(own) /\ Cardinality(own) = k
  <2>1. /\ IsFiniteSet({x}) /\ Cardinality({x}) = 1
        /\ IsFiniteSet(1..k) /\ Cardinality(1..k) = k
    <3> HIDE DEF k
    <3>1. IsFiniteSet({x}) /\ Cardinality({x}) = 1
      BY FS_Singleton
    <3>2. 1 \in Int /\ k \in Int
      BY <1>1
    <3>3. IsFiniteSet(1..k) /\ Cardinality(1..k) = IF 1 > k THEN 0 ELSE k - 1 + 1
      BY <3>2, FS_Interval
    <3> QED
      BY <1>1, <3>1, <3>3
  <2>2. IsFiniteSet(own) /\ Cardinality(own) = 1 * k
    <3> DEFINE one == {x}
               range == 1..k
    <3>1. IsFiniteSet(one) /\ IsFiniteSet(range) /\ Cardinality(one) = 1 /\ Cardinality(range) = k
      BY <2>1
    <3>2. own = one \X range
      OBVIOUS
    <3> HIDE DEF one, range, own, k
    <3>3. /\ IsFiniteSet(one \X range)
          /\ Cardinality(one \X range) = Cardinality(one) * Cardinality(range)
      BY <3>1, FS_Product
    <3> QED
      BY <3>1, <3>2, <3>3
  <2> QED
    BY <1>1, <2>2
<1>3. IsFiniteSet(others)
  BY SlotsFinite, FS_Subset
<1>4. others \cap own = {}
  OBVIOUS
<1>5. Slots(size) = others \cup own
  <2>1. ASSUME NEW p \in Slots(size) PROVE p \in others \cup own
    <3>1. p = <<p[1], p[2]>>
      BY SlotsAre
    <3>2. CASE p[1] = x
      BY <3>1, <3>2, SlotsAre
    <3>3. CASE p[1] # x
      BY <3>3
    <3> QED
      BY <3>2, <3>3
  <2>2. own \subseteq Slots(size)
    BY SlotsAre
  <2> QED
    BY <2>1, <2>2
<1> HIDE DEF own, others, k
<1>6. Cardinality(others \cup own) = Cardinality(others) + Cardinality(own) - Cardinality(others \cap own)
  BY <1>2, <1>3, FS_Union
<1>7. Cardinality(others \cap own) = 0
  BY <1>4, FS_EmptySet
<1>8. Cardinality(others) \in Nat
  BY <1>3, FS_CardinalityType
<1>9. CountUnits(size) = Cardinality(others) + k
  BY <1>1, <1>2, <1>5, <1>6, <1>7, <1>8 DEF CountUnits
<1> QED
  BY <1>1, <1>8, <1>9 DEF others, k

(* When only the units of x change, the count changes as they do. *)
LEMMA CountChange ==
  ASSUME NEW f, Sizes(f), NEW g, Sizes(g), NEW x, \A y : y # x => At(g, y) = At(f, y)
  PROVE  /\ CountUnits(f) \in Nat /\ CountUnits(g) \in Nat /\ At(f, x) \in Nat /\ At(g, x) \in Nat
         /\ CountUnits(g) + At(f, x) = CountUnits(f) + At(g, x)
         /\ CountUnits(f) >= At(f, x)
<1> DEFINE a == {p \in Slots(f) : p[1] # x}
           b == {p \in Slots(g) : p[1] # x}
<1>1. a = b
  <2>1. ASSUME NEW p \in a PROVE p \in b
    BY SlotsAre
  <2>2. ASSUME NEW p \in b PROVE p \in a
    BY SlotsAre
  <2> QED
    BY <2>1, <2>2
<1>2. CountUnits(f) = Cardinality(a) + At(f, x) /\ Cardinality(a) \in Nat /\ At(f, x) \in Nat
  BY CountApart
<1>3. CountUnits(g) = Cardinality(b) + At(g, x) /\ At(g, x) \in Nat
  BY CountApart
<1> HIDE DEF a, b
<1> QED
  BY <1>1, <1>2, <1>3

(* The count depends on nothing but the units of each holder. *)
LEMMA CountSame ==
  ASSUME NEW f, Sizes(f), NEW g, Sizes(g), \A y : At(g, y) = At(f, y)
  PROVE  CountUnits(g) = CountUnits(f)
<1>1. PICK x : x = 0
  OBVIOUS
<1>2. \A y : y # x => At(g, y) = At(f, y)
  OBVIOUS
<1>3. /\ CountUnits(f) \in Nat /\ CountUnits(g) \in Nat /\ At(f, x) \in Nat /\ At(g, x) \in Nat
      /\ CountUnits(g) + At(f, x) = CountUnits(f) + At(g, x)
  BY <1>2, CountChange
<1> QED
  BY <1>3

(* The count does not depend on the names of the holders. *)
LEMMA CountRenamed ==
  ASSUME NEW f, Sizes(f), NEW g, Sizes(g), NEW h \in Bijection(DOMAIN f, DOMAIN g),
         \A x \in DOMAIN f : g[h[x]] = f[x]
  PROVE  CountUnits(g) = CountUnits(f)
<1> DEFINE F == Slots(f)
           G == Slots(g)
           r == [p \in F |-> <<h[p[1]], p[2]>>]
<1>1. /\ \A x \in DOMAIN f : h[x] \in DOMAIN g
      /\ \A x, y \in DOMAIN f : h[x] = h[y] => x = y
      /\ \A y \in DOMAIN g : \E x \in DOMAIN f : h[x] = y
  BY DEF Bijection, Injection, Surjection, IsInjective
<1>2. ASSUME NEW p \in F
      PROVE  p = <<p[1], p[2]>> /\ p[1] \in DOMAIN f /\ p[2] \in 1..f[p[1]]
  <2>1. p = <<p[1], p[2]>>
    BY SlotsAre
  <2>2. p[2] \in 1..At(f, p[1])
    BY <2>1, SlotsAre
  <2> QED
    BY <2>1, <2>2 DEF At
<1>3. ASSUME NEW p \in F PROVE r[p] \in G
  <2>1. h[p[1]] \in DOMAIN g /\ g[h[p[1]]] = f[p[1]]
    BY <1>1, <1>2
  <2>2. p[2] \in 1..At(g, h[p[1]])
    BY <1>2, <2>1 DEF At
  <2> QED
    BY <2>2, SlotsAre
<1>4. r \in Surjection(F, G)
  <2>1. r \in [F -> G]
    BY <1>3
  <2>2. ASSUME NEW q \in G PROVE \E p \in F : r[p] = q
    <3>1. q = <<q[1], q[2]>>
      BY SlotsAre
    <3>2. q[2] \in 1..At(g, q[1])
      BY <3>1, SlotsAre
    <3>3. q[1] \in DOMAIN g /\ q[2] \in 1..g[q[1]]
      BY <3>2 DEF At
    <3>4. PICK x \in DOMAIN f : h[x] = q[1]
      BY <1>1, <3>3
    <3>5. q[2] \in 1..At(f, x)
      BY <3>3, <3>4 DEF At
    <3>6. <<x, q[2]>> \in F
      BY <3>5, SlotsAre
    <3>7. r[<<x, q[2]>>] = q
      BY <3>1, <3>4, <3>6
    <3> QED
      BY <3>6, <3>7
  <2> QED
    BY <2>1, <2>2 DEF Surjection
<1>5. r \in Injection(F, G)
  <2>1. ASSUME NEW p \in F, NEW q \in F, r[p] = r[q] PROVE p = q
    <3>1. h[p[1]] = h[q[1]] /\ p[2] = q[2]
      BY <2>1
    <3> QED
      BY <1>1, <1>2, <3>1
  <2> QED
    BY <1>3, <2>1 DEF Injection, IsInjective
<1>6. IsFiniteSet(F)
  BY SlotsFinite
<1> HIDE DEF r, F, G
<1>7. Cardinality(G) = Cardinality(F)
  BY <1>4, <1>5, <1>6, FS_Surjection
<1> QED
  BY <1>7 DEF CountUnits, F, G

(* Who holds no more has no more. *)
LEMMA CountLess ==
  ASSUME NEW f, Sizes(f), NEW g, Sizes(g), \A y : At(g, y) <= At(f, y)
  PROVE  CountUnits(g) <= CountUnits(f)
<1>1. \A y : At(g, y) \in Nat /\ At(f, y) \in Nat
  BY DEF At, Sizes
<1>2. Slots(g) \subseteq Slots(f)
  <2>1. ASSUME NEW p \in Slots(g) PROVE p \in Slots(f)
    <3>1. p = <<p[1], p[2]>>
      BY SlotsAre
    <3>2. p[2] \in 1..At(g, p[1])
      BY <3>1, SlotsAre
    <3>3. p[2] \in 1..At(f, p[1])
      BY <1>1, <3>2
    <3> QED
      BY <3>1, <3>3, SlotsAre
  <2> QED
    BY <2>1
<1>3. IsFiniteSet(Slots(f))
  BY SlotsFinite
<1> QED
  BY <1>2, <1>3, FS_Subset DEF CountUnits

-----------------------------------------------------------------------------
(* The accounts of a cache.                                                *)

TreeSizes(c, t)    == [n \in Live(c) |-> Len(Res(c, n, t).units)]
PendingSizes(c, t) == [o \in {p \in c.ops : p.dst = t} |-> Len(o.data)]

(* The units of tier t that no caller owns. *)
Stock(c, t) == c.free[t] + CountUnits(TreeSizes(c, t))

(* What holds of every cache, also after a fault. *)
Books(c) ==
  /\ Formed(c) /\ c.free \in [Tier -> Nat]
  /\ \A n \in Live(c) : From(c, n) < Len(n)
  /\ \A t \in Tier : MaxPending[t] > 0 => PendingUnits(c, t) <= MaxPending[t]
  /\ c.fault \in {"none", "collision", "overwrite", "unpinned"}

(* d is a cache with as many units as c. *)
Even(c, d) == Books(d) /\ \A t \in Tier : Stock(d, t) = Stock(c, t)

(* The sizes of resources and of transfers are those of finite things. *)
LEMMA SizesFormed ==
  ASSUME NEW c, Formed(c), NEW t \in Tier
  PROVE  /\ Sizes(TreeSizes(c, t)) /\ Sizes(PendingSizes(c, t))
         /\ PendingUnits(c, t) = CountUnits(PendingSizes(c, t)) /\ PendingUnits(c, t) \in Nat
         /\ CountUnits(TreeSizes(c, t)) \in Nat
         /\ \A n \in Live(c) : Res(c, n, t) \in Resource /\ Len(Res(c, n, t).units) \in Nat
         /\ \A n : At(TreeSizes(c, t), n) = IF n \in Live(c) THEN Len(Res(c, n, t).units) ELSE 0
         /\ \A o \in c.ops : Len(o.data) \in Nat
         /\ \A o : At(PendingSizes(c, t), o) = IF o \in c.ops /\ o.dst = t THEN Len(o.data) ELSE 0
<1>1. \A n \in Live(c) : Res(c, n, t) \in Resource /\ Len(Res(c, n, t).units) \in Nat
  BY NodeParts, ResourceParts
<1>2. Sizes(TreeSizes(c, t))
  BY <1>1 DEF Sizes, TreeSizes, Formed
<1>3. \A o \in c.ops : Len(o.data) \in Nat
  <2>1. \A o \in c.ops : o.data \in Seq(Content)
    BY DEF Formed, PendingOp
  <2> QED
    BY <2>1, LenProperties
<1>4. IsFiniteSet({p \in c.ops : p.dst = t})
  BY FS_Subset DEF Formed
<1>5. Sizes(PendingSizes(c, t))
  BY <1>3, <1>4 DEF Sizes, PendingSizes
<1>6. PendingUnits(c, t) = CountUnits(PendingSizes(c, t))
  BY DEF PendingUnits, PendingSizes
<1>7. CountUnits(PendingSizes(c, t)) \in Nat /\ CountUnits(TreeSizes(c, t)) \in Nat
  BY <1>2, <1>5, SlotsFinite
<1>8. \A n : At(TreeSizes(c, t), n) = IF n \in Live(c) THEN Len(Res(c, n, t).units) ELSE 0
  BY DEF At, TreeSizes
<1>9. \A o : At(PendingSizes(c, t), o) = IF o \in c.ops /\ o.dst = t THEN Len(o.data) ELSE 0
  BY DEF At, PendingSizes
<1> QED
  BY <1>1, <1>2, <1>3, <1>5, <1>6, <1>7, <1>8, <1>9

(* What a write changes. *)
LEMMA WriteStock ==
  ASSUME NEW c, Formed(c), NEW d, Formed(d), NEW n \in Live(c), NEW t \in Tier, NEW r \in Resource,
         Writes(c, d, n, t, r)
  PROVE  /\ Len(Res(c, n, t).units) \in Nat /\ Len(r.units) \in Nat
         /\ \A u \in Tier : CountUnits(TreeSizes(c, u)) \in Nat /\ CountUnits(TreeSizes(d, u)) \in Nat
         /\ CountUnits(TreeSizes(d, t)) + Len(Res(c, n, t).units)
              = CountUnits(TreeSizes(c, t)) + Len(r.units)
         /\ \A u \in Tier : u # t => CountUnits(TreeSizes(d, u)) = CountUnits(TreeSizes(c, u))
<1>1. Live(d) = Live(c) /\ \A m \in Live(c), u \in Tier :
        Res(d, m, u) = IF m = n /\ u = t THEN r ELSE Res(c, m, u)
  BY DEF Writes
<1>2. ASSUME NEW u \in Tier
      PROVE  /\ Sizes(TreeSizes(c, u)) /\ Sizes(TreeSizes(d, u))
             /\ CountUnits(TreeSizes(c, u)) \in Nat /\ CountUnits(TreeSizes(d, u)) \in Nat
             /\ \A m : At(TreeSizes(c, u), m) = IF m \in Live(c) THEN Len(Res(c, m, u).units) ELSE 0
             /\ \A m : At(TreeSizes(d, u), m) = IF m \in Live(d) THEN Len(Res(d, m, u).units) ELSE 0
  BY SizesFormed
<1>3. Len(Res(c, n, t).units) \in Nat /\ Len(r.units) \in Nat
  BY NodeParts, ResourceParts
<1>4. CountUnits(TreeSizes(d, t)) + Len(Res(c, n, t).units) = CountUnits(TreeSizes(c, t)) + Len(r.units)
  <2>1. \A m : m # n => At(TreeSizes(d, t), m) = At(TreeSizes(c, t), m)
    BY <1>1, <1>2
  <2>2. At(TreeSizes(c, t), n) = Len(Res(c, n, t).units) /\ At(TreeSizes(d, t), n) = Len(r.units)
    BY <1>1, <1>2
  <2>3. CountUnits(TreeSizes(d, t)) + At(TreeSizes(c, t), n) = CountUnits(TreeSizes(c, t)) + At(TreeSizes(d, t), n)
    BY <1>2, <2>1, CountChange
  <2> QED
    BY <2>2, <2>3
<1>5. ASSUME NEW u \in Tier, u # t PROVE CountUnits(TreeSizes(d, u)) = CountUnits(TreeSizes(c, u))
  <2>1. \A m : At(TreeSizes(d, u), m) = At(TreeSizes(c, u), m)
    BY <1>1, <1>2, <1>5
  <2> QED
    BY <1>2, <2>1, CountSame
<1> QED
  BY <1>2, <1>3, <1>4, <1>5

(* Fewer transfers have fewer units. *)
LEMMA PendingLess ==
  ASSUME NEW c, Formed(c), NEW d, Formed(d), d.ops \subseteq c.ops, NEW t \in Tier
  PROVE  PendingUnits(d, t) <= PendingUnits(c, t)
<1>1. /\ Sizes(PendingSizes(c, t)) /\ Sizes(PendingSizes(d, t))
      /\ PendingUnits(c, t) = CountUnits(PendingSizes(c, t))
      /\ PendingUnits(d, t) = CountUnits(PendingSizes(d, t))
      /\ \A o \in c.ops : Len(o.data) \in Nat
      /\ \A o : At(PendingSizes(c, t), o) = IF o \in c.ops /\ o.dst = t THEN Len(o.data) ELSE 0
      /\ \A o : At(PendingSizes(d, t), o) = IF o \in d.ops /\ o.dst = t THEN Len(o.data) ELSE 0
  BY SizesFormed
<1>2. ASSUME NEW o PROVE At(PendingSizes(d, t), o) <= At(PendingSizes(c, t), o)
  <2>1. CASE o \in d.ops /\ o.dst = t
    BY <1>1, <2>1
  <2>2. CASE ~(o \in d.ops /\ o.dst = t)
    <3>1. At(PendingSizes(d, t), o) = 0 /\ At(PendingSizes(c, t), o) \in Nat
      BY <1>1, <2>2
    <3> QED
      BY <3>1
  <2> QED
    BY <2>1, <2>2
<1> QED
  BY <1>1, <1>2, CountLess

OneMore(c, d, o) == Formed(c) /\ Formed(d) /\ d.ops = c.ops \cup {o}

(* One more transfer has the units of its data. *)
LEMMA PendingMore ==
  ASSUME NEW c, NEW d, NEW o, OneMore(c, d, o), NEW t \in Tier
  PROVE  /\ Len(o.data) \in Nat /\ PendingUnits(c, t) \in Nat /\ PendingUnits(d, t) \in Nat
         /\ PendingUnits(d, t) <= PendingUnits(c, t) + Len(o.data)
         /\ o.dst # t => PendingUnits(d, t) = PendingUnits(c, t)
<1> DEFINE f == PendingSizes(c, t)
           g == PendingSizes(d, t)
<1>0. Formed(c) /\ Formed(d) /\ d.ops = c.ops \cup {o}
  BY DEF OneMore
<1>1. /\ Sizes(f) /\ PendingUnits(c, t) = CountUnits(f) /\ PendingUnits(c, t) \in Nat
      /\ \A p : At(f, p) = IF p \in c.ops /\ p.dst = t THEN Len(p.data) ELSE 0
  BY <1>0, SizesFormed
<1>2. /\ Sizes(g) /\ PendingUnits(d, t) = CountUnits(g) /\ PendingUnits(d, t) \in Nat
      /\ \A p \in d.ops : Len(p.data) \in Nat
      /\ \A p : At(g, p) = IF p \in d.ops /\ p.dst = t THEN Len(p.data) ELSE 0
  BY <1>0, SizesFormed
<1>3. Len(o.data) \in Nat
  BY <1>0, <1>2
<1> HIDE DEF f, g
<1>4. \A p : p # o => At(g, p) = At(f, p)
  BY <1>0, <1>1, <1>2
<1>5. At(f, o) \in Nat /\ CountUnits(g) + At(f, o) = CountUnits(f) + At(g, o)
  BY <1>1, <1>2, <1>4, CountChange
<1>6. At(g, o) = IF o.dst = t THEN Len(o.data) ELSE 0
  BY <1>0, <1>2
<1>7. o.dst # t => At(f, o) = 0
  BY <1>1
<1> QED
  BY <1>1, <1>2, <1>3, <1>5, <1>6, <1>7

(* A detached resource goes to the free list. *)
LEMMA DetachEven ==
  ASSUME NEW c, Books(c), NEW n \in Live(c), NEW t \in Tier
  PROVE  LET d == Detach(c, n, t) IN
         Even(c, d) /\ Writes(c, d, n, t, NoRes) /\ d.ops = c.ops /\ d.fault = c.fault
<1> DEFINE d == Detach(c, n, t)
           k == Len(c.tree[n].res[t].units)
           s == Strays(c, n, t)
<1>1. Formed(c) /\ Record(c) /\ \A m \in Live(c) : c.tree[m] \in TreeNode
  BY DEF Books, Formed
<1>2. Writes(c, d, n, t, NoRes) /\ d.ops = c.ops /\ d.fault = c.fault
  BY <1>1, DetachWrites
<1>3. k = Len(Res(c, n, t).units)
  BY DEF Res
<1>4. d = [c EXCEPT !.tree[n].res[t] = NoRes, !.free[t] = @ + k, !.stray = @ \cup s]
  BY DEF Detach
<1> HIDE DEF d, k, s
<1>5. d.free = [c.free EXCEPT ![t] = @ + k]
  BY <1>1, <1>4 DEF Record
<1>6. Formed(d)
  <2>1. /\ \A o \in d.ops : o \in PendingOp /\ o.src # o.dst
        /\ IsFiniteSet(d.ops)
    BY <1>1, <1>2 DEF Formed
  <2> QED
    BY <1>1, <1>2, <2>1, WriteFormed
<1>7. NoRes \in Resource /\ Len(NoRes.units) = 0
  BY NothingIsResource DEF NoRes
<1>8. /\ k \in Nat
      /\ \A u \in Tier : CountUnits(TreeSizes(c, u)) \in Nat /\ CountUnits(TreeSizes(d, u)) \in Nat
      /\ CountUnits(TreeSizes(d, t)) + k = CountUnits(TreeSizes(c, t)) + 0
      /\ \A u \in Tier : u # t => CountUnits(TreeSizes(d, u)) = CountUnits(TreeSizes(c, u))
  BY <1>1, <1>2, <1>3, <1>6, <1>7, WriteStock
<1>9. c.free \in [Tier -> Nat]
  BY DEF Books
<1>10. d.free \in [Tier -> Nat]
  BY <1>5, <1>8, <1>9
<1>11. ASSUME NEW u \in Tier PROVE Stock(d, u) = Stock(c, u)
  BY <1>5, <1>8, <1>9 DEF Stock
<1>12. \A u \in Tier : PendingUnits(d, u) = PendingUnits(c, u)
  BY <1>2 DEF PendingUnits
<1>13. \A m \in Live(d) : From(d, m) < Len(m)
  BY <1>2 DEF Writes, Books
<1>14. Books(d)
  BY <1>2, <1>6, <1>10, <1>12, <1>13 DEF Books
<1> QED
  BY <1>2, <1>11, <1>14 DEF Even, d

(* A reservation takes as many units from the free list as it holds, and    *)
(* stays within the budget of transfers.                                    *)
LEMMA ReserveEven ==
  ASSUME NEW c, Books(c), NEW n \in Live(c), NEW src \in Tier, NEW dst \in Tier, src # dst,
         NEW promote \in BOOLEAN, CanReserve(c, dst, Len(Res(c, n, src).units))
  PROVE  LET d == Reserve(c, n, src, dst, promote) IN
         /\ Even(c, d) /\ Writes(c, d, n, dst, Reserved(Len(Res(c, n, src).units)))
<1> DEFINE d == Reserve(c, n, src, dst, promote)
           e == Detach(c, n, dst)
           u == Res(c, n, src).units
           k == Len(u)
           old == Len(Res(c, n, dst).units)
           o == [node |-> n, src |-> src, dst |-> dst, promote |-> promote, data |-> u]
           r == [state |-> "pending", units |-> [i \in DOMAIN u |-> <<>>], refs |-> 0]
<1>1. Formed(c) /\ c.free \in [Tier -> Nat] /\ n \in Query
  BY NodeParts DEF Books
<1>2. /\ Writes(c, d, n, dst, Reserved(k)) /\ d.ops = c.ops \cup {o}
      /\ d.fault = IF InUse(Res(c, n, dst)) THEN "overwrite" ELSE c.fault
  BY <1>1, ReserveWrites
<1>3. u \in Seq(Content) /\ k \in Nat
  BY <1>1, NodeParts, ResourceParts
<1>4. Reserved(k) \in Resource /\ Len(Reserved(k).units) = k
  BY <1>3, ReservedIsResource
<1>5. o \in PendingOp /\ o.src # o.dst /\ o.data = u /\ o.dst = dst
  BY <1>1, <1>3 DEF PendingOp
<1>6. Even(c, e) /\ Books(e)
  BY DetachEven DEF Even
<1>7. d.free = [e.free EXCEPT ![dst] = @ - k] /\ e.free = [c.free EXCEPT ![dst] = @ + old]
  <2> DEFINE j == Len(c.tree[n].res[dst].units)
             x == c.stray \cup Strays(c, n, dst)
             y == HandedOut(c.stray, dst) \cup Strays(c, n, dst)
  <2>1. e = [c EXCEPT !.tree[n].res[dst] = NoRes, !.free[dst] = @ + j, !.stray = x]
    BY DEF Detach
  <2>2. Record(c) /\ Record(e)
    BY <1>1, <1>6 DEF Formed, Books
  <2>3. d = [e EXCEPT !.free[dst] = @ - k,
                      !.stray = y,
                      !.tree[n].res[dst] = r,
                      !.ops   = @ \cup {o},
                      !.fault = IF InUse(Res(c, n, dst)) THEN "overwrite" ELSE @]
    BY DEF Reserve, Res
  <2>4. j = old
    BY DEF Res
  <2> HIDE DEF d, e, r, o, u, k, j, x, y
  <2>5. e.free = [c.free EXCEPT ![dst] = @ + j]
    BY <2>1, <2>2 DEF Record
  <2>6. d.free = [e.free EXCEPT ![dst] = @ - k]
    BY <2>2, <2>3 DEF Record
  <2> QED
    BY <2>4, <2>5, <2>6
<1>8. c.free[dst] >= k /\ (MaxPending[dst] = 0 \/ PendingUnits(c, dst) + k <= MaxPending[dst])
  BY DEF CanReserve, WithinBudget
<1> HIDE DEF d, e, r, o, u
<1>9. Formed(d)
  <2>1. IsFiniteSet(c.ops) /\ \A p \in c.ops : p \in PendingOp /\ p.src # p.dst
    BY <1>1 DEF Formed
  <2>2. IsFiniteSet(d.ops)
    BY <1>2, <2>1, FS_AddElement
  <2>3. \A p \in d.ops : p \in PendingOp /\ p.src # p.dst
    BY <1>2, <1>5, <2>1
  <2> QED
    BY <1>1, <1>2, <2>2, <2>3, WriteFormed
<1>10. /\ old \in Nat
       /\ \A v \in Tier : CountUnits(TreeSizes(c, v)) \in Nat /\ CountUnits(TreeSizes(d, v)) \in Nat
       /\ CountUnits(TreeSizes(d, dst)) + old = CountUnits(TreeSizes(c, dst)) + k
       /\ \A v \in Tier : v # dst => CountUnits(TreeSizes(d, v)) = CountUnits(TreeSizes(c, v))
  BY <1>1, <1>2, <1>4, <1>9, WriteStock
<1> HIDE DEF k, old
<1>11. /\ d.free[dst] = c.free[dst] + old - k
       /\ d.free \in [Tier -> Nat]
       /\ \A v \in Tier : v # dst => d.free[v] = c.free[v]
  <2>2. e.free = [c.free EXCEPT ![dst] = @ + old] /\ c.free[dst] \in Nat /\ old \in Nat
    BY <1>1, <1>7, <1>10
  <2>3. /\ e.free \in [Tier -> Nat] /\ e.free[dst] = c.free[dst] + old
        /\ \A v \in Tier : v # dst => e.free[v] = c.free[v]
    BY <1>1, <2>2
  <2>4. e.free[dst] - k \in Nat
    BY <1>3, <1>8, <2>2, <2>3
  <2>5. /\ d.free \in [Tier -> Nat] /\ d.free[dst] = e.free[dst] - k
        /\ \A v \in Tier : v # dst => d.free[v] = e.free[v]
    BY <1>7, <2>3, <2>4
  <2> QED
    BY <1>3, <2>2, <2>3, <2>5
<1>12. ASSUME NEW v \in Tier PROVE Stock(d, v) = Stock(c, v)
  <2>2. c.free[v] \in Nat /\ c.free[dst] \in Nat
    BY <1>1
  <2>3. /\ CountUnits(TreeSizes(c, dst)) \in Nat /\ CountUnits(TreeSizes(d, dst)) \in Nat
        /\ CountUnits(TreeSizes(d, dst)) + old = CountUnits(TreeSizes(c, dst)) + k
        /\ d.free[dst] = c.free[dst] + old - k /\ old \in Nat
    BY <1>10, <1>11
  <2>4. CASE v = dst
    <3>1. PICK x \in Nat, y \in Nat, a \in Nat :
            x = CountUnits(TreeSizes(c, dst)) /\ y = CountUnits(TreeSizes(d, dst)) /\ a = c.free[dst]
      BY <2>2, <2>3
    <3>2. y + old = x + k /\ old \in Nat /\ k \in Nat /\ d.free[dst] = a + old - k
      BY <1>3, <2>3, <3>1
    <3>3. Stock(d, dst) = (a + old - k) + y /\ Stock(c, dst) = a + x
      BY <3>1, <3>2 DEF Stock
    <3> QED
      BY <2>4, <3>2, <3>3
  <2>5. CASE v # dst
    BY <1>10, <1>11, <2>5 DEF Stock
  <2> QED
    BY <2>4, <2>5
<1>13. ASSUME NEW v \in Tier, MaxPending[v] > 0 PROVE PendingUnits(d, v) <= MaxPending[v]
  <2>1. MaxPending[v] \in Nat
    BY CacheAssumption
  <2>2. /\ PendingUnits(c, v) \in Nat /\ PendingUnits(d, v) \in Nat
        /\ PendingUnits(d, v) <= PendingUnits(c, v) + Len(o.data)
        /\ o.dst # v => PendingUnits(d, v) = PendingUnits(c, v)
    <3>1. d.ops = c.ops \cup {o}
      BY <1>2
    <3>2. Formed(c) /\ Formed(d)
      BY <1>1, <1>9
    <3>3. OneMore(c, d, o)
      BY <3>1, <3>2 DEF OneMore
    <3> QED
      BY <3>3, PendingMore
  <2>3. PendingUnits(c, v) <= MaxPending[v]
    BY <1>13 DEF Books
  <2>4. Len(o.data) = k
    BY <1>5 DEF k
  <2>5. CASE v = dst
    BY <1>3, <1>8, <1>13, <2>1, <2>2, <2>4, <2>5
  <2>6. CASE v # dst
    BY <1>5, <2>2, <2>3, <2>6
  <2> QED
    BY <2>5, <2>6
<1>14. \A m \in Live(d) : From(d, m) < Len(m)
  BY <1>2 DEF Writes, Books
<1>15. d.fault \in {"none", "collision", "overwrite", "unpinned"}
  BY <1>2 DEF Books
<1>16. Even(c, d)
  BY <1>9, <1>11, <1>12, <1>13, <1>14, <1>15 DEF Even, Books
<1> QED
  BY <1>2, <1>16 DEF d, k, u

(* Bare nodes have no units. *)
LEMMA PruneEven ==
  ASSUME NEW c, Books(c), NEW n
  PROVE  LET d == Prune(c, n) IN Even(c, d) /\ Prunes(c, d, n)
<1> DEFINE d == Prune(c, n)
<1>1. Formed(c) /\ Record(c)
  BY DEF Books, Formed
<1>2. Prunes(c, d, n)
  BY <1>1, PruneIs
<1>3. d.free = c.free
  <2>1. \E x : d = [c EXCEPT !.tree = x]
    BY DEF Prune
  <2> HIDE DEF d
  <2> QED
    BY <1>1, <2>1 DEF Record
<1> HIDE DEF d
<1>4. /\ Record(d) /\ d.ops = c.ops /\ d.locks = c.locks /\ d.fault = c.fault
      /\ Live(d) \subseteq Live(c) /\ \A m \in Live(d) : d.tree[m] = c.tree[m]
  BY <1>2 DEF Prunes
<1>5. Formed(d)
  <2>1. IsFiniteSet(Live(d))
    BY <1>1, <1>4, FS_Subset DEF Formed
  <2>2. {r \in Pin : d.locks[r] # None} = {r \in Pin : c.locks[r] # None}
    BY <1>4
  <2> QED
    BY <1>1, <1>4, <2>1, <2>2 DEF Formed
<1>6. ASSUME NEW t \in Tier PROVE CountUnits(TreeSizes(d, t)) = CountUnits(TreeSizes(c, t))
  <2>1. /\ Sizes(TreeSizes(c, t)) /\ Sizes(TreeSizes(d, t))
        /\ \A m : At(TreeSizes(c, t), m) = IF m \in Live(c) THEN Len(Res(c, m, t).units) ELSE 0
        /\ \A m : At(TreeSizes(d, t), m) = IF m \in Live(d) THEN Len(Res(d, m, t).units) ELSE 0
    BY <1>1, <1>5, SizesFormed
  <2>2. ASSUME NEW m PROVE At(TreeSizes(d, t), m) = At(TreeSizes(c, t), m)
    <3>1. CASE m \in Live(d)
      BY <1>4, <2>1, <3>1 DEF Res
    <3>2. CASE m \in Live(c) \ Live(d)
      <4>1. Bare(c, m)
        BY <1>2, <3>2 DEF Prunes
      <4>2. Len(Res(c, m, t).units) = 0
        BY <4>1 DEF Bare, Empty, NoRes, Res
      <4> QED
        BY <2>1, <3>2, <4>2
    <3>3. CASE m \notin Live(c)
      BY <1>4, <2>1, <3>3
    <3> QED
      BY <3>1, <3>2, <3>3
  <2> QED
    BY <2>1, <2>2, CountSame
<1>7. \A t \in Tier : PendingUnits(d, t) = PendingUnits(c, t)
  BY <1>4 DEF PendingUnits
<1>8. \A m \in Live(d) : From(d, m) < Len(m)
  BY <1>4 DEF Books, From
<1>9. Books(d)
  BY <1>3, <1>4, <1>5, <1>7, <1>8 DEF Books
<1>10. \A t \in Tier : Stock(d, t) = Stock(c, t)
  BY <1>3, <1>6 DEF Stock
<1> QED
  BY <1>2, <1>9, <1>10 DEF Even, d

(* An eviction moves units or frees them, and touches one node. *)
LEMMA EvictEven ==
  ASSUME NEW c, Books(c), NEW n \in Live(c), NEW t \in Tier, NEW to \in Tier \cup {None}, to # t
  PROVE  LET e == Evict(c, n, t, to) IN Even(c, e) /\ Spares(c, e, n)
<1>1. CASE to # None /\ CanReserve(c, to, Len(c.tree[n].res[t].units))
  <2> DEFINE d == Reserve(c, n, t, to, FALSE)
             e == Detach(d, n, t)
  <2>1. Evict(c, n, t, to) = e
    BY <1>1 DEF Evict
  <2>2. to \in Tier /\ CanReserve(c, to, Len(Res(c, n, t).units))
    BY <1>1 DEF Res
  <2>3. Even(c, d) /\ Writes(c, d, n, to, Reserved(Len(Res(c, n, t).units)))
    <3>1. \A p \in BOOLEAN : LET x == Reserve(c, n, t, to, p) IN
            Even(c, x) /\ Writes(c, x, n, to, Reserved(Len(Res(c, n, t).units)))
      BY <2>2, ReserveEven
    <3> QED
      BY <3>1, Zenon
  <2> HIDE DEF d
  <2>4. n \in Live(d) /\ Books(d)
    BY <2>3 DEF Writes, Even
  <2>5. Even(d, e) /\ Writes(d, e, n, t, NoRes)
    BY <2>4, DetachEven
  <2> HIDE DEF e
  <2>6. Even(c, e)
    BY <2>3, <2>5 DEF Even
  <2>7. Spares(c, e, n)
    BY <2>3, <2>5 DEF Spares, Writes
  <2> QED
    BY <2>1, <2>6, <2>7
<1>2. CASE ~(to # None /\ CanReserve(c, to, Len(c.tree[n].res[t].units)))
  <2> DEFINE d == Detach(c, n, t)
             e == Prune(d, n)
  <2>1. Evict(c, n, t, to) = e
    BY <1>2 DEF Evict
  <2>2. Even(c, d) /\ Writes(c, d, n, t, NoRes) /\ Books(d)
    BY DetachEven DEF Even
  <2> HIDE DEF d
  <2>3. Even(d, e) /\ Prunes(d, e, n)
    BY <2>2, PruneEven
  <2> HIDE DEF e
  <2>4. Even(c, e)
    BY <2>2, <2>3 DEF Even
  <2>5. Spares(c, e, n)
    <3>1. ASSUME NEW m \in Live(c), NEW u \in Tier, m # n, Res(c, m, u).state # "none"
          PROVE  m \in Live(e) /\ Res(e, m, u) = Res(c, m, u)
      <4>1. m \in Live(d) /\ Res(d, m, u) = Res(c, m, u)
        BY <2>2, <3>1 DEF Writes
      <4>2. ~Bare(d, m)
        BY <3>1, <4>1 DEF Bare, Empty, NoRes, Res
      <4>3. m \in Live(e) /\ e.tree[m] = d.tree[m]
        BY <2>3, <4>1, <4>2 DEF Prunes
      <4> QED
        BY <4>1, <4>3 DEF Res
    <3> QED
      BY <3>1 DEF Spares
  <2> QED
    BY <2>1, <2>4, <2>5
<1> QED
  BY <1>1, <1>2

(* A loop of evictions keeps the accounts, whatever it comes to. *)
LEMMA EvictUntilEven ==
  ASSUME NEW c, Books(c), NEW t \in Tier, NEW to \in Tier \cup {None}, to # t, NEW need,
         NEW S \in SUBSET Candidates(c, t), NEW order \in SetToSeqs(S)
  PROVE  Even(c, EvictUntil(c, t, need, to, order))
<1> DEFINE k == Len(order)
           has(d, n) == n \in Live(d) /\ Res(d, n, t).state # "none"
<1>1. IsFiniteSet(S) /\ \A n \in S : has(c, n)
  <2>1. \A n \in S : has(c, n)
    BY DEF Candidates, Evictable, Res
  <2>2. IsFiniteSet(Live(c)) /\ S \subseteq Live(c)
    BY <2>1 DEF Books, Formed
  <2> QED
    BY <2>1, <2>2, FS_Subset
<1>2. /\ k \in Nat /\ \A i \in 1..k : order[i] \in S
      /\ \A i, j \in 1..k : i # j => order[i] # order[j]
  BY <1>1, OrderOfSet
<1>3. PICK after :
        /\ after[0] = c /\ after[k] = EvictUntil(c, t, need, to, order)
        /\ \A i \in 1..k : after[i] = after[i - 1] \/ after[i] = Evict(after[i - 1], order[i], t, to)
  BY <1>2, EvictRun
<1> HIDE DEF k
<1> DEFINE P(i) == Even(c, after[i]) /\ \A j \in 1..k : j > i => has(after[i], order[j])
           bad == {i \in 0..k : ~P(i)}
<1>4. P(0)
  BY <1>1, <1>2, <1>3 DEF Even
<1>5. ASSUME NEW i \in 1..k, P(i - 1) PROVE P(i)
  <2> DEFINE d == after[i - 1]
             n == order[i]
             e == after[i]
  <2>1. e = d \/ e = Evict(d, n, t, to)
    BY <1>3
  <2>2. Even(c, d) /\ \A j \in 1..k : j > i - 1 => has(d, order[j])
    BY <1>5
  <2>3. i > i - 1 /\ \A j \in 1..k : j > i => j > i - 1 /\ order[j] # n
    BY <1>2
  <2>4. CASE e = d
    BY <2>2, <2>3, <2>4
  <2>5. CASE e = Evict(d, n, t, to)
    <3>1. Books(d) /\ n \in Live(d)
      BY <2>2, <2>3 DEF Even
    <3> HIDE DEF d, e, n
    <3>2. Even(d, e) /\ Spares(d, e, n)
      BY <2>5, <3>1, EvictEven
    <3>3. Even(c, e)
      BY <2>2, <3>2 DEF Even
    <3>4. \A j \in 1..k : j > i => has(e, order[j])
      BY <2>2, <2>3, <3>2 DEF Spares
    <3> QED
      BY <3>3, <3>4 DEF e
  <2> QED
    BY <2>1, <2>4, <2>5
<1> HIDE DEF P
<1>6. bad = {}
  <2>1. SUFFICES ASSUME bad # {} PROVE FALSE
    OBVIOUS
  <2>2. bad \in SUBSET Nat
    BY <1>2
  <2>3. PICK x \in bad : \A y \in bad : x <= y
    BY <2>1, <2>2, LeastNumber
  <2>4. x \in 1..k /\ x - 1 \in 0..k
    BY <1>2, <1>4, <2>3
  <2>5. P(x - 1)
    BY <1>2, <2>3, <2>4
  <2> QED
    BY <1>5, <2>3, <2>4, <2>5
<1>7. P(k)
  BY <1>2, <1>6
<1> QED
  BY <1>3, <1>7 DEF P

(* A transfer that is forgotten leaves the units where they are. *)
LEMMA ForgetEven ==
  ASSUME NEW c, Books(c), NEW o
  PROVE  LET b == Forget(c, o) IN
         /\ Even(c, b) /\ b.tree = c.tree /\ b.ops = c.ops \ {o} /\ b.fault = c.fault
         /\ b.free = c.free /\ b.locks = c.locks /\ Live(b) = Live(c)
<1> DEFINE b == Forget(c, o)
<1>1. Formed(c) /\ Record(c)
  BY DEF Books, Formed
<1>2. /\ Record(b) /\ b.tree = c.tree /\ b.locks = c.locks /\ b.ops = c.ops \ {o}
      /\ b.fault = c.fault /\ b.free = c.free
  BY <1>1, ForgetIs
<1> HIDE DEF b
<1>3. Live(b) = Live(c)
  BY <1>2 DEF Live
<1>4. Formed(b)
  <2>1. IsFiniteSet(b.ops)
    BY <1>1, <1>2, FS_Subset DEF Formed
  <2>2. {r \in Pin : b.locks[r] # None} = {r \in Pin : c.locks[r] # None}
    BY <1>2
  <2> QED
    BY <1>1, <1>2, <1>3, <2>1, <2>2 DEF Formed
<1>5. \A t \in Tier : Stock(b, t) = Stock(c, t)
  BY <1>2, <1>3 DEF Stock, TreeSizes, Res
<1>6. ASSUME NEW t \in Tier, MaxPending[t] > 0 PROVE PendingUnits(b, t) <= MaxPending[t]
  <2>1. PendingUnits(b, t) <= PendingUnits(c, t)
    BY <1>1, <1>2, <1>4, PendingLess
  <2>2. PendingUnits(b, t) \in Nat /\ PendingUnits(c, t) \in Nat /\ MaxPending[t] \in Nat
    BY <1>1, <1>4, SizesFormed, CacheAssumption
  <2>3. PendingUnits(c, t) <= MaxPending[t]
    BY <1>6 DEF Books
  <2> QED
    BY <2>1, <2>2, <2>3
<1>7. \A m \in Live(b) : From(b, m) < Len(m)
  BY <1>2, <1>3 DEF From, Books
<1>8. Even(c, b)
  BY <1>2, <1>4, <1>5, <1>6, <1>7 DEF Even, Books
<1> QED
  BY <1>2, <1>3, <1>8 DEF b

(* complete_op() of a transfer that failed frees its reservation. *)
LEMMA FailEven ==
  ASSUME NEW c, Books(c), CacheInv(c), NEW o \in c.ops
  PROVE  Even(c, Complete(c, o, FALSE, FALSE))
<1> DEFINE n == o.node
           b == Forget(c, o)
           x == Detach(b, n, o.dst)
<1>1. n \in Live(c) /\ o.dst \in Tier /\ Res(c, n, o.dst).state = "pending"
  BY DEF CacheInv, OpsKept, OpKept, Formed, PendingOp
<1>2. Has(c, n, o.dst)
  BY <1>1 DEF Has, Res
<1>3. Complete(c, o, FALSE, FALSE) = Prune(x, n)
  BY <1>2 DEF Complete
<1>4. Even(c, b) /\ Live(b) = Live(c) /\ Books(b)
  BY ForgetEven DEF Even
<1> HIDE DEF b
<1>5. Even(b, x) /\ Books(x)
  BY <1>1, <1>4, DetachEven DEF Even
<1> HIDE DEF x
<1>6. Even(x, Prune(x, n))
  BY <1>5, PruneEven
<1> QED
  BY <1>3, <1>4, <1>5, <1>6 DEF Even

(* complete_op() of a transfer that succeeded fills its reservation, and    *)
(* a demotion frees the source.                                             *)
LEMMA DoneEven ==
  ASSUME NEW c, Books(c), CacheInv(c), NEW o \in c.ops, NEW late \in BOOLEAN
  PROVE  Even(c, Complete(c, o, TRUE, late))
<1> DEFINE n == o.node
           b == Forget(c, o)
           w == Copied(o, late)
           r == CopyOf(Res(c, n, o.dst), w)
           bad == ~o.promote /\ InUse(Res(c, n, o.src))
           x == [b EXCEPT
                  !.tree[n].res[o.dst] = r,
                  !.fault = IF bad THEN "unpinned" ELSE @]
           e == Complete(c, o, TRUE, late)
<1>1. /\ Formed(c) /\ n \in Live(c) /\ o.dst \in Tier /\ o.src \in Tier /\ o.promote \in BOOLEAN
      /\ o.data \in Seq(Content)
      /\ Res(c, n, o.dst).state = "pending" /\ Len(n) - From(c, n) <= Len(o.data)
  BY DEF CacheInv, OpsKept, OpKept, Formed, PendingOp
<1>2. Has(c, n, o.dst)
  BY <1>1 DEF Has, Res
<1>3. e = IF o.promote THEN x ELSE Detach(x, n, o.src)
  BY <1>2 DEF Complete, CopyOf, Res
<1>4. Res(c, n, o.dst) \in Resource /\ Len(Res(c, n, o.dst).units) = Len(n) - From(c, n)
  BY <1>1, NodeParts DEF CacheInv, Filled, Right
<1>5. r \in Resource /\ Len(r.units) = Len(Res(c, n, o.dst).units)
  <2>1. w \in Seq(Content) /\ Len(w) = Len(o.data)
    BY <1>1, CopiedIs
  <2> HIDE DEF w
  <2> QED
    BY <1>1, <1>4, <2>1, CopyIsResource
<1>6. /\ Even(c, b) /\ b.tree = c.tree /\ b.ops = c.ops \ {o} /\ b.fault = c.fault
      /\ b.free = c.free /\ b.locks = c.locks /\ Live(b) = Live(c)
  BY ForgetEven
<1> HIDE DEF b, e
<1>7. /\ Record(x) /\ x.tree = [b.tree EXCEPT ![n].res[o.dst] = r] /\ x.locks = b.locks
      /\ x.ops = b.ops /\ x.fault = (IF bad THEN "unpinned" ELSE b.fault) /\ x.free = b.free
  <2>1. x = [b EXCEPT !.tree[n].res[o.dst] = r, !.fault = IF bad THEN "unpinned" ELSE @]
    OBVIOUS
  <2>2. Record(b)
    BY <1>6 DEF Even, Books, Formed
  <2> HIDE DEF x, r, bad
  <2> QED
    BY <2>1, <2>2 DEF Record
<1> HIDE DEF x, bad
<1>8. Books(b) /\ Formed(b) /\ \A m \in Live(b) : b.tree[m] \in TreeNode
  BY <1>6 DEF Even, Books, Formed
<1>9. Writes(b, x, n, o.dst, r)
  <2> HIDE DEF r
  <2> QED
    BY <1>1, <1>5, <1>6, <1>7, <1>8, TreeWrite
<1>10. Formed(x)
  <2>1. /\ \A p \in x.ops : p \in PendingOp /\ p.src # p.dst
        /\ IsFiniteSet(x.ops)
    BY <1>7, <1>8 DEF Formed
  <2> HIDE DEF r
  <2> QED
    BY <1>8, <1>9, <2>1, WriteFormed
<1>11. Res(b, n, o.dst) = Res(c, n, o.dst)
  BY <1>6 DEF Res
<1> DEFINE k == Len(r.units)
<1>12. /\ k \in Nat
       /\ \A u \in Tier : CountUnits(TreeSizes(b, u)) \in Nat /\ CountUnits(TreeSizes(x, u)) \in Nat
       /\ CountUnits(TreeSizes(x, o.dst)) + k = CountUnits(TreeSizes(b, o.dst)) + k
       /\ \A u \in Tier : u # o.dst => CountUnits(TreeSizes(x, u)) = CountUnits(TreeSizes(b, u))
  <2>1. k = Len(Res(b, n, o.dst).units)
    BY <1>5, <1>11
  <2>2. n \in Live(b)
    BY <1>1, <1>6
  <2>3. r \in Resource
    BY <1>5
  <2> HIDE DEF r
  <2> QED
    BY <1>1, <1>8, <1>9, <1>10, <2>1, <2>2, <2>3, WriteStock
<1> HIDE DEF k, r
<1>13. \A u \in Tier : Stock(x, u) = Stock(b, u)
  BY <1>1, <1>7, <1>12 DEF Stock
<1>14. Books(x)
  <2>1. \A u \in Tier : PendingUnits(x, u) = PendingUnits(b, u)
    BY <1>7 DEF PendingUnits
  <2>2. \A m \in Live(x) : From(x, m) < Len(m)
    BY <1>8, <1>9 DEF Writes, Books
  <2>3. x.fault \in {"none", "collision", "overwrite", "unpinned"}
    BY <1>7, <1>8 DEF Books
  <2> QED
    BY <1>7, <1>8, <1>10, <2>1, <2>2, <2>3 DEF Books
<1>15. Even(c, x)
  BY <1>6, <1>13, <1>14 DEF Even
<1>16. n \in Live(x)
  BY <1>1, <1>6, <1>9 DEF Writes
<1>17. Even(x, Detach(x, n, o.src))
  BY <1>1, <1>14, <1>16, DetachEven
<1>18. Even(c, Detach(x, n, o.src))
  BY <1>15, <1>17 DEF Even
<1> QED
  BY <1>1, <1>3, <1>15, <1>18 DEF e

(* fail_all_inflight() frees the reservations. *)
LEMMA FailAllEven ==
  ASSUME NEW c, Books(c), CacheInv(c), NEW order \in SetToSeqs(c.ops), NEW e,
         LET after[i \in 0..Len(order)] ==
               IF i = 0 THEN c ELSE Complete(after[i - 1], order[i], FALSE, FALSE)
         IN e = after[Len(order)]
  PROVE  Even(c, e)
<1> DEFINE k == Len(order)
           after[i \in 0..Len(order)] ==
             IF i = 0 THEN c ELSE Complete(after[i - 1], order[i], FALSE, FALSE)
<1>1. e = after[k]
  OBVIOUS
<1>2. IsFiniteSet(c.ops)
  BY DEF CacheInv, Formed
<1>3. /\ k \in Nat /\ \A i \in 1..k : order[i] \in c.ops
      /\ \A i, j \in 1..k : i # j => order[i] # order[j]
  BY <1>2, OrderOfSet
<1>4. IsRun(after, k, c, order, TRUE, None, None, None)
  <2>1. \E f : IsRun(f, k, c, order, TRUE, None, None, None)
    BY <1>3, RunExists
  <2> QED
    BY <2>1 DEF IsRun, Step
<1> HIDE DEF after
<1>5. /\ after[0] = c
      /\ \A i \in 1..k : after[i] = Step(TRUE, after[i - 1], order[i], None, None, None)
  <2>1. \A b : IsRun(after, k, c, order, b, None, None, None) =>
          /\ after[0] = c
          /\ \A i \in 1..k : after[i] = Step(b, after[i - 1], order[i], None, None, None)
    BY <1>3, RunStep
  <2> QED
    BY <1>4, <2>1, Zenon
<1> HIDE DEF k
<1> DEFINE P(i) == /\ CacheInv(after[i]) /\ Even(c, after[i])
                   /\ \A j \in 1..k : j > i => order[j] \in after[i].ops
           bad == {i \in 0..k : ~P(i)}
<1>6. P(0)
  BY <1>3, <1>5 DEF Even
<1>7. ASSUME NEW i \in 1..k, P(i - 1) PROVE P(i)
  <2> DEFINE d == after[i - 1]
             o == order[i]
             x == after[i]
  <2>1. x = Complete(d, o, FALSE, FALSE)
    BY <1>5 DEF Step
  <2>2. /\ i > i - 1 /\ \A j \in 1..k : j > i => j > i - 1 /\ order[j] # o
    BY <1>3
  <2>3. CacheInv(d) /\ Even(c, d) /\ Books(d) /\ o \in d.ops
    BY <1>7, <2>2 DEF Even
  <2>4. CacheInv(x) /\ x.ops = d.ops \ {o} /\ Even(d, x)
    <3> HIDE DEF d, o, x
    <3> QED
      BY <2>1, <2>3, FailKeeps, FailEven
  <2>5. \A j \in 1..k : j > i => order[j] \in d.ops
    BY <1>7, <2>2
  <2>6. Even(c, x)
    BY <2>3, <2>4 DEF Even
  <2> QED
    BY <2>2, <2>4, <2>5, <2>6
<1> HIDE DEF P
<1>8. bad = {}
  <2>1. SUFFICES ASSUME bad # {} PROVE FALSE
    OBVIOUS
  <2>2. bad \in SUBSET Nat
    BY <1>3
  <2>3. PICK x \in bad : \A y \in bad : x <= y
    BY <2>1, <2>2, LeastNumber
  <2>4. x \in 1..k /\ x - 1 \in 0..k
    BY <1>3, <1>6, <2>3
  <2>5. P(x - 1)
    BY <1>3, <2>3, <2>4
  <2> QED
    BY <1>7, <2>3, <2>4, <2>5
<1>9. P(k)
  BY <1>3, <1>8
<1> QED
  BY <1>1, <1>9 DEF P

(* The transfers of a split node keep their data. *)
LEMMA SplitPending ==
  ASSUME NEW c, NEW d, NEW n \in Live(c), NEW k, CacheInv(c), Formed(d), Splits(c, d, n, k),
         NEW t \in Tier
  PROVE  PendingUnits(d, t) = PendingUnits(c, t)
<1> DEFINE h == Pre(n, k)
           C == {o \in c.ops : o.dst = t}
           D == {o \in d.ops : o.dst = t}
           f == PendingSizes(c, t)
           g == PendingSizes(d, t)
           b == [o \in C |-> Moved(o, n, h)]
<1>1. n \in Query /\ Formed(c) /\ OpsKept(c)
  BY NodeParts DEF CacheInv
<1>2. h \in Query /\ h \notin Live(c) /\ d.ops = {Moved(o, n, h) : o \in c.ops}
  BY DEF Splits
<1>3. /\ Sizes(f) /\ Sizes(g) /\ PendingUnits(c, t) = CountUnits(f) /\ PendingUnits(d, t) = CountUnits(g)
  BY <1>1, SizesFormed
<1>4. /\ DOMAIN f = C /\ \A o \in C : f[o] = Len(o.data)
      /\ DOMAIN g = D /\ \A o \in D : g[o] = Len(o.data)
  BY DEF PendingSizes
<1> HIDE DEF h, f, g
<1>5. ASSUME NEW o \in c.ops
      PROVE  /\ Moved(o, n, h).dst = o.dst /\ Moved(o, n, h).data = o.data
             /\ Moved(o, n, h).node = IF o.node = n THEN h ELSE o.node
  <2>1. o \in PendingOp
    BY <1>1 DEF Formed
  <2> QED
    BY <1>1, <1>2, <2>1, MovedParts
<1>6. ASSUME NEW o \in c.ops, NEW p \in c.ops, Moved(o, n, h) = Moved(p, n, h) PROVE o = p
  <2>1. o.node \in Live(c) /\ p.node \in Live(c)
    BY <1>1 DEF OpsKept, OpKept
  <2>2. o.dst = p.dst
    BY <1>5, <1>6
  <2>3. o.node = p.node
    BY <1>2, <1>5, <1>6, <2>1
  <2> QED
    BY <1>1, <2>2, <2>3 DEF OpsKept
<1>7. b \in Bijection(C, D)
  <2>1. ASSUME NEW o \in C PROVE b[o] \in D
    BY <1>2, <1>5
  <2>2. ASSUME NEW p \in D PROVE \E o \in C : b[o] = p
    <3>1. PICK o \in c.ops : p = Moved(o, n, h)
      BY <1>2
    <3>2. o \in C
      BY <1>5, <3>1
    <3> QED
      BY <3>1, <3>2
  <2>3. \A o, p \in C : b[o] = b[p] => o = p
    BY <1>6
  <2>4. b \in [C -> D] /\ DOMAIN b = C
    BY <2>1
  <2> HIDE DEF b, C, D
  <2> QED
    BY <2>2, <2>3, <2>4 DEF Bijection, Injection, Surjection, IsInjective
<1>8. \A o \in C : g[b[o]] = f[o]
  <2>1. ASSUME NEW o \in C PROVE g[b[o]] = f[o]
    <3>1. b[o] = Moved(o, n, h) /\ b[o] \in D
      BY <1>2, <1>5
    <3>2. g[b[o]] = Len(Moved(o, n, h).data)
      BY <1>4, <3>1
    <3> QED
      BY <1>4, <1>5, <3>2
  <2> QED
    BY <2>1
<1> HIDE DEF b, C, D
<1>9. CountUnits(g) = CountUnits(f)
  <2>1. b \in Bijection(DOMAIN f, DOMAIN g) /\ \A o \in DOMAIN f : g[b[o]] = f[o]
    BY <1>4, <1>7, <1>8
  <2> QED
    BY <1>3, <2>1, CountRenamed
<1> QED
  BY <1>3, <1>9

(* The two parts of a split resource have the units of the whole. *)
LEMMA SplitEven ==
  ASSUME NEW c, NEW d, NEW n \in Live(c), NEW k \in Nat, CacheInv(c), Books(c), CacheInv(d),
         Splits(c, d, n, k), From(c, n) < k, k < Len(n)
  PROVE  Even(c, d)
<1> DEFINE h == Pre(n, k)
<1>1. /\ Formed(c) /\ Formed(d) /\ Filled(c) /\ Radix(d)
      /\ From(c, n) \in Nat /\ Len(n) \in Nat
  BY NodeParts, PrefixOrder DEF CacheInv
<1>2. /\ Len(h) = k /\ h # n /\ h \notin Live(c) /\ Live(d) = Live(c) \cup {h}
      /\ d.fault = c.fault /\ d.free = c.free
      /\ \A m \in Live(c) : m # n => \A t \in Tier : Res(d, m, t) = Res(c, m, t)
      /\ \A t \in Tier : \A m \in {h, n} : Res(d, m, t).state = Res(c, n, t).state
      /\ \A t \in Tier : Right(h, From(c, n), Res(d, h, t)) /\ Right(n, k, Res(d, n, t))
  BY DEF Splits
<1> HIDE DEF h
<1>3. ASSUME NEW t \in Tier
      PROVE  CountUnits(TreeSizes(d, t)) = CountUnits(TreeSizes(c, t))
  <2> DEFINE f == TreeSizes(c, t)
             g == TreeSizes(d, t)
             a == Len(Res(d, h, t).units)
             b == Len(Res(d, n, t).units)
             w == Len(Res(c, n, t).units)
             e == [m \in Live(d) |-> IF m = h THEN a ELSE Len(Res(c, m, t).units)]
  <2>1. /\ Sizes(f) /\ Sizes(g) /\ CountUnits(f) \in Nat /\ CountUnits(g) \in Nat
        /\ \A m \in Live(c) : Len(Res(c, m, t).units) \in Nat
        /\ \A m \in Live(d) : Len(Res(d, m, t).units) \in Nat
        /\ \A m : At(f, m) = IF m \in Live(c) THEN Len(Res(c, m, t).units) ELSE 0
        /\ \A m : At(g, m) = IF m \in Live(d) THEN Len(Res(d, m, t).units) ELSE 0
    BY <1>1, SizesFormed
  <2>2. w \in Nat /\ a \in Nat /\ b \in Nat
    BY <1>2, <2>1
  <2>3. w = a + b
    <3>1. CASE Res(c, n, t).state = "none"
      <4>1. Res(c, n, t) = NoRes /\ Res(d, h, t) = NoRes /\ Res(d, n, t) = NoRes
        BY <1>1, <1>2, <3>1 DEF Filled, Right
      <4>2. Len(NoRes.units) = 0
        BY DEF NoRes
      <4> QED
        BY <4>1, <4>2
    <3>2. CASE Res(c, n, t).state # "none"
      <4>1. w = Len(n) - From(c, n) /\ a = Len(h) - From(c, n) /\ b = Len(n) - k
        BY <1>1, <1>2, <3>2 DEF Filled, Right
      <4> QED
        BY <1>1, <1>2, <4>1
    <3> QED
      BY <3>1, <3>2
  <2>4. Sizes(e) /\ \A m : At(e, m) = IF m = h THEN a ELSE IF m \in Live(c) THEN Len(Res(c, m, t).units) ELSE 0
    <3>1. IsFiniteSet(Live(d))
      BY <1>1 DEF Formed
    <3> HIDE DEF a
    <3> QED
      BY <1>2, <2>1, <2>2, <3>1 DEF Sizes, At
  <2>5. /\ At(f, h) = 0 /\ At(e, h) = a /\ At(e, n) = w /\ At(g, n) = b
        /\ \A m : m # h => At(e, m) = At(f, m)
        /\ \A m : m # n => At(g, m) = At(e, m)
    <3>1. At(f, h) = 0 /\ At(e, h) = a /\ At(e, n) = w /\ At(g, n) = b
      BY <1>2, <2>1, <2>4
    <3>2. \A m : m # h => At(e, m) = At(f, m)
      BY <2>1, <2>4
    <3>3. ASSUME NEW m, m # n PROVE At(g, m) = At(e, m)
      BY <1>2, <2>1, <2>4, <3>3
    <3> QED
      BY <3>1, <3>2, <3>3
  <2> HIDE DEF e, f, g, a, b, w
  <2>6. CountUnits(e) \in Nat /\ CountUnits(e) + At(f, h) = CountUnits(f) + At(e, h)
    BY <2>1, <2>4, <2>5, CountChange
  <2>7. CountUnits(g) + At(e, n) = CountUnits(e) + At(g, n)
    BY <2>1, <2>4, <2>5, CountChange
  <2>8. CountUnits(g) = CountUnits(f)
    BY <2>1, <2>2, <2>3, <2>5, <2>6, <2>7
  <2> QED
    BY <2>8 DEF f, g
<1>4. \A t \in Tier : Stock(d, t) = Stock(c, t)
  BY <1>2, <1>3 DEF Stock
<1>5. \A t \in Tier : PendingUnits(d, t) = PendingUnits(c, t)
  BY <1>1, SplitPending
<1>6. \A m \in Live(d) : From(d, m) < Len(m)
  BY <1>1 DEF Radix
<1> QED
  BY <1>1, <1>2, <1>4, <1>5, <1>6 DEF Even, Books

(* walk() keeps the accounts. *)
LEMMA WalkEven ==
  ASSUME NEW c, CacheInv(c), Books(c), NEW q \in Query
  PROVE  Even(c, Walk(c, q))
<1> DEFINE w == Walk(c, q)
           left == {n \in Live(c) : Common(n, q) \in (c.tree[n].from + 1)..(Len(n) - 1)}
<1>1. Formed(c) /\ Radix(c) /\ Filled(c)
  BY DEF CacheInv
<1>2. \A n \in Live(c) : From(c, n) \in Nat /\ Len(n) \in Nat /\ Common(n, q) \in Nat
  BY <1>1, NodeParts, PrefixOrder, CommonPages
<1>3. w = IF left = {} THEN c ELSE LET n == CHOOSE x \in left : TRUE IN Split(c, n, Common(n, q))
  BY DEF Walk
<1>4. CacheInv(w)
  BY WalkKeeps
<1> HIDE DEF w
<1>5. CASE left = {}
  BY <1>3, <1>5 DEF Even, w
<1>6. CASE left # {}
  <2> DEFINE n == CHOOSE x \in left : TRUE
             k == Common(n, q)
  <2>1. n \in left /\ n \in Live(c)
    BY <1>6
  <2>2. w = Split(c, n, k)
    BY <1>3, <1>6
  <2> HIDE DEF n
  <2>3. k \in Nat /\ From(c, n) < k /\ k < Len(n)
    BY <1>2, <2>1 DEF From
  <2> HIDE DEF k
  <2>4. Splits(c, w, n, k)
    BY <1>1, <2>1, <2>2, <2>3, SplitIs
  <2>5. Even(c, w)
    BY <1>4, <2>1, <2>3, <2>4, SplitEven
  <2> QED
    BY <2>5 DEF w
<1> QED
  BY <1>5, <1>6

(* The counts of locks are not among the accounts. *)
LEMMA MarksEven ==
  ASSUME NEW c, NEW d, NEW n, NEW t, NEW by, CacheInv(d), Books(c), Marks(c, d, n, t, by)
  PROVE  Even(c, d)
<1>1. /\ Live(d) = Live(c) /\ d.ops = c.ops /\ d.fault = c.fault /\ d.free = c.free
      /\ \A m \in Live(c) : From(d, m) = From(c, m)
      /\ \A m \in Live(c), u \in Tier : Res(d, m, u).units = Res(c, m, u).units
  BY DEF Marks
<1>2. \A u \in Tier : TreeSizes(d, u) = TreeSizes(c, u)
  BY <1>1 DEF TreeSizes
<1>3. \A u \in Tier : Stock(d, u) = Stock(c, u)
  BY <1>1, <1>2 DEF Stock
<1>4. \A u \in Tier : PendingUnits(d, u) = PendingUnits(c, u)
  BY <1>1 DEF PendingUnits
<1>5. Formed(d)
  BY DEF CacheInv
<1> QED
  BY <1>1, <1>3, <1>4, <1>5 DEF Even, Books

(* A cache with the tree and the transfers of c, and other free lists. *)
Alike(c, d) ==
  /\ Record(d) /\ d.tree = c.tree /\ d.ops = c.ops /\ d.locks = c.locks
  /\ d.free \in [Tier -> Nat] /\ d.fault \in {"none", "collision", "overwrite", "unpinned"}

(* Only the free lists count, then. *)
LEMMA AlikeBooks ==
  ASSUME NEW c, NEW d, Books(c), Alike(c, d)
  PROVE  Books(d) /\ \A t \in Tier : TreeSizes(d, t) = TreeSizes(c, t)
<1>1. /\ Record(d) /\ d.tree = c.tree /\ d.ops = c.ops /\ d.locks = c.locks
      /\ d.free \in [Tier -> Nat] /\ d.fault \in {"none", "collision", "overwrite", "unpinned"}
  BY DEF Alike
<1>2. /\ Live(d) = Live(c) /\ \A n : From(d, n) = From(c, n)
      /\ \A n, t : Res(d, n, t) = Res(c, n, t)
  BY <1>1 DEF Live, From, Res
<1>3. Formed(d)
  BY <1>1, <1>2 DEF Books, Formed
<1>4. \A t \in Tier : PendingUnits(d, t) = PendingUnits(c, t)
  BY <1>1 DEF PendingUnits
<1>5. \A t \in Tier : TreeSizes(d, t) = TreeSizes(c, t)
  BY <1>2 DEF TreeSizes
<1> QED
  BY <1>1, <1>2, <1>3, <1>4, <1>5 DEF Books

(* The units of a new node. *)
LEMMA GrowEven ==
  ASSUME NEW c, NEW d, NEW q, NEW k \in Nat, NEW t \in Tier, Books(c), CacheInv(d), Grows(c, d, q, k, t),
         q \notin Live(c), \A u \in Tier : u # t => Res(d, q, u) = NoRes,
         d.fault = c.fault, d.free \in [Tier -> Nat]
  PROVE  /\ Books(d)
         /\ CountUnits(TreeSizes(d, t)) = CountUnits(TreeSizes(c, t)) + (Len(q) - k)
         /\ \A u \in Tier : u # t => CountUnits(TreeSizes(d, u)) = CountUnits(TreeSizes(c, u))
<1>1. Formed(c) /\ Formed(d) /\ Radix(d)
  BY DEF Books, CacheInv
<1>2. /\ Live(d) = Live(c) \cup {q} /\ d.ops = c.ops /\ Has(d, q, t) /\ Right(q, k, Res(d, q, t))
      /\ \A n \in Live(c) : n # q => d.tree[n] = c.tree[n]
  BY DEF Grows
<1>3. ASSUME NEW u \in Tier
      PROVE  /\ CountUnits(TreeSizes(c, u)) \in Nat /\ Len(Res(d, q, u).units) \in Nat
             /\ CountUnits(TreeSizes(d, u)) = CountUnits(TreeSizes(c, u)) + Len(Res(d, q, u).units)
  <2> DEFINE f == TreeSizes(c, u)
             g == TreeSizes(d, u)
  <2>1. /\ Sizes(f) /\ \A m : At(f, m) = IF m \in Live(c) THEN Len(Res(c, m, u).units) ELSE 0
        /\ Sizes(g) /\ \A m : At(g, m) = IF m \in Live(d) THEN Len(Res(d, m, u).units) ELSE 0
    BY <1>1, SizesFormed
  <2>2. \A m : m # q => At(g, m) = At(f, m)
    BY <1>2, <2>1 DEF Res
  <2>3. At(f, q) = 0 /\ At(g, q) = Len(Res(d, q, u).units)
    BY <1>2, <2>1
  <2> HIDE DEF f, g
  <2>4. /\ CountUnits(f) \in Nat /\ CountUnits(g) \in Nat /\ At(g, q) \in Nat
        /\ CountUnits(g) + At(f, q) = CountUnits(f) + At(g, q)
    BY <2>1, <2>2, CountChange
  <2>5. CountUnits(g) = CountUnits(f) + Len(Res(d, q, u).units)
    BY <2>3, <2>4
  <2> QED
    BY <2>3, <2>4, <2>5 DEF f, g
<1>4. Len(Res(d, q, t).units) = Len(q) - k
  BY <1>2 DEF Has, Res, Right
<1>5. \A u \in Tier : u # t => Len(Res(d, q, u).units) = 0
  BY DEF NoRes
<1>6. CountUnits(TreeSizes(d, t)) = CountUnits(TreeSizes(c, t)) + (Len(q) - k)
  BY <1>3, <1>4
<1>7. ASSUME NEW u \in Tier, u # t PROVE CountUnits(TreeSizes(d, u)) = CountUnits(TreeSizes(c, u))
  BY <1>3, <1>5, <1>7
<1>8. \A u \in Tier : PendingUnits(d, u) = PendingUnits(c, u)
  BY <1>2 DEF PendingUnits
<1>9. \A m \in Live(d) : From(d, m) < Len(m)
  BY <1>1 DEF Radix
<1>10. Books(d)
  BY <1>1, <1>8, <1>9 DEF Books
<1> QED
  BY <1>6, <1>7, <1>10

(* insert() takes over the units of its caller, unless it meets a child on *)
(* its way.                                                                *)
LEMMA InsertEven ==
  ASSUME NEW c, CacheInv(c), Books(c), c.fault = "none", NEW q \in Query, NEW t \in Tier,
         NEW e, e = Inserted(c, q, t)
  PROVE  /\ Books(e) /\ \A u \in Tier : u # t => Stock(e, u) = Stock(c, u)
         /\ Stock(e, t) <= Stock(c, t) + Len(q)
         /\ e.fault = "none" => Stock(e, t) = Stock(c, t) + Len(q)
<1> DEFINE w == Walk(c, q)
           m == Len(LastNode(w, q, t))
           x == [w EXCEPT !.free[t] = @ + m]
           us == Suffix([i \in DOMAIN q |-> Pre(q, i)], m)
           s == [state |-> "ready", units |-> us, refs |-> 0]
           rs == [Empty EXCEPT ![t] = s]
           nd == [from |-> m, res |-> rs]
           tr == [n \in Live(w) \cup {q} |-> IF n # q THEN w.tree[n] ELSE nd]
<1>1. e = IF m = Len(q) THEN x
          ELSE IF \E n \in Chain(w, q) : w.tree[n].from >= m THEN [x EXCEPT !.fault = "collision"]
          ELSE [x EXCEPT !.tree = tr]
  BY DEF Inserted
<1>2. CacheInv(w) /\ Whole(w, q) /\ w.fault = "none" /\ Even(c, w)
  BY WalkKeeps, WalkEven
<1> HIDE DEF w
<1>3. Formed(w) /\ Record(w) /\ Radix(w) /\ Books(w) /\ w.free \in [Tier -> Nat]
  BY <1>2 DEF CacheInv, Formed, Even, Books
<1>4. /\ m \in Nat /\ m <= Len(q) /\ Len(q) \in Nat
      /\ m > 0 => LastNode(w, q, t) \in Live(w) /\ IsPrefix(LastNode(w, q, t), q)
  BY <1>3, LastNodeIs, PrefixOrder
<1> DEFINE p == LastNode(w, q, t)
<1>5. Len(p) = m
  OBVIOUS
<1> HIDE DEF m, us, p
<1>6. /\ Record(x) /\ x.tree = w.tree /\ x.ops = w.ops /\ x.locks = w.locks /\ x.fault = w.fault
      /\ x.free = [w.free EXCEPT ![t] = @ + m]
  BY <1>3 DEF Record
<1> HIDE DEF x, tr
<1>7. /\ x.free \in [Tier -> Nat] /\ x.free[t] = w.free[t] + m /\ w.free[t] \in Nat
      /\ \A u \in Tier : u # t => x.free[u] = w.free[u]
  BY <1>3, <1>4, <1>6
<1>8. \A u \in Tier : CountUnits(TreeSizes(w, u)) \in Nat /\ Stock(w, u) = Stock(c, u)
  BY <1>2, <1>3, SizesFormed DEF Even
<1>9. CASE m = Len(q) \/ \E n \in Chain(w, q) : w.tree[n].from >= m
  <2>1. e = x \/ (m # Len(q) /\ e = [x EXCEPT !.fault = "collision"])
    BY <1>1, <1>9
  <2>2. Alike(w, e) /\ e.free = x.free /\ (e.fault = "none" => m = Len(q))
    <3>1. CASE m = Len(q)
      BY <1>1, <1>2, <1>6, <1>7, <3>1 DEF Alike
    <3>2. CASE m # Len(q)
      <4>1. e = [x EXCEPT !.fault = "collision"]
        BY <1>1, <1>9, <3>2
      <4>2. /\ Record(e) /\ e.tree = x.tree /\ e.ops = x.ops /\ e.locks = x.locks
            /\ e.fault = "collision" /\ e.free = x.free
        BY <1>6, <4>1 DEF Record
      <4> QED
        BY <1>6, <1>7, <4>2 DEF Alike
    <3> QED
      BY <3>1, <3>2
  <2>3. Books(e) /\ \A u \in Tier : TreeSizes(e, u) = TreeSizes(w, u)
    BY <1>3, <2>2, AlikeBooks
  <2>4. \A u \in Tier : u # t => Stock(e, u) = Stock(c, u)
    BY <1>7, <1>8, <2>2, <2>3 DEF Stock
  <2>5. Stock(e, t) = Stock(c, t) + m /\ Stock(c, t) \in Nat
    <3>1. Stock(e, t) = (w.free[t] + m) + CountUnits(TreeSizes(w, t))
      BY <1>7, <2>2, <2>3 DEF Stock
    <3>2. Stock(c, t) = w.free[t] + CountUnits(TreeSizes(w, t))
      BY <1>8 DEF Stock
    <3> QED
      BY <1>4, <1>7, <1>8, <3>1, <3>2
  <2> QED
    BY <1>4, <2>2, <2>3, <2>4, <2>5
<1>10. CASE m # Len(q) /\ ~\E n \in Chain(w, q) : w.tree[n].from >= m
  <2>1. e = [x EXCEPT !.tree = tr]
    BY <1>1, <1>10
  <2>2. /\ Record(e) /\ e.tree = tr /\ e.ops = w.ops /\ e.locks = w.locks /\ e.free = x.free
        /\ e.fault = w.fault
    BY <1>6, <2>1 DEF Record
  <2>3. m < Len(q)
    BY <1>4, <1>10
  <2>4. /\ us \in Seq(Content) /\ Len(us) = Len(q) - m
        /\ \A i \in 1..(Len(q) - m) : us[i] = Pre(q, m + i)
    BY <1>4, <2>3, NewUnits DEF us
  <2>5. /\ Live(e) = Live(w) \cup {q} /\ e.tree[q] = nd
        /\ \A n \in Live(w) : n # q => e.tree[n] = w.tree[n]
    <3> HIDE DEF nd
    <3> QED
      BY <2>2 DEF Live, tr
  <2>6. s \in Resource /\ s.state = "ready" /\ s.units = us
    BY <2>4 DEF Resource
  <2>7. Right(q, m, s)
    <3> HIDE DEF s
    <3> QED
      BY <2>4, <2>6 DEF Right
  <2> HIDE DEF s
  <2>8. rs \in [Tier -> Resource] /\ \A u \in Tier : rs[u] = IF u = t THEN s ELSE NoRes
    BY <2>6, NothingIsResource DEF Empty
  <2> HIDE DEF rs
  <2>9. nd \in TreeNode /\ nd.from = m /\ nd.res = rs
    BY <1>4, <2>8 DEF TreeNode
  <2> HIDE DEF nd
  <2>10. From(e, q) = m /\ \A u \in Tier : Res(e, q, u) = rs[u]
    BY <2>5, <2>9 DEF From, Res
  <2>11. Has(e, q, t)
    BY <2>6, <2>8, <2>10 DEF Has, Res
  <2>12. \A u \in Tier : Right(q, m, Res(e, q, u))
    BY <2>7, <2>8, <2>10, NothingIsRight
  <2>13. Grows(w, e, q, m, t)
    BY <2>2, <2>5, <2>9, <2>10, <2>11, <2>12 DEF Grows
  <2>14. q \notin Live(w)
    <3>1. SUFFICES ASSUME q \in Live(w) PROVE FALSE
      OBVIOUS
    <3>2. From(w, q) \in Nat /\ IsPrefix(q, q)
      BY <1>3, <3>1, NodeParts, PrefixOrder
    <3>3. From(w, q) < m /\ m > 0
      BY <1>4, <1>10, <3>1, <3>2 DEF Chain, From
    <3>4. p \in Live(w) /\ IsPrefix(p, q) /\ p # q
      BY <1>4, <1>5, <2>3, <3>3 DEF p
    <3>5. Len(p) <= From(w, q)
      BY <1>3, <3>1, <3>4, BelowBegins
    <3> QED
      BY <1>4, <1>5, <3>2, <3>3, <3>5
  <2>15. CacheInv(e)
    BY <1>2, <2>2, InsertKeeps
  <2>16. \A u \in Tier : u # t => Res(e, q, u) = NoRes
    BY <2>8, <2>10
  <2>17. e.fault = w.fault /\ e.free \in [Tier -> Nat]
    BY <1>7, <2>2
  <2>18. /\ Books(e)
         /\ CountUnits(TreeSizes(e, t)) = CountUnits(TreeSizes(w, t)) + (Len(q) - m)
         /\ \A u \in Tier : u # t => CountUnits(TreeSizes(e, u)) = CountUnits(TreeSizes(w, u))
    BY <1>3, <1>4, <2>13, <2>14, <2>15, <2>16, <2>17, GrowEven
  <2>19. \A u \in Tier : u # t => Stock(e, u) = Stock(c, u)
    BY <1>7, <1>8, <2>2, <2>18 DEF Stock
  <2>20. Stock(e, t) = Stock(c, t) + Len(q) /\ Stock(c, t) \in Nat
    <3>1. Stock(e, t) = (w.free[t] + m) + (CountUnits(TreeSizes(w, t)) + (Len(q) - m))
      BY <1>7, <2>2, <2>18 DEF Stock
    <3>2. Stock(c, t) = w.free[t] + CountUnits(TreeSizes(w, t))
      BY <1>8 DEF Stock
    <3>3. CountUnits(TreeSizes(w, t)) \in Nat
      BY <1>8
    <3> QED
      BY <1>4, <1>7, <3>1, <3>2, <3>3
  <2> QED
    BY <1>4, <2>18, <2>19, <2>20
<1> QED
  BY <1>9, <1>10

-----------------------------------------------------------------------------
(* The calls keep the accounts.                                            *)

HandSizes(h, t) == [r \in {x \in Caller : h[x] # None /\ h[x].tier = t} |-> h[r].size]

(* The owned_units of callers. *)
HandRight(h) ==
  /\ DOMAIN h = Caller /\ IsFiniteSet({r \in Caller : h[r] # None})
  /\ \A r \in Caller : h[r] # None => h[r] \in [tier : Tier, size : 1..MaxLen]

Owned(h, r, t) == IF h[r] # None /\ h[r].tier = t THEN h[r].size ELSE 0

(* No tier has more units than it began with, and none is missing unless a *)
(* fault was met.                                                          *)
Balanced(c, h) ==
  /\ HandRight(h) /\ Books(c)
  /\ \A t \in Tier :
       /\ Stock(c, t) + CountUnits(HandSizes(h, t)) <= Total[t] - 1
       /\ c.fault = "none" => Stock(c, t) + CountUnits(HandSizes(h, t)) = Total[t] - 1

UnitsInv == Balanced(cache, hand)

(* The numbers are numbers. *)
LEMMA StockIsNat ==
  ASSUME NEW c, Books(c), NEW t \in Tier
  PROVE  c.free[t] \in Nat /\ Stock(c, t) \in Nat /\ c.free[t] <= Stock(c, t) /\ Total[t] - 1 \in Nat
<1>1. c.free[t] \in Nat /\ CountUnits(TreeSizes(c, t)) \in Nat
  BY SizesFormed DEF Books
<1>2. Total[t] \in Nat \ {0}
  BY CacheAssumption
<1> QED
  BY <1>1, <1>2 DEF Stock

(* The units in hand change by those of one caller. *)
LEMMA HandChange ==
  ASSUME NEW h, NEW g, HandRight(h), HandRight(g), NEW r \in Caller,
         \A x \in Caller : x # r => g[x] = h[x], NEW t \in Tier
  PROVE  /\ Owned(h, r, t) \in Nat /\ Owned(g, r, t) \in Nat
         /\ CountUnits(HandSizes(h, t)) \in Nat /\ CountUnits(HandSizes(g, t)) \in Nat
         /\ CountUnits(HandSizes(g, t)) + Owned(h, r, t) = CountUnits(HandSizes(h, t)) + Owned(g, r, t)
<1>1. ASSUME NEW f, HandRight(f)
      PROVE  /\ Sizes(HandSizes(f, t))
             /\ \A x : At(HandSizes(f, t), x) = IF x \in Caller THEN Owned(f, x, t) ELSE 0
  <2>1. {x \in Caller : f[x] # None /\ f[x].tier = t} \subseteq {x \in Caller : f[x] # None}
    OBVIOUS
  <2>2. IsFiniteSet({x \in Caller : f[x] # None /\ f[x].tier = t})
    BY <1>1, <2>1, FS_Subset DEF HandRight
  <2>3. \A x \in Caller : f[x] # None => f[x].size \in Nat
    BY <1>1, CacheAssumption DEF HandRight
  <2>4. Sizes(HandSizes(f, t))
    BY <2>2, <2>3 DEF Sizes, HandSizes
  <2>5. \A x : At(HandSizes(f, t), x) = IF x \in Caller THEN Owned(f, x, t) ELSE 0
    BY DEF At, HandSizes, Owned
  <2> QED
    BY <2>4, <2>5
<1> DEFINE a == HandSizes(h, t)
           b == HandSizes(g, t)
<1>2. /\ Sizes(a) /\ \A x : At(a, x) = IF x \in Caller THEN Owned(h, x, t) ELSE 0
      /\ Sizes(b) /\ \A x : At(b, x) = IF x \in Caller THEN Owned(g, x, t) ELSE 0
  BY <1>1
<1> HIDE DEF a, b
<1>3. \A x : x # r => At(b, x) = At(a, x)
  BY <1>2 DEF Owned
<1>4. At(a, r) = Owned(h, r, t) /\ At(b, r) = Owned(g, r, t)
  BY <1>2
<1>5. /\ CountUnits(a) \in Nat /\ CountUnits(b) \in Nat /\ At(a, r) \in Nat /\ At(b, r) \in Nat
      /\ CountUnits(b) + At(a, r) = CountUnits(a) + At(b, r)
  BY <1>2, <1>3, CountChange
<1> QED
  BY <1>4, <1>5 DEF a, b

(* A call that touches no owned_units and keeps the units of the cache. *)
LEMMA EvenKeeps ==
  ASSUME NEW c, NEW d, NEW h, Balanced(c, h), c.fault = "none", Even(c, d)
  PROVE  Balanced(d, h)
BY DEF Balanced, Even

(* Caller r and the cache trade units of tier t; with a fault some may be  *)
(* lost.                                                                   *)
Trades(c, d, h, g, r, t) ==
  /\ \A x \in Caller : x # r => g[x] = h[x]
  /\ \A u \in Tier : u # t => Stock(d, u) = Stock(c, u) /\ Owned(g, r, u) = Owned(h, r, u)
  /\ Stock(d, t) + Owned(g, r, t) <= Stock(c, t) + Owned(h, r, t)
  /\ d.fault = "none" => Stock(d, t) + Owned(g, r, t) = Stock(c, t) + Owned(h, r, t)

(* The units of one caller, of tier t, come from or go to the cache. *)
LEMMA TradeKeeps ==
  ASSUME NEW c, NEW d, NEW h, NEW g, NEW r \in Caller, NEW t \in Tier, Balanced(c, h),
         c.fault = "none", HandRight(g), Books(d), Trades(c, d, h, g, r, t)
  PROVE  Balanced(d, g)
<1> USE DEF Trades
<1>1. ASSUME NEW u \in Tier
      PROVE  /\ Stock(d, u) + CountUnits(HandSizes(g, u)) <= Total[u] - 1
             /\ d.fault = "none" => Stock(d, u) + CountUnits(HandSizes(g, u)) = Total[u] - 1
  <2>1. /\ Owned(h, r, u) \in Nat /\ Owned(g, r, u) \in Nat
        /\ CountUnits(HandSizes(h, u)) \in Nat /\ CountUnits(HandSizes(g, u)) \in Nat
        /\ CountUnits(HandSizes(g, u)) + Owned(h, r, u) = CountUnits(HandSizes(h, u)) + Owned(g, r, u)
    BY HandChange DEF Balanced
  <2>2. Stock(c, u) \in Nat /\ Stock(d, u) \in Nat /\ Total[u] - 1 \in Nat
    BY StockIsNat DEF Balanced
  <2>3. Stock(c, u) + CountUnits(HandSizes(h, u)) = Total[u] - 1
    BY DEF Balanced
  <2>4. /\ Stock(d, u) + Owned(g, r, u) <= Stock(c, u) + Owned(h, r, u)
        /\ d.fault = "none" => Stock(d, u) + Owned(g, r, u) = Stock(c, u) + Owned(h, r, u)
    <3>1. CASE u = t
      BY <3>1
    <3>2. CASE u # t
      BY <2>1, <2>2, <3>2
    <3> QED
      BY <3>1, <3>2
  <2> DEFINE a == Stock(c, u)
             b == Stock(d, u)
             i == Owned(h, r, u)
             j == Owned(g, r, u)
             x == CountUnits(HandSizes(h, u))
             y == CountUnits(HandSizes(g, u))
             z == Total[u] - 1
  <2>5. /\ a \in Nat /\ b \in Nat /\ i \in Nat /\ j \in Nat /\ x \in Nat /\ y \in Nat /\ z \in Nat
        /\ y + i = x + j /\ a + x = z /\ b + j <= a + i
        /\ d.fault = "none" => b + j = a + i
    BY <2>1, <2>2, <2>3, <2>4
  <2>6. b + y <= z /\ (d.fault = "none" => b + y = z)
    <3> HIDE DEF a, b, i, j, x, y, z
    <3> QED
      BY <2>5
  <2> QED
    BY <2>6
<1> QED
  BY <1>1 DEF Balanced

(* At the start all units are free. *)
LEMMA InitBalanced ==
  ASSUME Init
  PROVE  UnitsInv
<1> DEFINE f == [t \in Tier |-> Total[t] - 1]
           k == [r \in Pin |-> None]
<1>1. cache = [tree |-> <<>>, free |-> f, ops |-> {}, stray |-> {}, locks |-> k, fault |-> "none"]
      /\ hand = [r \in Caller |-> None]
  BY DEF Init
<1>2. f \in [Tier -> Nat] /\ \A t \in Tier : f[t] = Total[t] - 1
  <2>1. \A t \in Tier : Total[t] - 1 \in Nat
    BY CacheAssumption
  <2> QED
    BY <2>1
<1> HIDE DEF f, k
<1>3. cache.tree = <<>> /\ cache.free = f /\ cache.ops = {} /\ cache.fault = "none"
  BY <1>1
<1>4. Live(cache) = {}
  BY <1>3 DEF Live
<1>5. CacheInv(cache) /\ Formed(cache)
  BY <1>3, InitKeeps DEF IInv, Sound, CacheInv
<1>6. ASSUME NEW size, DOMAIN size = {} PROVE CountUnits(size) = 0
  <2>1. Slots(size) = {}
    BY <1>6 DEF Slots
  <2> QED
    BY <2>1, FS_EmptySet DEF CountUnits
<1>7. \A t \in Tier : CountUnits(TreeSizes(cache, t)) = 0
  <2>1. \A t \in Tier : DOMAIN TreeSizes(cache, t) = {}
    BY <1>4 DEF TreeSizes
  <2> QED
    BY <1>6, <2>1
<1>8. \A t \in Tier : PendingUnits(cache, t) = 0
  <2>1. \A t \in Tier : DOMAIN PendingSizes(cache, t) = {}
    BY <1>3 DEF PendingSizes
  <2>2. \A t \in Tier : CountUnits(PendingSizes(cache, t)) = 0
    BY <1>6, <2>1
  <2> QED
    BY <2>2 DEF PendingUnits, PendingSizes
<1>9. \A t \in Tier : CountUnits(HandSizes(hand, t)) = 0
  <2>1. \A t \in Tier : DOMAIN HandSizes(hand, t) = {}
    BY <1>1 DEF HandSizes
  <2> QED
    BY <1>6, <2>1
<1>10. HandRight(hand)
  <2>1. {r \in Caller : hand[r] # None} = {} /\ DOMAIN hand = Caller /\ \A r \in Caller : hand[r] = None
    BY <1>1
  <2> QED
    BY <2>1, FS_EmptySet DEF HandRight
<1>11. Books(cache)
  <2>1. \A t \in Tier : MaxPending[t] \in Nat
    BY CacheAssumption
  <2> QED
    BY <1>2, <1>3, <1>4, <1>5, <1>8, <2>1 DEF Books
<1>12. ASSUME NEW t \in Tier PROVE Stock(cache, t) + CountUnits(HandSizes(hand, t)) = Total[t] - 1
  <2>1. f[t] \in Nat /\ f[t] = Total[t] - 1
    BY <1>2
  <2> QED
    BY <1>3, <1>7, <1>9, <2>1 DEF Stock
<1>13. ASSUME NEW t \in Tier PROVE Stock(cache, t) + CountUnits(HandSizes(hand, t)) <= Total[t] - 1
  <2>1. Total[t] - 1 \in Nat
    BY CacheAssumption
  <2> QED
    BY <1>12, <2>1
<1> QED
  BY <1>10, <1>11, <1>12, <1>13 DEF UnitsInv, Balanced

(* An allocation and the end of owned_units change one free list. *)
LEMMA FreeAlike ==
  ASSUME NEW c, Books(c), NEW t \in Tier, NEW k \in Nat, NEW d, FreeWrite(c, d, t, k)
  PROVE  /\ Books(d) /\ d.fault = c.fault /\ \A u \in Tier : u # t => Stock(d, u) = Stock(c, u)
         /\ Stock(d, t) + c.free[t] = Stock(c, t) + k
<1>1. Record(c) /\ c.free \in [Tier -> Nat] /\ c.fault \in {"none", "collision", "overwrite", "unpinned"}
  BY DEF Books, Formed
<1> DEFINE f == [c.free EXCEPT ![t] = k]
<1>2. f \in [Tier -> Nat] /\ f[t] = k /\ \A u \in Tier : u # t => f[u] = c.free[u]
  BY <1>1
<1>4. /\ Record(d) /\ d.tree = c.tree /\ d.ops = c.ops /\ d.locks = c.locks
      /\ d.free = f /\ d.fault = c.fault
  BY DEF FreeWrite
<1> HIDE DEF f
<1>5. Alike(c, d)
  BY <1>1, <1>2, <1>4 DEF Alike
<1>6. Books(d) /\ \A u \in Tier : TreeSizes(d, u) = TreeSizes(c, u)
  BY <1>5, AlikeBooks
<1>7. c.free[t] \in Nat /\ CountUnits(TreeSizes(c, t)) \in Nat
  BY SizesFormed DEF Books
<1>8. \A u \in Tier : u # t => Stock(d, u) = Stock(c, u)
  BY <1>2, <1>4, <1>6 DEF Stock
<1>9. Stock(d, t) = k + CountUnits(TreeSizes(c, t))
  BY <1>2, <1>4, <1>6 DEF Stock
<1>10. Stock(d, t) + c.free[t] = Stock(c, t) + k
  BY <1>7, <1>9 DEF Stock
<1> QED
  BY <1>4, <1>6, <1>8, <1>10

(* Caller r owns v instead of what it owned. *)
Gets(h, g, r, v) ==
  g = [h EXCEPT ![r] = v] /\ (v = None \/ v \in [tier : Tier, size : 1..MaxLen])

(* A caller that owned nothing, or owns nothing any more. *)
LEMMA HandWrite ==
  \A h, g, r, v : HandRight(h) /\ r \in Caller /\ Gets(h, g, r, v) =>
    HandRight(g) /\ g[r] = v /\ \A x \in Caller : x # r => g[x] = h[x]
<1> TAKE h, g, r, v
<1>0. HAVE HandRight(h) /\ r \in Caller /\ Gets(h, g, r, v)
<1> USE DEF Gets
<1>1. DOMAIN g = Caller /\ g[r] = v /\ \A x \in Caller : x # r => g[x] = h[x]
  BY <1>0 DEF HandRight
<1>2. {x \in Caller : g[x] # None} \subseteq {x \in Caller : h[x] # None} \cup {r}
  BY <1>1
<1>3. IsFiniteSet({x \in Caller : h[x] # None} \cup {r})
  BY <1>0, FS_AddElement DEF HandRight
<1>4. IsFiniteSet({x \in Caller : g[x] # None})
  BY <1>2, <1>3, FS_Subset
<1>5. \A x \in Caller : g[x] # None => g[x] \in [tier : Tier, size : 1..MaxLen]
  BY <1>0, <1>1 DEF HandRight
<1> QED
  BY <1>1, <1>4, <1>5 DEF HandRight

(* allocate() takes units from a free list that has them. *)
LEMMA AllocateBalanced ==
  ASSUME UnitsInv, NEW r \in Caller, NEW t \in Tier, NEW n \in 1..MaxLen, Allocate(r, t, n)
  PROVE  UnitsInv'
<1> DEFINE v == [tier |-> t, size |-> n]
           k == cache.free[t] - n
<1>1. /\ Balanced(cache, hand) /\ cache.fault = "none" /\ hand[r] = None /\ cache.free[t] >= n
      /\ hand' = [hand EXCEPT ![r] = v] /\ cache' = [cache EXCEPT !.free[t] = k, !.stray = HandedOut(cache.stray, t)]
  BY DEF Allocate, UnitsInv, Sound
<1>2. Books(cache) /\ HandRight(hand)
  BY <1>1 DEF Balanced
<1>3. n \in Nat /\ cache.free[t] \in Nat /\ k \in Nat /\ k + n = cache.free[t]
  <2>1. cache.free[t] \in Nat /\ n \in Nat
    BY <1>2, CacheAssumption DEF Books
  <2> QED
    BY <1>1, <2>1
<1>4. v \in [tier : Tier, size : 1..MaxLen] /\ v # None /\ v.tier = t /\ v.size = n
  BY CacheAssumption
<1> HIDE DEF v, k
<1>5. HandRight(hand') /\ hand'[r] = v /\ \A x \in Caller : x # r => hand'[x] = hand[x]
  <2>1. Gets(hand, hand', r, v)
    BY <1>1, <1>4 DEF Gets
  <2> QED
    BY <1>2, <2>1, HandWrite
<1>6. /\ Books(cache') /\ cache'.fault = "none"
      /\ \A u \in Tier : u # t => Stock(cache', u) = Stock(cache, u)
      /\ Stock(cache', t) + cache.free[t] = Stock(cache, t) + k
  <2>1. Record(cache)
    BY <1>2 DEF Books, Formed
  <2>2. FreeWrite(cache, cache', t, k)
    BY <1>1, <2>1, FreeIs
  <2> QED
    BY <1>1, <1>2, <1>3, <2>2, FreeAlike
<1>7. /\ \A u \in Tier : Owned(hand, r, u) = 0
      /\ Owned(hand', r, t) = n /\ \A u \in Tier : u # t => Owned(hand', r, u) = 0
  BY <1>1, <1>4, <1>5 DEF Owned
<1>8. Stock(cache', t) + Owned(hand', r, t) = Stock(cache, t) + Owned(hand, r, t)
  <2>1. Stock(cache, t) \in Nat /\ Stock(cache', t) \in Nat
    BY <1>2, <1>6, StockIsNat
  <2> QED
    BY <1>3, <1>6, <1>7, <2>1
<1>9. Stock(cache', t) + Owned(hand', r, t) <= Stock(cache, t) + Owned(hand, r, t)
  <2>1. Stock(cache, t) \in Nat
    BY <1>2, StockIsNat
  <2> QED
    BY <1>7, <1>8, <2>1
<1>10. \A u \in Tier : u # t =>
         Stock(cache', u) = Stock(cache, u) /\ Owned(hand', r, u) = Owned(hand, r, u)
  BY <1>6, <1>7
<1>11. Balanced(cache', hand')
  <2>1. Trades(cache, cache', hand, hand', r, t)
    BY <1>1, <1>5, <1>6, <1>8, <1>9, <1>10 DEF Trades
  <2> QED
    BY <1>1, <1>5, <1>6, <1>8, <1>9, <1>10, <2>1, TradeKeeps
<1> QED
  BY <1>11 DEF UnitsInv

(* The end of owned_units returns them to their free list. *)
LEMMA DiscardBalanced ==
  ASSUME UnitsInv, NEW r \in Caller, Discard(r)
  PROVE  UnitsInv'
<1> DEFINE t == hand[r].tier
           n == hand[r].size
           k == cache.free[t] + n
<1>1. /\ Balanced(cache, hand) /\ cache.fault = "none" /\ hand[r] # None
      /\ hand' = [hand EXCEPT ![r] = None] /\ cache' = [cache EXCEPT !.free[t] = k]
  BY DEF Discard, UnitsInv, Sound
<1>2. Books(cache) /\ HandRight(hand)
  BY <1>1 DEF Balanced
<1>3. t \in Tier /\ n \in Nat
  BY <1>1, <1>2, CacheAssumption DEF HandRight
<1>4. cache.free[t] \in Nat /\ k \in Nat /\ k = cache.free[t] + n
  <2>1. cache.free[t] \in Nat
    BY <1>2, <1>3 DEF Books
  <2> QED
    BY <1>3, <2>1
<1>5. /\ Owned(hand, r, t) = n /\ \A u \in Tier : u # t => Owned(hand, r, u) = 0
  BY <1>1 DEF Owned
<1> HIDE DEF t, n, k
<1>6. HandRight(hand') /\ hand'[r] = None /\ \A x \in Caller : x # r => hand'[x] = hand[x]
  <2>1. Gets(hand, hand', r, None)
    BY <1>1 DEF Gets
  <2> QED
    BY <1>2, <2>1, HandWrite
<1>7. /\ Books(cache') /\ cache'.fault = "none"
      /\ \A u \in Tier : u # t => Stock(cache', u) = Stock(cache, u)
      /\ Stock(cache', t) + cache.free[t] = Stock(cache, t) + k
  <2>1. Record(cache)
    BY <1>2 DEF Books, Formed
  <2>2. FreeWrite(cache, cache', t, k)
    BY <1>1, <2>1, FreeIs
  <2> QED
    BY <1>1, <1>2, <1>3, <1>4, <2>2, FreeAlike
<1>8. \A u \in Tier : Owned(hand', r, u) = 0
  BY <1>6 DEF Owned
<1>9. Stock(cache', t) + Owned(hand', r, t) = Stock(cache, t) + Owned(hand, r, t)
  <2>1. Stock(cache, t) \in Nat /\ Stock(cache', t) \in Nat
    BY <1>2, <1>3, <1>7, StockIsNat
  <2>2. Owned(hand', r, t) = 0
    BY <1>3, <1>8
  <2> QED
    BY <1>3, <1>4, <1>5, <1>7, <2>1, <2>2
<1>10. Stock(cache', t) + Owned(hand', r, t) <= Stock(cache, t) + Owned(hand, r, t)
  <2>1. Stock(cache, t) \in Nat
    BY <1>2, <1>3, StockIsNat
  <2> QED
    BY <1>3, <1>5, <1>9, <2>1
<1>11. \A u \in Tier : u # t =>
         Stock(cache', u) = Stock(cache, u) /\ Owned(hand', r, u) = Owned(hand, r, u)
  BY <1>5, <1>7, <1>8
<1>12. Balanced(cache', hand')
  <2>1. Trades(cache, cache', hand, hand', r, t)
    BY <1>1, <1>3, <1>6, <1>7, <1>9, <1>10, <1>11 DEF Trades
  <2> QED
    BY <1>1, <1>3, <1>6, <1>7, <1>9, <1>10, <1>11, <2>1, TradeKeeps
<1> QED
  BY <1>12 DEF UnitsInv

(* insert() takes over the units of its caller. *)
LEMMA InsertBalanced ==
  ASSUME IInv, UnitsInv, NEW r \in Caller, NEW q \in Query, Insert(r, q)
  PROVE  UnitsInv'
<1> DEFINE t == hand[r].tier
<1>1. /\ Balanced(cache, hand) /\ cache.fault = "none" /\ CacheInv(cache) /\ hand[r] # None
      /\ Len(q) = hand[r].size /\ hand' = [hand EXCEPT ![r] = None]
      /\ cache' = Inserted(cache, q, t)
  BY DEF Insert, Inserted, UnitsInv, IInv, Sound
<1>2. Books(cache) /\ HandRight(hand)
  BY <1>1 DEF Balanced
<1>3. t \in Tier /\ Len(q) \in Nat
  BY <1>1, <1>2, CacheAssumption DEF HandRight
<1>4. /\ Owned(hand, r, t) = Len(q) /\ \A u \in Tier : u # t => Owned(hand, r, u) = 0
  BY <1>1 DEF Owned
<1> HIDE DEF t
<1>5. HandRight(hand') /\ hand'[r] = None /\ \A x \in Caller : x # r => hand'[x] = hand[x]
  <2>1. Gets(hand, hand', r, None)
    BY <1>1 DEF Gets
  <2> QED
    BY <1>2, <2>1, HandWrite
<1>6. /\ Books(cache') /\ \A u \in Tier : u # t => Stock(cache', u) = Stock(cache, u)
      /\ Stock(cache', t) <= Stock(cache, t) + Len(q)
      /\ cache'.fault = "none" => Stock(cache', t) = Stock(cache, t) + Len(q)
  BY <1>1, <1>2, <1>3, InsertEven
<1>7. \A u \in Tier : Owned(hand', r, u) = 0
  BY <1>5 DEF Owned
<1>8. /\ Stock(cache', t) + Owned(hand', r, t) <= Stock(cache, t) + Owned(hand, r, t)
      /\ cache'.fault = "none" =>
           Stock(cache', t) + Owned(hand', r, t) = Stock(cache, t) + Owned(hand, r, t)
  <2>1. Stock(cache, t) \in Nat /\ Stock(cache', t) \in Nat
    BY <1>2, <1>3, <1>6, StockIsNat
  <2>2. Owned(hand', r, t) = 0
    BY <1>3, <1>7
  <2> QED
    BY <1>3, <1>4, <1>6, <2>1, <2>2
<1>9. \A u \in Tier : u # t =>
        Stock(cache', u) = Stock(cache, u) /\ Owned(hand', r, u) = Owned(hand, r, u)
  BY <1>4, <1>6, <1>7
<1>10. Balanced(cache', hand')
  <2>1. Trades(cache, cache', hand, hand', r, t)
    BY <1>1, <1>3, <1>5, <1>6, <1>8, <1>9 DEF Trades
  <2> QED
    BY <1>1, <1>3, <1>5, <1>6, <1>8, <1>9, <2>1, TradeKeeps
<1> QED
  BY <1>10 DEF UnitsInv

(* lock() moves no units. *)
LEMMA LockBalanced ==
  ASSUME IInv, UnitsInv, NEW r \in Pin, NEW t \in Tier, NEW n \in Matched(cache, t), Lock(r, t, n)
  PROVE  Even(cache, cache')
<1> DEFINE l == [node |-> n, tier |-> t, path |-> n]
<1>1. /\ CacheInv(cache) /\ cache.locks[r] = None /\ Books(cache)
      /\ cache' = [OnChain(cache, n, t, 1) EXCEPT !.locks[r] = l]
  BY DEF Lock, IInv, UnitsInv, Balanced
<1>2. Formed(cache) /\ 1 \in {1, -1}
  BY <1>1 DEF CacheInv
<1>3. Marks(cache, cache', n, t, 1) /\ cache'.locks = [cache.locks EXCEPT ![r] = l]
  <2> HIDE DEF l
  <2> QED
    BY <1>1, <1>2, OnChainMarks
<1>4. CacheInv(cache')
  BY <1>1, <1>3, LockKeeps
<1> QED
  BY <1>1, <1>3, <1>4, MarksEven

(* Nor does ~node_ref(). *)
LEMMA ReleaseBalanced ==
  ASSUME IInv, UnitsInv, NEW r \in Pin, Release(r)
  PROVE  Even(cache, cache')
<1> DEFINE l == cache.locks[r]
<1>1. /\ CacheInv(cache) /\ l # None /\ Books(cache)
      /\ cache' = [OnChain(cache, l.node, l.tier, -1) EXCEPT !.locks[r] = None]
  BY DEF Release, IInv, UnitsInv, Balanced
<1>2. Formed(cache) /\ l.tier \in Tier /\ -1 \in {1, -1}
  BY <1>1 DEF CacheInv, Formed, NodeRef
<1>3. Marks(cache, cache', l.node, l.tier, -1) /\ cache'.locks = [cache.locks EXCEPT ![r] = None]
  <2> HIDE DEF l
  <2> QED
    BY <1>1, <1>2, OnChainMarks
<1>4. CacheInv(cache')
  BY <1>1, <1>3, ReleaseKeeps
<1> QED
  BY <1>1, <1>3, <1>4, MarksEven

(* ensure_capacity() moves units between the tree and the free lists. *)
LEMMA EnsureBalanced ==
  ASSUME UnitsInv, NEW t \in Tier, NEW need, NEW to \in Tier \cup {None}, EnsureCapacity(t, need, to)
  PROVE  Even(cache, cache')
<1>1. Books(cache) /\ to # t /\ None \notin Tier
  BY CacheAssumption DEF EnsureCapacity, UnitsInv, Balanced
<1>2. PICK first \in IF to = None THEN {<<>>} ELSE SetToSeqs(Candidates(cache, to)) :
        LET c == IF to = None THEN cache ELSE EvictUntil(cache, to, need, None, first) IN
        \E order \in SetToSeqs(Candidates(c, t)) : cache' = EvictUntil(c, t, need, to, order)
  BY DEF EnsureCapacity
<1> DEFINE c == IF to = None THEN cache ELSE EvictUntil(cache, to, need, None, first)
<1>3. PICK order \in SetToSeqs(Candidates(c, t)) : cache' = EvictUntil(c, t, need, to, order)
  BY <1>2
<1>4. Even(cache, c)
  <2>1. CASE to = None
    BY <1>1, <2>1 DEF Even
  <2>2. CASE to # None
    <3>1. to \in Tier /\ None \in Tier \cup {None} /\ None # to
      BY <1>1, <2>2
    <3>2. first \in SetToSeqs(Candidates(cache, to))
      BY <1>2, <2>2
    <3>3. Candidates(cache, to) \in SUBSET Candidates(cache, to)
      OBVIOUS
    <3>4. Even(cache, EvictUntil(cache, to, need, None, first))
      BY <1>1, <3>1, <3>2, <3>3, EvictUntilEven
    <3> QED
      BY <2>2, <3>4
  <2> QED
    BY <2>1, <2>2
<1> HIDE DEF c
<1>5. Candidates(c, t) \in SUBSET Candidates(c, t)
  OBVIOUS
<1>6. Books(c)
  BY <1>4 DEF Even
<1>7. Even(c, EvictUntil(c, t, need, to, order))
  BY <1>1, <1>3, <1>5, <1>6, EvictUntilEven
<1>8. Even(c, cache')
  BY <1>3, <1>7
<1> QED
  BY <1>4, <1>8 DEF Even

(* evict_by_predicate() does the same. *)
LEMMA EvictByBalanced ==
  ASSUME UnitsInv, NEW t \in Tier, NEW S \in (SUBSET Candidates(cache, t)) \ {{}}, EvictBy(t, S)
  PROVE  Even(cache, cache')
<1>1. Books(cache) /\ None \in Tier \cup {None} /\ None # t /\ S \in SUBSET Candidates(cache, t)
  BY CacheAssumption DEF UnitsInv, Balanced
<1>2. PICK order \in SetToSeqs(S) : cache' = EvictUntil(cache, t, None, None, order)
  BY DEF EvictBy
<1>3. Even(cache, EvictUntil(cache, t, None, None, order))
  BY <1>1, <1>2, EvictUntilEven
<1> QED
  BY <1>2, <1>3

(* start_demote() and start_promote() reserve what the free list has. *)
LEMMA StartBalanced ==
  ASSUME UnitsInv, NEW src \in Tier, NEW dst \in Tier, NEW promote \in BOOLEAN,
         NEW n \in Matched(cache, src), StartTransfer(n, src, dst, promote)
  PROVE  Even(cache, cache')
<1>1. /\ Books(cache) /\ n \in Live(cache) /\ src # dst
      /\ CanReserve(cache, dst, Len(Res(cache, n, src).units))
      /\ cache' = Reserve(cache, n, src, dst, promote)
  BY DEF StartTransfer, UnitsInv, Balanced, Matched, Res
<1>2. Even(cache, Reserve(cache, n, src, dst, promote))
  BY <1>1, ReserveEven
<1> QED
  BY <1>1, <1>2

(* complete_op() moves units between the tree and the free lists. *)
LEMMA CompleteBalanced ==
  ASSUME IInv, UnitsInv, NEW o \in cache.ops, NEW success \in BOOLEAN,
         NEW late \in BOOLEAN, CompleteOp(o, success, late)
  PROVE  Even(cache, cache')
<1>1. /\ Books(cache) /\ CacheInv(cache) /\ cache' = Complete(cache, o, success, late)
      /\ success = FALSE => late = FALSE
  BY DEF CompleteOp, UnitsInv, Balanced, IInv
<1>2. CASE success = TRUE
  <2>1. Even(cache, Complete(cache, o, TRUE, late))
    BY <1>1, DoneEven
  <2> QED
    BY <1>1, <1>2, <2>1
<1>3. CASE success = FALSE
  <2>1. Even(cache, Complete(cache, o, FALSE, FALSE))
    BY <1>1, FailEven
  <2> QED
    BY <1>1, <1>3, <2>1
<1> QED
  BY <1>2, <1>3

(* Every step keeps the accounts. *)
LEMMA NextBalanced ==
  ASSUME IInv, UnitsInv, [Next]_vars
  PROVE  UnitsInv'
<1>1. Sound => CacheInv(cache)
  BY DEF IInv
<1>2. Balanced(cache, hand) /\ Books(cache)
  BY DEF UnitsInv, Balanced
<1>3. ASSUME Sound, UNCHANGED hand, Even(cache, cache') PROVE UnitsInv'
  <2>1. cache.fault = "none" /\ hand' = hand
    BY <1>3 DEF Sound
  <2>2. Balanced(cache', hand)
    BY <1>2, <1>3, <2>1, EvenKeeps
  <2> QED
    BY <2>1, <2>2 DEF UnitsInv
<1>4. CASE UNCHANGED vars
  <2>1. cache' = cache /\ hand' = hand
    BY <1>4 DEF vars
  <2> QED
    BY <1>2, <2>1 DEF UnitsInv
<1>5. ASSUME NEW q \in Query, Match(q) PROVE UnitsInv'
  <2>1. Even(cache, Walk(cache, q))
    BY <1>1, <1>2, <1>5, WalkEven DEF Match
  <2> QED
    BY <1>3, <1>5, <2>1 DEF Match
<1>6. ASSUME NEW r \in Caller, NEW t \in Tier, NEW n \in 1..MaxLen, Allocate(r, t, n) PROVE UnitsInv'
  BY <1>6, AllocateBalanced
<1>7. ASSUME NEW r \in Caller, Discard(r) PROVE UnitsInv'
  BY <1>7, DiscardBalanced
<1>8. ASSUME NEW r \in Caller, NEW q \in Query, Insert(r, q) PROVE UnitsInv'
  BY <1>8, InsertBalanced
<1>9. ASSUME NEW r \in Pin, Release(r) PROVE UnitsInv'
  <2>1. Sound /\ UNCHANGED hand
    BY <1>9 DEF Release
  <2> QED
    BY <1>3, <1>9, <2>1, ReleaseBalanced
<1>10. ASSUME NEW r \in Pin, NEW t \in Tier, NEW n \in Matched(cache, t), Lock(r, t, n)
       PROVE  UnitsInv'
  <2>1. Sound /\ UNCHANGED hand
    BY <1>10 DEF Lock
  <2> QED
    BY <1>3, <1>10, <2>1, LockBalanced
<1>11. ASSUME NEW t \in Tier, NEW need \in 1..MaxLen, NEW to \in Tier \cup {None},
              EnsureCapacity(t, need, to)
       PROVE  UnitsInv'
  <2>1. Sound /\ UNCHANGED hand
    BY <1>11 DEF EnsureCapacity
  <2> QED
    BY <1>3, <1>11, <2>1, EnsureBalanced
<1>12. ASSUME NEW t \in Tier, NEW S \in (SUBSET Candidates(cache, t)) \ {{}}, EvictBy(t, S)
       PROVE  UnitsInv'
  <2>1. Sound /\ UNCHANGED hand
    BY <1>12 DEF EvictBy
  <2> QED
    BY <1>3, <1>12, <2>1, EvictByBalanced
<1>13. ASSUME NEW src \in Tier, NEW dst \in Tier, NEW promote \in BOOLEAN,
              NEW n \in Matched(cache, src), StartTransfer(n, src, dst, promote)
       PROVE  UnitsInv'
  <2>1. Sound /\ UNCHANGED hand
    BY <1>13 DEF StartTransfer
  <2> QED
    BY <1>3, <1>13, <2>1, StartBalanced
<1>14. ASSUME NEW o \in cache.ops, NEW success \in BOOLEAN, NEW late \in BOOLEAN,
              CompleteOp(o, success, late)
       PROVE  UnitsInv'
  <2>1. Sound /\ UNCHANGED hand
    BY <1>14 DEF CompleteOp
  <2> QED
    BY <1>3, <1>14, <2>1, CompleteBalanced
<1>15. ASSUME FailAllInflight PROVE UnitsInv'
  <2>1. Sound /\ UNCHANGED hand /\ CacheInv(cache)
    BY <1>1, <1>15 DEF FailAllInflight
  <2>2. PICK order \in SetToSeqs(cache.ops) :
          LET after[i \in 0..Len(order)] ==
                IF i = 0 THEN cache ELSE Complete(after[i - 1], order[i], FALSE, FALSE)
          IN cache' = after[Len(order)]
    BY <1>15 DEF FailAllInflight
  <2>3. Even(cache, cache')
    BY <1>2, <2>1, <2>2, FailAllEven
  <2> QED
    BY <1>3, <2>1, <2>3
<1>16. CASE Undefined
  BY <1>4, <1>16 DEF Undefined
<1> QED
  BY <1>4, <1>5, <1>6, <1>7, <1>8, <1>9, <1>10, <1>11, <1>12, <1>13, <1>14, <1>15, <1>16 DEF Next

(* Balanced accounts are what the property says. *)
LEMMA BalancedIsCorrect ==
  ASSUME UnitsInv
  PROVE  UnitsCorrect
<1>1. HandRight(hand) /\ Books(cache) /\ Formed(cache)
  BY DEF UnitsInv, Balanced, Books
<1>2. ASSUME NEW t \in Tier PROVE CountUnits(HandSizes(hand, t)) \in Nat
  <2>1. {x \in Caller : hand[x] # None /\ hand[x].tier = t} \subseteq {x \in Caller : hand[x] # None}
    OBVIOUS
  <2>2. IsFiniteSet({x \in Caller : hand[x] # None /\ hand[x].tier = t})
    BY <1>1, <2>1, FS_Subset DEF HandRight
  <2>3. \A x \in Caller : hand[x] # None => hand[x].size \in Nat
    BY <1>1, CacheAssumption DEF HandRight
  <2>4. Sizes(HandSizes(hand, t))
    BY <2>2, <2>3 DEF Sizes, HandSizes
  <2> QED
    BY <2>4, SlotsFinite
<1>3. ASSUME NEW t \in Tier
      PROVE  /\ cache.free[t] \in 0..(Total[t] - 1)
             /\ MaxPending[t] > 0 => PendingUnits(cache, t) <= MaxPending[t]
  <2>1. /\ cache.free[t] \in Nat /\ Stock(cache, t) \in Nat /\ cache.free[t] <= Stock(cache, t)
        /\ Total[t] - 1 \in Nat
    BY <1>1, StockIsNat
  <2>2. Stock(cache, t) + CountUnits(HandSizes(hand, t)) <= Total[t] - 1
    BY DEF UnitsInv, Balanced
  <2>3. cache.free[t] \in 0..(Total[t] - 1)
    BY <1>2, <2>1, <2>2
  <2> QED
    BY <1>1, <2>3 DEF Books
<1>4. ASSUME NEW n \in Live(cache)
      PROVE  /\ n \in Query /\ cache.tree[n].from \in 0..(Len(n) - 1)
             /\ \A t \in Tier : cache.tree[n].res[t] \in Resource
  <2>1. /\ n \in Query /\ From(cache, n) \in Nat /\ From(cache, n) < Len(n)
        /\ \A t \in Tier : Res(cache, n, t) \in Resource
    BY <1>1, NodeParts DEF Books
  <2>2. Len(n) \in Nat
    BY <2>1, QueryIsPath
  <2> QED
    BY <2>1, <2>2 DEF From, Res
<1>5. TypeOK
  <2>1. \A o \in cache.ops : o.node \in Query /\ {o.src, o.dst} \subseteq Tier
    BY <1>1 DEF Formed, PendingOp
  <2>2. \A r \in Pin : cache.locks[r] # None => cache.locks[r].node \in Query
    BY <1>1 DEF Formed, NodeRef
  <2>3. cache.fault \in {"none", "collision", "overwrite", "unpinned"}
    BY <1>1 DEF Books
  <2>4. \A r \in Caller : hand[r] # None => hand[r] \in [tier : Tier, size : 1..MaxLen]
    BY <1>1 DEF HandRight
  <2> QED
    BY <1>3, <1>4, <2>1, <2>2, <2>3, <2>4 DEF TypeOK
<1>6. UnitsConserved
  <2>1. SUFFICES ASSUME Sound, NEW t \in Tier
        PROVE  cache.free[t] + CountUnits(TreeSizes(cache, t)) + CountUnits(HandSizes(hand, t))
                 = Total[t] - 1
    BY DEF UnitsConserved, UnitsOf, TreeSizes, HandSizes, Res
  <2>2. Stock(cache, t) + CountUnits(HandSizes(hand, t)) = Total[t] - 1
    BY <2>1 DEF Sound, UnitsInv, Balanced
  <2> QED
    BY <2>2 DEF Stock
<1> QED
  BY <1>5, <1>6 DEF UnitsCorrect

(* Whatever the sizes of the tiers, the budgets of transfers and the number *)
(* of callers, and whichever order of eviction a policy chooses: the units  *)
(* in a tier's free list, in callers' owned_units and in the resources of   *)
(* the tree add up to all it has, as long as no call has met one of the     *)
(* faults; and no tier ever has more units in transfer than                 *)
(* max_pending_units, nor more free ones than it began with.                *)
THEOREM NoUnitIsLost ==
  Spec => []UnitsCorrect
<1>1. Init => IInv /\ UnitsInv
  BY InitKeeps, InitBalanced
<1>2. (IInv /\ UnitsInv) /\ [Next]_vars => (IInv /\ UnitsInv)'
  BY NextKeeps, NextBalanced
<1>3. UnitsInv => UnitsCorrect
  BY BalancedIsCorrect
<1> QED
  BY <1>1, <1>2, <1>3, PTL DEF Spec
=============================================================================
