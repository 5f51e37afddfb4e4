---------------------------- MODULE PrefixCache ----------------------------
(***************************************************************************)
(* The radix prefix cache (phyai-ext/csrc/radix_cache: prefix_cache.cpp,   *)
(* tree/*, owned_units, unit_allocator).  A tree over sequences of pages   *)
(* maps prefixes to unit ids, one unit per page and storage tier; units    *)
(* move between tiers by asynchronous transfers.  The library is called by *)
(* one thread; each action is one call of its interface.                   *)
(*                                                                         *)
(* A node is named by its path, the concatenation of the segments from the *)
(* root; its ancestors are the nodes whose path is a prefix of it.  The    *)
(* pointers transfers and locks hold follow their node when a split        *)
(* shortens its path.  Units are owned by move-only objects, and nothing   *)
(* depends on their ids: a unit is what it holds, the page sequence whose  *)
(* last page's state a caller or a transfer wrote to it, <<>>, or Lost if  *)
(* nobody can tell.  The copy of a transfer is the caller's, and is made   *)
(* at any time between the start of the transfer and complete_op().  The   *)
(* order of eviction is left open, so that every policy of eviction.h is   *)
(* covered.                                                                *)
(***************************************************************************)
EXTENDS Integers, Sequences, FiniteSets, SequencesExt, FiniteSetsExt, TLC

CONSTANTS
  Page,        \* contents of a page of atoms
  MaxLen,      \* bound: pages of a query
  Tier,        \* the enabled tiers
  Total,       \* total_units of each tier; unit 0 is never handed out
  MaxPending,  \* max_pending_units of each tier, 0 for no limit
  Caller,      \* the owned_units that can be alive at a time
  Pin,         \* the node_refs that can be alive at a time
  None

Root    == <<>>
Query   == UNION {[1..k -> Page] : k \in 1..MaxLen}
Lost    == <<None>>
Content == Query \cup {<<>>, Lost}

ASSUME CacheAssumption ==
  /\ MaxLen \in Nat
  /\ Total \in [Tier -> Nat \ {0}] /\ MaxPending \in [Tier -> Nat]
  /\ None \notin Tier \cup Page /\ None \notin [tier : Tier, size : 1..MaxLen]

VARIABLES
  cache,   \* [tree, free, ops, stray, locks, fault], see Init
  hand     \* the owned_units of each caller: [tier, size] or None

vars == <<cache, hand>>

NoRes == [state |-> "none", units |-> <<>>, refs |-> 0]
Empty == [t \in Tier |-> NoRes]

(* tree: the depth of its parent and the resources of each node; free: the *)
(* length of each free list; ops: inflight_, with what the source holds at *)
(* the start; stray: those of them, by node and dst, whose source units    *)
(* have gone back to the free list of src, and whether any unit was taken  *)
(* from there since; locks: the node_refs, [node, tier, path] or None,     *)
(* with the path that was locked; fault: the first step after which the    *)
(* code promises nothing.                                                  *)
Init ==
  /\ cache = [tree    |-> <<>>,
              free    |-> [t \in Tier |-> Total[t] - 1],
              ops     |-> {},
              stray   |-> {},
              locks   |-> [r \in Pin |-> None],
              fault   |-> "none"]
  /\ hand = [r \in Caller |-> None]

-----------------------------------------------------------------------------
(* The tree.                                                               *)

(* The first k pages of a path. *)
Pre(n, k) == SubSeq(n, 1, k)

Live(c)      == DOMAIN c.tree
Chain(c, n)  == {m \in Live(c) : IsPrefix(m, n)}
Below(c, n)  == {m \in Live(c) : IsStrictPrefix(n, m)}
Has(c, n, t) == c.tree[n].res[t].state # "none"
Bare(c, n)   == c.tree[n].res = Empty

Common(p, q) == Cardinality({k \in DOMAIN p : IsPrefix(Pre(p, k), q)})

Cut_Crossed(r, lo, hi) ==
  IF r.state = "none" THEN r
  ELSE [r EXCEPT !.units = IF lo = 1 THEN SubSeq(@, Len(@) - hi + 1, Len(@))
                                     ELSE SubSeq(@, 1, hi - lo + 1)]

(* split_first(): the pages lo..hi of a resource, its locks and its state. *)
Cut(r, lo, hi) == IF r.state = "none" THEN r ELSE [r EXCEPT !.units = SubSeq(@, lo, hi)]

(* split_self(): n keeps its path up to depth k, a new child gets the rest *)
(* and n's children.                                                       *)
Split(c, n, k) ==
  LET x    == c.tree[n]
      head == Pre(n, k)
      keep == k - x.from
      part(lo, hi) == [t \in Tier |-> Cut(x.res[t], lo, hi)]
      moved(p)     == [p EXCEPT !.node = IF @ = n THEN head ELSE @]
  IN [c EXCEPT
       !.tree  = [m \in Live(c) \cup {head} |->
                    IF m = head THEN [from |-> x.from, res |-> part(1, keep)]
                    ELSE IF m = n THEN [from |-> k, res |-> part(keep + 1, Len(n) - x.from)]
                    ELSE c.tree[m]],
       !.ops   = {moved(o) : o \in @},
       !.stray = {moved(o) : o \in @},
       !.locks = [r \in Pin |-> IF @[r] = None THEN None ELSE moved(@[r])]]

(* walk(): the tree after it.  A node that q leaves in its middle is split *)
(* there.                                                                  *)
Walk(c, q) ==
  LET left == {n \in Live(c) : Common(n, q) \in (c.tree[n].from + 1)..(Len(n) - 1)}
  IN IF left = {} THEN c
     ELSE LET n == CHOOSE x \in left : TRUE IN Split(c, n, Common(n, q))

(* What match() may return: the nodes up to which tier t is ready.         *)
Matched(c, t) == {n \in Live(c) : \A m \in Chain(c, n) : c.tree[m].res[t].state = "ready"}

(* walk(): the last of them on q's path.                                   *)
LastNode(c, q, t) ==
  LET on == Chain(c, q) \cap Matched(c, t)
  IN CHOOSE n \in on \cup {Root} : \A m \in on : Len(m) <= Len(n)

(* prune_empty(): n and the ancestors that hold nothing once n is gone.    *)
Prune(c, n) ==
  LET up   == Chain(c, n)
      gone == {m \in up : \A d \in Below(c, m) \cup {m} : d \in up /\ Bare(c, d)}
  IN [c EXCEPT !.tree = [m \in Live(c) \ gone |-> c.tree[m]]]

-----------------------------------------------------------------------------
(* Units.                                                                  *)

(* The transfers that lose their source when n loses its units in tier t.  *)
Strays(c, n, t) ==
  {[node |-> n, src |-> t, dst |-> o.dst, reused |-> FALSE] :
     o \in {p \in c.ops : p.node = n /\ p.src = t}}

Detach_Leaks(c, n, t) ==
  [c EXCEPT !.tree[n].res[t] = NoRes, !.stray = @ \cup Strays(c, n, t)]

(* A detached resource dies and its units return to the free list. *)
Detach(c, n, t) ==
  [c EXCEPT !.tree[n].res[t] = NoRes, !.free[t] = @ + Len(c.tree[n].res[t].units),
            !.stray = @ \cup Strays(c, n, t)]

(* Units of tier t are handed out: what was freed last, first. *)
HandedOut(stray, t) == {[o EXCEPT !.reused = @ \/ o.src = t] : o \in stray}

(* What a transfer writes to, or a node_ref locks. *)
InUse(r) == r.state = "pending" \/ r.refs > 0

(* How many units some holders have, size[x] of them holder x. *)
Slots(size)      == UNION {{x} \X (1..size[x]) : x \in DOMAIN size}
CountUnits(size) == Cardinality(Slots(size))

PendingUnits(c, t) == CountUnits([o \in {p \in c.ops : p.dst = t} |-> Len(o.data)])

(* check_pending_budget(). *)
WithinBudget(c, t, n) == MaxPending[t] = 0 \/ PendingUnits(c, t) + n <= MaxPending[t]

(* Reserve units in dst for the data of n's resource in src: common to     *)
(* start_demote, start_promote and a demoting eviction.  Then              *)
(* attach_resource drops what n had in dst; dropping what is held is a     *)
(* fault.                                                                  *)
Reserve(c, n, src, dst, promote) ==
  LET data == c.tree[n].res[src].units
      old  == c.tree[n].res[dst]
      new  == [state |-> "pending", units |-> [i \in DOMAIN data |-> <<>>], refs |-> 0]
  IN [Detach(c, n, dst) EXCEPT
       !.free[dst] = @ - Len(data),
       !.stray = HandedOut(c.stray, dst) \cup Strays(c, n, dst),
       !.tree[n].res[dst] = new,
       !.ops   = @ \cup {[node |-> n, src |-> src, dst |-> dst, promote |-> promote, data |-> data]},
       !.fault = IF InUse(old) THEN "overwrite" ELSE @]

CanReserve(c, dst, n) == c.free[dst] >= n /\ WithinBudget(c, dst, n)

-----------------------------------------------------------------------------
(* Eviction.                                                               *)

Evictable_Locked(c, n, t) == c.tree[n].res[t].state = "ready"

Evictable(c, n, t) == c.tree[n].res[t].state = "ready" /\ c.tree[n].res[t].refs = 0

(* Evictable nodes with a resource in t that no descendant shares. *)
Candidates(c, t) == {n \in Live(c) : Evictable(c, n, t) /\ \A m \in Below(c, n) : ~Has(c, m, t)}

(* evict_node_resource(): demote to tier to where there is room, or drop.  *)
(* The source units of a demotion are free when the call returns, though   *)
(* they have yet to be copied.                                             *)
Evict(c, n, t, to) ==
  IF to # None /\ CanReserve(c, to, Len(c.tree[n].res[t].units))
  THEN Detach(Reserve(c, n, t, to, FALSE), n, t)
  ELSE Prune(Detach(c, n, t), n)

(* Evict in the given order until need units are free, or all of them.     *)
EvictUntil(c, t, need, to, order) ==
  LET after[i \in 0..Len(order)] ==
        IF i = 0 THEN c
        ELSE LET d == after[i - 1] IN
             IF need # None /\ d.free[t] >= need THEN d ELSE Evict(d, order[i], t, to)
  IN after[Len(order)]

-----------------------------------------------------------------------------
(* The calls.  A fault ends what the model says.                           *)

Sound == cache.fault = "none"

Match(q) ==
  /\ Sound /\ cache' = Walk(cache, q)
  /\ UNCHANGED hand

Allocate(r, t, n) ==
  /\ Sound /\ hand[r] = None /\ cache.free[t] >= n
  /\ hand' = [hand EXCEPT ![r] = [tier |-> t, size |-> n]]
  /\ cache' = [cache EXCEPT !.free[t] = @ - n, !.stray = HandedOut(@, t)]

(* ~owned_units(). *)
Discard(r) ==
  /\ Sound /\ hand[r] # None
  /\ cache' = [cache EXCEPT !.free[hand[r].tier] = @ + hand[r].size]
  /\ hand' = [hand EXCEPT ![r] = None]

(* take_first(): what is left of the units when the first m are taken. *)
Suffix(us, m) == SubSeq(us, m + 1, Len(us))

(* The units hold the state of the pages of q.  Those of the part that is  *)
(* cached already are freed, the others go to one new child.  The child is *)
(* not stored, and the pointer to it is dead, when q's path continues in   *)
(* nodes on which tier t is not ready.                                     *)
Insert(r, q) ==
  LET t == hand[r].tier
      w == Walk(cache, q)
      m == Len(LastNode(w, q, t))
      c == [w EXCEPT !.free[t] = @ + m]
      us == Suffix([i \in DOMAIN q |-> Pre(q, i)], m)
  IN
  /\ Sound /\ hand[r] # None /\ Len(q) = hand[r].size
  /\ cache' =
       IF m = Len(q) THEN c
       ELSE IF \E n \in Chain(w, q) : w.tree[n].from >= m THEN [c EXCEPT !.fault = "collision"]
       ELSE [c EXCEPT !.tree = [n \in Live(w) \cup {q} |->
              IF n # q THEN w.tree[n]
              ELSE [from |-> m, res |->
                     [Empty EXCEPT ![t] = [state |-> "ready", units |-> us, refs |-> 0]]]]]
  /\ hand' = [hand EXCEPT ![r] = None]

(* The resources of tier t from n to the root are locked once more, or     *)
(* once less where there is a lock.                                        *)
OnChain(c, n, t, by) ==
  [c EXCEPT !.tree = [m \in Live(c) |->
     IF m \in Chain(c, n) /\ Has(c, m, t)
     THEN [c.tree[m] EXCEPT !.res[t].refs = IF @ + by < 0 THEN @ ELSE @ + by]
     ELSE c.tree[m]]]

(* lock() of a node that match() returned. *)
Lock(r, t, n) ==
  /\ Sound /\ cache.locks[r] = None
  /\ cache' = [OnChain(cache, n, t, 1) EXCEPT !.locks[r] =
                [node |-> n, tier |-> t, path |-> n]]
  /\ UNCHANGED hand

(* ~node_ref(). *)
Release(r) ==
  LET l == cache.locks[r] IN
  /\ Sound /\ l # None
  /\ cache' = [OnChain(cache, l.node, l.tier, -1) EXCEPT !.locks[r] = None]
  /\ UNCHANGED hand

(* Demoting, ensure_capacity() first drops from a destination that is too  *)
(* full.                                                                   *)
EnsureCapacity(t, need, to) ==
  /\ Sound /\ to # t
  /\ need > cache.free[t] \/ (to # None /\ need > cache.free[to])
  /\ \E first \in IF to = None THEN {<<>>} ELSE SetToSeqs(Candidates(cache, to)) :
       LET c == IF to = None THEN cache ELSE EvictUntil(cache, to, need, None, first) IN
       \E order \in SetToSeqs(Candidates(c, t)) : cache' = EvictUntil(c, t, need, to, order)
  /\ UNCHANGED hand

(* evict_by_predicate(): those of the candidates the predicate names. *)
EvictBy(t, S) ==
  /\ Sound
  /\ \E order \in SetToSeqs(S) : cache' = EvictUntil(cache, t, None, None, order)
  /\ UNCHANGED hand

(* start_demote() or start_promote() of a node that match() returned. *)
StartTransfer(n, src, dst, promote) ==
  /\ Sound /\ src # dst
  /\ CanReserve(cache, dst, Len(cache.tree[n].res[src].units))
  /\ cache' = Reserve(cache, n, src, dst, promote)
  /\ UNCHANGED hand

(* The units o copies from may hold something else by now. *)
MayBeLate(o) ==
  \E x \in cache.stray : x.node = o.node /\ x.src = o.src /\ x.dst = o.dst /\ x.reused

(* What the copy has read: late, from units that had been handed out again. *)
Copied(o, late) == IF late THEN [i \in DOMAIN o.data |-> Lost] ELSE o.data

(* o is no longer in flight. *)
Forget(c, o) ==
  [c EXCEPT !.ops = @ \ {o}, !.stray = {x \in @ : x.node # o.node \/ x.dst # o.dst}]

(* complete_op(): the copy is done for the part of the node that is left.  *)
(* A demotion gives up the source, held or not.  A failed transfer may     *)
(* prune its node, whose atom_count() complete_op() then still reads, for  *)
(* an event: what it finds there goes into the event alone.                *)
Complete(c, o, success, late) ==
  LET n == o.node
      d == Forget(c, o)
      copy(r) == [r EXCEPT !.state = "ready", !.units = SubSeq(Copied(o, late), 1, Len(r.units))]
      copied  == [d EXCEPT
        !.tree[n].res[o.dst] = copy(c.tree[n].res[o.dst]),
        !.fault = IF ~o.promote /\ InUse(c.tree[n].res[o.src]) THEN "unpinned" ELSE @]
  IN IF ~Has(c, n, o.dst) THEN d
     ELSE IF ~success THEN Prune(Detach(d, n, o.dst), n)
     ELSE IF o.promote THEN copied ELSE Detach(copied, n, o.src)

CompleteOp(o, success, late) ==
  /\ Sound /\ (late => success /\ MayBeLate(o))
  /\ cache' = Complete(cache, o, success, late)
  /\ UNCHANGED hand

FailAllInflight ==
  /\ Sound /\ cache.ops # {}
  /\ \E order \in SetToSeqs(cache.ops) :
       LET after[i \in 0..Len(order)] ==
             IF i = 0 THEN cache ELSE Complete(after[i - 1], order[i], FALSE, FALSE)
       IN cache' = after[Len(order)]
  /\ UNCHANGED hand

(* After a fault the code's behaviour is not described any further. *)
Undefined == ~Sound /\ UNCHANGED vars

-----------------------------------------------------------------------------
Next ==
  \/ \E q \in Query : Match(q)
  \/ \E r \in Caller, t \in Tier, n \in 1..MaxLen : Allocate(r, t, n)
  \/ \E r \in Caller : Discard(r)
  \/ \E r \in Caller, q \in Query : Insert(r, q)
  \/ \E r \in Pin : Release(r) \/ \E t \in Tier : \E n \in Matched(cache, t) : Lock(r, t, n)
  \/ \E t \in Tier, need \in 1..MaxLen, to \in Tier \cup {None} : EnsureCapacity(t, need, to)
  \/ \E t \in Tier : \E S \in (SUBSET Candidates(cache, t)) \ {{}} : EvictBy(t, S)
  \/ \E src, dst \in Tier, promote \in BOOLEAN :
       \E n \in Matched(cache, src) : StartTransfer(n, src, dst, promote)
  \/ \E o \in cache.ops, success, late \in BOOLEAN : CompleteOp(o, success, late)
  \/ FailAllInflight
  \/ Undefined

Spec == Init /\ [][Next]_vars

-----------------------------------------------------------------------------
(* Properties.                                                             *)

Resource == [state : {"none", "ready", "pending"}, units : Seq(Content), refs : Nat]

(* Every variable has its type, and no tier has more units in transfer     *)
(* than max_pending_units allows.                                          *)
TypeOK ==
  /\ \A n \in Live(cache) :
       /\ n \in Query /\ cache.tree[n].from \in 0..(Len(n) - 1)
       /\ \A t \in Tier : cache.tree[n].res[t] \in Resource
  /\ \A t \in Tier :
       /\ cache.free[t] \in 0..(Total[t] - 1)
       /\ MaxPending[t] > 0 => PendingUnits(cache, t) <= MaxPending[t]
  /\ \A o \in cache.ops : o.node \in Query /\ {o.src, o.dst} \subseteq Tier
  /\ cache.fault \in {"none", "collision", "overwrite", "unpinned"}
  /\ \A r \in Caller : hand[r] # None => hand[r] \in [tier : Tier, size : 1..MaxLen]
  /\ \A r \in Pin : cache.locks[r] # None => cache.locks[r].node \in Query

UnitsOf(n, t) == cache.tree[n].res[t].units

(* What a match returns can be used: each unit of a ready resource holds   *)
(* the state of its own page after exactly the pages before it, whatever   *)
(* splits, evictions, transfers and reuses of units came in between.  The  *)
(* one exception is a unit copied from units that had been handed out      *)
(* again before the copy, or copied from such a unit: what it holds is     *)
(* Lost, and never passes for another page's state elsewhere.              *)
ContentCorrect ==
  Sound => \A n \in Live(cache), t \in Tier :
    cache.tree[n].res[t].state = "ready" =>
      \A i \in DOMAIN UnitsOf(n, t) : UnitsOf(n, t)[i] \in {Pre(n, cache.tree[n].from + i), Lost}

(* No unit is lost or freed twice: those in the free list, in callers'     *)
(* owned_units and in the resources of the tree are all there are.         *)
UnitsConserved ==
  Sound => \A t \in Tier :
    cache.free[t]
      + CountUnits([n \in Live(cache) |-> Len(UnitsOf(n, t))])
      + CountUnits([r \in {x \in Caller : hand[x] # None /\ hand[x].tier = t} |-> hand[r].size])
    = Total[t] - 1

(* The nodes form a radix tree: each has its parent, no prefix is covered  *)
(* by two of them, a resource has one unit per page of its node, and no    *)
(* leaf is left without a resource.                                        *)
RadixTree ==
  Sound => \A n \in Live(cache) :
    LET x == cache.tree[n] IN
    /\ x.from > 0 => Pre(n, x.from) \in Live(cache)
    /\ \A m \in Live(cache) \ {n} : Common(n, m) <= x.from \/ Common(n, m) <= cache.tree[m].from
    /\ \A t \in Tier : Has(cache, n, t) => Len(x.res[t].units) = Len(n) - x.from
    /\ Below(cache, n) = {} => ~Bare(cache, n)

(* Every page of the path that l pinned is in its tier, ready. *)
PathReady(c, l) ==
  \A i \in DOMAIN l.path : \E n \in Live(c) :
    /\ c.tree[n].from < i /\ IsPrefix(Pre(l.path, i), n)
    /\ c.tree[n].res[l.tier].state = "ready"

(* A node_ref pins its path: every page that was on it when it was locked  *)
(* is there, ready, after every step until it is released.  No eviction    *)
(* takes one, whatever was split or shares the path.  Only the caller's    *)
(* own transfers do, which do not look at locks: a demotion of a pinned    *)
(* node that completes, and a transfer to the tier of a pinned copy, which *)
(* the reservation replaces.                                               *)
PinsStay ==
  \A r \in Pin : LET l == cache'.locks[r] IN l # None =>
    \/ PathReady(cache', l)
    \/ \E o \in cache.ops \ cache'.ops : ~o.promote /\ o.src = l.tier /\ IsPrefix(o.node, l.path)
    \/ \E o \in cache'.ops \ cache.ops : o.dst = l.tier /\ IsPrefix(o.node, l.path)

(* The node and the reservation of a transfer in flight are there when     *)
(* complete_op() is called for it, and the reservation is not larger than  *)
(* what is copied, whatever was split, evicted or pruned since.            *)
TransfersKeepReservation ==
  Sound => \A o \in cache.ops :
    /\ o.node \in Live(cache) /\ cache.tree[o.node].res[o.dst].state = "pending"
    /\ Len(UnitsOf(o.node, o.dst)) <= Len(o.data)

(* "RAII pin against eviction ... On destruction, reverse-walks unlocking": *)
(* a resource is locked only while a node_ref on it or below it lives.     *)
PinsReleased ==
  Sound => \A n \in Live(cache), t \in Tier : cache.tree[n].res[t].refs > 0 =>
    \E r \in Pin : LET l == cache.locks[r] IN
      l # None /\ l.tier = t /\ IsPrefix(n, l.path)

(* match() walks a radix tree and returns units with the content of the  *)
(* prefix, after any splits, evictions and transfers, or units that were *)
(* copied too late and hold nothing anybody can name.                    *)
TreeCorrect == RadixTree /\ ContentCorrect

(* unit_allocator and the budget of transfers hold: no unit is lost or   *)
(* freed twice, and no tier has more in transfer than it may.            *)
UnitsCorrect == TypeOK /\ UnitsConserved

(* ensure_capacity() and the other evictions spare what is in use: the   *)
(* path of a node_ref, and the node and reservation of a transfer.       *)
HeldUnitsStay == []TransfersKeepReservation /\ [][PinsStay]_vars

=============================================================================
