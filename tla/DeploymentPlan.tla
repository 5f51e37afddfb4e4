--------------------------- MODULE DeploymentPlan ---------------------------
(***************************************************************************)
(* From the parallel sizes a user writes down to the processes of a        *)
(* deployment: ParallelConfig (phyai/parallel/config.py) infers the number *)
(* of ranks of a replica and fills in omitted tensor-parallel sizes,       *)
(* build_rank_layout (phyai/parallel/layout.py) gives every rank its place *)
(* in thirteen families of groups, and DeploymentPlan.build                *)
(* (phyai/server/deployment.py) puts the ranks of all replicas on devices. *)
(* All of it are functions; predicates say where they raise an error.  The *)
(* variables are what a user asks for, and never change.                   *)
(*                                                                         *)
(* A domain is the sequence of its sizes, the tensor-parallel one first.   *)
(* A group is the sequence of its ranks, a family the set of its groups.   *)
(* Devices of a node are numbered in the order they are listed.            *)
(***************************************************************************)
EXTENDS Integers, Sequences, FiniteSets, SequencesExt, FiniteSetsExt

CONSTANTS
  PipelineSize, CfgSize,   \* pipeline and CFG sizes that are tried
  Size, MoeSize,           \* the other sizes that are tried, of the MoE domain and else
  MaxDevices,              \* bound: devices of a node, ranks and replicas
  MaxNodes                 \* bound: nodes

VARIABLES
  parallel,    \* a ParallelConfig
  placement    \* the other arguments of DeploymentPlan.build

planVars == <<parallel, placement>>

Omitted == 0
Domain  == {"dense", "attention", "moe"}

(* ParallelConfig, with tp_size None as Omitted. *)
Sizes(k, S) == {d \in [1..k -> S \cup {Omitted}] : \A i \in 2..k : d[i] # Omitted}

Config ==
  [pipeline : PipelineSize, cfg : CfgSize, decode : Size,
   dims : [dense : Sizes(2, Size), attention : Sizes(3, Size), moe : Sizes(3, MoeSize)]]

(* ParallelConfig() *)
DefaultParallel ==
  [pipeline |-> 1, cfg |-> 1, decode |-> 1,
   dims |-> [dense |-> <<Omitted, 1>>, attention |-> <<Omitted, 1, 1>>, moe |-> <<Omitted, 1, 1>>]]

(* The world of a replica, and the replicas, devices and addresses asked for. *)
Placement ==
  {q \in [world : 1..MaxDevices, count : 1..MaxDevices, output : 0..(MaxDevices - 1),
          nodes : UNION {[0..(m - 1) -> [devices : 0..MaxDevices, address : BOOLEAN]] :
                          m \in 1..MaxNodes}] :
    q.output < q.world}

PlanInit(small) ==
  \/ parallel \in Config /\ placement = small
  \/ parallel = DefaultParallel /\ placement \in Placement

(* The product of the first k sizes. *)
ProductTo(s, k) ==
  LET product[i \in 0..k] == IF i = 0 THEN 1 ELSE product[i - 1] * s[i] IN product[k]

Product(s) == ProductTo(s, Len(s))
Outer(p)   == p.pipeline * p.cfg

-----------------------------------------------------------------------------
(* ParallelConfig.                                                         *)

(* _resolve_dimension(): the domain with its tensor-parallel size.  Where  *)
(* the others do not divide the scope the result does not cover it.        *)
Completed(d, scope) ==
  IF d[1] # Omitted THEN d ELSE [d EXCEPT ![1] = scope \div Product(Tail(d))]

(* resolve(), and whether it raises no error. *)
Resolve(p, world) ==
  [p EXCEPT !.dims = [n \in Domain |-> Completed(@[n], world \div Outer(p))]]

Resolves(p, world) ==
  LET r == Resolve(p, world) IN
  /\ world % Outer(p) = 0
  /\ \A n \in Domain : Product(r.dims[n]) = world \div Outer(p)
  /\ r.dims["attention"][1] % p.decode = 0

Divides(a, b) == b % a = 0
Lcm(s) == Min({k \in 1..Product(s) : \A i \in DOMAIN s : Divides(s[i], k)})

(* The sizes of a domain but for the tensor-parallel one. *)
Others(p, n) == Product(Tail(p.dims[n]))

Minimum_Prefill(p) == Lcm(<<Others(p, "dense"), Others(p, "attention"), Others(p, "moe")>>)

(* The smallest scope when no tensor-parallel size is given. *)
Minimum(p) ==
  Lcm(<<Others(p, "dense"), Others(p, "attention"), Others(p, "moe"), Others(p, "attention") * p.decode>>)

(* infer_replica_world_size(), and whether it raises no error. *)
Explicit(p) == {Product(p.dims[n]) : n \in {m \in Domain : p.dims[m][1] # Omitted}}
Infer(p)    == Outer(p) * (IF Explicit(p) = {} THEN Minimum(p) ELSE Min(Explicit(p)))
Infers(p)   == Cardinality(Explicit(p)) <= 1 /\ Resolves(p, Infer(p))

-----------------------------------------------------------------------------
(* build_rank_layout().                                                    *)

Stride_Slowest(sizes, i) == Product(SubSeq(sizes, i + 1, Len(sizes)))

(* The first dimension is the fastest-changing. *)
Stride(sizes, i) == ProductTo(sizes, i - 1)

(* The place with these coordinates. *)
Local(sizes, coords) ==
  LET sum[i \in 0..Len(sizes)] == IF i = 0 THEN 0 ELSE sum[i - 1] + coords[i] * Stride(sizes, i)
  IN sum[Len(sizes)]

(* _dimension_groups(): ranks that differ only in coordinate k. *)
DimensionGroups(base, sizes, k) ==
  LET fixed == {c \in [DOMAIN sizes -> 0..(Max(ToSet(sizes)) - 1)] :
                  c[k] = 0 /\ \A i \in DOMAIN sizes : c[i] < sizes[i]}
  IN {[v \in 1..sizes[k] |-> base + Local(sizes, [c EXCEPT ![k] = v - 1])] : c \in fixed}

(* _partition_groups(). *)
PartitionGroups(groups, size) ==
  UNION {{SubSeq(g, s * size + 1, (s + 1) * size) : s \in 0..(Len(g) \div size - 1)} : g \in groups}

(* The rank at a pipeline stage, CFG branch and place in the scope. *)
RankAt(r, scope, stage, branch, place) == (stage * r.cfg + branch) * scope + place

(* The groups of a domain in coordinate k, at every stage and branch. *)
InDomain(r, scope, sizes, k) ==
  UNION {DimensionGroups(RankAt(r, scope, s, b, 0), sizes, k) : s \in 0..(r.pipeline - 1), b \in 0..(r.cfg - 1)}

(* The families of groups of a resolved configuration. *)
Layout(r, world) ==
  LET scope  == world \div Outer(r)
      stages == 0..(r.pipeline - 1)
      branches == 0..(r.cfg - 1)
      places == 0..(scope - 1)
      inDomain(sizes, k) == InDomain(r, scope, sizes, k)
      moe    == r.dims["moe"]
      attentionTp == inDomain(r.dims["attention"], 1)
  IN [world     |-> {[i \in 1..world |-> i - 1]},
      pipeline  |-> {[i \in 1..r.pipeline |-> RankAt(r, scope, i - 1, b, l)] : b \in branches, l \in places},
      cfg       |-> {[i \in 1..r.cfg |-> RankAt(r, scope, s, i - 1, l)] : s \in stages, l \in places},
      dense_tp  |-> inDomain(r.dims["dense"], 1),
      dense_dp  |-> inDomain(r.dims["dense"], 2),
      attention_tp |-> attentionTp,
      attention_cp |-> inDomain(r.dims["attention"], 2),
      attention_dp |-> inDomain(r.dims["attention"], 3),
      attention_decode_cp |-> PartitionGroups(attentionTp, r.decode),
      moe_tp    |-> inDomain(moe, 1),
      moe_ep    |-> inDomain(moe, 2),
      moe_dp    |-> inDomain(moe, 3),
      moe_tp_ep |-> inDomain(<<moe[1] * moe[2], moe[3]>>, 1)]

(* members_for() and group_rank(). *)
MembersFor(family, rank) == CHOOSE g \in family : rank \in ToSet(g)
GroupRank(family, rank)  == LET g == MembersFor(family, rank) IN CHOOSE i \in 0..(Len(g) - 1) : g[i + 1] = rank

(* The checks RankLayout makes of a family. *)
Accepted(family, world) ==
  /\ \A g \in family : g # <<>> /\ \A i \in DOMAIN g :
       g[i] \in 0..(world - 1) /\ (i > 1 => g[i - 1] < g[i])
  /\ \A rank \in 0..(world - 1) : Cardinality({g \in family : rank \in ToSet(g)}) = 1

-----------------------------------------------------------------------------
(* DeploymentPlan.                                                         *)

Replica_Dealt(i, world, count) == (i - 1) % count

(* divmod(worker_id, world). *)
ReplicaId(i, world, count) == (i - 1) \div world

(* The devices of all nodes, and how many there are before those of n. *)
Devices(nodes)   == UNION {{n} \X (0..(nodes[n].devices - 1)) : n \in DOMAIN nodes}
Before(nodes, n) == Cardinality({d \in Devices(nodes) : d[1] < n})

(* slots: node by node. *)
Slots(nodes) ==
  [i \in 1..Cardinality(Devices(nodes)) |->
    CHOOSE d \in Devices(nodes) : Before(nodes, d[1]) + d[2] = i - 1]

(* The workers in order, and those of a replica. *)
Workers(q) ==
  LET slots == Slots(q.nodes)
  IN [i \in 1..(q.count * q.world) |->
       [replica |-> ReplicaId(i, q.world, q.count), rank |-> (i - 1) % q.world,
        node |-> slots[i][1], device |-> slots[i][2], output |-> (i - 1) % q.world = q.output]]

Members(workers, c) == {i \in DOMAIN workers : workers[i].replica = c}

(* build(): nodes maps node ranks to the number of their devices and to    *)
(* whether they have an address.  The plan is empty when it is refused.    *)
Build(q) ==
  LET workers  == Workers(q)
      root(c)  == workers[Min(Members(workers, c))].node
      spans(c) == \E i, j \in Members(workers, c) : workers[i].node # workers[j].node
  IN IF \/ DOMAIN q.nodes # 0..(Cardinality(DOMAIN q.nodes) - 1)
        \/ Len(Slots(q.nodes)) < q.count * q.world
        \/ \E c \in 0..(q.count - 1) : spans(c) /\ ~q.nodes[root(c)].address
     THEN <<>> ELSE workers

(* workers_for_node(), as worker numbers. *)
WorkersForNode(plan, node) == {i \in DOMAIN plan : plan[i].node = node}

-----------------------------------------------------------------------------
(* Properties.                                                             *)

(* "Infer the smallest physical world implied by explicit dimensions":     *)
(* infer_replica_world_size() refuses only a configuration that no world   *)
(* fits, and no smaller world fits than the one it returns.                *)
InferredIsSmallest ==
  LET p == parallel
      most == Max(Explicit(p) \cup {p.decode * Lcm(<<Others(p, "dense"), Others(p, "attention"), Others(p, "moe")>>)})
  IN \A scope \in 1..most :
       Resolves(p, Outer(p) * scope) => Infers(p) /\ Infer(p) <= Outer(p) * scope

World    == Infer(parallel)
Families == Layout(Resolve(parallel, World), World)

(* Whatever sizes are accepted, RankLayout raises no error afterwards:     *)
(* each of the thirteen families cuts the ranks into ascending groups,     *)
(* which is what the order of ranks in torch groups requires.              *)
LayoutsAccepted ==
  Infers(parallel) => LET fam == Families IN \A f \in DOMAIN fam : Accepted(fam[f], World)

(* The ranks a rank has in the groups of a domain, its pipeline and its    *)
(* CFG group are its own, so that no two ranks load the same shard of the  *)
(* same stage; tensor-parallel groups are neighbours; decoding splits them *)
(* and tensor and expert parallelism merge to one group.                   *)
CoordinatesUnique ==
  Infers(parallel) =>
    LET fam == Families
        ranks == 0..(World - 1)
        place(F, rank) == [f \in F \cup {"pipeline", "cfg"} |-> GroupRank(fam[f], rank)]
        inside(f, g, rank) == ToSet(MembersFor(fam[f], rank)) \subseteq ToSet(MembersFor(fam[g], rank))
    IN /\ \A F \in {{"dense_tp", "dense_dp"}, {"attention_tp", "attention_cp", "attention_dp"},
                    {"moe_tp", "moe_ep", "moe_dp"}, {"moe_tp_ep", "moe_dp"}} :
            Cardinality({place(F, rank) : rank \in ranks}) = World
       /\ \A rank \in ranks :
            /\ inside("attention_decode_cp", "attention_tp", rank)
            /\ inside("moe_tp", "moe_tp_ep", rank) /\ inside("moe_ep", "moe_tp_ep", rank)
       /\ \A f \in {"dense_tp", "attention_tp", "moe_tp"} : \A g \in fam[f] :
            \A i \in DOMAIN g : g[i] = g[1] + i - 1

Plan == Build(placement)

(* What the supervisor relies on: in an accepted plan every replica has    *)
(* each of its ranks once and one output rank, no device is used twice,    *)
(* and ranks that have to meet across nodes have an address to meet at. A  *)
(* plan is refused only when devices are missing, or when the devices of a *)
(* node without an address end in the middle of a replica.                 *)
PlacementCorrect ==
  LET plan  == Plan
      nodes == placement.nodes
      world == placement.world
      count == placement.count
  IN IF plan = <<>>
     THEN \/ Cardinality(Devices(nodes)) < count * world
          \/ \E n \in DOMAIN nodes : ~nodes[n].address /\ Before(nodes, n + 1) % world # 0
     ELSE /\ \A i, j \in DOMAIN plan :
               plan[i].node = plan[j].node /\ plan[i].device = plan[j].device => i = j
          /\ \A c \in 0..(count - 1) :
               LET members == Members(plan, c) IN
               /\ {plan[i].rank : i \in members} = 0..(world - 1) /\ Cardinality(members) = world
               /\ Cardinality({i \in members : plan[i].output}) = 1
               /\ Cardinality({plan[i].node : i \in members}) > 1 =>
                    \E i \in members : plan[i].rank = 0 /\ nodes[plan[i].node].address

(* build_rank_layout() gives every accepted configuration families of    *)
(* groups that RankLayout accepts and in which each rank has a place of  *)
(* its own.                                                              *)
LayoutCorrect == LayoutsAccepted /\ CoordinatesUnique

=============================================================================
