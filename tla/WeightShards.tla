---------------------------- MODULE WeightShards ----------------------------
(***************************************************************************)
(* How the weights of a transformer block and of its embedding are spread  *)
(* over the ranks of a tensor-parallel group: the loaders of               *)
(* phyai/weights/shards.py with the layers that configure them             *)
(* (layers/linear/layers.py, layers/transformer_block.py,                  *)
(* layers/mlp/dense_mlp.py, layers/vocab_embedding/layers.py).             *)
(*                                                                         *)
(* A tensor is the sequence of its rows (of its columns, for a row-        *)
(* parallel layer), and a row is the name of its checkpoint tensor and its *)
(* number there.  The variable is the shape a model asks for; predicates   *)
(* say which shapes raise no error.                                        *)
(***************************************************************************)
EXTENDS Integers, Sequences, FiniteSets, SequencesExt, FiniteSetsExt

CONSTANTS
  MaxTp,      \* bound: ranks of a group
  MaxHeads,   \* bound: heads of queries and of keys
  HeadDim,    \* head sizes that are tried
  MaxWidth    \* bound: features of the MLP, entries of the vocabulary

VARIABLES layer

(* heads, kv, dim: of attention; width: of the MLP; vocab, multiple: of    *)
(* the embedding; tp: the size of the group.                               *)
SmallLayer == [tp |-> 1, heads |-> 1, kv |-> 1, dim |-> 1, width |-> 1, vocab |-> 1, multiple |-> 1]

Layer ==
  LET attention == [tp : 1..MaxTp, heads : 1..MaxHeads, kv : 1..MaxHeads, dim : HeadDim,
                    width : {1}, vocab : {1}, multiple : {1}]
      others == [tp : 1..MaxTp, heads : {1}, kv : {1}, dim : {1},
                 width : 1..MaxWidth, vocab : 1..MaxWidth, multiple : {1, 2}]
  IN attention \cup others

Ranks(x) == 0..(x.tp - 1)

-----------------------------------------------------------------------------
(* Loaders.                                                                *)

Tensor(name, n) == [i \in 1..n |-> <<name, i - 1>>]
Zero == <<"zero", 0>>

Narrow(t, start, size) == SubSeq(t, start + 1, start + size)

ShardOf_Modulo(rank, tp, factor) == rank % (tp \div factor)

(* Neighbouring ranks share a slot when there are more ranks than slots.   *)
ShardOf(rank, tp, factor) == rank \div factor

(* sharded(). *)
Sharded(t, rank, tp, factor) ==
  LET size == Len(t) \div (tp \div factor)
  IN Narrow(t, ShardOf(rank, tp, factor) * size, size)

PerRank(sizes, tp) == [p \in DOMAIN sizes |-> sizes[p] \div tp]
SumTo(s, p) ==
  LET sum[i \in 0..p] == IF i = 0 THEN 0 ELSE sum[i - 1] + s[i] IN sum[p]

(* Where a partition starts in the packed tensor. *)
PackedOffset(sizes, p, tp) == SumTo(sizes, p - 1)

(* packed_sharded(): the rows that partitions write at each place of the   *)
(* parameter.                                                              *)
PackedSharded(t, sizes, rank, tp) ==
  LET local == PerRank(sizes, tp)
      at(p)   == SumTo(local, p - 1)
      rows(p) == Narrow(t, PackedOffset(sizes, p, tp) + rank * local[p], local[p])
  IN [i \in 1..SumTo(local, Len(sizes)) |->
       {rows(p)[i - at(p)] : p \in {o \in DOMAIN sizes : i - at(o) \in 1..local[o]}}]

(* fused(): the rows that legs write at each place of the parameter. *)
Fused(legs, size, rank, tp) ==
  LET rows(l) == Narrow(Tensor(l.name, l.size * (tp \div l.factor)),
                        ShardOf(rank, tp, l.factor) * l.size, l.size)
  IN [i \in 1..size |->
       {rows(l)[i - l.offset] : l \in {m \in legs : i - m.offset \in 1..m.size}}]

(* vocab(). *)
Vocab(t, size, rank) ==
  [i \in 1..size |-> IF rank * size + i <= Len(t) THEN t[rank * size + i] ELSE Zero]

-----------------------------------------------------------------------------
(* Layers.                                                                 *)

Leg(name, offset, size, factor) ==
  [name |-> name, offset |-> offset, size |-> size, factor |-> factor]

(* MergedColumnParallelLinear: gate and up. *)
MergedLegs(x) ==
  LET size == x.width \div x.tp IN {Leg("gate", 0, size, 1), Leg("up", size, size, 1)}

(* QKVParallelLinear: keys and values are replicated when there are fewer  *)
(* heads than ranks.                                                       *)
KvReplicas(x)  == IF x.tp >= x.kv THEN x.tp \div x.kv ELSE 1
EffectiveKv(x) == IF x.tp >= x.kv THEN x.tp ELSE x.kv
QkvSizes(x)    == <<x.heads * x.dim, EffectiveKv(x) * x.dim, EffectiveKv(x) * x.dim>>

QkvLegs(x) ==
  LET local == PerRank(QkvSizes(x), x.tp)
  IN {Leg("q", 0, local[1], 1), Leg("k", local[1], local[2], KvReplicas(x)),
      Leg("v", local[1] + local[2], local[3], KvReplicas(x))}

(* TransformerBlock: the heads of a rank. *)
QHeads(x)  == x.heads \div x.tp
KvHeads(x) == Max({1, x.kv \div x.tp})

(* The constructors of the projections and of the attention, the loader of *)
(* each leg, and the split of the fused output raise no error.             *)
BlockAccepted(x) ==
  LET sizes == QkvSizes(x) IN
  /\ IF x.tp >= x.kv THEN x.tp % x.kv = 0 ELSE x.kv % x.tp = 0
  /\ \A p \in DOMAIN sizes : sizes[p] % x.tp = 0
  /\ QHeads(x) % KvHeads(x) = 0
  /\ \A l \in QkvLegs(x) :
       l.size * (x.tp \div l.factor) = (IF l.name = "q" THEN x.heads ELSE x.kv) * x.dim
  /\ (QHeads(x) + 2 * KvHeads(x)) * x.dim = SumTo(PerRank(sizes, x.tp), 3)

(* pad_vocab_to(). *)
PadVocab(x) ==
  LET step == x.tp * x.multiple IN ((x.vocab + step - 1) \div step) * step

(* VocabParallelEmbedding: entries that a rank looks up, shard_start and   *)
(* shard_end.                                                              *)
PerPartition(x) == PadVocab(x) \div x.tp
Bounds(x, rank) ==
  LET start == rank * PerPartition(x)
  IN <<start, Max({start, Min({start + PerPartition(x), x.vocab})})>>

-----------------------------------------------------------------------------
(* Properties.                                                             *)

(* Grouped-query attention over ranks: in every shape that is accepted     *)
(* each query head is on one rank, finds at its place among the local key  *)
(* and value heads the ones it has in the whole model, whether these are   *)
(* split or replicated, and meets its own columns of the output            *)
(* projection.                                                             *)
HeadsMeet ==
  LET x  == layer
      ql == QHeads(x)
      kl == KvHeads(x)
      at(h, d) == h * x.dim + d
  IN BlockAccepted(x) =>
       /\ x.heads % x.kv = 0 /\ ql * x.tp = x.heads
       /\ \A rank \in Ranks(x) :
            LET qkv == Fused(QkvLegs(x), (ql + 2 * kl) * x.dim, rank, x.tp)
                out == Sharded(Tensor("o", x.heads * x.dim), rank, x.tp, 1)
            IN \A j \in 0..(ql - 1), d \in 1..x.dim :
                 LET h == rank * ql + j
                     g == h \div (x.heads \div x.kv)
                     m == j \div (ql \div kl)
                 IN /\ qkv[at(j, d)] = {<<"q", at(h, d) - 1>>}
                    /\ qkv[at(ql + m, d)] = {<<"k", at(g, d) - 1>>}
                    /\ qkv[at(ql + kl + m, d)] = {<<"v", at(g, d) - 1>>}
                    /\ out[at(j, d)] = <<"o", at(h, d) - 1>>

(* The MLP over ranks: each feature is on one rank, where its row of the   *)
(* gate, its row of the up projection and its column of the down           *)
(* projection are at the same place, and a checkpoint with gate and up in  *)
(* one tensor is loaded to the same parameter as one with two.             *)
FeaturesMeet ==
  LET x == layer
      n == x.width \div x.tp
  IN x.width % x.tp = 0 => \A rank \in Ranks(x) :
       LET merged == Fused(MergedLegs(x), 2 * n, rank, x.tp)
           packed == PackedSharded(Tensor("gate", x.width) \o Tensor("up", x.width),
                                   <<x.width, x.width>>, rank, x.tp)
           down   == Sharded(Tensor("down", x.width), rank, x.tp, 1)
       IN /\ \A i \in 1..n : /\ merged[i] = {<<"gate", rank * n + i - 1>>}
                             /\ merged[n + i] = {<<"up", rank * n + i - 1>>}
                             /\ down[i] = <<"down", rank * n + i - 1>>
          /\ DOMAIN packed = 1..(2 * n) /\ \A i \in 1..(2 * n) : merged[i] = packed[i]

(* The sum over ranks of their lookups is the embedding, and their logits  *)
(* side by side are those of the vocabulary: each token is looked up by    *)
(* one rank, in its own row, never in the padding, and row i of all shards *)
(* in order is the row of token i, or zero past the vocabulary.            *)
TokensOnce ==
  LET x    == layer
      size == PerPartition(x)
      held(rank) == Vocab(Tensor("e", x.vocab), size, rank)
      looks(rank, id) == Bounds(x, rank)[1] <= id /\ id < Bounds(x, rank)[2]
  IN /\ \A id \in 0..(PadVocab(x) - 1) :
          LET on == {rank \in Ranks(x) : looks(rank, id)} IN
          /\ Cardinality(on) = IF id < x.vocab THEN 1 ELSE 0
          /\ \A rank \in on : held(rank)[id - Bounds(x, rank)[1] + 1] = <<"e", id>>
          /\ held(id \div size)[(id % size) + 1] = IF id < x.vocab THEN <<"e", id>> ELSE Zero
     /\ size * x.tp = PadVocab(x) /\ x.vocab <= PadVocab(x)

(* The loaders put on each rank what belongs together there: the heads   *)
(* of attention, the features of the MLP and the tokens of the embedding *)
(* are each on one rank, beside their partners.                          *)
ShardsMeet == HeadsMeet /\ FeaturesMeet /\ TokensOnce

=============================================================================
