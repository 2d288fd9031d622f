---------------------------- MODULE LatencyMeasurer ----------------------------
(***************************************************************************)
(* LatencyMeasurer: one buffer of cache-line nodes, relinked in place by   *)
(* each of four benchmarks, measure_hit, measure_forced_miss,              *)
(* measure_store and measure_strides, which the program may call in any    *)
(* order.  A timed batch walks the links one load at a time (or stores to  *)
(* a few nodes); the forced-miss benchmark first flushes the lines its     *)
(* next batch is going to load.                                            *)
(*                                                                         *)
(* A node is its index.  next is the link of every node, and flushed the   *)
(* lines that were flushed and not touched since.  The times themselves    *)
(* are not modelled: a sample is counted.                                  *)
(***************************************************************************)
EXTENDS Integers, Sequences

CONSTANTS
  LineSize,        \* 64
  MinBufferSize,   \* Config::MIN_BUFFER_SIZE
  Batch,           \* kLatencyBatch, loads in a timed pointer chase
  StoreBatch,      \* kStoreBatch, stores in a timed store batch
  StoreSlots,      \* 16, the nodes a store batch goes round
  SizeArgs,        \* values the caller may pass as requested_buffer_size
  CountArgs,       \* values the caller may pass as iterations, warmup and rounds
  StrideLists,     \* lists of strides, in bytes, the caller may pass
  MaxCalls         \* bound on the benchmarks run in one behaviour

\* 32 MiB hold many more 64-byte lines than the 128 loads or 16 slots of a batch.
ASSUME BufferAssumption ==
  /\ LineSize \in Nat \ {0} /\ MinBufferSize \in Nat /\ SizeArgs \subseteq Nat
  /\ Batch \in Nat \ {0} /\ StoreBatch \in Nat \ {0} /\ StoreSlots \in Nat \ {0}
  /\ LineSize * Batch <= MinBufferSize
  /\ LineSize * StoreSlots <= MinBufferSize

ASSUME CallAssumption ==
  /\ CountArgs \subseteq Int
  /\ StrideLists \subseteq Seq(Nat)
  /\ MaxCalls \in Nat

VARIABLES
  node_count,                 \* nodes in the buffer, 0 when there is no buffer
  next,                       \* buffer_[i].next
  random_order,               \* random_order_, empty until the first forced miss
  flushing, flushed,          \* lines whose flush was issued; lines flushed and not touched since
  mode,                       \* the benchmark running
  iterations, warmup, rounds, \* its arguments
  strides,                    \* the strides still to do, the current one first
  pc,                         \* where it is
  warm, round, i, samples,    \* its loop counters and the samples it has
  start,                      \* where the batch starts: a node, or a position in random_order
  current, step,              \* the chase: the node it is at, the loads or flushes made
  calls                       \* benchmarks run so far

args == <<iterations, warmup, rounds>>
loops == <<warm, round, i, samples>>
lines == <<flushing, flushed>>
vars == <<node_count, next, random_order, lines, mode, args, strides, pc, loops,
          start, current, step, calls>>

Nodes == 0 .. node_count - 1
Larger(a, b) == IF a >= b THEN a ELSE b

\* The size the constructor settles on: at least the minimum, whole lines.
BufferSize(requested) ==
  LET size == IF requested = 0 THEN MinBufferSize ELSE Larger(requested, MinBufferSize)
  IN  Larger((size \div LineSize) * LineSize, MinBufferSize)

\* The stride a list entry is measured with: whole lines, at least one.
MeasuredStride(raw_stride) == Larger(LineSize, (raw_stride \div LineSize) * LineSize)

\* The lines a ring of that stride moves by.
StrideLines(stride_bytes) == Larger(1, stride_bytes \div LineSize)

Init ==
  /\ node_count = 0
  /\ next = [k \in {} |-> k]
  /\ random_order = <<>>
  /\ flushing = {}
  /\ flushed = {}
  /\ mode = "none"
  /\ iterations = 0 /\ warmup = 0 /\ rounds = 0
  /\ strides = <<>>
  /\ pc = "new"
  /\ warm = 0 /\ round = 0 /\ i = 0 /\ samples = 0
  /\ start = 0
  /\ current = 0
  /\ step = 0
  /\ calls = 0

\* The constructor: every node of the new buffer points to itself.  Without memory
\* it throws, and there is no measurer.
Construct ==
  /\ pc = "new"
  /\ \/ \E requested \in SizeArgs :
          LET n == BufferSize(requested) \div LineSize
          IN  /\ node_count' = n
              /\ next' = [k \in 0 .. n - 1 |-> k]
              /\ pc' = "idle"
     \/ pc' = "gone" /\ UNCHANGED <<node_count, next>>
  /\ UNCHANGED <<random_order, lines, mode, args, strides, loops, start, current, step, calls>>

-------------------------------------------------------------------------------
(* The calls: arguments, and the links each benchmark needs.               *)

\* What a shuffle can leave in random_order: every node at exactly one position.
Orders ==
  {f \in [Nodes -> Nodes] : /\ \A a, b \in Nodes : f[a] = f[b] => a = b
                            /\ \A node \in Nodes : \E p \in Nodes : f[p] = node}

Position(order, node) == CHOOSE p \in Nodes : order[p] = node

ValidArgs(iters, warms, rnds) == iters > 0 /\ warms >= 0 /\ rnds > 0

\* A benchmark starts with the arguments it was given, all of its counters at 0.
Begin(m, list) ==
  /\ pc = "idle"
  /\ calls < MaxCalls
  /\ calls' = calls + 1
  /\ \E iters, warms, rnds \in CountArgs :
       /\ ValidArgs(iters, warms, rnds)
       /\ iterations' = iters /\ warmup' = warms /\ rounds' = rnds
  /\ mode' = m
  /\ strides' = list
  /\ warm' = 0 /\ round' = 0 /\ i' = 0 /\ samples' = 0
  /\ UNCHANGED <<node_count, current, step>>

\* Invalid arguments throw before anything has changed.
RejectArgs ==
  /\ pc = "idle"
  /\ calls < MaxCalls
  /\ \E iters, warms, rnds \in CountArgs : ~ValidArgs(iters, warms, rnds)
  /\ calls' = calls + 1
  /\ UNCHANGED <<node_count, next, random_order, lines, mode, args, strides, pc, loops,
                 start, current, step>>

\* Mutant: the link another benchmark left is kept.
LinkKept ==
  /\ Begin("hit", <<>>)
  /\ flushed' = flushed \ {0}
  /\ start' = 0
  /\ pc' = "batch"
  /\ UNCHANGED <<next, random_order, flushing>>

\* measure_hit: the first node points to itself again, and the store warms its line.
BeginHit ==
  /\ Begin("hit", <<>>)
  /\ next' = [next EXCEPT ![0] = 0]
  /\ flushed' = flushed \ {0}
  /\ start' = 0
  /\ pc' = "batch"
  /\ UNCHANGED <<random_order, flushing>>

\* measure_forced_miss: a ring through all nodes in a shuffled order.  The call would refuse
\* a buffer of fewer than 64 nodes; the constructor never makes one, MIN_BUFFER_SIZE having
\* 524288 lines of 64 bytes, so the refusal is not modelled.
BeginMiss ==
  /\ Begin("miss", <<>>)
  /\ \E order \in Orders :
       /\ random_order' = order
       /\ next' = [node \in Nodes |-> order[(Position(order, node) + 1) % node_count]]
  /\ flushed' = {}
  /\ start' = 0
  /\ pc' = "batch"
  /\ UNCHANGED flushing

BeginStore ==
  /\ Begin("store", <<>>)
  /\ start' = 0
  /\ pc' = "batch"
  /\ UNCHANGED <<next, random_order, lines>>

\* measure_strides goes through its list; an empty list is done at once.
BeginStrides ==
  /\ \E list \in StrideLists : Begin("stride", list)
  /\ start' = 0
  /\ pc' = "stride"
  /\ UNCHANGED <<next, random_order, lines>>

\* Mutant: the last links lead out of the buffer.
OpenRing ==
  /\ pc = "stride" /\ strides # <<>>
  /\ LET stride_lines == StrideLines(MeasuredStride(Head(strides)))
     IN  next' = [k \in Nodes |-> k + stride_lines]
  /\ flushed' = {}
  /\ warm' = 0 /\ round' = 0 /\ i' = 0 /\ samples' = 0
  /\ start' = 0
  /\ pc' = "batch"
  /\ UNCHANGED <<node_count, random_order, flushing, mode, args, strides, current, step, calls>>

\* One stride of the list: a ring of that stride through the whole buffer.
BuildStrideRing ==
  /\ pc = "stride" /\ strides # <<>>
  /\ LET stride_lines == StrideLines(MeasuredStride(Head(strides)))
     IN  next' = [k \in Nodes |-> (k + stride_lines) % node_count]
  /\ flushed' = {}
  /\ warm' = 0 /\ round' = 0 /\ i' = 0 /\ samples' = 0
  /\ start' = 0
  /\ pc' = "batch"
  /\ UNCHANGED <<node_count, random_order, flushing, mode, args, strides, current, step, calls>>

StridesDone ==
  /\ pc = "stride" /\ strides = <<>>
  /\ pc' = "idle"
  /\ UNCHANGED <<node_count, next, random_order, lines, mode, args, strides, loops,
                 start, current, step, calls>>

-------------------------------------------------------------------------------
(* The batches.                                                            *)

Warming == warm < warmup
BatchesLeft == Warming \/ round < rounds

\* The next batch, from where the loops say it starts: a hit batch at node 0, a miss
\* batch at the next position of the order, a stride batch one link further on than
\* the last, or at the round's own node when a round begins.
StartBatch ==
  /\ pc = "batch" /\ BatchesLeft
  /\ start' = CASE mode = "miss" -> (IF Warming THEN warm ELSE round * iterations + i) % node_count
                [] mode = "stride" /\ ~Warming /\ i = 0 -> round % node_count
                [] OTHER -> start
  /\ current' = IF mode = "miss" THEN random_order[start'] ELSE start'
  /\ step' = 0
  /\ pc' = CASE mode = "miss" -> "flush" [] mode = "store" -> "store" [] OTHER -> "chase"
  /\ UNCHANGED <<node_count, next, random_order, lines, mode, args, strides, loops, calls>>

\* Mutant: the flushes are off by one position.
FlushNextLine ==
  /\ pc = "flush" /\ step < Batch
  /\ flushing' = flushing \union {random_order[(start + step + 1) % node_count]}
  /\ step' = step + 1
  /\ UNCHANGED <<node_count, next, random_order, flushed, mode, args, strides, pc, loops,
                 start, current, calls>>

\* flush_random_path, one line at a time, and the fence after which the flushes are done.
FlushLine ==
  /\ pc = "flush" /\ step < Batch
  /\ flushing' = flushing \union {random_order[(start + step) % node_count]}
  /\ step' = step + 1
  /\ UNCHANGED <<node_count, next, random_order, flushed, mode, args, strides, pc, loops,
                 start, current, calls>>

\* Mutant: a warm-up batch is flushed and not loaded.
WarmupNotLoaded ==
  /\ pc = "flush" /\ step = Batch
  /\ flushed' = flushed \union flushing
  /\ flushing' = {}
  /\ step' = 0
  /\ IF Warming
       THEN pc' = "batch" /\ warm' = warm + 1
       ELSE pc' = "chase" /\ warm' = warm
  /\ UNCHANGED <<node_count, next, random_order, mode, args, strides, round, i, samples,
                 start, current, calls>>

FlushFence ==
  /\ pc = "flush" /\ step = Batch
  /\ flushed' = flushed \union flushing
  /\ flushing' = {}
  /\ step' = 0
  /\ pc' = "chase"
  /\ UNCHANGED <<node_count, next, random_order, mode, args, strides, loops,
                 start, current, calls>>

\* timed_pointer_chase, one dependent load.
Load ==
  /\ pc = "chase" /\ step < Batch
  /\ current' = next[current]
  /\ flushed' = flushed \ {current}
  /\ step' = step + 1
  /\ UNCHANGED <<node_count, next, random_order, flushing, mode, args, strides, pc, loops,
                 start, calls>>

\* timed_store_batch, one store: the node of the slot points to itself.
Store ==
  /\ pc = "store" /\ step < StoreBatch
  /\ LET slot == step % StoreSlots
     IN  /\ next' = [next EXCEPT ![slot] = slot]
         /\ flushed' = flushed \ {slot}
  /\ step' = step + 1
  /\ UNCHANGED <<node_count, random_order, flushing, mode, args, strides, pc, loops,
                 start, current, calls>>

\* Mutant: the warm-up batches are kept as samples.
WarmupKept ==
  /\ \/ pc = "chase" /\ step = Batch
     \/ pc = "store" /\ step = StoreBatch
  /\ samples' = samples + 1
  /\ IF Warming
       THEN warm' = warm + 1 /\ UNCHANGED <<round, i>>
       ELSE /\ IF i + 1 < iterations
                 THEN i' = i + 1 /\ round' = round
                 ELSE i' = 0 /\ round' = round + 1
            /\ UNCHANGED warm
  /\ IF mode = "stride"
       THEN start' = next[start] /\ flushed' = flushed \ {start}
       ELSE UNCHANGED <<start, flushed>>
  /\ pc' = "batch"
  /\ UNCHANGED <<node_count, next, random_order, flushing, mode, args, strides,
                 current, step, calls>>

\* The batch is over: a warm-up batch is forgotten, any other is a sample.  Stride
\* batches read the link of the node they started at, to start the next one there.
EndBatch ==
  /\ \/ pc = "chase" /\ step = Batch
     \/ pc = "store" /\ step = StoreBatch
  /\ IF Warming
       THEN warm' = warm + 1 /\ UNCHANGED <<round, i, samples>>
       ELSE /\ samples' = samples + 1
            /\ IF i + 1 < iterations
                 THEN i' = i + 1 /\ round' = round
                 ELSE i' = 0 /\ round' = round + 1
            /\ UNCHANGED warm
  /\ IF mode = "stride"
       THEN start' = next[start] /\ flushed' = flushed \ {start}
       ELSE UNCHANGED <<start, flushed>>
  /\ pc' = "batch"
  /\ UNCHANGED <<node_count, next, random_order, flushing, mode, args, strides,
                 current, step, calls>>

\* Mutant: the stride that is done is measured again.
SameStrideAgain ==
  /\ pc = "batch" /\ ~BatchesLeft
  /\ pc' = IF mode = "stride" THEN "stride" ELSE "idle"
  /\ UNCHANGED <<node_count, next, random_order, lines, mode, args, strides, loops,
                 start, current, step, calls>>

\* All the batches were made: the benchmark returns, or goes on to its next stride.
EndLoops ==
  /\ pc = "batch" /\ ~BatchesLeft
  /\ IF mode = "stride"
       THEN pc' = "stride" /\ strides' = Tail(strides)
       ELSE pc' = "idle" /\ UNCHANGED strides
  /\ UNCHANGED <<node_count, next, random_order, lines, mode, args, loops,
                 start, current, step, calls>>

\* The destructor, and nothing after it.
Destroy ==
  /\ pc = "idle"
  /\ pc' = "gone"
  /\ node_count' = 0
  /\ next' = [k \in {} |-> k]
  /\ UNCHANGED <<random_order, lines, mode, args, strides, loops, start, current, step, calls>>

Gone == pc = "gone" /\ UNCHANGED vars

Running ==
  \/ BuildStrideRing \/ StridesDone \/ StartBatch
  \/ FlushLine \/ FlushFence \/ Load \/ Store \/ EndBatch \/ EndLoops

Next ==
  \/ Construct \/ RejectArgs
  \/ BeginHit \/ BeginMiss \/ BeginStore \/ BeginStrides
  \/ Running
  \/ Destroy \/ Gone

Spec == Init /\ [][Next]_vars

\* A benchmark that was called runs; nobody has to call one.
FairSpec == Spec /\ WF_vars(Running)

-------------------------------------------------------------------------------
(* Properties.                                                             *)

Modes == {"none", "hit", "miss", "store", "stride"}
Places == {"new", "idle", "stride", "batch", "flush", "chase", "store", "gone"}

\* Every variable has its type; links and loop counters stay inside the buffer and
\* their loops.
TypeOK ==
  /\ node_count \in Nat
  /\ next \in [Nodes -> Nodes]
  /\ flushing \subseteq Nat /\ flushed \subseteq Nat
  /\ mode \in Modes /\ pc \in Places
  /\ iterations \in Nat /\ warmup \in Nat /\ rounds \in Nat
  /\ strides \in Seq(Nat)
  /\ warm \in Nat /\ round \in Nat /\ i \in Nat /\ samples \in Nat
  /\ start \in Nat /\ current \in Nat /\ step \in Nat
  /\ calls \in Nat

\* The lines the rest of a forced-miss batch is going to load.
LinesAhead == {random_order[(start + k) % node_count] : k \in step .. Batch - 1}

\* src/README.md: "Before a timed batch, the exact nodes required by that batch are
\* flushed."  At every load of a forced-miss batch the flushed lines are exactly those
\* that this load and the ones after it go to, so every timed load is a miss, whatever
\* benchmark used the buffer before.
ExactlyTheNodesAhead ==
  mode = "miss" /\ pc = "chase" =>
    /\ flushed = LinesAhead
    /\ step < Batch => current \in flushed

\* No other benchmark meets a line that a forced miss has flushed: its hot lines are hot.
NothingStaysFlushed ==
  ~(mode = "miss" /\ pc \in {"flush", "chase"}) => flushed = {} /\ flushing = {}

\* A stride batch moves by the stride its result is labelled with, at every load, and
\* a hit batch never leaves its line: no link of another benchmark is left in the way.
LinksAsIntended ==
  /\ mode = "hit" /\ pc = "chase" => current = 0
  /\ mode = "stride" /\ pc = "chase" =>
       next[current] = (current + MeasuredStride(Head(strides)) \div LineSize) % node_count

\* A benchmark has a sample for every iteration of every round and none for the
\* warm-up, whenever it returns or goes on to the next stride.
AllSamples ==
  pc = "batch" /\ ~BatchesLeft => samples = rounds * iterations /\ warm = warmup

\* A benchmark that is called returns.
Returns == []<>(pc \in {"new", "idle", "gone"})

-------------------------------------------------------------------------------
(* What the invariants above rest on.                                      *)

BatchPlaces == {"batch", "flush", "chase", "store"}

InBuffer ==
  /\ pc \notin {"new", "gone"} => node_count >= Batch /\ node_count >= StoreSlots
  /\ pc \in BatchPlaces => start \in Nodes /\ mode # "none"
  /\ pc = "chase" => current \in Nodes /\ step <= Batch
  /\ pc = "flush" => mode = "miss"
  /\ pc = "store" => mode = "store"
  /\ pc = "stride" => mode = "stride"

\* The flushes made so far, in the order of the batch they are for.
FlushesMade ==
  mode = "miss" /\ pc = "flush" =>
    /\ step <= Batch
    /\ current = random_order[start]
    /\ flushed = {}
    /\ flushing = {random_order[(start + k) % node_count] : k \in 0 .. step - 1}

\* A forced-miss batch follows the order, position by position.
OnTheRing ==
  /\ mode = "miss" /\ pc \in BatchPlaces =>
       /\ random_order \in Orders
       /\ \A p \in Nodes : next[random_order[p]] = random_order[(p + 1) % node_count]
  /\ mode = "miss" /\ pc = "chase" =>
       flushing = {} /\ current = random_order[(start + step) % node_count]

Rings ==
  /\ mode = "hit" /\ pc \in BatchPlaces => start = 0 /\ next[0] = 0
  /\ mode = "hit" /\ pc = "chase" => current = 0
  /\ mode = "stride" /\ pc \in BatchPlaces =>
       /\ strides # <<>>
       /\ next = [k \in Nodes |-> (k + StrideLines(MeasuredStride(Head(strides)))) % node_count]

LoopsAgree ==
  /\ pc \in BatchPlaces \union {"stride"} => iterations > 0
  /\ pc \in BatchPlaces =>
       /\ samples = round * iterations + i
       /\ i < iterations
       /\ warm <= warmup
       /\ round < rounds \/ (round = rounds /\ i = 0)
  /\ pc \in {"flush", "chase", "store"} => BatchesLeft

\* The inductive invariant: the links and the flushed lines, and the loops.
AtBatch == FlushesMade /\ OnTheRing /\ Rings /\ ExactlyTheNodesAhead /\ NothingStaysFlushed

Geometry == TypeOK /\ InBuffer /\ AtBatch

Inv == Geometry /\ LoopsAgree
===============================================================================
