------------------------- MODULE LatencyMeasurer_proof -------------------------
(***************************************************************************)
(* Every load of a forced-miss batch goes to a line that was flushed for   *)
(* it, and no other benchmark ever meets a flushed line: for every buffer, *)
(* every order of the nodes and every sequence of benchmarks.              *)
(***************************************************************************)
EXTENDS LatencyMeasurer, SequenceTheorems, TLAPS

-------------------------------------------------------------------------------
(* Positions that wrap around a ring of n nodes.                           *)

\* An index less than two turns around the ring wraps at most once.
LEMMA WrapsOnce ==
  ASSUME NEW n \in Nat \ {0}
  PROVE  \A b \in Nat : b < n + n => b % n = IF b < n THEN b ELSE b - n
  <1>1. \A b \in Nat : b < n => b % n = b BY SMTT(30)
  <1>2. \A b \in Nat : n <= b /\ b < n + n => b % n = b - n BY SMTT(30)
  <1> QED BY <1>1, <1>2

\* Less than a whole turn apart are different nodes.
LEMMA WrapsApart ==
  ASSUME NEW n \in Nat \ {0}, NEW a \in 0 .. n - 1,
         NEW j \in 0 .. n - 1, NEW k \in 0 .. n - 1, j # k
  PROVE  (a + j) % n # (a + k) % n
  <1>1. a + j \in Nat /\ a + j < n + n /\ a + k \in Nat /\ a + k < n + n OBVIOUS
  <1>2. \A b \in Nat : b < n + n => b % n = IF b < n THEN b ELSE b - n BY WrapsOnce
  <1>3. (a + j) % n = (IF a + j < n THEN a + j ELSE a + j - n) BY <1>1, <1>2
  <1>4. (a + k) % n = (IF a + k < n THEN a + k ELSE a + k - n) BY <1>1, <1>2
  <1> QED BY <1>3, <1>4

\* A position that has wrapped is a node, and its successor is the wrapped successor.
LEMMA WrapsNext ==
  ASSUME NEW n \in Nat \ {0}, NEW a \in 0 .. n - 1, NEW k \in 0 .. n - 1
  PROVE  /\ (a + k) % n \in 0 .. n - 1
         /\ (((a + k) % n) + 1) % n = (a + k + 1) % n
  <1> DEFINE m == (a + k) % n
  <1>1. \A b \in Nat : b < n + n => b % n = IF b < n THEN b ELSE b - n BY WrapsOnce
  <1>2. m = (IF a + k < n THEN a + k ELSE a + k - n)
    <2>1. a + k \in Nat /\ a + k < n + n OBVIOUS
    <2> QED BY <1>1, <2>1
  <1>3. (a + k + 1) % n = (IF a + k + 1 < n THEN a + k + 1 ELSE a + k + 1 - n)
    <2>1. a + k + 1 \in Nat /\ a + k + 1 < n + n OBVIOUS
    <2> QED BY <1>1, <2>1
  <1> HIDE DEF m
  <1>4. m \in 0 .. n - 1 BY <1>2
  <1>5. (m + 1) % n = (IF m + 1 < n THEN m + 1 ELSE m + 1 - n)
    <2>1. m + 1 \in Nat /\ m + 1 < n + n BY <1>4
    <2> QED BY <1>1, <1>4, <2>1
  <1>6. (m + 1) % n = (a + k + 1) % n BY <1>2, <1>3, <1>4, <1>5
  <1> QED BY <1>4, <1>6 DEF m

\* A wrapped index is a node.
LEMMA InRange ==
  ASSUME NEW n \in Nat \ {0}
  PROVE  \A a \in Nat : a % n \in 0 .. n - 1
  OBVIOUS

-------------------------------------------------------------------------------
(* The buffer the constructor allocates holds a whole batch.               *)

\* b bytes that hold k lines of l bytes divide into at least k whole lines.
LEMMA Quotient ==
  ASSUME NEW l \in Nat \ {0}, NEW k \in Nat, NEW b \in Nat, l * k <= b
  PROVE  b \div l \in Nat /\ b \div l >= k
  BY SMTT(30)

\* Whatever size is requested, the constructor's buffer has a line for every load of a
\* batch and for every slot of a store batch.
LEMMA BufferHoldsBatch ==
  ASSUME NEW requested \in SizeArgs
  PROVE  LET n == BufferSize(requested) \div LineSize
         IN  n \in Nat /\ n >= Batch /\ n >= StoreSlots
  <1> DEFINE size == IF requested = 0 THEN MinBufferSize ELSE Larger(requested, MinBufferSize)
  <1> DEFINE b == BufferSize(requested)
  <1>1. size \in Nat BY BufferAssumption DEF Larger
  <1>2. (size \div LineSize) * LineSize \in Nat
    <2>1. size \div LineSize \in Nat BY <1>1, BufferAssumption
    <2> QED BY <2>1, BufferAssumption
  <1>3. b \in Nat /\ b >= MinBufferSize BY <1>2, BufferAssumption DEF BufferSize, Larger
  <1>4. LineSize * Batch <= b /\ LineSize * StoreSlots <= b
    <2>1. LineSize * Batch \in Nat /\ LineSize * StoreSlots \in Nat BY BufferAssumption
    <2> QED BY <1>3, <2>1, BufferAssumption
  <1>5. b \div LineSize \in Nat /\ b \div LineSize >= Batch
    BY <1>3, <1>4, Quotient, BufferAssumption
  <1>6. b \div LineSize >= StoreSlots
    BY <1>3, <1>4, Quotient, BufferAssumption
  <1> QED BY <1>5, <1>6
-------------------------------------------------------------------------------
(* The invariant.                                                          *)

\* The initial states satisfy the invariant.
LEMMA InitInv == ASSUME Init PROVE Inv
  <1> USE DEF Init, Modes, Places, BatchPlaces, Nodes
  <1>1. TypeOK BY DEF TypeOK
  <1>2. InBuffer /\ FlushesMade /\ OnTheRing /\ Rings /\ LoopsAgree
    BY DEF InBuffer, FlushesMade, OnTheRing, Rings, LoopsAgree
  <1>3. ExactlyTheNodesAhead /\ NothingStaysFlushed
    BY DEF ExactlyTheNodesAhead, NothingStaysFlushed
  <1> QED BY <1>1, <1>2, <1>3 DEF Inv, Geometry, AtBatch

\* Lines, batches and slots are positive.
LEMMA Sizes ==
  /\ LineSize \in Nat \ {0} /\ Batch \in Nat \ {0}
  /\ StoreBatch \in Nat \ {0} /\ StoreSlots \in Nat \ {0}
  BY BufferAssumption

\* The state a call leaves behind, its own links and place aside.
BegunWith(m, list) ==
  /\ pc = "idle"
  /\ mode' = m /\ strides' = list
  /\ iterations' \in Nat \ {0} /\ warmup' \in Nat /\ rounds' \in Nat \ {0}
  /\ warm' = 0 /\ round' = 0 /\ i' = 0 /\ samples' = 0
  /\ calls' = calls + 1
  /\ UNCHANGED <<node_count, current, step>>

\* A benchmark that begins has valid arguments and all of its counters at 0.
LEMMA BeginFrame ==
  ASSUME NEW m, NEW list, Begin(m, list)
  PROVE  BegunWith(m, list)
  BY CallAssumption DEF Begin, BegunWith, ValidArgs

\* Outside of a forced-miss batch no line is flushed.
LEMMA NothingFlushedHere ==
  ASSUME Geometry, ~(mode = "miss" /\ pc \in {"flush", "chase"})
  PROVE  flushed = {} /\ flushing = {}
  BY DEF Geometry, AtBatch, NothingStaysFlushed

\* Calling a benchmark, and everything before and after the calls.
LEMMA OutsideGeometry ==
  ASSUME Geometry, Construct \/ RejectArgs \/ StridesDone \/ Destroy \/ UNCHANGED vars
  PROVE  Geometry'
  <1> USE DEF args, loops, lines
  <1>1. CASE Construct
    <2>1. pc = "new" /\ pc' \in {"idle", "gone"} BY <1>1 DEF Construct
    <2>2. flushed' = {} /\ flushing' = {}
      BY <1>1, <2>1, NothingFlushedHere DEF Construct
    <2>3. AtBatch'
      BY <2>1, <2>2 DEF AtBatch, FlushesMade, OnTheRing, Rings, ExactlyTheNodesAhead,
                        NothingStaysFlushed, BatchPlaces
    <2>4. /\ node_count' \in Nat /\ next' \in [Nodes' -> Nodes']
          /\ pc' # "gone" => node_count' >= Batch /\ node_count' >= StoreSlots
      <3>1. CASE pc' = "gone" BY <1>1, <3>1 DEF Construct, Geometry, TypeOK, Nodes
      <3>2. CASE pc' # "gone"
        <4>1. PICK requested \in SizeArgs :
                /\ node_count' = BufferSize(requested) \div LineSize
                /\ next' = [k \in 0 .. node_count' - 1 |-> k]
          BY <1>1, <3>2 DEF Construct
        <4> QED BY <4>1, BufferHoldsBatch DEF Nodes
      <3> QED BY <3>1, <3>2
    <2>5. TypeOK' BY <1>1, <2>1, <2>4 DEF Construct, Geometry, TypeOK, Places
    <2>6. InBuffer' BY <2>1, <2>4 DEF InBuffer, BatchPlaces
    <2> QED BY <2>3, <2>5, <2>6 DEF Geometry
  <1>2. CASE RejectArgs
    <2>1. TypeOK' BY <1>2 DEF RejectArgs, Geometry, TypeOK, Nodes
    <2>2. InBuffer' BY <1>2 DEF RejectArgs, Geometry, InBuffer, BatchPlaces
    <2>3. pc' \notin BatchPlaces /\ flushed' = {} /\ flushing' = {}
      BY <1>2, NothingFlushedHere DEF RejectArgs, BatchPlaces
    <2>4. AtBatch'
      BY <2>3 DEF AtBatch, FlushesMade, OnTheRing, Rings, ExactlyTheNodesAhead,
                  NothingStaysFlushed, BatchPlaces
    <2> QED BY <2>1, <2>2, <2>4 DEF Geometry
  <1>3. CASE StridesDone
    <2>1. TypeOK' BY <1>3 DEF StridesDone, Geometry, TypeOK, Nodes, Places
    <2>2. InBuffer' BY <1>3 DEF StridesDone, Geometry, InBuffer, BatchPlaces
    <2>3. pc' \notin BatchPlaces /\ flushed' = {} /\ flushing' = {}
      BY <1>3, NothingFlushedHere DEF StridesDone, BatchPlaces
    <2>4. AtBatch'
      BY <2>3 DEF AtBatch, FlushesMade, OnTheRing, Rings, ExactlyTheNodesAhead,
                  NothingStaysFlushed, BatchPlaces
    <2> QED BY <2>1, <2>2, <2>4 DEF Geometry
  <1>4. CASE Destroy
    <2>1. TypeOK' BY <1>4 DEF Destroy, Geometry, TypeOK, Nodes, Places
    <2>2. InBuffer' BY <1>4 DEF Destroy, Geometry, InBuffer, BatchPlaces
    <2>3. pc' \notin BatchPlaces /\ flushed' = {} /\ flushing' = {}
      BY <1>4, NothingFlushedHere DEF Destroy, BatchPlaces
    <2>4. AtBatch'
      BY <2>3 DEF AtBatch, FlushesMade, OnTheRing, Rings, ExactlyTheNodesAhead,
                  NothingStaysFlushed, BatchPlaces
    <2> QED BY <2>1, <2>2, <2>4 DEF Geometry
  <1>5. CASE UNCHANGED vars
    <2>1. TypeOK' BY <1>5 DEF vars, Geometry, TypeOK, Nodes
    <2>2. InBuffer' BY <1>5 DEF vars, Geometry, InBuffer, Nodes
    <2>3. AtBatch'
      BY <1>5 DEF vars, Geometry, AtBatch, FlushesMade, OnTheRing, Rings, ExactlyTheNodesAhead,
                  NothingStaysFlushed, LinesAhead, Nodes, Orders
    <2> QED BY <2>1, <2>2, <2>3 DEF Geometry
  <1> QED BY <1>1, <1>2, <1>3, <1>4, <1>5

\* Each benchmark lays the links its batches follow.
LEMMA BeginGeometry ==
  ASSUME Geometry, BeginHit \/ BeginMiss \/ BeginStore \/ BeginStrides
  PROVE  Geometry'
  <1> USE Sizes DEF lines
  <1>1. CASE BeginHit
    <2>1. BegunWith("hit", <<>>) BY <1>1, BeginFrame DEF BeginHit
    <2>2. 0 \in Nodes /\ Nodes' = Nodes BY <2>1 DEF Geometry, TypeOK, InBuffer, BegunWith, Nodes
    <2>3. next' \in [Nodes -> Nodes] /\ next'[0] = 0
      BY <1>1, <2>2 DEF BeginHit, Geometry, TypeOK
    <2>4. flushed' = {} /\ flushing' = {} /\ start' = 0 /\ pc' = "batch"
      BY <1>1, <2>1, NothingFlushedHere DEF BeginHit, BegunWith
    <2>5. TypeOK'
      BY <2>1, <2>2, <2>3, <2>4 DEF Geometry, TypeOK, BegunWith, Modes, Places
    <2>6. InBuffer' BY <2>1, <2>2, <2>4 DEF Geometry, InBuffer, BegunWith
    <2>7. AtBatch'
      BY <2>1, <2>3, <2>4 DEF AtBatch, FlushesMade, OnTheRing, Rings, ExactlyTheNodesAhead,
                              NothingStaysFlushed, BegunWith
    <2> QED BY <2>5, <2>6, <2>7 DEF Geometry
  <1>2. CASE BeginMiss
    <2>1. PICK order \in Orders :
            /\ random_order' = order
            /\ next' = [node \in Nodes |-> order[(Position(order, node) + 1) % node_count]]
      BY <1>2 DEF BeginMiss
    <2>2. BegunWith("miss", <<>>) BY <1>2, BeginFrame DEF BeginMiss
    <2>3. /\ node_count \in Nat \ {0} /\ 0 \in Nodes /\ Nodes' = Nodes
      BY <2>2 DEF Geometry, TypeOK, InBuffer, BegunWith, Nodes
    <2>4. flushed' = {} /\ flushing' = {} /\ start' = 0 /\ pc' = "batch"
      BY <1>2, <2>2, NothingFlushedHere DEF BeginMiss, BegunWith
    <2>5. \A p \in Nodes : (p + 1) % node_count \in Nodes
      <3>1. \A a \in Nat : a % node_count \in Nodes BY <2>3, InRange DEF Nodes
      <3> QED BY <3>1 DEF Nodes
    <2>6. /\ order \in [Nodes -> Nodes]
          /\ \A a, b \in Nodes : order[a] = order[b] => a = b
          /\ \A node \in Nodes : \E p \in Nodes : order[p] = node
      BY DEF Orders
    <2>7. \A node \in Nodes : Position(order, node) \in Nodes /\ order[Position(order, node)] = node
      BY <2>6 DEF Position
    <2>8. \A p \in Nodes : Position(order, order[p]) = p BY <2>6, <2>7
    <2>9. \A p \in Nodes : next'[order[p]] = order[(p + 1) % node_count]
      BY <2>1, <2>6, <2>8
    <2>10. next' \in [Nodes -> Nodes]
      <3>1. \A node \in Nodes : order[(Position(order, node) + 1) % node_count] \in Nodes
        BY <2>5, <2>6, <2>7
      <3> QED BY <2>1, <3>1
    <2>11. TypeOK'
      BY <2>2, <2>3, <2>4, <2>10 DEF Geometry, TypeOK, BegunWith, Modes, Places
    <2>12. InBuffer' BY <2>2, <2>3, <2>4 DEF Geometry, InBuffer, BegunWith
    <2>13. OnTheRing'
      <3>1. Orders' = Orders BY <2>3 DEF Orders
      <3> QED BY <2>1, <2>2, <2>3, <2>4, <2>9, <3>1 DEF OnTheRing, BegunWith
    <2>14. AtBatch'
      BY <2>2, <2>4, <2>13 DEF AtBatch, FlushesMade, Rings, ExactlyTheNodesAhead,
                               NothingStaysFlushed, BegunWith
    <2> QED BY <2>11, <2>12, <2>14 DEF Geometry
  <1>3. CASE BeginStore
    <2>1. BegunWith("store", <<>>) BY <1>3, BeginFrame DEF BeginStore
    <2>2. 0 \in Nodes /\ Nodes' = Nodes BY <2>1 DEF Geometry, TypeOK, InBuffer, BegunWith, Nodes
    <2>3. flushed' = {} /\ flushing' = {} /\ start' = 0 /\ pc' = "batch" /\ next' = next
      BY <1>3, <2>1, NothingFlushedHere DEF BeginStore, BegunWith
    <2>4. TypeOK' BY <2>1, <2>2, <2>3 DEF Geometry, TypeOK, BegunWith, Modes, Places
    <2>5. InBuffer' BY <2>1, <2>2, <2>3 DEF Geometry, InBuffer, BegunWith
    <2>6. AtBatch'
      BY <2>1, <2>3 DEF AtBatch, FlushesMade, OnTheRing, Rings, ExactlyTheNodesAhead,
                        NothingStaysFlushed, BegunWith
    <2> QED BY <2>4, <2>5, <2>6 DEF Geometry
  <1>4. CASE BeginStrides
    <2>1. PICK list \in Seq(Nat) : BegunWith("stride", list)
      BY <1>4, BeginFrame, CallAssumption DEF BeginStrides
    <2>2. Nodes' = Nodes BY <2>1 DEF BegunWith, Nodes
    <2>3. flushed' = {} /\ flushing' = {} /\ start' = 0 /\ pc' = "stride" /\ next' = next
      BY <1>4, <2>1, NothingFlushedHere DEF BeginStrides, BegunWith
    <2>4. TypeOK' BY <2>1, <2>2, <2>3 DEF Geometry, TypeOK, BegunWith, Modes, Places
    <2>5. InBuffer' BY <2>1, <2>2, <2>3 DEF Geometry, InBuffer, BegunWith, BatchPlaces
    <2>6. AtBatch'
      BY <2>1, <2>3 DEF AtBatch, FlushesMade, OnTheRing, Rings, ExactlyTheNodesAhead,
                        NothingStaysFlushed, BegunWith, BatchPlaces
    <2> QED BY <2>4, <2>5, <2>6 DEF Geometry
  <1> QED BY <1>1, <1>2, <1>3, <1>4

\* The ring of a stride replaces every link that was there.
LEMMA StrideGeometry == ASSUME Geometry, BuildStrideRing PROVE Geometry'
  <1> DEFINE s == StrideLines(MeasuredStride(Head(strides)))
  <1> USE Sizes DEF BuildStrideRing, args
  <1>1. node_count \in Nat \ {0} /\ Nodes' = Nodes /\ 0 \in Nodes
    BY DEF Geometry, TypeOK, InBuffer, Nodes
  <1>2. s \in Nat
    <2>1. Head(strides) \in Nat BY DEF Geometry, TypeOK
    <2>2. Head(strides) \div LineSize \in Nat BY <2>1
    <2>3. (Head(strides) \div LineSize) * LineSize \in Nat BY <2>2
    <2>4. MeasuredStride(Head(strides)) \in Nat BY <2>3 DEF MeasuredStride, Larger
    <2>5. MeasuredStride(Head(strides)) \div LineSize \in Nat BY <2>4
    <2> QED BY <2>5 DEF StrideLines, Larger
  <1>3. next' = [k \in Nodes |-> (k + s) % node_count] OBVIOUS
  <1>4. next' \in [Nodes -> Nodes]
    <2>1. \A a \in Nat : a % node_count \in Nodes BY <1>1, InRange DEF Nodes
    <2>2. \A k \in Nodes : (k + s) % node_count \in Nodes
      <3> HIDE DEF s
      <3> QED BY <1>2, <2>1 DEF Nodes
    <2> HIDE DEF s
    <2> QED BY <1>3, <2>2
  <1>5. /\ mode = "stride" /\ mode' = mode /\ strides' = strides /\ strides # <<>>
        /\ flushed' = {} /\ flushing' = {} /\ start' = 0 /\ pc' = "batch"
    BY NothingFlushedHere DEF Geometry, InBuffer
  <1>6. TypeOK' BY <1>1, <1>4, <1>5 DEF Geometry, TypeOK, Modes, Places
  <1>7. InBuffer' BY <1>1, <1>5 DEF Geometry, InBuffer
  <1>8. Rings' BY <1>1, <1>3, <1>5 DEF Rings
  <1>9. AtBatch'
    BY <1>5, <1>8 DEF AtBatch, FlushesMade, OnTheRing, ExactlyTheNodesAhead, NothingStaysFlushed
  <1> QED BY <1>6, <1>7, <1>9 DEF Geometry

\* A flush batch and the loads after it go through the same positions.
LEMMA MissGeometry ==
  ASSUME Geometry, mode = "miss", FlushLine \/ FlushFence \/ Load
  PROVE  Geometry'
  <1> USE Sizes DEF args, loops, lines
  <1>1. /\ node_count \in Nat \ {0} /\ node_count >= Batch /\ start \in Nodes /\ step \in Nat
        /\ mode' = mode /\ random_order' = random_order /\ start' = start
        /\ next' = next /\ node_count' = node_count /\ Nodes' = Nodes /\ Orders' = Orders
        /\ pc \in BatchPlaces /\ pc' \in BatchPlaces
    <2>1. /\ mode' = mode /\ random_order' = random_order /\ start' = start
          /\ next' = next /\ node_count' = node_count
          /\ pc \in {"flush", "chase"} /\ pc' \in {"flush", "chase"}
      BY DEF FlushLine, FlushFence, Load
    <2>2. Nodes' = Nodes BY <2>1 DEF Nodes
    <2>3. Orders' = Orders BY <2>2 DEF Orders
    <2>4. start \in Nodes /\ step \in Nat /\ node_count \in Nat \ {0} /\ node_count >= Batch
      BY <2>1 DEF Geometry, TypeOK, InBuffer, BatchPlaces
    <2> QED BY <2>1, <2>2, <2>3, <2>4 DEF BatchPlaces
  <1>2. /\ random_order \in [Nodes -> Nodes]
        /\ \A a, b \in Nodes : random_order[a] = random_order[b] => a = b
        /\ \A p \in Nodes : next[random_order[p]] = random_order[(p + 1) % node_count]
        /\ random_order \in Orders
    BY <1>1 DEF Geometry, AtBatch, OnTheRing, Orders
  <1>3. \A k \in Nat : (start + k) % node_count \in Nodes
    <2>1. \A a \in Nat : a % node_count \in Nodes BY <1>1, InRange DEF Nodes
    <2> QED BY <1>1, <2>1 DEF Nodes
  <1>4. CASE FlushLine
    <2>1. pc = "flush" /\ pc' = "flush" /\ step < Batch /\ step' = step + 1
      BY <1>4 DEF FlushLine
    <2>2. flushing' = {random_order[(start + k) % node_count] : k \in 0 .. step' - 1}
      <3>1. flushing' = {random_order[(start + k) % node_count] : k \in 0 .. step - 1}
                          \union {random_order[(start + step) % node_count]}
        BY <1>4, <2>1 DEF FlushLine, Geometry, AtBatch, FlushesMade
      <3>2. 0 .. step' - 1 = (0 .. step - 1) \union {step} BY <1>1, <2>1
      <3> QED BY <3>1, <3>2
    <2>3. /\ flushed' = {} /\ current' = random_order[start] /\ step' <= Batch
          /\ current' \in Nat
      BY <1>1, <1>2, <1>4, <2>1 DEF FlushLine, Geometry, AtBatch, FlushesMade, Nodes
    <2>4. flushing' \subseteq Nat BY <1>1, <1>2, <1>3, <2>1, <2>2 DEF Nodes
    <2>5. TypeOK' BY <1>1, <1>4, <2>1, <2>3, <2>4 DEF FlushLine, Geometry, TypeOK
    <2>6. InBuffer' BY <1>1, <2>1 DEF Geometry, InBuffer
    <2>7. AtBatch'
      BY <1>1, <1>2, <2>1, <2>2, <2>3
      DEF AtBatch, FlushesMade, OnTheRing, Rings, ExactlyTheNodesAhead, NothingStaysFlushed
    <2> QED BY <2>5, <2>6, <2>7 DEF Geometry
  <1>5. CASE FlushFence
    <2>1. pc = "flush" /\ pc' = "chase" /\ step = Batch /\ step' = 0 /\ current' = current
      BY <1>5 DEF FlushFence
    <2>2. /\ flushed' = {random_order[(start + k) % node_count] : k \in 0 .. Batch - 1}
          /\ flushing' = {} /\ current = random_order[start]
      BY <1>5, <2>1 DEF FlushFence, Geometry, AtBatch, FlushesMade
    <2>3. flushed' = LinesAhead' BY <1>1, <2>1, <2>2 DEF LinesAhead
    <2>4. current' = random_order[(start + 0) % node_count] /\ current' \in flushed'
      <3>1. (start + 0) % node_count = start BY <1>1, WrapsOnce DEF Nodes
      <3>2. 0 \in 0 .. Batch - 1 OBVIOUS
      <3> QED BY <2>1, <2>2, <3>1, <3>2
    <2>5. current' \in Nodes BY <1>1, <1>2, <2>1, <2>2
    <2>6. flushed' \subseteq Nat
      <3>1. \A k \in 0 .. Batch - 1 : (start + k) % node_count \in Nodes
        BY <1>3
      <3>2. \A k \in 0 .. Batch - 1 : random_order[(start + k) % node_count] \in Nodes
        BY <1>2, <3>1, Zenon
      <3>3. Nodes \subseteq Nat
        BY DEF Nodes
      <3> QED BY <2>2, <3>2, <3>3, Zenon
    <2>7. TypeOK' BY <1>1, <1>5, <2>1, <2>2, <2>6 DEF FlushFence, Geometry, TypeOK, Places
    <2>8. InBuffer' BY <1>1, <2>1, <2>5 DEF Geometry, InBuffer
    <2>9. AtBatch'
      BY <1>1, <1>2, <2>1, <2>2, <2>3, <2>4
      DEF AtBatch, FlushesMade, OnTheRing, Rings, ExactlyTheNodesAhead, NothingStaysFlushed
    <2> QED BY <2>7, <2>8, <2>9 DEF Geometry
  <1>6. CASE Load
    <2>1. /\ pc = "chase" /\ pc' = "chase" /\ step < Batch /\ step' = step + 1
          /\ current' = next[current] /\ flushed' = flushed \ {current} /\ flushing' = flushing
      BY <1>6 DEF Load
    <2>2. /\ flushing = {} /\ flushed = LinesAhead
          /\ current = random_order[(start + step) % node_count]
      BY <2>1 DEF Geometry, AtBatch, OnTheRing, ExactlyTheNodesAhead
    <2>3. current' = random_order[(start + step') % node_count]
      <3>1. step \in 0 .. node_count - 1 BY <1>1, <2>1
      <3>2. /\ (start + step) % node_count \in Nodes
            /\ (((start + step) % node_count) + 1) % node_count = (start + step + 1) % node_count
        BY <1>1, <3>1, WrapsNext DEF Nodes
      <3>3. start + step' = start + step + 1 BY <1>1, <2>1 DEF Nodes
      <3> QED BY <1>2, <2>1, <2>2, <3>2, <3>3
    <2>4. LinesAhead' = flushed \ {current}
      <3>1. \A k \in step + 1 .. Batch - 1 :
              random_order[(start + k) % node_count] # random_order[(start + step) % node_count]
        <4>1. TAKE k \in step + 1 .. Batch - 1
        <4>2. (start + k) % node_count # (start + step) % node_count
          BY <1>1, <2>1, <4>1, WrapsApart DEF Nodes
        <4> QED BY <1>1, <1>2, <1>3, <4>1, <4>2
      <3>2. step .. Batch - 1 = (step + 1 .. Batch - 1) \union {step} BY <1>1, <2>1
      <3>3. LinesAhead' = {random_order[(start + k) % node_count] : k \in step + 1 .. Batch - 1}
        BY <1>1, <2>1 DEF LinesAhead
      <3>4. flushed = {random_order[(start + k) % node_count] : k \in step + 1 .. Batch - 1}
                       \union {current}
        BY <2>2, <3>2 DEF LinesAhead
      <3> QED BY <2>2, <3>1, <3>3, <3>4
    <2>5. step' < Batch => current' \in LinesAhead'
      <3>1. ASSUME step' < Batch PROVE step' \in step' .. Batch - 1 BY <1>1, <2>1, <3>1
      <3> QED BY <1>1, <2>1, <2>3, <3>1 DEF LinesAhead
    <2>6. current' \in Nodes BY <1>1, <1>2, <1>3, <2>1, <2>3
    <2>7. TypeOK'
      <3>1. UNCHANGED <<node_count, next, mode, pc, args, strides, loops, start, calls>>
        BY <1>6, Zenon DEF Load
      <3>2. step' \in Nat /\ current' \in Nat
        BY <1>1, <2>1, <2>6 DEF Nodes
      <3>3. TypeOK /\ flushing' \subseteq Nat /\ flushed' \subseteq Nat
        BY <2>1 DEF Geometry, TypeOK
      <3> QED BY <3>1, <3>2, <3>3 DEF TypeOK, Nodes, args, loops
    <2>8. InBuffer' BY <1>1, <2>1, <2>6 DEF Geometry, InBuffer
    <2>9. AtBatch'
      BY <1>1, <1>2, <2>1, <2>2, <2>3, <2>4, <2>5
      DEF AtBatch, FlushesMade, OnTheRing, Rings, ExactlyTheNodesAhead, NothingStaysFlushed
    <2> QED BY <2>7, <2>8, <2>9 DEF Geometry
  <1> QED BY <1>4, <1>5, <1>6

\* The other batches touch no flushed line, and only a store batch changes a link.
LEMMA OtherGeometry ==
  ASSUME Geometry, mode # "miss", Load \/ Store
  PROVE  Geometry'
  <1> USE DEF args, loops
  <1>1. flushed = {} /\ flushing = {} BY NothingFlushedHere
  <1>2. CASE Load
    <2>1. /\ pc = "chase" /\ pc' = "chase" /\ step < Batch /\ step' = step + 1 /\ mode' = mode
          /\ start' = start /\ next' = next /\ strides' = strides /\ node_count' = node_count
          /\ current' = next[current] /\ flushed' = {} /\ flushing' = {} /\ Nodes' = Nodes
      BY <1>1, <1>2 DEF Load, Nodes
    <2>2. current \in Nodes /\ current' \in Nodes /\ step \in Nat
      BY <2>1 DEF Geometry, TypeOK, InBuffer
    <2>3. TypeOK' BY <1>2, <2>1, <2>2 DEF Load, Geometry, TypeOK, Nodes
    <2>4. InBuffer' BY Sizes, <2>1, <2>2 DEF Geometry, InBuffer
    <2>5. AtBatch'
      BY <2>1 DEF Geometry, AtBatch, FlushesMade, OnTheRing, Rings, ExactlyTheNodesAhead,
                  NothingStaysFlushed, BatchPlaces
    <2> QED BY <2>3, <2>4, <2>5 DEF Geometry
  <1>3. CASE Store
    <2>1. /\ pc = "store" /\ pc' = "store" /\ step' = step + 1 /\ mode = "store" /\ mode' = mode
          /\ start' = start /\ node_count' = node_count /\ flushed' = {} /\ flushing' = {}
          /\ Nodes' = Nodes /\ step \in Nat
      BY <1>1, <1>3 DEF Store, Geometry, TypeOK, InBuffer, Nodes
    <2>2. step % StoreSlots \in Nodes
      <3>1. step % StoreSlots \in 0 .. StoreSlots - 1 BY <2>1, Sizes, InRange
      <3>2. node_count \in Nat /\ node_count >= StoreSlots BY <2>1 DEF Geometry, TypeOK, InBuffer
      <3> QED BY <3>1, <3>2, Sizes DEF Nodes
    <2>3. next' \in [Nodes -> Nodes] BY <1>3, <2>2 DEF Store, Geometry, TypeOK
    <2>4. UNCHANGED <<mode, args, strides, pc, loops, start, current, calls>> BY <1>3 DEF Store
    <2>5. TypeOK' BY <2>1, <2>3, <2>4 DEF Geometry, TypeOK
    <2>6. InBuffer' BY <2>1 DEF Geometry, InBuffer, BatchPlaces
    <2>7. AtBatch'
      BY <2>1 DEF AtBatch, FlushesMade, OnTheRing, Rings, ExactlyTheNodesAhead,
                  NothingStaysFlushed
    <2> QED BY <2>5, <2>6, <2>7 DEF Geometry
  <1> QED BY <1>2, <1>3

\* Between the batches.
LEMMA LoopGeometry ==
  ASSUME Geometry, StartBatch \/ EndBatch \/ EndLoops
  PROVE  Geometry'
  <1> USE Sizes DEF args, loops, lines
  <1>1. CASE StartBatch
    <2>1. /\ pc = "batch" /\ step' = 0
          /\ UNCHANGED <<node_count, next, random_order, lines, mode, args, strides, loops, calls>>
      BY <1>1 DEF StartBatch
    <2>2. /\ Nodes' = Nodes /\ Orders' = Orders /\ node_count \in Nat \ {0}
          /\ mode # "none" /\ start \in Nodes /\ flushed' = {} /\ flushing' = {}
      BY <2>1, NothingFlushedHere, SMTT(30) DEF Geometry, TypeOK, InBuffer, BatchPlaces, Nodes, Orders
    <2>3. /\ pc' \in {"flush", "chase", "store"}
          /\ pc' = "flush" => mode = "miss"
          /\ pc' = "store" => mode = "store"
          /\ mode = "miss" => pc' = "flush" /\ current' = random_order[start']
          /\ mode # "miss" => current' = start'
          /\ mode = "hit" => start' = start
      <3>1. CASE mode = "miss" BY <1>1, <3>1 DEF StartBatch
      <3>2. CASE mode = "store" BY <1>1, <3>2 DEF StartBatch
      <3>3. CASE mode \notin {"miss", "store"} BY <1>1, <3>3 DEF StartBatch
      <3> QED BY <3>1, <3>2, <3>3
    <2>4. start' \in Nodes
      <3>1. \A a \in Nat : a % node_count \in Nodes BY <2>2, InRange DEF Nodes
      <3>2. CASE mode = "miss"
        <4>1. warm \in Nat /\ round * iterations + i \in Nat BY DEF Geometry, TypeOK
        <4> QED BY <1>1, <3>1, <3>2, <4>1 DEF StartBatch
      <3>3. CASE mode = "stride" /\ ~Warming /\ i = 0
        <4>1. round \in Nat BY DEF Geometry, TypeOK
        <4> QED BY <1>1, <3>1, <3>3, <4>1 DEF StartBatch
      <3>4. CASE mode # "miss" /\ ~(mode = "stride" /\ ~Warming /\ i = 0)
        BY <1>1, <2>2, <3>4 DEF StartBatch
      <3> QED BY <3>2, <3>3, <3>4
    <2>5. current' \in Nodes
      <3>1. mode = "miss" => random_order \in [Nodes -> Nodes]
        BY <2>1 DEF Geometry, AtBatch, OnTheRing, BatchPlaces, Orders
      <3> QED BY <2>3, <2>4, <3>1
    <2>6. mode = "hit" => start' = 0 /\ current' = 0
      BY <2>1, <2>3 DEF Geometry, AtBatch, Rings, BatchPlaces
    <2>7. TypeOK'
      <3>1. pc' \in Places /\ start' \in Nat /\ current' \in Nat /\ step' \in Nat
        BY <2>1, <2>3, <2>4, <2>5 DEF Places, Nodes
      <3> QED BY <2>1, <2>2, <3>1 DEF Geometry, TypeOK
    <2>8. InBuffer'
      BY <2>1, <2>2, <2>3, <2>4, <2>5 DEF Geometry, InBuffer, BatchPlaces
    <2>9. FlushesMade'
      BY <2>1, <2>2, <2>3 DEF FlushesMade
    <2>10. AtBatch'
      BY <2>1, <2>2, <2>3, <2>6, <2>9
      DEF Geometry, AtBatch, OnTheRing, Rings, ExactlyTheNodesAhead, NothingStaysFlushed,
          BatchPlaces
    <2> QED BY <2>7, <2>8, <2>10 DEF Geometry
  <1>2. CASE EndBatch
    <2>1. /\ pc \in {"chase", "store"} /\ pc' = "batch"
          /\ pc = "chase" => step = Batch
          /\ UNCHANGED <<node_count, next, random_order, flushing, mode, args, strides,
                         current, step, calls>>
      BY <1>2 DEF EndBatch
    <2>2. /\ Nodes' = Nodes /\ Orders' = Orders /\ start \in Nodes /\ mode # "none"
          /\ next \in [Nodes -> Nodes]
          /\ warm \in Nat /\ round \in Nat /\ i \in Nat /\ samples \in Nat
      BY <2>1 DEF Geometry, TypeOK, InBuffer, BatchPlaces, Nodes, Orders
    <2>3. start' \in Nodes /\ (mode # "stride" => start' = start) BY <1>2, <2>2 DEF EndBatch
    <2>4. flushed = {} /\ flushing = {}
      <3>1. CASE mode = "miss" /\ pc = "chase"
        <4>1. Batch .. Batch - 1 = {} OBVIOUS
        <4> QED BY <2>1, <3>1, <4>1 DEF Geometry, AtBatch, OnTheRing, ExactlyTheNodesAhead, LinesAhead
      <3>2. CASE ~(mode = "miss" /\ pc = "chase") BY <2>1, <3>2, NothingFlushedHere
      <3> QED BY <3>1, <3>2
    <2>5. flushed' = {} /\ flushing' = {} BY <1>2, <2>1, <2>4 DEF EndBatch
    <2>6. warm' \in Nat /\ round' \in Nat /\ i' \in Nat /\ samples' \in Nat
      BY <1>2, <2>2 DEF EndBatch
    <2>7. TypeOK' BY <2>1, <2>2, <2>3, <2>5, <2>6 DEF Geometry, TypeOK, Places, Nodes
    <2>8. InBuffer' BY <2>1, <2>2, <2>3 DEF Geometry, InBuffer
    <2>9. AtBatch'
      BY <2>1, <2>2, <2>3, <2>5
      DEF Geometry, AtBatch, FlushesMade, OnTheRing, Rings, ExactlyTheNodesAhead,
          NothingStaysFlushed, BatchPlaces
    <2> QED BY <2>7, <2>8, <2>9 DEF Geometry
  <1>3. CASE EndLoops
    <2>1. /\ pc = "batch" /\ pc' \in {"stride", "idle"}
          /\ pc' = "stride" => mode = "stride"
          /\ UNCHANGED <<node_count, next, random_order, lines, mode, args, loops,
                         start, current, step, calls>>
      BY <1>3 DEF EndLoops
    <2>2. strides' \in Seq(Nat)
      <3>1. strides \in Seq(Nat) BY DEF Geometry, TypeOK
      <3>2. mode = "stride" => strides # <<>>
        BY <2>1 DEF Geometry, AtBatch, Rings, BatchPlaces
      <3> QED BY <1>3, <3>1, <3>2 DEF EndLoops
    <2>3. Nodes' = Nodes BY <2>1 DEF Nodes
    <2>4. flushed' = {} /\ flushing' = {} BY <2>1, NothingFlushedHere
    <2>5. TypeOK' BY <2>1, <2>2, <2>3, <2>4 DEF Geometry, TypeOK, Places
    <2>6. InBuffer' BY <2>1 DEF Geometry, InBuffer, BatchPlaces
    <2>7. AtBatch'
      BY <2>1, <2>4 DEF AtBatch, FlushesMade, OnTheRing, Rings, ExactlyTheNodesAhead,
                        NothingStaysFlushed, BatchPlaces
    <2> QED BY <2>5, <2>6, <2>7 DEF Geometry
  <1> QED BY <1>1, <1>2, <1>3

-------------------------------------------------------------------------------
(* The theorems.                                                           *)

\* No step breaks the geometry of links and flushed lines.
LEMMA NextGeometry == ASSUME Geometry, [Next]_vars PROVE Geometry'
  <1>1. CASE Construct \/ RejectArgs \/ StridesDone \/ Destroy \/ Gone \/ UNCHANGED vars
    BY <1>1, OutsideGeometry DEF Gone
  <1>2. CASE BeginHit \/ BeginMiss \/ BeginStore \/ BeginStrides BY <1>2, BeginGeometry
  <1>3. CASE BuildStrideRing BY <1>3, StrideGeometry
  <1>4. CASE FlushLine \/ FlushFence
    <2>1. mode = "miss" BY <1>4 DEF FlushLine, FlushFence, Geometry, InBuffer
    <2> QED BY <1>4, <2>1, MissGeometry
  <1>5. CASE Load \/ Store
    <2>1. CASE mode = "miss"
      <3>1. ~Store BY <2>1 DEF Store, Geometry, InBuffer
      <3> QED BY <1>5, <2>1, <3>1, MissGeometry
    <2>2. CASE mode # "miss" BY <1>5, <2>2, OtherGeometry
    <2> QED BY <2>1, <2>2
  <1>6. CASE StartBatch \/ EndBatch \/ EndLoops BY <1>6, LoopGeometry
  <1> QED BY <1>1, <1>2, <1>3, <1>4, <1>5, <1>6 DEF Next, Running

\* The links and the flushed lines agree with the benchmark that is running.
THEOREM GeometryInvariant == Spec => []Geometry
  <1>1. Init => Geometry BY InitInv DEF Inv
  <1>2. Geometry /\ [Next]_vars => Geometry' BY NextGeometry
  <1> QED BY <1>1, <1>2, PTL DEF Spec

\* Every variable keeps its type: links stay inside the buffer.
THEOREM TypeCorrect == Spec => []TypeOK
  <1>1. Geometry => TypeOK BY DEF Geometry
  <1> QED BY <1>1, GeometryInvariant, PTL

\* Before every timed load of a forced miss its line is flushed, and no line besides
\* those the batch still has to load.
THEOREM ForcedMissesMiss == Spec => []ExactlyTheNodesAhead
  <1>1. Geometry => ExactlyTheNodesAhead BY DEF Geometry, AtBatch
  <1> QED BY <1>1, GeometryInvariant, PTL

\* No flushed line outlives the batch it was flushed for.
THEOREM HotLinesAreHot == Spec => []NothingStaysFlushed
  <1>1. Geometry => NothingStaysFlushed BY DEF Geometry, AtBatch
  <1> QED BY <1>1, GeometryInvariant, PTL

\* Hit batches stay on their line and stride batches move by the stride of their
\* label, whichever benchmarks ran before.
THEOREM LinksFollowed == Spec => []LinksAsIntended
  <1>1. ASSUME Geometry PROVE LinksAsIntended
    <2>1. mode = "hit" /\ pc = "chase" => current = 0 BY <1>1 DEF Geometry, AtBatch, Rings
    <2>2. ASSUME mode = "stride", pc = "chase"
          PROVE  next[current] = (current + MeasuredStride(Head(strides)) \div LineSize) % node_count
      <3> DEFINE s == MeasuredStride(Head(strides))
      <3>1. strides \in Seq(Nat) /\ strides # <<>> /\ current \in Nodes
        BY <1>1, <2>2 DEF Geometry, TypeOK, InBuffer, AtBatch, Rings, BatchPlaces
      <3>2. s \in Nat /\ LineSize <= s
        <4>1. Head(strides) \in Nat BY <3>1
        <4>2. Head(strides) \div LineSize \in Nat BY <4>1, Sizes
        <4>3. (Head(strides) \div LineSize) * LineSize \in Nat BY <4>2, Sizes
        <4> QED BY <4>3, Sizes DEF MeasuredStride, Larger
      <3> HIDE DEF s
      <3>3. s \div LineSize \in Nat /\ s \div LineSize >= 1
        <4>1. LineSize * 1 <= s BY <3>2, Sizes
        <4> QED BY <3>2, <4>1, Sizes, Quotient
      <3>4. StrideLines(s) = s \div LineSize BY <3>3 DEF StrideLines, Larger
      <3>5. next = [k \in Nodes |-> (k + StrideLines(s)) % node_count]
        BY <1>1, <2>2 DEF Geometry, AtBatch, Rings, BatchPlaces, s
      <3> QED BY <3>1, <3>4, <3>5 DEF s
    <2> QED BY <2>1, <2>2 DEF LinksAsIntended
  <1> QED BY <1>1, GeometryInvariant, PTL

\* The loops: the counters a batch leaves are those of the next one.
LEMMA NextLoops == ASSUME TypeOK, LoopsAgree, [Next]_vars PROVE LoopsAgree'
  <1> USE DEF args, loops
  <1>1. CASE pc' \notin BatchPlaces \union {"stride"} BY <1>1 DEF LoopsAgree, BatchPlaces
  <1>2. CASE BeginHit \/ BeginMiss \/ BeginStore \/ BeginStrides
    <2>1. \E m, list : Begin(m, list)
      BY <1>2 DEF BeginHit, BeginMiss, BeginStore, BeginStrides
    <2>2. /\ iterations' > 0 /\ rounds' \in Nat /\ warmup' \in Nat /\ iterations' \in Nat
          /\ warm' = 0 /\ round' = 0 /\ i' = 0 /\ samples' = 0
      BY <2>1, BeginFrame DEF BegunWith
    <2>3. pc' \in {"batch", "stride"}
      BY <1>2 DEF BeginHit, BeginMiss, BeginStore, BeginStrides
    <2>4. iterations' \in Nat BY <2>2
    <2>5. samples' = round' * iterations' + i'
      <3>1. round' = 0 /\ i' = 0 /\ samples' = 0 BY <2>2
      <3>2. \A n \in Nat : 0 * n = 0 OBVIOUS
      <3>3. 0 * iterations' = 0 BY <2>4, <3>2
      <3> QED BY <3>1, <3>3
    <2>6. /\ round' < rounds' \/ (round' = rounds' /\ i' = 0)
          /\ warm' <= warmup' /\ i' < iterations'
      BY <2>2
    <2>7. pc' \notin {"flush", "chase", "store"} BY <2>3
    <2>8. iterations' > 0 BY <2>2
    <2> QED BY <2>5, <2>6, <2>7, <2>8 DEF LoopsAgree
  <1>3. CASE BuildStrideRing
    <2>1. /\ pc = "stride" /\ pc' = "batch" /\ UNCHANGED args
          /\ warm' = 0 /\ round' = 0 /\ i' = 0 /\ samples' = 0
      BY <1>3 DEF BuildStrideRing
    <2>2. iterations > 0 BY <2>1 DEF LoopsAgree
    <2>3. iterations \in Nat /\ warmup \in Nat /\ rounds \in Nat BY DEF TypeOK
    <2>4. 0 * iterations = 0 BY <2>3
    <2>5. samples' = round' * iterations' + i' BY <2>1, <2>4
    <2>6. 0 < rounds \/ 0 = rounds BY <2>3
    <2> QED BY <2>1, <2>2, <2>3, <2>5, <2>6 DEF LoopsAgree
  <1>4. CASE StartBatch \/ FlushLine \/ FlushFence \/ Load \/ Store
    <2>1. /\ UNCHANGED <<args, loops>> /\ pc \in BatchPlaces /\ pc' \in {"flush", "chase", "store"}
          /\ pc = "batch" => BatchesLeft
      BY <1>4 DEF StartBatch, FlushLine, FlushFence, Load, Store, BatchPlaces
    <2> QED BY <2>1 DEF LoopsAgree, BatchesLeft, Warming, BatchPlaces
  <1>5. CASE EndBatch
    <2>1. pc \in {"chase", "store"} /\ pc' = "batch" /\ UNCHANGED args BY <1>5 DEF EndBatch
    <2>2. /\ iterations > 0 /\ samples = round * iterations + i /\ i < iterations
          /\ warm <= warmup /\ BatchesLeft /\ (round < rounds \/ (round = rounds /\ i = 0))
      BY <2>1 DEF LoopsAgree, BatchPlaces
    <2>3. CASE Warming
      <3>1. warm' = warm + 1 /\ UNCHANGED <<round, i, samples>> BY <1>5, <2>3 DEF EndBatch
      <3> QED BY <2>1, <2>2, <2>3, <3>1 DEF Warming, TypeOK, LoopsAgree
    <2>4. CASE ~Warming
      <3>1. samples' = samples + 1 /\ warm' = warm BY <1>5, <2>4 DEF EndBatch
      <3>2. round < rounds BY <2>2, <2>4 DEF BatchesLeft
      <3>3. CASE i + 1 < iterations
        <4>1. i' = i + 1 /\ round' = round BY <1>5, <2>4, <3>3 DEF EndBatch
        <4> QED BY <2>1, <2>2, <3>1, <3>2, <3>3, <4>1 DEF TypeOK, LoopsAgree
      <3>4. CASE i + 1 >= iterations
        <4>1. i' = 0 /\ round' = round + 1 BY <1>5, <2>4, <3>4 DEF EndBatch, TypeOK
        <4>2. (round + 1) * iterations = round * iterations + iterations BY DEF TypeOK
        <4>3. i + 1 = iterations BY <2>2, <3>4 DEF TypeOK
        <4>4. samples' = round' * iterations' + i'
          BY <2>1, <2>2, <3>1, <4>1, <4>2, <4>3 DEF TypeOK
        <4>5. round' < rounds' \/ (round' = rounds' /\ i' = 0)
          BY <2>1, <3>2, <4>1 DEF TypeOK
        <4> QED BY <2>1, <2>2, <3>1, <4>1, <4>4, <4>5 DEF LoopsAgree
      <3> QED BY <3>3, <3>4 DEF TypeOK
    <2> QED BY <2>3, <2>4
  <1>6. CASE EndLoops
    <2>1. pc = "batch" /\ pc' \in {"stride", "idle"} /\ UNCHANGED <<args, loops>>
      BY <1>6 DEF EndLoops
    <2> QED BY <2>1 DEF LoopsAgree, BatchPlaces
  <1>7. CASE RejectArgs \/ Gone \/ UNCHANGED vars
    BY <1>7 DEF RejectArgs, Gone, vars, LoopsAgree, BatchesLeft, Warming
  <1>8. CASE Construct \/ StridesDone \/ Destroy
    BY <1>1, <1>8 DEF Construct, StridesDone, Destroy, BatchPlaces
  <1> QED BY <1>2, <1>3, <1>4, <1>5, <1>6, <1>7, <1>8 DEF Next, Running

\* A benchmark that has made all its batches has one sample for every iteration of
\* every round, for every number of them.
THEOREM SamplesComplete == Spec => []AllSamples
  <1>1. Init => LoopsAgree BY InitInv DEF Inv
  <1>2. TypeOK /\ LoopsAgree /\ [Next]_vars => LoopsAgree' BY NextLoops
  <1>3. TypeOK /\ LoopsAgree => AllSamples
    <2> SUFFICES ASSUME TypeOK, LoopsAgree, pc = "batch", ~BatchesLeft
                 PROVE  samples = rounds * iterations /\ warm = warmup
      BY DEF AllSamples
    <2>1. round = rounds /\ i = 0 /\ warm = warmup
      BY DEF TypeOK, LoopsAgree, BatchesLeft, Warming, BatchPlaces
    <2>2. samples = round * iterations + i BY DEF LoopsAgree, BatchPlaces
    <2> QED BY <2>1, <2>2 DEF TypeOK
  <1> QED BY <1>1, <1>2, <1>3, TypeCorrect, PTL DEF Spec

-------------------------------------------------------------------------------
(* Every step of a benchmark leaves less of it to do.                      *)

\* Where the benchmark is, and where it is within a batch.
CallLeft == CASE pc = "stride" -> 2 [] pc \in BatchPlaces -> 1 [] OTHER -> 0
BatchLeft ==
  CASE pc = "batch" -> 3 [] pc = "flush" -> 2 [] pc \in {"chase", "store"} -> 1 [] OTHER -> 0

\* A stride of the list is done, or a ring is built and its batches are made; of those it
\* is one less of the warm-up, of the rounds or of the round's iterations; or the batch is
\* a flush, a load or a store further.  No counter runs past its end.
Nearer ==
  \/ Len(strides') < Len(strides)
  \/ strides' = strides /\ CallLeft' < CallLeft
  \/ /\ UNCHANGED <<strides, args>> /\ CallLeft' = CallLeft
     /\ \/ warm < warm' /\ warm' <= warmup
        \/ warm' = warm /\ round < round' /\ round' <= rounds
        \/ UNCHANGED <<warm, round>> /\ i < i' /\ i' < iterations
        \/ /\ UNCHANGED <<warm, round, i>>
           /\ \/ BatchLeft' < BatchLeft
              \/ BatchLeft' = BatchLeft /\ step < step' /\ step' <= Larger(Batch, StoreBatch)
StepsRunOut == [][Running => Nearer]_vars

LEMMA StrideNearer ==
  ASSUME TypeOK, Rings, BuildStrideRing \/ StridesDone \/ EndLoops
  PROVE  Nearer
  <1>1. CASE BuildStrideRing \/ StridesDone
    <2>1. pc = "stride" /\ pc' \in {"batch", "idle"} /\ strides' = strides
      BY <1>1 DEF BuildStrideRing, StridesDone
    <2> QED BY <2>1 DEF CallLeft, BatchPlaces, Nearer
  <1>2. CASE EndLoops /\ mode = "stride"
    <2>1. strides # <<>> /\ strides' = Tail(strides)
      BY <1>2 DEF EndLoops, Rings, BatchPlaces
    <2>2. Len(strides') < Len(strides)
      BY <2>1 DEF TypeOK
    <2> QED BY <2>2 DEF Nearer
  <1>3. CASE EndLoops /\ mode # "stride"
    <2>1. pc = "batch" /\ pc' = "idle" /\ strides' = strides
      BY <1>3 DEF EndLoops
    <2> QED BY <2>1 DEF CallLeft, BatchPlaces, Nearer
  <1> QED BY <1>1, <1>2, <1>3

LEMMA BatchNearer ==
  ASSUME TypeOK, StartBatch \/ FlushLine \/ FlushFence \/ Load \/ Store
  PROVE  Nearer
  <1>1. UNCHANGED <<strides, args, warm, round, i>>
    BY DEF StartBatch, FlushLine, FlushFence, Load, Store, loops
  <1>2. CASE StartBatch \/ FlushFence
    <2>1. \/ pc = "batch" /\ pc' \in {"flush", "chase", "store"}
          \/ pc = "flush" /\ pc' = "chase"
      BY <1>2, Zenon DEF StartBatch, FlushFence
    <2>2. CallLeft' = CallLeft /\ BatchLeft' < BatchLeft
      BY <2>1 DEF CallLeft, BatchLeft, BatchPlaces
    <2> QED BY <1>1, <2>2 DEF Nearer
  <1>3. CASE FlushLine \/ Load \/ Store
    <2>1. pc' = pc /\ step' = step + 1 /\ (step < Batch \/ step < StoreBatch)
      BY <1>3 DEF FlushLine, Load, Store
    <2>2. CallLeft' = CallLeft /\ BatchLeft' = BatchLeft
      BY <2>1 DEF CallLeft, BatchLeft
    <2>3. step \in Nat /\ Batch \in Nat /\ StoreBatch \in Nat
      BY Sizes DEF TypeOK
    <2>4. step < step' /\ step' <= Larger(Batch, StoreBatch)
      BY <2>1, <2>3 DEF Larger
    <2> QED BY <1>1, <2>2, <2>4 DEF Nearer
  <1> QED BY <1>2, <1>3

LEMMA LoopNearer ==
  ASSUME TypeOK, LoopsAgree, EndBatch
  PROVE  Nearer
  <1>1. /\ pc \in {"chase", "store"} /\ pc' = "batch" /\ UNCHANGED <<strides, args>>
        /\ BatchesLeft /\ (round < rounds \/ (round = rounds /\ i = 0))
    BY DEF EndBatch, LoopsAgree, BatchPlaces
  <1>2. CallLeft' = CallLeft
    BY <1>1 DEF CallLeft, BatchPlaces
  <1>3. /\ warm \in Nat /\ warmup \in Nat /\ round \in Nat /\ rounds \in Nat /\ i \in Nat
        /\ iterations \in Nat
    BY DEF TypeOK
  <1>4. CASE Warming
    <2>1. warm' = warm + 1 /\ warm < warmup
      BY <1>4 DEF EndBatch, Warming
    <2>2. warm < warm' /\ warm' <= warmup
      BY <1>3, <2>1
    <2> QED BY <1>1, <1>2, <2>2 DEF Nearer
  <1>5. CASE ~Warming
    <2>1. round < rounds
      BY <1>1, <1>5 DEF BatchesLeft
    <2>2. \/ warm' = warm /\ round' = round /\ i' = i + 1 /\ i + 1 < iterations
          \/ warm' = warm /\ round' = round + 1
      BY <1>5 DEF EndBatch
    <2>3. \/ UNCHANGED <<warm, round>> /\ i < i' /\ i' < iterations
          \/ warm' = warm /\ round < round' /\ round' <= rounds
      BY <1>3, <2>1, <2>2
    <2> QED BY <1>1, <1>2, <2>3 DEF Nearer
  <1> QED BY <1>4, <1>5

\* For every buffer, list of strides and count: a benchmark that was called has, after each
\* of its steps, less to do, whatever ran before it.  None goes on for ever.
THEOREM StepsDecrease == Spec => StepsRunOut
  <1>1. Init => LoopsAgree BY InitInv DEF Inv
  <1>2. Geometry /\ LoopsAgree /\ [Next]_vars => LoopsAgree' BY NextLoops DEF Geometry
  <1>3. Geometry /\ LoopsAgree => [Running => Nearer]_vars
    <2> SUFFICES ASSUME Geometry, LoopsAgree, Running PROVE Nearer
      OBVIOUS
    <2>1. TypeOK /\ Rings
      BY DEF Geometry, AtBatch
    <2> QED BY <2>1, StrideNearer, BatchNearer, LoopNearer DEF Running
  <1> QED BY <1>1, <1>2, <1>3, GeometryInvariant, PTL DEF Spec, StepsRunOut
===============================================================================
