--------------------------- MODULE KmallocProofs ----------------------------
(***************************************************************************)
(* Proofs about module Kmalloc, for every heap, header size and set of     *)
(* request sizes.  HeapInv is inductive together with TypeOK; NoOverlap    *)
(* and the implementation of HeapSpec follow from it, and RecyclingBound   *)
(* is inductive relative to it.                                            *)
(***************************************************************************)
EXTENDS Kmalloc, FiniteSetTheorems, TLAPS

(* (size + 7) & ~7 is the next multiple of 8. *)
LEMMA Align8Lemma ==
  ASSUME NEW size \in Nat
  PROVE  /\ Align8(size) \in Nat
         /\ Align8(size) >= size
  BY DEF Align8

(* The variables have their types: see TypeOK. *)
LEMMA TypeInit == Init => TypeOK
  BY HeapAssumption, FS_EmptySet DEF Init, TypeOK

LEMMA HoldType ==
  ASSUME TypeOK, NEW ptr \in Nat, NEW len \in Sizes, Hold(ptr, len)
  PROVE  /\ live' \subseteq [ptr : Nat, len : Sizes]
         /\ IsFiniteSet(live')
         /\ peak' \in Nat
         /\ Cardinality(live') <= peak'
         /\ peak <= peak'
  <1>1. live' = live \cup {[ptr |-> ptr, len |-> len]}
    BY DEF Hold
  <1>2. IsFiniteSet(live')
    BY <1>1, FS_AddElement DEF TypeOK
  <1>3. Cardinality(live') \in Nat
    BY <1>2, FS_CardinalityType
  <1> QED
    BY <1>1, <1>2, <1>3 DEF Hold, TypeOK

(* What each operation does to the list, header by header. *)
SameBlocks ==
  /\ free_list' \in Seq(Headers)
  /\ Len(free_list') = Len(free_list)
  /\ \A j \in 1 .. Len(free_list) :
       /\ free_list'[j].addr = free_list[j].addr
       /\ free_list'[j].size = free_list[j].size

LEMMA ReuseEffect ==
  ASSUME TypeOK, NEW len \in Sizes, KmallocReuse(len)
  PROVE  /\ SameBlocks
         /\ heap_ptr' = heap_ptr
         /\ \E i \in 1 .. Len(free_list) :
              /\ free_list[i].is_free
              /\ free_list[i].size >= Align8(len)
              /\ \A j \in 1 .. Len(free_list) :
                   free_list'[j].is_free = IF j = i THEN FALSE ELSE free_list[j].is_free
              /\ DataOf(free_list[i]) \in Nat
              /\ Hold(DataOf(free_list[i]), len)
  <1>1. PICK i \in FittingBlocks(Align8(len)) :
          /\ free_list' = [free_list EXCEPT ![i].is_free = FALSE]
          /\ Hold(DataOf(free_list[i]), len)
          /\ UNCHANGED heap_ptr
    BY DEF KmallocReuse
  <1>2. /\ i \in 1 .. Len(free_list)
        /\ free_list[i].is_free
        /\ free_list[i].size >= Align8(len)
    BY <1>1 DEF FittingBlocks, Fits
  <1>3. free_list \in Seq(Headers) /\ free_list[i] \in Headers
    BY <1>2 DEF TypeOK
  <1>4. DataOf(free_list[i]) \in Nat
    BY <1>3, HeapAssumption DEF DataOf, Headers
  <1>5. /\ SameBlocks
        /\ \A j \in 1 .. Len(free_list) :
             free_list'[j].is_free = IF j = i THEN FALSE ELSE free_list[j].is_free
    <2> DEFINE h == [free_list[i] EXCEPT !.is_free = FALSE]
    <2>1. free_list' = [free_list EXCEPT ![i] = h]
      BY <1>1
    <2>2. /\ h \in Headers
          /\ h.addr = free_list[i].addr
          /\ h.size = free_list[i].size
          /\ h.is_free = FALSE
      BY <1>3 DEF Headers
    <2> HIDE DEF h
    <2>3. /\ free_list' \in Seq(Headers)
          /\ Len(free_list') = Len(free_list)
          /\ \A j \in 1 .. Len(free_list) : free_list'[j] = IF j = i THEN h ELSE free_list[j]
      BY <1>2, <1>3, <2>1, <2>2
    <2> QED
      BY <2>2, <2>3 DEF SameBlocks
  <1> QED
    BY <1>1, <1>2, <1>4, <1>5

LEMMA BumpEffect ==
  ASSUME TypeOK, NEW len \in Sizes, KmallocBump(len)
  PROVE  /\ free_list' \in Seq(Headers)
         /\ Len(free_list') = Len(free_list) + 1
         /\ free_list'[1] = NewHeader(Align8(len))
         /\ \A j \in 1 .. Len(free_list) : free_list'[j + 1] = free_list[j]
         /\ \A j \in 2 .. Len(free_list') : free_list'[j] = free_list[j - 1]
         /\ heap_ptr' = heap_ptr + HEADER + Align8(len)
         /\ heap_ptr' <= HEAP_END
         /\ Hold(heap_ptr + HEADER, len)
         /\ \A j \in 1 .. Len(free_list) :
              free_list[j].is_free => free_list[j].size < Align8(len)
  <1>1. Align8(len) \in Nat
    BY Align8Lemma, HeapAssumption
  <1>2. NewHeader(Align8(len)) \in Headers
    BY <1>1 DEF NewHeader, Headers, TypeOK
  <1>3. free_list' = <<NewHeader(Align8(len))>> \o free_list
    BY DEF KmallocBump
  <1>4. free_list \in Seq(Headers)
    BY DEF TypeOK
  <1>5. /\ free_list' \in Seq(Headers)
        /\ Len(free_list') = Len(free_list) + 1
        /\ free_list'[1] = NewHeader(Align8(len))
        /\ \A j \in 1 .. Len(free_list) : free_list'[j + 1] = free_list[j]
        /\ \A j \in 2 .. Len(free_list') : free_list'[j] = free_list[j - 1]
    BY <1>2, <1>3, <1>4
  <1>6. heap_ptr' = heap_ptr + HEADER + Align8(len) /\ heap_ptr' <= HEAP_END
    BY DEF KmallocBump, Room
  <1>7. Hold(heap_ptr + HEADER, len)
    BY DEF KmallocBump, DataOf, NewHeader
  <1>8. \A j \in 1 .. Len(free_list) :
          free_list[j].is_free => free_list[j].size < Align8(len)
    <2> SUFFICES ASSUME NEW j \in 1 .. Len(free_list), free_list[j].is_free
                 PROVE  free_list[j].size < Align8(len)
      OBVIOUS
    <2>1. ~(free_list[j].size >= Align8(len))
      BY DEF KmallocBump, FittingBlocks, Fits
    <2>2. free_list[j] \in Headers
      BY <1>4
    <2>3. free_list[j].size \in Nat
      BY <2>2 DEF Headers
    <2> QED
      BY <1>1, <2>1, <2>3
  <1> QED
    BY <1>5, <1>6, <1>7, <1>8

LEMMA FreeEffect ==
  ASSUME TypeOK, NEW r \in live, Kfree(r)
  PROVE  /\ SameBlocks
         /\ heap_ptr' = heap_ptr
         /\ peak' = peak
         /\ live' = live \ {r}
         /\ \E i \in 1 .. Len(free_list) :
              /\ DataOf(free_list[i]) = r.ptr
              /\ \A j \in 1 .. Len(free_list) :
                   free_list'[j].is_free = IF j = i THEN TRUE ELSE free_list[j].is_free
  <1>1. PICK i \in 1 .. Len(free_list) :
          /\ DataOf(free_list[i]) = r.ptr
          /\ free_list' = [free_list EXCEPT ![i].is_free = TRUE]
    BY DEF Kfree
  <1>2. i \in 1 .. Len(free_list)
    OBVIOUS
  <1>3. free_list \in Seq(Headers) /\ free_list[i] \in Headers
    BY DEF TypeOK
  <1>5. /\ SameBlocks
        /\ \A j \in 1 .. Len(free_list) :
             free_list'[j].is_free = IF j = i THEN TRUE ELSE free_list[j].is_free
    <2> DEFINE h == [free_list[i] EXCEPT !.is_free = TRUE]
    <2>1. free_list' = [free_list EXCEPT ![i] = h]
      BY <1>1
    <2>2. /\ h \in Headers
          /\ h.addr = free_list[i].addr
          /\ h.size = free_list[i].size
          /\ h.is_free = TRUE
      BY <1>3 DEF Headers
    <2> HIDE DEF h
    <2>3. /\ free_list' \in Seq(Headers)
          /\ Len(free_list') = Len(free_list)
          /\ \A j \in 1 .. Len(free_list) : free_list'[j] = IF j = i THEN h ELSE free_list[j]
      BY <1>2, <1>3, <2>1, <2>2
    <2> QED
      BY <2>2, <2>3 DEF SameBlocks
  <1> QED
    BY <1>1, <1>5 DEF Kfree

LEMMA TypeNext == TypeOK /\ [Next]_vars => TypeOK'
  <1> SUFFICES ASSUME TypeOK, [Next]_vars PROVE TypeOK'
    OBVIOUS
  <1> USE HeapAssumption
  <1>1. ASSUME NEW len \in Sizes, KmallocReuse(len) PROVE TypeOK'
    BY <1>1, ReuseEffect, HoldType DEF TypeOK, SameBlocks
  <1>2. ASSUME NEW len \in Sizes, KmallocBump(len) PROVE TypeOK'
    <2>1. /\ Hold(heap_ptr + HEADER, len)
          /\ free_list' \in Seq(Headers)
          /\ heap_ptr' = heap_ptr + HEADER + Align8(len)
      BY <1>2, BumpEffect
    <2>a. Align8(len) \in Nat
      BY Align8Lemma
    <2>b. heap_ptr \in Nat
      BY DEF TypeOK
    <2>2. heap_ptr + HEADER \in Nat /\ heap_ptr' \in Nat
      BY <2>1, <2>a, <2>b
    <2> QED
      BY <2>1, <2>2, HoldType DEF TypeOK
  <1>3. ASSUME NEW len \in Sizes, KmallocExhausted(len) PROVE TypeOK'
    BY <1>3 DEF KmallocExhausted, TypeOK, vars
  <1>4. ASSUME NEW r \in live, Kfree(r) PROVE TypeOK'
    <2>1. IsFiniteSet(live')
      BY <1>4, FS_RemoveElement DEF TypeOK, Kfree
    <2> QED
      BY <1>4, <2>1, FreeEffect DEF TypeOK, SameBlocks
  <1>5. CASE UNCHANGED vars
    BY <1>5 DEF vars, TypeOK
  <1> QED
    BY <1>1, <1>2, <1>3, <1>4, <1>5 DEF Next

(* The heap's variables always have their types. *)
THEOREM TypeCorrect == Spec => []TypeOK
  BY TypeInit, TypeNext, PTL DEF Spec

-----------------------------------------------------------------------------
(* Blocks come in address order, so the later of two list places is lower. *)
LEMMA BlockOrder ==
  ASSUME HeapInv, NEW i \in 1 .. Len(free_list), NEW j \in 1 .. Len(free_list), i < j
  PROVE  free_list[j].addr + HEADER + free_list[j].size <= free_list[i].addr
  <1>1. \A k, l \in 1 .. Len(free_list) :
          k < l => free_list[l].addr + HEADER + free_list[l].size <= free_list[k].addr
    BY DEF HeapInv, BlocksTile
  <1> QED
    BY <1>1

LEMMA HeapInvInit == Init => HeapInv
  BY HeapAssumption DEF Init, HeapInv, BlocksTile, LiveOwnBlocks, UsedBlocksLive, HEAP_END

(* Different places of the list are different blocks. *)
LEMMA AddrInjective ==
  ASSUME TypeOK, HeapInv,
         NEW i \in 1 .. Len(free_list), NEW j \in 1 .. Len(free_list), i # j
  PROVE  free_list[i].addr # free_list[j].addr
  <1>1. free_list[i] \in Headers /\ free_list[j] \in Headers
    BY DEF TypeOK
  <1>2. /\ free_list[i].addr \in Nat /\ free_list[i].size \in Nat
        /\ free_list[j].addr \in Nat /\ free_list[j].size \in Nat
    BY <1>1 DEF Headers
  <1>3. HEADER \in Nat \ {0}
    BY HeapAssumption
  <1>4. CASE i < j
    <2>1. free_list[j].addr + HEADER + free_list[j].size <= free_list[i].addr
      BY <1>4, BlockOrder
    <2> QED
      BY <1>2, <1>3, <2>1
  <1>5. CASE j < i
    <2>1. free_list[i].addr + HEADER + free_list[i].size <= free_list[j].addr
      BY <1>5, BlockOrder
    <2> QED
      BY <1>2, <1>3, <2>1
  <1> QED
    BY <1>4, <1>5

(* A free block is held by nobody: blocks in use are elsewhere. *)
LEMMA FreeBlockNotLive ==
  ASSUME TypeOK, HeapInv, NEW i \in 1 .. Len(free_list), free_list[i].is_free
  PROVE  \A r \in live : r.ptr # DataOf(free_list[i])
  <1> SUFFICES ASSUME NEW r \in live, r.ptr = DataOf(free_list[i]) PROVE FALSE
    OBVIOUS
  <1>1. PICK k \in 1 .. Len(free_list) :
          r.ptr = DataOf(free_list[k]) /\ ~free_list[k].is_free
    BY DEF HeapInv, LiveOwnBlocks
  <1>2. k # i
    BY <1>1
  <1>3. free_list[i].addr # free_list[k].addr
    BY <1>2, AddrInjective
  <1>4. free_list[i] \in Headers /\ free_list[k] \in Headers
    BY DEF TypeOK
  <1>5. free_list[i].addr \in Nat /\ free_list[k].addr \in Nat
    BY <1>4 DEF Headers
  <1> QED
    BY <1>1, <1>3, <1>5, HeapAssumption DEF DataOf

(* Nobody holds anything above heap_ptr. *)
LEMMA TopNotLive ==
  ASSUME TypeOK, HeapInv
  PROVE  \A r \in live : r.ptr # heap_ptr + HEADER
  <1> SUFFICES ASSUME NEW r \in live PROVE r.ptr # heap_ptr + HEADER
    OBVIOUS
  <1>1. PICK k \in 1 .. Len(free_list) : r.ptr = DataOf(free_list[k])
    BY DEF HeapInv, LiveOwnBlocks
  <1>2. free_list[k] \in Headers
    BY DEF TypeOK
  <1>3. free_list[k].addr + HEADER + free_list[k].size <= heap_ptr
    BY DEF HeapInv, BlocksTile
  <1> QED
    BY <1>1, <1>2, <1>3, HeapAssumption DEF DataOf, Headers, TypeOK

LEMMA ReuseKeepsHeapInv ==
  ASSUME TypeOK, TypeOK', HeapInv, NEW len \in Sizes, KmallocReuse(len)
  PROVE  HeapInv'
  <1> USE HeapAssumption
  <1>1. PICK i \in 1 .. Len(free_list) :
          /\ free_list[i].is_free
          /\ free_list[i].size >= Align8(len)
          /\ \A j \in 1 .. Len(free_list) :
               free_list'[j].is_free = IF j = i THEN FALSE ELSE free_list[j].is_free
          /\ Hold(DataOf(free_list[i]), len)
    BY ReuseEffect
  <1>2. /\ heap_ptr' = heap_ptr
        /\ Len(free_list') = Len(free_list)
        /\ \A j \in 1 .. Len(free_list) :
             /\ free_list'[j].addr = free_list[j].addr
             /\ free_list'[j].size = free_list[j].size
    BY ReuseEffect DEF SameBlocks
  <1>3. \A j \in 1 .. Len(free_list) : free_list[j] \in Headers
    BY DEF TypeOK
  <1>4. live' = live \cup {[ptr |-> DataOf(free_list[i]), len |-> len]}
    BY <1>1 DEF Hold
  <1>5. BlocksTile'
    BY <1>2 DEF HeapInv, BlocksTile
  <1>6. \A r \in live : r.ptr # DataOf(free_list[i])
    BY <1>1, FreeBlockNotLive
  <1>7. Align8(len) \in Nat /\ Align8(len) >= len /\ len \in Nat
    BY Align8Lemma
  <1>8. LiveOwnBlocks'
    <2>1. ASSUME NEW r \in live'
          PROVE  \E k \in 1 .. Len(free_list') :
                   /\ r.ptr = DataOf(free_list'[k])
                   /\ r.len <= free_list'[k].size
                   /\ ~free_list'[k].is_free
      <3>1. CASE r \in live
        <4>1. PICK k \in 1 .. Len(free_list) :
                /\ r.ptr = DataOf(free_list[k])
                /\ r.len <= free_list[k].size
                /\ ~free_list[k].is_free
          BY <3>1 DEF HeapInv, LiveOwnBlocks
        <4> QED
          BY <4>1, <1>1, <1>2 DEF DataOf
      <3>2. CASE r = [ptr |-> DataOf(free_list[i]), len |-> len]
        <4>1. free_list[i].size \in Nat /\ len <= free_list[i].size
          BY <1>1, <1>3, <1>7 DEF Headers
        <4>2. /\ i \in 1 .. Len(free_list')
              /\ ~free_list'[i].is_free
              /\ free_list'[i].size = free_list[i].size
              /\ free_list'[i].addr = free_list[i].addr
          BY <1>1, <1>2
        <4> QED
          BY <3>2, <4>1, <4>2 DEF DataOf
      <3> QED
        BY <3>1, <3>2, <1>4
    <2>2. \A r, s \in live' : r.ptr = s.ptr => r = s
      BY <1>4, <1>6 DEF HeapInv, LiveOwnBlocks
    <2> QED
      BY <2>1, <2>2 DEF LiveOwnBlocks, DataOf
  <1>9. UsedBlocksLive'
    <2> SUFFICES ASSUME NEW j \in 1 .. Len(free_list), ~free_list'[j].is_free
                 PROVE  \E r \in live' : r.ptr = DataOf(free_list[j])
      BY <1>2 DEF UsedBlocksLive, DataOf
    <2>1. CASE j = i
      <3>1. [ptr |-> DataOf(free_list[i]), len |-> len] \in live'
        BY <1>4
      <3> QED
        BY <2>1, <3>1
    <2>2. CASE j # i
      <3>1. ~free_list[j].is_free
        BY <2>2, <1>1
      <3> QED
        BY <3>1, <1>4 DEF HeapInv, UsedBlocksLive
    <2> QED
      BY <2>1, <2>2
  <1> QED
    BY <1>5, <1>8, <1>9 DEF HeapInv

LEMMA BumpKeepsHeapInv ==
  ASSUME TypeOK, TypeOK', HeapInv, NEW len \in Sizes, KmallocBump(len)
  PROVE  HeapInv'
  <1> USE HeapAssumption
  <1> DEFINE size == Align8(len)
  <1>1. /\ Len(free_list') = Len(free_list) + 1
        /\ free_list'[1] = NewHeader(size)
        /\ \A j \in 1 .. Len(free_list) : free_list'[j + 1] = free_list[j]
        /\ \A j \in 2 .. Len(free_list') : free_list'[j] = free_list[j - 1]
        /\ heap_ptr' = heap_ptr + HEADER + size
        /\ heap_ptr' <= HEAP_END
        /\ Hold(heap_ptr + HEADER, len)
    BY BumpEffect
  <1>2. size \in Nat /\ size >= len /\ len \in Nat
    BY Align8Lemma
  <1>3. \A j \in 1 .. Len(free_list) : free_list[j] \in Headers
    BY DEF TypeOK
  <1>4. live' = live \cup {[ptr |-> heap_ptr + HEADER, len |-> len]}
    BY <1>1 DEF Hold
  <1>5. /\ free_list'[1].addr = heap_ptr
        /\ free_list'[1].size = size
        /\ free_list'[1].is_free = FALSE
    BY <1>1 DEF NewHeader
  <1>t. heap_ptr \in Nat /\ Len(free_list) \in Nat /\ HEAP_END \in Nat
    BY DEF TypeOK, HEAP_END
  <1> HIDE DEF size
  <1>6. BlocksTile'
    <2>1. HEAP_START <= heap_ptr' /\ heap_ptr' <= HEAP_END
      BY <1>1, <1>2, <1>t DEF HeapInv, BlocksTile
    <2>2. ASSUME NEW j \in 1 .. Len(free_list')
          PROVE  /\ HEAP_START <= free_list'[j].addr
                 /\ free_list'[j].addr + HEADER + free_list'[j].size <= heap_ptr'
      <3>1. CASE j = 1
        BY <3>1, <1>1, <1>2, <1>5, <1>t DEF HeapInv, BlocksTile
      <3>2. CASE j # 1
        <4>1. j - 1 \in 1 .. Len(free_list) /\ free_list'[j] = free_list[j - 1]
          BY <3>2, <1>1, <1>t
        <4> QED
          BY <4>1, <1>1, <1>2, <1>3, <1>t, SMTT(30) DEF HeapInv, BlocksTile, Headers
      <3> QED
        BY <3>1, <3>2
    <2>3. ASSUME NEW i \in 1 .. Len(free_list'), NEW j \in 1 .. Len(free_list'), i < j
          PROVE  free_list'[j].addr + HEADER + free_list'[j].size <= free_list'[i].addr
      <3>1. j - 1 \in 1 .. Len(free_list) /\ free_list'[j] = free_list[j - 1]
        BY <2>3, <1>1, <1>t
      <3>2. CASE i = 1
        BY <3>1, <3>2, <1>5 DEF HeapInv, BlocksTile
      <3>3. CASE i # 1
        <4>1. i - 1 \in 1 .. Len(free_list) /\ free_list'[i] = free_list[i - 1] /\ i - 1 < j - 1
          BY <3>3, <2>3, <1>1, <1>t
        <4> QED
          BY <3>1, <4>1 DEF HeapInv, BlocksTile
      <3> QED
        BY <3>2, <3>3
    <2> QED
      BY <2>1, <2>2, <2>3 DEF BlocksTile, HEAP_END
  <1>7. \A r \in live : r.ptr # heap_ptr + HEADER
    BY TopNotLive
  <1>8. LiveOwnBlocks'
    <2>1. ASSUME NEW r \in live'
          PROVE  \E k \in 1 .. Len(free_list') :
                   /\ r.ptr = DataOf(free_list'[k])
                   /\ r.len <= free_list'[k].size
                   /\ ~free_list'[k].is_free
      <3>1. CASE r \in live
        <4>1. PICK k \in 1 .. Len(free_list) :
                /\ r.ptr = DataOf(free_list[k])
                /\ r.len <= free_list[k].size
                /\ ~free_list[k].is_free
          BY <3>1 DEF HeapInv, LiveOwnBlocks
        <4>2. k + 1 \in 1 .. Len(free_list') /\ free_list'[k + 1] = free_list[k]
          BY <1>1, <1>t
        <4> QED
          BY <4>1, <4>2
      <3>2. CASE r = [ptr |-> heap_ptr + HEADER, len |-> len]
        <4>1. 1 \in 1 .. Len(free_list')
          BY <1>1, <1>t
        <4> QED
          BY <4>1, <3>2, <1>2, <1>5 DEF DataOf
      <3> QED
        BY <3>1, <3>2, <1>4
    <2>2. \A r, s \in live' : r.ptr = s.ptr => r = s
      BY <1>4, <1>7 DEF HeapInv, LiveOwnBlocks
    <2> QED
      BY <2>1, <2>2 DEF LiveOwnBlocks, DataOf
  <1>9. UsedBlocksLive'
    <2> SUFFICES ASSUME NEW j \in 1 .. Len(free_list'), ~free_list'[j].is_free
                 PROVE  \E r \in live' : r.ptr = DataOf(free_list'[j])
      BY DEF UsedBlocksLive, DataOf
    <2>1. CASE j = 1
      <3>1. [ptr |-> heap_ptr + HEADER, len |-> len] \in live'
        BY <1>4
      <3>2. DataOf(free_list'[j]) = heap_ptr + HEADER
        BY <2>1, <1>5 DEF DataOf
      <3> QED
        BY <3>1, <3>2
    <2>2. CASE j # 1
      <3>1. j - 1 \in 1 .. Len(free_list) /\ free_list'[j] = free_list[j - 1]
        BY <2>2, <1>1, <1>t
      <3>2. ~free_list[j - 1].is_free
        BY <3>1
      <3>3. PICK r \in live : r.ptr = DataOf(free_list[j - 1])
        <4>1. \A k \in 1 .. Len(free_list) :
                ~free_list[k].is_free => \E r \in live : r.ptr = DataOf(free_list[k])
          BY DEF HeapInv, UsedBlocksLive
        <4> QED
          BY <3>1, <3>2, <4>1
      <3> QED
        BY <3>1, <3>3, <1>4
    <2> QED
      BY <2>1, <2>2
  <1> QED
    BY <1>6, <1>8, <1>9 DEF HeapInv

LEMMA FreeKeepsHeapInv ==
  ASSUME TypeOK, TypeOK', HeapInv, NEW r \in live, Kfree(r)
  PROVE  HeapInv'
  <1> USE HeapAssumption
  <1>1. PICK i \in 1 .. Len(free_list) :
          /\ DataOf(free_list[i]) = r.ptr
          /\ \A j \in 1 .. Len(free_list) :
               free_list'[j].is_free = IF j = i THEN TRUE ELSE free_list[j].is_free
    BY FreeEffect
  <1>2. /\ heap_ptr' = heap_ptr
        /\ live' = live \ {r}
        /\ Len(free_list') = Len(free_list)
        /\ \A j \in 1 .. Len(free_list) :
             /\ free_list'[j].addr = free_list[j].addr
             /\ free_list'[j].size = free_list[j].size
    BY FreeEffect DEF SameBlocks
  <1>3. BlocksTile'
    BY <1>2 DEF HeapInv, BlocksTile
  <1>4. LiveOwnBlocks'
    <2>1. ASSUME NEW s \in live'
          PROVE  \E k \in 1 .. Len(free_list') :
                   /\ s.ptr = DataOf(free_list'[k])
                   /\ s.len <= free_list'[k].size
                   /\ ~free_list'[k].is_free
      <3>1. PICK k \in 1 .. Len(free_list) :
              /\ s.ptr = DataOf(free_list[k])
              /\ s.len <= free_list[k].size
              /\ ~free_list[k].is_free
        BY <1>2 DEF HeapInv, LiveOwnBlocks
      <3>2. k # i
        BY <3>1, <1>1, <1>2 DEF HeapInv, LiveOwnBlocks
      <3> QED
        BY <3>1, <3>2, <1>1, <1>2 DEF DataOf
    <2> QED
      BY <2>1, <1>2 DEF LiveOwnBlocks, DataOf, HeapInv
  <1>5. UsedBlocksLive'
    <2> SUFFICES ASSUME NEW j \in 1 .. Len(free_list), ~free_list'[j].is_free
                 PROVE  \E s \in live' : s.ptr = DataOf(free_list[j])
      BY <1>2 DEF UsedBlocksLive, DataOf
    <2>1. j # i /\ ~free_list[j].is_free
      BY <1>1
    <2>2. PICK s \in live : s.ptr = DataOf(free_list[j])
      BY <2>1 DEF HeapInv, UsedBlocksLive
    <2>3. \A k \in 1 .. Len(free_list) : free_list[k] \in Headers
      BY DEF TypeOK
    <2>4. free_list[i].addr # free_list[j].addr
      BY <2>1, AddrInjective
    <2>5. s # r
      BY <2>2, <2>3, <2>4, <1>1 DEF DataOf, Headers
    <2> QED
      BY <2>2, <2>5, <1>2
  <1> QED
    BY <1>3, <1>4, <1>5 DEF HeapInv

LEMMA HeapInvNext == TypeOK /\ TypeOK' /\ HeapInv /\ [Next]_vars => HeapInv'
  <1> SUFFICES ASSUME TypeOK, TypeOK', HeapInv, [Next]_vars PROVE HeapInv'
    OBVIOUS
  <1>1. CASE UNCHANGED vars
    BY <1>1 DEF vars, HeapInv, BlocksTile, LiveOwnBlocks, UsedBlocksLive, DataOf
  <1>2. CASE \E len \in Sizes : KmallocExhausted(len)
    BY <1>1, <1>2 DEF KmallocExhausted
  <1> QED
    BY <1>1, <1>2, ReuseKeepsHeapInv, BumpKeepsHeapInv, FreeKeepsHeapInv DEF Next

(* Blocks tile the heap and each is held by exactly the client it was      *)
(* given to, in every reachable state.                                     *)
THEOREM HeapInvariant == Spec => []HeapInv
  BY TypeCorrect, HeapInvInit, HeapInvNext, PTL DEF Spec

LEMMA NoOverlapFromHeapInv == TypeOK /\ HeapInv => NoOverlap
  <1> SUFFICES ASSUME TypeOK, HeapInv PROVE NoOverlap
    OBVIOUS
  <1>h. HEADER \in Nat /\ HEAP_START \in Nat /\ HEAP_END \in Nat
    BY HeapAssumption DEF HEAP_END
  <1>1. \A j \in 1 .. Len(free_list) : free_list[j] \in Headers
    BY DEF TypeOK
  <1>2. ASSUME NEW r \in live
        PROVE  \E k \in 1 .. Len(free_list) :
                 /\ r.ptr = free_list[k].addr + HEADER
                 /\ r.len <= free_list[k].size
                 /\ r.ptr \in Nat
                 /\ r.len \in Nat
    BY HeapAssumption DEF HeapInv, LiveOwnBlocks, DataOf, TypeOK
  <1>3. ASSUME NEW r \in live, NEW s \in live, r # s
        PROVE  /\ r.ptr # s.ptr
               /\ r.ptr + r.len <= s.ptr \/ s.ptr + s.len <= r.ptr
    <2>1. r.ptr # s.ptr
      BY <1>3 DEF HeapInv, LiveOwnBlocks
    <2>2. PICK k \in 1 .. Len(free_list) :
            r.ptr = free_list[k].addr + HEADER /\ r.len <= free_list[k].size
      BY <1>2
    <2>3. PICK l \in 1 .. Len(free_list) :
            s.ptr = free_list[l].addr + HEADER /\ s.len <= free_list[l].size
      BY <1>2
    <2>4. r.len \in Nat /\ s.len \in Nat
      BY <1>2
    <2>5. k < l \/ l < k
      BY <1>h, <2>1, <2>2, <2>3, SMTT(60)
    <2>6. /\ free_list[k].addr \in Nat /\ free_list[k].size \in Nat
          /\ free_list[l].addr \in Nat /\ free_list[l].size \in Nat
      BY <1>1 DEF Headers
    <2>7. CASE k < l
      <3>1. free_list[l].addr + HEADER + free_list[l].size <= free_list[k].addr
        BY <1>h, <2>7, BlockOrder, SMTT(60)
      <3>2. s.ptr + s.len <= free_list[l].addr + HEADER + free_list[l].size
        BY <1>h, <2>3, <2>4, <2>6, SMTT(60)
      <3>3. free_list[k].addr <= r.ptr /\ r.ptr \in Nat /\ s.ptr \in Nat
        BY <1>h, <2>2, <2>3, <2>6, SMTT(60)
      <3>4. s.ptr + s.len <= r.ptr
        BY <1>h, <2>4, <2>6, <3>1, <3>2, <3>3, SMTT(60)
      <3> QED
        BY <1>h, <2>1, <3>4, SMTT(60)
    <2>8. CASE l < k
      <3>1. free_list[k].addr + HEADER + free_list[k].size <= free_list[l].addr
        BY <1>h, <2>8, BlockOrder, SMTT(60)
      <3>2. r.ptr + r.len <= free_list[k].addr + HEADER + free_list[k].size
        BY <1>h, <2>2, <2>4, <2>6, SMTT(60)
      <3>3. free_list[l].addr <= s.ptr /\ r.ptr \in Nat /\ s.ptr \in Nat
        BY <1>h, <2>2, <2>3, <2>6, SMTT(60)
      <3>4. r.ptr + r.len <= s.ptr
        BY <1>h, <2>4, <2>6, <3>1, <3>2, <3>3, SMTT(60)
      <3> QED
        BY <1>h, <2>1, <3>4, SMTT(60)
    <2> QED
      BY <1>h, <2>5, <2>7, <2>8, SMTT(60)
  <1>4. ASSUME NEW r \in live, NEW i \in 1 .. Len(free_list)
        PROVE  \/ r.ptr + r.len <= free_list[i].addr
               \/ free_list[i].addr + HEADER <= r.ptr
    <2>1. PICK k \in 1 .. Len(free_list) :
            r.ptr = free_list[k].addr + HEADER /\ r.len <= free_list[k].size /\ r.len \in Nat
      BY <1>2
    <2>2. k < i \/ i < k \/ i = k
      OBVIOUS
    <2>3. /\ free_list[k].addr \in Nat /\ free_list[k].size \in Nat
          /\ free_list[i].addr \in Nat /\ free_list[i].size \in Nat
      BY <1>1 DEF Headers
    <2>4. CASE k < i
      <3>1. free_list[i].addr + HEADER + free_list[i].size <= free_list[k].addr
        BY <1>h, <2>4, BlockOrder, SMTT(60)
      <3> QED
        BY <1>h, <2>1, <2>3, <3>1, SMTT(60)
    <2>5. CASE i < k
      <3>1. free_list[k].addr + HEADER + free_list[k].size <= free_list[i].addr
        BY <1>h, <2>5, BlockOrder, SMTT(60)
      <3> QED
        BY <1>h, <2>1, <2>3, <3>1, SMTT(60)
    <2>6. CASE i = k
      BY <1>h, <2>1, <2>3, <2>6, SMTT(60)
    <2> QED
      BY <1>h, <2>2, <2>4, <2>5, <2>6, SMTT(60)
  <1>5. ASSUME NEW r \in live
        PROVE  HEAP_START <= r.ptr /\ r.ptr + r.len <= HEAP_END
    <2>1. PICK k \in 1 .. Len(free_list) :
            r.ptr = free_list[k].addr + HEADER /\ r.len <= free_list[k].size /\ r.len \in Nat
      BY <1>2
    <2>2. free_list[k].addr \in Nat /\ free_list[k].size \in Nat
      BY <1>1 DEF Headers
    <2>3. /\ HEAP_START <= free_list[k].addr
          /\ free_list[k].addr + HEADER + free_list[k].size <= heap_ptr
          /\ heap_ptr <= HEAP_END
      BY DEF HeapInv, BlocksTile
    <2>4. heap_ptr \in Nat /\ HEAP_END \in Nat
      BY <1>h DEF TypeOK
    <2> QED
      <3>1. r.ptr + r.len <= free_list[k].addr + HEADER + free_list[k].size
        BY <1>h, <2>1, <2>2, SMTT(60)
      <3>2. HEAP_START <= r.ptr
        BY <1>h, <2>1, <2>2, <2>3, SMTT(60)
      <3>3. r.ptr \in Nat
        BY <1>h, <2>1, <2>2, SMTT(60)
      <3>4. r.ptr + r.len <= HEAP_END
        BY <1>h, <2>1, <2>2, <2>3, <2>4, <3>1, <3>3, SMTT(60)
      <3> QED
        BY <1>h, <3>2, <3>4, SMTT(60)
  <1> QED
    BY <1>3, <1>4, <1>5 DEF NoOverlap

(* No client can overwrite another client's region or the allocator's      *)
(* headers by writing inside the regions kmalloc gave it.                  *)
THEOREM NoOverlapAlways == Spec => []NoOverlap
  BY TypeCorrect, HeapInvariant, NoOverlapFromHeapInv, PTL
-----------------------------------------------------------------------------
(* kmalloc and kfree, seen through the regions clients hold, are the       *)
(* allocations and releases of the abstract heap.                          *)
LEMMA RefinementInit == Init => Heap!Init
  BY DEF Init, Heap!Init

LEMMA HoldIsAlloc ==
  ASSUME TypeOK, TypeOK', NoOverlap', NEW ptr \in Nat, NEW len \in Sizes,
         \A s \in live : s.ptr # ptr,
         Hold(ptr, len)
  PROVE  \E r \in Heap!Regions : Heap!Alloc(r)
  <1> DEFINE r == [ptr |-> ptr, len |-> len]
  <1>1. live' = live \cup {r} /\ r \in live'
    BY DEF Hold
  <1>2. r.ptr = ptr /\ r.len = len
    OBVIOUS
  <1>3. HEAP_START <= r.ptr /\ r.ptr + r.len <= HEAP_START + HEAP_SIZE
    BY <1>1 DEF NoOverlap, HEAP_END
  <1>4. \A s \in live : s # r
    BY <1>2
  <1>5. \A s \in live : Heap!Disjoint(r, s)
    BY <1>1, <1>4 DEF NoOverlap, Heap!Disjoint
  <1>6. len \in Nat /\ HEAP_START \in Nat /\ HEAP_SIZE \in Nat
    BY HeapAssumption
  <1>7. ptr \in Heap!Addresses
    BY <1>2, <1>3, <1>6 DEF Heap!Addresses
  <1>8. r \in Heap!Regions
    BY <1>7 DEF Heap!Regions
  <1>9. Heap!Alloc(r)
    BY <1>1, <1>3, <1>5 DEF Heap!Alloc
  <1> QED
    BY <1>8, <1>9

LEMMA RefinementNext ==
  ASSUME TypeOK, TypeOK', HeapInv, NoOverlap', [Next]_vars
  PROVE  [Heap!Next]_live
  <1>1. ASSUME NEW len \in Sizes, KmallocReuse(len) PROVE Heap!Next
    <2>1. PICK i \in 1 .. Len(free_list) :
            /\ free_list[i].is_free
            /\ DataOf(free_list[i]) \in Nat
            /\ Hold(DataOf(free_list[i]), len)
      BY <1>1, ReuseEffect
    <2>2. \A s \in live : s.ptr # DataOf(free_list[i])
      BY <2>1, FreeBlockNotLive
    <2> QED
      BY <2>1, <2>2, HoldIsAlloc DEF Heap!Next
  <1>2. ASSUME NEW len \in Sizes, KmallocBump(len) PROVE Heap!Next
    <2>1. Hold(heap_ptr + HEADER, len)
      BY <1>2, BumpEffect
    <2>2. heap_ptr + HEADER \in Nat
      BY HeapAssumption DEF TypeOK
    <2>3. \A s \in live : s.ptr # heap_ptr + HEADER
      BY TopNotLive
    <2> QED
      BY <2>1, <2>2, <2>3, HoldIsAlloc DEF Heap!Next
  <1>3. ASSUME NEW len \in Sizes, KmallocExhausted(len) PROVE UNCHANGED live
    BY <1>3 DEF KmallocExhausted, vars
  <1>4. ASSUME NEW r \in live, Kfree(r) PROVE Heap!Next
    <2>1. Heap!Free(r)
      BY <1>4 DEF Kfree, Heap!Free
    <2> QED
      BY <2>1 DEF Heap!Next
  <1>5. CASE UNCHANGED vars
    BY <1>5 DEF vars
  <1> QED
    BY <1>1, <1>2, <1>3, <1>4, <1>5 DEF Next

(* The allocator implements the abstract heap, in every configuration.     *)
THEOREM KmallocImplementsHeap == Spec => HeapSpecImplemented
  BY RefinementInit, RefinementNext, TypeCorrect, HeapInvariant, NoOverlapAlways, PTL
     DEF Spec, HeapSpecImplemented, Heap!Spec
-----------------------------------------------------------------------------
(* Recycling.  A new block of a size appears only when every block of that *)
(* size is held, so there are at most as many as regions held at once.     *)
RecyclingInv ==
  /\ Cardinality(live) <= peak
  /\ RecyclingBound
  /\ \A size \in {Align8(len) : len \in Sizes} : IsFiniteSet(BlocksOfSize(size))

LEMMA RecyclingInit == Init => RecyclingInv
  <1> SUFFICES ASSUME Init PROVE RecyclingInv
    OBVIOUS
  <1>1. \A size : BlocksOfSize(size) = {}
    BY DEF Init, BlocksOfSize
  <1>2. Cardinality(live) = 0 /\ peak = 0
    BY FS_EmptySet DEF Init
  <1> QED
    BY <1>1, <1>2, FS_EmptySet DEF RecyclingInv, RecyclingBound

LEMMA SameBlocksSameSizes ==
  ASSUME SameBlocks, NEW size
  PROVE  BlocksOfSize(size)' = BlocksOfSize(size)
  BY DEF SameBlocks, BlocksOfSize

(* Blocks that are all held are no more than the regions held. *)
LEMMA HeldBlocksBound ==
  ASSUME TypeOK, HeapInv, NEW size,
         \A j \in 1 .. Len(free_list) : free_list[j].size = size => ~free_list[j].is_free
  PROVE  IsFiniteSet(BlocksOfSize(size)) /\ Cardinality(BlocksOfSize(size)) <= Cardinality(live)
  <1> DEFINE owner == [a \in BlocksOfSize(size) |-> CHOOSE r \in live : r.ptr = a + HEADER]
  <1>1. \A a \in BlocksOfSize(size) : a \in Nat /\ \E r \in live : r.ptr = a + HEADER
    <2> SUFFICES ASSUME NEW j \in 1 .. Len(free_list), free_list[j].size = size
                 PROVE  /\ free_list[j].addr \in Nat
                        /\ \E r \in live : r.ptr = free_list[j].addr + HEADER
      BY DEF BlocksOfSize
    <2>1. free_list[j] \in Headers
      BY DEF TypeOK
    <2> QED
      BY <2>1 DEF HeapInv, UsedBlocksLive, DataOf, Headers
  <1>2. \A a \in BlocksOfSize(size) : owner[a] \in live /\ owner[a].ptr = a + HEADER
    BY <1>1
  <1> HIDE DEF owner
  <1>3. owner \in [BlocksOfSize(size) -> live]
    BY <1>2 DEF owner
  <1>4. \A a, b \in BlocksOfSize(size) : owner[a] = owner[b] => a = b
    <2> SUFFICES ASSUME NEW a \in BlocksOfSize(size), NEW b \in BlocksOfSize(size),
                        owner[a] = owner[b]
                 PROVE  a = b
      OBVIOUS
    <2>1. a + HEADER = b + HEADER /\ a \in Nat /\ b \in Nat
      BY <1>1, <1>2
    <2> QED
      BY <2>1, HeapAssumption
  <1>5. owner \in Injection(BlocksOfSize(size), live)
    BY <1>3, <1>4 DEF Injection, IsInjective
  <1> QED
    BY <1>5, FS_Injection DEF TypeOK, ExistsInjection

LEMMA RecyclingNext ==
  ASSUME TypeOK, TypeOK', HeapInv, RecyclingInv, [Next]_vars
  PROVE  RecyclingInv'
  <1> DEFINE Classes == {Align8(len) : len \in Sizes}
  <1>0. /\ peak \in Nat /\ Cardinality(live) \in Nat
        /\ \A c \in Classes : Cardinality(BlocksOfSize(c)) \in Nat
    BY FS_CardinalityType DEF TypeOK, RecyclingInv
  <1>1. ASSUME NEW len \in Sizes, KmallocReuse(len) PROVE RecyclingInv'
    <2>1. PICK ptr \in Nat : Hold(ptr, len)
      BY <1>1, ReuseEffect
    <2>2. Cardinality(live') <= peak' /\ peak <= peak' /\ peak' \in Nat
      BY <2>1, HoldType
    <2>3. \A c \in Classes : BlocksOfSize(c)' = BlocksOfSize(c)
      BY <1>1, ReuseEffect, SameBlocksSameSizes
    <2> QED
      BY <2>2, <2>3, <1>0 DEF RecyclingInv, RecyclingBound
  <1>2. ASSUME NEW len \in Sizes, KmallocBump(len) PROVE RecyclingInv'
    <2> DEFINE size == Align8(len)
    <2>1. /\ Hold(heap_ptr + HEADER, len)
          /\ Len(free_list') = Len(free_list) + 1
          /\ free_list'[1] = NewHeader(size)
          /\ \A j \in 1 .. Len(free_list) : free_list'[j + 1] = free_list[j]
          /\ \A j \in 2 .. Len(free_list') : free_list'[j] = free_list[j - 1]
          /\ \A j \in 1 .. Len(free_list) : free_list[j].is_free => free_list[j].size < size
      BY <1>2, BumpEffect
    <2>2. Cardinality(live') <= peak' /\ peak <= peak' /\ peak' \in Nat
      <3>1. heap_ptr + HEADER \in Nat
        BY HeapAssumption DEF TypeOK
      <3> QED
        BY <2>1, <3>1, HoldType
    <2>3. size \in Nat /\ Len(free_list) \in Nat
      BY Align8Lemma, HeapAssumption DEF TypeOK
    <2>4. free_list'[1].addr = heap_ptr /\ free_list'[1].size = size
      BY <2>1 DEF NewHeader
    <2> HIDE DEF size
    <2>5. ASSUME NEW c
          PROVE  BlocksOfSize(c)' =
                   IF c = size THEN BlocksOfSize(c) \cup {heap_ptr} ELSE BlocksOfSize(c)
      <3>1. \A a : a \in BlocksOfSize(c) =>
                     a \in BlocksOfSize(c)'
        BY <2>1, <2>3 DEF BlocksOfSize
      <3>2. c = size => heap_ptr \in BlocksOfSize(c)'
        BY <2>1, <2>3, <2>4 DEF BlocksOfSize
      <3>3. ASSUME NEW j \in 1 .. Len(free_list'), free_list'[j].size = c
            PROVE  \/ c = size /\ free_list'[j].addr = heap_ptr
                   \/ free_list'[j].addr \in BlocksOfSize(c)
        <4>1. CASE j = 1
          BY <4>1, <3>3, <2>4
        <4>2. CASE j # 1
          <5>1. j - 1 \in 1 .. Len(free_list) /\ free_list'[j] = free_list[j - 1]
            BY <4>2, <2>1, <2>3
          <5> QED
            BY <5>1, <3>3 DEF BlocksOfSize
        <4> QED
          BY <4>1, <4>2
      <3>4. \A a \in BlocksOfSize(c)' : a \in BlocksOfSize(c) \/ (c = size /\ a = heap_ptr)
        BY <3>3 DEF BlocksOfSize
      <3> QED
        BY <3>1, <3>2, <3>4
    <2>6. Cardinality(BlocksOfSize(size)) <= Cardinality(live) /\ IsFiniteSet(BlocksOfSize(size))
      <3>1. \A j \in 1 .. Len(free_list) : free_list[j].size = size => ~free_list[j].is_free
        BY <2>1, <2>3
      <3> QED
        BY <3>1, HeldBlocksBound
    <2>7. Cardinality(live') = Cardinality(live) + 1
      <3>1. live' = live \cup {[ptr |-> heap_ptr + HEADER, len |-> len]}
        BY <2>1 DEF Hold
      <3>2. [ptr |-> heap_ptr + HEADER, len |-> len] \notin live
        BY TopNotLive
      <3> QED
        BY <3>1, <3>2, FS_AddElement DEF TypeOK
    <2>8. /\ IsFiniteSet(BlocksOfSize(size)')
          /\ Cardinality(BlocksOfSize(size)') <= peak'
      <3>1. BlocksOfSize(size)' = BlocksOfSize(size) \cup {heap_ptr}
        BY <2>5
      <3>2. /\ IsFiniteSet(BlocksOfSize(size) \cup {heap_ptr})
            /\ Cardinality(BlocksOfSize(size) \cup {heap_ptr})
                 <= Cardinality(BlocksOfSize(size)) + 1
        <4>1. /\ IsFiniteSet(BlocksOfSize(size) \cup {heap_ptr})
              /\ Cardinality(BlocksOfSize(size) \cup {heap_ptr}) =
                   IF heap_ptr \in BlocksOfSize(size)
                     THEN Cardinality(BlocksOfSize(size))
                     ELSE Cardinality(BlocksOfSize(size)) + 1
          BY <2>6, FS_AddElement
        <4>2. Cardinality(BlocksOfSize(size)) \in Nat
          BY <2>6, FS_CardinalityType
        <4> QED
          BY <4>1, <4>2
      <3>3. Cardinality(BlocksOfSize(size)) \in Nat
        BY <2>6, FS_CardinalityType
      <3>4. Cardinality(BlocksOfSize(size) \cup {heap_ptr}) \in Nat
        BY <3>2, FS_CardinalityType
      <3> QED
        BY <3>1, <3>2, <3>3, <3>4, <2>2, <2>6, <2>7, <1>0
    <2>9. \A c \in Classes : c # size => BlocksOfSize(c)' = BlocksOfSize(c)
      BY <2>5
    <2> QED
      BY <2>2, <2>8, <2>9, <1>0 DEF RecyclingInv, RecyclingBound
  <1>3. ASSUME NEW r \in live, Kfree(r) PROVE RecyclingInv'
    <2>1. \A c \in Classes : BlocksOfSize(c)' = BlocksOfSize(c)
      BY <1>3, FreeEffect, SameBlocksSameSizes
    <2>2. Cardinality(live') <= Cardinality(live) /\ Cardinality(live') \in Nat
      BY <1>3, FreeEffect, FS_Subset, FS_CardinalityType DEF TypeOK
    <2>3. peak' = peak
      BY <1>3, FreeEffect
    <2> QED
      BY <2>1, <2>2, <2>3, <1>0 DEF RecyclingInv, RecyclingBound
  <1>4. CASE UNCHANGED vars
    BY <1>4 DEF vars, RecyclingInv, RecyclingBound, BlocksOfSize
  <1>5. CASE \E len \in Sizes : KmallocExhausted(len)
    BY <1>4, <1>5 DEF KmallocExhausted
  <1> QED
    BY <1>1, <1>2, <1>3, <1>4, <1>5 DEF Next

(* The heap never holds more blocks of one size than regions were ever     *)
(* held at once: what kfree returns is found again by kmalloc.             *)
THEOREM RecyclingAlways == Spec => []RecyclingBound
  <1>1. RecyclingInv => RecyclingBound
    BY DEF RecyclingInv
  <1> QED
    BY <1>1, TypeCorrect, HeapInvariant, RecyclingInit, RecyclingNext, PTL DEF Spec

=============================================================================
