--------------------------- MODULE SpscQueueProofs ---------------------------
(***************************************************************************)
(* Proofs about SpscQueue, for every set of ticks, every capacity of at    *)
(* least two, every spin bound and every number of pushes: the type        *)
(* invariant, the absence of slot races, the order of delivery, and that   *)
(* the ring implements the safety part of BoundedFifo.                     *)
(***************************************************************************)
EXTENDS SpscQueue, SequenceTheorems, TLAPS

Writing == prod \in {"writeLo", "writeHi", "publish"}
Reading == cons \in {"readLo", "readHi", "release"}

(* Going around the ring one meets headSeen, head, tailSeen, tail in that  *)
(* order, and never all the way: what each side believes about the other   *)
(* is out of date only in the harmless direction.                          *)
IndexOrder ==
  /\ Distance(headSeen, head) + Distance(head, tail) <= Capacity - 1
  /\ Distance(head, tailSeen) + Distance(tailSeen, tail) = Distance(head, tail)
  /\ Writing => NextIndex(tail) # headSeen
  /\ Reading => head # tailSeen

(* The occupied slots hold the accepted ticks still to be delivered. *)
SlotContents ==
  /\ Len(accepted) - Len(delivered) = Size
  /\ \A i \in Index :
        Distance(head, i) < Size =>
          /\ lo[i] = accepted[Len(delivered) + 1 + Distance(head, i)]
          /\ hi[i] = accepted[Len(delivered) + 1 + Distance(head, i)]

(* What has been copied so far agrees with the slot it is copied to or from. *)
PartialCopies ==
  /\ prod \in {"writeHi", "publish"} => lo[tail] = item
  /\ prod = "publish" => hi[tail] = item
  /\ cons \in {"readHi", "release"} => outLo = lo[head]
  /\ cons = "release" => outHi = hi[head]

IInv == TypeOK /\ IndexOrder /\ SlotContents /\ PartialCopies /\ InOrderDelivery

-----------------------------------------------------------------------------
(* Index arithmetic on the ring: distances are below the capacity, and  *)
(* zero only from an index to itself.                                   *)
LEMMA DistanceRange ==
  ASSUME NEW i \in Index, NEW j \in Index
  PROVE  /\ Distance(i, j) \in 0 .. Capacity - 1
         /\ Distance(i, j) = 0 <=> i = j
  BY CapacityAssumption DEF Distance, Index

(* Wrapping keeps an index inside the buffer. *)
LEMMA NextIndexInRange ==
  ASSUME NEW i \in Index
  PROVE  NextIndex(i) \in Index
  BY CapacityAssumption DEF NextIndex, Index

(* Moving the start of an interval forward shortens it by one. *)
LEMMA DistanceFromNext ==
  ASSUME NEW i \in Index, NEW j \in Index
  PROVE  Distance(NextIndex(i), j) = IF i = j THEN Capacity - 1 ELSE Distance(i, j) - 1
  BY CapacityAssumption DEF NextIndex, Distance, Index

(* Moving its end forward lengthens it by one, unless it meets the start. *)
LEMMA DistanceToNext ==
  ASSUME NEW i \in Index, NEW j \in Index
  PROVE  Distance(i, NextIndex(j)) = IF NextIndex(j) = i THEN 0 ELSE Distance(i, j) + 1
  BY CapacityAssumption DEF NextIndex, Distance, Index

(* The slot just before i is as far from i as the ring allows. *)
LEMMA DistanceToPrevious ==
  ASSUME NEW i \in Index, NEW j \in Index, NextIndex(j) = i
  PROVE  Distance(i, j) = Capacity - 1
  BY CapacityAssumption DEF NextIndex, Distance, Index

(* From a fixed index, the distance tells the slot. *)
LEMMA DistanceInjective ==
  ASSUME NEW i \in Index, NEW j \in Index, NEW k \in Index,
         Distance(i, j) = Distance(i, k)
  PROVE  j = k
  BY CapacityAssumption DEF Distance, Index

(* A value that may be loaded lies between the value seen before and the *)
(* current one.                                                          *)
LEMMA MayLoadBetween ==
  ASSUME NEW seen \in Index, NEW current \in Index, NEW i \in MayLoad(seen, current)
  PROVE  /\ i \in Index
         /\ Distance(seen, i) + Distance(i, current) = Distance(seen, current)
  BY CapacityAssumption DEF MayLoad, Distance, Index

(* Three indices met in order on less than one turn add up. *)
LEMMA DistanceAdds ==
  ASSUME NEW i \in Index, NEW j \in Index, NEW k \in Index,
         Distance(i, j) + Distance(j, k) <= Capacity - 1
  PROVE  Distance(i, k) = Distance(i, j) + Distance(j, k)
  BY CapacityAssumption DEF Distance, Index

(* An interval can be cut at a point inside it. *)
LEMMA DistanceSplits ==
  ASSUME NEW i \in Index, NEW j \in Index, NEW k \in Index,
         Distance(i, j) <= Distance(i, k)
  PROVE  Distance(i, j) + Distance(j, k) = Distance(i, k)
  BY CapacityAssumption DEF Distance, Index

-----------------------------------------------------------------------------
(* The type invariant is inductive by itself. *)
LEMMA TypeStep == TypeOK /\ [Next]_vars => TypeOK'
<1> SUFFICES ASSUME TypeOK, [Next]_vars PROVE TypeOK'
  OBVIOUS
<1> USE NoTickAssumption, CapacityAssumption, MaxSpinsAssumption
<1> USE DEF TypeOK, queueVars, prodVars, consVars
<1>1. ASSUME NEW t \in Ticks, CallPush(t) PROVE TypeOK'
  BY <1>1 DEF CallPush
<1>2. ASSUME NEW h \in MayLoad(headSeen, head), LoadHead(h) PROVE TypeOK'
  BY <1>2, MayLoadBetween DEF LoadHead
<1>3. ASSUME NEW h \in MayLoad(headSeen, head), LoadHeadFull(h) PROVE TypeOK'
  BY <1>3, MayLoadBetween DEF LoadHeadFull
<1>4. CASE WriteLo
  BY <1>4 DEF WriteLo
<1>5. CASE WriteHi
  BY <1>5 DEF WriteHi
<1>6. CASE Publish
  BY <1>6, NextIndexInRange DEF Publish
<1>7. ASSUME NEW t \in MayLoad(tailSeen, tail), LoadTail(t) PROVE TypeOK'
  BY <1>7, MayLoadBetween DEF LoadTail
<1>8. CASE ReadLo
  BY <1>8 DEF ReadLo
<1>9. CASE ReadHi
  BY <1>9 DEF ReadHi
<1>10. CASE Release
  <2> DEFINE tick == IF outLo = outHi THEN outLo ELSE NoTick
  <2>1. tick \in Ticks \union {NoTick}
    OBVIOUS
  <2>2. delivered' \in Seq(Ticks \union {NoTick})
    BY <1>10, <2>1, AppendProperties DEF Release
  <2> QED
    BY <1>10, <2>2, NextIndexInRange DEF Release
<1>11. CASE EngineGone
  BY <1>11 DEF EngineGone
<1>12. CASE UNCHANGED vars
  BY <1>12 DEF vars
<1> QED
  BY <1>1, <1>2, <1>3, <1>4, <1>5, <1>6, <1>7, <1>8, <1>9, <1>10, <1>11, <1>12
  DEF Next, PushStep, PopStep

(* It holds at the start. *)
LEMMA TypeInit == Init => TypeOK
  BY CapacityAssumption, MaxSpinsAssumption DEF Init, TypeOK, Index

(* Type correctness of the queue and its two users. *)
THEOREM TypeCorrect == Spec => []TypeOK
<1> QED
  BY TypeInit, TypeStep, PTL DEF Spec, SafetySpec

-----------------------------------------------------------------------------
(* The inductive invariant. *)

(* An empty ring satisfies it. *)
LEMMA InvariantInit == Init => IInv
<1> SUFFICES ASSUME Init PROVE IInv
  OBVIOUS
<1>1. TypeOK
  BY TypeInit
<1>2. Distance(0, 0) = 0 /\ 0 \in Index
  BY CapacityAssumption DEF Distance, Index
<1>3. IndexOrder
  BY <1>2, CapacityAssumption DEF Init, IndexOrder, Writing, Reading
<1>4. SlotContents
  BY <1>1, <1>2, DistanceRange DEF Init, SlotContents, Size, Index
<1> QED
  BY <1>1, <1>3, <1>4 DEF Init, IInv, PartialCopies, InOrderDelivery

(* What the order of the indices says in numbers. *)
LEMMA IndexRanges ==
  ASSUME TypeOK, IndexOrder
  PROVE  /\ head \in Index /\ tail \in Index /\ headSeen \in Index /\ tailSeen \in Index
         /\ Distance(headSeen, head) \in 0 .. Capacity - 1
         /\ Distance(head, tailSeen) \in 0 .. Capacity - 1
         /\ Distance(tailSeen, tail) \in 0 .. Capacity - 1
         /\ Size \in 0 .. Capacity - 1
         /\ Distance(headSeen, head) + Size <= Capacity - 1
         /\ Distance(headSeen, tail) = Distance(headSeen, head) + Size
         /\ Distance(head, tailSeen) + Distance(tailSeen, tail) = Size
  BY DistanceRange, DistanceAdds DEF IndexOrder, Size, TypeOK

(* While the consumer reads, or the producer has just found a free slot,   *)
(* the slot being read and the one being written are different.            *)
LEMMA SlotsApart ==
  ASSUME TypeOK, IndexOrder
  PROVE  /\ Reading => head # tail
         /\ Writing => NextIndex(tail) # head /\ Size < Capacity - 1
<1> USE CapacityAssumption DEF TypeOK, IndexOrder
<1>1. ASSUME Reading PROVE head # tail
  BY <1>1, DistanceRange
<1>2. ASSUME Writing PROVE NextIndex(tail) # head /\ Size < Capacity - 1
  <2>1. Distance(headSeen, tail) = Distance(headSeen, head) + Distance(head, tail)
    BY DistanceAdds
  <2>2. NextIndex(tail) # headSeen
    BY <1>2
  <2>3. Distance(headSeen, tail) < Capacity - 1
    <3>1. headSeen \in Index /\ tail \in Index /\ NextIndex(tail) \in Index
      BY NextIndexInRange
    <3>2. Distance(headSeen, NextIndex(tail)) = Distance(headSeen, tail) + 1
      BY <2>2, <3>1, DistanceToNext
    <3>3. /\ Distance(headSeen, NextIndex(tail)) \in 0 .. Capacity - 1
          /\ Distance(headSeen, tail) \in 0 .. Capacity - 1
      BY <3>1, DistanceRange
    <3> QED
      BY <3>2, <3>3
  <2>4. Size < Capacity - 1
    BY <2>1, <2>3, DistanceRange, SMTT(30) DEF Size
  <2> QED
    BY <2>4, DistanceToPrevious DEF Size
<1> QED
  BY <1>1, <1>2

(* Every step of either process preserves it. *)
LEMMA InvariantStep == IInv /\ [Next]_vars => IInv'
<1> SUFFICES ASSUME IInv, [Next]_vars PROVE IInv'
  OBVIOUS
<1> USE CapacityAssumption
<1> USE DEF queueVars, prodVars, consVars
<1>0. TypeOK /\ TypeOK' /\ IndexOrder /\ SlotContents /\ PartialCopies /\ InOrderDelivery
  BY TypeStep DEF IInv
<1>1. ASSUME NEW t \in Ticks, CallPush(t) PROVE IInv'
  <2>1. IndexOrder'
    BY <1>0, <1>1 DEF CallPush, IndexOrder, Writing, Reading
  <2>2. SlotContents'
    BY <1>0, <1>1 DEF CallPush, SlotContents, Size
  <2> QED
    BY <1>0, <1>1, <2>1, <2>2 DEF CallPush, IInv, PartialCopies, InOrderDelivery
<1>2. ASSUME NEW h \in MayLoad(headSeen, head), LoadHead(h) PROVE IInv'
  <2>1. h \in Index /\ Distance(headSeen, h) + Distance(h, head) = Distance(headSeen, head)
    BY <1>0, MayLoadBetween DEF TypeOK
  <2>2. Distance(h, head) + Distance(head, tail) <= Capacity - 1
    BY <1>0, <2>1, IndexRanges, DistanceRange DEF Size
  <2>3. IndexOrder'
    BY <1>0, <1>2, <2>2 DEF LoadHead, IndexOrder, Writing, Reading
  <2>4. SlotContents'
    BY <1>0, <1>2 DEF LoadHead, SlotContents, Size
  <2> QED
    BY <1>0, <1>2, <2>3, <2>4 DEF LoadHead, IInv, PartialCopies, InOrderDelivery
<1>3. ASSUME NEW h \in MayLoad(headSeen, head), LoadHeadFull(h) PROVE IInv'
  <2>1. h \in Index /\ Distance(headSeen, h) + Distance(h, head) = Distance(headSeen, head)
    BY <1>0, MayLoadBetween DEF TypeOK
  <2>2. Distance(h, head) + Distance(head, tail) <= Capacity - 1
    BY <1>0, <2>1, IndexRanges, DistanceRange DEF Size
  <2>3. prod' \in {"idle", "load"} /\ ~Writing'
    BY <1>3 DEF LoadHeadFull, Writing
  <2>4. IndexOrder'
    BY <1>0, <1>3, <2>2, <2>3 DEF LoadHeadFull, IndexOrder, Reading
  <2>5. SlotContents'
    BY <1>0, <1>3 DEF LoadHeadFull, SlotContents, Size
  <2> QED
    BY <1>0, <1>3, <2>3, <2>4, <2>5 DEF LoadHeadFull, IInv, PartialCopies, InOrderDelivery
<1>4. CASE WriteLo
  <2>1. Writing /\ Size < Capacity - 1 /\ (Reading => head # tail)
    BY <1>0, <1>4, SlotsApart DEF WriteLo, Writing
  <2>2. IndexOrder'
    BY <1>0, <1>4, <2>1 DEF WriteLo, IndexOrder, Writing, Reading
  <2>3. SlotContents'
    \* the slot at tail is not an occupied one
    BY <1>0, <1>4 DEF WriteLo, SlotContents, Size, TypeOK
  <2>4. PartialCopies'
    BY <1>0, <1>4, <2>1 DEF WriteLo, PartialCopies, TypeOK, Reading
  <2> QED
    BY <1>0, <1>4, <2>2, <2>3, <2>4 DEF WriteLo, IInv, InOrderDelivery
<1>5. CASE WriteHi
  <2>1. Writing /\ Size < Capacity - 1 /\ (Reading => head # tail)
    BY <1>0, <1>5, SlotsApart DEF WriteHi, Writing
  <2>2. IndexOrder'
    BY <1>0, <1>5, <2>1 DEF WriteHi, IndexOrder, Writing, Reading
  <2>3. SlotContents'
    BY <1>0, <1>5 DEF WriteHi, SlotContents, Size, TypeOK
  <2>4. PartialCopies'
    BY <1>0, <1>5, <2>1 DEF WriteHi, PartialCopies, TypeOK, Reading
  <2> QED
    BY <1>0, <1>5, <2>2, <2>3, <2>4 DEF WriteHi, IInv, InOrderDelivery
<1>6. CASE Publish
  <2> DEFINE k == Len(accepted)
             d == Len(delivered)
  <2>1. /\ accepted' \in Seq(Ticks) /\ Len(accepted') = k + 1 /\ k \in Nat
        /\ \A i \in 1 .. k : accepted'[i] = accepted[i]
        /\ accepted'[k + 1] = item
    BY <1>0, <1>6, AppendProperties, LenProperties DEF Publish, TypeOK
  <2>2. d \in Nat /\ delivered' = delivered
    BY <1>0, <1>6, LenProperties DEF Publish, TypeOK
  <2>3. Writing /\ NextIndex(tail) # head
    BY <1>0, <1>6, SlotsApart DEF Publish, Writing
  <2>4. Size' = Size + 1 /\ Size \in 0 .. Capacity - 1 /\ head' = head /\ tail' = NextIndex(tail)
    BY <1>0, <1>6, <2>3, DistanceToNext, DistanceRange DEF Publish, Size, TypeOK
  <2>5. Distance(headSeen, tail) < Capacity - 1
    BY <1>0, <2>3, IndexRanges, DistanceToNext, NextIndexInRange, DistanceRange DEF IndexOrder
  <2>6. Distance(tailSeen, NextIndex(tail)) = Distance(tailSeen, tail) + 1
    <3>1. Distance(tailSeen, tail) < Capacity - 1
      BY <1>0, <2>3, SlotsApart, IndexRanges
    <3> QED
      BY <1>0, <3>1, DistanceToNext, DistanceToPrevious DEF TypeOK
  <2>7. IndexOrder'
    <3>1. Distance(headSeen, head) + Size' <= Capacity - 1
      BY <1>0, <2>4, <2>5, IndexRanges
    <3>2. Distance(head, tailSeen) + Distance(tailSeen, tail') = Size'
      BY <1>0, <2>4, <2>6, IndexRanges
    <3> QED
      BY <1>0, <1>6, <3>1, <3>2 DEF Publish, IndexOrder, Writing, Reading, Size
  <2>8. SlotContents'
    <3>1. Len(accepted') - Len(delivered') = Size'
      BY <1>0, <2>1, <2>2, <2>4 DEF SlotContents
    <3>2. ASSUME NEW i \in Index, Distance(head, i) < Size'
          PROVE  /\ lo[i] = accepted'[d + 1 + Distance(head, i)]
                 /\ hi[i] = accepted'[d + 1 + Distance(head, i)]
      <4>1. Distance(head, i) \in 0 .. Capacity - 1
        BY <1>0, DistanceRange DEF TypeOK
      <4>2. CASE Distance(head, i) < Size
        BY <1>0, <2>1, <2>2, <2>4, <4>1, <4>2 DEF SlotContents
      <4>3. CASE Distance(head, i) = Size
        <5>1. i = tail
          BY <1>0, <4>3, DistanceInjective DEF Size, TypeOK
        <5>2. lo[tail] = item /\ hi[tail] = item
          BY <1>0, <1>6 DEF PartialCopies, Publish
        <5>3. d + 1 + Distance(head, i) = k + 1
          BY <1>0, <2>1, <2>2, <2>4, <4>3 DEF SlotContents
        <5> QED
          BY <5>1, <5>2, <5>3, <2>1
      <4> QED
        BY <2>4, <3>2, <4>1, <4>2, <4>3
    <3> QED
      BY <1>6, <2>2, <2>4, <3>1, <3>2 DEF Publish, SlotContents, Size
  <2>9. InOrderDelivery'
    BY <1>0, <2>1, <2>2 DEF InOrderDelivery
  <2> QED
    BY <1>0, <1>6, <2>7, <2>8, <2>9 DEF Publish, IInv, PartialCopies
<1>7. ASSUME NEW t \in MayLoad(tailSeen, tail), LoadTail(t) PROVE IInv'
  <2>1. t \in Index /\ Distance(tailSeen, t) + Distance(t, tail) = Distance(tailSeen, tail)
    BY <1>0, MayLoadBetween DEF TypeOK
  <2>2. Distance(t, tail) <= Distance(head, tail)
    BY <1>0, <2>1, IndexRanges, DistanceRange DEF Size
  <2>3. Distance(head, t) + Distance(t, tail) = Distance(head, tail)
    BY <1>0, <2>1, <2>2, SMTT(30) DEF IndexOrder, TypeOK, Distance, Index
  <2>4. IndexOrder'
    BY <1>0, <1>7, <2>3 DEF LoadTail, IndexOrder, Writing, Reading
  <2>5. SlotContents'
    BY <1>0, <1>7 DEF LoadTail, SlotContents, Size
  <2> QED
    BY <1>0, <1>7, <2>4, <2>5 DEF LoadTail, IInv, PartialCopies, InOrderDelivery
<1>8. CASE ReadLo
  <2>1. IndexOrder'
    BY <1>0, <1>8 DEF ReadLo, IndexOrder, Writing, Reading
  <2>2. SlotContents'
    BY <1>0, <1>8 DEF ReadLo, SlotContents, Size
  <2> QED
    BY <1>0, <1>8, <2>1, <2>2 DEF ReadLo, IInv, PartialCopies, InOrderDelivery
<1>9. CASE ReadHi
  <2>1. IndexOrder'
    BY <1>0, <1>9 DEF ReadHi, IndexOrder, Writing, Reading
  <2>2. SlotContents'
    BY <1>0, <1>9 DEF ReadHi, SlotContents, Size
  <2> QED
    BY <1>0, <1>9, <2>1, <2>2 DEF ReadHi, IInv, PartialCopies, InOrderDelivery
<1>10. CASE Release
  <2> DEFINE k == Len(accepted)
             d == Len(delivered)
             tick == IF outLo = outHi THEN outLo ELSE NoTick
  <2>1. k \in Nat /\ d \in Nat
    BY <1>0, LenProperties DEF TypeOK
  <2>2. Reading /\ head # tail /\ head # tailSeen
    BY <1>0, <1>10, SlotsApart DEF Release, Reading, IndexOrder
  <2>3. Size \in 1 .. Capacity - 1 /\ k = d + Size /\ Distance(head, head) = 0
    <3>1. head \in Index /\ Size # 0
      BY <1>0, <2>2, IndexRanges, DistanceRange DEF Size
    <3>2. k - d = Size
      BY <1>0 DEF SlotContents
    <3>3. Size \in 0 .. Capacity - 1
      BY <1>0, IndexRanges
    <3>4. Distance(head, head) = 0
      BY <3>1, DistanceRange
    <3> QED
      BY <2>1, <3>1, <3>2, <3>3, <3>4
  <2>4. lo[head] = accepted[d + 1] /\ hi[head] = accepted[d + 1]
    <3>1. head \in Index /\ Distance(head, head) < Size /\ d + 1 + 0 = d + 1
      BY <1>0, <2>1, <2>3 DEF TypeOK
    <3> QED
      BY <1>0, <2>3, <3>1 DEF SlotContents
  <2>5. tick = accepted[d + 1]
    BY <1>0, <1>10, <2>4 DEF PartialCopies, Release
  <2>6. /\ Len(delivered') = d + 1
        /\ \A i \in 1 .. d : delivered'[i] = delivered[i]
        /\ delivered'[d + 1] = accepted[d + 1]
    <3>1. tick \in Ticks \union {NoTick}
      BY <1>0 DEF TypeOK
    <3>2. delivered' = Append(delivered, tick)
      BY <1>10 DEF Release
    <3> HIDE DEF tick
    <3> QED
      BY <1>0, <2>5, <3>1, <3>2, AppendProperties DEF TypeOK
  <2>7. InOrderDelivery'
    BY <1>0, <1>10, <2>1, <2>3, <2>6 DEF InOrderDelivery, Release
  <2>8. head' = NextIndex(head) /\ head' \in Index /\ tail' = tail
    BY <1>0, <1>10, NextIndexInRange DEF Release, TypeOK
  <2>9. Size' = Size - 1
    BY <1>0, <2>2, <2>8, DistanceFromNext DEF Size, TypeOK
  <2>10. IndexOrder'
    <3>1. Distance(headSeen, head') = Distance(headSeen, head) + 1
      <4>1. Distance(headSeen, head) < Capacity - 1
        BY <1>0, <2>3, IndexRanges
      <4> QED
        BY <1>0, <2>8, <4>1, IndexRanges, DistanceToNext, DistanceToPrevious
    <3>2. Distance(headSeen, head') + Size' <= Capacity - 1
      BY <1>0, <2>3, <2>9, <3>1, IndexRanges
    <3>3. Distance(head', tailSeen) + Distance(tailSeen, tail) = Size'
      <4>1. Distance(head', tailSeen) = Distance(head, tailSeen) - 1
        BY <1>0, <2>2, <2>8, IndexRanges, DistanceFromNext
      <4> QED
        BY <1>0, <2>3, <2>9, <4>1, IndexRanges
    <3> QED
      BY <1>0, <1>10, <3>2, <3>3 DEF Release, IndexOrder, Writing, Reading, Size
  <2>11. SlotContents'
    <3>1. Len(accepted') - Len(delivered') = Size'
      BY <1>10, <2>1, <2>3, <2>6, <2>9 DEF Release
    <3>2. ASSUME NEW i \in Index, Distance(head', i) < Size'
          PROVE  /\ lo[i] = accepted[d + 2 + Distance(head', i)]
                 /\ hi[i] = accepted[d + 2 + Distance(head', i)]
      <4>1. Distance(head', i) = Distance(head, i) - 1 /\ Distance(head, i) \in Nat
        BY <1>0, <2>3, <2>8, <2>9, <3>2, DistanceFromNext, DistanceRange DEF TypeOK
      <4>2. Distance(head, i) < Size /\ d + 2 + Distance(head', i) = d + 1 + Distance(head, i)
        BY <2>1, <2>3, <2>9, <3>2, <4>1
      <4> QED
        BY <1>0, <4>2 DEF SlotContents
    <3> QED
      BY <1>10, <2>1, <2>6, <3>1, <3>2, DistanceRange, <2>8 DEF Release, SlotContents, Index
  <2> QED
    BY <1>0, <1>10, <2>7, <2>10, <2>11 DEF Release, IInv, PartialCopies
<1>11. CASE EngineGone
  <2>1. IndexOrder' /\ SlotContents'
    BY <1>0, <1>11 DEF EngineGone, IndexOrder, Writing, Reading, SlotContents, Size
  <2> QED
    BY <1>0, <1>11, <2>1 DEF EngineGone, IInv, PartialCopies, InOrderDelivery
<1>12. CASE UNCHANGED vars
  <2>1. IndexOrder' /\ SlotContents'
    BY <1>0, <1>12 DEF vars, IndexOrder, Writing, Reading, SlotContents, Size
  <2> QED
    BY <1>0, <1>12, <2>1 DEF vars, IInv, PartialCopies, InOrderDelivery
<1> QED
  BY <1>1, <1>2, <1>3, <1>4, <1>5, <1>6, <1>7, <1>8, <1>9, <1>10, <1>11, <1>12
  DEF Next, PushStep, PopStep

(* So it always holds, with or without fairness. *)
LEMMA InductiveInvariant == SafetySpec => []IInv
  BY InvariantInit, InvariantStep, PTL DEF SafetySpec

-----------------------------------------------------------------------------
(* The slot the producer fills is never the one the consumer empties, for  *)
(* any capacity and any staleness of the indices (push_tick, pop).         *)
THEOREM SlotsNeverRace == Spec => []NoSlotRace
<1>1. IInv => NoSlotRace
  BY SlotsApart DEF IInv, NoSlotRace, Reading
<1> QED
  BY <1>1, InductiveInvariant, PTL DEF Spec

(* What pop has returned so far is a prefix of what push has accepted, and *)
(* no tick in it is torn.                                                  *)
THEOREM DeliveryInOrder == Spec => []InOrderDelivery
<1>1. IInv => InOrderDelivery
  BY DEF IInv
<1> QED
  BY <1>1, InductiveInvariant, PTL DEF Spec

(* The ring implements the safety part of the bounded FIFO channel: every  *)
(* step of the two processes is an Accept, a Deliver or invisible.         *)
THEOREM RingIsFifo == Spec => Channel!SafetySpec
<1>1. Init => Channel!Init
  BY DEF Init, Channel!Init
<1>2. IInv /\ [Next]_vars => [Channel!Next]_(Channel!vars)
  <2> SUFFICES ASSUME IInv, [Next]_vars PROVE [Channel!Next]_(Channel!vars)
    OBVIOUS
  <2>0. TypeOK /\ IndexOrder /\ SlotContents /\ PartialCopies
    BY DEF IInv
  <2>1. CASE Publish
    <3>1. Len(accepted) - Len(delivered) < Capacity - 1
      BY <2>0, <2>1, SlotsApart DEF Publish, Writing, SlotContents
    <3>2. item \in Ticks
      BY <2>0, <2>1 DEF TypeOK, Publish
    <3>3. Channel!Accept(item)
      BY <2>1, <3>1 DEF Publish, Channel!Accept, consVars
    <3> QED
      BY <3>2, <3>3 DEF Channel!Next
  <2>2. CASE Release
    <3> DEFINE d == Len(delivered)
    <3>1. d \in Nat /\ Len(accepted) \in Nat
      BY <2>0, LenProperties DEF TypeOK
    <3>2. head # tail /\ Distance(head, head) = 0 /\ Size \in 1 .. Capacity - 1
      BY <2>0, <2>2, SlotsApart, DistanceRange DEF Release, Reading, Size, TypeOK
    <3>3. d < Len(accepted)
      BY <2>0, <3>1, <3>2, CapacityAssumption DEF SlotContents
    <3>4. lo[head] = accepted[d + 1] /\ hi[head] = accepted[d + 1]
      BY <2>0, <3>1, <3>2 DEF SlotContents, TypeOK
    <3>5. outLo = accepted[d + 1] /\ outHi = accepted[d + 1]
      BY <2>0, <2>2, <3>4 DEF PartialCopies, Release
    <3>6. Channel!Deliver
      BY <2>2, <3>3, <3>5 DEF Release, Channel!Deliver
    <3> QED
      BY <3>6 DEF Channel!Next
  <2>3. CASE EngineGone
    BY <2>3 DEF EngineGone, Channel!Close, Channel!Next
  <2>4. CASE UNCHANGED <<accepted, delivered, cons # "gone">>
    BY <2>4 DEF Channel!vars
  <2> QED
    BY <2>1, <2>2, <2>3, <2>4 DEF Next, PushStep, PopStep, CallPush, LoadHead, LoadHeadFull,
       WriteLo, WriteHi, LoadTail, ReadLo, ReadHi, vars, consVars
<1> QED
  BY <1>1, <1>2, InductiveInvariant, PTL DEF Spec, SafetySpec, Channel!SafetySpec
=============================================================================
