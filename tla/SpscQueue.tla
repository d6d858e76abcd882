------------------------------ MODULE SpscQueue ------------------------------
(***************************************************************************)
(* The single-producer single-consumer ring in shared memory               *)
(* (SHMSPSCQueue in SharedMemory.hpp), with its two users: the Rust        *)
(* producer, ShmProducer::push_tick called in push_with_backpressure, and  *)
(* the C++ consumer, the pop of the engine's polling loop.                 *)
(*                                                                         *)
(* The two processes are interleaved at every access to shared memory.     *)
(* A Tick is 64 bytes, so copying it is not atomic: a slot has two halves, *)
(* written and read one after the other.  An acquire load may return an    *)
(* old value of the other side's index, but never one older than the value *)
(* it returned before: headSeen and tailSeen are the values last returned. *)
(***************************************************************************)
EXTENDS Naturals, Sequences

CONSTANTS
  Ticks,      \* the messages (the content of a Tick is not looked at)
  NoTick,     \* what a slot holds before its first write, or a torn copy
  Capacity,   \* slots of the ring; one of them always stays empty
  MaxSpins,   \* MAX_SPINS of push_with_backpressure
  MaxPushes   \* bound of the model: calls of push_with_backpressure

ASSUME NoTickAssumption == NoTick \notin Ticks
ASSUME CapacityAssumption == Capacity \in Nat /\ Capacity >= 2
ASSUME MaxSpinsAssumption == MaxSpins \in Nat \ {0}
ASSUME MaxPushesAssumption == MaxPushes \in Nat

VARIABLES
  head,       \* index of the next slot to read, stored by the consumer
  tail,       \* index of the next slot to write, stored by the producer
  lo, hi,     \* first and second half of each slot of buffer
  prod,       \* where the producer is in push_with_backpressure
  headSeen,   \* head, as the producer last loaded it
  item,       \* the tick being pushed
  spins,      \* failed attempts for that tick
  dropped,    \* ticks given up
  cons,       \* where the consumer is in pop
  tailSeen,   \* tail, as the consumer last loaded it
  outLo,      \* the half of the tick that pop has copied out so far
  outHi,
  accepted,   \* history: ticks whose push returned true
  delivered   \* history: ticks that pop returned

queueVars == <<head, tail, lo, hi>>
prodVars  == <<prod, headSeen, item, spins, dropped>>
consVars  == <<cons, tailSeen, outLo, outHi>>
vars == <<queueVars, prodVars, consVars, accepted, delivered>>

Index == 0 .. Capacity - 1

-----------------------------------------------------------------------------
(* Index arithmetic: & (CAPACITY - 1) wraps at the end of the ring. *)

(* Mutant: the index is not masked. *)
NextIndexUnmasked(i) == i + 1

NextIndex(i) == IF i = Capacity - 1 THEN 0 ELSE i + 1

(* How many steps forward lead from index i to index j. *)
Distance(i, j) == IF i <= j THEN j - i ELSE Capacity - i + j

(* The values an acquire load may return: any that the index has had since *)
(* the one this thread saw last.                                           *)
MayLoad(seen, current) ==
  {i \in Index : Distance(seen, i) <= Distance(seen, current)}

Size == Distance(head, tail)

-----------------------------------------------------------------------------
Init ==
  /\ head = 0
  /\ tail = 0
  /\ lo = [i \in Index |-> NoTick]
  /\ hi = [i \in Index |-> NoTick]
  /\ prod = "idle"
  /\ headSeen = 0
  /\ item = NoTick
  /\ spins = 0
  /\ dropped = 0
  /\ cons = "load"
  /\ tailSeen = 0
  /\ outLo = NoTick
  /\ outHi = NoTick
  /\ accepted = << >>
  /\ delivered = << >>

-----------------------------------------------------------------------------
(* The producer. *)

(* push_with_backpressure(producer, t, ..) is called. *)
CallPush(t) ==
  /\ prod = "idle"
  /\ Len(accepted) + dropped < MaxPushes
  /\ prod' = "load"
  /\ item' = t
  /\ spins' = 0
  /\ UNCHANGED <<queueVars, headSeen, dropped, consVars, accepted, delivered>>

(* Mutant: the ring is never found full. *)
LoadHeadUnchecked(h) ==
  /\ prod = "load"
  /\ headSeen' = h
  /\ prod' = "writeLo"
  /\ UNCHANGED <<queueVars, item, spins, dropped, consVars, accepted, delivered>>

(* push_tick loads both indices and finds a free slot. *)
LoadHead(h) ==
  /\ prod = "load"
  /\ NextIndex(tail) # h
  /\ headSeen' = h
  /\ prod' = "writeLo"
  /\ UNCHANGED <<queueVars, item, spins, dropped, consVars, accepted, delivered>>

(* Mutant: a full ring is tried again for as long as it stays full. *)
LoadHeadFullForever(h) ==
  /\ prod = "load"
  /\ NextIndex(tail) = h
  /\ headSeen' = h
  /\ UNCHANGED <<queueVars, prod, item, spins, dropped, consVars, accepted, delivered>>

(* push_tick loads both indices, finds the ring full and returns false;    *)
(* the caller tries again, until its spins are used up and it drops the    *)
(* tick.                                                                   *)
LoadHeadFull(h) ==
  /\ prod = "load"
  /\ NextIndex(tail) = h
  /\ headSeen' = h
  /\ spins' = spins + 1
  /\ IF spins + 1 >= MaxSpins
     THEN prod' = "idle" /\ dropped' = dropped + 1
     ELSE UNCHANGED <<prod, dropped>>
  /\ UNCHANGED <<queueVars, item, consVars, accepted, delivered>>

WriteLo ==
  /\ prod = "writeLo"
  /\ lo' = [lo EXCEPT ![tail] = item]
  /\ prod' = "writeHi"
  /\ UNCHANGED <<head, tail, hi, headSeen, item, spins, dropped, consVars,
                 accepted, delivered>>

WriteHi ==
  /\ prod = "writeHi"
  /\ hi' = [hi EXCEPT ![tail] = item]
  /\ prod' = "publish"
  /\ UNCHANGED <<head, tail, lo, headSeen, item, spins, dropped, consVars,
                 accepted, delivered>>

(* The release store of tail: push_tick returns true. *)
Publish ==
  /\ prod = "publish"
  /\ tail' = NextIndex(tail)
  /\ accepted' = Append(accepted, item)
  /\ prod' = "idle"
  /\ UNCHANGED <<head, lo, hi, headSeen, item, spins, dropped, consVars, delivered>>

PushStep ==
  \/ \E h \in MayLoad(headSeen, head) : LoadHead(h) \/ LoadHeadFull(h)
  \/ WriteLo \/ WriteHi \/ Publish

-----------------------------------------------------------------------------
(* The consumer. *)

(* Mutant: the ring is never found empty. *)
LoadTailUnchecked(t) ==
  /\ cons = "load"
  /\ tailSeen' = t
  /\ cons' = "readLo"
  /\ UNCHANGED <<queueVars, prodVars, outLo, outHi, accepted, delivered>>

(* pop loads both indices: the ring looks empty and the engine polls       *)
(* again, or the copy of the oldest slot begins.                           *)
LoadTail(t) ==
  /\ cons = "load"
  /\ tailSeen' = t
  /\ cons' = IF head = t THEN "load" ELSE "readLo"
  /\ UNCHANGED <<queueVars, prodVars, outLo, outHi, accepted, delivered>>

ReadLo ==
  /\ cons = "readLo"
  /\ outLo' = lo[head]
  /\ cons' = "readHi"
  /\ UNCHANGED <<queueVars, prodVars, tailSeen, outHi, accepted, delivered>>

ReadHi ==
  /\ cons = "readHi"
  /\ outHi' = hi[head]
  /\ cons' = "release"
  /\ UNCHANGED <<queueVars, prodVars, tailSeen, outLo, accepted, delivered>>

(* Mutant: the tick is returned but its slot not released. *)
ReleaseNothing ==
  /\ cons = "release"
  /\ delivered' = Append(delivered, IF outLo = outHi THEN outLo ELSE NoTick)
  /\ cons' = "load"
  /\ UNCHANGED <<queueVars, prodVars, tailSeen, outLo, outHi, accepted>>

(* The release store of head: the slot is free again, pop returns true.    *)
(* The tick handed out is torn (NoTick) if its halves do not agree.        *)
Release ==
  /\ cons = "release"
  /\ head' = NextIndex(head)
  /\ delivered' = Append(delivered, IF outLo = outHi THEN outLo ELSE NoTick)
  /\ cons' = "load"
  /\ UNCHANGED <<tail, lo, hi, prodVars, tailSeen, outLo, outHi, accepted>>

PopStep ==
  \/ \E t \in MayLoad(tailSeen, tail) : LoadTail(t)
  \/ ReadLo \/ ReadHi \/ Release

(* The engine's process is gone: its loop has ended, or it was killed, or  *)
(* an exception left it, wherever it was.  The producer is not told.       *)
EngineGone ==
  /\ cons # "gone"
  /\ cons' = "gone"
  /\ UNCHANGED <<queueVars, prodVars, tailSeen, outLo, outHi, accepted, delivered>>

-----------------------------------------------------------------------------
Next ==
  \/ \E t \in Ticks : CallPush(t)
  \/ PushStep
  \/ PopStep
  \/ EngineGone

(* A process that is there keeps running; an index that was stored becomes visible to *)
(* the other side in finite time (a load that changes nothing, not even    *)
(* the value last seen, does not count as a step).                         *)
Fairness == WF_vars(PushStep) /\ WF_vars(PopStep)

SafetySpec == Init /\ [][Next]_vars

Spec == SafetySpec /\ Fairness

-----------------------------------------------------------------------------
(* Properties. *)

(* Type invariant: both indices stay inside the buffer, and what the two   *)
(* threads hold is of its kind.                                            *)
TypeOK ==
  /\ head \in Index /\ tail \in Index
  /\ headSeen \in Index /\ tailSeen \in Index
  /\ lo \in [Index -> Ticks \union {NoTick}]
  /\ hi \in [Index -> Ticks \union {NoTick}]
  /\ prod \in {"idle", "load", "writeLo", "writeHi", "publish"}
  /\ cons \in {"load", "readLo", "readHi", "release", "gone"}
  /\ item \in Ticks \union {NoTick}
  /\ prod # "idle" => item \in Ticks
  /\ spins \in 0 .. MaxSpins
  /\ prod = "load" => spins < MaxSpins
  /\ dropped \in Nat
  /\ outLo \in Ticks \union {NoTick}
  /\ outHi \in Ticks \union {NoTick}
  /\ accepted \in Seq(Ticks)
  /\ delivered \in Seq(Ticks \union {NoTick})

(* The two processes never touch the same slot at the same time, although  *)
(* neither takes a lock and each may act on an outdated index of the other *)
(* (push_tick and pop).                                                    *)
NoSlotRace ==
  /\ prod \in {"writeLo", "writeHi", "publish"}
  /\ cons \in {"readLo", "readHi", "release"}
  => head # tail

(* Every delivered tick is whole and the ticks come out in the order they  *)
(* went in, without a gap or a repetition: wrapping around the ring and    *)
(* dropping under back-pressure disturb neither.                           *)
InOrderDelivery ==
  /\ Len(delivered) <= Len(accepted)
  /\ \A i \in 1 .. Len(delivered) : delivered[i] = accepted[i]

(* The ring is a bounded FIFO channel: Publish accepts, Release delivers,  *)
(* EngineGone closes it, every other step is invisible, and the fairness   *)
(* of the two processes gives the fairness of the channel.                 *)
Channel == INSTANCE BoundedFifo WITH Limit <- Capacity - 1, open <- cons # "gone"
FifoChannel == Channel!Spec

(* push_with_backpressure returns, also when the engine is gone and the    *)
(* ring stays full: the spin bound keeps a dead engine from blocking the   *)
(* ingestor.                                                               *)
PushReturns == (prod # "idle") ~> (prod = "idle")
=============================================================================
