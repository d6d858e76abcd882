---------------------------- MODULE FeedStoreProofs ----------------------------
(***************************************************************************)
(* Proofs about FeedStore, for every set of WebSocket objects and however  *)
(* often the page calls start(): connections are bounded by those calls,   *)
(* the badge names the feed in use, and a simulator the user forces is     *)
(* alone.                                                                  *)
(***************************************************************************)
EXTENDS FeedStore, FiniteSetTheorems, TLAPS

States == {"closed", "connecting", "open", "closing"}

Types ==
  /\ mounts \in Nat /\ preferSim \in BOOLEAN
  /\ simTimer \in BOOLEAN /\ retryTimer \in BOOLEAN
  /\ ws \in Sockets \union {NoSocket}
  /\ ready \in [Sockets -> States]
  /\ attached \in SUBSET Sockets

(* Before the page has mounted nothing has happened that a callback could  *)
(* continue.                                                               *)
NothingBeforeMount ==
  ~Mounted => ws = NoSocket /\ ~preferSim /\ ~retryTimer /\ status = "connecting"

IInv ==
  /\ Types /\ NothingBeforeMount
  /\ ConnectionsBounded /\ BadgeTellsTheFeed /\ ForcedSimIsAlone

LEMMA InvariantInit == Init => IInv
<1>1. Init => Cardinality(attached) = 0
  BY FS_EmptySet DEF Init
<1>2. Init => Types
  <2>1. Init => mounts \in Nat /\ ws \in Sockets \union {NoSocket} /\ attached \in SUBSET Sockets
    BY DEF Init
  <2>2. Init => ready \in [Sockets -> States]
    BY DEF Init, States
  <2>3. Init => preferSim \in BOOLEAN /\ simTimer \in BOOLEAN /\ retryTimer \in BOOLEAN
    BY Zenon DEF Init
  <2> QED
    BY <2>1, <2>2, <2>3 DEF Types
<1>6. Init => NothingBeforeMount
  BY DEF Init, NothingBeforeMount, Mounted
<1>3. Init => ConnectionsBounded
  BY <1>1, FeedAssumption DEF Init, ConnectionsBounded, Mounted
<1>4. Init => (simTimer <=> status = "sim")
  BY Zenon DEF Init
<1>5. Init => BadgeTellsTheFeed /\ ForcedSimIsAlone
  BY <1>4 DEF Init, BadgeTellsTheFeed, ForcedSimIsAlone
<1> QED
  BY <1>2, <1>3, <1>5, <1>6 DEF IInv

(* Cardinalities of sets of sockets, as the steps change them. *)
LEMMA Counting ==
  ASSUME NEW A \in SUBSET Sockets
  PROVE  /\ Cardinality(A) \in Nat
         /\ Cardinality(A) = 0 => A = {}
         /\ \A s \in Sockets : Cardinality(A \union {s}) <= Cardinality(A) + 1
         /\ \A s : /\ Cardinality(A \ {s}) <= Cardinality(A)
                   /\ s \in A => Cardinality(A \ {s}) = Cardinality(A) - 1
<1>1. IsFiniteSet(A)
  BY FeedAssumption, FS_Subset
<1>2. Cardinality(A) \in Nat /\ (Cardinality(A) = 0 <=> A = {})
  BY <1>1, FS_CardinalityType, FS_EmptySet
<1>3. \A s : Cardinality(A \union {s}) = Cardinality(A) + (IF s \in A THEN 0 ELSE 1)
  BY <1>1, <1>2, FS_AddElement
<1>4. \A s : Cardinality(A \ {s}) = Cardinality(A) - (IF s \in A THEN 1 ELSE 0)
  BY <1>1, <1>2, FS_RemoveElement
<1> QED
  BY <1>2, <1>3, <1>4

(* With one call of start() there is at most one connection, and none      *)
(* while this.ws is null.                                                  *)
LEMMA OneCall ==
  ASSUME IInv, mounts = 1
  PROVE  /\ \A s, t \in attached : s = t
         /\ ws = NoSocket => attached = {}
<1> USE DEF IInv, Types, ConnectionsBounded, Mounted
<1>1. ASSUME NEW s \in attached, NEW t \in attached, s # t PROVE FALSE
  <2>1. Cardinality(attached) \in Nat /\ Cardinality(attached \ {s}) = Cardinality(attached) - 1
    BY Counting
  <2>2. Cardinality(attached \ {s}) = 0
    <3>1. Cardinality(attached \ {s}) \in Nat
      BY Counting
    <3> QED
      BY <2>1, <3>1
  <2>3. attached \ {s} = {}
    BY <2>2, Counting
  <2> QED
    BY <1>1, <2>3
<1>2. ws = NoSocket => attached = {}
  BY Counting
<1> QED
  BY <1>1, <1>2

(* Before the first call of start() no socket is attached, so none opens.  *)
LEMMA NoneBeforeMount ==
  ASSUME IInv, ~Mounted
  PROVE  attached = {} /\ \A s \in Sockets : ready[s] \notin {"connecting", "open"}
<1>1. Cardinality(attached) \in Nat /\ (Cardinality(attached) = 0 => attached = {})
  BY Counting DEF IInv, Types
<1> QED
  BY <1>1 DEF IInv, Types, ConnectionsBounded, Mounted

(* What connect() makes of the sockets its caller leaves, in AllowLive and *)
(* the retry interval alike: there is room for one more connection.        *)
LEMMA ConnectKeepsBound ==
  ASSUME IInv, Mounted, mounts' = mounts,
         NEW rdy \in [Sockets -> States], NEW att \in SUBSET Sockets,
         \A t \in Sockets : rdy[t] \in {"connecting", "open"} => t \in att,
         Cardinality(att) < mounts,
         NEW s \in Sockets, Connect(s, rdy, att)
  PROVE  /\ ConnectionsBounded'
         /\ ws' \in Sockets /\ ready' \in [Sockets -> States] /\ attached' \in SUBSET Sockets
         /\ \A t \in Sockets : ready'[t] = "open" => rdy[t] = "open"
<1> USE FeedAssumption DEF IInv, Types, Mounted, Connect, States
<1>1. Cardinality(att) \in Nat /\ Cardinality(att \union {s}) <= Cardinality(att) + 1
  BY Counting
<1>2. Cardinality(attached') \in Nat /\ attached' = att \union {s}
  BY Counting
<1>3. Cardinality(attached') <= mounts'
  BY <1>1, <1>2
<1>4. /\ ws' = s /\ s # NoSocket /\ ready' \in [Sockets -> States]
      /\ ready'[s] = "connecting" /\ \A t \in Sockets \ {s} : ready'[t] = rdy[t]
  OBVIOUS
<1> QED
  BY <1>2, <1>3, <1>4 DEF ConnectionsBounded

(* What teardown() leaves: this.ws can no longer open, and there is room   *)
(* for a connection.                                                       *)
LEMMA TeardownLeavesRoom ==
  ASSUME IInv, Mounted
  PROVE  /\ Closed \in [Sockets -> States] /\ Detached \in SUBSET Sockets
         /\ \A t \in Sockets : Closed[t] \in {"connecting", "open"} => t \in Detached /\ Closed[t] = ready[t]
         /\ Cardinality(Detached) < mounts
<1> USE FeedAssumption DEF IInv, Types, ConnectionsBounded, Closed, Detached, States
<1>1. Cardinality(attached) \in Nat /\ Cardinality(Detached) \in Nat
  BY Counting
<1>2. CASE ws = NoSocket
  <2>1. Detached = attached
    BY <1>2
  <2> QED
    BY <1>2, <2>1
<1>3. CASE ws # NoSocket
  <2>1. Cardinality(Detached) = Cardinality(attached) - 1
    BY <1>3, Counting
  <2> QED
    BY <1>1, <1>3, <2>1 DEF Mounted
<1> QED
  BY <1>2, <1>3

LEMMA TeardownKeepsBound ==
  ASSUME IInv, Mounted, mounts' = mounts, ws' = NoSocket, ready' = Closed, attached' = Detached
  PROVE  ConnectionsBounded' /\ ready' \in [Sockets -> States] /\ attached' \in SUBSET Sockets
<1>1. Cardinality(Detached) \in Nat
  BY TeardownLeavesRoom, Counting
<1> QED
  BY <1>1, TeardownLeavesRoom DEF ConnectionsBounded, IInv, Types

LEMMA InvariantStep == IInv /\ [Next]_vars => IInv'
<1> SUFFICES ASSUME IInv, [Next]_vars
             PROVE  IInv'
  OBVIOUS
<1> USE FeedAssumption
<1> DEFINE Sound == /\ ws' \in Sockets \union {NoSocket} /\ ready' \in [Sockets -> States]
                    /\ attached' \in SUBSET Sockets /\ ConnectionsBounded'
           Rest == /\ mounts' \in Nat /\ preferSim' \in BOOLEAN
                   /\ simTimer' \in BOOLEAN /\ retryTimer' \in BOOLEAN
                   /\ NothingBeforeMount' /\ BadgeTellsTheFeed' /\ ForcedSimIsAlone'
<1>0. Sound /\ Rest => IInv'
  BY DEF IInv, Types
<1> HIDE DEF Sound, Rest
<1>1. CASE Start
  <2>1. mounts' \in Nat /\ mounts' > 0 /\ preferSim' = FALSE /\ status \notin {"live", "sim"} /\ ~simTimer
    BY <1>1 DEF Start, IInv, Types, NothingBeforeMount, BadgeTellsTheFeed
  <2>2. CASE ConnectRefused /\ UNCHANGED <<ws, ready, attached>>
    <3>1. Sound
      <4>1. Cardinality(attached) = 0
        BY <1>1, NoneBeforeMount, FS_EmptySet DEF Start
      <4> QED
        BY <2>1, <2>2, <4>1 DEF Sound, IInv, Types, ConnectionsBounded, Mounted
    <3>2. Rest
      BY <1>1, <2>1, <2>2, NoneBeforeMount DEF Rest, Start, ConnectRefused, StartSim, IInv, Types,
        Mounted, NothingBeforeMount, BadgeTellsTheFeed, SimOnlyWhenUnreachable, ForcedSimIsAlone
    <3> QED
      BY <1>0, <3>1, <3>2
  <2>3. CASE /\ \E S \in SUBSET Unused :
                  /\ Cardinality(S) = mounts'
                  /\ ws' \in S
                  /\ ready' = [s \in Sockets |-> IF s \in S THEN "connecting" ELSE ready[s]]
                  /\ attached' = S /\ guard' = S
             /\ UNCHANGED <<status, simTimer, retryTimer, market>>
    <3>1. PICK S \in SUBSET Unused :
                  /\ Cardinality(S) = mounts'
                  /\ ws' \in S
                  /\ ready' = [s \in Sockets |-> IF s \in S THEN "connecting" ELSE ready[s]]
                  /\ attached' = S
      BY <2>3
    <3>2. Sound
      BY <1>1, <2>1, <3>1, NoneBeforeMount
      DEF Start, Sound, Unused, States, IInv, Types, ConnectionsBounded, Mounted
    <3>3. Rest
      BY <1>1, <2>1, <2>3 DEF Rest, Start, IInv, Types, Mounted, NothingBeforeMount,
        BadgeTellsTheFeed, SimOnlyWhenUnreachable, ForcedSimIsAlone
    <3> QED
      BY <1>0, <3>2, <3>3
  <2> QED
    BY <1>1, <2>2, <2>3 DEF Start
<1>2. CASE ForceSim
  <2>1. Sound
    BY <1>2, TeardownKeepsBound DEF ForceSim, Sound
  <2>2. Rest
    BY <1>2 DEF ForceSim, Rest, StartSim, IInv, Types, Mounted, NothingBeforeMount,
      BadgeTellsTheFeed, SimOnlyWhenUnreachable, ForcedSimIsAlone
  <2> QED
    BY <1>0, <2>1, <2>2
<1>3. CASE AllowLive
  <2>1. Mounted /\ mounts' = mounts /\ preferSim' = FALSE
    BY <1>3 DEF AllowLive, IInv, NothingBeforeMount
  <2>2. mounts = 1 => \A t \in Sockets : ready[t] # "open"
    BY <1>3, OneCall DEF AllowLive, IInv, ForcedSimIsAlone, ConnectionsBounded
  <2>3. CASE /\ \E s \in Sockets : Connect(s, Closed, Detached)
             /\ status' = "connecting" /\ simTimer' = FALSE /\ retryTimer' = FALSE
    <3>1. PICK s \in Sockets : Connect(s, Closed, Detached)
      BY <2>3
    <3>2. Sound
      BY <2>1, <3>1, TeardownLeavesRoom, ConnectKeepsBound DEF Sound
    <3>3. Rest
      BY <2>1, <2>3 DEF Rest, IInv, Types, Mounted, NothingBeforeMount,
        BadgeTellsTheFeed, SimOnlyWhenUnreachable, ForcedSimIsAlone
    <3> QED
      BY <1>0, <3>2, <3>3
  <2>4. CASE ConnectRefused /\ ws' = NoSocket /\ ready' = Closed /\ attached' = Detached
    <3>1. Sound
      BY <2>1, <2>4, TeardownKeepsBound DEF Sound
    <3>2. mounts = 1 => \A t \in Sockets : ready'[t] # "open"
      BY <2>1, <2>2, <2>4, TeardownLeavesRoom
    <3>3. Rest
      BY <2>1, <2>4, <3>2 DEF Rest, ConnectRefused, StartSim, IInv, Types, Mounted,
        NothingBeforeMount, BadgeTellsTheFeed, SimOnlyWhenUnreachable, ForcedSimIsAlone
    <3> QED
      BY <1>0, <3>1, <3>3
  <2> QED
    BY <1>3, <2>3, <2>4 DEF AllowLive
<1>4. CASE RetryTicks
  <2>1. PICK s \in Sockets : Connect(s, ready, attached)
    BY <1>4 DEF RetryTicks
  <2>2. Mounted /\ mounts' = mounts
    BY <1>4 DEF RetryTicks, IInv, NothingBeforeMount
  <2>3. Cardinality(attached) < mounts
    BY <1>4, <2>2 DEF RetryTicks, IInv, ConnectionsBounded
  <2>4. Sound /\ \A t \in Sockets : ready'[t] = "open" => ready[t] = "open"
    BY <2>1, <2>2, <2>3, ConnectKeepsBound DEF Sound, IInv, Types, ConnectionsBounded
  <2>5. Rest
    BY <1>4, <2>2, <2>4 DEF RetryTicks, Rest, IInv, Types, Mounted, NothingBeforeMount,
      BadgeTellsTheFeed, SimOnlyWhenUnreachable, ForcedSimIsAlone
  <2> QED
    BY <1>0, <2>4, <2>5
<1>5. ASSUME NEW s \in Sockets, OnOpen(s) PROVE IInv'
  <2>1. s \in attached /\ Mounted
    BY <1>5, NoneBeforeMount DEF OnOpen, IInv, ConnectionsBounded
  <2>2. ~(preferSim /\ mounts = 1)
    <3>1. SUFFICES ASSUME preferSim, mounts = 1 PROVE FALSE
      OBVIOUS
    <3>2. attached = {}
      BY <3>1, OneCall DEF IInv, ForcedSimIsAlone
    <3> QED
      BY <2>1, <3>2
  <2>3. Sound /\ ready'[s] = "open"
    BY <1>5, <2>1 DEF OnOpen, Sound, IInv, Types, States, ConnectionsBounded, Mounted
  <2>4. Rest
    BY <1>5, <2>1, <2>2, <2>3 DEF OnOpen, Rest, IInv, Types, Mounted, NothingBeforeMount,
      BadgeTellsTheFeed, SimOnlyWhenUnreachable, ForcedSimIsAlone
  <2> QED
    BY <1>0, <2>3, <2>4
<1>6. ASSUME NEW s \in Sockets, OnMessage(s) PROVE IInv'
  <2>1. ~(preferSim /\ mounts = 1)
    <3>1. SUFFICES ASSUME preferSim, mounts = 1 PROVE FALSE
      OBVIOUS
    <3>2. attached = {}
      BY <3>1, OneCall DEF IInv, ForcedSimIsAlone
    <3> QED
      BY <1>6, <3>2 DEF OnMessage, IInv, ConnectionsBounded
  <2> QED
    BY <1>6, <2>1 DEF OnMessage, IInv, Types, Mounted, NothingBeforeMount,
      ConnectionsBounded, BadgeTellsTheFeed, SimOnlyWhenUnreachable, ForcedSimIsAlone
<1>7. ASSUME NEW s \in Sockets, GuardFires(s) PROVE IInv'
  <2>1. Sound /\ \A t \in Sockets : ready'[t] = "open" => ready[t] = "open"
    BY <1>7 DEF GuardFires, Sound, IInv, Types, States, ConnectionsBounded, Mounted
  <2>2. Rest
    BY <1>7, <2>1 DEF GuardFires, Rest, IInv, Types, Mounted, NothingBeforeMount,
      BadgeTellsTheFeed, SimOnlyWhenUnreachable, ForcedSimIsAlone
  <2> QED
    BY <1>0, <2>1, <2>2
<1>8. ASSUME NEW s \in Sockets, OnClose(s) PROVE IInv'
  <2>1. /\ ws' \in Sockets \union {NoSocket} /\ ready' \in [Sockets -> States]
        /\ attached' \in SUBSET Sockets
        /\ ready'[s] = "closed" /\ \A t \in Sockets \ {s} : ready'[t] = ready[t]
    BY <1>8 DEF OnClose, IInv, Types, States
  <2>2. CASE s \in attached
    <3>1. /\ Cardinality(attached) \in Nat /\ Cardinality(attached') = Cardinality(attached) - 1
          /\ Cardinality(attached) <= mounts /\ mounts \in Nat /\ mounts' = mounts
      BY <1>8, <2>2, Counting DEF OnClose, IInv, Types, ConnectionsBounded
    <3>2. Mounted /\ ws' = NoSocket /\ attached' = attached \ {s}
      BY <1>8, <2>2, NoneBeforeMount DEF OnClose
    <3>3. Sound
      BY <2>1, <3>1, <3>2 DEF Sound, IInv, Types, ConnectionsBounded, Mounted
    <3>4. mounts = 1 => \A t \in Sockets : ready'[t] # "open"
      BY <2>1, <2>2, OneCall DEF IInv, ConnectionsBounded
    <3>5. CASE preferSim
      <4>1. Rest
        BY <1>8, <2>2, <3>2, <3>5 DEF OnClose, Rest, IInv, Types, Mounted, NothingBeforeMount,
          BadgeTellsTheFeed, SimOnlyWhenUnreachable, ForcedSimIsAlone
      <4> QED
        BY <1>0, <3>3, <4>1
    <3>6. CASE ~preferSim
      <4>1. Fallback /\ UNCHANGED <<mounts, preferSim>>
        BY <1>8, <2>2, <3>6 DEF OnClose
      <4>2. status' = "sim" /\ simTimer' = TRUE /\ retryTimer' = TRUE
        BY <4>1 DEF Fallback, StartSim, IInv, Types, BadgeTellsTheFeed
      <4>3. Rest
        BY <3>2, <3>4, <3>6, <4>1, <4>2 DEF Rest, IInv, Types, Mounted, NothingBeforeMount,
          BadgeTellsTheFeed, SimOnlyWhenUnreachable, ForcedSimIsAlone
      <4> QED
        BY <1>0, <3>3, <4>3
    <3> QED
      BY <3>5, <3>6
  <2>3. CASE s \notin attached
    <3>1. UNCHANGED <<mounts, status, preferSim, ws, attached, simTimer, retryTimer, market>>
      BY <1>8, <2>3 DEF OnClose
    <3>2. Sound
      BY <2>1, <2>3, <3>1 DEF Sound, IInv, Types, ConnectionsBounded, Mounted
    <3>3. Rest
      BY <2>1, <2>3, <3>1 DEF Rest, IInv, Types, Mounted, NothingBeforeMount,
        BadgeTellsTheFeed, SimOnlyWhenUnreachable, ForcedSimIsAlone
    <3> QED
      BY <1>0, <3>2, <3>3
  <2> QED
    BY <2>2, <2>3
<1>9. CASE SimTicks
  BY <1>9 DEF SimTicks, IInv, Types, Mounted, NothingBeforeMount,
    ConnectionsBounded, BadgeTellsTheFeed, SimOnlyWhenUnreachable, ForcedSimIsAlone
<1>10. CASE Gateway \/ UNCHANGED vars
  BY <1>10 DEF Gateway, vars, storeVars, IInv, Types, Mounted, NothingBeforeMount,
    ConnectionsBounded, BadgeTellsTheFeed, SimOnlyWhenUnreachable, ForcedSimIsAlone
<1> QED
  BY <1>1, <1>2, <1>3, <1>4, <1>5, <1>6, <1>7, <1>8, <1>9, <1>10 DEF Next

LEMMA Invariance == Spec => []IInv
BY InvariantInit, InvariantStep, PTL DEF Spec

(* FeedStore.connect, teardown and the callbacks of a socket: whatever the *)
(* order of late answers, guards and closings, and however often start()   *)
(* ran, no more sockets can open or deliver than there were calls of it.   *)
THEOREM ConnectionsAreBounded == Spec => []ConnectionsBounded
<1>1. IInv => ConnectionsBounded
  BY DEF IInv
<1> QED
  BY <1>1, Invariance, PTL

(* onopen, onclose and startSim/stopSim: LIVE stands over an open          *)
(* connection, the simulator runs exactly under SIM, and with one call of  *)
(* start() SIM never stands over an open connection.                       *)
THEOREM BadgeIsRight == Spec => []BadgeTellsTheFeed
<1>1. IInv => BadgeTellsTheFeed
  BY DEF IInv
<1> QED
  BY <1>1, Invariance, PTL

(* setPreferSim(true): nothing reconnects for as long as the simulator is  *)
(* forced, and with one call of start() nothing live is shown.             *)
THEOREM ForcedSimAlone == Spec => []ForcedSimIsAlone
<1>1. IInv => ForcedSimIsAlone
  BY DEF IInv
<1> QED
  BY <1>1, Invariance, PTL
=============================================================================
