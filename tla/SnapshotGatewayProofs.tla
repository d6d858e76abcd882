------------------------- MODULE SnapshotGatewayProofs -------------------------
(***************************************************************************)
(* Proofs about SnapshotGateway, for every number of symbols, clients and  *)
(* snapshots and every size of the pipes and sockets: frames reach each    *)
(* browser in order, none is a repetition, and a task that takes itself to *)
(* be up to date is.                                                       *)
(***************************************************************************)
EXTENDS SnapshotGateway, SequenceTheorems, TLAPS

Frames == [Symbols -> Nat]

Types ==
  /\ emitted \in Frames
  /\ pipe \in [Symbols -> Seq(Nat)]
  /\ snapshots \in [Symbols -> [version : Nat, snap : Nat]]
  /\ there \in SUBSET Clients
  /\ client \in [Clients -> {"away", "idle", "sending", "gone"}]
  /\ last_versions \in [Clients -> Frames]
  /\ frame \in [Clients -> Frames]
  /\ wire \in [Clients -> Seq(Frames)]
  /\ received \in [Clients -> Seq(Frames)]

(* A symbol's pipe holds its snapshots in the order they were emitted, all *)
(* newer than the one in the map.                                          *)
PipeInOrder ==
  \A s \in Symbols :
    /\ snapshots[s].snap <= emitted[s]
    /\ \A i \in DOMAIN pipe[s] :
         pipe[s][i] # 0 => snapshots[s].snap < pipe[s][i] /\ pipe[s][i] <= emitted[s]
    /\ \A i, j \in DOMAIN pipe[s] :
         i < j /\ pipe[s][i] # 0 /\ pipe[s][j] # 0 => pipe[s][i] < pipe[s][j]

(* Frames only get newer, and any two of them differ: adjacent frames are  *)
(* not enough, since a browser that leaves loses those on the wire.        *)
SentInOrder(c) ==
  \A i, j \in DOMAIN Sent(c) :
    i < j => /\ Sent(c)[i] # Sent(c)[j]
             /\ \A s \in Symbols : Sent(c)[i][s] <= Sent(c)[j][s]

(* What a task knows about a symbol it has noted as a version: behind the  *)
(* map's, everything it sent is older than the map's snapshot.             *)
VersionsTell(c) ==
  /\ client[c] = "away" => last_versions[c] = None
  /\ \A s \in Symbols :
       /\ last_versions[c][s] <= snapshots[s].version
       /\ \A i \in DOMAIN Sent(c) :
            /\ Sent(c)[i][s] <= snapshots[s].snap
            /\ last_versions[c][s] < snapshots[s].version => Sent(c)[i][s] < snapshots[s].snap

UpToDate(c) ==
  \A s \in Symbols :
    c \in there /\ snapshots[s].version > 0 /\ last_versions[c][s] = snapshots[s].version
    => Sent(c) # << >> /\ Sent(c)[Len(Sent(c))][s] = snapshots[s].snap

ClientInv(c) == SentInOrder(c) /\ VersionsTell(c) /\ UpToDate(c)

IInv == Types /\ PipeInOrder /\ \A c \in Clients : ClientInv(c)

-----------------------------------------------------------------------------
(* Facts about sequences of frames. *)

LEMMA SentIsSeq ==
  ASSUME Types, NEW c \in Clients
  PROVE  Sent(c) \in Seq(Frames)
BY DEF Types, Sent

(* Dropping the middle of three sequences moves the elements after it and  *)
(* changes none.                                                           *)
LEMMA DropMiddle ==
  ASSUME NEW S, NEW r \in Seq(S), NEW w \in Seq(S), NEW f \in Seq(S),
         NEW i \in DOMAIN (r \o f)
  PROVE  LET k == IF i <= Len(r) THEN i ELSE i + Len(w)
         IN  k \in DOMAIN (r \o w \o f) /\ (r \o f)[i] = (r \o w \o f)[k]
OBVIOUS

(* Dropping the end changes none of the elements that stay. *)
LEMMA DropEnd ==
  ASSUME NEW S, NEW r \in Seq(S), NEW w \in Seq(S), NEW i \in DOMAIN r
  PROVE  i \in DOMAIN (r \o w) /\ (r \o w)[i] = r[i]
OBVIOUS

(* A step that leaves a client and the map alone leaves its invariant.     *)
LEMMA Untouched ==
  ASSUME NEW c \in Clients, ClientInv(c),
         snapshots' = snapshots, c \in there' <=> c \in there,
         client'[c] = client[c], last_versions'[c] = last_versions[c],
         frame'[c] = frame[c], wire'[c] = wire[c], received'[c] = received[c]
  PROVE  ClientInv(c)'
<1>1. Sent(c)' = Sent(c)
  BY DEF Sent
<1> QED
  BY <1>1 DEF ClientInv, SentInOrder, VersionsTell, UpToDate, None

-----------------------------------------------------------------------------
LEMMA InvariantInit == Init => IInv
<1> SUFFICES ASSUME Init PROVE IInv
  OBVIOUS
<1>1. Types
  BY GatewayAssumption DEF Init, Types, Frames, None
<1>2. PipeInOrder
  BY DEF Init, PipeInOrder, None
<1>3. ASSUME NEW c \in Clients PROVE ClientInv(c)
  <2>1. Sent(c) = << >>
    BY DEF Init, Sent
  <2> QED
    BY <2>1 DEF Init, None, ClientInv, SentInOrder, VersionsTell, UpToDate
<1> QED
  BY <1>1, <1>2, <1>3 DEF IInv

(* run_daemon's callback: a snapshot or another line joins the pipe. *)
LEMMA EmitStep ==
  ASSUME IInv, NEW s \in Symbols, EmitSnapshot(s) \/ EmitNoise(s)
  PROVE  IInv'
<1>1. PICK x \in Nat : /\ pipe' = [pipe EXCEPT ![s] = Append(@, x)]
                       /\ emitted' = [emitted EXCEPT ![s] = IF x = 0 THEN @ ELSE x]
                       /\ x = 0 \/ x = emitted[s] + 1
                       /\ UNCHANGED <<snapshots, clientVars>>
  <2>1. CASE EmitSnapshot(s)
    <3>1. emitted[s] + 1 \in Nat /\ emitted[s] + 1 # 0
      BY DEF IInv, Types, Frames
    <3> QED
      BY <2>1, <3>1 DEF EmitSnapshot
  <2>2. CASE EmitNoise(s)
    <3>1. emitted = [emitted EXCEPT ![s] = @]
      BY DEF IInv, Types, Frames
    <3> QED
      BY <2>2, <3>1 DEF EmitNoise
  <2> QED
    BY <2>1, <2>2
<1>2. Types'
  BY <1>1 DEF IInv, Types, Frames, clientVars
<1>3. PipeInOrder'
  <2> SUFFICES ASSUME NEW t \in Symbols
               PROVE  /\ snapshots'[t].snap <= emitted'[t]
                      /\ \A i \in DOMAIN pipe'[t] :
                           pipe'[t][i] # 0 => /\ snapshots'[t].snap < pipe'[t][i]
                                              /\ pipe'[t][i] <= emitted'[t]
                      /\ \A i, j \in DOMAIN pipe'[t] :
                           i < j /\ pipe'[t][i] # 0 /\ pipe'[t][j] # 0
                             => pipe'[t][i] < pipe'[t][j]
    BY DEF PipeInOrder
  <2>1. CASE t # s
    BY <1>1, <2>1 DEF IInv, PipeInOrder, Types, Frames
  <2>2. CASE t = s
    <3> DEFINE p == pipe[s]
    <3>1. /\ p \in Seq(Nat) /\ pipe'[s] = Append(p, x) /\ snapshots' = snapshots
          /\ emitted'[s] = IF x = 0 THEN emitted[s] ELSE emitted[s] + 1
          /\ emitted[s] \in Nat /\ snapshots[s].snap \in Nat
      BY <1>1 DEF IInv, Types, Frames
    <3>2. /\ snapshots[s].snap <= emitted[s]
          /\ \A i \in 1 .. Len(p) : p[i] # 0 => snapshots[s].snap < p[i] /\ p[i] <= emitted[s]
          /\ \A i, j \in 1 .. Len(p) : i < j /\ p[i] # 0 /\ p[j] # 0 => p[i] < p[j]
      BY <3>1, SMTT(30) DEF IInv, PipeInOrder
    <3>3. /\ DOMAIN pipe'[s] = 1 .. Len(p) + 1
          /\ \A i \in 1 .. Len(p) : pipe'[s][i] = p[i] /\ p[i] \in Nat
          /\ pipe'[s][Len(p) + 1] = x /\ Len(p) \in Nat
      BY <3>1
    <3>4. x = 0 \/ x = emitted[s] + 1
      BY <1>1
    <3> HIDE DEF p
    <3>5. snapshots'[s].snap <= emitted'[s]
      BY <3>1, <3>2, <3>4
    <3>6. \A i \in 1 .. Len(p) + 1 :
            pipe'[s][i] # 0 => snapshots'[s].snap < pipe'[s][i] /\ pipe'[s][i] <= emitted'[s]
      <4> TAKE i \in 1 .. Len(p) + 1
      <4>1. i \in 1 .. Len(p) \/ i = Len(p) + 1
        BY <3>3
      <4> QED
        BY <3>1, <3>2, <3>3, <3>4, <4>1
    <3>7. \A i, j \in 1 .. Len(p) + 1 :
            i < j /\ pipe'[s][i] # 0 /\ pipe'[s][j] # 0 => pipe'[s][i] < pipe'[s][j]
      <4> TAKE i, j \in 1 .. Len(p) + 1
      <4>1. i < j => i \in 1 .. Len(p) /\ (j \in 1 .. Len(p) \/ j = Len(p) + 1)
        BY <3>3
      <4> QED
        BY <3>1, <3>2, <3>3, <3>4, <4>1
    <3> QED
      BY <2>2, <3>3, <3>5, <3>6, <3>7
  <2> QED
    BY <2>1, <2>2
<1>4. ASSUME NEW c \in Clients PROVE ClientInv(c)'
  BY <1>1, Untouched DEF IInv, clientVars
<1> QED
  BY <1>2, <1>3, <1>4 DEF IInv

(* The reader task: the snapshot it stores is newer than the one in the    *)
(* map, and so than every frame any client was sent.                       *)
LEMMA ReadStep ==
  ASSUME IInv, NEW s \in Symbols, ReadLine(s)
  PROVE  IInv'
<1> DEFINE x == Head(pipe[s])
<1>1. /\ pipe[s] \in Seq(Nat) /\ pipe[s] # << >> /\ x \in Nat /\ x = pipe[s][1]
      /\ pipe' = [pipe EXCEPT ![s] = Tail(pipe[s])]
      /\ snapshots' = IF x = 0 THEN snapshots
                      ELSE [snapshots EXCEPT ![s] = [version |-> @.version + 1, snap |-> x]]
      /\ UNCHANGED <<emitted, clientVars>>
  BY DEF ReadLine, IInv, Types
<1>2. Types'
  BY <1>1 DEF IInv, Types, Frames, clientVars
<1>3. \A t \in Symbols : /\ t # s => snapshots'[t] = snapshots[t]
                         /\ x = 0 => snapshots'[t] = snapshots[t]
  BY <1>1 DEF IInv, Types
<1>4. x # 0 => /\ snapshots'[s].version = snapshots[s].version + 1
               /\ snapshots'[s].snap = x /\ snapshots[s].snap < x /\ x <= emitted[s]
  BY <1>1 DEF IInv, Types, PipeInOrder
<1>5. PipeInOrder'
  <2> SUFFICES ASSUME NEW t \in Symbols
               PROVE  /\ snapshots'[t].snap <= emitted'[t]
                      /\ \A i \in DOMAIN pipe'[t] :
                           pipe'[t][i] # 0 => /\ snapshots'[t].snap < pipe'[t][i]
                                              /\ pipe'[t][i] <= emitted'[t]
                      /\ \A i, j \in DOMAIN pipe'[t] :
                           i < j /\ pipe'[t][i] # 0 /\ pipe'[t][j] # 0
                             => pipe'[t][i] < pipe'[t][j]
    BY DEF PipeInOrder
  <2>1. CASE t # s
    BY <1>1, <1>3, <2>1 DEF IInv, PipeInOrder, Types
  <2>2. CASE t = s
    <3>1. /\ pipe'[s] = Tail(pipe[s]) /\ emitted' = emitted
          /\ DOMAIN pipe'[s] = 1 .. Len(pipe[s]) - 1
          /\ \A i \in DOMAIN pipe'[s] : /\ pipe'[s][i] = pipe[s][i + 1]
                                        /\ i \in Nat /\ i + 1 \in DOMAIN pipe[s]
                                        /\ 1 < i + 1 /\ 1 \in DOMAIN pipe[s]
      BY <1>1, SMTT(30) DEF IInv, Types
    <3> HIDE DEF x
    <3> QED
      BY <1>1, <1>3, <1>4, <2>2, <3>1 DEF IInv, PipeInOrder
  <2> QED
    BY <2>1, <2>2
<1>6. ASSUME NEW c \in Clients PROVE ClientInv(c)'
  <2>1. Sent(c)' = Sent(c) /\ Sent(c) \in Seq(Frames) /\ last_versions[c] \in Frames
    BY <1>1, SentIsSeq DEF Sent, clientVars, IInv, Types
  <2>2. SentInOrder(c)'
    BY <2>1 DEF SentInOrder, IInv, ClientInv
  <2>3. CASE x = 0
    BY <1>1, <2>3, Untouched DEF IInv, clientVars
  <2>4. CASE x # 0
    <3>1. \A t \in Symbols : /\ snapshots[t].snap \in Nat /\ snapshots[t].version \in Nat
                             /\ last_versions[c][t] \in Nat
                             /\ \A i \in DOMAIN Sent(c) : Sent(c)[i][t] \in Nat
      BY <2>1 DEF IInv, Types, Frames
    <3>2. VersionsTell(c)'
      <4>1. client[c] = "away" => last_versions[c] = None
        BY DEF IInv, ClientInv, VersionsTell
      <4>2. \A t \in Symbols :
              /\ last_versions[c][t] <= snapshots[t].version
              /\ \A i \in DOMAIN Sent(c) :
                   /\ Sent(c)[i][t] <= snapshots[t].snap
                   /\ last_versions[c][t] < snapshots[t].version
                        => Sent(c)[i][t] < snapshots[t].snap
        BY DEF IInv, ClientInv, VersionsTell
      <4>3. last_versions' = last_versions /\ client' = client
        BY <1>1 DEF clientVars
      <4> HIDE DEF x
      <4>4. ASSUME NEW t \in Symbols
            PROVE  /\ last_versions[c][t] <= snapshots'[t].version
                   /\ \A i \in DOMAIN Sent(c) :
                        /\ Sent(c)[i][t] <= snapshots'[t].snap
                        /\ last_versions[c][t] < snapshots'[t].version
                             => Sent(c)[i][t] < snapshots'[t].snap
        <5>1. CASE t # s
          BY <1>3, <4>2, <5>1
        <5>2. CASE t = s
          <6>1. x \in Nat
            BY <1>1
          <6> QED
            BY <1>4, <2>4, <3>1, <4>2, <5>2, <6>1
        <5> QED
          BY <5>1, <5>2
      <4>5. None' = None
        BY DEF None
      <4> QED
        BY <2>1, <4>1, <4>3, <4>4, <4>5 DEF VersionsTell
    <3>3. UpToDate(c)'
      BY <1>1, <1>3, <1>4, <2>1, <2>4, <3>1
      DEF VersionsTell, UpToDate, IInv, ClientInv, clientVars
    <3> QED
      BY <2>2, <3>2, <3>3 DEF ClientInv
  <2> QED
    BY <2>3, <2>4
<1> QED
  BY <1>2, <1>5, <1>6 DEF IInv

-----------------------------------------------------------------------------
(* The tasks of a client touch no other client, and neither the pipes nor  *)
(* the map: what they must keep is the invariant of the one client.        *)
LEMMA ClientSteps ==
  ASSUME IInv, NEW c \in Clients, UNCHANGED gatewayVars, Types', ClientInv(c)',
         \A d \in Clients \ {c} :
           /\ d \in there' <=> d \in there
           /\ client'[d] = client[d] /\ last_versions'[d] = last_versions[d]
           /\ frame'[d] = frame[d] /\ wire'[d] = wire[d] /\ received'[d] = received[d]
  PROVE  IInv'
<1>1. PipeInOrder'
  BY DEF gatewayVars, IInv, PipeInOrder
<1>2. ASSUME NEW d \in Clients PROVE ClientInv(d)'
  BY <1>2, Untouched DEF IInv, gatewayVars
<1> QED
  BY <1>1, <1>2 DEF IInv

(* A client that connects has been sent nothing. *)
LEMMA ConnectStep ==
  ASSUME IInv, NEW c \in Clients, Connect(c)
  PROVE  IInv'
<1>1. Types'
  BY DEF Connect, IInv, Types, gatewayVars
<1>2. Sent(c)' = Sent(c) /\ client[c] = "away" /\ client'[c] = "idle"
  BY DEF Connect, IInv, Types, Sent
<1>3. last_versions' = last_versions /\ snapshots' = snapshots
  BY DEF Connect, gatewayVars
<1>4. SentInOrder(c)' /\ VersionsTell(c)'
  BY <1>2, <1>3 DEF IInv, ClientInv, SentInOrder, VersionsTell
<1>5. UpToDate(c)'
  <2>1. \A s \in Symbols : last_versions[c][s] = 0
    BY <1>2 DEF IInv, ClientInv, VersionsTell, None
  <2> QED
    BY <1>3, <2>1 DEF UpToDate
<1> QED
  BY <1>1, <1>4, <1>5, ClientSteps DEF Connect, ClientInv, IInv, Types

(* A frame that moves along, from the task to the wire or from the wire to *)
(* the browser, leaves what was sent as it is.                             *)
LEMMA MoveStep ==
  ASSUME IInv, NEW c \in Clients, SendBatch(c) \/ Receive(c)
  PROVE  IInv'
<1>1. Types'
  <2>1. CASE SendBatch(c)
    BY <2>1 DEF SendBatch, IInv, Types, gatewayVars
  <2>2. CASE Receive(c)
    <3>1. Head(wire[c]) \in Frames /\ Tail(wire[c]) \in Seq(Frames)
      BY <2>2 DEF Receive, IInv, Types
    <3> QED
      BY <2>2, <3>1 DEF Receive, IInv, Types, gatewayVars
  <2> QED
    BY <2>1, <2>2
<1>2. Sent(c)' = Sent(c)
  <2> DEFINE r == received[c]
             w == wire[c]
  <2>1. r \in Seq(Frames) /\ w \in Seq(Frames) /\ frame[c] \in Frames
    BY DEF IInv, Types
  <2>2. CASE SendBatch(c)
    <3>1. Sent(c) = r \o w \o <<frame[c]>>
      BY <2>2 DEF SendBatch, Sent
    <3>2. Sent(c)' = r \o Append(w, frame[c]) \o << >>
      BY <2>2 DEF SendBatch, Sent, IInv, Types
    <3> HIDE DEF r, w
    <3> QED
      BY <2>1, <3>1, <3>2
  <2>3. CASE Receive(c)
    <3> DEFINE f == IF client[c] = "sending" THEN <<frame[c]>> ELSE << >>
    <3>1. Sent(c) = r \o w \o f /\ f \in Seq(Frames) /\ w # << >>
      BY <2>1, <2>3 DEF Receive, Sent
    <3>2. Sent(c)' = Append(r, Head(w)) \o Tail(w) \o f
      BY <2>3 DEF Receive, Sent, IInv, Types
    <3> HIDE DEF r, w, f
    <3>3. Append(r, Head(w)) \o Tail(w) = r \o w
      BY <2>1, <3>1
    <3> QED
      BY <3>1, <3>2, <3>3
  <2> QED
    BY <2>2, <2>3
<1>3. /\ there' = there /\ snapshots' = snapshots /\ last_versions' = last_versions
      /\ client'[c] = "away" <=> client[c] = "away"
  BY DEF SendBatch, Receive, gatewayVars, IInv, Types
<1>4. ClientInv(c)'
  BY <1>2, <1>3 DEF IInv, ClientInv, SentInOrder, VersionsTell, UpToDate, None
<1> QED
  BY <1>1, <1>4, ClientSteps DEF SendBatch, Receive, IInv, Types

(* A browser that leaves, and a send that fails on that account, lose      *)
(* frames: those that stay keep their order.                               *)
LEMMA LossStep ==
  ASSUME IInv, NEW c \in Clients, BrowserLeaves(c) \/ SendFails(c)
  PROVE  IInv'
<1>1. Types'
  <2>1. CASE BrowserLeaves(c)
    <3>1. << >> \in Seq(Frames)
      OBVIOUS
    <3> QED
      BY <2>1, <3>1 DEF BrowserLeaves, IInv, Types, gatewayVars
  <2>2. CASE SendFails(c)
    BY <2>2 DEF SendFails, IInv, Types, gatewayVars
  <2> QED
    BY <2>1, <2>2
<1>2. c \notin there' /\ snapshots' = snapshots /\ last_versions' = last_versions
      /\ (client'[c] = "away" => client[c] = "away")
  BY DEF BrowserLeaves, SendFails, gatewayVars, IInv, Types
<1> DEFINE r == received[c]
           w == wire[c]
           f == IF client[c] = "sending" THEN <<frame[c]>> ELSE << >>
<1>3. r \in Seq(Frames) /\ w \in Seq(Frames) /\ f \in Seq(Frames) /\ Sent(c) = r \o w \o f
  BY DEF IInv, Types, Sent
<1>4. Sent(c)' = r \o f \/ Sent(c)' = r \o w
  <2>1. CASE BrowserLeaves(c)
    <3>1. Sent(c)' = r \o << >> \o f
      BY <2>1 DEF BrowserLeaves, Sent, IInv, Types
    <3> HIDE DEF r, w, f
    <3> QED
      BY <1>3, <3>1
  <2>2. CASE SendFails(c)
    <3>1. Sent(c)' = r \o w \o << >>
      BY <2>2 DEF SendFails, Sent, IInv, Types
    <3> HIDE DEF r, w, f
    <3> QED
      BY <1>3, <3>1
  <2> QED
    BY <2>1, <2>2
<1>5. \E place \in [DOMAIN Sent(c)' -> Nat] :
        /\ \A i \in DOMAIN Sent(c)' :
             place[i] \in DOMAIN Sent(c) /\ Sent(c)'[i] = Sent(c)[place[i]]
        /\ \A i, j \in DOMAIN Sent(c)' : i < j => place[i] < place[j]
  <2> HIDE DEF r, w, f
  <2>1. CASE Sent(c)' = r \o f
    <3> DEFINE place == [i \in DOMAIN (r \o f) |-> IF i <= Len(r) THEN i ELSE i + Len(w)]
    <3>1. \A i \in DOMAIN (r \o f) :
            place[i] \in DOMAIN (r \o w \o f) /\ (r \o f)[i] = (r \o w \o f)[place[i]]
      BY <1>3, DropMiddle, SMTT(30)
    <3>2. \A i, j \in DOMAIN (r \o f) : i < j => place[i] < place[j]
      BY <1>3
    <3>3. place \in [DOMAIN (r \o f) -> Nat]
      BY <1>3
    <3> QED
      BY <1>3, <2>1, <3>1, <3>2, <3>3
  <2>2. CASE Sent(c)' = r \o w
    <3> DEFINE place == [i \in DOMAIN (r \o w) |-> i]
    <3>1. r \o w \in Seq(Frames)
      BY <1>3
    <3>2. \A i \in DOMAIN (r \o w) :
            place[i] \in DOMAIN (r \o w \o f) /\ (r \o w)[i] = (r \o w \o f)[place[i]]
      BY <1>3, <3>1, DropEnd
    <3>3. place \in [DOMAIN (r \o w) -> Nat]
      BY <3>1
    <3>4. \A i, j \in DOMAIN (r \o w) : i < j => place[i] < place[j]
      OBVIOUS
    <3> HIDE DEF place
    <3> QED
      BY <1>3, <2>2, <3>2, <3>3, <3>4
  <2> QED
    BY <1>4, <2>1, <2>2
<1>6. SentInOrder(c)' /\ VersionsTell(c)'
  BY <1>2, <1>5 DEF IInv, ClientInv, SentInOrder, VersionsTell, None
<1>7. UpToDate(c)'
  BY <1>2 DEF UpToDate
<1> QED
  BY <1>1, <1>6, <1>7, ClientSteps DEF BrowserLeaves, SendFails, ClientInv, IInv, Types

(* The batch: the whole map, once some version is ahead.  Older than the   *)
(* map in that symbol, no frame sent before can equal it.                  *)
LEMMA BuildStep ==
  ASSUME IInv, NEW c \in Clients, BuildBatch(c)
  PROVE  IInv'
<1> DEFINE q == Sent(c)
<1>1. /\ Current \in Frames /\ Versions \in Frames
      /\ \A s \in Symbols : /\ Current[s] = snapshots[s].snap
                            /\ Versions[s] = snapshots[s].version
                            /\ snapshots[s].snap \in Nat /\ snapshots[s].version \in Nat
  BY DEF Current, Versions, IInv, Types, Frames
<1>2. Types'
  BY <1>1 DEF BuildBatch, IInv, Types, gatewayVars
<1>3. /\ client[c] = "idle" /\ client'[c] = "sending" /\ last_versions'[c] = Versions
      /\ frame'[c] = Current /\ snapshots' = snapshots
  BY DEF BuildBatch, IInv, Types, gatewayVars
<1>4. Sent(c)' = Append(q, Current)
  <2> DEFINE r == received[c]
             w == wire[c]
  <2>1. r \in Seq(Frames) /\ w \in Seq(Frames)
    BY DEF IInv, Types
  <2>2. q = r \o w \o << >> /\ Sent(c)' = r \o w \o <<Current>>
    BY <1>3 DEF Sent, BuildBatch
  <2> HIDE DEF r, w, q
  <2> QED
    BY <1>1, <2>1, <2>2
<1>5. q \in Seq(Frames)
  BY SentIsSeq DEF IInv
<1>6. /\ Len(q) \in Nat /\ DOMAIN q = 1 .. Len(q)
      /\ Len(Sent(c)') = Len(q) + 1 /\ DOMAIN Sent(c)' = 1 .. Len(q) + 1
      /\ Sent(c)' # << >>
      /\ Sent(c)'[Len(q) + 1] = Current
      /\ \A i \in 1 .. Len(q) : Sent(c)'[i] = q[i] /\ q[i] \in Frames
  <2> HIDE DEF q
  <2> QED
    BY <1>1, <1>4, <1>5
<1>7. \A i \in 1 .. Len(q) : q[i] # Current /\ \A s \in Symbols : q[i][s] <= Current[s]
  <2> TAKE i \in 1 .. Len(q)
  <2>1. \A s \in Symbols :
          /\ q[i][s] <= Current[s] /\ q[i][s] \in Nat
          /\ last_versions[c][s] < snapshots[s].version => q[i][s] < Current[s]
    BY <1>1, <1>6 DEF IInv, ClientInv, VersionsTell, Frames
  <2>2. PICK s \in Symbols : last_versions[c][s] < snapshots[s].version
    BY DEF BuildBatch, Changed
  <2>3. q[i][s] < Current[s] /\ q[i][s] \in Nat /\ Current[s] \in Nat
    BY <1>1, <2>1, <2>2
  <2> QED
    BY <2>1, <2>3
<1>8. SentInOrder(c)'
  <2> HIDE DEF q
  <2>1. \A i, j \in 1 .. Len(q) :
          i < j => q[i] # q[j] /\ \A s \in Symbols : q[i][s] <= q[j][s]
    BY <1>6 DEF IInv, ClientInv, SentInOrder, q
  <2> SUFFICES ASSUME NEW i \in 1 .. Len(q) + 1, NEW j \in 1 .. Len(q) + 1, i < j
               PROVE  /\ Sent(c)'[i] # Sent(c)'[j]
                      /\ \A s \in Symbols : Sent(c)'[i][s] <= Sent(c)'[j][s]
    BY <1>6 DEF SentInOrder
  <2>2. i \in 1 .. Len(q) /\ (j \in 1 .. Len(q) \/ j = Len(q) + 1)
    BY <1>6
  <2> QED
    BY <1>6, <1>7, <2>1, <2>2
<1>9. VersionsTell(c)'
  <2> HIDE DEF q
  <2>1. ASSUME NEW i \in 1 .. Len(q) + 1, NEW s \in Symbols
        PROVE  Sent(c)'[i][s] <= snapshots[s].snap
    <3>1. i \in 1 .. Len(q) \/ i = Len(q) + 1
      BY <1>6
    <3> QED
      BY <1>1, <1>6, <1>7, <3>1
  <2>2. \A s \in Symbols : /\ Versions[s] <= snapshots[s].version
                           /\ ~(Versions[s] < snapshots[s].version)
    BY <1>1
  <2> QED
    BY <1>3, <1>6, <2>1, <2>2 DEF VersionsTell
<1>10. UpToDate(c)'
  <2> HIDE DEF q
  <2> QED
    BY <1>1, <1>3, <1>6 DEF UpToDate
<1> QED
  BY <1>2, <1>8, <1>9, <1>10, ClientSteps DEF BuildBatch, ClientInv, IInv, Types

LEMMA InvariantStep == IInv /\ [Next]_vars => IInv'
<1> SUFFICES ASSUME IInv, [Next]_vars
             PROVE  IInv'
  OBVIOUS
<1>1. ASSUME NEW s \in Symbols, EmitSnapshot(s) \/ EmitNoise(s) PROVE IInv'
  BY <1>1, EmitStep
<1>2. ASSUME NEW s \in Symbols, ReadLine(s) PROVE IInv'
  BY <1>2, ReadStep
<1>3. ASSUME NEW c \in Clients, Connect(c) PROVE IInv'
  BY <1>3, ConnectStep
<1>4. ASSUME NEW c \in Clients, BrowserLeaves(c) \/ SendFails(c) PROVE IInv'
  BY <1>4, LossStep
<1>5. ASSUME NEW c \in Clients, BuildBatch(c) PROVE IInv'
  BY <1>5, BuildStep
<1>6. ASSUME NEW c \in Clients, SendBatch(c) \/ Receive(c) PROVE IInv'
  BY <1>6, MoveStep
<1>7. CASE UNCHANGED vars
  <2>1. \A c \in Clients : ClientInv(c)'
    BY <1>7, Untouched DEF vars, gatewayVars, clientVars, IInv
  <2> QED
    BY <1>7, <2>1 DEF vars, gatewayVars, clientVars, IInv, Types, PipeInOrder
<1> QED
  BY <1>1, <1>2, <1>3, <1>4, <1>5, <1>6, <1>7 DEF Next, ClientStep

LEMMA Invariance == Spec => []IInv
BY InvariantInit, InvariantStep, PTL DEF Spec

(* The sender tasks of main.rs: whatever lines, ticks, slow sockets and    *)
(* departures interleave, a browser's snapshots of a symbol never go back. *)
THEOREM NeverOlderAlways == Spec => []NeverOlder
<1>1. IInv => NeverOlder
  BY DEF IInv, ClientInv, SentInOrder, NeverOlder
<1> QED
  BY <1>1, Invariance, PTL

(* "Only send if at least one symbol changed": no frame repeats its        *)
(* predecessor, even one after which others were lost.                     *)
THEOREM FramesAreNews == Spec => []EveryFrameIsNews
<1>1. IInv => EveryFrameIsNews
  <2> SUFFICES ASSUME IInv, NEW c \in Clients, NEW i \in DOMAIN Sent(c), i > 1
               PROVE  Sent(c)[i] # Sent(c)[i - 1]
    BY DEF EveryFrameIsNews
  <2>1. i - 1 \in DOMAIN Sent(c) /\ i - 1 < i
    BY SentIsSeq DEF IInv
  <2> QED
    BY <2>1 DEF IInv, ClientInv, SentInOrder
<1> QED
  BY <1>1, Invariance, PTL

(* last_versions, noted under the lock with the batch: a version a task    *)
(* has noted is one whose snapshot it has sent or is sending.              *)
THEOREM UpToDateIsSent == Spec => []UpToDateMeansSent
<1>1. IInv => UpToDateMeansSent
  BY DEF IInv, ClientInv, UpToDate, UpToDateMeansSent
<1> QED
  BY <1>1, Invariance, PTL
=============================================================================
