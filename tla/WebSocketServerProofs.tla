------------------------- MODULE WebSocketServerProofs -------------------------
(***************************************************************************)
(* Proofs about WebSocketServer, for every set of clients and descriptor   *)
(* numbers: no descriptor leaks, and none is in the list twice, though two *)
(* threads close and the kernel hands numbers out again; and every step of *)
(* the server is a step of the broadcast feed or none.                     *)
(***************************************************************************)
EXTENDS WebSocketServer, SequenceTheorems, WellFoundedInduction, TLAPS

Entries == [fd : Fds, handshake_done : BOOLEAN, recv_buf : Nat]

Types ==
  /\ clients_ \in Seq(Entries) /\ it \in Nat \ {0}
  /\ hand \in Fds \union {NoFd}
  /\ owner \in [Fds -> Clients \union {Closed}]
  /\ backlog \in Seq(Clients)
  /\ inbox \in [Clients -> Nat]
  /\ limit \in Fds

(* Who may be doing what: the lock is held by the thread that walks the    *)
(* list, a descriptor is in hand between accept and emplace_back, and      *)
(* there is no connection before the loop starts nor after it has ended.   *)
Phases ==
  /\ lock = "loop" <=> loop = "serving"
  /\ lock = "engine" <=> engine = "broadcast"
  /\ hand # NoFd <=> loop = "emplace"
  /\ loop = "accept" => backlog # << >>
  /\ loop \in {"none", "done"} => clients_ = << >>
  /\ engine = "start" => loop = "none" /\ ~listening
  /\ engine = "done" => loop \in {"none", "done"} /\ ~listening

Ownership ==
  /\ Open = Listed \union ({hand} \ {NoFd})
  /\ \A i, j \in DOMAIN clients_ : clients_[i].fd = clients_[j].fd => i = j
  /\ hand \notin Listed

IInv == Types /\ Phases /\ Ownership

-----------------------------------------------------------------------------
(* Every set of natural numbers that is not empty has a least element. *)
LEMMA LeastOf ==
  ASSUME NEW T \in SUBSET Nat, T # {}
  PROVE  \E x \in T : \A y \in T : x <= y
<1> DEFINE R == {p \in Nat \X Nat : p[1] < p[2]}
<1>1. IsWellFoundedOn(R, Nat)
  BY NatLessThanWellFounded DEF OpToRel
<1>2. \A a, b \in Nat : a < b => <<a, b>> \in R
  OBVIOUS
<1> HIDE DEF R
<1>3. PICK x \in T : \A y \in T : ~(<<y, x>> \in R)
  BY <1>1, WFMin
<1>4. ASSUME NEW y \in T PROVE x <= y
  <2>1. x \in Nat /\ y \in Nat
    OBVIOUS
  <2>2. ~(y < x)
    BY <1>2, <1>3, <2>1
  <2> QED
    BY <2>1, <2>2
<1> QED
  BY <1>4

(* The kernel has a lowest free descriptor to give whenever it has one. *)
LEMMA LowestFree ==
  ASSUME Free # {}
  PROVE  (CHOOSE f \in Free : \A g \in Free : f <= g) \in Free
<1>1. Free \in SUBSET Nat
  BY ServerAssumption DEF Free
<1> QED
  BY <1>1, LeastOf

(* Erasing an element shifts those behind it and keeps the others. *)
LEMMA RemoveAtShifts ==
  ASSUME NEW S, NEW s \in Seq(S), NEW k \in 1 .. Len(s)
  PROVE  /\ RemoveAt(s, k) \in Seq(S)
         /\ Len(RemoveAt(s, k)) = Len(s) - 1
         /\ \A i \in 1 .. Len(s) - 1 :
              RemoveAt(s, k)[i] = s[IF i < k THEN i ELSE i + 1]
<1> DEFINE a == SubSeq(s, 1, k - 1)
           b == SubSeq(s, k + 1, Len(s))
<1>1. a \in Seq(S) /\ Len(a) = k - 1 /\ \A i \in 1 .. k - 1 : a[i] = s[i]
  OBVIOUS
<1>2. b \in Seq(S) /\ Len(b) = Len(s) - k /\ \A i \in 1 .. Len(s) - k : b[i] = s[k + i]
  OBVIOUS
<1>3. RemoveAt(s, k) = a \o b
  BY DEF RemoveAt
<1> HIDE DEF a, b
<1>4. a \o b \in Seq(S) /\ Len(a \o b) = Len(s) - 1
  <2>1. a \o b \in Seq(S) /\ Len(a \o b) = Len(a) + Len(b)
    BY <1>1, <1>2, ConcatProperties
  <2> QED
    BY <1>1, <1>2, <2>1
<1>5. ASSUME NEW i \in 1 .. Len(s) - 1
      PROVE  (a \o b)[i] = s[IF i < k THEN i ELSE i + 1]
  <2>1. CASE i < k
    BY <1>1, <1>2, <2>1
  <2>2. CASE ~(i < k)
    <3>1. /\ i - (k - 1) \in 1 .. Len(s) - k /\ k + (i - (k - 1)) = i + 1
          /\ i \in k .. (k - 1) + (Len(s) - k)
      BY <2>2
    <3>2. (a \o b)[i] = b[i - (k - 1)]
      BY <1>1, <1>2, <3>1
    <3> QED
      BY <1>2, <2>2, <3>1, <3>2
  <2> QED
    BY <2>1, <2>2
<1> QED
  BY <1>3, <1>4, <1>5

-----------------------------------------------------------------------------
(* close_socket and erase, under the lock of either thread: the number     *)
(* leaves the kernel's table and the list together.                        *)
LEMMA EraseKeeps ==
  ASSUME IInv, it \in DOMAIN clients_, CloseAndErase, hand' = hand
  PROVE  /\ Ownership' /\ clients_' \in Seq(Entries) /\ it' = it
         /\ owner' \in [Fds -> Clients \union {Closed}]
<1>1. /\ clients_ \in Seq(Entries) /\ Len(clients_) \in Nat
      /\ it \in 1 .. Len(clients_) /\ clients_[it] \in Entries
  BY DEF IInv, Types
<1>2. /\ clients_' \in Seq(Entries) /\ Len(clients_') = Len(clients_) - 1
      /\ \A i \in 1 .. Len(clients_) - 1 : clients_'[i] = clients_[IF i < it THEN i ELSE i + 1]
  BY <1>1, RemoveAtShifts DEF CloseAndErase
<1>3. \A i, j \in 1 .. Len(clients_) : clients_[i].fd = clients_[j].fd => i = j
  BY <1>1 DEF IInv, Ownership
<1> DEFINE fd == clients_[it].fd
<1>4. fd \in Fds /\ fd \in Listed /\ owner' = [owner EXCEPT ![fd] = Closed]
  BY <1>1 DEF CloseAndErase, Entry, Entries, Listed
<1>5. Listed' = Listed \ {fd}
  <2>1. ASSUME NEW f \in Listed' PROVE f \in Listed \ {fd}
    <3>1. PICK i \in 1 .. Len(clients_) - 1 : f = clients_'[i].fd
      BY <1>2 DEF Listed
    <3> DEFINE k == IF i < it THEN i ELSE i + 1
    <3>2. k \in 1 .. Len(clients_) /\ k # it /\ f = clients_[k].fd
      BY <1>1, <1>2, <3>1
    <3> QED
      BY <1>1, <1>3, <3>2 DEF Listed
  <2>2. ASSUME NEW f \in Listed \ {fd} PROVE f \in Listed'
    <3>1. PICK k \in 1 .. Len(clients_) : f = clients_[k].fd
      BY <1>1 DEF Listed
    <3> DEFINE i == IF k < it THEN k ELSE k - 1
    <3>2. i \in 1 .. Len(clients_) - 1 /\ f = clients_'[i].fd
      BY <1>1, <1>2, <3>1
    <3> QED
      BY <1>2, <3>2 DEF Listed
  <2> QED
    BY <2>1, <2>2
<1>6. owner' \in [Fds -> Clients \union {Closed}] /\ Open' = Open \ {fd}
  BY <1>4 DEF IInv, Types, Open
<1>7. ASSUME NEW i \in DOMAIN clients_', NEW j \in DOMAIN clients_',
             clients_'[i].fd = clients_'[j].fd
      PROVE  i = j
  <2> DEFINE k(n) == IF n < it THEN n ELSE n + 1
  <2>1. i \in 1 .. Len(clients_) - 1 /\ j \in 1 .. Len(clients_) - 1
    BY <1>2
  <2>2. k(i) \in 1 .. Len(clients_) /\ k(j) \in 1 .. Len(clients_)
    BY <1>1, <2>1
  <2>3. clients_[k(i)].fd = clients_[k(j)].fd
    BY <1>2, <1>7, <2>1
  <2>4. k(i) = k(j)
    BY <1>3, <2>2, <2>3
  <2> QED
    BY <1>1, <2>1, <2>4
<1>8. fd # hand
  BY <1>4 DEF IInv, Ownership
<1>9. it' = it
  BY DEF CloseAndErase
<1> HIDE DEF fd
<1> QED
  BY <1>2, <1>4, <1>5, <1>6, <1>7, <1>8, <1>9 DEF IInv, Ownership

(* Updating an entry in place leaves its descriptor. *)
LEMMA KeepKeeps ==
  ASSUME IInv, it \in DOMAIN clients_, NEW done \in BOOLEAN, NEW buf \in Nat,
         Keep(done, buf), hand' = hand
  PROVE  Ownership' /\ clients_' \in Seq(Entries) /\ owner' = owner /\ it' = it + 1
<1>1. clients_ \in Seq(Entries) /\ clients_[it] \in Entries
  BY DEF IInv, Types
<1> DEFINE new == [clients_[it] EXCEPT !.handshake_done = done, !.recv_buf = buf]
<1>2. new \in Entries /\ new.fd = clients_[it].fd
  BY <1>1 DEF Entries
<1>3. clients_' = [clients_ EXCEPT ![it] = new]
  BY <1>1 DEF Keep
<1> HIDE DEF new
<1>4. /\ clients_' \in Seq(Entries) /\ DOMAIN clients_' = DOMAIN clients_
      /\ \A i \in DOMAIN clients_ : clients_'[i].fd = clients_[i].fd
  BY <1>1, <1>2, <1>3
<1>5. Listed' = Listed
  BY <1>4 DEF Listed
<1> QED
  BY <1>4, <1>5 DEF Keep, IInv, Ownership, Open

(* A step that leaves list, table and hand alone. *)
LEMMA OwnershipUnchanged ==
  ASSUME IInv, UNCHANGED <<clients_, owner, hand>>
  PROVE  Ownership'
BY DEF IInv, Ownership, Open, Listed

-----------------------------------------------------------------------------
LEMMA InvariantInit == Init => IInv
BY ServerAssumption
DEF Init, IInv, Types, Phases, Ownership, Open, Listed, NoFd, Server

(* The client behind a listed descriptor is there: no other thread can     *)
(* have closed it and left it in the list.                                 *)
LEMMA PeerIsClient ==
  ASSUME IInv, it \in DOMAIN clients_
  PROVE  Peer \in Clients /\ Entry \in Entries
<1>1. Entry \in Entries /\ Entry.fd \in Listed
  BY DEF IInv, Types, Entry, Listed
<1>2. Entry.fd \in Open
  BY <1>1 DEF IInv, Ownership
<1> QED
  BY <1>1, <1>2 DEF Open, Peer, IInv, Types

(* accept and emplace_back are two steps, the first without the lock.      *)
LEMMA AcceptStep == IInv /\ Accept => IInv'
<1> SUFFICES ASSUME IInv, Accept PROVE IInv'
  OBVIOUS
<1>1. hand = NoFd /\ NoFd \notin Fds /\ Closed \notin Clients
  BY ServerAssumption DEF Accept, IInv, Phases, NoFd
<1>2. CASE Free = {}
  BY <1>1, <1>2, OwnershipUnchanged
  DEF Accept, IInv, Types, Phases, sharedVars, engineVars, peerVars, wireVars
<1>3. CASE Free # {}
  <2> DEFINE fd == CHOOSE f \in Free : \A g \in Free : f <= g
  <2>1. fd \in Free
    BY <1>3, LowestFree
  <2> HIDE DEF fd
  <2>2. fd \in Fds /\ owner[fd] = Closed /\ fd # NoFd
    BY <1>1, <2>1 DEF Free
  <2>3. backlog # << >> /\ backlog \in Seq(Clients)
    BY DEF Accept, IInv, Phases, Types
  <2>4. Head(backlog) \in Clients /\ Tail(backlog) \in Seq(Clients)
    BY <2>3
  <2>5. /\ owner' = [owner EXCEPT ![fd] = Head(backlog)] /\ backlog' = Tail(backlog)
        /\ hand' = fd /\ loop' = "emplace"
        /\ UNCHANGED <<rfds, engineVars, sharedVars, listening, limit, peerVars, wireVars>>
    BY <1>3 DEF Accept, fd
  <2>6. Types'
    BY <2>2, <2>4, <2>5 DEF IInv, Types, sharedVars, wireVars
  <2>7. Phases'
    BY <2>2, <2>5 DEF Accept, IInv, Phases, sharedVars, engineVars
  <2>8. Open' = Open \union {fd} /\ fd \notin Open /\ Listed' = Listed
    BY <1>1, <2>2, <2>4, <2>5 DEF IInv, Types, Open, Listed, sharedVars
  <2>9. Ownership'
    BY <1>1, <2>2, <2>5, <2>8 DEF IInv, Ownership, sharedVars
  <2> QED
    BY <2>6, <2>7, <2>9 DEF IInv
<1> QED
  BY <1>2, <1>3

LEMMA EmplaceStep == IInv /\ Emplace => IInv'
<1> SUFFICES ASSUME IInv, Emplace PROVE IInv'
  OBVIOUS
<1> DEFINE new == [fd |-> hand, handshake_done |-> FALSE, recv_buf |-> 0]
           n == Len(clients_)
<1>1. hand \in Fds /\ hand # NoFd /\ hand' = NoFd /\ NoFd \notin Fds
  BY ServerAssumption DEF Emplace, IInv, Phases, Types, NoFd
<1>2. new \in Entries /\ new.fd = hand
  BY <1>1 DEF Entries
<1> HIDE DEF new
<1>3. clients_' = Append(clients_, new) /\ clients_ \in Seq(Entries)
  BY DEF Emplace, new, IInv, Types
<1>4. /\ clients_' \in Seq(Entries) /\ n \in Nat
      /\ DOMAIN clients_ = 1 .. n /\ DOMAIN clients_' = 1 .. n + 1
      /\ clients_'[n + 1].fd = hand
      /\ \A i \in 1 .. n : clients_'[i] = clients_[i]
  BY <1>2, <1>3
<1>5. Types' /\ Phases'
  BY <1>1, <1>4 DEF Emplace, IInv, Types, Phases, engineVars, kernelVars, wireVars
<1>6. Listed' = Listed \union {hand} /\ Open' = Open
  BY <1>4 DEF Listed, Open, Emplace, kernelVars
<1>7. ASSUME NEW i \in 1 .. n + 1, NEW j \in 1 .. n + 1, clients_'[i].fd = clients_'[j].fd
      PROVE  i = j
  <2>1. \A k \in 1 .. n : clients_[k].fd # hand
    BY <1>4 DEF IInv, Ownership, Listed
  <2>2. \A k, l \in 1 .. n : clients_[k].fd = clients_[l].fd => k = l
    BY <1>4 DEF IInv, Ownership
  <2>3. (i \in 1 .. n \/ i = n + 1) /\ (j \in 1 .. n \/ j = n + 1)
    BY <1>4
  <2> QED
    BY <1>4, <1>7, <2>1, <2>2, <2>3
<1>8. NoFd \notin Listed'
  BY <1>1, <1>5, <1>6 DEF IInv, Ownership, Types, Open
<1> QED
  BY <1>1, <1>4, <1>5, <1>6, <1>7, <1>8 DEF IInv, Ownership

(* One entry of the list, served by the loop's thread. *)
LEMMA ServeStep == IInv /\ Serve => IInv'
<1> SUFFICES ASSUME IInv, Serve PROVE IInv'
  OBVIOUS
<1>1. it \in DOMAIN clients_ /\ it + 1 \in Nat \ {0}
  BY DEF Serve, IInv, Types
<1>2. Peer \in Clients /\ Entry \in Entries
  BY <1>1, PeerIsClient
<1>3. UNCHANGED <<loop, hand, engine, lock, listening, backlog, limit>>
  BY DEF Serve, loopVars, engineVars
<1>4. loop = "serving"
  BY DEF Serve
<1>5. ASSUME clients_' \in Seq(Entries), it' \in Nat \ {0}, Ownership',
             owner' \in [Fds -> Clients \union {Closed}], inbox' \in [Clients -> Nat]
      PROVE  IInv'
  BY <1>3, <1>4, <1>5 DEF IInv, Types, Phases
<1>6. CASE GoOn /\ UNCHANGED wireVars
  <2>1. Ownership'
    BY <1>3, <1>6, OwnershipUnchanged DEF GoOn
  <2> QED
    BY <1>1, <1>5, <1>6, <2>1 DEF GoOn, wireVars, IInv, Types
<1>7. CASE NothingToRead
  BY <1>1, <1>3, <1>5, <1>7, EraseKeeps DEF NothingToRead, wireVars, IInv, Types
<1>8. CASE Read
  <2>1. Entry.handshake_done \in BOOLEAN /\ Buffered \in Nat /\ inbox' \in [Clients -> Nat]
    BY <1>2, <1>8 DEF Entries, Buffered, Read, IInv, Types
  <2>2. Keep(Entry.handshake_done, Buffered)
    BY <1>8 DEF Read
  <2> QED
    BY <1>1, <1>3, <1>5, <2>1, <2>2, KeepKeeps DEF IInv, Types
<1>9. CASE Answer
  <2>1. inbox' \in [Clients -> Nat]
    BY <1>2, <1>9 DEF Answer, IInv, Types
  <2>2. CASE CloseAndErase
    BY <1>1, <1>3, <1>5, <2>1, <2>2, EraseKeeps DEF IInv, Types
  <2>3. CASE Keep(TRUE, 0)
    BY <1>1, <1>3, <1>5, <2>1, <2>3, KeepKeeps DEF IInv, Types
  <2> QED
    BY <1>9, <2>2, <2>3 DEF Answer
<1> QED
  BY <1>6, <1>7, <1>8, <1>9 DEF Serve

(* One entry of the list, broadcast to by the engine's thread. *)
LEMMA BroadcastStep == IInv /\ BroadcastOne => IInv'
<1> SUFFICES ASSUME IInv, BroadcastOne PROVE IInv'
  OBVIOUS
<1>1. it \in DOMAIN clients_ /\ it + 1 \in Nat \ {0}
  BY DEF BroadcastOne, IInv, Types
<1>2. UNCHANGED <<loop, hand, engine, lock, listening, backlog, limit, inbox>>
  BY DEF BroadcastOne, loopVars, engineVars
<1>3. engine = "broadcast" /\ lock = "engine"
  BY DEF BroadcastOne, IInv, Phases
<1>4. CASE GoOn
  <2>1. Ownership'
    BY <1>2, <1>4, OwnershipUnchanged DEF GoOn
  <2> QED
    BY <1>1, <1>2, <1>4, <2>1 DEF GoOn, IInv, Types, Phases
<1>5. CASE CloseAndErase
  <2>1. /\ Ownership' /\ clients_' \in Seq(Entries) /\ it' = it
        /\ owner' \in [Fds -> Clients \union {Closed}]
    BY <1>1, <1>2, <1>5, EraseKeeps
  <2>2. loop \notin {"none", "done"}
    BY <1>1 DEF IInv, Phases
  <2> QED
    BY <1>2, <1>3, <2>1, <2>2 DEF IInv, Types, Phases
<1> QED
  BY <1>4, <1>5 DEF BroadcastOne

(* cleanup at the end of the loop closes every descriptor in the list,     *)
(* which by then is every open one.                                        *)
LEMMA CleanUpStep == IInv /\ CleanUp => IInv'
<1> SUFFICES ASSUME IInv, CleanUp PROVE IInv'
  OBVIOUS
<1>1. clients_' = << >> /\ hand' = hand /\ hand = NoFd /\ loop' = "done"
  BY DEF CleanUp, IInv, Phases
<1>2. Types'
  BY <1>1 DEF CleanUp, IInv, Types, wireVars
<1>3. Phases'
  BY <1>1 DEF CleanUp, IInv, Phases, engineVars
<1>4. Listed' = {} /\ Open' = {}
  <2>1. \A f \in Fds : owner[f] # Closed => f \in Listed
    BY <1>1 DEF IInv, Ownership, Open
  <2>2. \A f \in Fds : owner'[f] = Closed
    BY <2>1 DEF CleanUp
  <2> QED
    BY <1>1, <2>2 DEF Listed, Open
<1> QED
  BY <1>1, <1>2, <1>3, <1>4 DEF IInv, Ownership

(* The other steps of both threads move through their loops and take and   *)
(* give back the lock.                                                     *)
LEMMA ControlStep ==
  ASSUME IInv, \/ Collect \/ Select \/ BeginService \/ EndService
               \/ Start \/ Paced \/ BeginBroadcast \/ EndBroadcast \/ Stop \/ Joined
  PROVE  IInv'
<1> USE DEF IInv, Types, Phases, loopVars, engineVars, sharedVars, kernelVars, wireVars
<1>1. CASE Collect
  BY <1>1, OwnershipUnchanged DEF Collect
<1>2. CASE Select
  <2>1. loop = "select" /\ loop' \in {"check", "accept", "service"}
    BY <1>2 DEF Select, Again
  <2>2. loop' = "accept" => backlog # << >>
    BY <1>2 DEF Select, Again, Reports, Stale, Readable
  <2> QED
    BY <1>2, <2>1, <2>2, OwnershipUnchanged DEF Select
<1>3. CASE BeginService
  BY <1>3, OwnershipUnchanged DEF BeginService
<1>4. CASE EndService
  BY <1>4, OwnershipUnchanged DEF EndService
<1>5. CASE Start
  BY <1>5, OwnershipUnchanged DEF Start
<1>6. CASE Paced
  BY <1>6, OwnershipUnchanged DEF Paced
<1>7. CASE BeginBroadcast
  BY <1>7, OwnershipUnchanged DEF BeginBroadcast
<1>8. CASE EndBroadcast
  BY <1>8, OwnershipUnchanged DEF EndBroadcast
<1>9. CASE Stop
  BY <1>9, OwnershipUnchanged DEF Stop
<1>10. CASE Joined
  <2>1. << >> \in Seq(Clients)
    OBVIOUS
  <2> QED
    BY <1>10, <2>1, OwnershipUnchanged DEF Joined
<1> QED
  BY <1>1, <1>2, <1>3, <1>4, <1>5, <1>6, <1>7, <1>8, <1>9, <1>10

(* What the clients do reaches the server only through the kernel. *)
LEMMA ClientStep ==
  ASSUME IInv, NEW c \in Clients, Call(c) \/ Send(c) \/ Hangup(c)
  PROVE  IInv'
<1> USE DEF IInv, Types, Phases, loopVars, engineVars, sharedVars, kernelVars, wireVars
<1>1. CASE Call(c)
  <2>1. backlog' \in Seq(Clients) /\ backlog' # << >>
    BY <1>1 DEF Call
  <2> QED
    BY <1>1, <2>1, OwnershipUnchanged DEF Call
<1>2. CASE Send(c)
  <2>1. /\ inbox' = [inbox EXCEPT ![c] = @ + 1]
        /\ UNCHANGED <<loopVars, engineVars, sharedVars, kernelVars>>
    BY <1>2, Zenon DEF Send
  <2> QED
    BY <2>1, OwnershipUnchanged
<1>3. CASE Hangup(c)
  BY <1>3, OwnershipUnchanged DEF Hangup
<1> QED
  BY <1>1, <1>2, <1>3

LEMMA InvariantStep == IInv /\ [Next]_vars => IInv'
<1> SUFFICES ASSUME IInv, [Next]_vars
             PROVE  IInv'
  OBVIOUS
<1>1. CASE UNCHANGED vars
  BY <1>1, OwnershipUnchanged
  DEF vars, loopVars, engineVars, sharedVars, kernelVars, wireVars, IInv, Types, Phases
<1> QED
  BY <1>1, AcceptStep, EmplaceStep, ServeStep, BroadcastStep, CleanUpStep, ControlStep, ClientStep
  DEF Next, LoopStep, EngineStep

LEMMA Invariance == Spec => []IInv
BY InvariantInit, InvariantStep, PTL DEF Spec

(* WebSocketServer's descriptors: in the list once or just accepted, as    *)
(* long as they are open, and closed when main ends.                       *)
THEOREM NoDescriptorLeaks == Spec => []DescriptorsOwned
<1>1. IInv => DescriptorsOwned
  <2> SUFFICES ASSUME IInv PROVE engine = "done" => Open = {} /\ ~listening
    BY DEF IInv, Ownership, DescriptorsOwned
  <2>1. clients_ = << >> => Listed = {}
    BY DEF Listed
  <2> QED
    BY <2>1 DEF IInv, Phases, Ownership
<1> QED
  BY <1>1, Invariance, PTL

-----------------------------------------------------------------------------
(* What FoldLeft computes: h takes the last position of each set off.      *)

LEMMA SetInduction ==
  ASSUME NEW G \in SUBSET Nat, 0 \in G, \A n \in G : n + 1 \in G
  PROVE  \A n \in Nat : n \in G
<1> SUFFICES ASSUME Nat \ G # {} PROVE FALSE
  OBVIOUS
<1> DEFINE U == Nat \ G
<1>1. U \in SUBSET Nat /\ U # {}
  OBVIOUS
<1>2. PICK x \in U : \A y \in U : x <= y
  <2> HIDE DEF U
  <2> QED
    BY <1>1, LeastOf
<1>3. x \in Nat /\ x # 0 /\ x - 1 \in Nat /\ (x - 1) + 1 = x /\ ~(x <= x - 1)
  OBVIOUS
<1>4. x - 1 \in G
  BY <1>2, <1>3
<1>5. (x - 1) + 1 \in G
  BY <1>4
<1> QED
  BY <1>3, <1>5

LEMMA MaxIs ==
  ASSUME NEW S, S \subseteq Nat, NEW x \in S, \A y \in S : x >= y
  PROVE  Max(S) = x
<1>1. PICK m : m = Max(S)
  OBVIOUS
<1>2. m \in S /\ \A y \in S : m >= y
  BY <1>1 DEF Max
<1>3. m >= x /\ x >= m /\ m \in Nat /\ x \in Nat
  BY <1>2
<1> QED
  BY <1>1, <1>3

Unfolds(h, seq, n) ==
  h = [S \in SUBSET (1 .. n) |->
         IF S = {} THEN << >> ELSE WithSnapshot(h[S \ {Max(S)}], seq[Max(S)])]

LEMMA FoldExists ==
  ASSUME NEW seq, NEW n \in Nat
  PROVE  \E h : Unfolds(h, seq, n)
<1> DEFINE G == {k \in Nat : \E h : Unfolds(h, seq, k)}
<1>1. 0 \in G
  <2>1. 1 .. 0 = {} /\ SUBSET {} = {{}}
    OBVIOUS
  <2>2. Unfolds([S \in {{}} |-> << >>], seq, 0)
    BY <2>1 DEF Unfolds
  <2> QED
    BY <2>2
<1>2. ASSUME NEW k \in G PROVE k + 1 \in G
  <2>1. PICK h0 : Unfolds(h0, seq, k)
    OBVIOUS
  <2>2. k \in Nat /\ k + 1 \in Nat
    OBVIOUS
  <2> DEFINE D == SUBSET (1 .. k)
             D1 == SUBSET (1 .. k + 1)
             h == [S \in D1 |-> IF k + 1 \in S THEN WithSnapshot(h0[S \ {k + 1}], seq[k + 1]) ELSE h0[S]]
  <2>3. \A S \in D1 : S \subseteq Nat /\ S \ {k + 1} \in D /\ S \ {k + 1} \in D1
    <3>1. \A i \in 1 .. k + 1 : i \in Nat /\ (i # k + 1 => i \in 1 .. k)
      BY <2>2
    <3> QED
      BY <3>1
  <2>4. \A S \in D1 : k + 1 \notin S => S \in D
    BY <2>3
  <2>5. h0[{}] = << >> /\ \A S \in D : S # {} => h0[S] = WithSnapshot(h0[S \ {Max(S)}], seq[Max(S)])
    BY <2>1 DEF Unfolds
  <2>6. ASSUME NEW S \in D1, S # {}
        PROVE  h[S] = WithSnapshot(h[S \ {Max(S)}], seq[Max(S)])
    <3>1. CASE k + 1 \in S
      <4>1. Max(S) = k + 1
        <5>1. \A y \in S : k + 1 >= y
          OBVIOUS
        <5> QED
          BY <2>3, <3>1, <5>1, MaxIs
      <4>2. h[S] = WithSnapshot(h0[S \ {k + 1}], seq[k + 1])
        BY <3>1
      <4>3. h[S \ {k + 1}] = h0[S \ {k + 1}]
        BY <2>3
      <4> QED
        BY <4>1, <4>2, <4>3
    <3>2. CASE k + 1 \notin S
      <4>1. S \in D /\ h[S] = h0[S]
        BY <2>4, <3>2
      <4>2. PICK m : m = Max(S)
        OBVIOUS
      <4>3. S \ {m} \in D1 /\ k + 1 \notin S \ {m}
        BY <3>2
      <4>4. h[S \ {m}] = h0[S \ {m}]
        BY <4>3
      <4> QED
        BY <2>5, <2>6, <4>1, <4>2, <4>4
    <3> QED
      BY <3>1, <3>2
  <2>7. h[{}] = << >>
    BY <2>5
  <2>8. h = [S \in D1 |-> IF S = {} THEN << >> ELSE WithSnapshot(h[S \ {Max(S)}], seq[Max(S)])]
    <3>1. h = [S \in D1 |-> h[S]]
      OBVIOUS
    <3> HIDE DEF h, D1
    <3> QED
      BY <2>6, <2>7, <3>1
  <2> HIDE DEF h
  <2>9. Unfolds(h, seq, k + 1)
    BY <2>8 DEF Unfolds
  <2> QED
    BY <2>2, <2>9
<1>3. G \in SUBSET Nat
  OBVIOUS
<1>4. n \in G
  <2> HIDE DEF G
  <2> QED
    BY <1>1, <1>2, <1>3, SetInduction
<1> QED
  BY <1>4

(* r is the snapshots among the first elements of seq, one more at a time. *)
IsRun(r, seq) ==
  /\ r[0] = << >>
  /\ \A k \in 1 .. Len(seq) : r[k] = WithSnapshot(r[k - 1], seq[k])

LEMMA SnapshotsAreRun ==
  ASSUME NEW seq, Len(seq) \in Nat, DOMAIN seq = 1 .. Len(seq)
  PROVE  \E r : IsRun(r, seq) /\ r[Len(seq)] = SnapshotsIn(seq)
<1> DEFINE E(g) == [S \in SUBSET DOMAIN seq |->
                      IF S = {} THEN << >> ELSE WithSnapshot(g[S \ {Max(S)}], seq[Max(S)])]
           iter == CHOOSE g : g = E(g)
<1>1. PICK n : n = Len(seq)
  OBVIOUS
<1>2. n \in Nat /\ DOMAIN seq = 1 .. n
  BY <1>1
<1>3. \A g : g = E(g) <=> Unfolds(g, seq, n)
  BY <1>2 DEF Unfolds
<1>4. SnapshotsIn(seq) = iter[DOMAIN seq]
  BY DEF SnapshotsIn, FoldLeft, MapThenFoldSet
<1> HIDE DEF E
<1>5. \E h : h = E(h)
  BY <1>2, <1>3, FoldExists
<1>6. iter = E(iter)
  BY <1>5
<1> HIDE DEF iter
<1>7. Unfolds(iter, seq, n)
  BY <1>3, <1>6
<1> DEFINE r == [k \in 0 .. n |-> iter[1 .. k]]
<1>8. 1 .. 0 = {} /\ iter[{}] = << >>
  <2>1. 1 .. 0 = {}
    OBVIOUS
  <2>2. {} \in SUBSET (1 .. n)
    OBVIOUS
  <2> QED
    BY <1>7, <2>1, <2>2, Zenon DEF Unfolds
<1>9. r[0] = << >>
  <2>1. 0 \in 0 .. n
    BY <1>2
  <2> QED
    BY <1>8, <2>1
<1>10. ASSUME NEW k \in 1 .. n PROVE r[k] = WithSnapshot(r[k - 1], seq[k])
  <2>1. /\ k \in Nat /\ 1 .. k \subseteq Nat /\ k \in 1 .. k /\ 1 .. k \in SUBSET (1 .. n)
        /\ (1 .. k) \ {k} = 1 .. k - 1 /\ \A y \in 1 .. k : k >= y
    BY <1>2
  <2>2. Max(1 .. k) = k
    BY <2>1, MaxIs
  <2>3. 1 .. k # {}
    BY <2>1
  <2>4. iter[1 .. k] = WithSnapshot(iter[1 .. k - 1], seq[k])
    BY <1>7, <2>1, <2>2, <2>3 DEF Unfolds
  <2>5. k \in 0 .. n /\ k - 1 \in 0 .. n
    BY <1>2
  <2> QED
    BY <2>4, <2>5
<1>11. r[n] = iter[DOMAIN seq]
  BY <1>2
<1> HIDE DEF r
<1>12. IsRun(r, seq)
  BY <1>1, <1>9, <1>10 DEF IsRun
<1> QED
  BY <1>1, <1>4, <1>11, <1>12

(* Whatever was sent, one more item adds itself if it is a snapshot.       *)
LEMMA SnapshotsOfMore ==
  ASSUME NEW S, NEW seq \in Seq(S), NEW item \in S
  PROVE  SnapshotsIn(Append(seq, item)) = WithSnapshot(SnapshotsIn(seq), item)
<1>1. PICK n, t : n = Len(seq) /\ t = Append(seq, item)
  OBVIOUS
<1>2. /\ n \in Nat /\ DOMAIN seq = 1 .. n /\ Len(t) = n + 1 /\ DOMAIN t = 1 .. n + 1
      /\ t[n + 1] = item /\ (\A i \in 1 .. n : t[i] = seq[i]) /\ n + 1 \in 1 .. n + 1
      /\ (n + 1) - 1 = n /\ n + 1 \in Nat
  BY <1>1
<1>3. PICK r : IsRun(r, seq) /\ r[n] = SnapshotsIn(seq)
  BY <1>1, <1>2, SnapshotsAreRun
<1>4. PICK q : IsRun(q, t) /\ q[n + 1] = SnapshotsIn(t)
  <2>1. \E q : IsRun(q, t) /\ q[Len(t)] = SnapshotsIn(t)
    BY <1>2, SnapshotsAreRun
  <2> QED
    BY <1>2, <2>1
<1>5. q[n] = r[n]
  <2> DEFINE Kept(k) == q[k] = r[k]
             G == {k \in Nat : k <= n => Kept(k)}
  <2>1. Kept(0)
    BY <1>3, <1>4 DEF IsRun
  <2>2. ASSUME NEW k \in 1 .. n, Kept(k - 1) PROVE Kept(k)
    <3>1. k \in 1 .. n + 1 /\ t[k] = seq[k]
      BY <1>2
    <3>2. q[k] = WithSnapshot(q[k - 1], t[k])
      BY <1>2, <1>4, <3>1 DEF IsRun
    <3>3. r[k] = WithSnapshot(r[k - 1], seq[k])
      BY <1>1, <1>3 DEF IsRun
    <3> QED
      BY <2>2, <3>1, <3>2, <3>3
  <2> HIDE DEF Kept
  <2>3. 0 \in G
    BY <2>1
  <2>4. ASSUME NEW k \in G PROVE k + 1 \in G
    <3>1. k \in Nat /\ k + 1 \in Nat /\ (k + 1) - 1 = k /\ (k <= n => Kept(k))
      OBVIOUS
    <3>2. ASSUME k + 1 <= n PROVE Kept(k + 1)
      <4>1. k + 1 \in 1 .. n /\ k <= n
        BY <1>2, <3>1, <3>2
      <4> QED
        BY <2>2, <3>1, <4>1
    <3> QED
      BY <3>1, <3>2
  <2>5. \A k \in Nat : k \in G
    <3>1. G \in SUBSET Nat
      OBVIOUS
    <3> HIDE DEF G
    <3> QED
      BY <2>3, <2>4, <3>1, SetInduction
  <2>6. Kept(n)
    BY <1>2, <2>5
  <2> QED
    BY <2>6 DEF Kept
<1>6. q[n + 1] = WithSnapshot(q[n], item)
  BY <1>2, <1>4 DEF IsRun
<1> QED
  BY <1>1, <1>3, <1>4, <1>5, <1>6

LEMMA NoSnapshots == SnapshotsIn(<< >>) = << >>
<1>1. Len(<< >>) = 0 /\ DOMAIN << >> = 1 .. 0
  OBVIOUS
<1>2. PICK r : IsRun(r, << >>) /\ r[0] = SnapshotsIn(<< >>)
  <2>1. \E r : IsRun(r, << >>) /\ r[Len(<< >>)] = SnapshotsIn(<< >>)
    BY <1>1, SnapshotsAreRun
  <2> QED
    BY <1>1, <2>1
<1> QED
  BY <1>2 DEF IsRun

-----------------------------------------------------------------------------
(* The descriptors whose handshake is done, and those of them that the     *)
(* list holds from a position on.                                          *)
DoneFrom(list, i) == {list[j].fd : j \in {k \in i .. Len(list) : list[k].handshake_done}}
Done == DoneFrom(clients_, 1)

Sent == (1 .. MaxSnapshots) \union {Welcome, BadRequest, Cut}

SentTypes ==
  /\ got \in [Clients -> Seq(Sent)]
  /\ peer \in [Clients -> {"new", "there", "left"}]
  /\ newest \in Nat /\ snapshots \in Nat /\ newest <= snapshots /\ snapshots <= MaxSnapshots
  /\ engine = "broadcast" => newest > 0

(* A client has one descriptor; what it was sent begins with the 101 once  *)
(* its handshake is done and is nothing before.                            *)
OnePerClient == \A f, g \in Open : owner[f] = owner[g] => f = g

DoneAreGreeted ==
  \A f \in Open :
    /\ peer[owner[f]] # "new"
    /\ f \in Done => Greeted(owner[f])
    /\ f \notin Done => got[owner[f]] = << >>

CallersWait ==
  /\ \A i, j \in DOMAIN backlog : backlog[i] = backlog[j] => i = j
  /\ \A i \in DOMAIN backlog :
       backlog[i] \notin Held /\ got[backlog[i]] = << >> /\ peer[backlog[i]] # "new"
  /\ \A c \in Clients : peer[c] = "new" => got[c] = << >>

Connections == SentTypes /\ OnePerClient /\ DoneAreGreeted /\ CallersWait

FeedInv == IInv /\ Connections

-----------------------------------------------------------------------------
(* What the steps on an entry do to these sets. *)

LEMMA ListIs ==
  ASSUME IInv
  PROVE  /\ clients_ \in Seq(Entries) /\ Len(clients_) \in Nat /\ DOMAIN clients_ = 1 .. Len(clients_)
         /\ \A i \in DOMAIN clients_ : clients_[i] \in Entries
         /\ \A i, j \in DOMAIN clients_ : clients_[i].fd = clients_[j].fd => i = j
BY DEF IInv, Types, Ownership

LEMMA DoneFromMember ==
  ASSUME NEW list, NEW i, NEW f
  PROVE  f \in DoneFrom(list, i) <=> \E k \in i .. Len(list) : list[k].handshake_done /\ f = list[k].fd
BY Zenon DEF DoneFrom

LEMMA EntryIs ==
  ASSUME IInv, it \in DOMAIN clients_
  PROVE  /\ Entry.fd \in Fds /\ Entry.fd \in Listed /\ Entry.fd \in Open
         /\ Peer \in Clients /\ Peer = owner[Entry.fd] /\ Peer \in Held
         /\ Entry.fd \in Done <=> Entry.handshake_done
         /\ Entry.fd \in DoneFrom(clients_, it) <=> Entry.handshake_done
<1>1. Peer \in Clients /\ Entry \in Entries
  BY PeerIsClient
<1>2. Entry.fd \in Fds /\ Entry.fd \in Listed
  BY <1>1 DEF Entry, Entries, Listed
<1>3. Entry.fd \in Open /\ Peer = owner[Entry.fd]
  BY <1>2 DEF IInv, Ownership, Peer
<1>4. Peer \in Held
  BY <1>3 DEF Held
<1>5. Entry.fd \in Done <=> Entry.handshake_done
  <2>1. \A k \in DOMAIN clients_ : clients_[k].fd = Entry.fd => k = it
    BY ListIs DEF Entry
  <2>2. it \in 1 .. Len(clients_)
    BY ListIs
  <2>3. \A k \in 1 .. Len(clients_) : k \in DOMAIN clients_
    BY ListIs
  <2> QED
    BY <2>1, <2>2, <2>3, DoneFromMember, Zenon DEF Entry, Done
<1>6. Entry.fd \in DoneFrom(clients_, it) <=> Entry.handshake_done
  <2>1. it \in it .. Len(clients_) /\ it .. Len(clients_) \subseteq DOMAIN clients_
    BY ListIs
  <2>2. \A k \in DOMAIN clients_ : clients_[k].fd = Entry.fd => k = it
    BY ListIs DEF Entry
  <2> QED
    BY <2>1, <2>2, DoneFromMember, Zenon DEF Entry
<1> QED
  BY <1>1, <1>2, <1>3, <1>4, <1>5, <1>6

LEMMA DoneFromIs ==
  ASSUME IInv
  PROVE  /\ Done \subseteq Listed /\ Listed \subseteq Open
         /\ \A i \in Nat \ {0} : DoneFrom(clients_, i) \subseteq Done
         /\ \A i \in Nat : i > Len(clients_) => DoneFrom(clients_, i) = {}
<1>1. Done \subseteq Listed /\ Listed \subseteq Open
  BY ListIs, Zenon DEF Done, DoneFrom, Listed, IInv, Ownership
<1>2. ASSUME NEW i \in Nat \ {0} PROVE DoneFrom(clients_, i) \subseteq Done
  <2>1. i .. Len(clients_) \subseteq 1 .. Len(clients_)
    BY ListIs
  <2> QED
    BY <2>1, Zenon DEF Done, DoneFrom
<1>3. ASSUME NEW i \in Nat, i > Len(clients_) PROVE DoneFrom(clients_, i) = {}
  <2>1. i .. Len(clients_) = {}
    BY <1>3, ListIs
  <2> QED
    BY <2>1, Zenon DEF DoneFrom
<1> QED
  BY <1>1, <1>2, <1>3

(* The iterator goes on. *)
LEMMA PassedOver ==
  ASSUME IInv, it \in DOMAIN clients_
  PROVE  DoneFrom(clients_, it + 1) = DoneFrom(clients_, it) \ {Entry.fd}
<1>1. /\ it .. Len(clients_) = {it} \union (it + 1 .. Len(clients_)) /\ it \notin it + 1 .. Len(clients_)
      /\ it .. Len(clients_) \subseteq DOMAIN clients_
  BY ListIs
<1>2. \A k \in DOMAIN clients_ : clients_[k].fd = Entry.fd => k = it
  BY ListIs DEF Entry
<1>3. ASSUME NEW f PROVE f \in DoneFrom(clients_, it + 1) <=> f \in DoneFrom(clients_, it) /\ f # Entry.fd
  <2>1. \A k : k \in it .. Len(clients_) <=> k = it \/ k \in it + 1 .. Len(clients_)
    BY <1>1
  <2>2. \A k \in it + 1 .. Len(clients_) : clients_[k].fd # Entry.fd
    BY <1>1, <1>2
  <2>3. ASSUME f \in DoneFrom(clients_, it + 1) PROVE f \in DoneFrom(clients_, it) /\ f # Entry.fd
    <3>1. PICK k \in it + 1 .. Len(clients_) : clients_[k].handshake_done /\ f = clients_[k].fd
      BY <2>3, DoneFromMember
    <3>2. k \in it .. Len(clients_)
      BY <2>1
    <3> QED
      BY <2>2, <3>1, <3>2, DoneFromMember
  <2>4. ASSUME f \in DoneFrom(clients_, it), f # Entry.fd PROVE f \in DoneFrom(clients_, it + 1)
    <3>1. PICK k \in it .. Len(clients_) : clients_[k].handshake_done /\ f = clients_[k].fd
      BY <2>4, DoneFromMember
    <3>2. k # it
      BY <2>4, <3>1, Zenon DEF Entry
    <3>3. k \in it + 1 .. Len(clients_)
      BY <2>1, <3>2
    <3> QED
      BY <3>1, <3>3, DoneFromMember, Zenon
  <2> QED
    BY <2>3, <2>4
<1> QED
  BY <1>3

(* close_socket and erase: the entries behind shift, and none is passed.   *)
LEMMA ErasedFrom ==
  ASSUME NEW list \in Seq(Entries), NEW k \in 1 .. Len(list), NEW i \in 1 .. k,
         \A m, n \in 1 .. Len(list) : list[m].fd = list[n].fd => m = n
  PROVE  DoneFrom(RemoveAt(list, k), i) = DoneFrom(list, i) \ {list[k].fd}
<1> DEFINE rest == RemoveAt(list, k)
<1>1. /\ Len(rest) = Len(list) - 1 /\ Len(list) \in Nat
      /\ \A n \in 1 .. Len(list) - 1 : rest[n] = list[IF n < k THEN n ELSE n + 1]
  <2>1. /\ Len(RemoveAt(list, k)) = Len(list) - 1
        /\ \A n \in 1 .. Len(list) - 1 : RemoveAt(list, k)[n] = list[IF n < k THEN n ELSE n + 1]
    <3> HIDE DEF rest
    <3> QED
      BY RemoveAtShifts
  <2> QED
    BY <2>1
<1> HIDE DEF rest
<1>2. ASSUME NEW f, f \in DoneFrom(rest, i) PROVE f \in DoneFrom(list, i) /\ f # list[k].fd
  <2>1. PICK n \in i .. Len(rest) : rest[n].handshake_done /\ f = rest[n].fd
    BY <1>2, DoneFromMember
  <2> DEFINE m == IF n < k THEN n ELSE n + 1
  <2>2. m \in i .. Len(list) /\ m \in 1 .. Len(list) /\ m # k /\ n \in 1 .. Len(list) - 1
    BY <1>1
  <2>3. rest[n] = list[m]
    BY <1>1, <2>2
  <2> HIDE DEF m
  <2>4. list[m].handshake_done /\ f = list[m].fd
    BY <2>1, <2>3
  <2> QED
    BY <2>2, <2>4, DoneFromMember
<1>3. ASSUME NEW f, f \in DoneFrom(list, i), f # list[k].fd PROVE f \in DoneFrom(rest, i)
  <2>1. PICK m \in i .. Len(list) : list[m].handshake_done /\ f = list[m].fd
    BY <1>3, DoneFromMember
  <2>2. m # k
    BY <1>3, <2>1
  <2> DEFINE n == IF m < k THEN m ELSE m - 1
  <2>3. n \in i .. Len(rest) /\ n \in 1 .. Len(list) - 1 /\ m = IF n < k THEN n ELSE n + 1
    BY <1>1, <2>2
  <2>4. rest[n] = list[m]
    BY <1>1, <2>3
  <2> HIDE DEF n
  <2>5. rest[n].handshake_done /\ f = rest[n].fd
    BY <2>1, <2>4
  <2> QED
    BY <2>3, <2>5, DoneFromMember
<1> QED
  BY <1>2, <1>3 DEF rest

LEMMA Erased ==
  ASSUME IInv, it \in DOMAIN clients_, CloseAndErase
  PROVE  /\ Open' = Open \ {Entry.fd} /\ \A f \in Open' : owner'[f] = owner[f]
         /\ Done' = Done \ {Entry.fd} /\ it' = it
         /\ DoneFrom(clients_', it) = DoneFrom(clients_, it) \ {Entry.fd}
<1>1. it \in 1 .. Len(clients_) /\ 1 \in 1 .. it /\ it \in 1 .. it
  BY ListIs
<1>2. clients_' = RemoveAt(clients_, it) /\ owner' = [owner EXCEPT ![Entry.fd] = Closed] /\ it' = it
  BY DEF CloseAndErase
<1>3. \A m, n \in 1 .. Len(clients_) : clients_[m].fd = clients_[n].fd => m = n
  BY ListIs
<1>4. /\ DoneFrom(clients_', 1) = DoneFrom(clients_, 1) \ {Entry.fd}
      /\ DoneFrom(clients_', it) = DoneFrom(clients_, it) \ {Entry.fd}
  BY <1>1, <1>2, <1>3, ListIs, ErasedFrom DEF Entry
<1>5. Open' = Open \ {Entry.fd} /\ \A f \in Open' : owner'[f] = owner[f]
  BY <1>2, EntryIs DEF Open, IInv, Types
<1> QED
  BY <1>2, <1>4, <1>5 DEF Done

(* Updating an entry in place. *)
LEMMA KeptAsDone ==
  ASSUME IInv, it \in DOMAIN clients_, NEW done \in BOOLEAN, NEW buf \in Nat, Keep(done, buf)
  PROVE  /\ Open' = Open /\ owner' = owner
         /\ Done' \ {Entry.fd} = Done \ {Entry.fd}
         /\ Entry.fd \in Done' <=> done
<1> DEFINE new == [clients_[it] EXCEPT !.handshake_done = done, !.recv_buf = buf]
<1>1. /\ clients_ \in Seq(Entries) /\ clients_[it] \in Entries /\ it \in 1 .. Len(clients_)
      /\ Len(clients_) \in Nat
  BY ListIs
<1>2. new.fd = Entry.fd /\ (new.handshake_done <=> done)
  BY <1>1 DEF Entries, Entry
<1>3. clients_' = [clients_ EXCEPT ![it] = new] /\ owner' = owner
  BY <1>1 DEF Keep
<1> HIDE DEF new
<1>4. /\ Len(clients_') = Len(clients_) /\ clients_'[it] = new
      /\ \A k \in 1 .. Len(clients_) : k # it => clients_'[k] = clients_[k]
  BY <1>1, <1>3
<1>5. \A k \in 1 .. Len(clients_) : clients_[k].fd = Entry.fd => k = it
  BY <1>1, ListIs DEF Entry
<1>6. ASSUME NEW f, f # Entry.fd PROVE f \in Done' <=> f \in Done
  <2>1. ASSUME f \in Done PROVE f \in Done'
    <3>1. PICK k \in 1 .. Len(clients_) : clients_[k].handshake_done /\ f = clients_[k].fd
      BY <2>1, DoneFromMember DEF Done
    <3>2. k # it
      BY <1>6, <3>1 DEF Entry
    <3> QED
      BY <1>4, <3>1, <3>2, DoneFromMember DEF Done
  <2>2. ASSUME f \in Done' PROVE f \in Done
    <3>1. PICK k \in 1 .. Len(clients_) : clients_'[k].handshake_done /\ f = clients_'[k].fd
      BY <1>4, <2>2, DoneFromMember DEF Done
    <3>2. k # it
      BY <1>2, <1>4, <1>6, <3>1
    <3> QED
      BY <1>4, <3>1, <3>2, DoneFromMember DEF Done
  <2> QED
    BY <2>1, <2>2
<1>7. Entry.fd \in Done' <=> done
  <2>1. ASSUME done PROVE Entry.fd \in Done'
    <3>1. clients_'[it].handshake_done /\ Entry.fd = clients_'[it].fd
      BY <1>2, <1>4, <2>1
    <3> QED
      BY <1>1, <1>4, <3>1, DoneFromMember DEF Done
  <2>2. ASSUME Entry.fd \in Done' PROVE done
    <3>1. PICK k \in 1 .. Len(clients_) : clients_'[k].handshake_done /\ Entry.fd = clients_'[k].fd
      BY <1>4, <2>2, DoneFromMember DEF Done
    <3>2. k = it
      BY <1>4, <1>5, <3>1
    <3> QED
      BY <1>2, <1>4, <3>1, <3>2
  <2> QED
    BY <2>1, <2>2
<1>8. Open' = Open
  BY <1>3 DEF Open
<1> QED
  BY <1>3, <1>6, <1>7, <1>8

LEMMA Emplaced ==
  ASSUME IInv, Emplace
  PROVE  Open' = Open /\ owner' = owner /\ Done' = Done
<1> DEFINE new == [fd |-> hand, handshake_done |-> FALSE, recv_buf |-> 0]
           n == Len(clients_)
<1>1. ~new.handshake_done
  OBVIOUS
<1> HIDE DEF new
<1>2. clients_' = Append(clients_, new) /\ clients_ \in Seq(Entries)
  BY ListIs DEF Emplace, new
<1>3. /\ n \in Nat /\ Len(clients_') = n + 1 /\ clients_'[n + 1] = new
      /\ \A k \in 1 .. n : clients_'[k] = clients_[k] /\ k \in 1 .. n + 1
      /\ \A k \in 1 .. n + 1 : k \in 1 .. n \/ k = n + 1
  BY <1>2
<1>4. ASSUME NEW f PROVE f \in Done' <=> f \in Done
  <2>1. ASSUME f \in Done PROVE f \in Done'
    <3>1. PICK k \in 1 .. n : clients_[k].handshake_done /\ f = clients_[k].fd
      BY <2>1, DoneFromMember DEF Done
    <3> QED
      BY <1>3, <3>1, DoneFromMember DEF Done
  <2>2. ASSUME f \in Done' PROVE f \in Done
    <3>1. PICK k \in 1 .. n + 1 : clients_'[k].handshake_done /\ f = clients_'[k].fd
      BY <1>3, <2>2, DoneFromMember DEF Done
    <3>2. k \in 1 .. n
      BY <1>1, <1>3, <3>1
    <3> QED
      BY <1>3, <3>1, <3>2, DoneFromMember DEF Done
  <2> QED
    BY <2>1, <2>2
<1>5. owner' = owner /\ Open' = Open
  BY DEF Emplace, kernelVars, Open
<1> QED
  BY <1>4, <1>5

-----------------------------------------------------------------------------
(* A send adds one item to what one client was sent. *)
LEMMA SendAdds ==
  ASSUME got \in [Clients -> Seq(Sent)], Peer \in Clients, NEW item \in Sent, Sends(item)
  PROVE  /\ got' \in [Clients -> Seq(Sent)] /\ \A c \in Clients \ {Peer} : got'[c] = got[c]
         /\ got'[Peer] # << >>
         /\ got[Peer] = << >> => got'[Peer][1] = item
         /\ got[Peer] # << >> => got'[Peer][1] = got[Peer][1]
         /\ SnapshotsIn(got'[Peer]) = WithSnapshot(SnapshotsIn(got[Peer]), item)
<1>1. PICK seq \in Seq(Sent) : seq = got[Peer]
  OBVIOUS
<1>2. /\ got' \in [Clients -> Seq(Sent)] /\ \A c \in Clients \ {Peer} : got'[c] = got[c]
      /\ got'[Peer] = Append(seq, item)
  BY <1>1 DEF Sends
<1>3. Append(seq, item) # << >> /\ (seq = << >> => Append(seq, item)[1] = item)
  OBVIOUS
<1>4. seq # << >> => Append(seq, item)[1] = seq[1]
  <2>1. seq # << >> => 1 \in 1 .. Len(seq)
    OBVIOUS
  <2> QED
    BY <2>1
<1>5. SnapshotsIn(Append(seq, item)) = WithSnapshot(SnapshotsIn(seq), item)
  BY SnapshotsOfMore
<1> QED
  BY <1>1, <1>2, <1>3, <1>4, <1>5

(* What kinds of items there are. *)
LEMMA ItemsDiffer ==
  /\ Welcome \in Sent /\ BadRequest \in Sent /\ Cut \in Sent
  /\ Welcome # BadRequest /\ Welcome # Cut
  /\ \A seq : /\ WithSnapshot(seq, Welcome) = seq /\ WithSnapshot(seq, BadRequest) = seq
              /\ WithSnapshot(seq, Cut) = seq
  /\ \A n \in 1 .. MaxSnapshots : n \in Sent /\ \A seq : WithSnapshot(seq, n) = Append(seq, n)
BY ServerAssumption DEF Sent, WithSnapshot

-----------------------------------------------------------------------------
(* The members that are in: the clients behind the handshakes done.        *)
LEMMA MembersAre ==
  ASSUME FeedInv
  PROVE  /\ \A f \in Done : f \in Open /\ owner[f] \in Clients /\ Status(owner[f]) = "in"
         /\ \A c \in Clients : Status(c) = "in" => \E f \in Done : owner[f] = c
<1>1. Done \subseteq Open /\ \A f \in Open : owner[f] \in Clients
  BY DoneFromIs DEF FeedInv, IInv, Types, Open
<1>2. ASSUME NEW f \in Done PROVE Status(owner[f]) = "in"
  BY <1>1 DEF FeedInv, Connections, DoneAreGreeted, Status, Held
<1>3. ASSUME NEW c \in Clients, Status(c) = "in" PROVE \E f \in Done : owner[f] = c
  <2>1. Greeted(c) /\ c \in Held
    BY <1>3 DEF Status
  <2>2. PICK f \in Open : owner[f] = c
    BY <2>1 DEF Held
  <2> QED
    BY <2>1, <2>2 DEF FeedInv, Connections, DoneAreGreeted, Greeted
<1> QED
  BY <1>1, <1>2, <1>3

(* Who waits for the newest snapshot. *)
LEMMA OwedAre ==
  Owed = IF engine = "broadcast" THEN {owner[f] : f \in DoneFrom(clients_, it)} ELSE {}
<1>1. ReadyFrom(it) = {owner[f] : f \in DoneFrom(clients_, it)}
  BY Zenon DEF ReadyFrom, DoneFrom
<1> QED
  BY <1>1 DEF Owed

LEMMA OwedAreIn ==
  ASSUME FeedInv
  PROVE  \A c \in Owed : c \in Clients /\ Status(c) = "in"
<1>1. it \in Nat \ {0}
  BY DEF FeedInv, IInv, Types
<1>2. DoneFrom(clients_, it) \subseteq Done
  BY <1>1, DoneFromIs DEF FeedInv
<1>3. \A c \in Owed : \E f \in DoneFrom(clients_, it) : c = owner[f]
  BY OwedAre
<1> QED
  BY <1>2, <1>3, MembersAre

-----------------------------------------------------------------------------
(* The shapes of the feed's steps. *)

LEMMA Stutters ==
  ASSUME newest' = newest, Owed' = Owed,
         \A c \in Clients : Status(c)' = Status(c),
         \A c \in Clients : SnapshotsIn(got'[c]) = SnapshotsIn(got[c])
  PROVE  [Feed!Next]_(Feed!vars)
BY DEF Feed!vars

LEMMA Leaves ==
  ASSUME NEW m \in Clients, newest' = newest, Owed' = Owed \ {m},
         Status(m) = "in", Status(m)' = "gone",
         \A c \in Clients \ {m} : Status(c)' = Status(c),
         \A c \in Clients : SnapshotsIn(got'[c]) = SnapshotsIn(got[c])
  PROVE  Feed!Next
BY DEF Feed!Next, Feed!Leave

LEMMA Joins ==
  ASSUME NEW m \in Clients, newest' = newest, Owed' = Owed,
         Status(m) = "out", Status(m)' = "in",
         \A c \in Clients \ {m} : Status(c)' = Status(c),
         \A c \in Clients : SnapshotsIn(got'[c]) = SnapshotsIn(got[c])
  PROVE  Feed!Next
BY DEF Feed!Next, Feed!Join

LEMMA Delivers ==
  ASSUME NEW m \in Clients, newest' = newest, Owed' = Owed \ {m}, m \in Owed,
         \A c \in Clients : Status(c)' = Status(c),
         SnapshotsIn(got'[m]) = Append(SnapshotsIn(got[m]), newest),
         \A c \in Clients \ {m} : SnapshotsIn(got'[c]) = SnapshotsIn(got[c])
  PROVE  Feed!Next
BY DEF Feed!Next, Feed!Deliver

LEMMA Publishes ==
  ASSUME NEW n \in 1 .. MaxSnapshots, newest' = n, n > newest, Owed = {},
         Owed' = {m \in Clients : Status(m) = "in"},
         \A c \in Clients : Status(c)' = Status(c),
         \A c \in Clients : SnapshotsIn(got'[c]) = SnapshotsIn(got[c])
  PROVE  Feed!Next
BY DEF Feed!Next, Feed!Publish

LEMMA Ends ==
  ASSUME newest' = newest, Owed = {}, Owed' = {},
         \A c \in Clients : Status(c)' = IF Status(c) = "in" THEN "gone" ELSE Status(c),
         \A c \in Clients : SnapshotsIn(got'[c]) = SnapshotsIn(got[c])
  PROVE  Feed!Next
BY DEF Feed!Next, Feed!End

-----------------------------------------------------------------------------
(* What a step leaves of the connections when it closes the descriptor of  *)
(* the entry, or keeps it.                                                 *)

LEMMA ClosesPeer ==
  ASSUME FeedInv, it \in DOMAIN clients_, CloseAndErase, UNCHANGED <<peer, backlog>>,
         \A c \in Clients \ {Peer} : got'[c] = got[c]
  PROVE  /\ OnePerClient' /\ DoneAreGreeted' /\ CallersWait'
         /\ Held' = Held \ {Peer}
<1>1. /\ Open' = Open \ {Entry.fd} /\ (\A f \in Open' : owner'[f] = owner[f])
      /\ Done' = Done \ {Entry.fd}
  BY Erased DEF FeedInv
<1>2. Entry.fd \in Open /\ Peer = owner[Entry.fd] /\ Peer \in Clients
  BY EntryIs DEF FeedInv
<1>3. \A f, g \in Open : owner[f] = owner[g] => f = g
  BY DEF FeedInv, Connections, OnePerClient
<1>4. \A f \in Open' : owner'[f] = owner[f] /\ owner[f] \in Clients \ {Peer}
  <2>1. \A f \in Open : owner[f] \in Clients
    BY DEF FeedInv, IInv, Types, Open
  <2> QED
    BY <1>1, <1>2, <1>3, <2>1
<1>5. OnePerClient'
  BY <1>1, <1>3 DEF OnePerClient
<1>6. DoneAreGreeted'
  <2>1. \A f \in Open' : got'[owner'[f]] = got[owner[f]]
    BY <1>4
  <2> QED
    BY <1>1, <2>1 DEF FeedInv, Connections, DoneAreGreeted, Greeted
<1>7. Held' = Held \ {Peer}
  <2>1. ASSUME NEW c \in Held' PROVE c \in Held \ {Peer}
    BY <1>1, <1>4 DEF Held
  <2>2. ASSUME NEW c \in Held \ {Peer} PROVE c \in Held'
    <3>1. PICK f \in Open : c = owner[f]
      BY DEF Held
    <3>2. f \in Open'
      BY <1>1, <1>2, <3>1
    <3> QED
      BY <1>1, <3>1, <3>2 DEF Held
  <2> QED
    BY <2>1, <2>2
<1>8. CallersWait'
  <2>1. \A i \in DOMAIN backlog : backlog[i] \in Clients /\ backlog[i] # Peer
    BY EntryIs DEF FeedInv, IInv, Types, Connections, CallersWait
  <2>2. peer[Peer] # "new"
    BY <1>2 DEF FeedInv, Connections, DoneAreGreeted
  <2> QED
    BY <1>7, <2>1, <2>2 DEF FeedInv, Connections, CallersWait
<1> QED
  BY <1>5, <1>6, <1>7, <1>8

LEMMA KeepsPeer ==
  ASSUME FeedInv, it \in DOMAIN clients_, UNCHANGED <<peer, backlog, owner>>,
         Done' \ {Entry.fd} = Done \ {Entry.fd},
         \A c \in Clients \ {Peer} : got'[c] = got[c],
         Entry.fd \in Done' => got'[Peer] # << >> /\ got'[Peer][1] = Welcome,
         Entry.fd \notin Done' => got'[Peer] = << >>
  PROVE  /\ OnePerClient' /\ DoneAreGreeted' /\ CallersWait'
         /\ Held' = Held
<1>1. Open' = Open /\ Held' = Held
  BY DEF Open, Held
<1>2. Entry.fd \in Open /\ Peer = owner[Entry.fd] /\ Peer \in Clients
  BY EntryIs DEF FeedInv
<1>3. OnePerClient'
  BY <1>1 DEF FeedInv, Connections, OnePerClient
<1>4. ASSUME NEW f \in Open, f # Entry.fd
      PROVE  owner[f] \in Clients \ {Peer} /\ got'[owner[f]] = got[owner[f]] /\ (f \in Done' <=> f \in Done)
  <2>1. owner[f] \in Clients \ {Peer}
    BY <1>2, <1>4 DEF FeedInv, IInv, Types, Open, Connections, OnePerClient
  <2>2. f \in Done' <=> f \in Done
    BY <1>4
  <2> QED
    BY <2>1, <2>2
<1>5. DoneAreGreeted'
  <2> SUFFICES ASSUME NEW f \in Open
               PROVE  /\ peer[owner[f]] # "new"
                      /\ f \in Done' => got'[owner[f]] # << >> /\ got'[owner[f]][1] = Welcome
                      /\ f \notin Done' => got'[owner[f]] = << >>
    BY <1>1 DEF DoneAreGreeted, Greeted
  <2>1. peer[owner[f]] # "new"
    BY DEF FeedInv, Connections, DoneAreGreeted
  <2>2. CASE f = Entry.fd
    BY <1>2, <2>1, <2>2
  <2>3. CASE f # Entry.fd
    BY <1>4, <2>3 DEF FeedInv, Connections, DoneAreGreeted, Greeted
  <2> QED
    BY <2>2, <2>3
<1>6. CallersWait'
  <2>1. \A i \in DOMAIN backlog : backlog[i] \in Clients /\ backlog[i] # Peer
    BY EntryIs DEF FeedInv, IInv, Types, Connections, CallersWait
  <2>2. peer[Peer] # "new"
    BY <1>2 DEF FeedInv, Connections, DoneAreGreeted
  <2> QED
    BY <1>1, <2>1, <2>2 DEF FeedInv, Connections, CallersWait
<1> QED
  BY <1>1, <1>3, <1>5, <1>6

(* Of a client that keeps what it got and its descriptor, or its lack of   *)
(* one, the feed sees nothing.                                             *)
LEMMA StatusSame ==
  ASSUME NEW c \in Clients, got'[c] = got[c], c \in Held' <=> c \in Held
  PROVE  Status(c)' = Status(c)
BY DEF Status, Greeted

(* Only a broadcast owes anything, and only a step of the broadcast's own  *)
(* or of a thread that holds the lock changes that.                        *)
LEMMA NothingOwed ==
  ASSUME engine # "broadcast"
  PROVE  Owed = {}
BY DEF Owed

LEMMA QuietStep ==
  ASSUME FeedInv, UNCHANGED <<clients_, owner, got, newest>>, Owed' = Owed,
         \A c \in Clients : peer[c] # "new" => peer'[c] # "new"
  PROVE  /\ OnePerClient' /\ DoneAreGreeted' /\ [Feed!Next]_(Feed!vars)
         /\ Held' = Held
<1>1. Open' = Open /\ Held' = Held /\ Done' = Done
  BY DEF Open, Held, Done
<1>2. OnePerClient'
  BY <1>1 DEF FeedInv, Connections, OnePerClient
<1>3. \A f \in Open : owner[f] \in Clients
  BY DEF FeedInv, IInv, Types, Open
<1>4. DoneAreGreeted'
  BY <1>1, <1>3 DEF FeedInv, Connections, DoneAreGreeted, Greeted
<1>5. \A c \in Clients : Status(c)' = Status(c)
  BY <1>1, StatusSame
<1>6. [Feed!Next]_(Feed!vars)
  BY <1>5, Stutters
<1> QED
  BY <1>1, <1>2, <1>4, <1>6

(* The engine's thread and the clients leave the callers that wait.        *)
LEMMA WaitersStay ==
  ASSUME FeedInv, UNCHANGED <<backlog, peer>>, \A c \in Clients : got'[c] = got[c], Held' = Held
  PROVE  CallersWait'
<1>1. \A i \in DOMAIN backlog : backlog[i] \in Clients
  BY DEF FeedInv, IInv, Types
<1> QED
  BY <1>1 DEF FeedInv, Connections, CallersWait

-----------------------------------------------------------------------------
(* The loop's thread serves the entry: nothing is owed meanwhile, since    *)
(* the lock is the loop's.                                                 *)
LEMMA NothingToReadFeeds ==
  ASSUME FeedInv, it \in DOMAIN clients_, NothingToRead,
         engine # "broadcast", UNCHANGED <<engine, newest, peer, backlog>>
  PROVE  OnePerClient' /\ DoneAreGreeted' /\ CallersWait' /\ [Feed!Next]_(Feed!vars)
<1>1. got' = got /\ CloseAndErase
  BY DEF NothingToRead, wireVars
<1>2. /\ OnePerClient' /\ DoneAreGreeted' /\ CallersWait'
      /\ Held' = Held \ {Peer}
  BY <1>1, ClosesPeer
<1>3. Owed = {} /\ Owed' = {}
  BY DEF Owed
<1>4. PICK p \in Clients : p = Peer
  BY EntryIs DEF FeedInv
<1>5. p \in Held /\ p \notin Held' /\ \A c \in Clients \ {p} : Status(c)' = Status(c)
  <2>1. Peer \in Held
    BY EntryIs DEF FeedInv
  <2>2. \A c \in Clients \ {p} : c \in Held' <=> c \in Held
    BY <1>2, <1>4
  <2> QED
    BY <1>1, <1>2, <1>4, <2>1, <2>2, StatusSame
<1>6. CASE Greeted(p)
  <2>1. Status(p) = "in" /\ Status(p)' = "gone"
    BY <1>1, <1>5, <1>6 DEF Status, Greeted
  <2> QED
    BY <1>1, <1>2, <1>3, <1>5, <2>1, Leaves
<1>7. CASE ~Greeted(p)
  <2>1. Status(p) = "out" /\ Status(p)' = "out"
    BY <1>1, <1>7 DEF Status, Greeted
  <2>2. \A c \in Clients : Status(c)' = Status(c)
    BY <1>5, <2>1
  <2> QED
    BY <1>1, <1>2, <1>3, <2>2, Stutters
<1> QED
  BY <1>6, <1>7

LEMMA ReadFeeds ==
  ASSUME FeedInv, it \in DOMAIN clients_, Read,
         engine # "broadcast", UNCHANGED <<engine, newest, peer, backlog>>
  PROVE  OnePerClient' /\ DoneAreGreeted' /\ CallersWait' /\ [Feed!Next]_(Feed!vars)
<1>1. got' = got /\ Keep(Entry.handshake_done, Buffered)
  BY DEF Read
<1>2. Entry.handshake_done \in BOOLEAN /\ Buffered \in Nat
  BY PeerIsClient DEF Entries, Buffered, FeedInv, IInv, Types
<1>3. /\ owner' = owner /\ Open' = Open
      /\ Done' \ {Entry.fd} = Done \ {Entry.fd}
      /\ Entry.fd \in Done' <=> Entry.handshake_done
  BY <1>1, <1>2, KeptAsDone DEF FeedInv
<1>4. Entry.fd \in Done <=> Entry.handshake_done
  BY EntryIs DEF FeedInv
<1>5. Entry.fd \in Open /\ Peer = owner[Entry.fd]
  BY EntryIs DEF FeedInv
<1>6. /\ Entry.fd \in Done => got[Peer] # << >> /\ got[Peer][1] = Welcome
      /\ Entry.fd \notin Done => got[Peer] = << >>
  BY <1>5 DEF FeedInv, Connections, DoneAreGreeted, Greeted
<1>7. Entry.fd \in Done' <=> Entry.fd \in Done
  BY <1>3, <1>4
<1>8. OnePerClient' /\ DoneAreGreeted' /\ CallersWait' /\ Held' = Held
  BY <1>1, <1>3, <1>6, <1>7, KeepsPeer
<1>9. \A c \in Clients : Status(c)' = Status(c)
  BY <1>1, <1>8, StatusSame
<1>10. Owed' = Owed
  BY DEF Owed
<1> QED
  BY <1>1, <1>8, <1>9, <1>10, Stutters

(* The answer to a request: the 101 lets the client in; a request without  *)
(* a key and an answer that was cut leave it out.                          *)
LEMMA AnswerFeeds ==
  ASSUME FeedInv, it \in DOMAIN clients_, Answer,
         engine # "broadcast", UNCHANGED <<engine, newest, peer, backlog>>
  PROVE  /\ got' \in [Clients -> Seq(Sent)]
         /\ OnePerClient' /\ DoneAreGreeted' /\ CallersWait' /\ [Feed!Next]_(Feed!vars)
<1>1. PICK p \in Clients : p = Peer
  BY EntryIs DEF FeedInv
<1>2. Entry.fd \in Open /\ Peer = owner[Entry.fd] /\ p \in Held
  BY <1>1, EntryIs DEF FeedInv
<1>3. Entry.fd \notin Done
  BY EntryIs DEF FeedInv, Answer
<1>4. got[p] = << >>
  BY <1>1, <1>2, <1>3 DEF FeedInv, Connections, DoneAreGreeted
<1>5. Owed = {} /\ Owed' = {}
  BY DEF Owed
<1>6. got \in [Clients -> Seq(Sent)]
  BY DEF FeedInv, Connections, SentTypes
<1>7. CASE Sends(Welcome) /\ Keep(TRUE, 0)
  <2>1. /\ got' \in [Clients -> Seq(Sent)] /\ \A c \in Clients \ {p} : got'[c] = got[c]
        /\ got'[p] # << >> /\ got'[p][1] = Welcome
        /\ SnapshotsIn(got'[p]) = SnapshotsIn(got[p])
    BY <1>1, <1>4, <1>6, <1>7, SendAdds, ItemsDiffer
  <2>2. /\ owner' = owner /\ Done' \ {Entry.fd} = Done \ {Entry.fd} /\ Entry.fd \in Done'
    BY <1>7, KeptAsDone DEF FeedInv
  <2>3. OnePerClient' /\ DoneAreGreeted' /\ CallersWait' /\ Held' = Held
    BY <1>1, <2>1, <2>2, KeepsPeer
  <2>4. \A c \in Clients \ {p} : Status(c)' = Status(c)
    BY <2>1, <2>3, StatusSame
  <2>5. Status(p) = "out" /\ Status(p)' = "in"
    BY <1>2, <1>4, <2>1, <2>3 DEF Status, Greeted
  <2>6. \A c \in Clients : SnapshotsIn(got'[c]) = SnapshotsIn(got[c])
    BY <2>1
  <2> QED
    BY <1>5, <2>1, <2>3, <2>4, <2>5, <2>6, Joins
<1>8. ASSUME NEW item \in {BadRequest, Cut}, Sends(item), CloseAndErase
      PROVE  /\ got' \in [Clients -> Seq(Sent)]
             /\ OnePerClient' /\ DoneAreGreeted' /\ CallersWait' /\ [Feed!Next]_(Feed!vars)
  <2>1. item \in Sent /\ item # Welcome /\ \A seq : WithSnapshot(seq, item) = seq
    BY ItemsDiffer
  <2>2. /\ got' \in [Clients -> Seq(Sent)] /\ \A c \in Clients \ {p} : got'[c] = got[c]
        /\ got'[p] # << >> /\ got'[p][1] = item
        /\ SnapshotsIn(got'[p]) = SnapshotsIn(got[p])
    BY <1>1, <1>4, <1>6, <1>8, <2>1, SendAdds
  <2>3. OnePerClient' /\ DoneAreGreeted' /\ CallersWait' /\ Held' = Held \ {p}
    BY <1>1, <1>8, <2>2, ClosesPeer
  <2>4. \A c \in Clients \ {p} : Status(c)' = Status(c)
    BY <2>2, <2>3, StatusSame
  <2>5. Status(p) = "out" /\ Status(p)' = "out"
    BY <1>4, <2>1, <2>2 DEF Status, Greeted
  <2>6. /\ \A c \in Clients : Status(c)' = Status(c)
        /\ \A c \in Clients : SnapshotsIn(got'[c]) = SnapshotsIn(got[c])
    BY <2>2, <2>4, <2>5
  <2> QED
    BY <1>5, <2>2, <2>3, <2>6, Stutters
<1> QED
  BY <1>7, <1>8 DEF Answer

LEMMA ServeFeeds ==
  ASSUME FeedInv, Serve
  PROVE  Connections' /\ [Feed!Next]_(Feed!vars)
<1>1. it \in DOMAIN clients_
  BY DEF Serve, FeedInv, IInv, Types
<1>2. UNCHANGED <<engine, newest, snapshots, peer, backlog>> /\ engine # "broadcast"
  BY DEF Serve, engineVars, peerVars, FeedInv, IInv, Phases
<1>3. got \in [Clients -> Seq(Sent)] /\ (got' \in [Clients -> Seq(Sent)] => SentTypes')
  BY <1>2 DEF FeedInv, Connections, SentTypes
<1>4. ASSUME GoOn, UNCHANGED wireVars PROVE Connections' /\ [Feed!Next]_(Feed!vars)
  <2>1. UNCHANGED <<clients_, owner, got>>
    BY <1>4 DEF GoOn, wireVars
  <2>2. Owed' = Owed
    BY <1>2 DEF Owed
  <2>3. OnePerClient' /\ DoneAreGreeted' /\ [Feed!Next]_(Feed!vars) /\ Held' = Held
    BY <1>2, <2>1, <2>2, QuietStep
  <2>4. CallersWait'
    BY <1>2, <2>1, <2>3, WaitersStay
  <2> QED
    BY <1>3, <2>1, <2>3, <2>4 DEF Connections
<1>5. ASSUME NothingToRead PROVE Connections' /\ [Feed!Next]_(Feed!vars)
  <2>1. got' = got
    BY <1>5 DEF NothingToRead, wireVars
  <2> QED
    BY <1>1, <1>2, <1>3, <1>5, <2>1, NothingToReadFeeds DEF Connections
<1>6. ASSUME Read PROVE Connections' /\ [Feed!Next]_(Feed!vars)
  <2>1. got' = got
    BY <1>6 DEF Read
  <2> QED
    BY <1>1, <1>2, <1>3, <1>6, <2>1, ReadFeeds DEF Connections
<1>7. ASSUME Answer PROVE Connections' /\ [Feed!Next]_(Feed!vars)
  BY <1>1, <1>2, <1>3, <1>7, AnswerFeeds DEF Connections
<1> QED
  BY <1>4, <1>5, <1>6, <1>7 DEF Serve

-----------------------------------------------------------------------------
(* The broadcast: the entry's client is passed over, sent the frame, or    *)
(* cut off, and owed nothing from then on.                                 *)

LEMMA OwedAreNext ==
  Owed' = IF engine' = "broadcast" THEN {owner'[f] : f \in DoneFrom(clients_', it')} ELSE {}
<1>1. ReadyFrom(it)' = {owner'[f] : f \in DoneFrom(clients_', it')}
  BY Zenon DEF ReadyFrom, DoneFrom
<1> QED
  BY <1>1 DEF Owed

LEMMA OwedAfter ==
  ASSUME FeedInv, it \in DOMAIN clients_, engine = "broadcast", engine' = "broadcast",
         DoneFrom(clients_', it') = DoneFrom(clients_, it) \ {Entry.fd},
         \A f \in Open \ {Entry.fd} : owner'[f] = owner[f]
  PROVE  Owed' = Owed \ {Peer}
<1>1. /\ Owed = {owner[f] : f \in DoneFrom(clients_, it)}
      /\ Owed' = {owner'[f] : f \in DoneFrom(clients_', it')}
  BY OwedAre, OwedAreNext
<1>2. it \in Nat \ {0}
  BY DEF FeedInv, IInv, Types
<1>3. DoneFrom(clients_, it) \subseteq Open
  BY <1>2, DoneFromIs DEF FeedInv
<1>4. Entry.fd \in Open /\ Peer = owner[Entry.fd]
  BY EntryIs DEF FeedInv
<1>5. \A f \in Open : owner[f] = Peer => f = Entry.fd
  BY <1>4 DEF FeedInv, Connections, OnePerClient
<1>6. ASSUME NEW c \in Owed' PROVE c \in Owed \ {Peer}
  <2>1. PICK f \in DoneFrom(clients_, it) \ {Entry.fd} : c = owner'[f]
    BY <1>1
  <2> QED
    BY <1>1, <1>3, <1>5, <2>1
<1>7. ASSUME NEW c \in Owed \ {Peer} PROVE c \in Owed'
  <2>1. PICK f \in DoneFrom(clients_, it) : c = owner[f]
    BY <1>1
  <2>2. f # Entry.fd
    BY <1>4, <2>1
  <2> QED
    BY <1>1, <1>3, <2>1, <2>2
<1> QED
  BY <1>6, <1>7

LEMMA BroadcastFeeds ==
  ASSUME FeedInv, BroadcastOne
  PROVE  Connections' /\ [Feed!Next]_(Feed!vars)
<1>1. it \in DOMAIN clients_ /\ engine = "broadcast" /\ engine' = "broadcast"
  BY DEF BroadcastOne, engineVars, FeedInv, IInv, Types
<1>2. UNCHANGED <<engine, newest, snapshots, peer, backlog>>
  BY DEF BroadcastOne, engineVars, peerVars
<1>3. got \in [Clients -> Seq(Sent)] /\ (got' \in [Clients -> Seq(Sent)] => SentTypes')
  BY <1>2 DEF FeedInv, Connections, SentTypes
<1>4. newest \in 1 .. MaxSnapshots
  <2>1. newest \in Nat /\ newest > 0 /\ newest <= snapshots /\ snapshots <= MaxSnapshots /\ snapshots \in Nat
    BY <1>1 DEF FeedInv, Connections, SentTypes
  <2> QED
    BY <2>1, ServerAssumption
<1>5. PICK p \in Clients : p = Peer
  BY <1>1, EntryIs DEF FeedInv
<1>6. Entry.fd \in Open /\ Peer = owner[Entry.fd] /\ p \in Held
  BY <1>1, <1>5, EntryIs DEF FeedInv
<1>7. ASSUME GoOn PROVE DoneFrom(clients_', it') = DoneFrom(clients_, it) \ {Entry.fd} /\ Done' = Done
  BY <1>1, <1>7, PassedOver DEF GoOn, Done, FeedInv
<1>8. ASSUME ~Entry.handshake_done, UNCHANGED got, GoOn
      PROVE  Connections' /\ [Feed!Next]_(Feed!vars)
  <2>1. UNCHANGED <<clients_, owner>>
    BY <1>8 DEF GoOn
  <2>2. Entry.fd \notin DoneFrom(clients_, it)
    BY <1>1, <1>8, EntryIs DEF FeedInv
  <2>3. DoneFrom(clients_', it') = DoneFrom(clients_, it)
    BY <1>7, <1>8, <2>2
  <2>4. Owed' = Owed
    BY <1>1, <2>1, <2>3, OwedAre, OwedAreNext
  <2>5. OnePerClient' /\ DoneAreGreeted' /\ [Feed!Next]_(Feed!vars) /\ Held' = Held
    BY <1>2, <1>8, <2>1, <2>4, QuietStep
  <2>6. CallersWait'
    BY <1>2, <1>8, <2>5, WaitersStay
  <2> QED
    BY <1>3, <1>8, <2>5, <2>6 DEF Connections
<1>9. ASSUME Entry.handshake_done
      PROVE  /\ got[p] # << >> /\ got[p][1] = Welcome /\ Status(p) = "in" /\ p \in Owed
             /\ Entry.fd \in Done
  <2>1. Entry.fd \in Done /\ Entry.fd \in DoneFrom(clients_, it)
    BY <1>1, <1>9, EntryIs DEF FeedInv
  <2>2. got[p] # << >> /\ got[p][1] = Welcome
    BY <1>5, <1>6, <2>1 DEF FeedInv, Connections, DoneAreGreeted, Greeted
  <2>3. p \in Owed
    BY <1>1, <1>5, <1>6, <2>1, OwedAre
  <2> QED
    BY <1>6, <2>1, <2>2, <2>3 DEF Status, Greeted
<1>10. ASSUME Entry.handshake_done, Sends(newest), GoOn
       PROVE  Connections' /\ [Feed!Next]_(Feed!vars)
  <2>1. UNCHANGED <<clients_, owner>>
    BY <1>10 DEF GoOn
  <2>2. /\ got' \in [Clients -> Seq(Sent)] /\ \A c \in Clients \ {p} : got'[c] = got[c]
        /\ got'[p] # << >> /\ got'[p][1] = Welcome
        /\ SnapshotsIn(got'[p]) = Append(SnapshotsIn(got[p]), newest)
    BY <1>3, <1>4, <1>5, <1>9, <1>10, SendAdds, ItemsDiffer
  <2>3. Done' = Done
    BY <1>7, <1>10
  <2>4. OnePerClient' /\ DoneAreGreeted' /\ CallersWait' /\ Held' = Held
    BY <1>1, <1>2, <1>5, <1>9, <1>10, <2>1, <2>2, <2>3, KeepsPeer
  <2>5. Owed' = Owed \ {p}
    BY <1>1, <1>5, <1>7, <1>10, <2>1, OwedAfter
  <2>6. \A c \in Clients : Status(c)' = Status(c)
    <3>1. \A c \in Clients \ {p} : Status(c)' = Status(c)
      BY <2>2, <2>4, StatusSame
    <3>2. Status(p)' = "in"
      BY <1>6, <2>2, <2>4 DEF Status, Greeted
    <3> QED
      BY <1>9, <1>10, <3>1, <3>2
  <2>7. \A c \in Clients \ {p} : SnapshotsIn(got'[c]) = SnapshotsIn(got[c])
    BY <2>2
  <2>8. Feed!Next
    BY <1>2, <1>9, <1>10, <2>2, <2>5, <2>6, <2>7, Delivers
  <2> QED
    BY <1>3, <2>2, <2>4, <2>8 DEF Connections
<1>11. ASSUME Entry.handshake_done, Sends(Cut), CloseAndErase
       PROVE  Connections' /\ [Feed!Next]_(Feed!vars)
  <2>1. /\ got' \in [Clients -> Seq(Sent)] /\ \A c \in Clients \ {p} : got'[c] = got[c]
        /\ got'[p] # << >> /\ got'[p][1] = Welcome
        /\ SnapshotsIn(got'[p]) = SnapshotsIn(got[p])
    BY <1>3, <1>5, <1>9, <1>11, SendAdds, ItemsDiffer
  <2>2. OnePerClient' /\ DoneAreGreeted' /\ CallersWait' /\ Held' = Held \ {p}
    BY <1>1, <1>2, <1>5, <1>11, <2>1, ClosesPeer
  <2>3. /\ DoneFrom(clients_', it') = DoneFrom(clients_, it) \ {Entry.fd}
        /\ \A f \in Open \ {Entry.fd} : owner'[f] = owner[f]
    BY <1>1, <1>11, Erased DEF FeedInv
  <2>4. Owed' = Owed \ {p}
    BY <1>1, <1>5, <2>3, OwedAfter
  <2>5. \A c \in Clients \ {p} : Status(c)' = Status(c)
    BY <2>1, <2>2, StatusSame
  <2>6. Status(p)' = "gone"
    BY <2>1, <2>2 DEF Status, Greeted
  <2>7. \A c \in Clients : SnapshotsIn(got'[c]) = SnapshotsIn(got[c])
    BY <2>1
  <2>8. Feed!Next
    BY <1>2, <1>9, <1>11, <2>4, <2>5, <2>6, <2>7, Leaves
  <2> QED
    BY <1>3, <2>1, <2>2, <2>8 DEF Connections
<1> QED
  BY <1>8, <1>10, <1>11 DEF BroadcastOne

-----------------------------------------------------------------------------
(* accept, during a broadcast or not: the newcomer is owed nothing. *)
LEMMA AcceptFeeds ==
  ASSUME FeedInv, Accept
  PROVE  Connections' /\ [Feed!Next]_(Feed!vars)
<1>1. UNCHANGED <<clients_, it, engine, newest, snapshots, got, peer>>
  BY DEF Accept, engineVars, sharedVars, peerVars, wireVars
<1>2. SentTypes'
  BY <1>1 DEF FeedInv, Connections, SentTypes
<1>3. CASE Free = {}
  <2>1. UNCHANGED <<owner, backlog>>
    BY <1>3 DEF Accept
  <2>2. Owed' = Owed
    BY <1>1, <2>1 DEF Owed, ReadyFrom
  <2>3. OnePerClient' /\ DoneAreGreeted' /\ [Feed!Next]_(Feed!vars) /\ Held' = Held
    BY <1>1, <2>1, <2>2, QuietStep
  <2>4. CallersWait'
    BY <1>1, <2>1, <2>3, WaitersStay
  <2> QED
    BY <1>2, <2>3, <2>4 DEF Connections
<1>4. CASE Free # {}
  <2>1. PICK fd \in Free : fd = CHOOSE f \in Free : \A g \in Free : f <= g
    BY <1>4, LowestFree
  <2>2. fd \in Fds /\ owner[fd] = Closed /\ owner \in [Fds -> Clients \union {Closed}]
    BY <2>1 DEF Free, FeedInv, IInv, Types
  <2>3. backlog # << >> /\ backlog \in Seq(Clients)
    BY DEF Accept, FeedInv, IInv, Phases, Types
  <2>4. PICK c0 \in Clients : c0 = Head(backlog) /\ c0 = backlog[1] /\ 1 \in DOMAIN backlog
    BY <2>3
  <2>5. owner' = [owner EXCEPT ![fd] = c0] /\ backlog' = Tail(backlog)
    BY <1>4, <2>1, <2>4 DEF Accept
  <2>6. c0 \notin Held /\ got[c0] = << >> /\ peer[c0] # "new" /\ c0 # Closed
    BY <2>4, ServerAssumption DEF FeedInv, Connections, CallersWait
  <2>7. /\ Open' = Open \union {fd} /\ fd \notin Open /\ owner'[fd] = c0
        /\ \A f \in Open : owner'[f] = owner[f] /\ owner[f] \in Clients /\ owner[f] # c0
    BY <2>2, <2>5, <2>6 DEF Open, Held
  <2>8. Done' = Done /\ Done \subseteq Open
    BY <1>1, DoneFromIs DEF Done, FeedInv
  <2>9. Held' = Held \union {c0}
    <3>1. ASSUME NEW c \in Held' PROVE c \in Held \union {c0}
      BY <2>7 DEF Held
    <3>2. ASSUME NEW c \in Held PROVE c \in Held'
      BY <2>7 DEF Held
    <3>3. c0 \in Held'
      BY <2>7 DEF Held
    <3> QED
      BY <3>1, <3>2, <3>3
  <2>10. OnePerClient'
    BY <2>7 DEF FeedInv, Connections, OnePerClient
  <2>11. DoneAreGreeted'
    BY <1>1, <2>6, <2>7, <2>8 DEF FeedInv, Connections, DoneAreGreeted, Greeted
  <2>12. CallersWait'
    <3>1. /\ \A i \in DOMAIN backlog' : /\ i + 1 \in DOMAIN backlog /\ i + 1 # 1
                                        /\ backlog'[i] = backlog[i + 1]
          /\ \A i, j \in DOMAIN backlog' : i + 1 = j + 1 => i = j
      BY <2>3, <2>5
    <3>2. \A i, j \in DOMAIN backlog : backlog[i] = backlog[j] => i = j
      BY DEF FeedInv, Connections, CallersWait
    <3>3. \A i \in DOMAIN backlog' : backlog'[i] # c0
      BY <2>4, <3>1, <3>2
    <3> QED
      BY <1>1, <2>9, <3>1, <3>2, <3>3 DEF FeedInv, Connections, CallersWait
  <2>13. \A c \in Clients : Status(c)' = Status(c)
    <3>1. \A c \in Clients \ {c0} : Status(c)' = Status(c)
      BY <1>1, <2>9, StatusSame
    <3>2. Status(c0)' = Status(c0)
      BY <1>1, <2>6 DEF Status, Greeted
    <3> QED
      BY <3>1, <3>2
  <2>14. Owed' = Owed
    <3>1. it \in Nat \ {0}
      BY DEF FeedInv, IInv, Types
    <3>2. \A f \in DoneFrom(clients_, it) : f \in Open
      BY <2>8, <3>1, DoneFromIs DEF FeedInv
    <3>3. {owner'[f] : f \in DoneFrom(clients_, it)} = {owner[f] : f \in DoneFrom(clients_, it)}
      BY <2>7, <3>2
    <3> QED
      BY <1>1, <3>3, OwedAre, OwedAreNext
  <2> QED
    BY <1>1, <1>2, <2>10, <2>11, <2>12, <2>13, <2>14, Stutters DEF Connections
<1> QED
  BY <1>3, <1>4

LEMMA EmplaceFeeds ==
  ASSUME FeedInv, Emplace
  PROVE  Connections' /\ [Feed!Next]_(Feed!vars)
<1>1. UNCHANGED <<it, engine, newest, snapshots, got, peer, backlog>> /\ engine # "broadcast"
  BY DEF Emplace, engineVars, peerVars, wireVars, kernelVars, FeedInv, IInv, Phases
<1>2. Open' = Open /\ owner' = owner /\ Done' = Done
  BY Emplaced DEF FeedInv
<1>3. Held' = Held
  BY <1>2 DEF Held
<1>4. SentTypes' /\ OnePerClient' /\ DoneAreGreeted'
  BY <1>1, <1>2 DEF FeedInv, Connections, SentTypes, OnePerClient, DoneAreGreeted, Greeted
<1>5. CallersWait'
  BY <1>1, <1>3, WaitersStay
<1>6. \A c \in Clients : Status(c)' = Status(c)
  BY <1>1, <1>3, StatusSame
<1>7. Owed' = Owed
  BY <1>1 DEF Owed
<1> QED
  BY <1>1, <1>4, <1>5, <1>6, <1>7, Stutters DEF Connections

(* cleanup turns every member out. *)
LEMMA CleanUpFeeds ==
  ASSUME FeedInv, CleanUp
  PROVE  Connections' /\ [Feed!Next]_(Feed!vars)
<1>1. UNCHANGED <<engine, newest, snapshots, got, peer, backlog>> /\ engine # "broadcast" /\ hand = NoFd
  BY DEF CleanUp, engineVars, peerVars, wireVars, FeedInv, IInv, Phases
<1>2. Open' = {} /\ Held' = {}
  <2>1. \A f \in Fds : owner[f] # Closed => f \in Listed
    BY <1>1 DEF FeedInv, IInv, Ownership, Open
  <2>2. \A f \in Fds : owner'[f] = Closed
    BY <2>1 DEF CleanUp
  <2> QED
    BY <2>2 DEF Open, Held
<1>3. SentTypes' /\ OnePerClient' /\ DoneAreGreeted'
  BY <1>1, <1>2 DEF FeedInv, Connections, SentTypes, OnePerClient, DoneAreGreeted
<1>4. CallersWait'
  BY <1>1, <1>2 DEF FeedInv, Connections, CallersWait
<1>5. \A c \in Clients : Status(c)' = IF Status(c) = "in" THEN "gone" ELSE Status(c)
  BY <1>1, <1>2 DEF Status, Greeted
<1>6. Owed = {} /\ Owed' = {}
  BY <1>1 DEF Owed
<1> QED
  BY <1>1, <1>3, <1>4, <1>5, <1>6, Ends DEF Connections

(* A new snapshot is owed to every member, and only when nothing is owed. *)
LEMMA BeginBroadcastFeeds ==
  ASSUME FeedInv, BeginBroadcast
  PROVE  Connections' /\ [Feed!Next]_(Feed!vars)
<1>1. /\ UNCHANGED <<clients_, owner, got, peer, backlog>> /\ it' = 1
      /\ engine = "run" /\ engine' = "broadcast" /\ newest' = snapshots + 1 /\ snapshots' = snapshots + 1
      /\ snapshots < MaxSnapshots
  BY DEF BeginBroadcast, kernelVars, peerVars, wireVars
<1>2. newest \in Nat /\ snapshots \in Nat /\ newest <= snapshots /\ MaxSnapshots \in Nat
  BY ServerAssumption DEF FeedInv, Connections, SentTypes
<1>3. PICK n \in 1 .. MaxSnapshots : n = newest' /\ n > newest
  BY <1>1, <1>2
<1>4. SentTypes'
  BY <1>1, <1>2 DEF FeedInv, Connections, SentTypes
<1>5. Open' = Open /\ Held' = Held /\ Done' = Done
  BY <1>1 DEF Open, Held, Done
<1>6. OnePerClient' /\ DoneAreGreeted'
  BY <1>1, <1>5 DEF FeedInv, Connections, OnePerClient, DoneAreGreeted, Greeted
<1>7. CallersWait'
  BY <1>1, <1>5, WaitersStay
<1>8. Owed = {}
  BY <1>1 DEF Owed
<1>9. Owed' = {m \in Clients : Status(m) = "in"}
  <2>1. Owed' = {owner[f] : f \in Done}
    BY <1>1, OwedAreNext DEF Done
  <2> QED
    BY <2>1, MembersAre
<1>10. \A c \in Clients : Status(c)' = Status(c)
  BY <1>1, <1>5, StatusSame
<1>11. Feed!Next
  BY <1>1, <1>3, <1>8, <1>9, <1>10, Publishes
<1> QED
  BY <1>4, <1>6, <1>7, <1>11 DEF Connections

(* The other steps of both threads leave list, table and what was sent.    *)
LEMMA ControlFeeds ==
  ASSUME FeedInv, \/ Collect \/ Select \/ BeginService \/ EndService
                  \/ Start \/ Paced \/ EndBroadcast \/ Stop \/ Joined
  PROVE  Connections' /\ [Feed!Next]_(Feed!vars)
<1> USE DEF loopVars, engineVars, sharedVars, kernelVars, peerVars, wireVars
<1>1. UNCHANGED <<clients_, owner, got, newest, peer>>
  BY DEF Collect, Select, BeginService, EndService, Start, Paced, EndBroadcast, Stop, Joined
<1>2. backlog' = backlog \/ backlog' = << >>
  BY DEF Collect, Select, BeginService, EndService, Start, Paced, EndBroadcast, Stop, Joined
<1>3. SentTypes'
  <2>1. snapshots' = snapshots \/ (snapshots' = snapshots + 1 /\ snapshots < MaxSnapshots)
    BY DEF Collect, Select, BeginService, EndService, Start, Paced, EndBroadcast, Stop, Joined
  <2>2. engine' = "broadcast" => engine = "broadcast"
    BY DEF Collect, Select, BeginService, EndService, Start, Paced, EndBroadcast, Stop, Joined
  <2> QED
    BY <1>1, <2>1, <2>2, ServerAssumption DEF FeedInv, Connections, SentTypes
<1>4. Owed' = Owed
  <2>1. CASE Collect \/ Select
    <3>1. UNCHANGED <<clients_, owner, engine, it>>
      BY <2>1 DEF Collect, Select
    <3> QED
      BY <3>1 DEF Owed, ReadyFrom
  <2>2. CASE BeginService \/ EndService \/ Start \/ Paced \/ Stop \/ Joined
    <3>1. engine # "broadcast" /\ engine' # "broadcast"
      BY <2>2 DEF BeginService, EndService, Start, Paced, Stop, Joined, FeedInv, IInv, Phases
    <3> QED
      BY <3>1 DEF Owed
  <2>3. CASE EndBroadcast
    <3>1. it \in Nat /\ it > Len(clients_) /\ engine' = "run"
      BY <2>3 DEF EndBroadcast, FeedInv, IInv, Types
    <3>2. DoneFrom(clients_, it) = {}
      BY <3>1, DoneFromIs DEF FeedInv
    <3>3. Owed = {}
      BY <3>2, OwedAre
    <3> QED
      BY <3>1, <3>3 DEF Owed
  <2> QED
    BY <2>1, <2>2, <2>3
<1>5. OnePerClient' /\ DoneAreGreeted' /\ [Feed!Next]_(Feed!vars) /\ Held' = Held
  BY <1>1, <1>4, QuietStep
<1>6. CallersWait'
  <2>1. CASE backlog' = backlog
    BY <1>1, <1>5, <2>1, WaitersStay
  <2>2. CASE backlog' = << >>
    BY <1>1, <2>2 DEF FeedInv, Connections, CallersWait
  <2> QED
    BY <1>2, <2>1, <2>2
<1> QED
  BY <1>3, <1>5, <1>6 DEF Connections

LEMMA ClientFeeds ==
  ASSUME FeedInv, NEW c \in Clients, Call(c) \/ Send(c) \/ Hangup(c)
  PROVE  Connections' /\ [Feed!Next]_(Feed!vars)
<1> USE DEF loopVars, engineVars, sharedVars, kernelVars, wireVars
<1>1. /\ UNCHANGED <<clients_, it, engine, snapshots, newest, owner, got>>
      /\ \/ peer' = peer /\ backlog' = backlog
         \/ peer[c] = "new" /\ peer' = [peer EXCEPT ![c] = "there"] /\ backlog' = Append(backlog, c)
         \/ peer' = [peer EXCEPT ![c] = "left"] /\ backlog' = backlog
  <2>1. CASE Call(c)
    BY <2>1 DEF Call
  <2>2. CASE Send(c)
    BY <2>2, Zenon DEF Send
  <2>3. CASE Hangup(c)
    BY <2>3 DEF Hangup
  <2> QED
    BY <2>1, <2>2, <2>3
<1>2. peer \in [Clients -> {"new", "there", "left"}]
  BY DEF FeedInv, Connections, SentTypes
<1>3. SentTypes'
  BY <1>1 DEF FeedInv, Connections, SentTypes
<1>4. \A d \in Clients : peer[d] # "new" => peer'[d] # "new"
  BY <1>1, <1>2
<1>5. Owed' = Owed
  BY <1>1 DEF Owed, ReadyFrom
<1>6. OnePerClient' /\ DoneAreGreeted' /\ [Feed!Next]_(Feed!vars) /\ Held' = Held
  BY <1>1, <1>4, <1>5, QuietStep
<1>7. backlog \in Seq(Clients)
  BY DEF FeedInv, IInv, Types
<1>8. \A d \in Clients : peer'[d] = "new" => got[d] = << >>
  BY <1>1, <1>2 DEF FeedInv, Connections, CallersWait
<1>9. CallersWait'
  <2>1. CASE backlog' = backlog
    BY <1>1, <1>4, <1>6, <1>7, <1>8, <2>1 DEF FeedInv, Connections, CallersWait
  <2>2. CASE /\ peer[c] = "new" /\ peer' = [peer EXCEPT ![c] = "there"]
             /\ backlog' = Append(backlog, c)
    <3>1. got[c] = << >> /\ \A i \in DOMAIN backlog : backlog[i] # c
      BY <2>2 DEF FeedInv, Connections, CallersWait
    <3>2. c \notin Held
      BY <2>2 DEF FeedInv, Connections, DoneAreGreeted, Held
    <3>3. PICK n \in Nat : n = Len(backlog)
      BY <1>7
    <3>4. /\ DOMAIN backlog = 1 .. n /\ DOMAIN backlog' = 1 .. n + 1 /\ backlog'[n + 1] = c
          /\ \A i \in 1 .. n : backlog'[i] = backlog[i] /\ backlog[i] \in Clients
          /\ \A i \in 1 .. n + 1 : i \in 1 .. n \/ i = n + 1
      BY <1>7, <2>2, <3>3
    <3>5. \A i, j \in DOMAIN backlog' : backlog'[i] = backlog'[j] => i = j
      BY <3>1, <3>4 DEF FeedInv, Connections, CallersWait
    <3>6. ASSUME NEW i \in DOMAIN backlog'
          PROVE  backlog'[i] \notin Held /\ got[backlog'[i]] = << >> /\ peer'[backlog'[i]] # "new"
      <4>1. CASE i \in 1 .. n
        BY <1>4, <3>4, <4>1 DEF FeedInv, Connections, CallersWait
      <4>2. CASE i = n + 1
        BY <1>2, <2>2, <3>1, <3>2, <3>4, <4>2
      <4> QED
        BY <3>4, <4>1, <4>2
    <3> QED
      BY <1>1, <1>6, <1>8, <3>5, <3>6 DEF CallersWait
  <2> QED
    BY <1>1, <2>1, <2>2
<1> QED
  BY <1>3, <1>6, <1>9 DEF Connections

-----------------------------------------------------------------------------
LEMMA FeedStep == FeedInv /\ [Next]_vars => FeedInv' /\ [Feed!Next]_(Feed!vars)
<1> SUFFICES ASSUME FeedInv, [Next]_vars
             PROVE  FeedInv' /\ [Feed!Next]_(Feed!vars)
  OBVIOUS
<1>1. IInv'
  BY InvariantStep DEF FeedInv
<1>2. ASSUME UNCHANGED vars PROVE Connections' /\ [Feed!Next]_(Feed!vars)
  <2>1. UNCHANGED <<clients_, owner, got, newest, snapshots, engine, it, backlog, peer>>
    BY <1>2 DEF vars, loopVars, engineVars, sharedVars, kernelVars, peerVars, wireVars
  <2>2. Owed' = Owed
    BY <2>1 DEF Owed, ReadyFrom
  <2>3. OnePerClient' /\ DoneAreGreeted' /\ [Feed!Next]_(Feed!vars) /\ Held' = Held
    BY <2>1, <2>2, QuietStep
  <2>4. CallersWait'
    BY <2>1, <2>3, WaitersStay
  <2>5. SentTypes'
    BY <2>1 DEF FeedInv, Connections, SentTypes
  <2> QED
    BY <2>3, <2>4, <2>5 DEF Connections
<1>3. Connections' /\ [Feed!Next]_(Feed!vars)
  BY <1>2, AcceptFeeds, EmplaceFeeds, ServeFeeds, CleanUpFeeds, ControlFeeds, BeginBroadcastFeeds,
     BroadcastFeeds, ClientFeeds
  DEF Next, LoopStep, EngineStep
<1> QED
  BY <1>1, <1>3 DEF FeedInv

LEMMA FeedStart == Init => FeedInv /\ Feed!Init
<1> SUFFICES ASSUME Init PROVE FeedInv /\ Feed!Init
  OBVIOUS
<1>1. IInv
  BY InvariantInit
<1>2. Open = {} /\ Held = {}
  BY DEF Init, Open, Held
<1>3. Connections
  <2>1. << >> \in Seq(Sent) /\ DOMAIN << >> = {}
    OBVIOUS
  <2>2. SentTypes
    BY <2>1, ServerAssumption DEF Init, SentTypes
  <2>3. OnePerClient /\ DoneAreGreeted
    BY <1>2 DEF OnePerClient, DoneAreGreeted
  <2>4. CallersWait
    BY DEF Init, CallersWait
  <2> QED
    BY <2>2, <2>3, <2>4 DEF Connections
<1>4. \A c \in Clients : Status(c) = "out" /\ SnapshotsIn(got[c]) = << >>
  BY NoSnapshots DEF Init, Status, Greeted
<1>5. Owed = {} /\ newest = 0
  BY DEF Init, Owed
<1>6. Feed!Init
  BY <1>4, <1>5 DEF Feed!Init
<1> QED
  BY <1>1, <1>3, <1>6 DEF FeedInv

(* The safety part of ServesTheFeed: every step of the two threads, the    *)
(* kernel and the clients is a step of the broadcast feed or none.  Nobody *)
(* is sent a snapshot before the 101, after a frame that was cut, or twice,*)
(* and no broadcast begins while somebody is owed the one before, though   *)
(* the list is erased from while it is walked and descriptor numbers come  *)
(* back.                                                                   *)
THEOREM FeedIsServed == Spec => Feed!Init /\ [][Feed!Next]_(Feed!vars)
<1>1. Init => FeedInv /\ Feed!Init
  BY FeedStart
<1>2. FeedInv /\ [Next]_vars => FeedInv' /\ [Feed!Next]_(Feed!vars)
  BY FeedStep
<1> QED
  BY <1>1, <1>2, PTL DEF Spec
=============================================================================
