--------------------------- MODULE WebSocketServer ---------------------------
(***************************************************************************)
(* The broadcast server of the single-symbol daemon: WebSocketServer with  *)
(* its select loop on one thread, and main of main_ws.cpp, whose snapshot  *)
(* callback broadcasts on the engine's thread and which stops the server   *)
(* once the engine returns.                                                *)
(*                                                                         *)
(* The kernel gives an accepted connection the lowest free descriptor, so  *)
(* a number that one thread closes can name another client a moment later. *)
(* A request is two pieces, whose second ends the header; what follows it  *)
(* is client frames.  A send ends whole or, when the client stays blocked  *)
(* for 5 ms or is gone, cut.                                               *)
(***************************************************************************)
EXTENDS Naturals, Sequences, SequencesExt

CONSTANTS
  Clients,
  Fds,            \* descriptor numbers for connections
  Welcome, BadRequest, Cut,  \* what is sent besides snapshots: 101, 400, a part
  MinSnapshotMs,  \* --snapshot-ms: 0 switches pacing off
  MaxPieces,      \* bound of the model: pieces all clients send
  MaxSnapshots    \* bound of the model: snapshots the engine emits

Server == 0      \* server_fd_
NoFd == 0
Closed == "closed"

ASSUME ServerAssumption ==
  /\ Fds \subseteq Nat \ {0}
  /\ Closed \notin Clients
  /\ Welcome \notin {BadRequest, Cut}
  /\ {Welcome, BadRequest, Cut} \intersect 1 .. MaxSnapshots = {}
  /\ MinSnapshotMs \in Nat /\ MaxPieces \in Nat /\ MaxSnapshots \in Nat

VARIABLES
  running,    \* running_
  clients_,   \* the client list: records of fd, handshake_done, recv_buf (pieces)
  lock,       \* who holds clients_mutex_: "free", "loop" or "engine"
  it,         \* index of the holder's iterator
  loop,       \* where event_loop() is
  rfds,       \* its descriptor set
  hand,       \* descriptor accepted and not yet in clients_
  engine,     \* where the engine's thread (main) is
  snapshots,  \* snapshots emitted
  newest,     \* number of the one broadcast last; 0 before the first
  listening,  \* kernel: server_fd_ is open
  backlog,    \* kernel: connections to accept
  limit,      \* kernel: the highest descriptor the process may have
  owner,      \* kernel: descriptor -> client at the other end, or Closed
  peer,       \* clients: "new", "there" or "left"
  proper,     \* clients whose request carries Sec-WebSocket-Key
  sent,       \* pieces each client has sent
  inbox,      \* those the server has not read
  got         \* what each client was sent

loopVars == <<loop, rfds, hand>>
engineVars == <<engine, snapshots, newest>>
sharedVars == <<running, clients_, lock, it>>
kernelVars == <<listening, backlog, owner, limit>>
peerVars == <<peer, proper, sent>>
wireVars == <<inbox, got>>
vars == <<loopVars, engineVars, sharedVars, kernelVars, peerVars, wireVars>>

Init ==
  /\ running = FALSE /\ clients_ = << >> /\ lock = "free" /\ it = 1
  /\ loop = "none" /\ rfds = {} /\ hand = NoFd
  /\ engine = "start" /\ snapshots = 0 /\ newest = 0
  /\ listening = FALSE /\ backlog = << >> /\ owner = [f \in Fds |-> Closed]
  /\ limit \in Fds
  /\ peer = [c \in Clients |-> "new"] /\ proper \in SUBSET Clients
  /\ sent = [c \in Clients |-> 0] /\ inbox = [c \in Clients |-> 0]
  /\ got = [c \in Clients |-> << >>]

Listed == {clients_[i].fd : i \in DOMAIN clients_}
Open == {f \in Fds : owner[f] # Closed}
Free == {f \in Fds : f <= limit /\ owner[f] = Closed}
Held == {owner[f] : f \in Open}

-----------------------------------------------------------------------------
(* The clients. *)

Call(c) ==
  /\ peer[c] = "new" /\ listening
  /\ peer' = [peer EXCEPT ![c] = "there"]
  /\ backlog' = Append(backlog, c)
  /\ UNCHANGED <<loopVars, engineVars, sharedVars, listening, owner, limit, proper, sent, wireVars>>

Connected(c) == peer[c] = "there" /\ c \in Held \union Range(backlog)

Send(c) ==
  /\ Connected(c)
  /\ FoldFunction(+, 0, sent) < MaxPieces
  /\ sent' = [sent EXCEPT ![c] = @ + 1]
  /\ inbox' = [inbox EXCEPT ![c] = @ + 1]
  /\ UNCHANGED <<loopVars, engineVars, sharedVars, kernelVars, peer, proper, got>>

Hangup(c) ==
  /\ Connected(c)
  /\ peer' = [peer EXCEPT ![c] = "left"]
  /\ UNCHANGED <<loopVars, engineVars, sharedVars, kernelVars, proper, sent, wireVars>>

-----------------------------------------------------------------------------
(* Steps on the entry the iterator of the lock's holder points at. *)

Entry == clients_[it]
Peer == owner[Entry.fd]

GoOn ==
  /\ it' = it + 1
  /\ UNCHANGED <<clients_, owner>>

(* Mutant: the entry goes and its descriptor stays open. *)
EraseOnly ==
  /\ clients_' = RemoveAt(clients_, it)
  /\ UNCHANGED <<it, owner>>

(* close_socket and erase: the number is free again at once. *)
CloseAndErase ==
  /\ owner' = [owner EXCEPT ![Entry.fd] = Closed]
  /\ clients_' = RemoveAt(clients_, it)
  /\ UNCHANGED it

Sends(item) == got' = [got EXCEPT ![Peer] = Append(@, item)]

-----------------------------------------------------------------------------
(* The loop thread. *)

(* Mutant: the loop does not look at running_ after a timeout. *)
ToSelectAgain == loop' = "select" /\ UNCHANGED rfds

Again == loop' = "check" /\ rfds' = {}

(* The set is filled under the lock, which is then released. *)
Collect ==
  /\ loop = "check" /\ running /\ lock = "free"
  /\ rfds' = {Server} \union Listed
  /\ loop' = "select"
  /\ UNCHANGED <<hand, engineVars, sharedVars, kernelVars, peerVars, wireVars>>

Readable(f) ==
  IF f = Server THEN backlog # << >>
  ELSE inbox[owner[f]] > 0 \/ peer[owner[f]] = "left"

(* What select may report: nothing when none is readable (a timeout), and  *)
(* otherwise those that are.  Of a descriptor the engine's thread has      *)
(* closed it reports EBADF, or, closed while select waits, it takes it for *)
(* ready.                                                                  *)
Stale == rfds \ ({Server} \union Open)
Reports ==
  {Stale \union {f \in rfds \ Stale : Readable(f)}} \union IF Stale = {} THEN {} ELSE {{}}

Select ==
  /\ loop = "select"
  /\ \E ready \in Reports :
       IF ready = {} THEN Again
       ELSE /\ rfds' = ready
            /\ loop' = IF Server \in ready THEN "accept" ELSE "service"
  /\ UNCHANGED <<hand, engineVars, sharedVars, kernelVars, peerVars, wireVars>>

(* accept takes no lock; it fails when no descriptor is left. *)
Accept ==
  /\ loop = "accept"
  /\ IF Free = {} THEN loop' = "service" /\ UNCHANGED <<hand, backlog, owner>>
     ELSE LET fd == CHOOSE f \in Free : \A g \in Free : f <= g IN
          /\ owner' = [owner EXCEPT ![fd] = Head(backlog)]
          /\ backlog' = Tail(backlog)
          /\ hand' = fd
          /\ loop' = "emplace"
  /\ UNCHANGED <<rfds, engineVars, sharedVars, listening, limit, peerVars, wireVars>>

Emplace ==
  /\ loop = "emplace" /\ lock = "free"
  /\ clients_' = Append(clients_, [fd |-> hand, handshake_done |-> FALSE, recv_buf |-> 0])
  /\ hand' = NoFd
  /\ loop' = "service"
  /\ UNCHANGED <<rfds, engineVars, running, lock, it, kernelVars, peerVars, wireVars>>

BeginService ==
  /\ loop = "service" /\ lock = "free"
  /\ lock' = "loop" /\ it' = 1
  /\ loop' = "serving"
  /\ UNCHANGED <<rfds, hand, engineVars, running, clients_, kernelVars, peerVars, wireVars>>

(* Mutant: only the newest chunk is searched for the end of the request. *)
BufferNewestOnly == inbox[Peer]

Buffered == Entry.recv_buf + inbox[Peer]

(* recv finds no data: the client has closed, or (EAGAIN, which the code   *)
(* does not tell apart) the descriptor is not the one select reported on.  *)
NothingToRead ==
  /\ inbox[Peer] = 0
  /\ CloseAndErase
  /\ UNCHANGED wireVars

Keep(done, buf) ==
  /\ clients_' = [clients_ EXCEPT ![it].handshake_done = done, ![it].recv_buf = buf]
  /\ it' = it + 1
  /\ UNCHANGED owner

(* A client that is ready is read and ignored; one whose request is not    *)
(* complete waits for more.                                                *)
Read ==
  /\ inbox[Peer] > 0
  /\ Entry.handshake_done \/ Buffered < 2
  /\ Keep(Entry.handshake_done, Buffered)
  /\ inbox' = [inbox EXCEPT ![Peer] = 0]
  /\ UNCHANGED got

(* The whole request is there: answered with 101 if it has a key, with 400 *)
(* if not; a client that was not sent the whole of its 101 is dropped.     *)
Answer ==
  /\ inbox[Peer] > 0
  /\ ~Entry.handshake_done /\ Buffered >= 2
  /\ inbox' = [inbox EXCEPT ![Peer] = 0]
  /\ \/ Peer \in proper /\ Sends(Welcome) /\ Keep(TRUE, 0)
     \/ Peer \notin proper /\ Sends(BadRequest) /\ CloseAndErase
     \/ Sends(Cut) /\ CloseAndErase

Serve ==
  /\ loop = "serving" /\ it <= Len(clients_)
  /\ IF Entry.fd \in rfds THEN NothingToRead \/ Read \/ Answer
     ELSE GoOn /\ UNCHANGED wireVars
  /\ UNCHANGED <<loopVars, engineVars, running, lock, listening, backlog, limit, peerVars>>

EndService ==
  /\ loop = "serving" /\ it > Len(clients_)
  /\ lock' = "free" /\ it' = 1
  /\ rfds' = {} /\ loop' = "check"
  /\ UNCHANGED <<hand, engineVars, running, clients_, kernelVars, peerVars, wireVars>>

CleanUp ==
  /\ loop = "check" /\ ~running /\ lock = "free"
  /\ owner' = [f \in Fds |-> IF f \in Listed THEN Closed ELSE owner[f]]
  /\ clients_' = << >>
  /\ loop' = "done"
  /\ UNCHANGED <<rfds, hand, engineVars, running, lock, it, listening, backlog, limit, peerVars, wireVars>>

LoopStep ==
  \/ Collect \/ Select \/ Accept \/ Emplace
  \/ BeginService \/ Serve \/ EndService \/ CleanUp

-----------------------------------------------------------------------------
(* The engine's thread: main of main_ws.cpp. *)

(* start(): socket, bind, listen and the loop's thread, or main ends. *)
Start ==
  /\ engine = "start"
  /\ \/ /\ engine' = "run" /\ listening' = TRUE
        /\ running' = TRUE /\ loop' = "check"
     \/ engine' = "done" /\ UNCHANGED <<listening, running, loop>>
  /\ UNCHANGED <<snapshots, newest, clients_, lock, it, rfds, hand, backlog, owner, limit, peerVars, wireVars>>

(* A snapshot that comes too soon after the last broadcast is dropped; the *)
(* first one never is.                                                     *)
Paced ==
  /\ engine = "run" /\ snapshots < MaxSnapshots
  /\ MinSnapshotMs > 0 /\ newest > 0
  /\ snapshots' = snapshots + 1
  /\ UNCHANGED <<engine, newest, sharedVars, loopVars, kernelVars, peerVars, wireVars>>

BeginBroadcast ==
  /\ engine = "run" /\ snapshots < MaxSnapshots
  /\ lock = "free"
  /\ snapshots' = snapshots + 1 /\ newest' = snapshots + 1
  /\ lock' = "engine" /\ it' = 1
  /\ engine' = "broadcast"
  /\ UNCHANGED <<running, clients_, loopVars, kernelVars, peerVars, wireVars>>

(* Mutant: a client that got half a frame stays. *)
BroadcastPastCut ==
  /\ engine = "broadcast" /\ it <= Len(clients_)
  /\ IF Entry.handshake_done
     THEN (Sends(newest) \/ Sends(Cut)) /\ GoOn
     ELSE UNCHANGED got /\ GoOn
  /\ UNCHANGED <<engineVars, running, lock, loopVars, listening, backlog, limit, peerVars, inbox>>

(* One client of the list: passed over before its handshake, sent the      *)
(* whole frame, or closed and erased when the send is cut.                 *)
BroadcastOne ==
  /\ engine = "broadcast" /\ it <= Len(clients_)
  /\ IF Entry.handshake_done
     THEN (Sends(newest) /\ GoOn) \/ (Sends(Cut) /\ CloseAndErase)
     ELSE UNCHANGED got /\ GoOn
  /\ UNCHANGED <<engineVars, running, lock, loopVars, listening, backlog, limit, peerVars, inbox>>

EndBroadcast ==
  /\ engine = "broadcast" /\ it > Len(clients_)
  /\ lock' = "free" /\ it' = 1
  /\ engine' = "run"
  /\ UNCHANGED <<snapshots, newest, running, clients_, loopVars, kernelVars, peerVars, wireVars>>

(* run_from_shared_memory returns, and stop() is called. *)
Stop ==
  /\ engine = "run"
  /\ running' = FALSE
  /\ engine' = "join"
  /\ UNCHANGED <<snapshots, newest, clients_, lock, it, loopVars, kernelVars, peerVars, wireVars>>

(* The loop's thread has ended: the listening socket goes too, and with it *)
(* the calls nobody answered.                                              *)
Joined ==
  /\ engine = "join" /\ loop = "done"
  /\ listening' = FALSE /\ backlog' = << >>
  /\ engine' = "done"
  /\ UNCHANGED <<snapshots, newest, sharedVars, loopVars, owner, limit, peerVars, wireVars>>

EngineStep == BroadcastOne \/ EndBroadcast \/ Joined

Next ==
  \/ LoopStep \/ EngineStep
  \/ Start \/ Paced \/ BeginBroadcast \/ Stop
  \/ \E c \in Clients : Call(c) \/ Send(c) \/ Hangup(c)

(* Both threads are scheduled.  Nobody has to call, send, emit a snapshot  *)
(* or ask the daemon to stop.                                              *)
Spec == Init /\ [][Next]_vars /\ WF_vars(LoopStep) /\ WF_vars(EngineStep)

-----------------------------------------------------------------------------
(* Properties. *)

(* Every open descriptor is the loop's to close: it is in the list once,   *)
(* or just accepted, whoever closes and accepts in between; none is left   *)
(* when main ends.                                                         *)
DescriptorsOwned ==
  /\ Open = Listed \union ({hand} \ {NoFd})
  /\ \A i, j \in DOMAIN clients_ : clients_[i].fd = clients_[j].fd => i = j
  /\ hand \notin Listed
  /\ engine = "done" => Open = {} /\ ~listening

Greeted(c) == got[c] # << >> /\ got[c][1] = Welcome

ReadyFrom(i) == {owner[clients_[j].fd] : j \in {k \in i .. Len(clients_) : clients_[k].handshake_done}}

Status(c) == IF ~Greeted(c) THEN "out" ELSE IF c \in Held THEN "in" ELSE "gone"

(* The snapshots among what was sent. *)
WithSnapshot(seq, item) == IF item \in 1 .. MaxSnapshots THEN Append(seq, item) ELSE seq
SnapshotsIn(seq) == FoldLeft(WithSnapshot, << >>, seq)

Owed == IF engine = "broadcast" THEN ReadyFrom(it) ELSE {}

(* The server is a broadcast feed of the snapshots that pacing lets pass,  *)
(* joined with the 101: no frame before it, none after one that was cut,   *)
(* none left out in between, and a list that is erased from while it is    *)
(* walked passes nobody over.                                              *)
Feed == INSTANCE BroadcastFeed WITH
  Members <- Clients, Items <- 1 .. MaxSnapshots,
  newest <- newest,
  status <- [c \in Clients |-> Status(c)],
  stream <- [c \in Clients |-> SnapshotsIn(got[c])],
  owed <- Owed

ServesTheFeed == Feed!Spec

(* A client whose request has arrived is answered or let go, in however    *)
(* many pieces it came and whatever is broadcast meanwhile, as long as the *)
(* daemon runs.                                                            *)
RequestAnswered ==
  \A c \in Clients :
    (c \in Held /\ sent[c] >= 2) ~> (got[c] # << >> \/ c \notin Held \/ ~running)

(* Stopping ends: the loop sees running_ within one timeout, and no client *)
(* or broadcast can keep it from its end.                                  *)
StopEnds == (engine = "join") ~> (engine = "done")

(* "Every connected client receives them" (WebSocketServer.hpp): a client  *)
(* that has not hung up is not closed while the daemon runs, unless a send *)
(* to it failed or its request was bad.                                    *)
HeardBeforeClosed ==
  \A c \in Clients :
    running /\ peer[c] = "there" /\ c \notin Held \union Range(backlog)
      => got[c] # << >> /\ got[c][Len(got[c])] \in {BadRequest, Cut}
=============================================================================
