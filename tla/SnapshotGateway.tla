--------------------------- MODULE SnapshotGateway ---------------------------
(***************************************************************************)
(* From the engines to the browsers: each engine prints its snapshots to a *)
(* pipe, one reader task per symbol keeps the newest in the shared map     *)
(* with a version, and one task per WebSocket client sends the whole map   *)
(* whenever some version is ahead of what it sent last (main in main.rs).  *)
(*                                                                         *)
(* Snapshots of a symbol are numbered in the order they are emitted; 0     *)
(* stands for none.  Tasks interleave at every await; what happens under   *)
(* the lock of the map is one step.                                        *)
(***************************************************************************)
EXTENDS Naturals, Sequences, FiniteSets

CONSTANTS
  Symbols,
  Clients,       \* WebSocket connections; a browser that reconnects is another one
  PipeCap,       \* lines an engine's stdout pipe holds
  WireCap,       \* frames a client's socket holds
  MaxSnapshots   \* bound of the model: snapshots per symbol

ASSUME GatewayAssumption ==
  /\ IsFiniteSet(Symbols)
  /\ PipeCap \in Nat \ {0} /\ WireCap \in Nat \ {0} /\ MaxSnapshots \in Nat

VARIABLES
  emitted,        \* snapshots each engine has emitted, each on a line of its own
  pipe,           \* its lines not yet read; 0 is a line that is no snapshot
  snapshots,      \* the shared map: symbol -> version and snapshot
  there,          \* clients whose browser is still connected
  client,         \* where each client's task is
  last_versions,  \* the versions each task last sent
  frame,          \* the batch each task is sending
  wire,           \* batches sent and not yet received
  received        \* history: batches each browser got (FeedStore.onmessage)

gatewayVars == <<emitted, pipe, snapshots>>
clientVars == <<there, client, last_versions, frame, wire, received>>
vars == <<gatewayVars, clientVars>>

None == [s \in Symbols |-> 0]

-----------------------------------------------------------------------------
Init ==
  /\ emitted = None
  /\ pipe = [s \in Symbols |-> << >>]
  /\ snapshots = [s \in Symbols |-> [version |-> 0, snap |-> 0]]
  /\ there = {}
  /\ client = [c \in Clients |-> "away"]
  /\ last_versions = [c \in Clients |-> None]
  /\ frame = [c \in Clients |-> None]
  /\ wire = [c \in Clients |-> << >>]
  /\ received = [c \in Clients |-> << >>]

(* The callback of run_daemon prints a snapshot.  A full pipe blocks it,   *)
(* and with it the engine.                                                 *)
EmitSnapshot(s) ==
  /\ emitted[s] < MaxSnapshots
  /\ Len(pipe[s]) < PipeCap
  /\ emitted' = [emitted EXCEPT ![s] = @ + 1]
  /\ pipe' = [pipe EXCEPT ![s] = Append(@, emitted[s] + 1)]
  /\ UNCHANGED <<snapshots, clientVars>>

(* Something else is printed: a banner, or a snapshot whose line the text  *)
(* of the signal handler has cut into pieces, none of which parses.        *)
EmitNoise(s) ==
  /\ emitted[s] < MaxSnapshots
  /\ Len(pipe[s]) < PipeCap
  /\ pipe' = [pipe EXCEPT ![s] = Append(@, 0)]
  /\ UNCHANGED <<emitted, snapshots, clientVars>>

(* Mutant: the new snapshot is stored under the old version. *)
ReadLineSameVersion(s) ==
  /\ pipe[s] # << >>
  /\ pipe' = [pipe EXCEPT ![s] = Tail(@)]
  /\ snapshots' =
       IF Head(pipe[s]) = 0 THEN snapshots
       ELSE [snapshots EXCEPT ![s] = [version |-> IF @.version = 0 THEN 1 ELSE @.version,
                                      snap |-> Head(pipe[s])]]
  /\ UNCHANGED <<emitted, clientVars>>

(* Mutant: each line is handled by a task of its own, and they may come to *)
(* the lock in any order.                                                  *)
ReadLineSpawned(s) ==
  /\ \E i \in DOMAIN pipe[s] :
       /\ pipe' = [pipe EXCEPT ![s] = SubSeq(@, 1, i - 1) \o SubSeq(@, i + 1, Len(@))]
       /\ snapshots' =
            IF pipe[s][i] = 0 THEN snapshots
            ELSE [snapshots EXCEPT ![s] = [version |-> @.version + 1, snap |-> pipe[s][i]]]
  /\ UNCHANGED <<emitted, clientVars>>

(* The reader of symbol s takes a line, and under the write lock bumps the *)
(* version and replaces the snapshot; a line that does not parse is passed *)
(* over.                                                                   *)
ReadLine(s) ==
  /\ pipe[s] # << >>
  /\ pipe' = [pipe EXCEPT ![s] = Tail(@)]
  /\ snapshots' =
       IF Head(pipe[s]) = 0 THEN snapshots
       ELSE [snapshots EXCEPT ![s] = [version |-> @.version + 1, snap |-> Head(pipe[s])]]
  /\ UNCHANGED <<emitted, clientVars>>

-----------------------------------------------------------------------------
(* The task of client c. *)

Connect(c) ==
  /\ client[c] = "away"
  /\ client' = [client EXCEPT ![c] = "idle"]
  /\ there' = there \union {c}
  /\ UNCHANGED <<gatewayVars, last_versions, frame, wire, received>>

(* The browser goes away; what is still on its way to it is lost. *)
BrowserLeaves(c) ==
  /\ c \in there
  /\ there' = there \ {c}
  /\ wire' = [wire EXCEPT ![c] = << >>]
  /\ UNCHANGED <<gatewayVars, client, last_versions, frame, received>>

Versions == [s \in Symbols |-> snapshots[s].version]
Current == [s \in Symbols |-> snapshots[s].snap]

Changed(c) == \E s \in Symbols : last_versions[c][s] < snapshots[s].version

(* Mutant: the batch is built on every tick of the interval. *)
BuildAlways(c) ==
  /\ client[c] = "idle"
  /\ \E s \in Symbols : snapshots[s].version > 0
  /\ Len(received[c]) < Cardinality(Symbols) * MaxSnapshots
  /\ frame' = [frame EXCEPT ![c] = Current]
  /\ last_versions' = [last_versions EXCEPT ![c] = Versions]
  /\ client' = [client EXCEPT ![c] = "sending"]
  /\ UNCHANGED <<gatewayVars, there, wire, received>>

(* The interval ticks; under the read lock the task finds a change and     *)
(* copies the whole map and its versions.                                  *)
BuildBatch(c) ==
  /\ client[c] = "idle"
  /\ Changed(c)
  /\ frame' = [frame EXCEPT ![c] = Current]
  /\ last_versions' = [last_versions EXCEPT ![c] = Versions]
  /\ client' = [client EXCEPT ![c] = "sending"]
  /\ UNCHANGED <<gatewayVars, there, wire, received>>

(* Mutant: the versions are taken after the send, from a map that may have *)
(* moved on.                                                               *)
SendThenNoteVersions(c) ==
  /\ client[c] = "sending"
  /\ c \in there /\ Len(wire[c]) < WireCap
  /\ wire' = [wire EXCEPT ![c] = Append(@, frame[c])]
  /\ client' = [client EXCEPT ![c] = "idle"]
  /\ last_versions' = [last_versions EXCEPT ![c] = Versions]
  /\ UNCHANGED <<gatewayVars, there, frame, received>>

(* send().await, with no lock held: a slow client keeps its own task here, *)
(* and no other.                                                           *)
SendBatch(c) ==
  /\ client[c] = "sending"
  /\ c \in there /\ Len(wire[c]) < WireCap
  /\ wire' = [wire EXCEPT ![c] = Append(@, frame[c])]
  /\ client' = [client EXCEPT ![c] = "idle"]
  /\ UNCHANGED <<gatewayVars, there, last_versions, frame, received>>

(* Only a send that fails tells the task that the browser has gone. *)
SendFails(c) ==
  /\ client[c] = "sending" /\ c \notin there
  /\ client' = [client EXCEPT ![c] = "gone"]
  /\ UNCHANGED <<gatewayVars, there, last_versions, frame, wire, received>>

(* The browser gets the next frame: every snapshot in it is pushed to its  *)
(* symbol's history, and the executions it lists to the symbol's tape.     *)
Receive(c) ==
  /\ c \in there /\ wire[c] # << >>
  /\ received' = [received EXCEPT ![c] = Append(@, Head(wire[c]))]
  /\ wire' = [wire EXCEPT ![c] = Tail(@)]
  /\ UNCHANGED <<gatewayVars, there, client, last_versions, frame>>

ClientStep(c) == BuildBatch(c) \/ SendBatch(c) \/ SendFails(c)

Next ==
  \/ \E s \in Symbols : EmitSnapshot(s) \/ EmitNoise(s) \/ ReadLine(s)
  \/ \E c \in Clients : Connect(c) \/ BrowserLeaves(c) \/ ClientStep(c) \/ Receive(c)

(* The readers and the client tasks are scheduled, and a connection that   *)
(* is up moves its frames; engines and browsers come and go as they like.  *)
Fairness ==
  /\ \A s \in Symbols : WF_vars(ReadLine(s))
  /\ \A c \in Clients : WF_vars(ClientStep(c)) /\ WF_vars(Receive(c))

Spec == Init /\ [][Next]_vars /\ Fairness

-----------------------------------------------------------------------------
(* Properties. *)

(* What a browser has been sent so far, in order, as it will receive it. *)
Sent(c) == received[c] \o wire[c] \o IF client[c] = "sending" THEN <<frame[c]>> ELSE << >>

(* No browser is ever taken back to an older snapshot of a symbol, however *)
(* readers, senders and slow clients interleave.                           *)
NeverOlder ==
  \A c \in Clients : \A i, j \in DOMAIN Sent(c) :
    i < j => \A s \in Symbols : Sent(c)[i][s] <= Sent(c)[j][s]

(* "Only send if at least one symbol changed": no frame repeats the one    *)
(* before it.                                                              *)
EveryFrameIsNews ==
  \A c \in Clients : \A i \in DOMAIN Sent(c) :
    i > 1 => Sent(c)[i] # Sent(c)[i - 1]

(* A task that takes itself to be up to date for a symbol has sent the     *)
(* snapshot the map holds: an update that falls between building a batch   *)
(* and sending it is not mistaken for one already sent.                    *)
UpToDateMeansSent ==
  \A c \in Clients, s \in Symbols :
    /\ c \in there
    /\ snapshots[s].version > 0
    /\ last_versions[c][s] = snapshots[s].version
    => Sent(c) # << >> /\ Sent(c)[Len(Sent(c))][s] = snapshots[s].snap

(* A connected browser gets every symbol's newest snapshot in the end, or  *)
(* a newer one, whatever the other clients do.                             *)
CatchesUp ==
  \A c \in Clients, s \in Symbols : \A k \in 1 .. MaxSnapshots :
    (c \in there /\ emitted[s] = k) ~>
      \/ c \notin there
      \/ received[c] # << >> /\ received[c][Len(received[c])][s] >= k
=============================================================================
