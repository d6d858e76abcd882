---------------------------- MODULE BroadcastFeed ----------------------------
(***************************************************************************)
(* What a broadcast server promises its members: a member that has joined  *)
(* gets every item published from then on, whole, once and in order, until *)
(* it leaves; nobody else gets any; and the next item waits until everyone *)
(* has the last one or has left.  Nothing is said of sockets, descriptors  *)
(* or threads.                                                             *)
(***************************************************************************)
EXTENDS Naturals, Sequences

CONSTANTS Members, Items   \* Items: numbers

VARIABLES
  newest,   \* the item published last; 0 is none
  status,   \* member -> "out", "in" or "gone"
  stream,   \* the items each member has been given
  owed      \* members that still have to get the newest item

vars == <<newest, status, stream, owed>>

Init ==
  /\ newest = 0
  /\ status = [m \in Members |-> "out"]
  /\ stream = [m \in Members |-> << >>]
  /\ owed = {}

Publish(n) ==
  /\ owed = {}
  /\ n > newest
  /\ newest' = n
  /\ owed' = {m \in Members : status[m] = "in"}
  /\ UNCHANGED <<status, stream>>

Join(m) ==
  /\ status[m] = "out"
  /\ status' = [status EXCEPT ![m] = "in"]
  /\ UNCHANGED <<newest, stream, owed>>

Deliver(m) ==
  /\ m \in owed
  /\ stream' = [stream EXCEPT ![m] = Append(@, newest)]
  /\ owed' = owed \ {m}
  /\ UNCHANGED <<newest, status>>

Leave(m) ==
  /\ status[m] = "in"
  /\ status' = [status EXCEPT ![m] = "gone"]
  /\ owed' = owed \ {m}
  /\ UNCHANGED <<newest, stream>>

(* Any number of members can be turned out at once, when the server ends. *)
End ==
  /\ owed = {}
  /\ status' = [m \in Members |-> IF status[m] = "in" THEN "gone" ELSE status[m]]
  /\ UNCHANGED <<newest, stream, owed>>

Settle(m) == m \in owed /\ (Deliver(m) \/ Leave(m))

Next ==
  \/ End
  \/ \E n \in Items : Publish(n)
  \/ \E m \in Members : Join(m) \/ Deliver(m) \/ Leave(m)

(* No member is left waiting for an item that was published. *)
Spec == Init /\ [][Next]_vars /\ \A m \in Members : WF_vars(Settle(m))
=============================================================================
