--------------------------- MODULE SpoofingDetector ---------------------------
(***************************************************************************)
(* SpoofingDetector of GraphAlgos.hpp: per cluster of neighbouring prices  *)
(* the volumes added and cancelled, and the orders still followed.  A      *)
(* cancel is scored by the share of the cluster's added volume that was    *)
(* cancelled.  Orders are found through a second index, order_clusters_.   *)
(***************************************************************************)
EXTENDS Integers, FiniteSets, Functions

CONSTANTS
  ClusterWidth,  \* ticks per cluster (50)
  MaxTracked,    \* orders followed per cluster before it is cleared (1000)
  MinVolume      \* min_qty_

VARIABLES
  clusters,        \* cluster -> volumes and followed orders
  order_clusters   \* order id -> cluster

spoofVars == <<clusters, order_clusters>>

price_cluster(p) == (p \div ClusterWidth) * ClusterWidth

NoCluster == [total_add_volume |-> 0, total_cancel_volume |-> 0, orders |-> << >>]

ClusterAt(key) == IF key \in DOMAIN clusters THEN clusters[key] ELSE NoCluster

With(f, x, v) == [y \in DOMAIN f \union {x} |-> IF y = x THEN v ELSE f[y]]
Without(f, x) == Restrict(f, DOMAIN f \ {x})

(* Mutant: only the added volume is halved. *)
EvictedAdds(cluster) ==
  IF Cardinality(DOMAIN cluster.orders) > MaxTracked
  THEN [cluster EXCEPT !.total_add_volume = @ \div 2, !.orders = << >>]
  ELSE cluster

(* evict_old: a cluster that follows too many orders forgets them all, and *)
(* half of its volumes.                                                    *)
Overfull(cluster) == Cardinality(DOMAIN cluster.orders) > MaxTracked
Evicted(cluster) ==
  IF Overfull(cluster)
  THEN [total_add_volume |-> cluster.total_add_volume \div 2,
        total_cancel_volume |-> cluster.total_cancel_volume \div 2,
        orders |-> << >>]
  ELSE cluster
Forgotten(cluster) == IF Overfull(cluster) THEN DOMAIN cluster.orders ELSE {}

(* The order has q shares less; it is no longer followed after its last. *)
Lessened(cluster, id, q) ==
  IF cluster.orders[id] = q
  THEN [cluster EXCEPT !.orders = Without(@, id)]
  ELSE [cluster EXCEPT !.orders[id] = @ - q]

Followed(id) ==
  /\ id \in DOMAIN order_clusters
  /\ order_clusters[id] \in DOMAIN clusters
  /\ id \in DOMAIN clusters[order_clusters[id]].orders

Applied(id, q) ==
  LET left == clusters[order_clusters[id]].orders[id] IN IF q <= left THEN q ELSE left

-----------------------------------------------------------------------------
SpoofInit == clusters = << >> /\ order_clusters = << >>

record_add(id, p, q) ==
  LET key == price_cluster(p)
      grown == [ClusterAt(key) EXCEPT !.total_add_volume = @ + q,
                                      !.orders = With(@, id, q)]
  IN  /\ clusters' = With(clusters, key, Evicted(grown))
      /\ order_clusters' = Restrict(With(order_clusters, id, key),
                                    (DOMAIN order_clusters \union {id}) \ Forgotten(grown))

(* Mutant: executions are not recorded. *)
record_nothing(id, q) == UNCHANGED spoofVars

(* Executed shares are neither cancelled nor waiting. *)
record_execute(id, q) ==
  IF ~Followed(id)
  THEN /\ order_clusters' = Without(order_clusters, id)
       /\ UNCHANGED clusters
  ELSE LET key == order_clusters[id]
           left == Lessened(clusters[key], id, Applied(id, q))
       IN  /\ clusters' = [clusters EXCEPT ![key] = left]
           /\ order_clusters' = IF id \in DOMAIN left.orders THEN order_clusters
                                ELSE Without(order_clusters, id)

(* The cluster of order id after the cancel of q of its shares was counted. *)
Cancelled(id, q) ==
  LET cluster == clusters[order_clusters[id]]
  IN  [Lessened(cluster, id, Applied(id, q))
         EXCEPT !.total_cancel_volume = @ + Applied(id, q)]

check_cancel(id, q) ==
  IF ~Followed(id) THEN UNCHANGED spoofVars
  ELSE LET key == order_clusters[id]
           after == Cancelled(id, q)
       IN  /\ clusters' = [clusters EXCEPT ![key] = Evicted(after)]
           /\ order_clusters' =
                Restrict(order_clusters, DOMAIN order_clusters \
                  (Forgotten(after) \union ({id} \ DOMAIN after.orders)))

(* The alert returned by check_cancel: the quantity scored, 0 when the     *)
(* order is not followed, and whether the cluster is cancel-dominated      *)
(* (threshold_ 0.98).                                                      *)
Alert(id, q) ==
  IF ~Followed(id) THEN [quantity |-> 0, is_suspected_spoof |-> FALSE]
  ELSE LET after == Evicted(Cancelled(id, q))
       IN  [quantity |-> Applied(id, q),
            is_suspected_spoof |->
              /\ after.total_add_volume > 0
              /\ 100 * after.total_cancel_volume >= 98 * after.total_add_volume
              /\ after.total_add_volume >= MinVolume]
=============================================================================
