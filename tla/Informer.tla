------------------------------- MODULE Informer -------------------------------
(***************************************************************************)
(* How the operator sees the cluster.  Every controller reads through the  *)
(* manager's caching client (mgr.GetClient() in cmd/main.go) and writes to *)
(* the API server.  The cache of a kind is filled by a watch: it holds a   *)
(* past snapshot of that kind, and the changes it has not seen yet arrive  *)
(* in the order in which they were made.                                   *)
(*                                                                         *)
(* A watched kind is therefore one nonempty sequence of snapshots.  The    *)
(* first is what the cache holds, the last is what the API server holds,   *)
(* and those in between are watch events that are still on their way.  A   *)
(* snapshot maps the name of an object to the object.                      *)
(***************************************************************************)
EXTENDS Naturals, Sequences

(* Every possible state of a kind whose snapshots are the elements of S.   *)
Watched(S) == Seq(S) \ {<<>>}

(* What a Get or List of the caching client returns.                       *)
Cached(w) == w[1]

(* What the API server holds: the state that writes are made against.      *)
Stored(w) == w[Len(w)]

(* The kind after a write that leaves the object called n equal to obj.    *)
Write(w, n, obj) == Append(w, [Stored(w) EXCEPT ![n] = obj])

(* The names whose objects the next watch event changes in the cache.      *)
Announced(w) == {n \in DOMAIN w[1] : w[2][n] # w[1][n]}

(* An event that is on its way will announce n.                            *)
OnItsWay(w, n) == \E i \in 2..Len(w) : w[i][n] # w[i - 1][n]

(* The kind after a restart: the cache is filled anew from a full list.    *)
Relisted(w) == <<Stored(w)>>
===============================================================================
