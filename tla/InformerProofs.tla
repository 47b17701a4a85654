---------------------------- MODULE InformerProofs ----------------------------
(***************************************************************************)
(* What writes, deliveries and a restart do to a watched kind.  The proofs *)
(* about the controllers see a kind through these lemmas only: as the set  *)
(* of its snapshots, with two of them singled out.                         *)
(***************************************************************************)
EXTENDS Informer, WellFoundedInduction, TLAPS

(* The snapshots that a reader may still get.                              *)
Seen(w) == {w[i] : i \in 1..Len(w)}

(* The snapshot that a write adds.                                         *)
Changed(w, n, obj) == [Stored(w) EXCEPT ![n] = obj]

(* Both the cache and the API server hold a snapshot.                      *)
LEMMA Snapshots ==
  ASSUME NEW S, NEW w \in Watched(S)
  PROVE  /\ Len(w) \in Nat \ {0}
         /\ Cached(w) \in Seen(w)
         /\ Stored(w) \in Seen(w)
         /\ Seen(w) \subseteq S
BY DEF Watched, Cached, Stored, Seen

(* A kind that starts with a single snapshot.                              *)
LEMMA Single ==
  ASSUME NEW S, NEW x \in S
  PROVE  /\ <<x>> \in Watched(S)
         /\ Seen(<<x>>) = {x}
         /\ Stored(<<x>>) = x
         /\ Cached(<<x>>) = x
BY DEF Watched, Cached, Stored, Seen

(* A write adds one snapshot, which is then the stored one.                *)
LEMMA Written ==
  ASSUME NEW S, NEW w \in Watched(S), NEW n, NEW obj, Changed(w, n, obj) \in S
  PROVE  /\ Write(w, n, obj) \in Watched(S)
         /\ Stored(Write(w, n, obj)) = Changed(w, n, obj)
         /\ Seen(Write(w, n, obj)) = Seen(w) \cup {Changed(w, n, obj)}
<1> DEFINE x == Changed(w, n, obj)
<1>1. x \in S
  OBVIOUS
<1> HIDE DEF x
<1>2. /\ w \in Seq(S)
      /\ Append(w, x) \in Seq(S)
      /\ Len(Append(w, x)) = Len(w) + 1
      /\ Append(w, x)[Len(w) + 1] = x
      /\ \A i \in 1..Len(w) : Append(w, x)[i] = w[i]
  BY <1>1 DEF Watched
<1>3. Append(w, x) \in Watched(S) /\ Stored(Append(w, x)) = x
  BY <1>2 DEF Watched, Stored
<1>4. Seen(Append(w, x)) = Seen(w) \cup {x}
  <2>1. Len(w) \in Nat /\ 1..Len(Append(w, x)) = 1..Len(w) \cup {Len(w) + 1}
    BY <1>2
  <2> QED
    BY <1>2, <2>1 DEF Seen
<1> QED
  BY <1>3, <1>4 DEF Write, Changed, x

(* A delivery shows readers nothing new and leaves the stored snapshot.    *)
LEMMA Delivered ==
  ASSUME NEW S, NEW w \in Watched(S), Len(w) > 1
  PROVE  /\ Tail(w) \in Watched(S)
         /\ Stored(Tail(w)) = Stored(w)
         /\ Seen(Tail(w)) \subseteq Seen(w)
<1>1. /\ w \in Seq(S)
      /\ Tail(w) \in Seq(S)
      /\ Len(Tail(w)) = Len(w) - 1
      /\ Len(w) \in Nat
      /\ \A i \in 1..(Len(w) - 1) : Tail(w)[i] = w[i + 1]
  BY DEF Watched
<1>2. Tail(w) \in Watched(S)
  <2>1. Len(Tail(w)) # 0
    BY <1>1
  <2>2. Tail(w) # <<>>
    BY <2>1
  <2> QED
    BY <1>1, <2>2 DEF Watched
<1>3. Stored(Tail(w)) = Stored(w)
  BY <1>1 DEF Stored
<1>4. Seen(Tail(w)) \subseteq Seen(w)
  <2>1. \A i \in 1..Len(Tail(w)) : i + 1 \in 1..Len(w) /\ Tail(w)[i] = w[i + 1]
    BY <1>1
  <2> QED
    BY <2>1 DEF Seen
<1> QED
  BY <1>2, <1>3, <1>4

(* After a restart the stored snapshot is the only one.                    *)
LEMMA Restarted ==
  ASSUME NEW S, NEW w \in Watched(S)
  PROVE  /\ Relisted(w) \in Watched(S)
         /\ Stored(Relisted(w)) = Stored(w)
         /\ Seen(Relisted(w)) = {Stored(w)}
BY Snapshots, Single DEF Relisted

(* The names that a delivered change announces are names of the kind.      *)
LEMMA AnnouncedNames ==
  ASSUME NEW N, NEW T, NEW w \in Watched([N -> T])
  PROVE  Announced(w) \subseteq N
<1>1. Cached(w) \in [N -> T]
  BY Snapshots
<1> QED
  BY <1>1 DEF Announced, Cached

-------------------------------------------------------------------------------
(* Events on their way.                                                    *)

(* A write takes none of them back, and one announces what it changes.     *)
LEMMA WriteAnnounces ==
  ASSUME NEW S, NEW w \in Watched(S), NEW n, NEW obj, NEW m,
         OnItsWay(w, m) \/ Stored(Write(w, n, obj))[m] # Stored(w)[m]
  PROVE  OnItsWay(Write(w, n, obj), m)
<1> DEFINE x == Changed(w, n, obj)
           A == S \cup {x}
<1>1. w \in Seq(A) /\ x \in A /\ w # <<>>
  BY DEF Watched
<1> HIDE DEF x, A
<1>2. /\ Len(w) \in Nat \ {0}
      /\ Len(Append(w, x)) = Len(w) + 1
      /\ Append(w, x)[Len(w) + 1] = x
      /\ \A i \in 1..Len(w) : Append(w, x)[i] = w[i]
  BY <1>1
<1>3. CASE OnItsWay(w, m)
  <2>1. PICK i \in 2..Len(w) : w[i][m] # w[i - 1][m]
    BY <1>3 DEF OnItsWay
  <2>2. /\ i \in 2..Len(Append(w, x))
        /\ Append(w, x)[i] = w[i] /\ Append(w, x)[i - 1] = w[i - 1]
    BY <1>2
  <2>3. OnItsWay(Append(w, x), m)
    BY <2>1, <2>2 DEF OnItsWay
  <2> QED
    BY <2>3 DEF Write, Changed, x
<1>4. CASE Stored(Append(w, x))[m] # Stored(w)[m]
  <2> DEFINE i == Len(w) + 1
  <2>1. /\ i \in 2..Len(Append(w, x))
        /\ Append(w, x)[i] = Stored(Append(w, x)) /\ Append(w, x)[i - 1] = Stored(w)
    BY <1>2 DEF Stored
  <2> HIDE DEF i
  <2>2. OnItsWay(Append(w, x), m)
    BY <1>4, <2>1 DEF OnItsWay
  <2> QED
    BY <2>2 DEF Write, Changed, x
<1> QED
  BY <1>3, <1>4 DEF Write, Changed, x

(* Of a delivery, the change delivered is announced; the others are still  *)
(* on their way.                                                           *)
LEMMA DeliveryAnnounces ==
  ASSUME NEW N, NEW T, NEW w \in Watched([N -> T]), Len(w) > 1,
         NEW m \in N, OnItsWay(w, m)
  PROVE  OnItsWay(Tail(w), m) \/ m \in Announced(w)
<1>1. /\ Len(w) \in Nat
      /\ Len(Tail(w)) = Len(w) - 1
      /\ \A i \in 1..(Len(w) - 1) : Tail(w)[i] = w[i + 1]
      /\ DOMAIN w[1] = N
  BY DEF Watched
<1>2. PICK i \in 2..Len(w) : w[i][m] # w[i - 1][m]
  BY DEF OnItsWay
<1>3. CASE i = 2
  BY <1>1, <1>2, <1>3 DEF Announced
<1>4. CASE i # 2
  <2>1. /\ i - 1 \in 2..Len(Tail(w))
        /\ Tail(w)[i - 1] = w[i] /\ Tail(w)[(i - 1) - 1] = w[i - 1]
    BY <1>1, <1>4
  <2> QED
    BY <1>2, <2>1 DEF OnItsWay
<1> QED
  BY <1>3, <1>4

(* Whoever reads of n what is not stored will hear of it.                  *)
LEMMA Behind ==
  ASSUME NEW S, NEW w \in Watched(S), NEW n, Cached(w)[n] # Stored(w)[n]
  PROVE  OnItsWay(w, n)
<1> DEFINE Later == {i \in 1..Len(w) : w[i][n] # w[1][n]}
           Less == OpToRel(<, Nat)
<1>1. Len(w) \in Nat \ {0} /\ Later \in SUBSET Nat /\ Len(w) \in Later
  BY DEF Watched, Cached, Stored
<1>2. Less = {pair \in Nat \X Nat : pair[1] < pair[2]} /\ IsWellFoundedOn(Less, Nat)
  BY NatLessThanWellFounded DEF OpToRel
<1> HIDE DEF Less
<1>3. PICK i \in Later : \A j \in Later : <<j, i>> \notin Less
  <2> HIDE DEF Later
  <2> QED
    BY <1>1, <1>2, WFMin
<1>4. i \in 1..Len(w) /\ w[i][n] # w[1][n] /\ i # 1
  OBVIOUS
<1>5. i \in 2..Len(w) /\ i - 1 \in 1..Len(w) /\ <<i - 1, i>> \in Less
  BY <1>1, <1>2, <1>4
<1>6. w[i - 1][n] = w[1][n]
  BY <1>3, <1>5
<1> QED
  BY <1>4, <1>5, <1>6 DEF OnItsWay
===============================================================================
