--------------------------- MODULE AlgorithmsProofs ---------------------------
(***************************************************************************)
(* Two of the sequential algorithms, for any input.                        *)
(*                                                                         *)
(* The walk of get_lineage finds exactly the lineage, for every set of     *)
(* links, start and direction: WalkInv is inductive, and at the end of the *)
(* walk the visited artifacts are closed under the links.                  *)
(*                                                                         *)
(* A runtime that the manager accepts comes up, whatever the catalogue, the *)
(* commands and the config files are, as long as the catalogue is sound: a *)
(* plugin binds only what it requires, and no two register the same name.  *)
(* The invariant says what the setup order gives: while plugins are set up, *)
(* all that the next one depends on stand before it, and the registry holds *)
(* what they registered.                                                   *)
(***************************************************************************)
EXTENDS LineageWalk, CommandLine, FiniteSetTheorems, WellFoundedInduction, TLAPS

-----------------------------------------------------------------------------
(* The walk of get_lineage                                                  *)
(* A link joins two artifact ids, seen in either direction.                 *)
LEMMA LinkEnds ==
    ASSUME TypeOK, NEW l \in links
    PROVE  From(l) \in Ids /\ To(l) \in Ids
BY DEF TypeOK, Link, From, To

(* What an edge leads to from a reachable artifact is reachable.            *)
LEMMA ReachesStep ==
    ASSUME NEW N, NEW E, NEW x, NEW y, NEW z,
           Reaches(N, E, x, y), <<y, z>> \in E
    PROVE  Reaches(N, E, x, z)
BY DEF Reaches, ClosedUnder

(* The walk keeps to the file, the start and the direction it began with.   *)
LEMMA Fixed ==
    ASSUME [Next]_vars
    PROVE  /\ links' = links /\ direction' = direction /\ start' = start
           /\ Edges' = Edges
           /\ \A l : From(l)' = From(l) /\ To(l)' = To(l)
<1>1. links' = links /\ direction' = direction /\ start' = start
  BY DEF Next, Pop, Follow, vars
<1> QED BY <1>1 DEF Edges, From, To

(* WalkInv holds at the start.                                              *)
LEMMA InvInit == Init => WalkInv
<1> SUFFICES ASSUME Init PROVE WalkInv
  OBVIOUS
<1>1. TypeOK
  BY DEF Init, TypeOK
<1>2. Reaches(Ids, Edges, start, start)
  BY DEF Reaches
<1>3. \A l \in links : From(l) = start => queue[1] = From(l) /\ 1 \in DOMAIN queue
  BY DEF Init
<1> QED BY <1>1, <1>2, <1>3 DEF Init, WalkInv

(* Taking an artifact from the queue preserves WalkInv.                     *)
LEMMA PopKeeps ==
    ASSUME WalkInv, Pop
    PROVE  WalkInv'
<1>1. /\ links' = links /\ direction' = direction /\ start' = start
      /\ Edges' = Edges
      /\ \A l : From(l)' = From(l) /\ To(l)' = To(l)
  BY Fixed DEF Next
<1>2. queue \in Seq(Ids) /\ queue # <<>> /\ queue' = Tail(queue)
  BY DEF WalkInv, TypeOK, Pop, Rest
<1>3. \A i \in DOMAIN queue' : i + 1 \in DOMAIN queue /\ queue'[i] = queue[i + 1]
  BY <1>2
<1>4. \A i \in DOMAIN queue : \/ queue[i] = Head(queue)
                              \/ \E j \in DOMAIN queue' : queue'[j] = queue[i]
  <2> SUFFICES ASSUME NEW i \in DOMAIN queue, i # 1
               PROVE  \E j \in DOMAIN queue' : queue'[j] = queue[i]
    BY <1>2
  <2>1. i - 1 \in DOMAIN queue' /\ queue'[i - 1] = queue[i]
    BY <1>2
  <2> QED BY <2>1
<1>5. Head(queue) \in visited
  BY <1>2 DEF WalkInv
<1>6. rows' = {l \in links : From(l) = Head(queue)}
  BY DEF Pop, LinksOf
<1>7. TypeOK'
  BY <1>1, <1>2, <1>6 DEF Pop, WalkInv, TypeOK
<1>8. visited' = visited /\ result' = result /\ rows = {}
  BY DEF Pop
<1>9. \A l \in links : \/ From(l) \notin visited
                       \/ \E i \in DOMAIN queue' : queue'[i] = From(l)
                       \/ To(l) \in visited
                       \/ l \in rows'
  BY <1>4, <1>6, <1>8 DEF WalkInv
<1>10. \A i \in DOMAIN queue' : queue'[i] \in visited
  BY <1>3 DEF WalkInv
<1> QED BY <1>1, <1>5, <1>6, <1>7, <1>8, <1>9, <1>10 DEF WalkInv

(* Following a link preserves WalkInv.                                      *)
LEMMA FollowKeeps ==
    ASSUME WalkInv, NEW k \in rows, Follow(k)
    PROVE  WalkInv'
<1>1. /\ links' = links /\ direction' = direction /\ start' = start
      /\ Edges' = Edges
      /\ \A l : From(l)' = From(l) /\ To(l)' = To(l)
  BY Fixed DEF Next
<1>2. k \in links /\ To(k) \in Ids /\ From(k) \in visited
  BY LinkEnds DEF WalkInv, TypeOK
<1>3. rows' = rows \ {k}
  BY DEF Follow
<1>4. CASE To(k) \in visited
  <2>1. UNCHANGED <<visited, queue, result>>
    BY <1>4 DEF Follow
  <2>2. TypeOK'
    BY <1>1, <1>3, <2>1 DEF WalkInv, TypeOK
  <2> QED BY <1>1, <1>3, <1>4, <2>1, <2>2 DEF WalkInv
<1>5. CASE To(k) \notin visited
  <2>1. /\ visited' = visited \cup {To(k)}
        /\ result' = Append(result, To(k))
        /\ queue' = Append(queue, To(k))
    BY <1>5 DEF Follow, Marked, Enqueued
  <2>2. TypeOK'
    BY <1>1, <1>2, <1>3, <2>1 DEF WalkInv, TypeOK
  <2>3. result \in Seq(Ids) /\ queue \in Seq(Ids)
    BY DEF WalkInv, TypeOK
  <2>4. /\ DOMAIN result' = DOMAIN result \cup {Len(result) + 1}
        /\ \A i \in DOMAIN result : result'[i] = result[i]
        /\ result'[Len(result) + 1] = To(k)
    BY <1>2, <2>1, <2>3
  <2>5. /\ DOMAIN queue' = DOMAIN queue \cup {Len(queue) + 1}
        /\ \A i \in DOMAIN queue : queue'[i] = queue[i]
        /\ queue'[Len(queue) + 1] = To(k)
    BY <1>2, <2>1, <2>3
  <2>6. visited' = {start'} \cup {result'[i] : i \in DOMAIN result'}
    BY <1>1, <2>1, <2>4 DEF WalkInv
  <2>7. \A i \in DOMAIN result' : result'[i] # start'
    BY <1>1, <1>5, <2>4 DEF WalkInv
  <2>8. \A i, j \in DOMAIN result' : result'[i] = result'[j] => i = j
    <3>1. \A i \in DOMAIN result : result[i] # To(k)
      BY <1>5 DEF WalkInv
    <3> QED BY <2>4, <3>1 DEF WalkInv
  <2>9. \A i \in DOMAIN queue' : queue'[i] \in visited'
    BY <2>1, <2>5 DEF WalkInv
  <2>10. \A l \in links : \/ From(l) \notin visited'
                          \/ \E i \in DOMAIN queue' : queue'[i] = From(l)
                          \/ To(l) \in visited'
                          \/ l \in rows'
    <3> SUFFICES ASSUME NEW l \in links, From(l) \in visited'
                 PROVE  \/ \E i \in DOMAIN queue' : queue'[i] = From(l)
                        \/ To(l) \in visited'
                        \/ l \in rows'
      OBVIOUS
    <3>1. CASE From(l) = To(k)
      BY <3>1, <2>5
    <3>2. CASE From(l) \in visited
      BY <3>2, <1>3, <2>1, <2>5 DEF WalkInv
    <3> QED BY <3>1, <3>2, <2>1
  <2>11. \A x \in visited' : Reaches(Ids, Edges, start, x)
    <3>1. <<From(k), To(k)>> \in Edges
      BY <1>2 DEF Edges
    <3>2. Reaches(Ids, Edges, start, From(k))
      BY <1>2 DEF WalkInv
    <3>3. Reaches(Ids, Edges, start, To(k))
      BY <3>1, <3>2, ReachesStep
    <3> QED BY <3>3, <2>1 DEF WalkInv
  <2>12. \A l \in rows' : From(l) \in visited'
    BY <1>3, <2>1 DEF WalkInv
  <2>13. \A x \in visited' : Reaches(Ids, Edges', start', x)
    BY <1>1, <2>11
  <2> QED BY <1>1, <2>2, <2>6, <2>7, <2>8, <2>9, <2>10, <2>12, <2>13 DEF WalkInv
<1> QED BY <1>4, <1>5

(* WalkInv is inductive.                                                    *)
LEMMA InvNext == WalkInv /\ [Next]_vars => WalkInv'
<1> SUFFICES ASSUME WalkInv, [Next]_vars PROVE WalkInv'
  OBVIOUS
<1>1. CASE Pop
  BY <1>1, PopKeeps
<1>2. CASE \E l \in rows : Follow(l)
  BY <1>2, FollowKeeps
<1>3. CASE UNCHANGED vars
  BY <1>3 DEF vars, WalkInv, TypeOK, From, To, Edges
<1> QED BY <1>1, <1>2, <1>3 DEF Next

(* What has left the queue has its links followed or at hand, throughout    *)
(* the walk.                                                                *)
THEOREM WalkCorrect == Spec => []WalkInv
BY InvInit, InvNext, PTL DEF Spec

(* get_lineage returns every artifact that can be reached from the start    *)
(* and no other, once each, for every file of links, cyclic ones included.  *)
THEOREM LineageCorrect == Spec => []LineageExact
<1>1. WalkInv => LineageExact
  <2> SUFFICES ASSUME WalkInv PROVE LineageExact
    OBVIOUS
  <2>1. \A i \in DOMAIN result : result[i] # start /\ Reaches(Ids, Edges, start, result[i])
    BY DEF WalkInv
  <2>2. ASSUME Over, NEW x \in Ids, x # start, Reaches(Ids, Edges, start, x)
        PROVE  \E i \in DOMAIN result : result[i] = x
    <3>1. \A l \in links : From(l) \in visited => To(l) \in visited
      BY <2>2 DEF WalkInv, Over
    <3>2. ClosedUnder(Edges, visited)
      BY <3>1 DEF ClosedUnder, Edges
    <3>3. start \in visited /\ visited \in SUBSET Ids
      BY DEF WalkInv, TypeOK
    <3>4. x \in visited
      BY <2>2, <3>2, <3>3 DEF Reaches
    <3> QED BY <2>2, <3>4 DEF WalkInv
  <2>3. \A i, j \in DOMAIN result : result[i] = result[j] => i = j
    BY DEF WalkInv
  <2> QED BY <2>1, <2>2, <2>3 DEF LineageExact
<1> QED BY <1>1, WalkCorrect, PTL

-----------------------------------------------------------------------------
(* The closest first                                                        *)
(* Every set of natural numbers but the empty one has a first element.      *)
LEMMA FirstNumber ==
    ASSUME NEW S \in SUBSET Nat, S # {}
    PROVE  \E x \in S : \A y \in S : x <= y
<1>1. PICK x \in S : \A y \in S : ~ (<<y, x>> \in OpToRel(<, Nat))
  BY WFMin, NatLessThanWellFounded
<1>2. \A y \in S : ~(y < x)
  BY <1>1 DEF OpToRel
<1> QED BY <1>2

\* What the next links lead to from a ball of artifacts.
Wider(ball) == ball \cup UNION {Children(Edges, x) : x \in ball}

\* f holds the balls around the start, up to n links.
Balls(f, n) == f = [k \in 0 .. n |-> IF k = 0 THEN {start} ELSE Wider(f[k - 1])]

(* There are such balls for every number of links.                          *)
LEMMA BallsExist == \A n \in Nat : \E f : Balls(f, n)
<1> DEFINE without == {n \in Nat : ~\E f : Balls(f, n)}
<1> SUFFICES ASSUME without # {} PROVE FALSE
  OBVIOUS
<1>1. PICK n \in without : \A m \in without : n <= m
  BY FirstNumber
<1>2. n # 0
  <2> DEFINE f == [k \in 0 .. 0 |-> {start}]
  <2>1. f = [k \in 0 .. 0 |-> IF k = 0 THEN {start} ELSE Wider(f[k - 1])]
    OBVIOUS
  <2>2. Balls(f, 0)
    BY <2>1 DEF Balls
  <2> QED BY <1>1, <2>2
<1>3. n \in Nat /\ n - 1 \in Nat /\ ~(n <= n - 1)
  BY <1>1, <1>2
<1>4. PICK f : Balls(f, n - 1)
  BY <1>1, <1>3
<1> DEFINE g == [k \in 0 .. n |-> IF k = n THEN Wider(f[n - 1]) ELSE f[k]]
<1>5. \A k \in 0 .. n - 1 : f[k] = IF k = 0 THEN {start} ELSE Wider(f[k - 1])
  BY <1>4 DEF Balls
<1>6. \A k \in 0 .. n : g[k] = IF k = 0 THEN {start} ELSE Wider(g[k - 1])
  <2> SUFFICES ASSUME NEW k \in 0 .. n
               PROVE  g[k] = IF k = 0 THEN {start} ELSE Wider(g[k - 1])
    OBVIOUS
  <2>1. CASE k = n
    <3>1. g[k] = Wider(f[n - 1]) /\ k # 0
      BY <1>3, <2>1
    <3>2. g[k - 1] = f[n - 1]
      BY <1>3, <2>1
    <3> QED BY <3>1, <3>2
  <2>2. CASE k # n
    <3>1. k \in 0 .. n - 1 /\ g[k] = f[k]
      BY <1>3, <2>2
    <3>2. k # 0 => g[k - 1] = f[k - 1]
      BY <1>3, <2>2
    <3> QED BY <1>5, <3>1, <3>2
  <2> QED BY <2>1, <2>2
<1>7. g = [k \in 0 .. n |-> IF k = 0 THEN {start} ELSE Wider(g[k - 1])]
  <2> DEFINE h == [k \in 0 .. n |-> IF k = 0 THEN {start} ELSE Wider(g[k - 1])]
  <2>1. DOMAIN g = 0 .. n /\ DOMAIN h = 0 .. n
    OBVIOUS
  <2>2. \A k \in 0 .. n : h[k] = IF k = 0 THEN {start} ELSE Wider(g[k - 1])
    OBVIOUS
  <2>3. \A k \in 0 .. n : g[k] = h[k]
    BY <1>6, <2>2
  <2> QED BY <2>1, <2>3
<1>8. Balls(g, n)
  BY <1>7 DEF Balls
<1> HIDE DEF g
<1> QED BY <1>1, <1>8

(* Within is what its recursion says.                                       *)
LEMMA WithinBalls ==
    /\ Cardinality(Ids) \in Nat
    /\ DOMAIN Within = 0 .. Cardinality(Ids)
    /\ Within[0] = {start}
    /\ \A k \in 1 .. Cardinality(Ids) : Within[k] = Wider(Within[k - 1])
<1> DEFINE n == Cardinality(Ids)
<1>1. n \in Nat
  BY IdsAssumption, FS_CardinalityType
<1>2. Within = CHOOSE f : Balls(f, n)
  BY DEF Within, Around, Balls, Wider
<1>3. Balls(Within, n)
  BY <1>1, <1>2, BallsExist
<1>4. DOMAIN Within = 0 .. n
  BY <1>3 DEF Balls
<1>5. \A k \in 0 .. n : Within[k] = IF k = 0 THEN {start} ELSE Wider(Within[k - 1])
  BY <1>3 DEF Balls
<1> QED BY <1>1, <1>4, <1>5

(* More links reach no less.                                                *)
LEMMA WithinGrows ==
    ASSUME NEW j \in DOMAIN Within, NEW k \in DOMAIN Within, j <= k
    PROVE  Within[j] \subseteq Within[k]
<1> DEFINE n == Cardinality(Ids)
           lost == {m \in j .. n : ~(Within[j] \subseteq Within[m])}
<1>1. n \in Nat /\ j \in 0 .. n /\ k \in 0 .. n
  BY WithinBalls
<1> SUFFICES ASSUME lost # {} PROVE FALSE
  BY <1>1
<1>2. PICK m \in lost : \A q \in lost : m <= q
  <2>1. lost \in SUBSET Nat
    BY <1>1
  <2> HIDE DEF lost
  <2> QED BY <2>1, FirstNumber
<1>3. m \in j .. n /\ ~(Within[j] \subseteq Within[m])
  BY <1>2
<1>4. m # j
  BY <1>3
<1>5. m - 1 \in j .. n /\ m \in 1 .. n /\ ~(m <= m - 1)
  BY <1>1, <1>3, <1>4
<1>6. Within[j] \subseteq Within[m - 1]
  BY <1>2, <1>5
<1>7. Within[m - 1] \subseteq Within[m]
  BY <1>5, WithinBalls DEF Wider
<1> QED BY <1>3, <1>6, <1>7

(* What a link leads to that is not found yet stands no farther than        *)
(* anything else that is not.                                               *)
LEMMA NextIsClosest ==
    ASSUME WalkInv, ClosestInv, NEW l \in rows, NEW m \in DOMAIN Within,
           ~(Within[m] \subseteq visited)
    PROVE  To(l) \in Within[m]
<1> DEFINE n == Cardinality(Ids)
           far == {k \in 0 .. n : ~(Within[k] \subseteq visited)}
<1>1. n \in Nat /\ m \in far /\ DOMAIN Within = 0 .. n
  BY WithinBalls
<1>2. PICK k \in far : \A q \in far : k <= q
  <2>1. far \in SUBSET Nat /\ far # {}
    BY <1>1
  <2> HIDE DEF far
  <2> QED BY <2>1, FirstNumber
<1>3. k \in 0 .. n /\ k <= m /\ ~(Within[k] \subseteq visited)
  BY <1>1, <1>2
<1>4. k # 0
  BY <1>3, WithinBalls DEF WalkInv
<1>5. k \in 1 .. n /\ k - 1 \in 0 .. n /\ ~(k <= k - 1)
  BY <1>1, <1>3, <1>4
<1>6. Within[k - 1] \subseteq visited
  BY <1>2, <1>5
<1>7. Within[k] = Wider(Within[k - 1])
  BY <1>5, WithinBalls
<1>8. PICK z \in Within[k] : z \notin visited
  BY <1>3
<1>9. PICK y \in Within[k - 1] : z \in Children(Edges, y)
  BY <1>6, <1>7, <1>8 DEF Wider
<1>10. PICK e \in links : From(e) = y /\ To(e) = z
  BY <1>9 DEF Children, Edges
<1>11. From(l) \in Within[k - 1]
  <2>1. \/ \E i \in DOMAIN queue : queue[i] = y
        \/ e \in rows
    BY <1>6, <1>8, <1>9, <1>10 DEF WalkInv
  <2>2. CASE e \in rows
    BY <1>9, <1>10, <2>2 DEF ClosestInv
  <2>3. CASE \E i \in DOMAIN queue : queue[i] = y
    BY <1>1, <1>5, <1>9, <2>3 DEF ClosestInv
  <2> QED BY <2>1, <2>2, <2>3
<1>12. To(l) \in Within[k]
  <2>1. <<From(l), To(l)>> \in Edges
    BY DEF WalkInv, TypeOK, Edges
  <2>2. To(l) \in Children(Edges, From(l))
    BY <2>1 DEF Children
  <2> QED BY <1>7, <1>11, <2>2 DEF Wider
<1> QED BY <1>1, <1>3, <1>12, WithinGrows

(* ClosestInv holds at the start.                                           *)
LEMMA ClosestInit == Init => ClosestInv
<1> SUFFICES ASSUME Init PROVE ClosestInv
  OBVIOUS
<1>1. /\ visited = {start} /\ DOMAIN queue = {1} /\ DOMAIN result = {} /\ rows = {}
  BY DEF Init
<1>2. ClosestFirst
  BY <1>1 DEF ClosestFirst
<1>3. ASSUME NEW k \in DOMAIN Within PROVE start \in Within[k]
  <2>1. 0 \in DOMAIN Within /\ 0 <= k /\ Within[0] = {start}
    BY WithinBalls
  <2> QED BY <2>1, WithinGrows
<1> QED BY <1>1, <1>2, <1>3 DEF ClosestInv

(* Within depends on the file, the start and the direction.                 *)
LEMMA WithinStays ==
    ASSUME [Next]_vars
    PROVE  Within' = Within
BY Fixed DEF Within

(* Taking an artifact from the queue preserves ClosestInv.                  *)
LEMMA ClosestPop ==
    ASSUME WalkInv, ClosestInv, Pop
    PROVE  ClosestInv'
<1>1. Within' = Within /\ \A l : From(l)' = From(l)
  BY WithinStays, Fixed DEF Next
<1>2. visited' = visited /\ result' = result
  BY DEF Pop
<1>3. queue \in Seq(Ids) /\ queue # <<>> /\ queue' = Tail(queue)
  BY DEF WalkInv, TypeOK, Pop, Rest
<1>4. \A i \in DOMAIN queue' : /\ i + 1 \in DOMAIN queue /\ queue'[i] = queue[i + 1]
                               /\ 1 < i + 1 /\ 1 \in DOMAIN queue
  BY <1>3
<1>5. \A l \in rows' : From(l) = queue[1]
  BY <1>3 DEF Pop, LinksOf
<1>6. ClosestFirst'
  BY <1>1, <1>2 DEF ClosestInv, ClosestFirst
<1>7. ASSUME NEW k \in DOMAIN Within
      PROVE  /\ Within[k] \subseteq visited \/ visited \subseteq Within[k]
             /\ \A i, j \in DOMAIN queue' :
                   i < j /\ queue'[j] \in Within[k] => queue'[i] \in Within[k]
             /\ \A l \in rows' : \A i \in DOMAIN queue' :
                   queue'[i] \in Within[k] => From(l) \in Within[k]
  <2>1. \A i, j \in DOMAIN queue :
           i < j /\ queue[j] \in Within[k] => queue[i] \in Within[k]
    BY DEF ClosestInv
  <2>2. \A i, j \in DOMAIN queue' : i < j => i + 1 < j + 1
    BY <1>3
  <2>3. \A i, j \in DOMAIN queue' :
           i < j /\ queue'[j] \in Within[k] => queue'[i] \in Within[k]
    BY <1>4, <2>1, <2>2
  <2>4. \A l \in rows' : \A i \in DOMAIN queue' :
           queue'[i] \in Within[k] => From(l) \in Within[k]
    BY <1>4, <1>5, <2>1
  <2> QED BY <2>3, <2>4 DEF ClosestInv
<1>8. \A l, m \in rows' : From(l) = From(m)
  BY <1>5
<1> QED BY <1>1, <1>2, <1>6, <1>7, <1>8 DEF ClosestInv

(* Following a link preserves ClosestInv.                                   *)
LEMMA ClosestFollow ==
    ASSUME WalkInv, ClosestInv, NEW k \in rows, Follow(k)
    PROVE  ClosestInv'
<1>1. Within' = Within /\ \A l : From(l)' = From(l)
  BY WithinStays, Fixed DEF Next
<1>2. rows' = rows \ {k}
  BY DEF Follow
<1>3. CASE To(k) \in visited
  <2>1. UNCHANGED <<visited, queue, result>>
    BY <1>3 DEF Follow
  <2> QED BY <1>1, <1>2, <2>1 DEF ClosestInv, ClosestFirst
<1>4. CASE To(k) \notin visited
  <2> DEFINE new == To(k)
  <2>1. /\ visited' = visited \cup {new}
        /\ result' = Append(result, new) /\ queue' = Append(queue, new)
    BY <1>4 DEF Follow, Marked, Enqueued
  <2>2. result \in Seq(Ids) /\ queue \in Seq(Ids) /\ new \in Ids
    BY LinkEnds DEF WalkInv, TypeOK
  <2>3. /\ DOMAIN result' = DOMAIN result \cup {Len(result) + 1}
        /\ \A i \in DOMAIN result : result'[i] = result[i] /\ i < Len(result) + 1
        /\ result'[Len(result) + 1] = new
        /\ DOMAIN queue' = DOMAIN queue \cup {Len(queue) + 1}
        /\ \A i \in DOMAIN queue : queue'[i] = queue[i] /\ i < Len(queue) + 1
        /\ queue'[Len(queue) + 1] = new
    BY <2>1, <2>2
  <2>4. /\ \A i \in DOMAIN result' : i \notin DOMAIN result => i = Len(result) + 1
        /\ \A j \in DOMAIN result : ~(Len(result) + 1 < j)
        /\ ~(Len(result) + 1 < Len(result) + 1)
        /\ \A i \in DOMAIN queue' : i \notin DOMAIN queue => i = Len(queue) + 1
        /\ \A j \in DOMAIN queue : ~(Len(queue) + 1 < j)
        /\ ~(Len(queue) + 1 < Len(queue) + 1)
    BY <2>2, <2>3
  <2>5. ASSUME NEW m \in DOMAIN Within, new \in Within[m]
        PROVE  visited \subseteq Within[m]
    BY <1>4, <2>5 DEF ClosestInv
  <2>6. ASSUME NEW m \in DOMAIN Within
        PROVE  /\ \A i, j \in DOMAIN result' :
                     i < j /\ result'[j] \in Within[m] => result'[i] \in Within[m]
               /\ Within[m] \subseteq visited' \/ visited' \subseteq Within[m]
               /\ \A i, j \in DOMAIN queue' :
                     i < j /\ queue'[j] \in Within[m] => queue'[i] \in Within[m]
               /\ \A l \in rows' : \A i \in DOMAIN queue' :
                     queue'[i] \in Within[m] => From(l) \in Within[m]
    <3>1. /\ \A i \in DOMAIN result : result[i] \in visited
          /\ \A i \in DOMAIN queue : queue[i] \in visited
          /\ \A l \in rows : From(l) \in visited
      BY DEF WalkInv
    <3>2. \A i, j \in DOMAIN result' :
             i < j /\ result'[j] \in Within[m] => result'[i] \in Within[m]
      <4>1. \A i, j \in DOMAIN result :
               i < j /\ result[j] \in Within[m] => result[i] \in Within[m]
        BY DEF ClosestInv, ClosestFirst
      <4> SUFFICES ASSUME NEW i \in DOMAIN result', NEW j \in DOMAIN result',
                          i < j, result'[j] \in Within[m]
                   PROVE  result'[i] \in Within[m]
        OBVIOUS
      <4>2. i \in DOMAIN result
        BY <2>3, <2>4
      <4>3. CASE j \in DOMAIN result
        BY <2>3, <4>1, <4>2, <4>3
      <4>4. CASE j \notin DOMAIN result
        BY <2>3, <2>4, <2>5, <3>1, <4>2, <4>4
      <4> QED BY <4>3, <4>4
    <3>3. Within[m] \subseteq visited' \/ visited' \subseteq Within[m]
      <4>1. CASE Within[m] \subseteq visited
        BY <2>1, <4>1
      <4>2. CASE ~(Within[m] \subseteq visited)
        <5>1. visited \subseteq Within[m]
          BY <4>2 DEF ClosestInv
        <5>2. new \in Within[m]
          BY <4>2, NextIsClosest
        <5> QED BY <2>1, <5>1, <5>2
      <4> QED BY <4>1, <4>2
    <3>4. \A i, j \in DOMAIN queue' :
             i < j /\ queue'[j] \in Within[m] => queue'[i] \in Within[m]
      <4>1. \A i, j \in DOMAIN queue :
               i < j /\ queue[j] \in Within[m] => queue[i] \in Within[m]
        BY DEF ClosestInv
      <4> SUFFICES ASSUME NEW i \in DOMAIN queue', NEW j \in DOMAIN queue',
                          i < j, queue'[j] \in Within[m]
                   PROVE  queue'[i] \in Within[m]
        OBVIOUS
      <4>2. i \in DOMAIN queue
        BY <2>3, <2>4
      <4>3. CASE j \in DOMAIN queue
        BY <2>3, <4>1, <4>2, <4>3
      <4>4. CASE j \notin DOMAIN queue
        BY <2>3, <2>4, <2>5, <3>1, <4>2, <4>4
      <4> QED BY <4>3, <4>4
    <3>5. ASSUME NEW l \in rows', NEW i \in DOMAIN queue', queue'[i] \in Within[m]
          PROVE  From(l) \in Within[m]
      <4>1. l \in rows
        BY <1>2
      <4>2. CASE i \in DOMAIN queue
        BY <2>3, <3>5, <4>1, <4>2 DEF ClosestInv
      <4>3. CASE i \notin DOMAIN queue
        BY <2>3, <2>4, <2>5, <3>1, <3>5, <4>1, <4>3
      <4> QED BY <4>2, <4>3
    <3> QED BY <3>2, <3>3, <3>4, <3>5
  <2>7. ClosestFirst'
    BY <1>1, <2>6 DEF ClosestFirst
  <2>8. \A l, m \in rows' : From(l) = From(m)
    BY <1>2 DEF ClosestInv
  <2> QED BY <1>1, <2>6, <2>7, <2>8 DEF ClosestInv
<1> QED BY <1>3, <1>4

(* get_lineage returns the closest artifacts first: none stands before one  *)
(* that is fewer links away from the start, whatever the order in which the *)
(* database returns the rows.                                               *)
THEOREM LineageClosestFirst == Spec => []ClosestFirst
<1>1. Init => ClosestInv
  BY ClosestInit
<1>2. WalkInv /\ ClosestInv /\ [Next]_vars => ClosestInv'
  <2> SUFFICES ASSUME WalkInv, ClosestInv, [Next]_vars PROVE ClosestInv'
    OBVIOUS
  <2>1. CASE Pop
    BY <2>1, ClosestPop
  <2>2. CASE \E l \in rows : Follow(l)
    BY <2>2, ClosestFollow
  <2>3. CASE UNCHANGED vars
    <3>1. Within' = Within /\ \A l : From(l)' = From(l)
      BY WithinStays, Fixed
    <3> QED BY <2>3, <3>1 DEF vars, ClosestInv, ClosestFirst
  <2> QED BY <2>1, <2>2, <2>3 DEF Next
<1>3. ClosestInv => ClosestFirst
  BY DEF ClosestInv
<1> QED BY <1>1, <1>2, <1>3, WalkCorrect, PTL DEF Spec

-----------------------------------------------------------------------------
(* A command's runtime                                                      *)
\* The plugins set up before place i.
Before(i) == {order[j] : j \in 1 .. i - 1}

\* Nothing is ordered before the manager has loaded the composition.
Fresh ==
    phase \in {"idle", "composed", "ordering"} => at = 1 /\ registry = {}
Unordered ==
    phase \in {"idle", "composed"} => order = <<>>

Composition ==
    /\ composition \subseteq DOMAIN Catalogue
    /\ order \in Seq(composition)
    /\ file \in Files \cup {NoFile}
    /\ preferring \in BOOLEAN
    /\ phase = "idle" => composition = {}

\* The manager has found a provider for every service that is required.
Complete ==
    phase \in {"ordering", "setup"} =>
        /\ graph = Dependencies(composition, preferring)
        /\ \A p \in composition : Catalogue[p].requires \subseteq Provided(composition)

\* A plugin stands once in the order, after the plugins it depends on.
Sorted ==
    phase \in {"ordering", "setup"} =>
        \A i \in 1 .. Len(order) :
            /\ graph[order[i]] \subseteq Before(i)
            /\ order[i] \notin Before(i)

\* The registry holds what the plugins before the next one registered.
Accounted ==
    phase = "setup" =>
        /\ at \in 1 .. Len(order) + 1
        /\ \A s : s \in registry <=> \E j \in 1 .. at - 1 : s \in Registers(order[j])

IInv ==
    /\ Fresh /\ Unordered /\ Composition /\ Complete /\ Sorted /\ Accounted
    /\ ComesUp

-----------------------------------------------------------------------------
(* What a plugin binds is registered when its turn comes: its providers are *)
(* among its dependencies, which stand before it, and are not disabled.     *)
LEMMA BindsRegistered ==
    ASSUME CatalogueSound, IInv, phase = "setup", at \in DOMAIN order
    PROVE  Catalogue[order[at]].binds \subseteq registry
PROOF
<1> DEFINE p == order[at]
<1>1. at \in 1 .. Len(order) /\ Len(order) \in Nat /\ at \in Nat
  BY DEF IInv, Composition
<1>2. p \in composition /\ p \in DOMAIN Catalogue
  BY <1>1 DEF IInv, Composition
<1>3. SUFFICES ASSUME NEW s \in Catalogue[p].binds
               PROVE  s \in registry
  OBVIOUS
<1>4. s \in Catalogue[p].requires
  BY <1>2, <1>3 DEF CatalogueSound
<1>5. PICK q \in composition : s \in Catalogue[q].provides
  BY <1>2, <1>4 DEF IInv, Complete, Provided
<1>6. q \in DOMAIN Catalogue
  BY <1>5 DEF IInv, Composition
<1>7. q # p
  BY <1>2, <1>4, <1>5 DEF CatalogueSound
<1>8. q \in graph[p]
  <2>1. graph[p] = {r \in composition \ {p} :
                      Catalogue[r].provides \cap Awaited(p, preferring) # {}}
    BY <1>2 DEF IInv, Complete, Dependencies
  <2>2. s \in Awaited(p, preferring)
    BY <1>4 DEF Awaited
  <2> QED
    BY <2>1, <2>2, <1>5, <1>7
<1>9. PICK j \in 1 .. at - 1 : q = order[j]
  BY <1>1, <1>8 DEF IInv, Sorted, Before
<1>10. s \in Catalogue[q].registers
  BY <1>5, <1>6 DEF CatalogueSound
<1>11. Catalogue[q].id \notin file.disabled
  <2>1. CASE file \in Files
    BY <2>1, <1>2, <1>3, <1>6, <1>7, <1>10 DEF CatalogueSound
  <2>2. CASE file = NoFile
    BY <2>2 DEF NoFile
  <2> QED
    BY <2>1, <2>2 DEF IInv, Composition
<1>12. s \in Registers(order[j])
  BY <1>9, <1>10, <1>11 DEF Registers
<1> QED
  BY <1>9, <1>12 DEF IInv, Accounted

(* No name that a plugin registers is taken when its turn comes: the plugins *)
(* before it are other plugins.                                             *)
LEMMA NamesFree ==
    ASSUME CatalogueSound, IInv, phase = "setup", at \in DOMAIN order
    PROVE  Registers(order[at]) \cap registry = {}
PROOF
<1>1. at \in 1 .. Len(order) /\ Len(order) \in Nat /\ at \in Nat
  BY DEF IInv, Composition
<1>2. SUFFICES ASSUME NEW s \in Registers(order[at]), s \in registry
               PROVE  FALSE
  OBVIOUS
<1>3. PICK j \in 1 .. at - 1 : s \in Registers(order[j])
  BY <1>2 DEF IInv, Accounted
<1>4. j \in 1 .. Len(order)
  BY <1>1, <1>3
<1>5. order[at] \in DOMAIN Catalogue /\ order[j] \in DOMAIN Catalogue
  BY <1>1, <1>4 DEF IInv, Composition
<1>6. order[at] # order[j]
  BY <1>1, <1>3 DEF IInv, Sorted, Before
<1>7. s \in Catalogue[order[at]].registers /\ s \in Catalogue[order[j]].registers
  BY <1>2, <1>3 DEF Registers
<1> QED
  BY <1>5, <1>6, <1>7 DEF CatalogueSound

-----------------------------------------------------------------------------
LEMMA InitInvariant == LineInit => IInv
PROOF
<1> SUFFICES ASSUME LineInit
             PROVE  IInv
  OBVIOUS
<1>1. phase = "idle" /\ order = <<>> /\ at = 1 /\ registry = {}
  BY DEF LineInit
<1>2. Composition
  <2>1. <<>> \in Seq(composition)
    OBVIOUS
  <2> QED
    BY <1>1, <2>1 DEF LineInit, Composition
<1> QED
  BY <1>1, <1>2 DEF IInv, Fresh, Unordered, Complete, Sorted, Accounted, ComesUp

LEMMA CallInvariant ==
    ASSUME IInv, NEW c \in DOMAIN Commands, NEW f \in Files, Call(c, f)
    PROVE  IInv'
PROOF
<1> USE DEF Call
<1>1. at' = at /\ registry' = registry /\ order' = order /\ phase = "idle"
  OBVIOUS
<1>2. phase' \in {"composed", "refused", "served"}
  OBVIOUS
<1>3. order = <<>> /\ at = 1 /\ registry = {} /\ composition = {}
  BY <1>1 DEF IInv, Fresh, Unordered, Composition
<1>4. composition' \subseteq DOMAIN Catalogue
  BY <1>3 DEF PluginsOf
<1>5. Composition'
  <2>1. preferring' \in BOOLEAN
    BY DEF IInv, Composition
  <2>2. order' \in Seq(composition')
    BY <1>1, <1>3
  <2> QED
    BY <1>1, <1>2, <1>4, <2>1, <2>2 DEF Composition
<1> QED
  BY <1>1, <1>2, <1>3, <1>5
     DEF IInv, Fresh, Unordered, Complete, Sorted, Accounted, ComesUp

LEMMA LoadInvariant == ASSUME IInv, Load PROVE IInv'
PROOF
<1> USE DEF Load
<1>1. phase = "composed" /\ phase' \in {"ordering", "refused"}
  OBVIOUS
<1>2. order = <<>> /\ order' = order /\ at' = 1 /\ registry' = {}
  BY <1>1 DEF IInv, Fresh, Unordered
<1>3. Composition'
  BY <1>1, <1>2 DEF IInv, Composition
<1> QED
  BY <1>1, <1>2, <1>3
     DEF IInv, Fresh, Unordered, Composition, Complete, Sorted, Accounted, ComesUp, Provided

LEMMA PlaceInvariant == ASSUME IInv, Place PROVE IInv'
PROOF
<1> USE DEF Place
<1>1. phase = "ordering" /\ phase' = phase /\ at' = at /\ registry' = registry
      /\ graph' = graph /\ composition' = composition /\ preferring' = preferring
  OBVIOUS
<1>2. PICK p \in Ready(graph, Elements(order)) : order' = Append(order, p)
  OBVIOUS
<1>3. p \in composition /\ p \notin Elements(order) /\ graph[p] \subseteq Elements(order)
  BY <1>1, <1>2 DEF IInv, Complete, Dependencies, Ready
<1>4. order \in Seq(composition) /\ order' \in Seq(composition) /\ Len(order) \in Nat
  BY <1>2, <1>3 DEF IInv, Composition
<1>5. Len(order') = Len(order) + 1 /\ order'[Len(order) + 1] = p
  BY <1>2, <1>3, <1>4
<1>6. \A i \in 1 .. Len(order) : order'[i] = order[i]
  BY <1>2, <1>3, <1>4
<1>7. Sorted'
  <2> SUFFICES ASSUME NEW i \in 1 .. Len(order')
               PROVE  /\ graph[order'[i]] \subseteq {order'[j] : j \in 1 .. i - 1}
                      /\ order'[i] \notin {order'[j] : j \in 1 .. i - 1}
    BY <1>1 DEF Sorted, Before
  <2> HIDE DEF Place
  <2>1. CASE i \in 1 .. Len(order)
    <3>1. \A j \in 1 .. i - 1 : order'[j] = order[j]
      BY <1>4, <1>6, <2>1
    <3>2. {order'[j] : j \in 1 .. i - 1} = Before(i)
      BY <3>1 DEF Before
    <3> QED
      BY <1>1, <1>6, <2>1, <3>2 DEF IInv, Sorted
  <2>2. CASE i = Len(order) + 1
    <3>1. Elements(order) = {order[j] : j \in 1 .. Len(order)}
      BY <1>4 DEF Elements
    <3>2. i - 1 = Len(order)
      BY <1>4, <2>2
    <3>3. {order'[j] : j \in 1 .. i - 1} = Elements(order)
      BY <1>6, <3>1, <3>2
    <3> QED
      BY <1>3, <1>5, <2>2, <3>3
  <2>3. i \in 1 .. Len(order) \/ i = Len(order) + 1
    BY <1>4, <1>5
  <2> QED
    BY <2>1, <2>2, <2>3
<1>8. Composition'
  BY <1>1, <1>4 DEF IInv, Composition
<1> QED
  BY <1>1, <1>7, <1>8
     DEF IInv, Fresh, Unordered, Composition, Complete, Accounted, ComesUp, Provided

LEMMA OrderedInvariant == ASSUME IInv, Ordered PROVE IInv'
PROOF
<1> USE DEF Ordered
<1>1. phase = "ordering" /\ at' = at /\ registry' = registry
      /\ composition' = composition /\ file' = file
  OBVIOUS
<1>2. at = 1 /\ registry = {}
  BY <1>1 DEF IInv, Fresh
<1>3. order \in Seq(composition) /\ Len(order) \in Nat
  BY DEF IInv, Composition
<1>4. CASE /\ phase' \in {"served", "setup"}
           /\ UNCHANGED <<graph, preferring, order>>
  <2>1. Composition'
    BY <1>1, <1>4 DEF IInv, Composition
  <2>2. Complete'
    BY <1>1, <1>4 DEF IInv, Complete, Provided
  <2>3. Sorted'
    BY <1>1, <1>4 DEF IInv, Sorted, Before
  <2>4. Accounted'
    BY <1>1, <1>2, <1>3, <1>4 DEF Accounted
  <2> QED
    BY <1>4, <2>1, <2>2, <2>3, <2>4 DEF IInv, Fresh, Unordered, ComesUp
<1>5. CASE /\ phase' = phase /\ preferring' = FALSE
           /\ graph' = Dependencies(composition, FALSE) /\ order' = <<>>
  <2>1. Composition'
    <3>1. preferring' \in BOOLEAN
      BY <1>5
    <3>2. order' \in Seq(composition')
      BY <1>5
    <3> QED
      BY <1>1, <3>1, <3>2 DEF IInv, Composition
  <2>2. Complete'
    BY <1>1, <1>5 DEF IInv, Complete, Provided
  <2>3. Sorted'
    BY <1>5 DEF Sorted
  <2> QED
    BY <1>1, <1>2, <1>5, <2>1, <2>2, <2>3 DEF IInv, Fresh, Unordered, Accounted, ComesUp
<1>6. CASE /\ phase' = "refused"
           /\ UNCHANGED <<graph, preferring, order>>
  <2>1. Composition'
    BY <1>1, <1>6 DEF IInv, Composition
  <2> QED
    BY <1>6, <2>1 DEF IInv, Fresh, Unordered, Complete, Sorted, Accounted, ComesUp
<1> QED
  BY <1>1, <1>4, <1>5, <1>6

LEMMA SetUpInvariant == ASSUME CatalogueSound, IInv, SetUp PROVE IInv'
PROOF
<1> USE DEF SetUp
<1>1. phase = "setup" /\ at \in DOMAIN order
      /\ UNCHANGED <<file, composition, graph, preferring, order>>
  OBVIOUS
<1>2. CanSetUp(order[at])
  BY <1>1, BindsRegistered, NamesFree DEF CanSetUp
<1>3. phase' = phase /\ at' = at + 1 /\ registry' = registry \cup Registers(order[at])
  BY <1>2
<1>4. at \in 1 .. Len(order) /\ Len(order) \in Nat /\ at \in Nat
  BY <1>1 DEF IInv, Composition
<1>5. Composition'
  BY <1>1, <1>3 DEF IInv, Composition
<1>6. Complete'
  BY <1>1, <1>3 DEF IInv, Complete, Provided
<1>7. Sorted'
  BY <1>1, <1>3 DEF IInv, Sorted, Before
<1>8. Accounted'
  <2>1. at' \in 1 .. Len(order') + 1
    BY <1>1, <1>3, <1>4
  <2>2. ASSUME NEW s
        PROVE  s \in registry' <=> \E j \in 1 .. at' - 1 : s \in Registers(order[j])
    <3>1. s \in registry <=> \E j \in 1 .. at - 1 : s \in Registers(order[j])
      BY <1>1 DEF IInv, Accounted
    <3>2. 1 .. at' - 1 = (1 .. at - 1) \cup {at}
      BY <1>3, <1>4
    <3> QED
      BY <1>3, <3>1, <3>2
  <2>3. \A p : Registers(p)' = Registers(p)
    BY <1>1 DEF Registers
  <2> QED
    BY <1>1, <2>1, <2>2, <2>3 DEF Accounted
<1> QED
  BY <1>1, <1>3, <1>5, <1>6, <1>7, <1>8 DEF IInv, Fresh, Unordered, ComesUp

\* The runtime is up: the call only ends.
LEMMA EndInvariant ==
    ASSUME IInv, Serve \/ \E outcome \in Outcomes : Exit(outcome)
    PROVE  IInv'
PROOF
<1>1. phase' \in {"served", "unavailable", "exited"} /\ UNCHANGED bringsUp
  BY DEF Serve, Exit
<1>2. Composition'
  BY <1>1 DEF IInv, Composition, bringsUp
<1> QED
  BY <1>1, <1>2 DEF IInv, Fresh, Unordered, Complete, Sorted, Accounted, ComesUp

LEMMA StutterInvariant == ASSUME IInv, UNCHANGED lineVars PROVE IInv'
PROOF
<1> USE DEF lineVars, bringsUp
<1>1. Composition' /\ Fresh' /\ Unordered' /\ ComesUp'
  BY DEF IInv, Composition, Fresh, Unordered, ComesUp
<1>2. Complete'
  BY DEF IInv, Complete, Provided
<1>3. Sorted'
  BY DEF IInv, Sorted, Before
<1>4. Accounted'
  BY DEF IInv, Accounted, Registers
<1> QED
  BY <1>1, <1>2, <1>3, <1>4 DEF IInv

-----------------------------------------------------------------------------
(* No runtime that the manager accepts fails while its plugins are set up   *)
(* (manager.py:setup_all): each setup finds every service it binds, and     *)
(* registers names that are free.                                           *)
THEOREM RuntimeComesUp ==
    ASSUME CatalogueSound
    PROVE  LineSpec => []ComesUp
PROOF
<1>1. ASSUME IInv, LineNext PROVE IInv'
  BY <1>1, CallInvariant, LoadInvariant, PlaceInvariant, OrderedInvariant, SetUpInvariant,
     EndInvariant DEF LineNext
<1>2. IInv /\ [LineNext]_lineVars => IInv'
  BY <1>1, StutterInvariant
<1>3. IInv => ComesUp
  BY DEF IInv
<1> QED
  BY <1>2, <1>3, InitInvariant, PTL DEF LineSpec
=============================================================================
