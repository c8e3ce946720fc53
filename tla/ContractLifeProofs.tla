------------------------- MODULE ContractLifeProofs -------------------------
(***************************************************************************)
(* Proofs about ContractLife.                                              *)
(***************************************************************************)
EXTENDS ContractLife, ApiClientProofs, FiniteSetTheorems, FunctionTheorems,
        SequenceTheorems, NaturalsInduction, TLAPS

-----------------------------------------------------------------------------
(* Numbers and sequences                                                   *)

Below == {pair \in Nat \X Nat : pair[1] < pair[2]}

\* The order of Nat is well-founded.
LEMMA LeastOne ==
  ASSUME NEW T \in SUBSET Nat, T # {}
  PROVE  Least(T) \in T /\ \A k \in T : Least(T) <= k
<1>1. IsWellFoundedOn(Below, Nat)
  BY NatLessThanWellFounded DEF OpToRel, Below
<1>2. PICK least \in T : \A k \in T : <<k, least>> \notin Below
  BY <1>1, WFMin
<1>3. \A k \in T : ~(k < least)
  BY <1>2 DEF Below
<1>4. \A k \in T : least <= k
  BY <1>3
<1> QED
  BY <1>4 DEF Least

\* What holds at 0 and goes on from a number to the next holds as far as it goes on.
LEMMA UpTo ==
  ASSUME NEW N \in Nat, NEW T, 0 \in T, \A n \in T : n \in Nat /\ n < N => n + 1 \in T
  PROVE  \A n \in 0 .. N : n \in T
<1> DEFINE Outside == {n \in 0 .. N : n \notin T}
<1> SUFFICES ASSUME Outside # {} PROVE FALSE
  OBVIOUS
<1>1. Outside \in SUBSET Nat
  OBVIOUS
<1>2. PICK m \in Outside : \A k \in Outside : m <= k
  BY <1>1, LeastOne
<1>3. m # 0 /\ m - 1 \in 0 .. N /\ m - 1 < N /\ m - 1 + 1 = m
  BY <1>2
<1>4. m - 1 \in T
  <2>1. ~(m <= m - 1)
    BY <1>2
  <2> QED
    BY <1>2, <1>3, <2>1
<1> QED
  BY <1>2, <1>3, <1>4

\* A filter exists and keeps what it is told to keep, all of it, in a sequence.
LEMMA SelectedFacts ==
  ASSUME NEW T, NEW seq \in Seq(T), NEW positions
  PROVE  /\ Selected(seq, positions)
              \in Seq({seq[i] : i \in DOMAIN seq \cap positions})
         /\ DOMAIN seq \subseteq positions => Selected(seq, positions) = seq
         /\ \A i \in DOMAIN seq \cap positions :
              \E k \in DOMAIN Selected(seq, positions) : Selected(seq, positions)[k] = seq[i]
<1> DEFINE N == Len(seq)
           Kept(f, m) ==
             f = [n \in 0 .. m |-> IF n = 0 THEN << >>
                                   ELSE IF n \in positions THEN Append(f[n - 1], seq[n])
                                   ELSE f[n - 1]]
           range == {seq[i] : i \in DOMAIN seq \cap positions}
           Reached == {m \in 0 .. N : \E f : Kept(f, m)}
           K == CHOOSE f : Kept(f, N)
<1>1. N \in Nat /\ DOMAIN seq = 1 .. N
  OBVIOUS
<1>2. 0 \in Reached
  <2>1. Kept([n \in 0 .. 0 |-> << >>], 0)
    OBVIOUS
  <2> HIDE DEF Kept
  <2>2. \E f : Kept(f, 0)
    BY <2>1
  <2> QED
    BY <1>1, <2>2
<1>3. \A m \in Reached : m \in Nat /\ m < N => m + 1 \in Reached
  <2> TAKE m \in Reached
  <2> SUFFICES ASSUME m \in Nat, m < N PROVE \E f : Kept(f, m + 1)
    <3> HIDE DEF Kept
    <3> QED
      BY <1>1
  <2>1. m \in Nat
    OBVIOUS
  <2>2. PICK f : Kept(f, m)
    OBVIOUS
  <2> DEFINE g == [n \in 0 .. m + 1 |-> IF n <= m THEN f[n]
                     ELSE IF n \in positions THEN Append(f[n - 1], seq[n]) ELSE f[n - 1]]
  <2>3. \A n \in 0 .. m : g[n] = f[n]
    BY <2>1
  <2>4. \A n \in 0 .. m :
          f[n] = IF n = 0 THEN << >>
                 ELSE IF n \in positions THEN Append(f[n - 1], seq[n]) ELSE f[n - 1]
    BY <2>2
  <2>5. \A n \in 0 .. m + 1 :
          g[n] = IF n = 0 THEN << >>
                 ELSE IF n \in positions THEN Append(g[n - 1], seq[n]) ELSE g[n - 1]
    <3> TAKE n \in 0 .. m + 1
    <3>1. CASE n = m + 1
      BY <2>1, <2>3, <3>1
    <3>2. CASE n <= m
      <4>1. n = 0 \/ n - 1 \in 0 .. m
        BY <2>1, <3>2
      <4> HIDE DEF g
      <4> QED
        BY <2>1, <2>3, <2>4, <3>2, <4>1
    <3> QED
      BY <2>1, <3>1, <3>2
  <2>6. Kept(g, m + 1)
    BY <2>5
  <2> QED
    BY <2>6
<1>4. Kept(K, N)
  <2> HIDE DEF Kept
  <2>1. N \in Reached
    <3> HIDE DEF Reached
    <3> QED
      BY <1>1, <1>2, <1>3, UpTo
  <2> QED
    BY <2>1
<1>5. Selected(seq, positions) = K[N]
  BY DEF Selected
<1> HIDE DEF K
<1>6. \A n \in 0 .. N :
        K[n] = IF n = 0 THEN << >>
               ELSE IF n \in positions THEN Append(K[n - 1], seq[n]) ELSE K[n - 1]
  BY <1>4
<1> DEFINE Has(kept, n) == \A i \in 1 .. n : i \in positions =>
                             \E k \in DOMAIN kept : kept[k] = seq[i]
           Good == {n \in 0 .. N : /\ K[n] \in Seq(range)
                                   /\ DOMAIN seq \subseteq positions => K[n] = SubSeq(seq, 1, n)
                                   /\ Has(K[n], n)}
<1>7. 0 \in Good
  <2>1. K[0] = << >> /\ SubSeq(seq, 1, 0) = << >>
    BY <1>1, <1>6
  <2>2. << >> \in Seq(range)
    OBVIOUS
  <2>3. 0 \in 0 .. N /\ Has(K[0], 0)
    BY <1>1
  <2> HIDE DEF range, N, Has
  <2> QED
    BY <2>1, <2>2, <2>3
<1>8. \A n \in Good : n \in Nat /\ n < N => n + 1 \in Good
  <2> TAKE n \in Good
  <2> SUFFICES ASSUME n \in Nat, n < N PROVE n + 1 \in Good
    OBVIOUS
  <2>1. K[n + 1] = IF n + 1 \in positions THEN Append(K[n], seq[n + 1]) ELSE K[n]
    BY <1>1, <1>6
  <2>2. K[n] \in Seq(range) /\ n + 1 \in DOMAIN seq /\ n + 1 \in 0 .. N
    BY <1>1
  <2>3. K[n + 1] \in Seq(range)
    <3>1. n + 1 \in positions => seq[n + 1] \in range
      BY <2>2
    <3> HIDE DEF range
    <3> QED
      BY <2>1, <2>2, <3>1
  <2>4. ASSUME DOMAIN seq \subseteq positions PROVE K[n + 1] = SubSeq(seq, 1, n + 1)
    <3>1. K[n + 1] = Append(SubSeq(seq, 1, n), seq[n + 1])
      BY <2>1, <2>2, <2>4
    <3> QED
      BY <1>1, <2>2, <3>1
  <2>5. Has(K[n + 1], n + 1)
    <3>1. \A i \in 1 .. n : i \in positions => \E k \in DOMAIN K[n] : K[n][k] = seq[i]
      OBVIOUS
    <3>2. \A k \in DOMAIN K[n] : k \in DOMAIN K[n + 1] /\ K[n + 1][k] = K[n][k]
      <4> HIDE DEF range
      <4> QED
        BY <2>1, <2>2
    <3>3. n + 1 \in positions => \E k \in DOMAIN K[n + 1] : K[n + 1][k] = seq[n + 1]
      <4>1. CASE n + 1 \in positions
        <5>1. K[n + 1] = Append(K[n], seq[n + 1])
          BY <2>1, <4>1
        <5>2. /\ Len(K[n]) + 1 \in DOMAIN Append(K[n], seq[n + 1])
              /\ Append(K[n], seq[n + 1])[Len(K[n]) + 1] = seq[n + 1]
          <6> HIDE DEF range
          <6> QED
            BY <2>2
        <5> QED
          BY <5>1, <5>2
      <4> QED
        BY <4>1
    <3> HIDE DEF K
    <3>4. ASSUME NEW i \in 1 .. n + 1, i \in positions
          PROVE  \E k \in DOMAIN K[n + 1] : K[n + 1][k] = seq[i]
      <4>1. i \in 1 .. n \/ i = n + 1
        BY <2>2, <1>1
      <4>2. CASE i \in 1 .. n
        BY <3>1, <3>2, <3>4, <4>2
      <4> QED
        BY <3>3, <3>4, <4>1, <4>2
    <3> QED
      BY <3>4
  <2> HIDE DEF Has
  <2> QED
    BY <2>2, <2>3, <2>4, <2>5
<1>9. N \in Good
  <2> HIDE DEF Good
  <2> QED
    BY <1>1, <1>7, <1>8, UpTo
<1>10. SubSeq(seq, 1, N) = seq
  BY <1>1
<1>11. /\ K[N] \in Seq(range) /\ (DOMAIN seq \subseteq positions => K[N] = SubSeq(seq, 1, N))
       /\ \A i \in 1 .. N : i \in positions => \E k \in DOMAIN K[N] : K[N][k] = seq[i]
  BY <1>9
<1>12. \A i \in DOMAIN seq \cap positions : \E k \in DOMAIN K[N] : K[N][k] = seq[i]
  BY <1>1, <1>11
<1> HIDE DEF range
<1> QED
  BY <1>5, <1>10, <1>11, <1>12 DEF range

-----------------------------------------------------------------------------
(* Registration                                                            *)

\* The branches a path takes up to its n-th segment carry the names it gives them.
Bound(known, path, n) ==
  \A i \in 1 .. n : path[i].param =>
    NodeOf(path, i - 1) \in DOMAIN known /\ known[NodeOf(path, i - 1)] = NameOf(path[i])

\* A parameter branch was made by a route, and the way to it is that route's.
Grown(known, routes) ==
  \A node \in DOMAIN known : \E route \in routes : \E i \in 1 .. Len(route.path) :
    /\ route.path[i].param /\ node = NodeOf(route.path, i - 1)
    /\ Bound(known, route.path, i)

Filled(known, entries, routes) ==
  /\ \A entry \in entries :
       /\ entry.route \in routes
       /\ entry.node = Leaf(entry.route.path) /\ entry.method = entry.route.method
       /\ Bound(known, entry.route.path, Len(entry.route.path))
  /\ \A a, b \in entries : a.node = b.node /\ a.method = b.method => a = b

Tree(known, entries, routes) ==
  Grown(known, routes) /\ Filled(known, entries, routes)

\* Whatever is added, a branch keeps its name.
Extends(later, known) ==
  \A node \in DOMAIN known : node \in DOMAIN later /\ later[node] = known[node]

LEMMA PathFacts ==
  ASSUME NEW path, WellFormed(path)
  PROVE  /\ path \in Seq({path[i] : i \in DOMAIN path})
         /\ Len(path) \in Nat /\ DOMAIN path = 1 .. Len(path)
<1>1. path \in Seq({path[i] : i \in DOMAIN path})
  BY DEF WellFormed, IsSequence
<1> QED
  BY <1>1

LEMMA NodeFacts ==
  ASSUME NEW path, WellFormed(path), NEW n \in 0 .. Len(path)
  PROVE  /\ Len(path) \in Nat /\ DOMAIN path = 1 .. Len(path)
         /\ NodeOf(path, n) \in Seq({Wildcard} \cup {path[i] : i \in DOMAIN path})
         /\ Len(NodeOf(path, n)) = n /\ DOMAIN NodeOf(path, n) = 1 .. n
         /\ \A k \in 1 .. n : NodeOf(path, n)[k] = IF path[k].param THEN Wildcard
                                                   ELSE path[k]
<1> DEFINE T == {Wildcard} \cup {path[i] : i \in DOMAIN path}
<1>1. path \in Seq({path[i] : i \in DOMAIN path})
  BY DEF WellFormed, IsSequence
<1>2. Len(path) \in Nat /\ DOMAIN path = 1 .. Len(path)
  BY <1>1
<1>3. n \in Nat /\ \A k \in 1 .. n : k \in DOMAIN path
  BY <1>2
<1>4. \A k \in 1 .. n : (IF path[k].param THEN Wildcard ELSE path[k]) \in T
  BY <1>3
<1> HIDE DEF T
<1>5. NodeOf(path, n) \in [1 .. n -> T]
  BY <1>4 DEF NodeOf
<1>6. NodeOf(path, n) \in Seq(T) /\ Len(NodeOf(path, n)) = n
  BY <1>3, <1>5
<1> QED
  BY <1>2, <1>5, <1>6 DEF T, NodeOf

LEMMA BoundLater ==
  ASSUME NEW later, NEW known, Extends(later, known), NEW path, NEW n,
         Bound(known, path, n)
  PROVE  Bound(later, path, n)
  BY DEF Extends, Bound

\* Walking a path that is in no conflict gives its names to the branches it makes.
LEMMA WalkFacts ==
  ASSUME NEW known, NEW path, WellFormed(path), NEW n \in 0 .. Len(path),
         \A i \in 1 .. n : i \notin Conflicts(known, path)
  PROVE  /\ Extends(Walk(known, path, n), known)
         /\ Bound(Walk(known, path, n), path, n)
         /\ \A node \in DOMAIN Walk(known, path, n) \ DOMAIN known :
              \E i \in 1 .. n : path[i].param /\ node = NodeOf(path, i - 1)
<1> DEFINE fresh == {NodeOf(path, i - 1) : i \in {j \in 1 .. n : path[j].param}}
                      \ DOMAIN known
           W == Walk(known, path, n)
<1>1. /\ DOMAIN W = DOMAIN known \cup fresh
      /\ \A node \in DOMAIN W :
           W[node] = IF node \in DOMAIN known THEN known[node]
                     ELSE NameOf(path[Len(node) + 1])
  BY DEF Walk
<1>2. Extends(W, known)
  BY <1>1 DEF Extends
<1>3. Bound(W, path, n)
  <2> SUFFICES ASSUME NEW i \in 1 .. n, path[i].param
               PROVE  NodeOf(path, i - 1) \in DOMAIN W
                        /\ W[NodeOf(path, i - 1)] = NameOf(path[i])
    BY DEF Bound
  <2>1. Len(path) \in Nat /\ i - 1 \in 0 .. Len(path) /\ i \in 1 .. Len(path) /\ i - 1 + 1 = i
    BY NodeFacts
  <2>2. Len(NodeOf(path, i - 1)) + 1 = i
    BY <2>1, NodeFacts
  <2>3. NodeOf(path, i - 1) \in DOMAIN W
    BY <1>1
  <2>4. NodeOf(path, i - 1) \in DOMAIN known => known[NodeOf(path, i - 1)] = NameOf(path[i])
    BY <2>1 DEF Conflicts
  <2> QED
    BY <1>1, <2>2, <2>3, <2>4
<1> QED
  BY <1>1, <1>2, <1>3

\* What add makes of the tree: whether it throws or not, the tree stays one.
Added(t, tree, routes, route) ==
  /\ Tree(t.names, t.table, routes \cup {route})
  /\ Extends(t.names, tree.names) /\ tree.table \subseteq t.table
  /\ t.error \in {"none", "conflict", "duplicate"}
  /\ t.error = "none" => \E entry \in t.table : entry.route = route
  /\ t.error = "conflict" => \E b \in routes : NamesCollide(route, b)
  /\ t.error = "duplicate" => \E b \in routes : RouteKey(b) = RouteKey(route)

LEMMA AddFacts ==
  ASSUME NEW tree, NEW routes, Tree(tree.names, tree.table, routes),
         NEW route, WellFormed(route.path)
  PROVE  Added(Add(tree, route), tree, routes, route)
<1> DEFINE path == route.path
           conflicts == Conflicts(tree.names, path)
           n == IF conflicts = {} THEN Len(path) ELSE Least(conflicts) - 1
           W == Walk(tree.names, path, n)
           more == routes \cup {route}
           entry == [node |-> Leaf(path), method |-> route.method, route |-> route]
           taken == \E e \in tree.table : e.node = Leaf(path) /\ e.method = route.method
           t == Add(tree, route)
<1>1. /\ t.names = W
      /\ t.table = IF conflicts # {} \/ taken THEN tree.table ELSE tree.table \cup {entry}
      /\ t.error = IF conflicts # {} THEN "conflict" ELSE IF taken THEN "duplicate"
                   ELSE "none"
  BY DEF Add
<1>2. Len(path) \in Nat /\ conflicts \in SUBSET Nat
  BY NodeFacts DEF Conflicts
<1>3. n \in 0 .. Len(path) /\ \A i \in 1 .. n : i \notin conflicts
  <2>1. CASE conflicts = {}
    BY <1>2, <2>1
  <2>2. CASE conflicts # {}
    <3>1. Least(conflicts) \in conflicts /\ \A k \in conflicts : Least(conflicts) <= k
      BY <1>2, <2>2, LeastOne
    <3>2. Least(conflicts) \in 1 .. Len(path)
      BY <3>1 DEF Conflicts
    <3> HIDE DEF conflicts
    <3> QED
      BY <1>2, <2>2, <3>1, <3>2
  <2> QED
    BY <2>1, <2>2
<1>4. /\ Extends(W, tree.names) /\ Bound(W, path, n)
      /\ \A node \in DOMAIN W \ DOMAIN tree.names :
           \E i \in 1 .. n : path[i].param /\ node = NodeOf(path, i - 1)
  BY <1>3, WalkFacts
<1> HIDE DEF n, W, t
<1>5. Grown(W, more)
  <2> SUFFICES ASSUME NEW node \in DOMAIN W
               PROVE  \E b \in more : \E i \in 1 .. Len(b.path) :
                        /\ b.path[i].param /\ node = NodeOf(b.path, i - 1)
                        /\ Bound(W, b.path, i)
    BY DEF Grown
  <2>1. CASE node \in DOMAIN tree.names
    <3>1. PICK b \in routes : \E i \in 1 .. Len(b.path) :
                        /\ b.path[i].param /\ node = NodeOf(b.path, i - 1)
                        /\ Bound(tree.names, b.path, i)
      BY <2>1 DEF Tree, Grown
    <3>2. PICK i \in 1 .. Len(b.path) :
                        /\ b.path[i].param /\ node = NodeOf(b.path, i - 1)
                        /\ Bound(tree.names, b.path, i)
      BY <3>1
    <3>3. Bound(W, b.path, i)
      BY <1>4, <3>2, BoundLater
    <3> QED
      BY <3>2, <3>3
  <2>2. CASE node \notin DOMAIN tree.names
    <3>1. PICK i \in 1 .. n : path[i].param /\ node = NodeOf(path, i - 1)
      BY <1>4, <2>2
    <3>2. i \in 1 .. Len(path) /\ \A j \in 1 .. i : j \in 1 .. n
      BY <1>2, <1>3
    <3>3. Bound(W, path, i)
      BY <1>4, <3>2 DEF Bound
    <3> QED
      BY <3>1, <3>2, <3>3
  <2> QED
    BY <2>1, <2>2
<1>6. Filled(W, tree.table, more)
  <2>1. \A e \in tree.table : Bound(W, e.route.path, Len(e.route.path))
    BY <1>4, BoundLater DEF Tree, Filled
  <2> QED
    BY <2>1 DEF Tree, Filled
<1>7. Filled(W, t.table, more)
  <2>1. CASE conflicts # {} \/ taken
    BY <1>1, <1>6, <2>1
  <2>2. CASE conflicts = {} /\ ~taken
    <3>1. t.table = tree.table \cup {entry}
      BY <1>1, <2>2
    <3>2. Bound(W, path, Len(path))
      BY <1>4, <2>2 DEF n
    <3>3. entry.node = Leaf(path) /\ entry.method = route.method /\ entry.route = route
      OBVIOUS
    <3> HIDE DEF entry
    <3>4. \A e \in tree.table : ~(e.node = entry.node /\ e.method = entry.method)
      BY <2>2, <3>3
    <3> QED
      BY <1>6, <3>1, <3>2, <3>3, <3>4 DEF Filled
  <2> QED
    BY <2>1, <2>2
<1>8. t.error = "conflict" => \E b \in routes : NamesCollide(route, b)
  <2> SUFFICES ASSUME conflicts # {} PROVE \E b \in routes : NamesCollide(route, b)
    BY <1>1
  <2>1. PICK i \in 1 .. Len(path) : /\ path[i].param
                                    /\ NodeOf(path, i - 1) \in DOMAIN tree.names
                                    /\ tree.names[NodeOf(path, i - 1)] # NameOf(path[i])
    BY DEF Conflicts
  <2>2. PICK b \in routes : \E j \in 1 .. Len(b.path) :
                    /\ b.path[j].param /\ NodeOf(path, i - 1) = NodeOf(b.path, j - 1)
                    /\ Bound(tree.names, b.path, j)
    BY <2>1 DEF Tree, Grown
  <2>3. PICK j \in 1 .. Len(b.path) :
                    /\ b.path[j].param /\ NodeOf(path, i - 1) = NodeOf(b.path, j - 1)
                    /\ Bound(tree.names, b.path, j)
    BY <2>2
  <2>4. i = j
    <3>1. i - 1 \in Nat /\ DOMAIN NodeOf(path, i - 1) = 1 .. i - 1
      BY <1>2 DEF NodeOf
    <3>2. DOMAIN NodeOf(b.path, j - 1) = 1 .. j - 1 /\ j \in Int
      BY DEF NodeOf
    <3>3. j >= 1 /\ i >= 1 /\ i \in Int
      BY <1>2, <2>3
    <3>4. 1 .. i - 1 = 1 .. j - 1
      BY <2>3, <3>1, <3>2
    <3>5. i - 1 <= j - 1
      BY <3>3, <3>4, <3>2
    <3>6. j - 1 <= i - 1
      BY <3>3, <3>4, <3>2
    <3> QED
      BY <3>3, <3>2, <3>5, <3>6
  <2>5. tree.names[NodeOf(b.path, j - 1)] = NameOf(b.path[j])
    BY <2>3 DEF Bound
  <2>6. /\ i <= Len(b.path) /\ path[i].param /\ b.path[i].param
        /\ NodeOf(path, i - 1) = NodeOf(b.path, i - 1) /\ NameOf(path[i]) # NameOf(b.path[i])
    BY <2>1, <2>3, <2>4, <2>5
  <2> QED
    BY <2>6 DEF NamesCollide
<1>9. t.error = "duplicate" => \E b \in routes : RouteKey(b) = RouteKey(route)
  <2> SUFFICES ASSUME taken PROVE \E b \in routes : RouteKey(b) = RouteKey(route)
    BY <1>1
  <2>1. PICK e \in tree.table : e.node = Leaf(path) /\ e.method = route.method
    OBVIOUS
  <2>2. /\ e.route \in routes /\ e.node = Leaf(e.route.path)
        /\ e.method = e.route.method
    BY DEF Tree, Filled
  <2> QED
    BY <2>1, <2>2 DEF RouteKey, NormalizeRoutePath
<1>10. t.error = "none" => \E e \in t.table : e.route = route
  <2> SUFFICES ASSUME t.error = "none" PROVE \E e \in t.table : e.route = route
    OBVIOUS
  <2>1. entry \in t.table
    BY <1>1
  <2>2. entry.route = route
    OBVIOUS
  <2> QED
    BY <2>1, <2>2
<1>11. tree.table \subseteq t.table /\ t.error \in {"none", "conflict", "duplicate"}
  BY <1>1
<1>12. Tree(t.names, t.table, more)
  BY <1>1, <1>5, <1>7 DEF Tree
<1> QED
  BY <1>1, <1>4, <1>8, <1>9, <1>10, <1>11, <1>12 DEF t, Added

LEMMA TreeOfMore ==
  ASSUME NEW known, NEW entries, NEW routes, NEW more, Tree(known, entries, routes),
         routes \subseteq more
  PROVE  Tree(known, entries, more)
  BY DEF Tree, Grown, Filled

\* What mountRouter makes of the tree, up to its first error
AddedAll(t, tree, before, routes) ==
  LET all == before \cup {routes[n] : n \in DOMAIN routes}
  IN  /\ Tree(t.names, t.table, all)
      /\ Extends(t.names, tree.names) /\ tree.table \subseteq t.table
      /\ t.error \in {"none", "conflict", "duplicate"}
      /\ t.error = "none" =>
           \A n \in DOMAIN routes : \E entry \in t.table : entry.route = routes[n]
      /\ t.error = "conflict" =>
           \E n \in DOMAIN routes : \E b \in all : NamesCollide(routes[n], b)
      /\ t.error = "duplicate" =>
           \E n \in DOMAIN routes :
             \/ \E b \in before : RouteKey(b) = RouteKey(routes[n])
             \/ \E k \in 1 .. n - 1 : RouteKey(routes[k]) = RouteKey(routes[n])

LEMMA AddAllFacts ==
  ASSUME NEW tree, NEW before, Tree(tree.names, tree.table, before),
         NEW routes, IsSequence(routes),
         \A n \in DOMAIN routes : WellFormed(routes[n].path)
  PROVE  AddedAll(AddAll(tree, routes), tree, before, routes)
<1> DEFINE N == Len(routes)
           root == [names |-> tree.names, table |-> tree.table, error |-> "none"]
           Next1(t, n) == IF t.error # "none" THEN t ELSE Add(t, routes[n])
           Kept(f, m) == f = [i \in 0 .. m |-> IF i = 0 THEN root
                                ELSE IF f[i - 1].error # "none" THEN f[i - 1]
                                ELSE Add(f[i - 1], routes[i])]
           Reached == {m \in 0 .. N : \E f : Kept(f, m)}
           A == CHOOSE f : Kept(f, N)
<1>1. N \in Nat /\ DOMAIN routes = 1 .. N
  BY DEF IsSequence
<1>2. 0 \in Reached
  <2>1. Kept([i \in 0 .. 0 |-> root], 0)
    OBVIOUS
  <2> HIDE DEF Kept
  <2>2. \E f : Kept(f, 0)
    BY <2>1
  <2> QED
    BY <1>1, <2>2
<1>3. \A m \in Reached : m \in Nat /\ m < N => m + 1 \in Reached
  <2> TAKE m \in Reached
  <2> SUFFICES ASSUME m \in Nat, m < N PROVE \E f : Kept(f, m + 1)
    <3> HIDE DEF Kept
    <3> QED
      BY <1>1
  <2> HIDE DEF root
  <2>1. PICK f : Kept(f, m)
    OBVIOUS
  <2> DEFINE g == [i \in 0 .. m + 1 |-> IF i <= m THEN f[i] ELSE Next1(f[m], i)]
  <2>2. \A i \in 0 .. m : g[i] = f[i]
    OBVIOUS
  <2>3. \A i \in 0 .. m : f[i] = IF i = 0 THEN root
                                 ELSE IF f[i - 1].error # "none" THEN f[i - 1]
                                 ELSE Add(f[i - 1], routes[i])
    BY <2>1
  <2>4. \A i \in 0 .. m + 1 : g[i] = IF i = 0 THEN root
                                     ELSE IF g[i - 1].error # "none" THEN g[i - 1]
                                     ELSE Add(g[i - 1], routes[i])
    <3> TAKE i \in 0 .. m + 1
    <3>1. CASE i = m + 1
      <4>1. g[i] = Next1(f[m], i) /\ g[m] = f[m] /\ i - 1 = m /\ i # 0
        BY <2>2, <3>1
      <4> HIDE DEF g
      <4> QED
        BY <4>1
    <3>2. CASE i <= m
      <4>1. i = 0 \/ i - 1 \in 0 .. m
        BY <3>2
      <4> HIDE DEF g
      <4> QED
        BY <2>2, <2>3, <3>2, <4>1
    <3> QED
      BY <3>1, <3>2
  <2>5. Kept(g, m + 1)
    BY <2>4
  <2> QED
    BY <2>5
<1>4. Kept(A, N)
  <2> HIDE DEF Kept
  <2>1. N \in Reached
    <3> HIDE DEF Reached
    <3> QED
      BY <1>1, <1>2, <1>3, UpTo
  <2> QED
    BY <2>1
<1>5. AddAll(tree, routes) = A[N]
  BY DEF AddAll
<1> HIDE DEF A, root
<1>6. A[0] = root /\ \A i \in 1 .. N : A[i] = Next1(A[i - 1], i)
  <2>1. \A i \in 0 .. N : A[i] = IF i = 0 THEN root
                                 ELSE IF A[i - 1].error # "none" THEN A[i - 1]
                                 ELSE Add(A[i - 1], routes[i])
    BY <1>4
  <2> QED
    BY <1>1, <2>1
<1> DEFINE some(i) == before \cup {routes[k] : k \in 1 .. i}
           Fine(i) ==
             /\ Tree(A[i].names, A[i].table, some(i))
             /\ Extends(A[i].names, tree.names) /\ tree.table \subseteq A[i].table
             /\ A[i].error \in {"none", "conflict", "duplicate"}
             /\ A[i].error = "none" =>
                  \A n \in 1 .. i : \E entry \in A[i].table : entry.route = routes[n]
             /\ A[i].error = "conflict" =>
                  \E n \in 1 .. i : \E b \in some(i) : NamesCollide(routes[n], b)
             /\ A[i].error = "duplicate" =>
                  \E n \in 1 .. i :
                    \/ \E b \in before : RouteKey(b) = RouteKey(routes[n])
                    \/ \E k \in 1 .. n - 1 : RouteKey(routes[k]) = RouteKey(routes[n])
           Good == {i \in 0 .. N : Fine(i)}
<1>7. 0 \in Good
  <2>1. A[0].names = tree.names /\ A[0].table = tree.table /\ A[0].error = "none"
    BY <1>6 DEF root
  <2>2. some(0) = before
    OBVIOUS
  <2>3. Tree(A[0].names, A[0].table, some(0))
    BY <2>1, <2>2
  <2>4. Extends(A[0].names, tree.names) /\ tree.table \subseteq A[0].table
    BY <2>1 DEF Extends
  <2>5. Fine(0)
    BY <2>1, <2>3, <2>4
  <2> HIDE DEF Fine
  <2> QED
    BY <1>1, <2>5
<1>8. \A i \in Good : i \in Nat /\ i < N => i + 1 \in Good
  <2> TAKE i \in Good
  <2> SUFFICES ASSUME i \in Nat, i < N PROVE Fine(i + 1)
    <3> HIDE DEF Fine
    <3> QED
      BY <1>1
  <2>1. Fine(i)
    OBVIOUS
  <2>2. A[i + 1] = Next1(A[i], i + 1)
    BY <1>1, <1>6
  <2>3. /\ some(i + 1) = some(i) \cup {routes[i + 1]}
        /\ \A n \in 1 .. i : n \in 1 .. i + 1
        /\ \A n \in 1 .. i + 1 : n \in 1 .. i \/ n = i + 1
    OBVIOUS
  <2> HIDE DEF some
  <2>4. CASE A[i].error # "none"
    <3>1. A[i + 1] = A[i]
      BY <2>2, <2>4
    <3>2. Tree(A[i].names, A[i].table, some(i + 1))
      BY <2>1, <2>3, TreeOfMore
    <3> QED
      BY <2>1, <2>3, <2>4, <3>1, <3>2
  <2>5. CASE A[i].error = "none"
    <3> DEFINE route == routes[i + 1]
               t == Add(A[i], route)
    <3>1. A[i + 1] = t
      BY <2>2, <2>5
    <3>2. WellFormed(route.path)
      BY <1>1
    <3>3. Tree(A[i].names, A[i].table, some(i))
      BY <2>1
    <3>4. Added(t, A[i], some(i), route)
      BY <3>2, <3>3, AddFacts
    <3> HIDE DEF t
    <3>5. Extends(t.names, tree.names)
      BY <2>1, <3>4 DEF Added, Extends
    <3>6. t.error = "none" =>
            \A n \in 1 .. i + 1 : \E entry \in t.table : entry.route = routes[n]
      BY <2>1, <2>3, <2>5, <3>4 DEF Added
    <3>7. t.error = "conflict" =>
            \E n \in 1 .. i + 1 : \E b \in some(i + 1) : NamesCollide(routes[n], b)
      BY <2>3, <3>4 DEF Added
    <3>8. t.error = "duplicate" =>
            \E n \in 1 .. i + 1 :
              \/ \E b \in before : RouteKey(b) = RouteKey(routes[n])
              \/ \E k \in 1 .. n - 1 : RouteKey(routes[k]) = RouteKey(routes[n])
      <4> SUFFICES ASSUME t.error = "duplicate"
                   PROVE  \E n \in 1 .. i + 1 :
                            \/ \E b \in before : RouteKey(b) = RouteKey(routes[n])
                            \/ \E k \in 1 .. n - 1 : RouteKey(routes[k]) = RouteKey(routes[n])
        OBVIOUS
      <4>1. PICK b \in some(i) : RouteKey(b) = RouteKey(routes[i + 1])
        BY <3>4 DEF Added
      <4>2. \/ \E c \in before : RouteKey(c) = RouteKey(routes[i + 1])
            \/ \E k \in 1 .. i : RouteKey(routes[k]) = RouteKey(routes[i + 1])
        BY <4>1 DEF some
      <4>3. i + 1 \in 1 .. i + 1 /\ i + 1 - 1 = i
        OBVIOUS
      <4> QED
        BY <4>2, <4>3
    <3>9. tree.table \subseteq t.table
      BY <2>1, <3>4 DEF Added
    <3> QED
      BY <2>3, <3>1, <3>4, <3>5, <3>6, <3>7, <3>8, <3>9 DEF Added
  <2> QED
    BY <2>4, <2>5
<1>9. Fine(N)
  <2>1. N \in Good
    <3> HIDE DEF Good
    <3> QED
      BY <1>1, <1>7, <1>8, UpTo
  <2> HIDE DEF Fine
  <2> QED
    BY <2>1
<1>10. some(N) = before \cup {routes[n] : n \in DOMAIN routes}
  BY <1>1
<1> QED
  <2> DEFINE all == before \cup {routes[n] : n \in DOMAIN routes}
  <2>1. some(N) = all
    BY <1>10
  <2> HIDE DEF some, all
  <2>2. AddedAll(A[N], tree, before, routes)
    BY <1>1, <1>9, <2>1 DEF AddedAll, all
  <2> QED
    BY <1>5, <2>2

-----------------------------------------------------------------------------
(* The walk                                                                *)

LeftOf(p, S) == Append(p, Static(S[Len(p) + 1].text))
RightOf(p) == Append(p, Wildcard)

LEMMA ChildFacts ==
  ASSUME NEW T, NEW S \in Seq(T), NEW p \in NodesOn(S), Len(p) < Len(S)
  PROVE  /\ LeftOf(p, S) \in NodesOn(S) /\ RightOf(p) \in NodesOn(S)
         /\ Len(p) \in Nat /\ Len(p) + 1 \in 1 .. Len(S)
         /\ Len(LeftOf(p, S)) = Len(p) + 1 /\ Len(RightOf(p)) = Len(p) + 1
         /\ LeftOf(p, S)[Len(p) + 1] = Static(S[Len(p) + 1].text)
         /\ RightOf(p)[Len(p) + 1] = Wildcard
         /\ \A k \in 1 .. Len(p) : LeftOf(p, S)[k] = p[k] /\ RightOf(p)[k] = p[k]
<1> DEFINE Marks == {Wildcard} \cup {Static(S[i].text) : i \in DOMAIN S}
           m == Len(p) + 1
<1>1. p \in Seq(Marks) /\ Len(p) \in Nat /\ Len(S) \in Nat /\ DOMAIN S = 1 .. Len(S)
  BY DEF NodesOn
<1>2. m \in 1 .. Len(S) /\ m <= Len(S)
  BY <1>1
<1>3. Static(S[m].text) \in Marks /\ Wildcard \in Marks
  BY <1>1, <1>2
<1> DEFINE mark == Static(S[m].text)
<1>4. \A node : node \in NodesOn(S) <=> node \in Seq(Marks) /\ Len(node) <= Len(S)
  BY DEF NodesOn
<1>5. LeftOf(p, S) = Append(p, mark) /\ RightOf(p) = Append(p, Wildcard)
  BY DEF LeftOf, RightOf
<1> HIDE DEF Marks
<1>6. ASSUME NEW x \in Marks
      PROVE  /\ Append(p, x) \in Seq(Marks) /\ Len(Append(p, x)) = m
             /\ Append(p, x)[m] = x /\ \A k \in 1 .. Len(p) : Append(p, x)[k] = p[k]
             /\ Append(p, x) \in NodesOn(S)
  <2>1. Append(p, x) \in Seq(Marks) /\ Len(Append(p, x)) = m
    BY <1>1
  <2>2. Append(p, x)[m] = x /\ \A k \in 1 .. Len(p) : Append(p, x)[k] = p[k]
    BY <1>1
  <2> QED
    BY <1>2, <1>4, <2>1, <2>2
<1>7. /\ Append(p, mark) \in NodesOn(S) /\ Len(Append(p, mark)) = m
      /\ Append(p, mark)[m] = mark /\ \A k \in 1 .. Len(p) : Append(p, mark)[k] = p[k]
  BY <1>3, <1>6
<1>8. /\ Append(p, Wildcard) \in NodesOn(S) /\ Len(Append(p, Wildcard)) = m
      /\ Append(p, Wildcard)[m] = Wildcard
      /\ \A k \in 1 .. Len(p) : Append(p, Wildcard)[k] = p[k]
  BY <1>3, <1>6
<1> QED
  BY <1>1, <1>2, <1>5, <1>7, <1>8

LEMMA TraverseLeaf ==
  ASSUME NEW S, NEW p, Len(p) = Len(S), NEW below
  PROVE  TraverseAt(p, S, below) = [node |-> p, hit |-> TRUE, params |-> << >>]
  BY DEF TraverseAt

\* Before the last segment, by what comes of the two branches
LEMMA TraverseInner ==
  ASSUME NEW T, NEW S \in Seq(T), NEW p \in NodesOn(S), Len(p) < Len(S), NEW below
  PROVE  TraverseAt(p, S, below) =
           TryBranches(p, S[Len(p) + 1],
             IF S[Len(p) + 1].encoded THEN Miss(p, << >>) ELSE below[LeftOf(p, S)],
             below[RightOf(p)])
<1>1. Len(p) # Len(S)
  BY ChildFacts
<1> QED
  BY <1>1 DEF TraverseAt, LeftOf, RightOf

LEMMA TraverseCongruence ==
  ASSUME NEW T, NEW S \in Seq(T), NEW p \in NodesOn(S), NEW b, NEW c,
         Len(p) < Len(S) => b[LeftOf(p, S)] = c[LeftOf(p, S)] /\ b[RightOf(p)] = c[RightOf(p)]
  PROVE  TraverseAt(p, S, b) = TraverseAt(p, S, c)
<1>1. CASE Len(p) = Len(S)
  BY <1>1, TraverseLeaf
<1>2. CASE Len(p) < Len(S)
  BY <1>2, TraverseInner
<1>3. Len(p) = Len(S) \/ Len(p) < Len(S)
  BY DEF NodesOn
<1> QED
  BY <1>1, <1>2, <1>3

\* The walk exists: it is defined from the last level up to the root.
Walked(S, W) == W = [p \in NodesOn(S) |-> TraverseAt(p, S, W)]

LEMMA WalkExists ==
  ASSUME NEW T, NEW S \in Seq(T)
  PROVE  \E W : Walked(S, W) /\ Traverse(S) = W[<< >>]
<1> DEFINE N == Len(S)
           Deep(k) == {p \in NodesOn(S) : Len(p) >= N - k}
           Kept(f, k) == f = [p \in Deep(k) |-> TraverseAt(p, S, f)]
           Reached == {k \in 0 .. N : \E f : Kept(f, k)}
           W == CHOOSE f : f = [p \in NodesOn(S) |-> TraverseAt(p, S, f)]
<1>1. N \in Nat /\ \A p \in NodesOn(S) : Len(p) \in Nat /\ Len(p) <= N
  BY DEF NodesOn
<1>2. 0 \in Reached
  <2> DEFINE f == [p \in Deep(0) |-> TraverseAt(p, S, << >>)]
  <2>1. \A p \in Deep(0) : TraverseAt(p, S, << >>) = TraverseAt(p, S, f)
    <3> HIDE DEF f
    <3> TAKE p \in Deep(0)
    <3>1. ~(Len(p) < N)
      BY <1>1
    <3> QED
      BY <3>1, TraverseCongruence
  <2>2. f = [p \in Deep(0) |-> TraverseAt(p, S, f)]
    <3> DEFINE g == f
    <3>1. \A p \in Deep(0) : TraverseAt(p, S, << >>) = TraverseAt(p, S, g)
      BY <2>1
    <3> HIDE DEF g
    <3>2. f = [p \in Deep(0) |-> TraverseAt(p, S, g)]
      BY <3>1
    <3> QED
      BY <3>2 DEF g
  <2> HIDE DEF f
  <2>3. Kept(f, 0)
    BY <2>2
  <2> HIDE DEF Kept
  <2> QED
    BY <1>1, <2>3
<1>3. \A k \in Reached : k \in Nat /\ k < N => k + 1 \in Reached
  <2> TAKE k \in Reached
  <2> SUFFICES ASSUME k \in Nat, k < N PROVE \E f : Kept(f, k + 1)
    <3> HIDE DEF Kept
    <3> QED
      BY <1>1
  <2>1. PICK f : Kept(f, k)
    OBVIOUS
  <2> DEFINE g == [p \in Deep(k + 1) |-> IF p \in Deep(k) THEN f[p]
                                         ELSE TraverseAt(p, S, f)]
  <2>2. \A p \in Deep(k) : p \in Deep(k + 1)
    BY <1>1
  <2>3. \A p \in Deep(k) : g[p] = f[p]
    BY <2>2
  <2>4. \A p \in Deep(k) : f[p] = TraverseAt(p, S, f)
    BY <2>1
  <2>5. \A p \in Deep(k + 1) : g[p] = TraverseAt(p, S, f)
    BY <2>4
  <2>6. DOMAIN g = Deep(k + 1)
    OBVIOUS
  <2> HIDE DEF g
  <2>7. \A p \in Deep(k + 1) : TraverseAt(p, S, f) = TraverseAt(p, S, g)
    <3> TAKE p \in Deep(k + 1)
    <3>1. ASSUME Len(p) < N PROVE LeftOf(p, S) \in Deep(k) /\ RightOf(p) \in Deep(k)
      BY <1>1, <3>1, ChildFacts
    <3> HIDE DEF Deep
    <3>2. Len(p) < N => f[LeftOf(p, S)] = g[LeftOf(p, S)] /\ f[RightOf(p)] = g[RightOf(p)]
      BY <2>3, <3>1
    <3>3. p \in NodesOn(S)
      BY DEF Deep
    <3> QED
      BY <3>2, <3>3, TraverseCongruence
  <2>8. \A p \in Deep(k + 1) : g[p] = TraverseAt(p, S, g)
    BY <2>5, <2>7
  <2>9. g = [p \in Deep(k + 1) |-> g[p]]
    BY <2>6 DEF g
  <2> HIDE DEF Deep
  <2>10. Kept(g, k + 1)
    BY <2>8, <2>9
  <2> QED
    BY <2>10
<1>4. N \in Reached
  <2> HIDE DEF Reached
  <2> QED
    BY <1>1, <1>2, <1>3, UpTo
<1>5. Deep(N) = NodesOn(S)
  BY <1>1
<1>6. \E f : f = [p \in NodesOn(S) |-> TraverseAt(p, S, f)]
  <2> HIDE DEF Deep
  <2> QED
    BY <1>4, <1>5
<1>7. W = [p \in NodesOn(S) |-> TraverseAt(p, S, W)]
  BY <1>6
<1>8. Traverse(S) = W[<< >>]
  BY DEF Traverse
<1> HIDE DEF W
<1> QED
  BY <1>7, <1>8 DEF Walked

-----------------------------------------------------------------------------
(* What the walk finds                                                     *)

\* The tree of the application, made by these routes
Sound(routes) ==
  Tree(names, table, routes) /\ \A route \in routes : WellFormed(route.path)

Begins(q, p) == Len(p) <= Len(q) /\ \A k \in 1 .. Len(p) : q[k] = p[k]

\* Below a node, the registered paths that a request fits
Ending(p, S) == {q \in {entry.node : entry \in table} : Fits(q, S) /\ Begins(q, p)}

\* The name the tree has for the i-th segment of a node
NameAt(node, i) == names[[k \in 1 .. i - 1 |-> node[k]]]

\* The walk has bound the parameters of a node from its n-th segment on, and no other.
Binds(node, params, n, S) ==
  /\ \A i \in n .. Len(S) : node[i].param =>
       NameAt(node, i) \in DOMAIN params /\ params[NameAt(node, i)] = {DecodeSegment(S[i])}
  /\ \A name \in DOMAIN params : params[name] # {} =>
       \E i \in n .. Len(S) : node[i].param /\ name = NameAt(node, i)

\* On the way to a branch no other branch bears its name.
Apart ==
  \A p, q \in DOMAIN names :
    (Len(p) + 1 <= Len(q) /\ Begins(q, p) /\ q[Len(p) + 1] = Wildcard) =>
      names[p] # names[q]

Unbound(params) == \A name \in DOMAIN params : params[name] = {}

\* What the walk returns at p is right: it has found the most special of the paths
\* below p, or there are none; it has written no name but those bound below p; and if
\* the names are apart, it has bound the parameters of the path it has found.
Finds(p, S, w) ==
  IF w.hit /\ HasMethods(w.node)
    THEN /\ w.node \in Ending(p, S)
         /\ \A q \in Ending(p, S) : q = w.node \/ MoreSpecial(w.node, q)
         /\ Apart => Binds(w.node, w.params, Len(p) + 1, S)
    ELSE Ending(p, S) = {} /\ (Apart => Unbound(w.params))

Right(p, S, w) ==
  /\ w = [node |-> w.node, hit |-> w.hit, params |-> w.params]
  /\ \A name \in DOMAIN w.params : \E q \in DOMAIN names : name = names[q] /\ Begins(q, p)
  /\ Finds(p, S, w)

\* A node the walk may stand on
On(p, S) ==
  /\ p \in NodesOn(S)
  /\ \A k \in 1 .. Len(p) : \/ p[k] = Wildcard
                            \/ ~S[k].encoded /\ p[k] = Static(S[k].text)

LEMMA SegmentFacts ==
  ASSUME NEW path, WellFormed(path), NEW i \in 1 .. Len(path)
  PROVE  /\ i \in DOMAIN path
         /\ path[i].param \in BOOLEAN
         /\ ~path[i].param => path[i] = Static(path[i].text) /\ path[i].text # ""
<1>1. i \in DOMAIN path
  BY PathFacts
<1>2. path[i] = Static(path[i].text) \/ path[i] = Param(path[i].text)
  BY <1>1 DEF WellFormed
<1>3. path[i].param \/ path[i].text # ""
  BY <1>1 DEF WellFormed
<1>4. CASE path[i] = Static(path[i].text)
  <2>1. Static(path[i].text).param = FALSE
    BY DEF Static
  <2> QED
    BY <1>1, <1>3, <1>4, <2>1
<1>5. CASE path[i] = Param(path[i].text)
  <2>1. Param(path[i].text).param = TRUE
    BY DEF Param
  <2> QED
    BY <1>1, <1>5, <2>1
<1> QED
  BY <1>2, <1>4, <1>5

LEMMA WildcardFacts ==
  /\ Wildcard.param = TRUE
  /\ \A text : Static(text).param = FALSE /\ Static(text) # Wildcard
               /\ Static(text).text = text
  BY DEF Wildcard, Param, Static

\* The nodes of the table are sequences of static segments and wildcards, and the
\* branches on their way are there and bear the names of the route.
LEMMA TableFacts ==
  ASSUME NEW routes, Sound(routes), NEW entry \in table
  PROVE  LET node == entry.node
             path == entry.route.path
         IN  /\ WellFormed(path) /\ node = Leaf(path)
             /\ node \in Seq({Wildcard} \cup {path[i] : i \in DOMAIN path})
             /\ Len(node) = Len(path) /\ Len(path) \in Nat
             /\ \A i \in 1 .. Len(node) :
                  /\ node[i].param = path[i].param /\ path[i].param \in BOOLEAN
                  /\ IF path[i].param
                       THEN /\ node[i] = Wildcard
                            /\ [k \in 1 .. i - 1 |-> node[k]] \in DOMAIN names
                            /\ NameAt(node, i) = NameOf(path[i])
                       ELSE node[i] = path[i] /\ path[i] = Static(path[i].text)
<1> DEFINE node == entry.node
           path == entry.route.path
<1>1. /\ entry.route \in routes /\ node = Leaf(path)
      /\ Bound(names, path, Len(path))
  BY DEF Sound, Tree, Filled
<1>2. WellFormed(path)
  BY <1>1 DEF Sound
<1>3. Len(path) \in Nat /\ Len(path) \in 0 .. Len(path)
  BY <1>2, PathFacts
<1>4. /\ node \in Seq({Wildcard} \cup {path[i] : i \in DOMAIN path})
      /\ Len(node) = Len(path)
      /\ \A k \in 1 .. Len(path) : node[k] = IF path[k].param THEN Wildcard ELSE path[k]
  <2>1. node = NodeOf(path, Len(path))
    BY <1>1 DEF Leaf
  <2> HIDE DEF node, path
  <2> QED
    BY <1>2, <1>3, <2>1, NodeFacts
<1>5. ASSUME NEW i \in 1 .. Len(path)
      PROVE  /\ node[i].param = path[i].param /\ path[i].param \in BOOLEAN
             /\ IF path[i].param
                       THEN /\ node[i] = Wildcard
                            /\ [k \in 1 .. i - 1 |-> node[k]] \in DOMAIN names
                            /\ NameAt(node, i) = NameOf(path[i])
                       ELSE node[i] = path[i] /\ path[i] = Static(path[i].text)
  <2>1. path[i].param \in BOOLEAN /\ (~path[i].param => path[i] = Static(path[i].text))
    BY <1>2, SegmentFacts
  <2>2. node[i] = IF path[i].param THEN Wildcard ELSE path[i]
    BY <1>4
  <2>3. node[i].param = path[i].param
    BY <2>1, <2>2, WildcardFacts
  <2>4. [k \in 1 .. i - 1 |-> node[k]] = NodeOf(path, i - 1)
    <3>1. \A k \in 1 .. i - 1 : k \in 1 .. Len(path)
      BY <1>3
    <3>2. \A k \in 1 .. i - 1 : node[k] = IF path[k].param THEN Wildcard ELSE path[k]
      BY <1>4, <3>1
    <3> QED
      BY <3>2 DEF NodeOf
  <2>5. path[i].param => NodeOf(path, i - 1) \in DOMAIN names
                           /\ names[NodeOf(path, i - 1)] = NameOf(path[i])
    BY <1>1 DEF Bound
  <2> QED
    BY <2>1, <2>2, <2>3, <2>4, <2>5 DEF NameAt
<1> QED
  BY <1>1, <1>2, <1>3, <1>4, <1>5

\* The names of a tree are apart if no path of its routes repeats one.
LEMMA NamesApart ==
  ASSUME NEW routes, Sound(routes), \A route \in routes : NamesOnce(route.path)
  PROVE  Apart
<1> SUFFICES ASSUME NEW p \in DOMAIN names, NEW q \in DOMAIN names,
                    Len(p) + 1 <= Len(q), Begins(q, p), q[Len(p) + 1] = Wildcard
             PROVE  names[p] # names[q]
  BY DEF Apart
<1>0. \A k \in 1 .. Len(p) : q[k] = p[k]
  BY DEF Begins
<1>1. PICK a \in routes : \E i \in 1 .. Len(a.path) :
           /\ a.path[i].param /\ q = NodeOf(a.path, i - 1) /\ Bound(names, a.path, i)
  BY DEF Sound, Tree, Grown
<1>2. PICK i \in 1 .. Len(a.path) :
           /\ a.path[i].param /\ q = NodeOf(a.path, i - 1) /\ Bound(names, a.path, i)
  BY <1>1
<1>3. PICK b \in routes : \E j \in 1 .. Len(b.path) : p = NodeOf(b.path, j - 1)
  BY DEF Sound, Tree, Grown
<1>4. PICK j \in 1 .. Len(b.path) : p = NodeOf(b.path, j - 1)
  BY <1>3
<1>5. WellFormed(a.path) /\ WellFormed(b.path)
  BY DEF Sound
<1>6. /\ Len(a.path) \in Nat /\ Len(b.path) \in Nat
      /\ i - 1 \in 0 .. Len(a.path) /\ j - 1 \in 0 .. Len(b.path)
  <2>1. Len(a.path) \in Nat /\ Len(b.path) \in Nat
    BY <1>5, PathFacts
  <2> QED
    BY <2>1
<1>7. /\ Len(q) = i - 1 /\ Len(p) = j - 1
      /\ \A k \in 1 .. i - 1 : q[k] = IF a.path[k].param THEN Wildcard ELSE a.path[k]
  <2>1. /\ Len(NodeOf(a.path, i - 1)) = i - 1
        /\ \A k \in 1 .. i - 1 : NodeOf(a.path, i - 1)[k]
                                   = IF a.path[k].param THEN Wildcard ELSE a.path[k]
    BY <1>5, <1>6, NodeFacts
  <2>2. Len(NodeOf(b.path, j - 1)) = j - 1
    BY <1>5, <1>6, NodeFacts
  <2> QED
    BY <1>2, <1>4, <2>1, <2>2
<1>8. j \in 1 .. i - 1 /\ j \in 1 .. Len(a.path) /\ j # i /\ Len(p) + 1 = j
  BY <1>6, <1>7
<1>9. a.path[j].param
  BY <1>7, <1>8, WildcardFacts
<1>10. p = NodeOf(a.path, j - 1)
  <2>1. \A k \in 1 .. j - 1 : k \in 1 .. i - 1 /\ k \in 1 .. Len(p)
    BY <1>6, <1>7, <1>8
  <2>2. \A k \in 1 .. j - 1 : p[k] = IF a.path[k].param THEN Wildcard ELSE a.path[k]
    BY <1>0, <1>7, <2>1
  <2>3. p = [k \in 1 .. j - 1 |-> p[k]]
    BY <1>4 DEF NodeOf
  <2> QED
    BY <2>2, <2>3 DEF NodeOf
<1>11. j \in 1 .. i /\ i \in 1 .. i
  BY <1>6, <1>8
<1>12. names[p] = NameOf(a.path[j]) /\ names[q] = NameOf(a.path[i])
  BY <1>2, <1>9, <1>10, <1>11 DEF Bound
<1>13. i \in DOMAIN a.path /\ j \in DOMAIN a.path
  BY <1>5, <1>8, SegmentFacts
<1>14. NameOf(a.path[j]) = NameOf(a.path[i]) => j = i
  BY <1>2, <1>9, <1>13 DEF NamesOnce
<1> QED
  BY <1>8, <1>12, <1>14

LEMMA MoreSpecialAt ==
  ASSUME NEW a, NEW b, Len(a) \in Nat, NEW m \in 1 .. Len(a),
         \A k \in 1 .. m - 1 : a[k] = b[k], a[m] # b[m], ~a[m].param
  PROVE  MoreSpecial(a, b)
<1> DEFINE differing == {i \in 1 .. Len(a) : a[i] # b[i]}
<1>1. differing \in SUBSET Nat /\ m \in differing
  OBVIOUS
<1>2. Least(differing) \in differing /\ Least(differing) <= m
  BY <1>1, LeastOne
<1>3. Least(differing) = m
  BY <1>2
<1>4. a # b
  OBVIOUS
<1> QED
  BY <1>3, <1>4 DEF MoreSpecial

\* The paths below a node that has a level below it are those below its branches.
LEMMA EndingFacts ==
  ASSUME NEW routes, Sound(routes), NEW T, NEW S \in Seq(T), NEW p, On(p, S),
         Len(p) < Len(S)
  PROVE  LET m == Len(p) + 1
             left == LeftOf(p, S)
             right == RightOf(p)
         IN  /\ ~S[m].encoded => On(left, S)
             /\ On(right, S)
             /\ \A q : Begins(q, left) \/ Begins(q, right) => Begins(q, p)
             /\ \A q \in Ending(p, S) :
                  \/ ~S[m].encoded /\ q \in Ending(left, S)
                  \/ q \in Ending(right, S) /\ p \in DOMAIN names
             /\ \A q \in Ending(left, S) : q \in Ending(p, S) /\ q[m] = Static(S[m].text)
             /\ \A q \in Ending(right, S) :
                  q \in Ending(p, S) /\ q[m] = Wildcard /\ NameAt(q, m) = names[p]
<1> DEFINE m == Len(p) + 1
           left == LeftOf(p, S)
           right == RightOf(p)
<1>1. p \in NodesOn(S) /\ \A k \in 1 .. Len(p) :
        p[k] = Wildcard \/ (~S[k].encoded /\ p[k] = Static(S[k].text))
  BY DEF On
<1>2. /\ left \in NodesOn(S) /\ right \in NodesOn(S)
      /\ Len(p) \in Nat /\ m \in 1 .. Len(S)
      /\ Len(left) = m /\ Len(right) = m
      /\ left[m] = Static(S[m].text) /\ right[m] = Wildcard
      /\ \A k \in 1 .. Len(p) : left[k] = p[k] /\ right[k] = p[k]
  BY <1>1, ChildFacts
<1> HIDE DEF left, right
<1>3. \A k \in 1 .. m : k \in 1 .. Len(p) \/ k = m
  BY <1>2
<1>4. (~S[m].encoded => On(left, S)) /\ On(right, S)
  BY <1>1, <1>2, <1>3 DEF On
<1>5. \A k \in 1 .. Len(p) : k \in 1 .. m
  BY <1>2
<1>6. \A q : Begins(q, left) \/ Begins(q, right) => Begins(q, p)
  <2> SUFFICES ASSUME NEW q, Begins(q, left) \/ Begins(q, right) PROVE Begins(q, p)
    OBVIOUS
  <2>1. \A k \in 1 .. Len(p) : q[k] = p[k]
    BY <1>2, <1>5 DEF Begins
  <2>2. m <= Len(q)
    BY <1>2 DEF Begins
  <2> QED
    BY <1>2, <2>1, <2>2 DEF Begins
<1>7. p = [k \in 1 .. m - 1 |-> p[k]]
  <2>1. p \in Seq({Wildcard} \cup {Static(S[i].text) : i \in DOMAIN S})
    BY <1>1 DEF NodesOn
  <2>2. m - 1 = Len(p)
    BY <1>2
  <2> QED
    BY <2>1, <2>2
<1>8. \A q : Begins(q, p) => [k \in 1 .. m - 1 |-> q[k]] = p
  BY <1>2, <1>7 DEF Begins
<1>9. ASSUME NEW q \in Ending(p, S)
      PROVE  \/ ~S[m].encoded /\ q \in Ending(left, S)
             \/ q \in Ending(right, S) /\ p \in DOMAIN names
  <2>1. PICK entry \in table : q = entry.node
    BY DEF Ending
  <2>2. Fits(q, S) /\ Begins(q, p)
    BY DEF Ending
  <2>3. Len(q) = Len(S) /\ m \in 1 .. Len(q) /\ m <= Len(q)
    BY <1>2, <2>2 DEF Fits
  <2>4. CASE q[m].param
    <3>1. q[m] = Wildcard /\ [k \in 1 .. m - 1 |-> q[k]] \in DOMAIN names
      BY <2>1, <2>3, <2>4, TableFacts
    <3>2. Begins(q, right)
      BY <1>2, <1>3, <2>2, <2>3, <3>1 DEF Begins
    <3> QED
      BY <1>8, <2>2, <3>1, <3>2 DEF Ending
  <2>5. CASE ~q[m].param
    <3>1. ~S[m].encoded /\ S[m].text = q[m].text
      BY <2>2, <2>3, <2>5 DEF Fits
    <3>2. q[m] = Static(q[m].text)
      BY <2>1, <2>3, <2>5, TableFacts
    <3>3. Begins(q, left)
      BY <1>2, <1>3, <2>2, <2>3, <3>1, <3>2 DEF Begins
    <3> QED
      BY <2>2, <3>1, <3>3 DEF Ending
  <2> QED
    BY <2>4, <2>5
<1>10. \A q \in Ending(left, S) : q \in Ending(p, S) /\ q[m] = Static(S[m].text)
  <2> TAKE q \in Ending(left, S)
  <2>1. m \in 1 .. m
    BY <1>2
  <2> QED
    BY <1>2, <1>6, <2>1 DEF Ending, Begins
<1>11. ASSUME NEW q \in Ending(right, S)
       PROVE  q \in Ending(p, S) /\ q[m] = Wildcard /\ NameAt(q, m) = names[p]
  <2>1. m \in 1 .. m
    BY <1>2
  <2>2. q \in Ending(p, S) /\ q[m] = Wildcard
    BY <1>2, <1>6, <2>1 DEF Ending, Begins
  <2> QED
    BY <1>8, <2>2 DEF Ending, NameAt
<1> QED
  BY <1>4, <1>6, <1>9, <1>10, <1>11 DEF left, right

\* A walk that has come to the end of a request
LEMMA LeafRight ==
  ASSUME NEW routes, Sound(routes), NEW T, NEW S \in Seq(T), NEW p, On(p, S),
         Len(p) = Len(S)
  PROVE  Right(p, S, [node |-> p, hit |-> TRUE, params |-> << >>])
<1> DEFINE w == [node |-> p, hit |-> TRUE, params |-> << >>]
<1>1. DOMAIN w.params = {} /\ w.node = p /\ w.hit
  OBVIOUS
<1>2. /\ p \in Seq({Wildcard} \cup {Static(S[i].text) : i \in DOMAIN S})
      /\ Len(S) \in Nat
      /\ \A k \in 1 .. Len(p) : p[k] = Wildcard
                                \/ (~S[k].encoded /\ p[k] = Static(S[k].text))
  BY DEF On, NodesOn
<1>3. \A q \in Ending(p, S) : q = p /\ HasMethods(p)
  <2> TAKE q \in Ending(p, S)
  <2>1. PICK entry \in table : q = entry.node
    BY DEF Ending
  <2>2. q \in Seq({Wildcard} \cup {entry.route.path[i] : i \in DOMAIN entry.route.path})
    BY <2>1, TableFacts
  <2>3. Len(q) = Len(p) /\ \A k \in 1 .. Len(p) : q[k] = p[k]
    BY DEF Ending, Fits, Begins
  <2>4. q = p
    BY <1>2, <2>2, <2>3
  <2> QED
    BY <2>1, <2>4 DEF HasMethods
<1>4. Fits(p, S) /\ Begins(p, p)
  <2>1. \A k \in 1 .. Len(p) : p[k].param \/ (~S[k].encoded /\ S[k].text = p[k].text)
    BY <1>2, WildcardFacts
  <2> QED
    BY <1>2, <2>1 DEF Fits, Begins
<1>5. HasMethods(p) => p \in Ending(p, S)
  BY <1>4 DEF Ending, HasMethods
<1>6. Binds(p, << >>, Len(p) + 1, S)
  <2>1. \A i \in Len(p) + 1 .. Len(S) : FALSE
    BY <1>2
  <2> QED
    BY <2>1 DEF Binds
<1>7. w.params = << >> /\ w = [node |-> w.node, hit |-> w.hit, params |-> w.params]
  OBVIOUS
<1> HIDE DEF w
<1>8. Right(p, S, w)
  BY <1>1, <1>3, <1>5, <1>6, <1>7 DEF Right, Finds, Unbound
<1> QED
  BY <1>8 DEF w

\* At a node above the last level, if it has been right on its branches
LEMMA TryRight ==
  ASSUME NEW routes, Sound(routes), NEW T, NEW S \in Seq(T), NEW p, On(p, S),
         Len(p) < Len(S), NEW left, NEW right,
         IF S[Len(p) + 1].encoded THEN left = Miss(p, << >>)
         ELSE Right(LeftOf(p, S), S, left),
         Right(RightOf(p), S, right)
  PROVE  Right(p, S, TryBranches(p, S[Len(p) + 1], left, right))
<1> DEFINE m == Len(p) + 1
           pl == LeftOf(p, S)
           pr == RightOf(p)
           segment == S[Len(p) + 1]
           w == TryBranches(p, segment, left, right)
           LeftFound == left.hit /\ HasMethods(left.node)
           RightFound == right.hit /\ HasMethods(right.node)
<1> SUFFICES Right(p, S, w)
  OBVIOUS
<1>1. /\ \A q : Begins(q, pl) \/ Begins(q, pr) => Begins(q, p)
      /\ \A q \in Ending(p, S) : \/ ~segment.encoded /\ q \in Ending(pl, S)
                                 \/ q \in Ending(pr, S) /\ p \in DOMAIN names
      /\ \A q \in Ending(pl, S) : q \in Ending(p, S) /\ q[m] = Static(segment.text)
      /\ \A q \in Ending(pr, S) :
           q \in Ending(p, S) /\ q[m] = Wildcard /\ NameAt(q, m) = names[p]
  BY EndingFacts
<1>2. /\ Len(p) \in Nat /\ m \in 1 .. Len(S) /\ Len(S) \in Nat
      /\ Len(pl) = m /\ Len(pr) = m
      /\ pr[m] = Wildcard /\ \A k \in 1 .. Len(p) : pr[k] = p[k]
  BY ChildFacts DEF On
<1>3. Right(pr, S, right) /\ (~segment.encoded => Right(pl, S, left))
  OBVIOUS
<1>4. segment.encoded => left = Miss(p, << >>)
  OBVIOUS
<1> HIDE DEF pl, pr, segment
<1>5. left = [node |-> left.node, hit |-> left.hit, params |-> left.params]
  BY <1>3, <1>4 DEF Right, Miss
<1>6. \A name \in DOMAIN left.params : \E q \in DOMAIN names : name = names[q] /\ Begins(q, p)
  <2>1. CASE segment.encoded
    BY <1>4, <2>1 DEF Miss
  <2>2. CASE ~segment.encoded
    BY <1>1, <1>3, <2>2 DEF Right
  <2> QED
    BY <2>1, <2>2
<1>7. segment.encoded => ~LeftFound /\ DOMAIN left.params = {}
  BY <1>4 DEF Miss
<1>8. CASE LeftFound
  <2>1. w = left /\ ~segment.encoded
    BY <1>7, <1>8 DEF TryBranches
  <2>2. /\ left.node \in Ending(pl, S)
        /\ \A q \in Ending(pl, S) : q = left.node \/ MoreSpecial(left.node, q)
        /\ Apart => Binds(left.node, left.params, m + 1, S)
    BY <1>2, <1>3, <1>8, <2>1 DEF Right, Finds
  <2>3. left.node \in Ending(p, S) /\ left.node[m] = Static(segment.text)
    BY <1>1, <2>2
  <2>4. ASSUME NEW q \in Ending(pr, S) PROVE MoreSpecial(left.node, q)
    <3>1. q[m] = Wildcard /\ q \in Ending(p, S)
      BY <1>1
    <3>2. left.node[m] # q[m] /\ ~left.node[m].param
      BY <2>3, <3>1, WildcardFacts
    <3>3. \A k \in 1 .. m - 1 : left.node[k] = q[k]
      BY <1>2, <2>3, <3>1 DEF Ending, Begins
    <3>4. Len(left.node) = Len(S)
      BY <2>3 DEF Ending, Fits
    <3> HIDE DEF m, w
    <3> QED
      BY <1>2, <3>2, <3>3, <3>4, MoreSpecialAt
  <2>5. \A q \in Ending(p, S) : q = left.node \/ MoreSpecial(left.node, q)
    BY <1>1, <2>2, <2>4
  <2>6. ASSUME Apart PROVE Binds(left.node, left.params, m, S)
    <3>1. ~left.node[m].param
      BY <2>3, WildcardFacts
    <3>2. \A i \in m .. Len(S) : i = m \/ i \in m + 1 .. Len(S)
      BY <1>2
    <3>3. \A i \in m + 1 .. Len(S) : i \in m .. Len(S)
      BY <1>2
    <3> HIDE DEF m
    <3> QED
      BY <2>2, <2>6, <3>1, <3>2, <3>3 DEF Binds
  <2> HIDE DEF w
  <2> QED
    BY <1>2, <1>5, <1>6, <1>8, <2>1, <2>3, <2>5, <2>6 DEF Right, Finds
<1>9. CASE ~LeftFound
  <2>1. Apart => Unbound(left.params)
    BY <1>3, <1>7, <1>9 DEF Right, Finds, Unbound
  <2>2. \A q \in Ending(p, S) : q \in Ending(pr, S) /\ p \in DOMAIN names
    BY <1>1, <1>3, <1>9 DEF Right, Finds
  <2>3. CASE p \notin DOMAIN names
    <3>1. w = Miss(p, left.params)
      BY <1>9, <2>3 DEF TryBranches
    <3>2. /\ w = [node |-> w.node, hit |-> w.hit, params |-> w.params]
          /\ w.hit = FALSE /\ w.params = left.params
      BY <3>1 DEF Miss
    <3> HIDE DEF w
    <3> QED
      BY <1>6, <2>1, <2>2, <2>3, <3>2 DEF Right, Finds
  <2>4. CASE p \in DOMAIN names
    <3> DEFINE bound == Written(p, segment, left, right)
    <3>1. ASSUME Apart PROVE names[p] \notin DOMAIN right.params
      <4>1. \A q \in DOMAIN names : Begins(q, pr) => names[p] # names[q]
        <5> SUFFICES ASSUME NEW q \in DOMAIN names, Begins(q, pr) PROVE names[p] # names[q]
          OBVIOUS
        <5>1. m \in 1 .. m /\ \A k \in 1 .. Len(p) : k \in 1 .. m
          BY <1>2
        <5>2. Len(p) + 1 <= Len(q) /\ q[Len(p) + 1] = Wildcard /\ Begins(q, p)
          BY <1>1, <1>2, <5>1 DEF Begins
        <5> QED
          BY <2>4, <3>1, <5>2 DEF Apart
      <4> QED
        BY <1>3, <4>1 DEF Right
    <3>2. /\ DOMAIN bound = DOMAIN right.params \cup DOMAIN left.params \cup {names[p]}
          /\ \A name \in DOMAIN bound :
               bound[name] = IF name \in DOMAIN right.params THEN right.params[name]
                             ELSE IF name = names[p] THEN {DecodeSegment(segment)}
                             ELSE left.params[name]
      BY DEF Written, With
    <3> HIDE DEF bound
    <3>3. \A name \in DOMAIN bound : \E q \in DOMAIN names : name = names[q] /\ Begins(q, p)
      <4>1. Begins(p, p)
        BY <1>2 DEF Begins
      <4>2. \A name \in DOMAIN right.params :
              \E q \in DOMAIN names : name = names[q] /\ Begins(q, p)
        BY <1>1, <1>3 DEF Right
      <4> QED
        BY <1>6, <2>4, <3>2, <4>1, <4>2
    <3>4. CASE RightFound
      <4>1. w = [right EXCEPT !.params = bound]
        BY <1>9, <2>4, <3>4 DEF TryBranches, bound
      <4>2. right = [node |-> right.node, hit |-> right.hit, params |-> right.params]
        BY <1>3 DEF Right
      <4>3. w = [node |-> right.node, hit |-> right.hit, params |-> bound]
        BY <4>1, <4>2
      <4>4. w.node = right.node /\ w.hit = right.hit /\ w.params = bound
        BY <4>3
      <4>5. /\ right.node \in Ending(pr, S)
            /\ \A q \in Ending(pr, S) : q = right.node \/ MoreSpecial(right.node, q)
            /\ Apart => Binds(right.node, right.params, m + 1, S)
        BY <1>2, <1>3, <3>4 DEF Right, Finds
      <4>6. right.node \in Ending(p, S) /\ right.node[m] = Wildcard
              /\ NameAt(right.node, m) = names[p]
        BY <1>1, <4>5
      <4>7. ASSUME Apart PROVE Binds(right.node, bound, m, S)
        <5>1. right.node[m].param
          BY <4>6, WildcardFacts
        <5>2. \A i \in m .. Len(S) : i = m \/ i \in m + 1 .. Len(S)
          BY <1>2
        <5>3. m \in m .. Len(S) /\ \A i \in m + 1 .. Len(S) : i \in m .. Len(S)
          BY <1>2
        <5>4. bound[names[p]] = {DecodeSegment(S[m])} /\ names[p] \in DOMAIN bound
          BY <3>1, <3>2, <4>7 DEF segment
        <5>5. \A name \in DOMAIN right.params :
                name \in DOMAIN bound /\ bound[name] = right.params[name]
          BY <3>2
        <5>6. \A name \in DOMAIN bound : bound[name] # {} =>
                name \in DOMAIN right.params \/ name = names[p]
          BY <2>1, <3>2, <4>7 DEF Unbound
        <5> HIDE DEF m
        <5>7. ASSUME NEW i \in m .. Len(S), right.node[i].param
              PROVE  NameAt(right.node, i) \in DOMAIN bound
                       /\ bound[NameAt(right.node, i)] = {DecodeSegment(S[i])}
          <6>1. CASE i = m
            BY <4>6, <5>4, <6>1
          <6>2. CASE i \in m + 1 .. Len(S)
            BY <4>5, <4>7, <5>5, <5>7, <6>2 DEF Binds
          <6> QED
            BY <5>2, <6>1, <6>2
        <5>8. ASSUME NEW name \in DOMAIN bound, bound[name] # {}
              PROVE  \E i \in m .. Len(S) : right.node[i].param /\ name = NameAt(right.node, i)
          <6>1. CASE name = names[p]
            BY <4>6, <5>1, <5>3, <6>1
          <6>2. CASE name \in DOMAIN right.params
            BY <4>5, <4>7, <5>3, <5>5, <5>8, <6>2 DEF Binds
          <6> QED
            BY <5>6, <5>8, <6>1, <6>2
        <5> QED
          BY <5>7, <5>8 DEF Binds
      <4> HIDE DEF w
      <4> QED
        BY <2>2, <3>3, <3>4, <4>3, <4>4, <4>5, <4>6, <4>7 DEF Right, Finds
    <3>5. CASE ~RightFound
      <4>1. w = Miss(p, With(bound, names[p], {}))
        BY <1>9, <2>4, <3>5 DEF TryBranches, bound
      <4>2. /\ w = [node |-> w.node, hit |-> w.hit, params |-> w.params]
            /\ w.hit = FALSE /\ w.params = With(bound, names[p], {})
        BY <4>1 DEF Miss
      <4>3. Ending(pr, S) = {} /\ (Apart => Unbound(right.params))
        BY <1>3, <3>5 DEF Right, Finds
      <4>4. /\ DOMAIN With(bound, names[p], {}) = DOMAIN bound
            /\ Apart => Unbound(With(bound, names[p], {}))
        BY <2>1, <3>2, <4>3 DEF With, Unbound
      <4>5. Ending(p, S) = {}
        BY <2>2, <4>3
      <4> HIDE DEF w
      <4> QED
        BY <3>3, <4>2, <4>4, <4>5 DEF Right, Finds
    <3> QED
      BY <3>4, <3>5
  <2> QED
    BY <2>3, <2>4
<1> QED
  BY <1>8, <1>9

\* The walk of a request is right at every node it comes to, the root first of all.
LEMMA WalkRight ==
  ASSUME NEW routes, Sound(routes), NEW T, NEW S \in Seq(T)
  PROVE  Right(<< >>, S, Traverse(S))
<1> DEFINE N == Len(S)
<1>1. PICK W : Walked(S, W) /\ Traverse(S) = W[<< >>]
  BY WalkExists
<1>2. N \in Nat
  OBVIOUS
<1> DEFINE Ready == {k \in 0 .. N : \A p : On(p, S) /\ Len(p) = N - k => Right(p, S, W[p])}
<1>3. \A p : On(p, S) => p \in NodesOn(S) /\ W[p] = TraverseAt(p, S, W)
  BY <1>1 DEF Walked, On
<1>4. 0 \in Ready
  <2> SUFFICES ASSUME NEW p, On(p, S), Len(p) = N - 0 PROVE Right(p, S, W[p])
    BY <1>2
  <2>1. Len(p) = Len(S)
    BY <1>2
  <2>2. W[p] = [node |-> p, hit |-> TRUE, params |-> << >>]
    BY <1>3, <2>1, TraverseLeaf
  <2> QED
    BY <2>1, <2>2, LeafRight
<1>5. \A k \in Ready : k \in Nat /\ k < N => k + 1 \in Ready
  <2> TAKE k \in Ready
  <2> SUFFICES ASSUME k \in Nat, k < N, NEW p, On(p, S), Len(p) = N - (k + 1)
               PROVE  Right(p, S, W[p])
    BY <1>2
  <2>1. Len(p) < Len(S) /\ Len(p) + 1 = N - k
    BY <1>2
  <2>2. p \in NodesOn(S)
    BY <1>3
  <2>3. Len(LeftOf(p, S)) = N - k /\ Len(RightOf(p)) = N - k
    BY <2>1, <2>2, ChildFacts
  <2>4. (~S[Len(p) + 1].encoded => On(LeftOf(p, S), S)) /\ On(RightOf(p), S)
    BY <2>1, EndingFacts
  <2>5. /\ ~S[Len(p) + 1].encoded => Right(LeftOf(p, S), S, W[LeftOf(p, S)])
        /\ Right(RightOf(p), S, W[RightOf(p)])
    BY <2>3, <2>4
  <2> DEFINE left == IF S[Len(p) + 1].encoded THEN Miss(p, << >>) ELSE W[LeftOf(p, S)]
  <2>6. W[p] = TryBranches(p, S[Len(p) + 1], left, W[RightOf(p)])
    BY <1>3, <2>1, <2>2, TraverseInner
  <2>7. IF S[Len(p) + 1].encoded THEN left = Miss(p, << >>)
        ELSE Right(LeftOf(p, S), S, left)
    BY <2>5
  <2> HIDE DEF left
  <2> QED
    BY <2>1, <2>5, <2>6, <2>7, TryRight
<1>6. N \in Ready
  <2> HIDE DEF Ready
  <2> QED
    BY <1>2, <1>4, <1>5, UpTo
<1>7. On(<< >>, S) /\ Len(<< >>) = N - N
  <2>1. << >> \in NodesOn(S)
    BY <1>2 DEF NodesOn
  <2> QED
    BY <1>2, <2>1 DEF On
<1> QED
  BY <1>1, <1>6, <1>7

-----------------------------------------------------------------------------
(* Dispatch                                                                *)

\* Of two registered nodes that a request fits, only one is more special.
LEMMA SpecialOnce ==
  ASSUME NEW routes, Sound(routes), NEW T, NEW S \in Seq(T),
         NEW one \in table, NEW two \in table, Fits(one.node, S), Fits(two.node, S),
         MoreSpecial(one.node, two.node)
  PROVE  ~MoreSpecial(two.node, one.node)
<1> DEFINE a == one.node
           b == two.node
           differing == {i \in 1 .. Len(a) : a[i] # b[i]}
           d == Least(differing)
<1> SUFFICES ASSUME MoreSpecial(b, a) PROVE FALSE
  OBVIOUS
<1>1. /\ Len(a) = Len(S) /\ Len(b) = Len(S) /\ Len(S) \in Nat
      /\ a \in Seq({Wildcard} \cup {one.route.path[i] : i \in DOMAIN one.route.path})
      /\ b \in Seq({Wildcard} \cup {two.route.path[i] : i \in DOMAIN two.route.path})
  BY TableFacts DEF Fits
<1>2. a # b
  BY DEF MoreSpecial
<1>3. differing # {} /\ differing \in SUBSET Nat
  BY <1>1, <1>2
<1>4. d \in differing
  BY <1>3, LeastOne
<1>5. {i \in 1 .. Len(b) : b[i] # a[i]} = differing
  BY <1>1
<1>6. ~a[d].param
  BY DEF MoreSpecial
<1>7. ~b[d].param
  BY <1>5 DEF MoreSpecial
<1> HIDE DEF d
<1>8. d \in 1 .. Len(a) /\ d \in 1 .. Len(b) /\ a[d] # b[d]
  BY <1>1, <1>4
<1>9. /\ a[d] = Static(a[d].text) /\ b[d] = Static(b[d].text)
      /\ a[d].text = S[d].text /\ b[d].text = S[d].text
  BY <1>6, <1>7, <1>8, TableFacts DEF Fits
<1> QED
  BY <1>8, <1>9

\* The walk ends at the one best node, if there is one, and has bound its names.
LEMMA BestFacts ==
  ASSUME NEW routes, Sound(routes), NEW T, NEW S \in Seq(T)
  PROVE  LET w == Traverse(S)
         IN  IF w.hit /\ HasMethods(w.node)
               THEN BestNodes(S) = {w.node} /\ (Apart => Binds(w.node, w.params, 1, S))
               ELSE BestNodes(S) = {} /\ \A entry \in table : ~Fits(entry.node, S)
<1> DEFINE w == Traverse(S)
           fitting == {node \in {entry.node : entry \in table} : Fits(node, S)}
<1>1. Right(<< >>, S, w)
  BY WalkRight
<1>2. Ending(<< >>, S) = fitting
  <2>1. \A entry \in table : Begins(entry.node, << >>)
    <3> SUFFICES ASSUME NEW entry \in table PROVE Begins(entry.node, << >>)
      OBVIOUS
    <3>1. Len(entry.node) \in Nat
      BY TableFacts
    <3> QED
      BY <3>1 DEF Begins
  <2> QED
    BY <2>1 DEF Ending
<1> HIDE DEF w
<1>3. CASE w.hit /\ HasMethods(w.node)
  <2>1. /\ w.node \in fitting
        /\ \A q \in fitting : q = w.node \/ MoreSpecial(w.node, q)
        /\ Apart => Binds(w.node, w.params, 1, S)
    BY <1>1, <1>2, <1>3 DEF Right, Finds
  <2>2. ASSUME NEW q \in BestNodes(S) PROVE q = w.node
    <3>1. q \in fitting /\ (q = w.node \/ MoreSpecial(q, w.node))
      BY <2>1 DEF BestNodes
    <3>2. PICK one \in table, two \in table : one.node = w.node /\ two.node = q
      BY <2>1, <3>1
    <3>3. Fits(one.node, S) /\ Fits(two.node, S)
      BY <2>1, <3>1, <3>2
    <3> QED
      BY <2>1, <3>1, <3>2, <3>3, SpecialOnce
  <2>3. w.node \in BestNodes(S)
    BY <2>1 DEF BestNodes
  <2> QED
    BY <1>3, <2>1, <2>2, <2>3 DEF w
<1>4. CASE ~(w.hit /\ HasMethods(w.node))
  <2>1. fitting = {}
    BY <1>1, <1>2, <1>4 DEF Right, Finds
  <2>2. BestNodes(S) = {} /\ \A entry \in table : ~Fits(entry.node, S)
    BY <2>1 DEF BestNodes
  <2> QED
    BY <1>4, <2>2 DEF w
<1> QED
  BY <1>3, <1>4

LEMMA SegmentsOf ==
  ASSUME NEW request, IsSequence(request)
  PROVE  ToSegments(request) \in Seq({request[i] : i \in DOMAIN request})
<1> DEFINE kept == {i \in DOMAIN request : request[i].text # ""}
           T == {request[i] : i \in DOMAIN request}
<1>1. request \in Seq(T)
  BY DEF IsSequence
<1>2. Selected(request, kept) \in Seq({request[i] : i \in DOMAIN request \cap kept})
  <2> HIDE DEF kept, T
  <2> QED
    BY <1>1, SelectedFacts
<1>3. DOMAIN request \cap kept \subseteq DOMAIN request
  OBVIOUS
<1>4. {request[i] : i \in DOMAIN request \cap kept} \subseteq T
  OBVIOUS
<1>5. ToSegments(request) = Selected(request, kept)
  BY DEF ToSegments
<1> DEFINE some == {request[i] : i \in DOMAIN request \cap kept}
<1>6. ASSUME NEW A, A \subseteq T PROVE Seq(A) \subseteq Seq(T)
  BY <1>6
<1>7. Selected(request, kept) \in Seq(some) /\ some \subseteq T
  BY <1>2, <1>4
<1> HIDE DEF T, some, kept
<1> QED
  BY <1>5, <1>6, <1>7 DEF T

BestAt(S, method) ==
  {entry \in table : entry.node \in BestNodes(S) /\ entry.method = method}

Serving(S, method) ==
  IF BestAt(S, method) = {} /\ method = "HEAD" THEN BestAt(S, "GET")
  ELSE BestAt(S, method)

\* The params a handler gets are those of its own path.
LEMMA ParamsFacts ==
  ASSUME NEW routes, Sound(routes), NEW S, NEW entry \in table, NEW params,
         Len(entry.node) = Len(S), Binds(entry.node, params, 1, S)
  PROVE  Present(params) = Bindings(entry.route, S)
<1> DEFINE node == entry.node
           path == entry.route.path
           bound == {n \in DOMAIN params : params[n] # {}}
           own == {NameOf(path[i]) : i \in {j \in 1 .. Len(path) : path[j].param}}
           At(name) == CHOOSE i \in 1 .. Len(path) : path[i].param /\ NameOf(path[i]) = name
<1>1. /\ Len(path) = Len(S)
      /\ \A i \in 1 .. Len(S) : /\ node[i].param = path[i].param
                                /\ path[i].param => NameAt(node, i) = NameOf(path[i])
  BY TableFacts
<1>2. \A i \in 1 .. Len(path) : path[i].param =>
        NameOf(path[i]) \in DOMAIN params /\ params[NameOf(path[i])] = {DecodeSegment(S[i])}
  BY <1>1 DEF Binds
<1>3. bound = own
  <2>1. ASSUME NEW name \in bound PROVE name \in own
    <3>1. PICK i \in 1 .. Len(S) : node[i].param /\ name = NameAt(node, i)
      BY DEF Binds
    <3> QED
      BY <1>1, <3>1
  <2>2. ASSUME NEW name \in own PROVE name \in bound
    BY <1>2
  <2> QED
    BY <2>1, <2>2
<1>4. ASSUME NEW name \in own
      PROVE  (CHOOSE v \in params[name] : TRUE) = DecodeSegment(S[At(name)])
  <2>1. PICK i \in 1 .. Len(path) : path[i].param /\ NameOf(path[i]) = name
    OBVIOUS
  <2>2. At(name) \in 1 .. Len(path) /\ path[At(name)].param /\ NameOf(path[At(name)]) = name
    BY <2>1
  <2> HIDE DEF At
  <2>3. params[name] = {DecodeSegment(S[At(name)])}
    BY <1>2, <2>2
  <2> QED
    BY <2>3
<1> QED
  BY <1>3, <1>4 DEF Present, Bindings

LEMMA MatchFacts ==
  ASSUME NEW routes, Sound(routes), NEW request, IsSequence(request), NEW method
  PROVE  LET S == ToSegments(request)
             match == Match(method, request)
         IN  /\ match.found <=> Serving(S, method) # {}
             /\ match.found => \E entry \in Serving(S, method) :
                                 entry.route = match.route
             /\ match.found /\ Apart => match.params = Bindings(match.route, S)
<1> DEFINE T == {request[i] : i \in DOMAIN request}
           S == ToSegments(request)
           w == Traverse(S)
           usable == IF EntriesFor(w.node, method) = {} /\ method = "HEAD"
                       THEN EntriesFor(w.node, "GET") ELSE EntriesFor(w.node, method)
           first == CHOOSE entry \in usable : TRUE
           match == Match(method, request)
<1>1. S \in Seq(T)
  BY SegmentsOf
<1>2. IF w.hit /\ HasMethods(w.node)
        THEN BestNodes(S) = {w.node} /\ (Apart => Binds(w.node, w.params, 1, S))
        ELSE BestNodes(S) = {}
  <2> HIDE DEF T, S
  <2> QED
    BY <1>1, BestFacts
<1>3. match = IF ~w.hit \/ usable = {} THEN NoMatch
              ELSE [found |-> TRUE, route |-> first.route, params |-> Present(w.params)]
  BY DEF Match
<1> HIDE DEF S, w, T, match
<1>4. CASE w.hit /\ HasMethods(w.node)
  <2>1. \A m : BestAt(S, m) = EntriesFor(w.node, m)
    BY <1>2, <1>4 DEF BestAt, EntriesFor
  <2>2. usable = Serving(S, method)
    BY <2>1 DEF Serving
  <2>3. CASE usable = {}
    <3>1. match.found = FALSE
      BY <1>3, <2>3 DEF NoMatch
    <3> HIDE DEF usable
    <3> QED
      BY <2>2, <2>3, <3>1 DEF match, S
  <2>4. CASE usable # {}
    <3>1. first \in usable
      BY <2>4
    <3>2. usable \subseteq table /\ first.node = w.node
      BY <3>1 DEF EntriesFor
    <3> HIDE DEF usable, first
    <3>3. /\ match.found = TRUE /\ match.route = first.route
          /\ match.params = Present(w.params)
      BY <1>3, <1>4, <2>4
    <3>4. w.node \in BestNodes(S)
      BY <1>2, <1>4
    <3>5. Len(first.node) = Len(S)
      BY <3>2, <3>4 DEF BestNodes, Fits
    <3>6. first \in table
      BY <3>1, <3>2
    <3>7. Apart => Binds(first.node, w.params, 1, S)
      BY <1>2, <1>4, <3>2
    <3>8. Apart => Present(w.params) = Bindings(first.route, S)
      BY <3>5, <3>6, <3>7, ParamsFacts
    <3> QED
      BY <2>2, <2>4, <3>1, <3>3, <3>8 DEF match, S
  <2> QED
    BY <2>3, <2>4
<1>5. CASE ~(w.hit /\ HasMethods(w.node))
  <2>1. Serving(S, method) = {}
    BY <1>2, <1>5 DEF Serving, BestAt
  <2>2. ~w.hit \/ usable = {}
    BY <1>5 DEF HasMethods, EntriesFor
  <2>3. match.found = FALSE
    BY <1>3, <2>2 DEF NoMatch
  <2> QED
    BY <2>1, <2>3 DEF match, S
<1> QED
  BY <1>4, <1>5

\* Over a sound tree, dispatch is best.
LEMMA SoundDispatch ==
  ASSUME NEW routes, Sound(routes), NamedOnce => Apart
  PROVE  DispatchIsBest
<1> SUFFICES ASSUME NEW request \in Requests
    PROVE LET S == ToSegments(request)
              best == BestNodes(S)
              at(method) == {entry \in table : entry.node \in best
                                               /\ entry.method = method}
              allowed == {entry.method : entry \in {e \in table : e.node \in best}}
          IN  /\ AllowedMethods(request) =
                   allowed \cup (IF "GET" \in allowed THEN {"HEAD"} ELSE {})
              /\ \A method \in AllMethods :
                   LET serving == IF at(method) = {} /\ method = "HEAD"
                                    THEN at("GET") ELSE at(method)
                       match == Match(method, request)
                   IN  /\ match.found <=> serving # {}
                       /\ match.found =>
                            /\ \E entry \in serving : entry.route = match.route
                            /\ NamedOnce => match.params = Bindings(match.route, S)
  BY DEF DispatchIsBest
<1> DEFINE S == ToSegments(request)
           T == {request[i] : i \in DOMAIN request}
           w == Traverse(S)
           allowed == {entry.method : entry \in {e \in table : e.node \in BestNodes(S)}}
           methods == {entry.method : entry \in {e \in table : e.node = w.node}}
<1>1. IsSequence(request)
  BY RequestsAssumption
<1>2. S \in Seq(T)
  BY <1>1, SegmentsOf
<1>3. AllowedMethods(request) = allowed \cup (IF "GET" \in allowed THEN {"HEAD"} ELSE {})
  <2>1. AllowedMethods(request) =
          IF ~w.hit THEN {}
          ELSE IF "GET" \in methods THEN methods \cup {"HEAD"} ELSE methods
    BY DEF AllowedMethods
  <2>2. IF w.hit /\ HasMethods(w.node) THEN BestNodes(S) = {w.node} ELSE BestNodes(S) = {}
    <3> HIDE DEF S, T
    <3> QED
      BY <1>2, BestFacts
  <2>3. CASE w.hit /\ HasMethods(w.node)
    <3>1. allowed = methods
      BY <2>2, <2>3
    <3> QED
      BY <2>1, <2>3, <3>1
  <2>4. CASE ~(w.hit /\ HasMethods(w.node))
    <3>1. allowed = {}
      BY <2>2, <2>4
    <3>2. w.hit => methods = {}
      BY <2>4 DEF HasMethods
    <3> HIDE DEF allowed, methods
    <3> QED
      BY <2>1, <3>1, <3>2
  <2> QED
    BY <2>3, <2>4
<1>4. ASSUME NEW method \in AllMethods
      PROVE  LET match == Match(method, request)
             IN  /\ match.found <=> Serving(S, method) # {}
                 /\ match.found =>
                      /\ \E entry \in Serving(S, method) : entry.route = match.route
                      /\ NamedOnce => match.params = Bindings(match.route, S)
  BY <1>1, MatchFacts
<1> HIDE DEF S
<1> QED
  BY <1>3, <1>4 DEF Serving, BestAt, S

-----------------------------------------------------------------------------
(* The routes of a contract                                                *)

LEMMA NoErrorAtAll ==
  ASSUME NEW errors, DOMAIN errors \in SUBSET Nat, FirstReal(errors) = "none"
  PROVE  \A k \in DOMAIN errors : errors[k] = "none"
<1> DEFINE real == {k \in DOMAIN errors : errors[k] # "none"}
<1> SUFFICES ASSUME real # {} PROVE FALSE
  OBVIOUS
<1>1. Least(real) \in real
  BY LeastOne
<1> HIDE DEF real
<1>2. errors[Least(real)] = "none"
  BY DEF FirstReal, real
<1> QED
  BY <1>1, <1>2 DEF real

LEMMA ConcatAt ==
  ASSUME NEW A, NEW B, NEW s \in Seq(A), NEW t \in Seq(B), NEW i \in 1 .. Len(t)
  PROVE  /\ DOMAIN (s \o t) = 1 .. Len(s) + Len(t) /\ DOMAIN (s \o t) \in SUBSET Nat
         /\ Len(s) + i \in DOMAIN (s \o t) /\ (s \o t)[Len(s) + i] = t[i]
<1>1. s \in Seq(A \cup B) /\ t \in Seq(A \cup B)
  OBVIOUS
<1>2. Len(s) \in Nat /\ Len(t) \in Nat
  OBVIOUS
<1> DEFINE C == A \cup B
<1> HIDE DEF C
<1>3. s \in Seq(C) /\ t \in Seq(C)
  BY <1>1 DEF C
<1>4. /\ s \o t \in Seq(C) /\ Len(s \o t) = Len(s) + Len(t)
      /\ (s \o t)[Len(s) + i] = t[i]
  BY <1>2, <1>3
<1> QED
  BY <1>2, <1>4

\* What comes earlier in a contract: the operations of the resources before, and
\* those before in the same resource.
LEMMA EarlierFacts ==
  ASSUME NEW c, NEW n, NEW k
  PROVE  /\ \A m \in 1 .. n - 1 : \A j \in DOMAIN OperationsOf(c.resources[m]) :
              OperationsOf(c.resources[m])[j] \in Earlier(c, n, k)
         /\ \A j \in 1 .. k - 1 : OperationsOf(c.resources[n])[j] \in Earlier(c, n, k)
<1> DEFINE before == UNION {ToSet(OperationsOf(c.resources[m])) : m \in 1 .. n - 1}
           own == {OperationsOf(c.resources[n])[j] : j \in 1 .. k - 1}
<1>1. ASSUME NEW m \in 1 .. n - 1, NEW j \in DOMAIN OperationsOf(c.resources[m])
      PROVE  OperationsOf(c.resources[m])[j] \in before
  <2>1. OperationsOf(c.resources[m])[j] \in ToSet(OperationsOf(c.resources[m]))
    BY DEF ToSet
  <2> QED
    BY <2>1
<1>2. \A j \in 1 .. k - 1 : OperationsOf(c.resources[n])[j] \in own
  OBVIOUS
<1>3. Earlier(c, n, k) = before \cup own
  BY DEF Earlier
<1> HIDE DEF before, own
<1> QED
  BY <1>1, <1>2, <1>3

\* In a contract that is accepted no two operations have one route.
LEMMA RoutesApart ==
  ASSUME NEW c \in Contracts, ContractError(c) = "none",
         NEW n \in DOMAIN c.resources, NEW k \in DOMAIN OperationsOf(c.resources[n]),
         NEW other \in Earlier(c, n, k)
  PROVE  RouteKey(other) # RouteKey(OperationsOf(c.resources[n])[k])
<1> DEFINE resource == c.resources[n]
           operations == OperationsOf(resource)
           first == <<SchemesError(c.schemes), SecurityError(c.security, c.schemes)>>
           rest == [m \in DOMAIN c.resources |-> ResourceError(c, m)]
           own == [j \in DOMAIN operations |->
                     OperationError(c, resource, operations[j], Earlier(c, n, j))]
           begin == <<SecurityError(resource.security, c.schemes)>>
           security == NormalizedSecurity(c, resource, operations[k])
           checks == <<
             Check(operations[k].id \notin Unsupported, "name"),
             Check(\A o \in Earlier(c, n, k) : o.id # operations[k].id, "duplicateId"),
             Check(\A o \in Earlier(c, n, k) : RouteKey(o) # RouteKey(operations[k]),
                   "duplicateRoute"),
             Check(operations[k].answers, "noResponses"),
             Check(PathParametersMatch(operations[k]), "parameters"),
             SecurityError(operations[k].security, c.schemes),
             HeaderError(security, operations[k], c.schemes)>>
<1>1. /\ Len(c.resources) \in Nat /\ DOMAIN c.resources = 1 .. Len(c.resources)
      /\ Len(operations) \in Nat /\ DOMAIN operations = 1 .. Len(operations)
  BY ContractsAssumption, RoutersAssumption DEF IsSequence, OperationsOf
<1>2. ResourceError(c, n) = "none"
  <2>1. FirstReal(first \o rest) = "none"
    BY DEF ContractError
  <2>2. /\ Len(first) = 2 /\ Len(rest) = Len(c.resources)
        /\ first \in Seq({first[1], first[2]})
        /\ rest \in Seq({rest[m] : m \in DOMAIN c.resources})
    BY <1>1
  <2> HIDE DEF first, rest
  <2>3. n \in 1 .. Len(rest)
    BY <1>1, <2>2
  <2>4. /\ 2 + n \in DOMAIN (first \o rest) /\ DOMAIN (first \o rest) \in SUBSET Nat
        /\ (first \o rest)[2 + n] = rest[n]
    <3> DEFINE A == {first[1], first[2]}
               B == {rest[m] : m \in DOMAIN c.resources}
    <3>1. first \in Seq(A) /\ rest \in Seq(B)
      BY <2>2
    <3> HIDE DEF A, B
    <3>2. /\ DOMAIN (first \o rest) \in SUBSET Nat
          /\ Len(first) + n \in DOMAIN (first \o rest)
          /\ (first \o rest)[Len(first) + n] = rest[n]
      BY <2>3, <3>1, ConcatAt
    <3> QED
      BY <2>2, <3>2
  <2>5. (first \o rest)[2 + n] = "none"
    BY <2>1, <2>4, NoErrorAtAll
  <2> QED
    BY <2>4, <2>5 DEF rest
<1>3. OperationError(c, resource, operations[k], Earlier(c, n, k)) = "none"
  <2>1. FirstReal(begin \o own) = "none"
    BY <1>2 DEF ResourceError
  <2>2. /\ Len(begin) = 1 /\ Len(own) = Len(operations)
        /\ begin \in Seq({begin[1]}) /\ own \in Seq({own[j] : j \in DOMAIN operations})
    BY <1>1
  <2> HIDE DEF begin, own
  <2>3. k \in 1 .. Len(own)
    BY <1>1, <2>2
  <2>4. /\ 1 + k \in DOMAIN (begin \o own) /\ DOMAIN (begin \o own) \in SUBSET Nat
        /\ (begin \o own)[1 + k] = own[k]
    <3> DEFINE A == {begin[1]}
               B == {own[j] : j \in DOMAIN operations}
    <3>1. begin \in Seq(A) /\ own \in Seq(B)
      BY <2>2
    <3> HIDE DEF A, B
    <3>2. /\ DOMAIN (begin \o own) \in SUBSET Nat
          /\ Len(begin) + k \in DOMAIN (begin \o own)
          /\ (begin \o own)[Len(begin) + k] = own[k]
      BY <2>3, <3>1, ConcatAt
    <3> QED
      BY <2>2, <3>2
  <2>5. (begin \o own)[1 + k] = "none"
    BY <2>1, <2>4, NoErrorAtAll
  <2> QED
    BY <2>4, <2>5 DEF own
<1>4. FirstReal(checks) = "none"
  BY <1>3 DEF OperationError
<1>5. DOMAIN checks = 1 .. 7 /\ 3 \in 1 .. 7 /\ DOMAIN checks \in SUBSET Nat
  OBVIOUS
<1>6. checks[3] = Check(\A o \in Earlier(c, n, k) : RouteKey(o) # RouteKey(operations[k]),
                        "duplicateRoute")
  OBVIOUS
<1> HIDE DEF checks
<1>7. checks[3] = "none"
  BY <1>4, <1>5, NoErrorAtAll
<1>8. \A o \in Earlier(c, n, k) : RouteKey(o) # RouteKey(operations[k])
  BY <1>6, <1>7 DEF Check
<1> QED
  BY <1>8

Tried == mounted \cup DOMAIN failed
Seen == UNION {RoutesOf(r) : r \in Tried}

\* The tree is made of the routes of the routers tried so far, which are those of an
\* accepted contract, and has all routes of those mounted.
RoutesInv ==
  /\ Tree(names, table, Seen)
  /\ \A r \in mounted : \A route \in RoutesOf(r) : \E entry \in table : entry.route = route
  /\ Tried \subseteq {contract.resources[n].name : n \in DOMAIN contract.resources}
  /\ Tried # {} => verdict = "none"
  /\ verdict = "none" => contract \in Contracts /\ ContractError(contract) = "none"
  /\ chapter = "routes" /\ verdict = "open" => contract \in Contracts
  /\ AcceptedContractsMount

LEMMA RoutesInvInit == Init => RoutesInv
<1> SUFFICES ASSUME Init PROVE RoutesInv
  OBVIOUS
<1>1. /\ names = << >> /\ table = {} /\ mounted = {} /\ failed = << >>
      /\ verdict = "open"
      /\ contract \in (IF chapter = "routes" THEN Contracts ELSE {SomeContract})
  BY DEF Init, RouterInit
<1>2. DOMAIN names = {} /\ DOMAIN failed = {}
  BY <1>1
<1>3. Tree(names, table, Seen)
  BY <1>1, <1>2 DEF Tree, Grown, Filled
<1> QED
  BY <1>1, <1>2, <1>3 DEF RoutesInv, Tried, AcceptedContractsMount

\* Mounting a router of an accepted contract
LEMMA MountOneKeeps ==
  ASSUME RoutesInv, MountOne, UNCHANGED <<chapter, contractVars>>
  PROVE  RoutesInv'
<1>1. PICK n \in DOMAIN contract.resources : Mount(contract.resources[n].name)
  BY DEF MountOne
<1> DEFINE r == contract.resources[n].name
           tree == [names |-> names, table |-> table]
           t == AddAll(tree, Routers[r])
<1>2. /\ verdict = "none" /\ contract \in Contracts /\ ContractError(contract) = "none"
      /\ contract' = contract /\ verdict' = verdict /\ chapter' = chapter
  BY DEF MountOne, RoutesInv, contractVars
<1>3. /\ r \notin Tried
      /\ names' = t.names /\ table' = t.table
      /\ IF t.error = "none" THEN mounted' = mounted \cup {r} /\ failed' = failed
         ELSE failed' = With(failed, r, t.error) /\ mounted' = mounted
  BY <1>1 DEF Mount, Tried
<1>4. /\ r \in DOMAIN Routers /\ IsSequence(Routers[r])
      /\ \A k \in DOMAIN Routers[r] : WellFormed(Routers[r][k].path)
  BY <1>2, ContractsAssumption, RoutersAssumption
<1>5. RoutesOf(r) = {Routers[r][k] : k \in DOMAIN Routers[r]}
  BY DEF RoutesOf
<1>6. Tree(tree.names, tree.table, Seen)
  BY DEF RoutesInv
<1> DEFINE all == Seen \cup {Routers[r][k] : k \in DOMAIN Routers[r]}
<1>7. /\ Tree(t.names, t.table, all)
      /\ Extends(t.names, tree.names) /\ tree.table \subseteq t.table
      /\ t.error \in {"none", "conflict", "duplicate"}
      /\ t.error = "none" =>
           \A k \in DOMAIN Routers[r] : \E entry \in t.table : entry.route = Routers[r][k]
      /\ t.error = "conflict" =>
           \E k \in DOMAIN Routers[r] : \E b \in all : NamesCollide(Routers[r][k], b)
      /\ t.error = "duplicate" =>
           \E k \in DOMAIN Routers[r] :
             \/ \E b \in Seen : RouteKey(b) = RouteKey(Routers[r][k])
             \/ \E j \in 1 .. k - 1 : RouteKey(Routers[r][j]) = RouteKey(Routers[r][k])
  <2> HIDE DEF tree, r
  <2>1. AddedAll(t, tree, Seen, Routers[r])
    BY <1>4, <1>6, AddAllFacts
  <2> HIDE DEF t
  <2> QED
    BY <2>1 DEF AddedAll
<1>8. table \subseteq t.table
  BY <1>7
<1> HIDE DEF t, tree, r
<1>9. Tried' = Tried \cup {r}
  <2>1. DOMAIN With(failed, r, t.error) = DOMAIN failed \cup {r}
    BY DEF With
  <2> QED
    BY <1>3, <2>1 DEF Tried
<1>10. Seen' = all
  <2>1. Seen' = UNION {RoutesOf(q) : q \in Tried \cup {r}}
    BY <1>9 DEF Seen, RoutesOf
  <2> QED
    BY <1>5, <2>1 DEF Seen
<1>11. Tree(names, table, Seen)'
  BY <1>3, <1>7, <1>10 DEF Tree, Grown, Filled, Bound
<1>12. \A q \in mounted' : \A route \in RoutesOf(q) : \E entry \in table' : entry.route = route
  <2> SUFFICES ASSUME NEW q \in mounted', NEW route \in RoutesOf(q)
               PROVE  \E entry \in table' : entry.route = route
    OBVIOUS
  <2>1. CASE q \in mounted
    BY <1>3, <1>8, <2>1 DEF RoutesInv
  <2>2. CASE q \notin mounted
    <3>1. t.error = "none" /\ q = r
      BY <1>3, <2>2
    <3> QED
      BY <1>3, <1>5, <1>7, <3>1
  <2> QED
    BY <2>1, <2>2
<1>13. \A b \in all : b \in OperationsIn(contract)
  <2> SUFFICES ASSUME NEW b \in all PROVE b \in OperationsIn(contract)
    OBVIOUS
  <2>1. PICK q \in Tried \cup {r} : b \in RoutesOf(q)
    BY <1>5 DEF Seen
  <2>2. PICK m \in DOMAIN contract.resources : q = contract.resources[m].name
    BY DEF RoutesInv, r
  <2> QED
    BY <2>1, <2>2 DEF OperationsIn, OperationsOf, RoutesOf, ToSet
<1>14. t.error # "duplicate"
  <2> SUFFICES ASSUME t.error = "duplicate" PROVE FALSE
    OBVIOUS
  <2>1. PICK k \in DOMAIN Routers[r] :
             \/ \E b \in Seen : RouteKey(b) = RouteKey(Routers[r][k])
             \/ \E j \in 1 .. k - 1 : RouteKey(Routers[r][j]) = RouteKey(Routers[r][k])
    BY <1>7
  <2>2. OperationsOf(contract.resources[n]) = Routers[r]
    BY DEF OperationsOf, r
  <2>3. CASE \E j \in 1 .. k - 1 : RouteKey(Routers[r][j]) = RouteKey(Routers[r][k])
    <3>1. PICK j \in 1 .. k - 1 : RouteKey(Routers[r][j]) = RouteKey(Routers[r][k])
      BY <2>3
    <3>2. Routers[r][j] \in Earlier(contract, n, k)
      BY <2>2, <3>1, EarlierFacts
    <3> QED
      BY <1>2, <2>2, <3>1, <3>2, RoutesApart
  <2>4. CASE \E b \in Seen : RouteKey(b) = RouteKey(Routers[r][k])
    <3>1. PICK q \in Tried : \E b \in RoutesOf(q) : RouteKey(b) = RouteKey(Routers[r][k])
      BY <2>4 DEF Seen
    <3>2. PICK m \in DOMAIN contract.resources : q = contract.resources[m].name
      BY DEF RoutesInv
    <3>3. PICK j \in DOMAIN Routers[q] : RouteKey(Routers[q][j]) = RouteKey(Routers[r][k])
      BY <3>1 DEF RoutesOf
    <3>4. OperationsOf(contract.resources[m]) = Routers[q]
      BY <3>2 DEF OperationsOf
    <3>5. /\ m # n /\ m \in 1 .. Len(contract.resources) /\ n \in 1 .. Len(contract.resources)
          /\ Len(contract.resources) \in Nat
      <4>1. m # n
        BY <1>3, <3>1, <3>2 DEF r
      <4>2. DOMAIN contract.resources = 1 .. Len(contract.resources)
            /\ Len(contract.resources) \in Nat
        BY <1>2, ContractsAssumption DEF IsSequence
      <4> QED
        BY <4>1, <4>2
    <3>6. CASE m < n
      <4>1. Routers[q][j] \in Earlier(contract, n, k)
        <5>1. m \in 1 .. n - 1
          BY <3>5, <3>6
        <5> QED
          BY <3>4, <5>1, EarlierFacts
      <4> QED
        BY <1>2, <2>2, <3>3, <4>1, RoutesApart
    <3>7. CASE n < m
      <4>1. Routers[r][k] \in Earlier(contract, m, j)
        <5>1. n \in 1 .. m - 1
          BY <3>5, <3>7
        <5> QED
          BY <2>2, <5>1, EarlierFacts
      <4> QED
        BY <1>2, <3>3, <3>4, <4>1, RoutesApart
    <3> QED
      BY <3>5, <3>6, <3>7
  <2> QED
    BY <2>1, <2>3, <2>4
<1>15. AcceptedContractsMount'
  <2>1. OperationsIn(contract)' = OperationsIn(contract)
    BY <1>2 DEF OperationsIn, OperationsOf
  <2>2. ASSUME NEW q \in DOMAIN failed'
        PROVE  /\ failed'[q] = "conflict"
               /\ \E a \in ToSet(Routers[q]), b \in OperationsIn(contract) : NamesCollide(a, b)
    <3>1. CASE q \in DOMAIN failed
      <4>1. failed'[q] = failed[q]
        <5>1. q # r
          BY <1>3, <3>1 DEF Tried
        <5> QED
          BY <1>3, <3>1, <5>1 DEF With
      <4> QED
        BY <3>1, <4>1 DEF RoutesInv, AcceptedContractsMount
    <3>2. CASE q \notin DOMAIN failed
      <4>1. q = r /\ failed'[q] = t.error /\ t.error # "none"
        BY <1>3, <3>2 DEF With
      <4>2. t.error = "conflict"
        BY <1>7, <1>14, <4>1
      <4>3. PICK k \in DOMAIN Routers[r], b \in all : NamesCollide(Routers[r][k], b)
        BY <1>7, <4>2
      <4>4. Routers[r][k] \in ToSet(Routers[r]) /\ b \in OperationsIn(contract)
        BY <1>13 DEF ToSet
      <4> QED
        BY <4>1, <4>2, <4>3, <4>4
    <3> QED
      BY <3>1, <3>2
  <2> QED
    BY <2>1, <2>2 DEF AcceptedContractsMount
<1>16. /\ Tried' \subseteq {contract'.resources[m].name : m \in DOMAIN contract'.resources}
       /\ Tried' # {} => verdict' = "none"
       /\ verdict' = "none" => contract' \in Contracts /\ ContractError(contract')  = "none"
       /\ chapter' = "routes" /\ verdict' = "open" => contract' \in Contracts
  <2>1. r \in {contract.resources[m].name : m \in DOMAIN contract.resources}
    BY DEF r
  <2> QED
    BY <1>2, <1>9, <2>1 DEF RoutesInv
<1> QED
  BY <1>11, <1>12, <1>15, <1>16 DEF RoutesInv, RoutesOf

LEMMA RoutesInvUnchanged ==
  ASSUME RoutesInv, UNCHANGED <<names, table, mounted, failed, contract, verdict>>,
         chapter' = chapter
  PROVE  RoutesInv'
<1>1. Tried' = Tried /\ Seen' = Seen
  BY DEF Tried, Seen, RoutesOf
<1>2. Tree(names, table, Seen)'
  <2>1. Grown(names, Seen) /\ Filled(names, table, Seen)
    BY DEF RoutesInv, Tree
  <2>2. Grown(names, Seen)'
    BY <1>1, <2>1 DEF Grown, Bound
  <2>3. Filled(names, table, Seen)'
    BY <1>1, <2>1 DEF Filled, Bound
  <2> QED
    BY <2>2, <2>3 DEF Tree
<1>3. AcceptedContractsMount'
  BY DEF RoutesInv, AcceptedContractsMount, OperationsIn, OperationsOf
<1> QED
  BY <1>1, <1>2, <1>3 DEF RoutesInv, RoutesOf

LEMMA RoutesInvNext == RoutesInv /\ [Next]_vars => RoutesInv'
<1> SUFFICES ASSUME RoutesInv, [Next]_vars PROVE RoutesInv'
  OBVIOUS
<1>1. CASE UNCHANGED <<chapter, routerVars, contractVars>>
  BY <1>1, RoutesInvUnchanged DEF routerVars, contractVars
<1>2. CASE Routes
  <2>1. CASE MountOne /\ UNCHANGED contractVars
    BY <1>2, <2>1, MountOneKeeps DEF Routes
  <2>2. CASE NormalizeContract /\ UNCHANGED routerVars
    <3>1. /\ chapter = "routes" /\ chapter' = chapter
          /\ verdict = "open" /\ verdict' = ContractError(contract) /\ contract' = contract
          /\ UNCHANGED <<names, table, mounted, failed>>
      BY <1>2, <2>2 DEF Routes, NormalizeContract, routerVars
    <3>2. Tried' = Tried /\ Seen' = Seen /\ Tried = {}
      BY <3>1 DEF Tried, Seen, RoutesOf, RoutesInv
    <3>3. Tree(names, table, Seen)'
      BY <3>1, <3>2 DEF RoutesInv, Tree, Grown, Filled, Bound
    <3>4. AcceptedContractsMount'
      BY <3>1, <3>2 DEF Tried, AcceptedContractsMount
    <3>5. contract \in Contracts /\ ContractError(contract') = verdict'
      BY <3>1 DEF RoutesInv
    <3>6. \A r \in mounted' : \A route \in RoutesOf(r) : \E entry \in table' : entry.route = route
      BY <3>1 DEF RoutesInv
    <3> QED
      BY <3>1, <3>2, <3>3, <3>4, <3>5, <3>6 DEF RoutesInv, RoutesOf
  <2> QED
    BY <1>2, <2>1, <2>2 DEF Routes
<1>3. CASE Responses \/ Call \/ Command \/ Handlers \/ Messages
  BY <1>1, <1>3 DEF Responses, Call, Command, Handlers, Messages, InCall, InCommand, InHandlers
<1>4. CASE UNCHANGED vars
  BY <1>1, <1>4 DEF vars
<1> QED
  BY <1>2, <1>3, <1>4 DEF Next

LEMMA RoutesInvSound == RoutesInv => Sound(Seen)
<1> SUFFICES ASSUME RoutesInv PROVE Sound(Seen)
  OBVIOUS
<1>1. ASSUME NEW route \in Seen PROVE WellFormed(route.path)
  <2>1. PICK r \in Tried : route \in RoutesOf(r)
    BY DEF Seen
  <2>2. contract \in Contracts
    BY <2>1 DEF RoutesInv
  <2>3. r \in DOMAIN Routers
    BY <2>1, <2>2, ContractsAssumption DEF RoutesInv
  <2> QED
    BY <2>1, <2>3, RoutersAssumption DEF RoutesOf
<1> QED
  BY <1>1 DEF Sound, RoutesInv

LEMMA SeenApart == RoutesInv /\ NamedOnce => Apart
<1> SUFFICES ASSUME RoutesInv, NamedOnce PROVE Apart
  OBVIOUS
<1>1. \A route \in Seen : NamesOnce(route.path)
  BY DEF NamedOnce, Seen, Tried
<1> QED
  BY <1>1, RoutesInvSound, NamesApart

LEMMA RoutesInvariance == Spec => []RoutesInv
<1>1. Init => RoutesInv
  BY RoutesInvInit
<1>2. RoutesInv /\ [Next]_vars => RoutesInv'
  BY RoutesInvNext
<1> QED
  BY <1>1, <1>2, PTL DEF Spec

\* Whatever routers have been mounted, in whatever order and however far, the
\* backtracking walk of the server's router ends at the most special path a request
\* fits, and if none of their paths repeats a name, the handler there gets the
\* parameters of its own path and no others.
THEOREM BestDispatch == Spec => []DispatchIsBest
<1>1. RoutesInv => DispatchIsBest
  BY RoutesInvSound, SeenApart, SoundDispatch
<1> QED
  BY <1>1, RoutesInvariance, PTL

\* The one entry of a node and a method, as a request that fits its best node sees it
LEMMA OneEntry ==
  ASSUME NEW routes, Sound(routes), NEW a \in table, NEW b \in table,
         a.node = b.node, a.method = b.method
  PROVE  a = b
  BY DEF Sound, Tree, Filled

LEMMA EntryFacts ==
  ASSUME NEW routes, Sound(routes), NEW entry \in table
  PROVE  entry.route \in routes /\ entry.method = entry.route.method
           /\ entry.node = Leaf(entry.route.path)
  BY DEF Sound, Tree, Filled

LEMMA Decoding ==
  ASSUME NEW value, value \notin Separators, NEW coded \in BOOLEAN,
         coded => value \notin Malformed
  PROVE  DecodeSegment([text |-> value, encoded |-> coded])
           = [text |-> value, encoded |-> FALSE]
<1> DEFINE segment == [text |-> value, encoded |-> coded]
<1>1. segment.text = value /\ segment.encoded = coded
  OBVIOUS
<1>2. CASE coded
  <2> HIDE DEF segment
  <2>3. segment = [text |-> segment.text, encoded |-> segment.encoded]
    BY DEF segment
  <2>1. [segment EXCEPT !.encoded = FALSE] = [text |-> value, encoded |-> FALSE]
    <3>1. ASSUME NEW flag
          PROVE  [segment EXCEPT !.encoded = flag] = [text |-> segment.text, encoded |-> flag]
      BY <2>3
    <3>2. [segment EXCEPT !.encoded = FALSE] = [text |-> segment.text, encoded |-> FALSE]
      BY <3>1, Zenon
    <3> QED
      BY <1>1, <3>2
  <2>2. DecodeSegment(segment) = [segment EXCEPT !.encoded = FALSE]
    BY <1>1, <1>2 DEF DecodeSegment
  <2> QED
    BY <2>1, <2>2 DEF segment
<1>3. CASE ~coded
  <2>1. segment = [text |-> value, encoded |-> FALSE]
    BY <1>3
  <2> HIDE DEF segment
  <2>2. DecodeSegment(segment) = segment
    BY <1>1, <1>3 DEF DecodeSegment
  <2> QED
    BY <2>1, <2>2 DEF segment
<1> QED
  BY <1>2, <1>3

LEMMA OneString ==
  ASSUME NEW string
  PROVE  FlattenSeq(<<string>>) = string
<1> DEFINE IsFlat(f) ==
             f = [i \in 1 .. 1 |->
                    IF i = 1 THEN <<string>>[i] ELSE f[i - 1] \o <<string>>[i]]
           F == CHOOSE f : IsFlat(f)
<1>1. IsFlat([i \in 1 .. 1 |-> string])
  OBVIOUS
<1>2. IsFlat(F)
  <2> HIDE DEF IsFlat
  <2> QED
    BY <1>1
<1>3. F[1] = string
  <2> HIDE DEF F
  <2> QED
    BY <1>2
<1>4. FlattenSeq(<<string>>) = F[Len(<<string>>)]
  BY DEF FlattenSeq
<1> HIDE DEF F
<1> QED
  BY <1>3, <1>4

\* A segment that is one piece is the value of its parameter, or as it was.
LEMMA FillFacts ==
  ASSUME NEW segment, segment \notin DOMAIN Embedding, NEW params
  PROVE  Fill(PiecesOf(segment), params) =
           IF segment.param THEN [text |-> params[segment.text],
                                  encoded |-> params[segment.text] \in Escaped]
           ELSE [text |-> segment.text, encoded |-> FALSE]
<1> DEFINE piece == [hole |-> segment.param, text |-> segment.text]
           pieces == <<piece>>
           texts == [k \in DOMAIN pieces |->
                       IF pieces[k].hole THEN params[pieces[k].text] ELSE pieces[k].text]
           value == IF segment.param THEN params[segment.text] ELSE segment.text
           coded == \E k \in DOMAIN pieces :
                      pieces[k].hole /\ params[pieces[k].text] \in Escaped
<1>1. PiecesOf(segment) = pieces
  BY DEF PiecesOf
<1>2. DOMAIN pieces = {1} /\ pieces[1].hole = segment.param /\ pieces[1].text = segment.text
  OBVIOUS
<1> HIDE DEF pieces
<1>3. texts = <<value>>
  <2>1. texts = [k \in {1} |-> value]
    BY <1>2
  <2>2. <<value>> = [k \in {1} |-> value]
    <3> HIDE DEF value
    <3> QED
      OBVIOUS
  <2> QED
    BY <2>1, <2>2
<1>4. FlattenSeq(texts) = value
  BY <1>3, OneString
<1>5. coded <=> (segment.param /\ params[segment.text] \in Escaped)
  BY <1>2
<1>6. Fill(pieces, params) = [text |-> value, encoded |-> coded]
  <2>1. Fill(pieces, params) = [text |-> FlattenSeq(texts), encoded |-> coded]
    BY DEF Fill
  <2> HIDE DEF texts, coded, value
  <2> QED
    BY <1>4, <2>1
<1>7. CASE segment.param
  <2>1. Fill(pieces, params) = [text |-> value, encoded |-> params[segment.text] \in Escaped]
    <3> DEFINE escaped == params[segment.text] \in Escaped
    <3>1. coded \in BOOLEAN /\ escaped \in BOOLEAN /\ (coded <=> escaped)
      BY <1>5, <1>7
    <3> HIDE DEF value, coded, escaped
    <3>2. coded = escaped
      BY <3>1
    <3> QED
      BY <1>6, <3>2 DEF escaped
  <2>2. value = params[segment.text]
    BY <1>7
  <2> HIDE DEF value
  <2> QED
    BY <1>1, <1>7, <2>1, <2>2
<1>8. CASE ~segment.param
  <2>1. Fill(pieces, params) = [text |-> value, encoded |-> FALSE]
    <3>1. coded \in BOOLEAN /\ ~coded
      BY <1>5, <1>8
    <3> HIDE DEF value, coded
    <3>2. coded = FALSE
      BY <3>1
    <3> QED
      BY <1>6, <3>2
  <2>2. value = segment.text
    BY <1>8
  <2> HIDE DEF value
  <2> QED
    BY <1>1, <1>8, <2>1, <2>2
<1> QED
  BY <1>7, <1>8

LEMMA PlainNames ==
  ASSUME NEW path, WellFormed(path), ~Embeds(path)
  PROVE  PathParameterNames(path) = {path[i].text : i \in {j \in 1 .. Len(path) :
                                                            path[j].param}}
<1> DEFINE Named(i) == {piece.text : piece \in {q \in ToSet(PiecesOf(path[i])) : q.hole}}
<1>1. ASSUME NEW i \in 1 .. Len(path)
      PROVE  Named(i) = IF path[i].param THEN {path[i].text} ELSE {}
  <2> DEFINE piece == [hole |-> path[i].param, text |-> path[i].text]
  <2>1. PiecesOf(path[i]) = <<piece>>
    BY DEF PiecesOf, Embeds
  <2>2. ToSet(<<piece>>) = {piece}
    <3> HIDE DEF piece
    <3> QED
      BY DEF ToSet
  <2>3. piece.hole = path[i].param /\ piece.text = path[i].text
    OBVIOUS
  <2>4. Named(i) = {q.text : q \in {q \in {piece} : q.hole}}
    BY <2>1, <2>2
  <2> HIDE DEF piece, Named
  <2> QED
    BY <2>3, <2>4
<1>2. PathParameterNames(path) = UNION {Named(i) : i \in 1 .. Len(path)}
  BY DEF PathParameterNames
<1> HIDE DEF Named
<1> QED
  BY <1>1, <1>2

\* The path an operation's client builds, when the router would not keep a value
\* encoded, leads to the node of the operation and binds the arguments.
LEMMA UrlFacts ==
  ASSUME NEW route, WellFormed(route.path), ~Embeds(route.path), NEW params,
         DOMAIN params = PathParameterNames(route.path),
         \A name \in DOMAIN params : params[name] \in Passable
  PROVE  LET url == CreatePath(route.path, params)
         IN  /\ IsSequence(url) /\ ToSegments(url) = url
             /\ Fits(Leaf(route.path), url)
             /\ Bindings(route, url) = Unchanged(params)
<1> DEFINE path == route.path
           url == CreatePath(path, params)
           all == {i \in DOMAIN url : url[i].text # ""}
           T == {url[i] : i \in DOMAIN url}
           E(i) == Fill(PiecesOf(path[i]), params)
<1>1. Len(path) \in Nat /\ DOMAIN path = 1 .. Len(path)
  BY PathFacts
<1>2. /\ url \in Seq(T) /\ Len(url) = Len(path) /\ DOMAIN url = 1 .. Len(path)
      /\ \A i \in 1 .. Len(path) :
           url[i] = Fill(PiecesOf(path[i]), params)
  <2>1. url = [i \in 1 .. Len(path) |-> E(i)]
    BY DEF CreatePath
  <2> HIDE DEF url, E
  <2>2. DOMAIN url = 1 .. Len(path) /\ \A i \in 1 .. Len(path) : url[i] = E(i)
    BY <2>1
  <2>3. url \in [1 .. Len(path) -> T]
    BY <2>1, <2>2
  <2>4. url \in Seq(T) /\ Len(url) = Len(path)
    <3> HIDE DEF T
    <3> QED
      BY <1>1, <2>3
  <2> QED
    BY <2>2, <2>4 DEF E
<1> HIDE DEF url
<1>3. IsSequence(url)
  BY <1>2 DEF IsSequence
<1>30. DOMAIN params = {path[i].text : i \in {j \in 1 .. Len(path) : path[j].param}}
  BY PlainNames
<1>4. ASSUME NEW i \in 1 .. Len(path)
      PROVE  IF path[i].param
               THEN /\ path[i].text \in DOMAIN params
                    /\ url[i] = [text |-> params[path[i].text],
                                 encoded |-> params[path[i].text] \in Escaped]
               ELSE url[i] = [text |-> path[i].text, encoded |-> FALSE]
  <2>1. path[i].param => path[i].text \in DOMAIN params
    BY <1>30
  <2>2. path[i] \notin DOMAIN Embedding
    BY DEF Embeds
  <2> HIDE DEF path
  <2> QED
    BY <1>2, <2>1, <2>2, FillFacts
<1>20. ASSUME NEW i \in 1 .. Len(path)
       PROVE  /\ path[i].param => /\ path[i].text \in DOMAIN params
                                  /\ url[i].text = params[path[i].text]
              /\ ~path[i].param => url[i].text = path[i].text /\ ~url[i].encoded
  <2>1. CASE path[i].param
    <3>1. /\ path[i].text \in DOMAIN params
          /\ url[i] = [text |-> params[path[i].text],
                       encoded |-> params[path[i].text] \in Escaped]
      BY <1>4, <2>1
    <3> QED
      BY <2>1, <3>1
  <2>2. CASE ~path[i].param
    <3>1. url[i] = [text |-> path[i].text, encoded |-> FALSE]
      BY <1>4, <2>2
    <3> QED
      BY <2>2, <3>1
  <2> QED
    BY <2>1, <2>2
<1>5. \A i \in DOMAIN url : url[i].text # ""
  <2> SUFFICES ASSUME NEW i \in 1 .. Len(path) PROVE url[i].text # ""
    BY <1>2
  <2>1. CASE path[i].param
    BY <1>20, <2>1 DEF Passable
  <2>2. CASE ~path[i].param
    BY <1>1, <1>20, <2>2 DEF WellFormed
  <2> QED
    BY <2>1, <2>2
<1>6. ToSegments(url) = url
  <2>1. DOMAIN url \subseteq all
    BY <1>5
  <2>2. ToSegments(url) = Selected(url, all)
    BY DEF ToSegments
  <2> HIDE DEF all, T
  <2> QED
    BY <1>2, <2>1, <2>2, SelectedFacts
<1>7. Fits(Leaf(path), url)
  <2>1. /\ Len(Leaf(path)) = Len(path)
        /\ \A i \in 1 .. Len(path) :
             Leaf(path)[i] = IF path[i].param THEN Wildcard ELSE path[i]
    <3>1. Len(path) \in 0 .. Len(path)
      BY <1>1
    <3> QED
      BY <3>1, NodeFacts DEF Leaf
  <2>2. ASSUME NEW i \in 1 .. Len(path)
        PROVE  \/ Leaf(path)[i].param
               \/ ~url[i].encoded /\ url[i].text = Leaf(path)[i].text
    <3>1. CASE path[i].param
      BY <2>1, <3>1, WildcardFacts
    <3>2. CASE ~path[i].param
      BY <1>20, <2>1, <3>2
    <3> QED
      BY <3>1, <3>2
  <2> QED
    BY <1>2, <2>1, <2>2 DEF Fits
<1> DEFINE own == {NameOf(path[i]) : i \in {j \in 1 .. Len(path) : path[j].param}}
           At(name) == CHOOSE i \in 1 .. Len(path) : path[i].param /\ NameOf(path[i]) = name
<1>8. own = DOMAIN params
  BY <1>30 DEF NameOf
<1>9. ASSUME NEW name \in own
      PROVE  DecodeSegment(url[At(name)]) = [text |-> params[name], encoded |-> FALSE]
  <2>1. At(name) \in 1 .. Len(path) /\ path[At(name)].param /\ NameOf(path[At(name)]) = name
    OBVIOUS
  <2> HIDE DEF At
  <2>2. name = path[At(name)].text
    BY <2>1 DEF NameOf
  <2> DEFINE value == params[name]
  <2>3. /\ url[At(name)] = [text |-> value, encoded |-> value \in Escaped]
        /\ value \in Passable
    BY <1>4, <2>1, <2>2
  <2>4. value \notin Separators /\ (value \in Escaped => value \notin Malformed)
    BY <2>3, EscapedAssumption DEF Passable
  <2> HIDE DEF value
  <2>5. DecodeSegment(url[At(name)]) = [text |-> value, encoded |-> FALSE]
    <3> DEFINE coded == value \in Escaped
    <3>1. /\ coded \in BOOLEAN /\ url[At(name)] = [text |-> value, encoded |-> coded]
          /\ coded => value \notin Malformed
      BY <2>3, <2>4
    <3> HIDE DEF coded
    <3> QED
      BY <2>4, <3>1, Decoding
  <2> QED
    BY <2>5 DEF value
<1>10. Bindings(route, url) = [name \in own |-> DecodeSegment(url[At(name)])]
  BY DEF Bindings
<1>11. Bindings(route, url) = [name \in DOMAIN params |-> [text |-> params[name], encoded |-> FALSE]]
  <2> HIDE DEF own, At
  <2> QED
    BY <1>8, <1>9, <1>10
<1> QED
  BY <1>3, <1>6, <1>7, <1>11 DEF url, Unchanged

LEMMA ClientReaches == RoutesInv => ClientReachesItsOperation
<1> SUFFICES ASSUME RoutesInv, NEW r \in mounted, NEW route \in RoutesOf(r),
                    NEW params \in [PathParameterNames(route.path) -> Values]
    PROVE  LET url == CreatePath(route.path, params)
               match == Match(route.method, url)
           IN  \/ PathParameterError(route.path, params)
               \/ \E name \in DOMAIN params : params[name] \notin
                    Passable \cup DotSegments
               \/ Embeds(route.path)
               \/ \E i \in 1 .. Len(url) : ~route.path[i].param /\ url[i].text \in DotSegments
               \/ \E node \in BestNodes(url) : node # Leaf(route.path)
               \/ /\ match.found
                  /\ match.route = route
                  /\ NamedOnce => match.params = Unchanged(params)
                  /\ \A i \in 1 .. Len(url) : url[i].text \notin DotSegments
  BY DEF ClientReachesItsOperation
<1> DEFINE path == route.path
           url == CreatePath(path, params)
           match == Match(route.method, url)
           given == Unchanged(params)
<1> HIDE DEF url, match, given
<1> SUFFICES ASSUME ~PathParameterError(path, params),
                    \A name \in DOMAIN params : params[name] \in Passable \cup DotSegments,
                    ~Embeds(path),
                    \A i \in 1 .. Len(url) : ~path[i].param => url[i].text \notin DotSegments,
                    \A node \in BestNodes(url) : node = Leaf(path)
             PROVE  /\ match.found /\ match.route = route
                    /\ NamedOnce => match.params = given
                    /\ \A i \in 1 .. Len(url) : url[i].text \notin DotSegments
  BY DEF url, match, given
<1>1. Sound(Seen) /\ route \in Seen /\ WellFormed(path)
  <2>1. route \in Seen
    BY DEF Seen, Tried
  <2> QED
    BY <2>1, RoutesInvSound DEF Sound
<1>2. \A name \in DOMAIN params : params[name] \in Passable /\ params[name] \notin DotSegments
  BY DEF PathParameterError
<1>3. DOMAIN params = PathParameterNames(path)
  OBVIOUS
<1>4. /\ IsSequence(url) /\ ToSegments(url) = url
      /\ Fits(Leaf(path), url)
      /\ Bindings(route, url) = given
  BY <1>1, <1>2, <1>3, UrlFacts DEF url, given
<1>5. \A i \in 1 .. Len(url) : url[i].text \notin DotSegments
  <2> SUFFICES ASSUME NEW i \in 1 .. Len(url), path[i].param
               PROVE  url[i].text \notin DotSegments
    OBVIOUS
  <2>1. Len(path) \in Nat /\ Len(url) = Len(path)
    BY <1>1, PathFacts DEF CreatePath, url
  <2>2. i \in 1 .. Len(path) /\ path[i] \notin DOMAIN Embedding
    BY <2>1 DEF Embeds
  <2>3. path[i].text \in DOMAIN params
    BY <1>1, <1>3, <2>2, PlainNames
  <2>4. url[i] = Fill(PiecesOf(path[i]), params)
    BY <2>2 DEF CreatePath, url
  <2>5. url[i] = [text |-> params[path[i].text],
                  encoded |-> params[path[i].text] \in Escaped]
    <3> HIDE DEF path
    <3> QED
      BY <2>2, <2>4, FillFacts
  <2>6. url[i].text = params[path[i].text]
    BY <2>5
  <2> QED
    BY <1>2, <2>3, <2>6
<1>6. PICK entry \in table : entry.route = route
  BY DEF RoutesInv
<1>7. entry.node = Leaf(path) /\ entry.method = route.method
  BY <1>1, <1>6, EntryFacts
<1>8. Leaf(path) \in BestNodes(url)
  <2>1. BestNodes(url) # {}
    <3> DEFINE T == {url[i] : i \in DOMAIN url}
               w == Traverse(url)
    <3>1. url \in Seq(T)
      BY <1>4 DEF IsSequence
    <3> HIDE DEF T
    <3>2. BestNodes(url) = {} => ~Fits(entry.node, url)
      BY <1>1, <3>1, BestFacts
    <3> QED
      BY <1>4, <1>7, <3>2
  <2> QED
    BY <2>1
<1>9. entry \in BestAt(url, route.method)
  BY <1>7, <1>8 DEF BestAt
<1>10. /\ match.found <=> Serving(url, route.method) # {}
       /\ match.found => \E e \in Serving(url, route.method) : e.route = match.route
       /\ match.found /\ NamedOnce => match.params = Bindings(match.route, url)
  <2>1. LET S == ToSegments(url)
            found == Match(route.method, url)
        IN  /\ found.found <=> Serving(S, route.method) # {}
            /\ found.found => \E e \in Serving(S, route.method) : e.route = found.route
            /\ found.found /\ Apart => found.params = Bindings(found.route, S)
    BY <1>1, <1>4, MatchFacts
  <2> QED
    BY <1>4, <2>1, SeenApart DEF match
<1>11. Serving(url, route.method) = BestAt(url, route.method)
  BY <1>9 DEF Serving
<1>12. match.found
  BY <1>9, <1>10, <1>11
<1>13. match.route = route
  <2>1. PICK e \in BestAt(url, route.method) : e.route = match.route
    BY <1>10, <1>11, <1>12
  <2>2. e \in table /\ e.node = entry.node /\ e.method = entry.method
    BY <1>7, <2>1 DEF BestAt
  <2>3. e = entry
    BY <1>1, <2>2, OneEntry
  <2> QED
    BY <1>6, <2>1, <2>3
<1>14. NamedOnce => match.params = Bindings(route, url)
  BY <1>10, <1>12, <1>13
<1> QED
  BY <1>4, <1>5, <1>12, <1>13, <1>14

\* What serves a request is a registered entry whose node the request fits best.
LEMMA ServingFacts ==
  ASSUME NEW S, NEW method, NEW entry \in Serving(S, method)
  PROVE  /\ entry \in table /\ Fits(entry.node, S) /\ entry.node \in BestNodes(S)
         /\ \A other \in table : Fits(other.node, S) =>
              entry.node = other.node \/ MoreSpecial(entry.node, other.node)
         /\ entry.method # "HEAD" =>
              entry.method = IF method = "HEAD" THEN "GET" ELSE method
<1>1. /\ entry \in table /\ entry.node \in BestNodes(S)
      /\ entry.method = method \/ (method = "HEAD" /\ entry.method = "GET")
  BY DEF Serving, BestAt
<1>2. /\ Fits(entry.node, S)
      /\ \A node \in {e.node : e \in table} : Fits(node, S) =>
           entry.node = node \/ MoreSpecial(entry.node, node)
  BY <1>1 DEF BestNodes
<1> QED
  BY <1>1, <1>2

\* A route whose node a request fits matches the request segment by segment.
LEMMA RouteFits ==
  ASSUME NEW routes, Sound(routes), NEW entry \in table, NEW S, Fits(entry.node, S)
  PROVE  LET path == entry.route.path
         IN  /\ Len(S) = Len(path) /\ Len(path) \in Nat
             /\ \A i \in 1 .. Len(path) :
                  path[i].param \/ (~S[i].encoded /\ S[i].text = path[i].text)
<1> DEFINE path == entry.route.path
           node == entry.node
<1>1. /\ Len(node) = Len(path) /\ Len(path) \in Nat
      /\ \A i \in 1 .. Len(node) :
           node[i].param = path[i].param /\ (~path[i].param => node[i] = path[i])
  BY TableFacts
<1>2. /\ Len(node) = Len(S)
      /\ \A i \in 1 .. Len(node) :
           node[i].param \/ (~S[i].encoded /\ S[i].text = node[i].text)
  BY DEF Fits
<1> HIDE DEF path, node
<1>3. ASSUME NEW i \in 1 .. Len(path)
      PROVE  path[i].param \/ (~S[i].encoded /\ S[i].text = path[i].text)
  BY <1>1, <1>2
<1> QED
  BY <1>1, <1>2, <1>3 DEF path

LEMMA GuardsDo ==
  ASSUME RoutesInv, NEW request, IsSequence(request), NEW method
  PROVE  GuardsCover(request, method)
<1> DEFINE match == Match(method, request)
           path == match.route.path
           S == ToSegments(request)
<1> SUFFICES ASSUME match.found
             PROVE  /\ GuardMatches(path, FALSE, request)
                    /\ \A n \in 0 .. Len(path) :
                         (\A i \in 1 .. n : ~path[i].param) =>
                           GuardMatches(SubSeq(path, 1, n), TRUE, request)
  BY DEF GuardsCover
<1>1. Sound(Seen)
  BY RoutesInvSound
<1>2. PICK entry \in Serving(S, method) : entry.route = match.route
  BY <1>1, MatchFacts
<1>3. entry \in table /\ Fits(entry.node, S)
  BY ServingFacts
<1> HIDE DEF match, S
<1>4. /\ Len(S) = Len(path) /\ Len(path) \in Nat
      /\ \A i \in 1 .. Len(path) :
           path[i].param \/ (~S[i].encoded /\ S[i].text = path[i].text)
  BY <1>1, <1>2, <1>3, RouteFits
<1>5. WellFormed(path)
  BY <1>1, <1>2, <1>3, TableFacts
<1> HIDE DEF path
<1>6. GuardMatches(path, FALSE, request)
  BY <1>4 DEF GuardMatches, S
<1>7. ASSUME NEW n \in 0 .. Len(path), \A i \in 1 .. n : ~path[i].param
      PROVE  GuardMatches(SubSeq(path, 1, n), TRUE, request)
  <2>1. path \in Seq({path[i] : i \in DOMAIN path})
    BY <1>5, PathFacts
  <2>2. /\ Len(SubSeq(path, 1, n)) = n
        /\ \A i \in 1 .. n : SubSeq(path, 1, n)[i] = path[i]
    BY <1>4, <2>1
  <2>3. \A i \in 1 .. n : i \in 1 .. Len(path)
    BY <1>4
  <2> HIDE DEF S
  <2>4. Len(S) >= n
    BY <1>4
  <2> QED
    BY <1>4, <1>7, <2>2, <2>3, <2>4 DEF GuardMatches, S
<1> QED
  BY <1>6, <1>7

\* Two routes of one tree that a request fits, on nodes the first of which is more
\* special: their paths first differ where the first is static and the second is not.
LEMMA FirstDifference ==
  ASSUME NEW routes, Sound(routes), NEW S, NEW one \in table, NEW two \in table,
         Fits(one.node, S), Fits(two.node, S), MoreSpecial(one.node, two.node)
  PROVE  LET a == one.route.path
             b == two.route.path
             differing == {i \in 1 .. Len(a) : a[i] # b[i]}
             backwards == {i \in 1 .. Len(b) : b[i] # a[i]}
         IN  /\ Len(a) = Len(S) /\ Len(b) = Len(S) /\ Len(S) \in Nat
             /\ differing # {} /\ backwards = differing
             /\ Least(differing) \in 1 .. Len(a)
             /\ ~a[Least(differing)].param /\ b[Least(differing)].param
<1> DEFINE a == one.route.path
           b == two.route.path
           p == one.node
           q == two.node
           D == {i \in 1 .. Len(p) : p[i] # q[i]}
           d == Least(D)
           differing == {i \in 1 .. Len(a) : a[i] # b[i]}
           backwards == {i \in 1 .. Len(b) : b[i] # a[i]}
<1>1. /\ WellFormed(a) /\ WellFormed(b)
      /\ Len(p) = Len(a) /\ Len(q) = Len(b) /\ Len(a) \in Nat /\ Len(b) \in Nat
      /\ p \in Seq({Wildcard} \cup {a[i] : i \in DOMAIN a})
      /\ q \in Seq({Wildcard} \cup {b[i] : i \in DOMAIN b})
  BY TableFacts
<1>2. Len(p) = Len(S) /\ Len(q) = Len(S)
  BY DEF Fits
<1>3. p # q /\ ~p[d].param
  BY DEF MoreSpecial
<1>4. D # {} /\ D \in SUBSET Nat
  BY <1>1, <1>2, <1>3
<1>5. d \in D /\ \A k \in D : d <= k
  BY <1>4, LeastOne
<1>6. /\ \A i \in 1 .. Len(S) :
           /\ p[i].param = a[i].param /\ q[i].param = b[i].param
           /\ a[i].param => p[i] = Wildcard /\ NameAt(p, i) = NameOf(a[i])
           /\ b[i].param => q[i] = Wildcard /\ NameAt(q, i) = NameOf(b[i])
           /\ ~a[i].param => p[i] = a[i] /\ a[i] = Static(a[i].text)
           /\ ~b[i].param => q[i] = b[i] /\ b[i] = Static(b[i].text)
  <2>1. \A i \in 1 .. Len(p) :
           /\ p[i].param = a[i].param
           /\ a[i].param => p[i] = Wildcard /\ NameAt(p, i) = NameOf(a[i])
           /\ ~a[i].param => p[i] = a[i] /\ a[i] = Static(a[i].text)
    BY TableFacts
  <2>2. \A i \in 1 .. Len(q) :
           /\ q[i].param = b[i].param
           /\ b[i].param => q[i] = Wildcard /\ NameAt(q, i) = NameOf(b[i])
           /\ ~b[i].param => q[i] = b[i] /\ b[i] = Static(b[i].text)
    BY TableFacts
  <2> HIDE DEF p, q, a, b
  <2> QED
    BY <1>2, <2>1, <2>2
<1> HIDE DEF d
<1>7. d \in 1 .. Len(S) /\ p[d] # q[d] /\ ~a[d].param
  BY <1>2, <1>3, <1>5, <1>6
<1>8. b[d].param
  <2> SUFFICES ASSUME ~b[d].param PROVE FALSE
    OBVIOUS
  <2>1. S[d].text = p[d].text /\ S[d].text = q[d].text
    <3>1. d \in 1 .. Len(p) /\ d \in 1 .. Len(q) /\ ~p[d].param /\ ~q[d].param
      BY <1>2, <1>6, <1>7
    <3> HIDE DEF p, q
    <3>2. /\ \A i \in 1 .. Len(p) : p[i].param \/ (~S[i].encoded /\ S[i].text = p[i].text)
          /\ \A i \in 1 .. Len(q) : q[i].param \/ (~S[i].encoded /\ S[i].text = q[i].text)
      BY DEF Fits, p, q
    <3> QED
      BY <3>1, <3>2
  <2>2. p[d] = Static(p[d].text) /\ q[d] = Static(q[d].text)
    BY <1>6, <1>7
  <2> QED
    BY <1>7, <2>1, <2>2
<1>9. a[d] # b[d]
  BY <1>7, <1>8
<1>10. ASSUME NEW k \in 1 .. Len(S), k < d PROVE a[k] = b[k]
  <2>1. p[k] = q[k]
    BY <1>2, <1>5, <1>10
  <2>2. CASE ~a[k].param
    BY <1>6, <2>1, <2>2
  <2>3. CASE a[k].param
    <3>1. b[k].param /\ NameAt(p, k) = NameOf(a[k]) /\ NameAt(q, k) = NameOf(b[k])
      BY <1>6, <2>1, <2>3
    <3>2. \A j \in 1 .. k - 1 : p[j] = q[j]
      BY <1>2, <1>5, <1>7, <1>10
    <3>3. NameAt(p, k) = NameAt(q, k)
      <4>1. [j \in 1 .. k - 1 |-> p[j]] = [j \in 1 .. k - 1 |-> q[j]]
        BY <3>2
      <4> QED
        BY <4>1 DEF NameAt
    <3>4. NameOf(a[k]) = NameOf(b[k])
      BY <3>1, <3>3
    <3>5. a[k].text = b[k].text
      BY <3>4 DEF NameOf
    <3>6. a[k] = Param(a[k].text) /\ b[k] = Param(b[k].text)
      <4>1. k \in DOMAIN a /\ k \in DOMAIN b
        BY <1>1, <1>2, PathFacts
      <4> QED
        BY <1>1, <2>3, <3>1, <4>1, WildcardFacts DEF WellFormed
    <3> QED
      BY <3>5, <3>6
  <2> QED
    BY <2>2, <2>3
<1>11. differing = backwards
  BY <1>1, <1>2
<1>12. differing \in SUBSET Nat /\ d \in differing
  BY <1>1, <1>2, <1>7, <1>9
<1>13. Least(differing) = d
  <2>1. Least(differing) \in differing /\ \A k \in differing : Least(differing) <= k
    BY <1>12, LeastOne
  <2>2. ~(Least(differing) < d)
    BY <1>1, <1>2, <1>10, <2>1
  <2>3. Least(differing) <= d /\ Least(differing) \in Nat /\ d \in Nat
    BY <1>12, <2>1
  <2> HIDE DEF differing
  <2> QED
    BY <2>2, <2>3
<1>14. Least(differing) \in 1 .. Len(a)
  BY <1>1, <1>2, <1>7, <1>13
<1> HIDE DEF a, b, differing, backwards
<1> QED
  BY <1>1, <1>2, <1>7, <1>8, <1>11, <1>12, <1>13, <1>14 DEF a, b, differing, backwards

LEMMA HonoDoes ==
  ASSUME RoutesInv, NEW r \in mounted, mounted = {r}, failed = << >>,
         NEW request, IsSequence(request), NEW method
  PROVE  HonoAgrees(r, request, method)
<1> DEFINE match == Match(method, request)
           S == ToSegments(request)
           matching == {route \in RoutesOf(r) : HonoMatches(route, method, request)}
           First(m) == \A other \in matching \ {m} : RouteBefore(m, other)
<1> SUFFICES ASSUME match.found, match.route.method # "HEAD", request = S,
                    SpelledOut(r, request)
             PROVE  HonoDispatch(r, method, request) = [found |-> TRUE, route |-> match.route]
  BY DEF HonoAgrees
<1>1. Sound(Seen)
  BY RoutesInvSound
<1>2. PICK entry \in Serving(S, method) : entry.route = match.route
  BY <1>1, MatchFacts
<1>3. /\ entry \in table /\ Fits(entry.node, S)
      /\ \A other \in table : Fits(other.node, S) =>
           entry.node = other.node \/ MoreSpecial(entry.node, other.node)
      /\ entry.method # "HEAD" =>
           entry.method = IF method = "HEAD" THEN "GET" ELSE method
  BY ServingFacts
<1>4. \A i \in 1 .. Len(request) : request[i].text # ""
  <2> DEFINE T == {request[i] : i \in DOMAIN request}
             kept == {i \in DOMAIN request : request[i].text # ""}
             some == {request[i] : i \in DOMAIN request \cap kept}
  <2>1. request \in Seq(T)
    BY DEF IsSequence
  <2>2. Selected(request, kept) \in Seq(some)
    <3> HIDE DEF T, kept
    <3> QED
      BY <2>1, SelectedFacts
  <2>3. S = Selected(request, kept)
    BY DEF ToSegments
  <2>4. \A x \in some : x.text # ""
    OBVIOUS
  <2> HIDE DEF S, some, kept
  <2>5. request \in Seq(some)
    BY <2>2, <2>3
  <2>6. \A i \in 1 .. Len(request) : request[i] \in some
    BY <2>5
  <2> QED
    BY <2>4, <2>6
<1> DEFINE m == match.route
<1> HIDE DEF match, S
<1>5. /\ m \in RoutesOf(r) /\ entry.method = m.method /\ entry.node = Leaf(m.path)
  <2>1. Seen = RoutesOf(r)
    <3>1. Tried = {r}
      BY DEF Tried
    <3> QED
      BY <3>1 DEF Seen
  <2> QED
    BY <1>1, <1>2, <1>3, <2>1, EntryFacts
<1>6. m \in matching
  <2>1. /\ Len(S) = Len(m.path) /\ Len(m.path) \in Nat
        /\ \A i \in 1 .. Len(m.path) :
             m.path[i].param \/ (~S[i].encoded /\ S[i].text = m.path[i].text)
    BY <1>1, <1>2, <1>3, RouteFits
  <2>2. m.method = IF method = "HEAD" THEN "GET" ELSE method
    BY <1>3, <1>5
  <2> HIDE DEF m
  <2>3. HonoMatches(m, method, request)
    BY <1>4, <2>1, <2>2 DEF HonoMatches
  <2> QED
    BY <1>5, <2>3
<1>7. ASSUME NEW other \in matching, other # m
      PROVE  RouteBefore(m, other) /\ ~RouteBefore(other, m)
  <2>1. PICK e \in table : e.route = other
    BY DEF RoutesInv
  <2>2. e.node = Leaf(other.path) /\ e.method = other.method
    BY <1>1, <2>1, EntryFacts
  <2>3. /\ other.method = IF method = "HEAD" THEN "GET" ELSE method
        /\ Len(S) = Len(other.path)
        /\ \A i \in 1 .. Len(S) : other.path[i].param \/ S[i].text = other.path[i].text
    BY DEF HonoMatches
  <2>30. ASSUME NEW i \in 1 .. Len(S)
         PROVE  other.path[i].param \/ (~S[i].encoded /\ S[i].text = other.path[i].text)
    <3> SUFFICES ASSUME ~other.path[i].param PROVE ~S[i].encoded
      BY <2>3
    <3>0. WellFormed(other.path) /\ i \in 1 .. Len(other.path)
      <4>1. WellFormed(e.route.path)
        BY <1>1, TableFacts
      <4>2. Len(S) = Len(other.path)
        BY <2>3
      <4>3. i \in 1 .. Len(other.path)
        BY <4>2
      <4>4. WellFormed(other.path)
        BY <2>1, <4>1
      <4> QED
        BY <4>3, <4>4
    <3>1. other.path[i] = Static(S[i].text)
      <4> DEFINE path == other.path
      <4>1. WellFormed(path) /\ ~path[i].param
        BY <3>0
      <4>2. i \in DOMAIN path
        BY <3>0, PathFacts
      <4> HIDE DEF path
      <4>3. path[i] = Static(path[i].text)
        <5>1. path[i] = Static(path[i].text) \/ path[i] = Param(path[i].text)
          BY <4>1, <4>2 DEF WellFormed
        <5>2. Param(path[i].text).param = TRUE
          BY DEF Param
        <5> QED
          BY <4>1, <5>1, <5>2
      <4>4. other.path[i] = Static(other.path[i].text)
        BY <4>3 DEF path
      <4>5. other.path[i].text = S[i].text
        BY <2>3
      <4> QED
        BY <4>4, <4>5
    <3>2. i \in DOMAIN request /\ i \in DOMAIN other.path
      <4>1. request \in Seq({request[k] : k \in DOMAIN request})
        BY DEF IsSequence
      <4>2. DOMAIN request = 1 .. Len(request)
        BY <4>1
      <4> QED
        BY <3>0, <4>2, SegmentFacts
    <3> QED
      BY <3>1, <3>2 DEF SpelledOut
  <2>4. Fits(e.node, S)
    <3>1. /\ Len(e.node) = Len(other.path)
          /\ \A i \in 1 .. Len(e.node) :
               /\ e.node[i].param = other.path[i].param
               /\ ~other.path[i].param => e.node[i] = other.path[i]
      BY <1>1, <2>1, TableFacts
    <3> QED
      BY <2>3, <2>30, <3>1 DEF Fits
  <2>5. e.node # entry.node
    <3> SUFFICES ASSUME e.node = entry.node PROVE FALSE
      OBVIOUS
    <3>1. e.method = entry.method
      BY <1>3, <1>5, <2>2, <2>3
    <3>2. e = entry
      BY <1>1, <1>3, <3>1, OneEntry
    <3> QED
      BY <1>2, <1>7, <2>1, <3>2
  <2>6. MoreSpecial(entry.node, e.node)
    BY <1>3, <2>4, <2>5
  <2> DEFINE a == m.path
             b == other.path
             differing == {i \in 1 .. Len(a) : a[i] # b[i]}
             backwards == {i \in 1 .. Len(b) : b[i] # a[i]}
  <2>7. /\ Len(a) = Len(S) /\ Len(b) = Len(S) /\ Len(S) \in Nat
        /\ differing # {} /\ backwards = differing
        /\ ~a[Least(differing)].param /\ b[Least(differing)].param
    <3>1. a = entry.route.path /\ b = e.route.path
      BY <1>2, <2>1
    <3> DEFINE x == entry.route.path
               y == e.route.path
               xy == {i \in 1 .. Len(x) : x[i] # y[i]}
               yx == {i \in 1 .. Len(y) : y[i] # x[i]}
    <3>2. /\ Len(x) = Len(S) /\ Len(y) = Len(S) /\ Len(S) \in Nat
          /\ xy # {} /\ yx = xy
          /\ ~x[Least(xy)].param /\ y[Least(xy)].param
      BY <1>1, <1>3, <2>4, <2>6, FirstDifference
    <3>3. a = x /\ b = y
      BY <3>1
    <3> HIDE DEF x, y, a, b
    <3>4. differing = xy /\ backwards = yx
      BY <3>3
    <3> HIDE DEF xy, yx, differing, backwards
    <3> QED
      BY <3>2, <3>3, <3>4
  <2> HIDE DEF m
  <2>8. RouteBefore(m, other)
    <3> HIDE DEF differing
    <3>1. SegmentBefore(a[Least(differing)], b[Least(differing)])
      BY <2>7 DEF SegmentBefore
    <3> QED
      BY <2>7, <3>1 DEF RouteBefore, differing
  <2>9. ~RouteBefore(other, m)
    <3>1. ~SegmentBefore(b[Least(differing)], a[Least(differing)])
      <4> HIDE DEF differing
      <4> QED
        BY <2>7 DEF SegmentBefore
    <3>2. RouteBefore(other, m) <=>
            \/ Len(b) < Len(a)
            \/ /\ Len(b) = Len(a)
               /\ IF backwards = {} THEN MethodPriority(other.method) < MethodPriority(m.method)
                  ELSE SegmentBefore(b[Least(backwards)], a[Least(backwards)])
      BY DEF RouteBefore
    <3> HIDE DEF differing, backwards
    <3> QED
      BY <2>7, <3>1, <3>2
  <2> QED
    BY <2>8, <2>9
<1> HIDE DEF m
<1>8. First(m)
  BY <1>7
<1>9. \A other \in matching : First(other) => other = m
  BY <1>6, <1>7
<1> HIDE DEF First
<1>10. (CHOOSE first \in matching : First(first)) = m
  BY <1>6, <1>8, <1>9
<1> HIDE DEF matching
<1>11. HonoDispatch(r, method, request) =
         IF matching = {} THEN NoMatch
         ELSE [found |-> TRUE, route |-> CHOOSE first \in matching : First(first)]
  BY DEF HonoDispatch, matching, First
<1> QED
  BY <1>6, <1>10, <1>11 DEF m

\* What the parts of the system make of the paths of a contract fits together: an
\* accepted contract mounts but for a parameter it gives two names itself, the URL
\* the client builds leads to its operation with the arguments given, and the guards
\* of middleware and the Hono routes read a path as the server's router does.  Not
\* claimed: that a parameter which is only part of a segment arrives (it does not,
\* see ClientReachesItsOperation), that the arguments do where a path repeats a name,
\* and that Hono agrees on static segments in percent-encoding, which it decodes.
THEOREM RoutesServed == Spec => []RoutesAreServed
<1>1. ASSUME RoutesInv PROVE ReadersAgree
  <2>1. ASSUME NEW request \in Requests, NEW method \in AllMethods
        PROVE  /\ GuardsCover(request, method)
               /\ \A r \in mounted : (mounted = {r} /\ failed = << >>) =>
                    HonoAgrees(r, request, method)
    <3>1. IsSequence(request)
      BY RequestsAssumption
    <3>2. GuardsCover(request, method)
      BY <1>1, <3>1, GuardsDo
    <3>3. \A r \in mounted : (mounted = {r} /\ failed = << >>) =>
            HonoAgrees(r, request, method)
      BY <1>1, <3>1, HonoDoes
    <3> QED
      BY <3>2, <3>3
  <2> QED
    BY <2>1 DEF ReadersAgree
<1>2. RoutesInv => AcceptedContractsMount
  BY DEF RoutesInv
<1>3. RoutesInv => RoutesAreServed
  BY <1>1, <1>2, ClientReaches DEF RoutesAreServed
<1> QED
  BY <1>3, RoutesInvariance, PTL

-----------------------------------------------------------------------------
(* The command line                                                        *)

\* The call a command makes can be aborted and is heeded, it has no timeout, and it
\* is aborted by the first interrupt and by nothing else; what has not been sent
\* has not been interrupted, and what is refused early cannot be.
CallOfCommand ==
  /\ interrupts \in {0, 1}
  /\ aborted = IF interrupts = 1 THEN "AbortError" ELSE "none"
  /\ phase # "unsent" => plan.signal /\ plan.honours
  /\ stage \in {"start", "body", "ready"} => phase = "unsent" /\ interrupts = 0
  /\ stage = "executing" => phase # "unsent"
  /\ outcome.kind = "early" => interrupts = 0

CommandInv ==
  IF chapter = "command" THEN CallOfCommand /\ ExitCodeTellsTheOutcome
  ELSE stage = "start"

LEMMA CommandInvInit == Init => IInv /\ CommandInv
<1> SUFFICES ASSUME Init PROVE IInv /\ CommandInv
  OBVIOUS
<1>1. CallInit /\ stage = "start" /\ interrupts = 0
  BY DEF Init, CommandInit
<1>2. IInv
  BY <1>1, InvInit
<1>3. CommandInv
  BY <1>1 DEF CallInit, CommandInv, CallOfCommand, ExitCodeTellsTheOutcome, Nothing
<1> QED
  BY <1>2, <1>3

\* A call that has got its signal and is settled without a word to its process
LEMMA CallEndsAlone ==
  ASSUME IInv, CommandInv, chapter = "command", stage = "executing",
         Cancellation \/ Server, UNCHANGED <<chapter, commandVars>>
  PROVE  IInv' /\ CommandInv'
<1>1. IInv'
  BY InvNext DEF CallNext
<1>2. UNCHANGED <<plan, aborted>> /\ phase # "unsent" /\ phase' # "unsent"
  BY DEF Cancellation, Server, FetchCancelled, BodyCancelled, FetchRejects,
     FetchAnswers, BodyEnds, BodyBreaks, Settle
<1>3. outcome' = outcome \/ outcome'.kind # "early"
  <2>1. \A code : NetworkError(code).kind # "early"
    BY DEF NetworkError
  <2>2. \A a : Process(a).kind # "early" /\ ParseError(a).kind # "early"
    BY DEF Process, Response, UnknownResponse, ParseError
  <2> QED
    BY <2>1, <2>2 DEF Cancellation, Server, FetchCancelled, BodyCancelled,
       FetchRejects, FetchAnswers, BodyEnds, BodyBreaks, Settle
<1>4. CallOfCommand'
  BY <1>2, <1>3 DEF CommandInv, CallOfCommand, commandVars
<1> QED
  BY <1>1, <1>4 DEF CommandInv, ExitCodeTellsTheOutcome, commandVars

\* What a command reports is what its call has come to.
LEMMA ReportTells ==
  ASSUME IInv, CommandInv, chapter = "command", Report, UNCHANGED chapter
  PROVE  IInv' /\ CommandInv'
<1>1. /\ stage = "executing" /\ phase = "settled" /\ stage' = "exited"
      /\ exitCode' = IF outcome.kind = "response"
                       THEN IF outcome.status >= 400 THEN 4 ELSE 0
                       ELSE ClassifyFailure(outcome)
      /\ UNCHANGED <<invocation, body, sent, interrupts, callVars>>
  BY DEF Report, Exit
<1>2. IInv'
  BY <1>1, InvNext
<1>3. CallOfCommand /\ CallOfCommand'
  BY <1>1 DEF CommandInv, CallOfCommand, callVars
<1>4. ErrorNamesItsCause /\ (outcome.kind = "response" => outcome.status \in Nat)
  BY DEF IInv, TypeInv
<1>5. outcome.kind # "early" /\ interrupts = 1 => outcome.kind \in {"network", "parse"}
  BY <1>1, <1>3, <1>4 DEF CallOfCommand, ErrorNamesItsCause, NetworkError, ParseError
<1>6. CASE outcome.kind = "response"
  <2>1. interrupts = 0
    BY <1>3, <1>5, <1>6 DEF CallOfCommand
  <2>2. \/ exitCode' = 4 /\ outcome.status >= 400
        \/ exitCode' = 0 /\ outcome.status < 400
    BY <1>1, <1>4, <1>6
  <2>3. ExitCodeTellsTheOutcome'
    BY <1>1, <1>4, <1>6, <2>1, <2>2 DEF ExitCodeTellsTheOutcome, callVars
  <2> QED
    BY <1>2, <1>3, <2>3 DEF CommandInv
<1>7. CASE outcome.kind # "response"
  <2>1. exitCode' = ClassifyFailure(outcome)
    BY <1>1, <1>7
  <2>2. outcome = NetworkError("ABORT") => interrupts = 1
    BY <1>1, <1>3, <1>4 DEF CallOfCommand, ErrorNamesItsCause
  <2>3. exitCode' = 130 <=> interrupts = 1
    BY <1>3, <2>1, <2>2 DEF CallOfCommand, ClassifyFailure
  <2>4. exitCode' \in {130, 5, 6} /\ (exitCode' = 5 => outcome.kind = "network")
    BY <2>1 DEF ClassifyFailure
  <2>5. outcome.kind = "network" => answer = Nothing
    BY <1>1, <1>4 DEF ErrorNamesItsCause
  <2> QED
    BY <1>1, <1>2, <1>3, <2>3, <2>4, <2>5
       DEF CommandInv, ExitCodeTellsTheOutcome, callVars
<1> QED
  BY <1>6, <1>7

LEMMA ExecuteTells ==
  ASSUME IInv, CommandInv, chapter = "command", Execute, UNCHANGED chapter
  PROVE  IInv' /\ CommandInv'
<1>1. /\ stage = "ready" /\ UNCHANGED <<invocation, body, interrupts>>
      /\ \/ \E code \in {2, 3, 6} : Exit(code) /\ UNCHANGED callVars
         \/ /\ stage' = "executing"
            /\ Send([signal |-> TRUE, timeout |-> FALSE, honours |-> TRUE,
                     early |-> invocation.early])
  BY DEF Execute
<1>2. CallOfCommand /\ phase = "unsent" /\ interrupts = 0 /\ aborted = "none"
  BY <1>1 DEF CommandInv, CallOfCommand
<1>3. ASSUME NEW code \in {2, 3, 6}, Exit(code), UNCHANGED callVars
      PROVE  IInv' /\ CommandInv'
  <2>1. IInv'
    BY <1>3, InvNext
  <2>2. CommandInv'
    BY <1>1, <1>2, <1>3
       DEF CommandInv, CallOfCommand, Exit, ExitCodeTellsTheOutcome, callVars
  <2> QED
    BY <2>1, <2>2
<1>4. ASSUME stage' = "executing",
             Send([signal |-> TRUE, timeout |-> FALSE, honours |-> TRUE,
                   early |-> invocation.early])
      PROVE  IInv' /\ CommandInv'
  <2> DEFINE call == [signal |-> TRUE, timeout |-> FALSE, honours |-> TRUE,
                      early |-> invocation.early]
  <2>1. call.signal = TRUE /\ call.timeout = FALSE /\ call.honours = TRUE
    OBVIOUS
  <2> HIDE DEF call
  <2>2. Send(call)
    BY <1>4 DEF call
  <2>3. IInv'
    BY <2>1, <2>2, SendKeeps
  <2>4. plan' = call /\ aborted' = aborted /\ phase' \in {"settled", "fetching"}
    BY <2>2 DEF Send, Settle
  <2>5. CommandInv'
    BY <1>1, <1>2, <1>4, <2>1, <2>4 DEF CommandInv, CallOfCommand,
       ExitCodeTellsTheOutcome
  <2> QED
    BY <2>3, <2>5
<1> QED
  BY <1>1, <1>3, <1>4

LEMMA SigintTells ==
  ASSUME IInv, CommandInv, chapter = "command", Sigint, UNCHANGED chapter
  PROVE  IInv' /\ CommandInv'
<1>1. CallOfCommand
  BY DEF CommandInv
<1>2. CASE stage = "executing" /\ interrupts = 0
  <2>1. /\ interrupts' = 1 /\ Abort("AbortError")
        /\ UNCHANGED <<stage, exitCode, invocation, body, sent>>
    BY <1>2 DEF Sigint
  <2>2. IInv'
    BY <2>1, AbortKeeps
  <2>3. /\ aborted' = "AbortError" /\ phase # "settled" /\ phase # "gone"
        /\ UNCHANGED <<plan, phase, outcome>>
    BY <2>1 DEF Abort
  <2>4. outcome.kind # "early"
    BY <1>1, <1>2, <2>3 DEF IInv, TypeInv, CallTypeOK, CallOfCommand, Nothing
  <2>5. CommandInv'
    BY <1>1, <1>2, <2>1, <2>3, <2>4
       DEF CommandInv, CallOfCommand, ExitCodeTellsTheOutcome
  <2> QED
    BY <2>2, <2>5
<1>3. CASE ~(stage = "executing" /\ interrupts = 0)
  <2>1. stage' = "killed" /\ CallerDies /\ UNCHANGED interrupts
    BY <1>3 DEF Sigint
  <2>2. IInv'
    BY <2>1, DyingKeeps
  <2>3. UNCHANGED <<plan, aborted, outcome>> /\ (phase' = phase \/ phase # "unsent")
    BY <2>1 DEF CallerDies, Active
  <2>4. CommandInv'
    BY <1>1, <2>1, <2>3 DEF CommandInv, CallOfCommand, ExitCodeTellsTheOutcome
  <2> QED
    BY <2>2, <2>4
<1> QED
  BY <1>2, <1>3

LEMMA CommandInvNext == IInv /\ CommandInv /\ [Next]_vars => IInv' /\ CommandInv'
<1> SUFFICES ASSUME IInv, CommandInv, [Next]_vars PROVE IInv' /\ CommandInv'
  OBVIOUS
<1>1. ASSUME UNCHANGED <<chapter, callVars, commandVars>> PROVE IInv' /\ CommandInv'
  <2>1. IInv'
    BY <1>1, InvNext
  <2>2. CommandInv'
    BY <1>1 DEF CommandInv, CallOfCommand, ExitCodeTellsTheOutcome, callVars,
       commandVars
  <2> QED
    BY <2>1, <2>2
<1>2. CASE Responses \/ Routes \/ Handlers \/ Messages \/ UNCHANGED vars
  BY <1>1, <1>2 DEF Responses, Routes, Handlers, InHandlers, Messages, vars
<1>3. CASE Call
  <2>1. chapter = "call" /\ CallNext /\ UNCHANGED <<chapter, commandVars>>
    BY <1>3 DEF Call, InCall
  <2>2. IInv'
    BY <2>1, InvNext
  <2> QED
    BY <2>1, <2>2 DEF CommandInv, commandVars
<1>4. CASE Command
  <2>1. chapter = "command" /\ CommandNext /\ UNCHANGED chapter
    BY <1>4 DEF Command, InCommand
  <2>2. CallOfCommand
    BY <2>1 DEF CommandInv
  <2>3. CASE Start \/ ReadBody
    <3>1. /\ stage \in {"start", "body"}
          /\ \/ \E code \in {0, 2, 6} : Exit(code)
             \/ stage' \in {"body", "ready"}
          /\ UNCHANGED <<invocation, sent, interrupts, callVars>>
      BY <2>3 DEF Start, ReadBody
    <3>2. IInv'
      BY <3>1, InvNext
    <3>3. CommandInv'
      BY <2>1, <2>2, <3>1 DEF CommandInv, CallOfCommand, ExitCodeTellsTheOutcome, Exit,
         callVars
    <3> QED
      BY <3>2, <3>3
  <2> QED
    BY <2>1, <2>3, ExecuteTells, SigintTells, ReportTells, CallEndsAlone
       DEF CommandNext, CallRuns
<1> QED
  BY <1>2, <1>3, <1>4 DEF Next

LEMMA CommandInvariance == Spec => [](IInv /\ CommandInv)
  BY CommandInvInit, CommandInvNext, PTL DEF Spec

\* Whatever the arguments, the answer, the fault of the network and the moment of
\* the interrupt, the exit code of a command tells what became of its request.
THEOREM ExitCodes == Spec => []ExitCodeTellsTheOutcome
<1>1. IInv /\ CommandInv => ExitCodeTellsTheOutcome
  BY DEF CommandInv, ExitCodeTellsTheOutcome
<1> QED
  BY <1>1, CommandInvariance, PTL

\* The call a command makes is one of the client's: its error names what happened
\* there as well.
THEOREM CommandAttribution == Spec => []ErrorNamesItsCause
  BY CommandInvariance, PTL DEF IInv

-----------------------------------------------------------------------------
(* Security schemes                                                        *)

\* The schemes normalization accepts have names of their own, ...
LEMMA SchemesApart ==
  ASSUME NEW schemes, IsSequence(schemes), SchemesError(schemes) = "none"
  PROVE  \A k, l \in DOMAIN schemes : schemes[k].name = schemes[l].name => k = l
<1> DEFINE error(k) == IF ~schemes[k].wellFormed THEN "scheme"
                       ELSE IF \E l \in 1 .. k - 1 : schemes[l].name = schemes[k].name
                         THEN "duplicateScheme"
                       ELSE "none"
           errors == [k \in DOMAIN schemes |-> error(k)]
<1>1. DOMAIN schemes = 1 .. Len(schemes) /\ Len(schemes) \in Nat
  BY DEF IsSequence
<1>2. FirstReal(errors) = "none"
  BY DEF SchemesError
<1>3. DOMAIN errors = DOMAIN schemes /\ DOMAIN errors \in SUBSET Nat
  BY <1>1
<1>4. \A k \in DOMAIN schemes : errors[k] = "none"
  <2> HIDE DEF errors
  <2> QED
    BY <1>2, <1>3, NoErrorAtAll
<1>5. \A k \in DOMAIN schemes : \A l \in 1 .. k - 1 : schemes[l].name # schemes[k].name
  BY <1>4
<1> SUFFICES ASSUME NEW k \in DOMAIN schemes, NEW l \in DOMAIN schemes, k # l
             PROVE  schemes[k].name # schemes[l].name
  OBVIOUS
<1>6. k \in 1 .. l - 1 \/ l \in 1 .. k - 1
  BY <1>1
<1> QED
  BY <1>5, <1>6

\* ... a name finds the scheme that has it, ...
LEMMA NamedFacts ==
  ASSUME NEW schemes, NEW name, name \in SchemeNames(schemes)
  PROVE  \E k \in DOMAIN schemes : /\ SchemeNamed(schemes, name) = schemes[k]
                                   /\ schemes[k].name = name
BY DEF SchemeNames, SchemeNamed

\* ... and the requirements it accepts are not empty and ask for schemes that exist.
LEMMA RequirementFacts ==
  ASSUME NEW security, NEW schemes, security # Undeclared, IsSequence(security),
         \A k \in DOMAIN security : IsSequence(security[k]),
         SecurityError(security, schemes) = "none"
  PROVE  \A k \in DOMAIN security :
           \A j \in DOMAIN security[k] : security[k][j].scheme \in SchemeNames(schemes)
<1> DEFINE inner(k) == [j \in DOMAIN security[k] |-> ScopesError(security[k][j], schemes)]
           outer == [k \in DOMAIN security |->
                       IF security[k] = << >> THEN "requirement" ELSE FirstReal(inner(k))]
<1>1. FirstReal(outer) = "none"
  BY DEF SecurityError, Errors
<1>2. DOMAIN outer = DOMAIN security /\ DOMAIN outer \in SUBSET Nat
  BY DEF IsSequence
<1>3. \A k \in DOMAIN security : outer[k] = "none"
  <2> HIDE DEF outer
  <2> QED
    BY <1>1, <1>2, NoErrorAtAll
<1> SUFFICES ASSUME NEW k \in DOMAIN security, NEW j \in DOMAIN security[k]
             PROVE  security[k][j].scheme \in SchemeNames(schemes)
  OBVIOUS
<1>4. FirstReal(inner(k)) = "none"
  BY <1>3
<1>5. DOMAIN inner(k) = DOMAIN security[k] /\ DOMAIN inner(k) \in SUBSET Nat
  <2>1. IsSequence(security[k])
    OBVIOUS
  <2> QED
    BY <2>1 DEF IsSequence
<1>6. inner(k)[j] = "none"
  <2> DEFINE own == inner(k)
  <2> SUFFICES own[j] = "none"
    OBVIOUS
  <2>1. FirstReal(own) = "none" /\ DOMAIN own \in SUBSET Nat /\ j \in DOMAIN own
    BY <1>4, <1>5
  <2> HIDE DEF own
  <2> QED
    BY <2>1, NoErrorAtAll
<1>7. ScopesError(security[k][j], schemes) = "none"
  BY <1>6
<1> QED
  BY <1>7 DEF ScopesError

\* What normalization resolves, level by level, is the nearest level that speaks.
LEMMA RulingIsNormalized ==
  ASSUME NEW call
  PROVE  /\ NormalizedSecurity(call.contract, call.resource, call.operation)
              = RulingSecurity(call)
         /\ \/ RulingSecurity(call) = << >>
            \/ /\ RulingSecurity(call) # Undeclared
               /\ RulingSecurity(call) \in {call.contract.security,
                    call.resource.security, call.operation.security}
<1> DEFINE levels == <<call.operation.security, call.resource.security,
                       call.contract.security>>
           ruling == {k \in 1 .. 3 : levels[k] # Undeclared}
           normalized == NormalizedSecurity(call.contract, call.resource, call.operation)
<1>1. RulingSecurity(call) = IF ruling = {} THEN << >> ELSE levels[Least(ruling)]
  BY DEF RulingSecurity
<1>2. /\ levels[1] = call.operation.security /\ levels[2] = call.resource.security
      /\ levels[3] = call.contract.security
  OBVIOUS
<1> HIDE DEF levels
<1>3. normalized = IF levels[1] # Undeclared THEN levels[1]
                   ELSE IF levels[2] # Undeclared THEN levels[2]
                   ELSE IF levels[3] # Undeclared THEN levels[3] ELSE << >>
  BY <1>2 DEF NormalizedSecurity, ResolveSecurity
<1>4. CASE ruling = {}
  <2>1. levels[1] = Undeclared /\ levels[2] = Undeclared /\ levels[3] = Undeclared
    BY <1>4
  <2> QED
    BY <1>1, <1>3, <1>4, <2>1
<1>5. CASE ruling # {}
  <2> DEFINE m == Least(ruling)
  <2>1. m \in ruling /\ \A k \in ruling : m <= k
    BY <1>5, LeastOne
  <2> HIDE DEF m
  <2>2. /\ m \in 1 .. 3 /\ levels[m] # Undeclared
        /\ \A k \in 1 .. 3 : levels[k] # Undeclared => m <= k
    BY <2>1
  <2>3. /\ m = 1 => levels[1] # Undeclared
        /\ m = 2 => levels[2] # Undeclared /\ levels[1] = Undeclared
        /\ m = 3 => levels[3] # Undeclared /\ levels[1] = Undeclared
                      /\ levels[2] = Undeclared
    BY <2>2
  <2>4. normalized = levels[m] /\ levels[m] \in {levels[1], levels[2], levels[3]}
    <3>1. CASE m = 1
      BY <1>3, <2>3, <3>1
    <3>2. CASE m = 2
      BY <1>3, <2>3, <3>2
    <3>3. CASE m = 3
      BY <1>3, <2>3, <3>3
    <3> QED
      BY <2>2, <3>1, <3>2, <3>3
  <2>5. RulingSecurity(call) = levels[m]
    BY <1>1, <1>5 DEF m
  <2> QED
    BY <1>2, <2>2, <2>4, <2>5
<1> QED
  BY <1>4, <1>5

\* A command has its operation's alternatives, and finds by name the schemes that the
\* contract declares.
LEMMA CommandFacts ==
  ASSUME NEW call \in Invocations
  PROVE  /\ IsSequence(RulingSecurity(call))
         /\ CommandOf(call).requirements = Requirements(RulingSecurity(call))
         /\ \A k \in DOMAIN RulingSecurity(call) : IsSequence(RulingSecurity(call)[k])
         /\ \A k \in DOMAIN RulingSecurity(call) : \A n \in Asked(call, k) :
              /\ SchemeNamed(CommandOf(call).schemes, n) \in ToSet(CommandOf(call).schemes)
              /\ SchemeNamed(CommandOf(call).schemes, n)
                   = SchemeNamed(call.contract.schemes, n)
              /\ SchemeNamed(CommandOf(call).schemes, n).name = n
<1> DEFINE ruling == RulingSecurity(call)
           declared == call.contract.schemes
           requirements == Requirements(ruling)
           positions == {i \in DOMAIN declared : \E k \in DOMAIN requirements :
                           declared[i].name \in ToSet(requirements[k])}
           schemes == Selected(declared, positions)
<1>1. /\ IsSequence(declared) /\ SchemesError(declared) = "none"
      /\ ruling = << >> \/ /\ IsSequence(ruling) /\ \A k \in DOMAIN ruling : IsSequence(ruling[k])
                           /\ ruling # Undeclared /\ SecurityError(ruling, declared) = "none"
  BY InvocationsAssumption, RulingIsNormalized
<1>2. IsSequence(ruling) /\ \A k \in DOMAIN ruling : IsSequence(ruling[k])
  <2>1. IsSequence(<< >>) /\ DOMAIN << >> = {}
    BY DEF IsSequence
  <2> QED
    BY <1>1, <2>1
<1>3. /\ CommandOf(call).requirements = requirements
      /\ CommandOf(call).schemes = schemes
  <2>1. NormalizedSecurity(call.contract, call.resource, call.operation) = ruling
    BY RulingIsNormalized
  <2> HIDE DEF ruling
  <2> QED
    BY <2>1 DEF CommandOf
<1>4. ASSUME NEW k \in DOMAIN ruling, NEW n \in Asked(call, k)
      PROVE  /\ SchemeNamed(schemes, n) \in ToSet(schemes)
             /\ SchemeNamed(schemes, n) = SchemeNamed(declared, n)
             /\ SchemeNamed(schemes, n).name = n
  <2>1. PICK j \in DOMAIN ruling[k] : n = ruling[k][j].scheme
    BY DEF Asked
  <2>2. ruling # << >>
    OBVIOUS
  <2>3. n \in SchemeNames(declared)
    <3>1. /\ ruling # Undeclared /\ IsSequence(ruling) /\ SecurityError(ruling, declared) = "none"
          /\ \A l \in DOMAIN ruling : IsSequence(ruling[l])
      BY <1>1, <2>2
    <3> HIDE DEF ruling, declared
    <3> QED
      BY <2>1, <3>1, RequirementFacts
  <2>4. PICK d \in DOMAIN declared : SchemeNamed(declared, n) = declared[d] /\ declared[d].name = n
    BY <2>3, NamedFacts
  <2>5. d \in positions
    <3>1. requirements[k] = [l \in DOMAIN ruling[k] |-> ruling[k][l].scheme]
          /\ k \in DOMAIN requirements
      BY DEF Requirements
    <3>2. n \in ToSet(requirements[k])
      BY <2>1, <3>1 DEF ToSet
    <3> QED
      BY <2>4, <3>1, <3>2
  <2>6. /\ schemes \in Seq({declared[i] : i \in DOMAIN declared \cap positions})
        /\ \E m \in DOMAIN schemes : schemes[m] = declared[d]
    <3> HIDE DEF schemes, positions
    <3>1. declared \in Seq({declared[i] : i \in DOMAIN declared})
      BY <1>1 DEF IsSequence
    <3> DEFINE T == {declared[i] : i \in DOMAIN declared}
    <3>2. declared \in Seq(T) /\ d \in DOMAIN declared \cap positions
      BY <2>5, <3>1
    <3> HIDE DEF T, declared
    <3> QED
      BY <3>2, SelectedFacts DEF schemes
  <2>7. n \in SchemeNames(schemes)
    BY <2>4, <2>6 DEF SchemeNames
  <2> HIDE DEF schemes
  <2>8. PICK m \in DOMAIN schemes : SchemeNamed(schemes, n) = schemes[m] /\ schemes[m].name = n
    BY <2>7, NamedFacts
  <2>9. PICK i \in DOMAIN declared : schemes[m] = declared[i]
    BY <2>6, <2>8
  <2>10. i = d
    BY <1>1, <2>4, <2>8, <2>9, SchemesApart
  <2> QED
    BY <2>4, <2>8, <2>9, <2>10 DEF ToSet
<1> HIDE DEF schemes, declared, ruling, requirements
<1> QED
  BY <1>2, <1>3, <1>4 DEF ruling, declared, requirements

\* Every place of the schemes selected has a credential, which names one of them.
InTheirPlaces(credentials, selected, schemes) ==
  /\ credentials = [place \in DOMAIN credentials |-> credentials[place]]
  /\ DOMAIN credentials = {PlaceOf(SchemeNamed(schemes, selected[k])) : k \in DOMAIN selected}
  /\ \A place \in DOMAIN credentials :
       /\ credentials[place] # {}
       /\ \A n \in credentials[place] : \E k \in DOMAIN selected :
            n = selected[k] /\ place = PlaceOf(SchemeNamed(schemes, n))

\* So they are when all flags of the requirement selected are given.
LEMMA CredentialsFacts ==
  ASSUME NEW command, NEW parsed, NEW T, NEW selected \in Seq(T),
         SelectedSchemes(command, parsed) = selected,
         \A k \in DOMAIN selected : Given(parsed, Flag(SchemeNamed(command.schemes, selected[k]))),
         \A k \in DOMAIN selected : SchemeNamed(command.schemes, selected[k]).name = selected[k]
  PROVE  InTheirPlaces(Credentials(command, parsed), selected, command.schemes)
<1> DEFINE N == Len(selected)
           scheme(k) == SchemeNamed(command.schemes, selected[k])
           place(k) == PlaceOf(scheme(k))
           Placed(f, m) ==
             f = [n \in 0 .. m |-> IF n = 0 THEN << >>
                                   ELSE ApplySecurityScheme(f[n - 1], scheme(n))]
           Reached == {m \in 0 .. N : \E f : Placed(f, m)}
           K == CHOOSE f : Placed(f, N)
<1>1. N \in Nat /\ DOMAIN selected = 1 .. N
  OBVIOUS
<1>2. 0 \in Reached
  <2>1. Placed([n \in 0 .. 0 |-> << >>], 0)
    OBVIOUS
  <2> HIDE DEF Placed
  <2>2. \E f : Placed(f, 0)
    BY <2>1
  <2> QED
    BY <1>1, <2>2
<1>3. \A m \in Reached : m \in Nat /\ m < N => m + 1 \in Reached
  <2> TAKE m \in Reached
  <2> HIDE DEF scheme
  <2> SUFFICES ASSUME m \in Nat, m < N PROVE \E f : Placed(f, m + 1)
    <3> HIDE DEF Placed
    <3> QED
      BY <1>1
  <2>2. PICK f : Placed(f, m)
    OBVIOUS
  <2> DEFINE g == [n \in 0 .. m + 1 |-> IF n <= m THEN f[n]
                                        ELSE ApplySecurityScheme(f[n - 1], scheme(n))]
  <2>3. \A n \in 0 .. m : g[n] = f[n]
    OBVIOUS
  <2>4. \A n \in 0 .. m :
          f[n] = IF n = 0 THEN << >> ELSE ApplySecurityScheme(f[n - 1], scheme(n))
    BY <2>2
  <2>5. \A n \in 0 .. m + 1 :
          g[n] = IF n = 0 THEN << >> ELSE ApplySecurityScheme(g[n - 1], scheme(n))
    <3> TAKE n \in 0 .. m + 1
    <3>1. CASE n = m + 1
      <4>1. g[n] = ApplySecurityScheme(f[n - 1], scheme(n)) /\ n - 1 \in 0 .. m /\ n # 0
        BY <3>1
      <4> QED
        BY <2>3, <4>1
    <3>2. CASE n <= m
      <4>1. n = 0 \/ n - 1 \in 0 .. m
        BY <3>2
      <4> HIDE DEF g
      <4> QED
        BY <2>3, <2>4, <3>2, <4>1
    <3> QED
      BY <3>1, <3>2
  <2>6. Placed(g, m + 1)
    BY <2>5
  <2> QED
    BY <2>6
<1>4. Placed(K, N)
  <2> HIDE DEF Placed
  <2>1. N \in Reached
    <3> HIDE DEF Reached
    <3> QED
      BY <1>1, <1>2, <1>3, UpTo
  <2> QED
    BY <2>1
<1>5. Credentials(command, parsed) = K[N]
  <2> DEFINE positions == {k \in DOMAIN selected : Given(parsed, Flag(scheme(k)))}
  <2>1. DOMAIN selected \subseteq positions
    OBVIOUS
  <2>2. Selected(selected, positions) = selected
    <3> HIDE DEF positions
    <3> QED
      BY <2>1, SelectedFacts
  <2> QED
    BY <2>2 DEF Credentials
<1> HIDE DEF K
<1>6. \A n \in 0 .. N :
        K[n] = IF n = 0 THEN << >> ELSE ApplySecurityScheme(K[n - 1], scheme(n))
  BY <1>4
<1> DEFINE Among(map, n) ==
             /\ map = [p \in DOMAIN map |-> map[p]]
             /\ DOMAIN map = {place(k) : k \in 1 .. n}
             /\ \A p \in DOMAIN map :
                  map[p] # {} /\ \A m \in map[p] : \E k \in 1 .. n : m = selected[k] /\ p = place(k)
           Good == {n \in 0 .. N : Among(K[n], n)}
<1>7. 0 \in Good
  <2>1. K[0] = << >> /\ 0 \in 0 .. N
    BY <1>1, <1>6
  <2>2. Among(<< >>, 0)
    <3>1. DOMAIN << >> = {} /\ {place(k) : k \in 1 .. 0} = {}
      OBVIOUS
    <3>2. << >> = [p \in {} |-> << >>[p]]
      BY <3>1
    <3> QED
      BY <3>1, <3>2
  <2> HIDE DEF Among
  <2> QED
    BY <2>1, <2>2
<1>8. \A n \in Good : n \in Nat /\ n < N => n + 1 \in Good
  <2> TAKE n \in Good
  <2> SUFFICES ASSUME n \in Nat, n < N PROVE Among(K[n + 1], n + 1)
    <3> HIDE DEF Among
    <3> QED
      BY <1>1
  <2> DEFINE map == K[n]
             key == place(n + 1)
             value == (IF key \in DOMAIN map /\ key.key = "cookie" THEN map[key] ELSE {})
                        \cup {selected[n + 1]}
  <2>1. Among(map, n)
    OBVIOUS
  <2>2. K[n + 1] = With(map, key, value)
    <3>1. scheme(n + 1).name = selected[n + 1]
      BY <1>1
    <3>2. K[n + 1] = ApplySecurityScheme(map, scheme(n + 1))
      BY <1>1, <1>6
    <3> HIDE DEF map, scheme
    <3> QED
      BY <3>1, <3>2 DEF ApplySecurityScheme
  <2>3. /\ value # {}
        /\ \A m \in value : \E k \in 1 .. n + 1 : m = selected[k] /\ key = place(k)
    <3>1. value # {} /\ \A m \in value : m = selected[n + 1] \/ (key \in DOMAIN map /\ m \in map[key])
      OBVIOUS
    <3>2. n + 1 \in 1 .. n + 1 /\ \A k \in 1 .. n : k \in 1 .. n + 1
      OBVIOUS
    <3>3. key = place(n + 1)
      OBVIOUS
    <3> HIDE DEF place, scheme, map, key, value, Good
    <3>4. \A m \in map[key] : key \in DOMAIN map =>
            \E k \in 1 .. n : m = selected[k] /\ key = place(k)
      BY <2>1
    <3> QED
      BY <3>1, <3>2, <3>3, <3>4
  <2>4. {place(k) : k \in 1 .. n + 1} = {place(k) : k \in 1 .. n} \cup {key}
    <3> HIDE DEF place
    <3> QED
      BY <2>1
  <2> HIDE DEF place, scheme, value
  <2>5. /\ K[n + 1] = [p \in DOMAIN map \cup {key} |-> IF p = key THEN value ELSE map[p]]
        /\ DOMAIN K[n + 1] = DOMAIN map \cup {key}
        /\ \A p \in DOMAIN map \cup {key} : K[n + 1][p] = IF p = key THEN value ELSE map[p]
    BY <2>2 DEF With
  <2> HIDE DEF map, key
  <2>6. K[n + 1] = [p \in DOMAIN K[n + 1] |-> K[n + 1][p]]
    BY <2>5
  <2>7. DOMAIN K[n + 1] = {place(k) : k \in 1 .. n + 1}
    BY <2>1, <2>4, <2>5
  <2>8. ASSUME NEW p \in DOMAIN K[n + 1]
        PROVE  /\ K[n + 1][p] # {}
               /\ \A m \in K[n + 1][p] : \E k \in 1 .. n + 1 : m = selected[k] /\ p = place(k)
    <3>1. CASE p = key
      BY <2>3, <2>5, <3>1
    <3>2. CASE p # key
      <4>1. p \in DOMAIN map /\ K[n + 1][p] = map[p]
        BY <2>5, <3>2
      <4>2. \A k \in 1 .. n : k \in 1 .. n + 1
        OBVIOUS
      <4>3. map[p] # {} /\ \A m \in map[p] : \E k \in 1 .. n : m = selected[k] /\ p = place(k)
        BY <2>1, <4>1
      <4> HIDE DEF Good
      <4> QED
        BY <4>1, <4>2, <4>3
    <3> QED
      BY <3>1, <3>2
  <2> QED
    BY <2>6, <2>7, <2>8
<1>9. Among(K[N], N)
  <2>1. N \in Good
    <3> HIDE DEF Good
    <3> QED
      BY <1>1, <1>7, <1>8, UpTo
  <2> HIDE DEF Among
  <2> QED
    BY <2>1
<1> HIDE DEF N
<1> DEFINE C == K[N]
<1>10. Among(C, N)
  BY <1>9
<1> HIDE DEF C
<1>11. DOMAIN C = {PlaceOf(SchemeNamed(command.schemes, selected[k])) : k \in DOMAIN selected}
  BY <1>1, <1>10
<1>12. \A p \in DOMAIN C : /\ C[p] # {}
                           /\ \A n \in C[p] : \E k \in DOMAIN selected :
                                n = selected[k] /\ p = PlaceOf(SchemeNamed(command.schemes, n))
  BY <1>1, <1>10
<1>13. C = [p \in DOMAIN C |-> C[p]]
  BY <1>10
<1>14. Credentials(command, parsed) = C
  BY <1>5 DEF C
<1> HIDE DEF Among, place, scheme
<1> QED
  BY <1>11, <1>12, <1>13, <1>14 DEF InTheirPlaces

\* What has been read of a command line: values and a pending option come from it.
Read(parsed, texts) ==
  /\ {"values", "pending"} \subseteq DOMAIN parsed
  /\ DOMAIN parsed.values \subseteq texts
  /\ parsed.pending \in texts \cup {""}

LEMMA TokenFacts ==
  ASSUME NEW parsed, NEW texts, Read(parsed, texts), NEW token, token.text \in texts
  PROVE  Read(ParseToken(parsed, token), texts)
<1>1. ASSUME NEW option \in texts, NEW value
      PROVE  /\ Read(AddValue(parsed, option, value), texts)
             /\ Read([AddValue(parsed, option, value) EXCEPT !.pending = ""], texts)
  <2>1. PICK values : /\ AddValue(parsed, option, value) = [parsed EXCEPT !.values = values]
                      /\ DOMAIN values \subseteq texts
    <3> DEFINE before == IF option \in DOMAIN parsed.values THEN parsed.values[option] ELSE << >>
               values == With(parsed.values, option, Append(before, value))
    <3>1. DOMAIN values \subseteq texts
      BY <1>1 DEF With, Read
    <3>2. AddValue(parsed, option, value) = [parsed EXCEPT !.values = values]
      BY DEF AddValue
    <3> HIDE DEF values
    <3> QED
      BY <3>1, <3>2
  <2> DEFINE added == [parsed EXCEPT !.values = values]
  <2>2. DOMAIN added = DOMAIN parsed /\ added.values = values /\ added.pending = parsed.pending
    BY DEF Read
  <2> HIDE DEF added
  <2>3. AddValue(parsed, option, value) = added
    BY <2>1 DEF added
  <2>4. Read(added, texts)
    BY <2>1, <2>2 DEF Read
  <2>5. Read([added EXCEPT !.pending = ""], texts)
    BY <2>4 DEF Read
  <2> QED
    BY <2>3, <2>4, <2>5
<1>2. Read(Refuse(parsed), texts)
  BY DEF Read, Refuse
<1>3. \A c : Read([parsed EXCEPT !.command = c], texts)
  BY DEF Read
<1>4. \A t : Read([parsed EXCEPT !.switches = t], texts)
  BY DEF Read
<1>5. Read([parsed EXCEPT !.pending = token.text], texts)
  BY DEF Read
<1>6. parsed.pending # "" => parsed.pending \in texts
  BY DEF Read
<1> DEFINE next == ParseToken(parsed, token)
<1>7. \/ next \in {parsed, Refuse(parsed), [parsed EXCEPT !.pending = token.text]}
      \/ \E c : next = [parsed EXCEPT !.command = c]
      \/ \E t : next = [parsed EXCEPT !.switches = t]
      \/ parsed.pending # "" /\ next = [AddValue(parsed, parsed.pending, token.text)
                                          EXCEPT !.pending = ""]
      \/ next = AddValue(parsed, token.text, token.value)
  <2>1. CASE parsed.error
    BY <2>1 DEF ParseToken
  <2>2. CASE ~parsed.error /\ parsed.pending # ""
    <3>1. next = IF token.kind = "word"
                   THEN [AddValue(parsed, parsed.pending, token.text) EXCEPT !.pending = ""]
                   ELSE Refuse(parsed)
      BY <2>2 DEF ParseToken
    <3> QED
      BY <2>2, <3>1
  <2>3. CASE ~parsed.error /\ parsed.pending = "" /\ token.kind = "word"
    <3>1. next = IF parsed.command # "" THEN Refuse(parsed)
                 ELSE [parsed EXCEPT !.command = token.text]
      BY <2>3 DEF ParseToken
    <3> QED
      BY <3>1
  <2>4. CASE ~parsed.error /\ parsed.pending = "" /\ token.kind = "assigned"
    <3>1. next = AddValue(parsed, token.text, token.value)
      BY <2>4 DEF ParseToken
    <3> QED
      BY <3>1
  <2>5. CASE ~parsed.error /\ parsed.pending = "" /\ token.kind \notin {"word", "assigned"}
    <3>1. next = IF token.text \in Switches
                   THEN [parsed EXCEPT !.switches = @ \cup {token.text}]
                   ELSE [parsed EXCEPT !.pending = token.text]
      BY <2>5 DEF ParseToken
    <3> QED
      BY <3>1
  <2> QED
    BY <2>1, <2>2, <2>3, <2>4, <2>5
<1> SUFFICES Read(next, texts)
  OBVIOUS
<1> HIDE DEF next
<1>8. CASE next \in {parsed, Refuse(parsed), [parsed EXCEPT !.pending = token.text]}
  BY <1>2, <1>5, <1>8
<1>9. CASE \/ \E c : next = [parsed EXCEPT !.command = c]
           \/ \E t : next = [parsed EXCEPT !.switches = t]
  BY <1>3, <1>4, <1>9
<1>10. CASE \/ parsed.pending # "" /\ next = [AddValue(parsed, parsed.pending, token.text)
                                               EXCEPT !.pending = ""]
            \/ next = AddValue(parsed, token.text, token.value)
  BY <1>1, <1>6, <1>10
<1> QED
  BY <1>7, <1>8, <1>9, <1>10

\* An option that is given stands on the command line.
LEMMA GivenFacts ==
  ASSUME NEW argv, IsSequence(argv), NEW option, Given(ParseArguments(argv), option)
  PROVE  option \in {token.text : token \in ToSet(argv)}
<1> DEFINE N == Len(argv)
           texts == {token.text : token \in ToSet(argv)}
           first == [command |-> "", pending |-> "", values |-> << >>,
                     switches |-> {}, error |-> FALSE]
           Reads(f, m) == f = [n \in 0 .. m |-> IF n = 0 THEN first
                                                ELSE ParseToken(f[n - 1], argv[n])]
           Reached == {m \in 0 .. N : \E f : Reads(f, m)}
           K == CHOOSE f : Reads(f, N)
<1>1. N \in Nat /\ DOMAIN argv = 1 .. N
  BY DEF IsSequence
<1>2. \A n \in 1 .. N : argv[n].text \in texts
  BY <1>1 DEF ToSet
<1>3. Read(first, texts)
  BY DEF Read
<1> HIDE DEF first, texts
<1>4. 0 \in Reached
  <2>1. Reads([n \in 0 .. 0 |-> first], 0)
    OBVIOUS
  <2> HIDE DEF Reads
  <2>2. \E f : Reads(f, 0)
    BY <2>1
  <2> QED
    BY <1>1, <2>2
<1>5. \A m \in Reached : m \in Nat /\ m < N => m + 1 \in Reached
  <2> TAKE m \in Reached
  <2> SUFFICES ASSUME m \in Nat, m < N PROVE \E f : Reads(f, m + 1)
    <3> HIDE DEF Reads
    <3> QED
      BY <1>1
  <2>2. PICK f : Reads(f, m)
    OBVIOUS
  <2> DEFINE g == [n \in 0 .. m + 1 |-> IF n <= m THEN f[n] ELSE ParseToken(f[n - 1], argv[n])]
  <2>3. \A n \in 0 .. m : g[n] = f[n]
    OBVIOUS
  <2>4. \A n \in 0 .. m : f[n] = IF n = 0 THEN first ELSE ParseToken(f[n - 1], argv[n])
    BY <2>2
  <2>5. \A n \in 0 .. m + 1 : g[n] = IF n = 0 THEN first ELSE ParseToken(g[n - 1], argv[n])
    <3> TAKE n \in 0 .. m + 1
    <3>1. CASE n = m + 1
      <4>1. g[n] = ParseToken(f[n - 1], argv[n]) /\ n - 1 \in 0 .. m /\ n # 0
        BY <3>1
      <4> QED
        BY <2>3, <4>1
    <3>2. CASE n <= m
      <4>1. n = 0 \/ n - 1 \in 0 .. m
        BY <3>2
      <4> HIDE DEF g
      <4> QED
        BY <2>3, <2>4, <3>2, <4>1
    <3> QED
      BY <3>1, <3>2
  <2>6. Reads(g, m + 1)
    BY <2>5
  <2> QED
    BY <2>6
<1>6. Reads(K, N)
  <2> HIDE DEF Reads
  <2>1. N \in Reached
    <3> HIDE DEF Reached
    <3> QED
      BY <1>1, <1>4, <1>5, UpTo
  <2> QED
    BY <2>1
<1>7. ParseArguments(argv) = IF K[N].pending # "" THEN Refuse(K[N]) ELSE K[N]
  BY DEF ParseArguments, first
<1> HIDE DEF K
<1>8. \A n \in 0 .. N : K[n] = IF n = 0 THEN first ELSE ParseToken(K[n - 1], argv[n])
  BY <1>6
<1> DEFINE Good == {n \in 0 .. N : Read(K[n], texts)}
<1>9. 0 \in Good
  <2>1. K[0] = first /\ 0 \in 0 .. N
    BY <1>1, <1>8
  <2> QED
    BY <1>3, <2>1
<1>10. \A n \in Good : n \in Nat /\ n < N => n + 1 \in Good
  <2> TAKE n \in Good
  <2> SUFFICES ASSUME n \in Nat, n < N PROVE n + 1 \in Good
    OBVIOUS
  <2>1. Read(K[n], texts) /\ n + 1 \in 1 .. N /\ n + 1 \in 0 .. N
    BY <1>1
  <2>2. K[n + 1] = ParseToken(K[n], argv[n + 1])
    BY <1>8, <2>1
  <2> QED
    BY <1>2, <2>1, <2>2, TokenFacts
<1>11. Read(K[N], texts)
  <2>1. N \in Good
    <3> HIDE DEF Good
    <3> QED
      BY <1>1, <1>9, <1>10, UpTo
  <2> QED
    BY <2>1
<1>12. ParseArguments(argv).values = K[N].values
  BY <1>7, <1>11 DEF Refuse, Read
<1> QED
  BY <1>11, <1>12 DEF Given, Read, texts

\* What a command merges into its request, if it is not refused for want of
\* credentials, is what the contract asks for.
LEMMA MergedMeet ==
  ASSUME NEW call \in Invocations,
         ~SecurityMissing(CommandOf(call), ParseArguments(call.argv))
  PROVE  MeetTheContract(MergedCredentials(CommandOf(call), ParseArguments(call.argv)), call)
<1> DEFINE command == CommandOf(call)
           parsed == ParseArguments(call.argv)
           ruling == RulingSecurity(call)
           declared == call.contract.schemes
           selected == SelectedSchemes(command, parsed)
           C == Credentials(command, parsed)
           merged == MergedCredentials(command, parsed)
           ownCookie == \E input \in call.operation.inputs : input.key = "cookie"
           given == {token.text : token \in ToSet(call.argv)}
<1>1. /\ IsSequence(ruling) /\ \A k \in DOMAIN ruling : IsSequence(ruling[k])
      /\ command.requirements = Requirements(ruling)
      /\ \A k \in DOMAIN ruling : \A n \in Asked(call, k) :
           /\ SchemeNamed(command.schemes, n) \in ToSet(command.schemes)
           /\ SchemeNamed(command.schemes, n) = SchemeNamed(declared, n)
           /\ SchemeNamed(command.schemes, n).name = n
  BY CommandFacts
<1>2. \A n : Given(parsed, n) => n \in given
  BY GivenFacts, InvocationsAssumption
<1>3. command.inputs = CommandInputs(call.operation, command.schemes)
  BY DEF CommandOf
<1>4. ~SecurityMissing(command, parsed)
  OBVIOUS
<1>5. merged = [place \in {p \in DOMAIN C : ~InRequest(command, parsed, p)} |-> C[place]]
  BY DEF MergedCredentials
<1> HIDE DEF command, parsed, ruling, selected, C, merged, given, declared
<1>6. CASE ruling = << >>
  <2>1. command.requirements = << >> /\ DOMAIN command.requirements = {}
    BY <1>1, <1>6 DEF Requirements
  <2>2. selected = << >>
    BY <2>1 DEF selected, SelectedSchemes
  <2>3. << >> \in Seq({}) /\ DOMAIN << >> = {}
    OBVIOUS
  <2>4. DOMAIN C = {PlaceOf(SchemeNamed(command.schemes, selected[k])) : k \in DOMAIN selected}
    <3>1. InTheirPlaces(C, selected, command.schemes)
      BY <2>2, <2>3, CredentialsFacts DEF selected, C
    <3> QED
      BY <3>1 DEF InTheirPlaces
  <2>5. DOMAIN C = {}
    BY <2>2, <2>3, <2>4
  <2>6. merged = << >>
    BY <1>5, <2>5
  <2> QED
    BY <1>6, <2>6 DEF MeetTheContract, ruling, merged, command, parsed
<1>7. CASE ruling # << >>
  <2>1. DOMAIN ruling # {} /\ DOMAIN ruling \in SUBSET Nat
    BY <1>1, <1>7 DEF IsSequence
  <2> DEFINE satisfied == {k \in DOMAIN command.requirements :
                             Satisfied(command.requirements[k], parsed, command.schemes)}
             m == Least(satisfied)
  <2>2. DOMAIN command.requirements = DOMAIN ruling /\ command.requirements # << >>
    BY <1>1, <2>1 DEF Requirements
  <2>3. selected # << >>
    BY <1>4, <2>2 DEF SecurityMissing, selected
  <2>4. satisfied # {} /\ selected = command.requirements[m]
    BY <2>3 DEF selected, SelectedSchemes
  <2>5. m \in satisfied
    <3>1. satisfied \in SUBSET Nat
      BY <2>1, <2>2
    <3> HIDE DEF satisfied
    <3> QED
      BY <2>4, <3>1, LeastOne
  <2> HIDE DEF m
  <2> DEFINE asked == Asked(call, m)
  <2>6. /\ m \in DOMAIN ruling
        /\ \A j \in DOMAIN selected : Given(parsed, Flag(SchemeNamed(command.schemes, selected[j])))
    <3>1. m \in DOMAIN ruling /\ Satisfied(selected, parsed, command.schemes)
      BY <2>2, <2>4, <2>5
    <3> QED
      BY <3>1 DEF Satisfied
  <2>7. selected = [j \in DOMAIN ruling[m] |-> ruling[m][j].scheme]
    BY <1>1, <2>4, <2>6 DEF Requirements
  <2>8. selected \in Seq(asked) /\ asked = {selected[j] : j \in DOMAIN selected}
    <3>1. DOMAIN selected = 1 .. Len(ruling[m]) /\ Len(ruling[m]) \in Nat
      <4>1. IsSequence(ruling[m])
        BY <1>1, <2>6
      <4> QED
        BY <2>7, <4>1 DEF IsSequence
    <3>2. asked = {ruling[m][j].scheme : j \in DOMAIN ruling[m]}
      BY DEF Asked, ruling
    <3>3. asked = {selected[j] : j \in DOMAIN selected}
      BY <2>7, <3>2
    <3> HIDE DEF asked
    <3>4. \A j \in 1 .. Len(ruling[m]) : selected[j] \in asked
      BY <3>1, <3>3
    <3> DEFINE copy == [j \in 1 .. Len(ruling[m]) |-> selected[j]]
    <3>5. selected = copy
      BY <2>7, <3>1
    <3>6. copy \in Seq(asked)
      BY <3>1, <3>4
    <3> QED
      BY <3>3, <3>5, <3>6
  <2> HIDE DEF satisfied, asked
  <2>9. \A n \in asked : /\ SchemeNamed(command.schemes, n) \in ToSet(command.schemes)
                         /\ SchemeNamed(command.schemes, n) = SchemeNamed(declared, n)
                         /\ SchemeNamed(command.schemes, n).name = n
                         /\ Given(parsed, Flag(SchemeNamed(command.schemes, n)))
    BY <1>1, <2>6, <2>8 DEF asked
  <2> DEFINE place(n) == PlaceOf(SchemeNamed(declared, n))
             places == {place(n) : n \in asked}
  <2>10. /\ C = [p \in DOMAIN C |-> C[p]]
         /\ DOMAIN C = {PlaceOf(SchemeNamed(command.schemes, selected[k])) : k \in DOMAIN selected}
         /\ \A p \in DOMAIN C :
              /\ C[p] # {}
              /\ \A n \in C[p] : \E k \in DOMAIN selected :
                   n = selected[k] /\ p = PlaceOf(SchemeNamed(command.schemes, n))
    <3>1. \A k \in DOMAIN selected : SchemeNamed(command.schemes, selected[k]).name = selected[k]
      BY <2>8, <2>9
    <3>2. InTheirPlaces(C, selected, command.schemes)
      BY <2>6, <2>8, <3>1, CredentialsFacts DEF selected, C
    <3> QED
      BY <3>2 DEF InTheirPlaces
  <2>11. DOMAIN C = places
    BY <2>8, <2>9, <2>10
  <2>12. \A p \in places : C[p] # {} /\ \A n \in C[p] : n \in asked /\ p = place(n)
    <3> TAKE p \in places
    <3>1. C[p] # {} /\ \A n \in C[p] : \E k \in DOMAIN selected :
             n = selected[k] /\ p = PlaceOf(SchemeNamed(command.schemes, n))
      BY <2>10, <2>11
    <3>2. \A n \in C[p] : n \in asked /\ p = PlaceOf(SchemeNamed(command.schemes, n))
      BY <2>8, <3>1
    <3> QED
      BY <2>9, <3>1, <3>2
  <2>13. CASE ownCookie
    BY <1>7, <2>13 DEF MeetTheContract, ruling
  <2>14. CASE ~ownCookie
    <3>1. \A p \in places : ~InRequest(command, parsed, p)
      <4> SUFFICES ASSUME NEW n \in asked, InRequest(command, parsed, place(n)) PROVE FALSE
        OBVIOUS
      <4>1. PICK input \in command.inputs : place(n) = [target |-> input.target, key |-> input.key]
        BY DEF InRequest
      <4>2. /\ input \in call.operation.inputs
            /\ \A scheme \in ToSet(command.schemes) :
                 \/ PlaceOf(scheme).key = "cookie"
                 \/ PlaceOf(scheme) # [target |-> input.target, key |-> input.key]
        BY <1>3 DEF CommandInputs
      <4>3. place(n).key = "cookie"
        BY <2>9, <4>1, <4>2
      <4>4. input.key = "cookie"
        BY <4>1, <4>3
      <4> QED
        BY <2>14, <4>2, <4>4
    <3> HIDE DEF places
    <3>2. {p \in DOMAIN C : ~InRequest(command, parsed, p)} = places
      BY <2>11, <3>1
    <3>3. DOMAIN merged = places /\ \A p \in places : merged[p] = C[p]
      BY <1>5, <3>2
    <3> DEFINE carried == UNION {merged[p] : p \in DOMAIN merged}
    <3>4. \A n : n \in carried <=> \E p \in places : n \in C[p]
      BY <3>3
    <3> HIDE DEF carried
    <3>5. carried \subseteq asked
      BY <2>12, <3>4
    <3>6. ASSUME Cardinality(places) = Cardinality(asked) PROVE carried = asked
      <4> DEFINE f == [n \in asked |-> place(n)]
      <4>1. f \in Surjection(asked, places)
        BY DEF Surjection, places
      <4>2. IsFiniteSet(asked)
        <5> DEFINE g == [k \in 1 .. Len(selected) |-> selected[k]]
        <5>1. Len(selected) \in Nat /\ DOMAIN selected = 1 .. Len(selected)
          BY <2>8
        <5>2. g \in Surjection(1 .. Len(selected), asked)
          BY <2>8, <5>1 DEF Surjection
        <5>3. IsFiniteSet(1 .. Len(selected))
          BY <5>1, FS_Interval
        <5> HIDE DEF g
        <5> QED
          BY <5>2, <5>3, FS_Surjection
      <4>3. f \in Injection(asked, places)
        <5> HIDE DEF f
        <5> QED
          BY <3>6, <4>1, <4>2, FS_SurjSameCardinalityImpliesInj
      <4>4. \A a, b \in asked : place(a) = place(b) => a = b
        BY <4>3 DEF Injection, IsInjective
      <4>5. ASSUME NEW n \in asked PROVE n \in carried
        <5>1. place(n) \in places
          BY DEF places
        <5> HIDE DEF place
        <5>2. PICK o \in C[place(n)] : TRUE
          BY <2>12, <5>1
        <5>3. o = n
          BY <2>12, <4>4, <5>1, <5>2
        <5> QED
          BY <3>4, <5>1, <5>2, <5>3
      <4> QED
        BY <3>5, <4>5
    <3>7. {"auth-" \o n : n \in asked} \subseteq given
      <4> SUFFICES ASSUME NEW n \in asked PROVE "auth-" \o n \in given
        OBVIOUS
      <4>1. Flag(SchemeNamed(command.schemes, n)) = "auth-" \o n
        BY <2>9 DEF Flag
      <4> QED
        BY <1>2, <2>9, <4>1
    <3> QED
      BY <1>7, <2>6, <3>3, <3>5, <3>6, <3>7
         DEF MeetTheContract, ruling, merged, command, parsed, asked, carried, places,
             given, declared
  <2> QED
    BY <2>13, <2>14
<1> QED
  BY <1>6, <1>7

\* What has been sent by a command meets its contract.
CredentialsInv ==
  chapter = "command" =>
    /\ invocation \in Invocations
    /\ (phase # "unsent" /\ plan.early = "none") => MeetTheContract(sent, invocation)

LEMMA CredentialsInvNext ==
  ASSUME CommandInv, CredentialsInv, [Next]_vars
  PROVE  CredentialsInv'
<1>1. CASE UNCHANGED <<chapter, callVars, commandVars>>
  BY <1>1 DEF CredentialsInv, callVars, commandVars
<1>2. CASE Responses \/ Routes \/ Handlers \/ Messages \/ UNCHANGED vars
  BY <1>1, <1>2 DEF Responses, Routes, Handlers, InHandlers, Messages, vars
<1>3. CASE Call
  BY <1>3 DEF Call, InCall, CredentialsInv
<1>4. CASE Command
  <2>1. chapter = "command" /\ chapter' = "command" /\ CommandNext
    BY <1>4 DEF Command, InCommand
  <2>2. ASSUME UNCHANGED <<invocation, sent, plan>>, phase' = phase \/ phase # "unsent"
        PROVE  CredentialsInv'
    BY <2>1, <2>2 DEF CredentialsInv
  <2>3. CASE Start \/ ReadBody \/ Report
    BY <2>2, <2>3 DEF Start, ReadBody, Report, callVars
  <2>4. CASE Sigint
    BY <2>2, <2>4 DEF Sigint, Abort, CallerDies, Active
  <2>5. CASE CallRuns
    <3>1. UNCHANGED plan /\ phase # "unsent"
      BY <2>1, <2>5 DEF CallRuns, CommandInv, CallOfCommand, Cancellation, Server,
         FetchCancelled, BodyCancelled, FetchRejects, FetchAnswers, BodyEnds, BodyBreaks
    <3> QED
      BY <2>2, <2>5, <3>1 DEF CallRuns, commandVars
  <2>6. CASE Execute
    <3>1. \/ UNCHANGED <<sent, callVars>>
          \/ /\ ~SecurityMissing(CommandOf(invocation), ParseArguments(invocation.argv))
             /\ plan'.early = invocation.early
             /\ invocation.early = "none" =>
                  sent' = MergedCredentials(CommandOf(invocation), ParseArguments(invocation.argv))
      BY <2>6 DEF Execute, Send
    <3>2. UNCHANGED invocation
      BY <2>6 DEF Execute
    <3>3. CASE UNCHANGED <<sent, callVars>>
      BY <2>2, <3>2, <3>3 DEF callVars
    <3>4. CASE /\ ~SecurityMissing(CommandOf(invocation), ParseArguments(invocation.argv))
               /\ plan'.early = invocation.early
               /\ invocation.early = "none" =>
                    sent' = MergedCredentials(CommandOf(invocation), ParseArguments(invocation.argv))
      <4>1. invocation \in Invocations
        BY <2>1 DEF CredentialsInv
      <4>2. plan'.early = "none" => MeetTheContract(sent', invocation)
        BY <3>4, <4>1, MergedMeet
      <4> QED
        BY <3>2, <4>1, <4>2 DEF CredentialsInv
    <3> QED
      BY <3>1, <3>3, <3>4
  <2> QED
    BY <2>1, <2>3, <2>4, <2>5, <2>6 DEF CommandNext
<1> QED
  BY <1>2, <1>3, <1>4 DEF Next

\* Whatever security a contract declares on its three levels, a command's request
\* carries the credentials of one alternative of it, or none if it asks for none.
THEOREM CredentialsAsAsked == Spec => []CredentialsMeetTheContract
<1>1. Init => CredentialsInv
  BY DEF Init, CommandInit, CallInit, CredentialsInv
<1>2. CommandInv /\ CredentialsInv /\ [Next]_vars => CredentialsInv'
  BY CredentialsInvNext
<1>3. CommandInv /\ CredentialsInv => CredentialsMeetTheContract
  BY DEF CommandInv, CredentialsInv, CredentialsMeetTheContract
<1> QED
  BY <1>1, <1>2, <1>3, CommandInvariance, PTL DEF Spec

-----------------------------------------------------------------------------
(* The responses of a contract                                             *)

\* An array of responses: named, and with an array for the lineage of a derived one.
AreResponses(R, T) ==
  /\ R \in Seq({R[k] : k \in DOMAIN R})
  /\ \A k \in DOMAIN R :
       /\ R[k].name \in T /\ R[k].name # NoDerived
       /\ R[k].derived # NoDerived => R[k].derived.lineage \in Seq(T)

\* The walk up from a response, turn by turn
IsWalk(f, response, R) ==
  /\ f[0] = ChainOfOne(response)
  /\ \A n \in 0 .. Len(R) : f[n + 1] = Climb(f[n], R)

LEMMA ChainIsWalked ==
  ASSUME NEW response, NEW R, Len(R) \in Nat
  PROVE  \E f : IsWalk(f, response, R) /\ DerivedResponseChain(response, R) = f[Len(R) + 1]
<1> DEFINE N == Len(R) + 1
           Walks(f, m) ==
             f = [n \in 0 .. m |-> IF n = 0 THEN ChainOfOne(response) ELSE Climb(f[n - 1], R)]
           Reached == {m \in 0 .. N : \E f : Walks(f, m)}
           W == CHOOSE f : Walks(f, N)
<1>1. N \in Nat
  OBVIOUS
<1>2. 0 \in Reached
  <2>1. Walks([n \in 0 .. 0 |-> ChainOfOne(response)], 0)
    OBVIOUS
  <2> HIDE DEF Walks
  <2>2. \E f : Walks(f, 0)
    BY <2>1
  <2> QED
    BY <1>1, <2>2
<1>3. \A m \in Reached : m \in Nat /\ m < N => m + 1 \in Reached
  <2> TAKE m \in Reached
  <2> SUFFICES ASSUME m \in Nat, m < N PROVE \E f : Walks(f, m + 1)
    <3> HIDE DEF Walks
    <3> QED
      BY <1>1
  <2>1. m \in Nat
    OBVIOUS
  <2>2. PICK f : Walks(f, m)
    OBVIOUS
  <2> DEFINE g == [n \in 0 .. m + 1 |-> IF n <= m THEN f[n] ELSE Climb(f[n - 1], R)]
  <2>3. \A n \in 0 .. m : g[n] = f[n]
    BY <2>1
  <2>4. \A n \in 0 .. m : f[n] = IF n = 0 THEN ChainOfOne(response) ELSE Climb(f[n - 1], R)
    BY <2>2
  <2>5. \A n \in 0 .. m + 1 :
          g[n] = IF n = 0 THEN ChainOfOne(response) ELSE Climb(g[n - 1], R)
    <3> TAKE n \in 0 .. m + 1
    <3>1. CASE n = m + 1
      BY <2>1, <2>3, <3>1
    <3>2. CASE n <= m
      <4>1. n = 0 \/ n - 1 \in 0 .. m
        BY <2>1, <3>2
      <4> HIDE DEF g
      <4> QED
        BY <2>1, <2>3, <2>4, <3>2, <4>1
    <3> QED
      BY <2>1, <3>1, <3>2
  <2>6. Walks(g, m + 1)
    BY <2>5
  <2> QED
    BY <2>6
<1>4. Walks(W, N)
  <2> HIDE DEF Walks
  <2>1. N \in Reached
    <3> HIDE DEF Reached
    <3> QED
      BY <1>1, <1>2, <1>3, UpTo
  <2> QED
    BY <2>1
<1>5. DerivedResponseChain(response, R) = W[N]
  BY DEF DerivedResponseChain
<1> HIDE DEF W
<1>6. \A n \in 0 .. N : W[n] = IF n = 0 THEN ChainOfOne(response) ELSE Climb(W[n - 1], R)
  BY <1>4
<1>7. \A n \in 0 .. Len(R) : n + 1 \in 0 .. N /\ n + 1 # 0 /\ n + 1 - 1 = n
  OBVIOUS
<1>8. IsWalk(W, response, R)
  <2>1. \A n \in 0 .. Len(R) : W[n + 1] = Climb(W[n], R)
    BY <1>6, <1>7
  <2>2. W[0] = ChainOfOne(response)
    BY <1>1, <1>6
  <2> QED
    BY <2>1, <2>2 DEF IsWalk
<1> QED
  BY <1>5, <1>8

\* A name stands for one canonical response of a list without duplicates.
LEMMA CanonicalFacts ==
  ASSUME NEW R, NEW T, AreResponses(R, T), ~DuplicateName(R)
  PROVE  /\ \A k, l \in DOMAIN R : R[k].name = R[l].name => k = l
         /\ \A k \in DOMAIN R : R[k].named =>
              R[k].name \in CanonicalNames(R) /\ Canonical(R, R[k].name) = R[k]
         /\ \A name \in CanonicalNames(R) : \E k \in DOMAIN R :
              R[k].named /\ R[k].name = name /\ Canonical(R, name) = R[k]
<1>1. DOMAIN R = 1 .. Len(R) /\ Len(R) \in Nat
  BY DEF AreResponses
<1>2. \A k, l \in DOMAIN R : R[k].name = R[l].name => k = l
  BY <1>1 DEF DuplicateName
<1>3. ASSUME NEW k \in DOMAIN R, R[k].named
      PROVE  R[k].name \in CanonicalNames(R) /\ Canonical(R, R[k].name) = R[k]
  <2>1. R[k].name \in CanonicalNames(R)
    BY <1>3 DEF CanonicalNames
  <2> DEFINE l == CHOOSE l \in DOMAIN R : R[l].named /\ R[l].name = R[k].name
  <2>2. l \in DOMAIN R /\ R[l].name = R[k].name
    BY <1>3
  <2>3. l = k
    <3> HIDE DEF l
    <3> QED
      BY <1>2, <2>2
  <2>4. Canonical(R, R[k].name) = R[l]
    BY DEF Canonical
  <2> QED
    BY <2>1, <2>3, <2>4
<1> QED
  BY <1>2, <1>3 DEF CanonicalNames

\* An error ends a walk, and so does a root.
LEMMA WalkStops ==
  ASSUME NEW R, Len(R) \in Nat, NEW f, NEW response, IsWalk(f, response, R),
         NEW m \in 0 .. Len(R) + 1, f[m].parent = NoDerived \/ f[m].error # NoError
  PROVE  f[Len(R) + 1] = f[m]
<1> DEFINE Same == {j \in 0 .. Len(R) + 1 - m : f[m + j] = f[m]}
<1>1. 0 \in Same
  OBVIOUS
<1>2. \A j \in Same : j \in Nat /\ j < Len(R) + 1 - m => j + 1 \in Same
  <2> TAKE j \in Same
  <2> SUFFICES ASSUME j \in Nat, j < Len(R) + 1 - m PROVE j + 1 \in Same
    OBVIOUS
  <2>1. m + j \in 0 .. Len(R) /\ f[m + j] = f[m]
    OBVIOUS
  <2>2. f[m + j + 1] = Climb(f[m + j], R)
    BY <2>1 DEF IsWalk
  <2>3. Climb(f[m], R) = f[m]
    BY DEF Climb
  <2>4. m + (j + 1) = m + j + 1 /\ j + 1 \in 0 .. Len(R) + 1 - m
    OBVIOUS
  <2> QED
    BY <2>1, <2>2, <2>3, <2>4
<1>3. Len(R) + 1 - m \in Nat
  OBVIOUS
<1>4. Len(R) + 1 - m \in Same
  <2> HIDE DEF Same
  <2>1. \A j \in 0 .. Len(R) + 1 - m : j \in Same
    BY <1>1, <1>2, <1>3, UpTo
  <2> QED
    BY <1>3, <2>1
<1>5. m + (Len(R) + 1 - m) = Len(R) + 1
  OBVIOUS
<1> QED
  BY <1>4, <1>5

\* One turn without an error: a canonical parent, new to the chain, is put in front.
LEMMA ClimbFacts ==
  ASSUME NEW walk, NEW R, walk = [chain |-> walk.chain, parent |-> walk.parent, error |-> NoError],
         walk.parent # NoDerived
  PROVE  /\ walk.parent \in ToSet(walk.chain) \/ walk.parent \notin CanonicalNames(R)
              => Climb(walk, R).error # NoError
         /\ walk.parent \notin ToSet(walk.chain) /\ walk.parent \in CanonicalNames(R)
              => Climb(walk, R) = [chain |-> <<walk.parent>> \o walk.chain,
                                   parent |-> ParentOf(Canonical(R, walk.parent)),
                                   error |-> NoError]
<1>1. walk.error = NoError
  OBVIOUS
<1>2. \A e \in STRING : [walk EXCEPT !.error = e].error = e
  OBVIOUS
<1> QED
  BY <1>1, <1>2 DEF Climb, NoError

Linked(R) == \A k \in DOMAIN R : Continues(R[k], R)

LEMMA LinkFacts ==
  ASSUME NEW R, NEW T, AreResponses(R, T), ~DuplicateName(R), Linked(R), NEW k \in DOMAIN R
  PROVE  /\ LineageOf(R[k]) \in Seq(T)
         /\ R[k].derived = NoDerived => LineageOf(R[k]) = << >> /\ DepthOf(R[k]) = 0
         /\ R[k].derived # NoDerived =>
              \E p \in DOMAIN R :
                /\ R[k].derived.parent = R[p].name
                /\ R[p].name \in CanonicalNames(R) /\ Canonical(R, R[p].name) = R[p]
                /\ LineageOf(R[p]) \in Seq(T)
                /\ LineageOf(R[k]) = Append(LineageOf(R[p]), R[k].name)
                /\ DepthOf(R[k]) = DepthOf(R[p]) + 1
<1>1. \A l \in DOMAIN R : LineageOf(R[l]) \in Seq(T)
  BY DEF AreResponses, LineageOf
<1>2. ASSUME R[k].derived # NoDerived
      PROVE  \E p \in DOMAIN R :
                /\ R[k].derived.parent = R[p].name
                /\ R[p].name \in CanonicalNames(R) /\ Canonical(R, R[p].name) = R[p]
                /\ LineageOf(R[p]) \in Seq(T)
                /\ LineageOf(R[k]) = Append(LineageOf(R[p]), R[k].name)
                /\ DepthOf(R[k]) = DepthOf(R[p]) + 1
  <2> DEFINE parent == R[k].derived.parent
  <2>1. /\ parent \in CanonicalNames(R)
        /\ R[k].derived.depth = DepthOf(Canonical(R, parent)) + 1
        /\ R[k].derived.lineage = Append(LineageOf(Canonical(R, parent)), R[k].name)
    BY <1>2 DEF Linked, Continues
  <2>2. PICK p \in DOMAIN R : R[p].named /\ R[p].name = parent /\ Canonical(R, parent) = R[p]
    BY <2>1, CanonicalFacts
  <2>3. LineageOf(R[k]) = R[k].derived.lineage /\ DepthOf(R[k]) = R[k].derived.depth
    BY <1>2 DEF LineageOf, DepthOf
  <2> QED
    BY <1>1, <2>1, <2>2, <2>3
<1>3. R[k].derived = NoDerived => LineageOf(R[k]) = << >> /\ DepthOf(R[k]) = 0
  BY DEF LineageOf, DepthOf
<1> QED
  BY <1>1, <1>2, <1>3

\* In a list of linked responses the depth of each is the length of its lineage, and
\* at every depth up to it there is a response, the one its lineage names there.
Layered(R, k) ==
  LET lineage == LineageOf(R[k])
  IN  /\ DepthOf(R[k]) = Len(lineage)
      /\ \A i \in 0 .. Len(lineage) : \E l \in DOMAIN R :
           Len(LineageOf(R[l])) = i /\ (i > 0 => R[l].name = lineage[i])

LEMMA Layers ==
  ASSUME NEW R, NEW T, AreResponses(R, T), ~DuplicateName(R), Linked(R), NEW k \in DOMAIN R
  PROVE  Layered(R, k)
<1> DEFINE N == Len(LineageOf(R[k]))
           Good == {n \in 0 .. N : \A l \in DOMAIN R : Len(LineageOf(R[l])) <= n => Layered(R, l)}
<1>1. \A l \in DOMAIN R : LineageOf(R[l]) \in Seq(T) /\ Len(LineageOf(R[l])) \in Nat
  <2> TAKE l \in DOMAIN R
  <2>1. LineageOf(R[l]) \in Seq(T)
    BY LinkFacts
  <2> QED
    BY <2>1
<1>2. N \in Nat
  BY <1>1
<1>3. ASSUME NEW l \in DOMAIN R, R[l].derived = NoDerived PROVE Layered(R, l)
  <2>1. LineageOf(R[l]) = << >> /\ DepthOf(R[l]) = 0
    BY <1>3, LinkFacts
  <2>2. \A i \in 0 .. Len(LineageOf(R[l])) : i = 0 /\ Len(LineageOf(R[l])) = i
    BY <2>1
  <2> QED
    BY <2>1, <2>2 DEF Layered
<1>4. ASSUME NEW n \in Nat, NEW l \in DOMAIN R, Len(LineageOf(R[l])) <= n + 1,
             R[l].derived # NoDerived,
             \A p \in DOMAIN R : Len(LineageOf(R[p])) <= n => Layered(R, p)
      PROVE  Layered(R, l)
  <2>1. PICK p \in DOMAIN R :
          /\ LineageOf(R[p]) \in Seq(T)
          /\ LineageOf(R[l]) = Append(LineageOf(R[p]), R[l].name)
          /\ DepthOf(R[l]) = DepthOf(R[p]) + 1
    BY <1>4, LinkFacts
  <2> DEFINE up == LineageOf(R[p])
             down == LineageOf(R[l])
  <2>2. R[l].name \in T
    BY DEF AreResponses
  <2>3. /\ Len(up) \in Nat /\ Len(down) = Len(up) + 1 /\ down[Len(up) + 1] = R[l].name
        /\ \A i \in 1 .. Len(up) : down[i] = up[i]
    <3> HIDE DEF up
    <3> QED
      BY <2>1, <2>2 DEF up
  <2>4. Layered(R, p)
    <3>1. Len(up) <= n
      BY <1>4, <2>3
    <3> QED
      BY <1>4, <3>1
  <2>5. ASSUME NEW i \in 0 .. Len(down)
        PROVE  \E m \in DOMAIN R : Len(LineageOf(R[m])) = i /\ (i > 0 => R[m].name = down[i])
    <3>1. i = Len(up) + 1 \/ i \in 0 .. Len(up)
      BY <2>3
    <3>2. CASE i = Len(up) + 1
      BY <2>3, <3>2
    <3>3. CASE i \in 0 .. Len(up)
      <4>1. PICK m \in DOMAIN R : Len(LineageOf(R[m])) = i /\ (i > 0 => R[m].name = up[i])
        BY <2>4, <3>3 DEF Layered
      <4>2. i > 0 => up[i] = down[i]
        BY <2>3, <3>3
      <4> QED
        BY <4>1, <4>2
    <3> QED
      BY <3>1, <3>2, <3>3
  <2>6. DepthOf(R[l]) = Len(down)
    BY <2>1, <2>3, <2>4 DEF Layered
  <2> QED
    BY <2>5, <2>6 DEF Layered
<1>5. 0 \in Good
  <2> SUFFICES ASSUME NEW l \in DOMAIN R, Len(LineageOf(R[l])) <= 0 PROVE Layered(R, l)
    BY <1>2
  <2>1. ASSUME R[l].derived # NoDerived PROVE FALSE
    <3>1. PICK p \in DOMAIN R : /\ LineageOf(R[p]) \in Seq(T)
                                /\ LineageOf(R[l]) = Append(LineageOf(R[p]), R[l].name)
      BY <2>1, LinkFacts
    <3>2. Len(LineageOf(R[l])) = Len(LineageOf(R[p])) + 1
      BY <3>1
    <3> QED
      BY <1>1, <3>2
  <2> QED
    BY <1>3, <2>1
<1>6. \A n \in Good : n \in Nat /\ n < N => n + 1 \in Good
  <2> TAKE n \in Good
  <2> SUFFICES ASSUME n \in Nat, n < N, NEW l \in DOMAIN R, Len(LineageOf(R[l])) <= n + 1
               PROVE  Layered(R, l)
    BY <1>2
  <2> QED
    BY <1>3, <1>4
<1>7. N \in Good
  <2> HIDE DEF Good, N
  <2>1. \A n \in 0 .. N : n \in Good
    BY <1>2, <1>5, <1>6, UpTo
  <2> QED
    BY <1>2, <2>1
<1> QED
  BY <1>2, <1>7

LEMMA Counted ==
  ASSUME NEW n \in Nat
  PROVE  IsFiniteSet(1 .. n) /\ Cardinality(1 .. n) = n
<1>1. 1 \in Int /\ n \in Int
  OBVIOUS
<1>2. IsFiniteSet(1 .. n) /\ Cardinality(1 .. n) = IF 1 > n THEN 0 ELSE n - 1 + 1
  BY <1>1, FS_Interval, Zenon
<1> QED
  BY <1>2

\* A chain of linked responses is no longer than the list.
LEMMA LayersFit ==
  ASSUME NEW R, NEW T, AreResponses(R, T), ~DuplicateName(R), Linked(R), NEW k \in DOMAIN R
  PROVE  Len(LineageOf(R[k])) \in Nat /\ Len(LineageOf(R[k])) < Len(R)
<1> DEFINE D == Len(LineageOf(R[k]))
           at == [i \in 0 .. D |-> CHOOSE l \in DOMAIN R : Len(LineageOf(R[l])) = i]
<1>1. LineageOf(R[k]) \in Seq(T)
  BY LinkFacts
<1>2. D \in Nat /\ Len(R) \in Nat /\ DOMAIN R = 1 .. Len(R)
  BY <1>1 DEF AreResponses
<1>3. Layered(R, k)
  BY Layers
<1>4. ASSUME NEW i \in 0 .. D PROVE at[i] \in 1 .. Len(R) /\ Len(LineageOf(R[at[i]])) = i
  <2>1. \E l \in DOMAIN R : Len(LineageOf(R[l])) = i
    BY <1>3 DEF Layered
  <2> QED
    BY <1>2, <2>1
<1>5. at \in [0 .. D -> 1 .. Len(R)]
  <2> HIDE DEF D
  <2> QED
    BY <1>4
<1>6. \A i, j \in 0 .. D : at[i] = at[j] => i = j
  <2> HIDE DEF at, D
  <2> QED
    BY <1>4
<1> HIDE DEF at, D
<1>7. at \in Injection(0 .. D, 1 .. Len(R))
  BY <1>5, <1>6 DEF Injection, IsInjective
<1>8. IsFiniteSet(1 .. Len(R)) /\ Cardinality(1 .. Len(R)) = Len(R)
  BY <1>2, Counted
<1>9. IsFiniteSet(0 .. D) /\ Cardinality(0 .. D) = D + 1
  <2>1. 0 \in Int /\ D \in Int /\ D >= 0
    BY <1>2
  <2>2. IsFiniteSet(0 .. D) /\ Cardinality(0 .. D) = IF 0 > D THEN 0 ELSE D - 0 + 1
    BY <2>1, FS_Interval, Zenon
  <2> QED
    BY <2>1, <2>2
<1>10. Cardinality(0 .. D) <= Cardinality(1 .. Len(R))
  BY <1>7, <1>8, <1>9, FS_Injection
<1> QED
  BY <1>2, <1>8, <1>9, <1>10 DEF D

\* The link of a derived response as arithmetic: its lineage is the parent's and one more.
LEMMA LinkedUp ==
  ASSUME NEW R, NEW T, AreResponses(R, T), ~DuplicateName(R), Linked(R), NEW k \in DOMAIN R,
         R[k].derived # NoDerived
  PROVE  \E p \in DOMAIN R :
           /\ R[k].derived.parent = R[p].name
           /\ R[p].name \in CanonicalNames(R) /\ Canonical(R, R[p].name) = R[p]
           /\ Len(LineageOf(R[p])) \in Nat
           /\ Len(LineageOf(R[k])) = Len(LineageOf(R[p])) + 1
           /\ LineageOf(R[k])[Len(LineageOf(R[k]))] = R[k].name
           /\ \A i \in 1 .. Len(LineageOf(R[p])) : LineageOf(R[k])[i] = LineageOf(R[p])[i]
<1>1. PICK p \in DOMAIN R :
        /\ R[k].derived.parent = R[p].name
        /\ R[p].name \in CanonicalNames(R) /\ Canonical(R, R[p].name) = R[p]
        /\ LineageOf(R[p]) \in Seq(T)
        /\ LineageOf(R[k]) = Append(LineageOf(R[p]), R[k].name)
  BY LinkFacts
<1>2. R[k].name \in T
  BY DEF AreResponses
<1>3. /\ Len(LineageOf(R[p])) \in Nat
      /\ Len(LineageOf(R[k])) = Len(LineageOf(R[p])) + 1
      /\ LineageOf(R[k])[Len(LineageOf(R[p])) + 1] = R[k].name
      /\ \A i \in 1 .. Len(LineageOf(R[p])) : LineageOf(R[k])[i] = LineageOf(R[p])[i]
  BY <1>1, <1>2
<1> QED
  BY <1>1, <1>3

LEMMA LinkedMetadata ==
  ASSUME NEW R, NEW T, AreResponses(R, T), ~DuplicateName(R), Linked(R), NEW k \in DOMAIN R
  PROVE  MetadataError(R[k]) = NoError
<1>0. R[k].derived = NoDerived => MetadataError(R[k]) = NoError
  BY DEF MetadataError
<1> SUFFICES ASSUME R[k].derived # NoDerived PROVE MetadataError(R[k]) = NoError
  BY <1>0
<1> DEFINE derived == R[k].derived
           L == LineageOf(R[k])
<1>1. derived.lineage = L /\ derived.depth = DepthOf(R[k])
  BY DEF LineageOf, DepthOf
<1>2. PICK p \in DOMAIN R :
           /\ derived.parent = R[p].name
           /\ Len(LineageOf(R[p])) \in Nat
           /\ Len(L) = Len(LineageOf(R[p])) + 1
           /\ L[Len(L)] = R[k].name
           /\ \A i \in 1 .. Len(LineageOf(R[p])) : L[i] = LineageOf(R[p])[i]
  BY LinkedUp
<1>3. L \in Seq(T)
  BY LinkFacts
<1>4. \A a, b \in DOMAIN R : R[a].name = R[b].name => a = b
  BY CanonicalFacts
<1>5. Layered(R, k)
  BY Layers
<1>6. derived.depth = Len(L)
  BY <1>1, <1>5 DEF Layered
<1>7. derived.parent # R[k].name
  <2> SUFFICES ASSUME derived.parent = R[k].name PROVE FALSE
    OBVIOUS
  <2>1. p = k
    BY <1>2, <1>4
  <2> HIDE DEF derived
  <2> QED
    BY <1>2, <2>1
<1>8. L # << >> /\ Last(L) = R[k].name
  <2>1. L # << >>
    <3> HIDE DEF L
    <3> QED
      BY <1>2, <1>3
  <2> QED
    BY <1>2, <2>1 DEF Last
<1>9. ~ \E i, j \in DOMAIN L : i < j /\ L[i] = L[j]
  <2> SUFFICES ASSUME NEW i \in DOMAIN L, NEW j \in DOMAIN L, i < j, L[i] = L[j] PROVE FALSE
    OBVIOUS
  <2>1. i \in 0 .. Len(L) /\ j \in 0 .. Len(L) /\ i > 0 /\ j > 0
    <3> HIDE DEF L
    <3> QED
      BY <1>3
  <2>2. PICK a \in DOMAIN R : Len(LineageOf(R[a])) = i /\ R[a].name = L[i]
    BY <1>5, <2>1 DEF Layered
  <2>3. PICK b \in DOMAIN R : Len(LineageOf(R[b])) = j /\ R[b].name = L[j]
    BY <1>5, <2>1 DEF Layered
  <2>4. a = b
    BY <1>4, <2>2, <2>3
  <2> HIDE DEF L
  <2>5. i = j
    BY <2>2, <2>3, <2>4
  <2> QED
    BY <2>1, <2>5
<1>10. Len(L) > 1 => L[Len(L) - 1] = derived.parent
  <2> SUFFICES ASSUME Len(L) > 1 PROVE L[Len(L) - 1] = derived.parent
    OBVIOUS
  <2> HIDE DEF L, derived
  <2>1. Len(L) - 1 = Len(LineageOf(R[p])) /\ Len(LineageOf(R[p])) > 0
    BY <1>2
  <2>2. R[p].derived # NoDerived
    <3>1. R[p].derived = NoDerived => LineageOf(R[p]) = << >>
      BY LinkFacts
    <3> QED
      BY <2>1, <3>1
  <2>3. LineageOf(R[p])[Len(LineageOf(R[p]))] = R[p].name
    BY <2>2, LinkedUp
  <2> QED
    BY <1>2, <2>1, <2>3
<1> HIDE DEF L
<1>11. ~(\/ derived.lineage = << >>
         \/ Last(derived.lineage) # R[k].name
         \/ Len(derived.lineage) # derived.depth)
  BY <1>1, <1>6, <1>8
<1>12. ~ \E i, j \in DOMAIN derived.lineage : i < j /\ derived.lineage[i] = derived.lineage[j]
  BY <1>1, <1>9, Zenon
<1>13. ~(derived.depth > 1 /\ derived.lineage[derived.depth - 1] # derived.parent)
  BY <1>1, <1>6, <1>10
<1> QED
  BY <1>7, <1>11, <1>12, <1>13 DEF MetadataError

\* Something in front of a sequence
LEMMA InFront ==
  ASSUME NEW T, NEW s \in Seq(T), NEW x \in T
  PROVE  /\ <<x>> \o s \in Seq(T) /\ Len(<<x>> \o s) = Len(s) + 1 /\ (<<x>> \o s)[1] = x
         /\ \A i \in 1 .. Len(s) : (<<x>> \o s)[i + 1] = s[i]
         /\ Tail(<<x>> \o s) = s
<1>1. <<x>> \in Seq(T) /\ Len(<<x>>) = 1 /\ Len(s) \in Nat /\ <<x>>[1] = x
  OBVIOUS
<1>2. <<x>> \o s \in Seq(T) /\ Len(<<x>> \o s) = Len(s) + 1 /\ (<<x>> \o s)[1] = x
  BY <1>1
<1>3. \A i \in 1 .. Len(s) : (<<x>> \o s)[i + 1] = s[i]
  BY <1>1
<1>4. Tail(<<x>> \o s) = s
  <2> DEFINE t == Tail(<<x>> \o s)
  <2>1. t \in Seq(T) /\ Len(t) = Len(s) /\ \A i \in 1 .. Len(s) : t[i] = (<<x>> \o s)[i + 1]
    BY <1>1, <1>2
  <2> HIDE DEF t
  <2>2. \A i \in 1 .. Len(s) : t[i] = s[i]
    BY <1>3, <2>1
  <2>3. t = s
    BY <2>1, <2>2, SeqEqual
  <2> QED
    BY <2>3 DEF t
<1> QED
  BY <1>2, <1>3, <1>4

\* The walk up from a linked response: after n turns it stands at the ancestor n
\* layers up, and the chain is that ancestor's name and the lineage from there on.
StandsAt(walk, R, k, n) ==
  LET lineage == LineageOf(R[k])
  IN  \E l \in DOMAIN R :
        /\ Len(LineageOf(R[l])) = Len(lineage) - n
        /\ \A i \in 1 .. Len(lineage) - n : LineageOf(R[l])[i] = lineage[i]
        /\ walk = [chain |-> <<R[l].name>> \o SubSeq(lineage, Len(lineage) - n + 1, Len(lineage)),
                   parent |-> ParentOf(R[l]), error |-> NoError]

LEMMA StandsHigher ==
  ASSUME NEW R, NEW T, AreResponses(R, T), ~DuplicateName(R), Linked(R), NEW k \in DOMAIN R,
         NEW n \in Nat, n < Len(LineageOf(R[k])), NEW walk, StandsAt(walk, R, k, n)
  PROVE  StandsAt(Climb(walk, R), R, k, n + 1)
<1> DEFINE L == LineageOf(R[k])
           D == Len(L)
           rest == SubSeq(L, D - n + 1, D)
<1>1. L \in Seq(T) /\ D \in Nat /\ n < D
  <2>1. L \in Seq(T)
    BY LinkFacts
  <2> QED
    BY <2>1
<1>2. PICK l \in DOMAIN R :
        /\ Len(LineageOf(R[l])) = D - n
        /\ \A i \in 1 .. D - n : LineageOf(R[l])[i] = L[i]
        /\ walk = [chain |-> <<R[l].name>> \o rest, parent |-> ParentOf(R[l]), error |-> NoError]
  BY DEF StandsAt
<1>3. R[l].derived # NoDerived
  <2> SUFFICES ASSUME R[l].derived = NoDerived PROVE FALSE
    OBVIOUS
  <2>1. LineageOf(R[l]) = << >>
    BY LinkFacts
  <2>2. Len(LineageOf(R[l])) = 0
    BY <2>1
  <2> HIDE DEF L
  <2> QED
    BY <1>1, <1>2, <2>2
<1>4. PICK p \in DOMAIN R :
           /\ R[l].derived.parent = R[p].name
           /\ R[p].name \in CanonicalNames(R) /\ Canonical(R, R[p].name) = R[p]
           /\ Len(LineageOf(R[p])) \in Nat
           /\ Len(LineageOf(R[l])) = Len(LineageOf(R[p])) + 1
           /\ LineageOf(R[l])[Len(LineageOf(R[l]))] = R[l].name
           /\ \A i \in 1 .. Len(LineageOf(R[p])) : LineageOf(R[l])[i] = LineageOf(R[p])[i]
  BY <1>3, LinkedUp
<1>5. R[p].name # NoDerived /\ R[p].name \in T /\ R[l].name \in T
  BY DEF AreResponses
<1>6. walk.parent = R[p].name
  BY <1>2, <1>3, <1>4 DEF ParentOf
<1> HIDE DEF L
<1>7. Len(LineageOf(R[p])) = D - (n + 1) /\ L[D - n] = R[l].name
      /\ \A i \in 1 .. D - (n + 1) : LineageOf(R[p])[i] = L[i]
  <2>1. D - n \in 1 .. D - n /\ D - n - 1 = D - (n + 1) /\ D \in Int
    BY <1>1
  <2>2. Len(LineageOf(R[l])) = D - n /\ Len(LineageOf(R[p])) = D - (n + 1)
    <3>1. Len(LineageOf(R[l])) = D - n
      BY <1>2, Zenon
    <3>2. Len(LineageOf(R[p])) \in Nat /\ Len(LineageOf(R[l])) = Len(LineageOf(R[p])) + 1
      BY <1>4, Zenon
    <3> HIDE DEF D
    <3> QED
      BY <1>1, <3>1, <3>2
  <2>3. L[D - n] = R[l].name
    BY <1>2, <1>4, <2>1, <2>2
  <2>4. \A i \in 1 .. D - (n + 1) : i \in 1 .. D - n
    BY <2>1
  <2> HIDE DEF D
  <2>5. \A i \in 1 .. D - (n + 1) : LineageOf(R[p])[i] = L[i]
    BY <1>2, <1>4, <2>2, <2>4
  <2> QED
    BY <2>2, <2>3, <2>5
<1>8. rest \in Seq(T) /\ Len(rest) = n /\ \A i \in 1 .. n : rest[i] = L[D - n + i]
  BY <1>1
<1>9. <<R[l].name>> \o rest = SubSeq(L, D - (n + 1) + 1, D)
  <2> DEFINE s == <<R[l].name>> \o rest
             t == SubSeq(L, D - (n + 1) + 1, D)
  <2>1. /\ s \in Seq(T) /\ Len(s) = n + 1 /\ s[1] = R[l].name
        /\ \A i \in 1 .. n : s[i + 1] = rest[i]
    <3> HIDE DEF rest
    <3> QED
      BY <1>5, <1>8, InFront
  <2>2. t \in Seq(T) /\ Len(t) = n + 1 /\ \A i \in 1 .. n + 1 : t[i] = L[D - n + i - 1]
    BY <1>1
  <2> HIDE DEF s, t, rest
  <2>3. ASSUME NEW i \in 1 .. n + 1 PROVE s[i] = t[i]
    <3>1. CASE i = 1
      BY <1>1, <1>7, <2>1, <2>2, <3>1
    <3>2. CASE i # 1
      <4>1. i - 1 \in 1 .. n /\ i - 1 + 1 = i
        BY <3>2
      <4>2. s[i] = rest[i - 1]
        BY <2>1, <4>1
      <4>3. rest[i - 1] = L[D - n + (i - 1)] /\ D - n + (i - 1) = D - n + i - 1
        BY <1>1, <1>8, <4>1
      <4> QED
        BY <2>2, <4>2, <4>3
    <3> QED
      BY <3>1, <3>2
  <2> QED
    BY <2>1, <2>2, <2>3, SeqEqual DEF s, t
<1>10. walk.parent \notin ToSet(walk.chain)
  <2> SUFFICES ASSUME walk.parent \in ToSet(walk.chain) PROVE FALSE
    OBVIOUS
  <2>1. walk.chain = SubSeq(L, D - (n + 1) + 1, D)
    BY <1>2, <1>9
  <2>2. PICK j \in 1 .. n + 1 : R[p].name = L[D - (n + 1) + j]
    <3>1. PICK j \in DOMAIN walk.chain : R[p].name = walk.chain[j]
      BY <1>6 DEF ToSet
    <3>2. /\ DOMAIN walk.chain = 1 .. n + 1
          /\ \A i \in 1 .. n + 1 : walk.chain[i] = L[D - (n + 1) + i]
      BY <1>1, <2>1
    <3> QED
      BY <3>1, <3>2
  <2> DEFINE i == D - (n + 1) + j
  <2>3. i \in 0 .. D /\ i > 0 /\ i > D - (n + 1)
    BY <1>1
  <2>4. PICK m \in DOMAIN R : Len(LineageOf(R[m])) = i /\ R[m].name = L[i]
    <3>1. Layered(R, k)
      BY Layers
    <3> HIDE DEF i
    <3> QED
      BY <2>3, <3>1 DEF Layered, L
  <2>5. m = p
    BY <2>2, <2>4, CanonicalFacts
  <2> QED
    BY <1>1, <1>7, <2>3, <2>4, <2>5
<1>11. Climb(walk, R) = [chain |-> <<walk.parent>> \o walk.chain,
                         parent |-> ParentOf(Canonical(R, walk.parent)), error |-> NoError]
  <2>1. walk = [chain |-> walk.chain, parent |-> walk.parent, error |-> NoError]
    BY <1>2
  <2> QED
    BY <1>4, <1>5, <1>6, <1>10, <2>1, ClimbFacts
<1>12. Climb(walk, R) = [chain |-> <<R[p].name>> \o SubSeq(L, D - (n + 1) + 1, D),
                         parent |-> ParentOf(R[p]), error |-> NoError]
  BY <1>2, <1>4, <1>6, <1>9, <1>11
<1> QED
  BY <1>7, <1>12 DEF StandsAt, L

LEMMA LinkedGraph ==
  ASSUME NEW R, NEW T, AreResponses(R, T), ~DuplicateName(R), Linked(R), NEW k \in DOMAIN R
  PROVE  GraphError(R[k], R) = NoError
<1>0. R[k].derived = NoDerived => GraphError(R[k], R) = NoError
  BY DEF GraphError
<1> SUFFICES ASSUME R[k].derived # NoDerived PROVE GraphError(R[k], R) = NoError
  BY <1>0
<1> DEFINE L == LineageOf(R[k])
           D == Len(L)
<1>1. L \in Seq(T) /\ Len(R) \in Nat /\ D \in Nat /\ D < Len(R)
  BY LinkFacts, LayersFit DEF AreResponses
<1>2. PICK f : IsWalk(f, R[k], R) /\ DerivedResponseChain(R[k], R) = f[Len(R) + 1]
  BY <1>1, ChainIsWalked
<1> DEFINE Good == {n \in 0 .. D : StandsAt(f[n], R, k, n)}
<1>3. 0 \in Good
  <2>1. SubSeq(L, D - 0 + 1, D) = << >> /\ D - 0 = D
    BY <1>1
  <2>2. <<R[k].name>> \o << >> = <<R[k].name>>
    OBVIOUS
  <2>3. f[0] = [chain |-> <<R[k].name>>, parent |-> ParentOf(R[k]), error |-> NoError]
    BY <1>2 DEF IsWalk, ChainOfOne
  <2>4. f[0] = [chain |-> <<R[k].name>> \o SubSeq(L, D - 0 + 1, D),
                parent |-> ParentOf(R[k]), error |-> NoError]
    BY <2>1, <2>2, <2>3
  <2>5. StandsAt(f[0], R, k, 0)
    BY <2>1, <2>4 DEF StandsAt
  <2> HIDE DEF L
  <2> QED
    BY <1>1, <2>5
<1>4. \A n \in Good : n \in Nat /\ n < D => n + 1 \in Good
  <2> TAKE n \in Good
  <2> SUFFICES ASSUME n \in Nat, n < D PROVE n + 1 \in Good
    OBVIOUS
  <2>1. StandsAt(Climb(f[n], R), R, k, n + 1)
    BY StandsHigher
  <2>2. f[n + 1] = Climb(f[n], R)
    <3> HIDE DEF D
    <3> QED
      BY <1>1, <1>2 DEF IsWalk
  <2> HIDE DEF D
  <2> QED
    BY <1>1, <2>1, <2>2
<1>5. StandsAt(f[D], R, k, D)
  <2> HIDE DEF Good, D
  <2>1. \A n \in 0 .. D : n \in Good
    BY <1>1, <1>3, <1>4, UpTo
  <2>2. D \in Good
    BY <1>1, <2>1
  <2> QED
    BY <2>2 DEF Good
<1>6. PICK l \in DOMAIN R :
        /\ Len(LineageOf(R[l])) = D - D
        /\ f[D] = [chain |-> <<R[l].name>> \o SubSeq(L, D - D + 1, D),
                   parent |-> ParentOf(R[l]), error |-> NoError]
  BY <1>5 DEF StandsAt
<1> HIDE DEF D, L
<1>7. Len(LineageOf(R[l])) = 0
  BY <1>1, <1>6
<1>8. R[l].derived = NoDerived
  <2> SUFFICES ASSUME R[l].derived # NoDerived PROVE FALSE
    OBVIOUS
  <2>1. PICK p \in DOMAIN R : /\ Len(LineageOf(R[p])) \in Nat
                              /\ Len(LineageOf(R[l])) = Len(LineageOf(R[p])) + 1
    BY LinkedUp
  <2>2. Len(LineageOf(R[p])) + 1 = 0
    BY <1>7, <2>1, Zenon
  <2> QED
    BY <2>1, <2>2
<1>9. f[D].parent = NoDerived /\ f[D].error = NoError
  BY <1>6, <1>8 DEF ParentOf
<1>10. f[Len(R) + 1] = f[D]
  <2>1. D \in 0 .. Len(R) + 1
    BY <1>1
  <2> QED
    BY <1>1, <1>2, <1>9, <2>1, WalkStops
<1>11. SubSeq(L, D - D + 1, D) = L
  <2>1. D - D + 1 = 1 /\ SubSeq(L, 1, D) = L
    BY <1>1 DEF D
  <2> QED
    BY <2>1
<1>12. f[D].chain = <<R[l].name>> \o L
  <2> DEFINE chain == <<R[l].name>> \o SubSeq(L, D - D + 1, D)
  <2>1. f[D] = [chain |-> chain, parent |-> ParentOf(R[l]), error |-> NoError]
    BY <1>6, Zenon
  <2>2. chain = <<R[l].name>> \o L
    BY <1>11, Zenon
  <2> HIDE DEF chain
  <2> QED
    BY <2>1, <2>2
<1>13. Len(f[D].chain) - 1 = D /\ Tail(f[D].chain) = L
  <2>1. R[l].name \in T
    BY DEF AreResponses
  <2>2. Len(<<R[l].name>> \o L) = Len(L) + 1 /\ Tail(<<R[l].name>> \o L) = L
    BY <1>1, <2>1, InFront
  <2> QED
    BY <1>1, <1>12, <2>2 DEF D
<1>14. R[k].derived.lineage = L /\ R[k].derived.depth = D
  <2>1. Layered(R, k)
    BY Layers
  <2> QED
    BY <2>1 DEF Layered, LineageOf, DepthOf, L, D
<1> QED
  BY <1>2, <1>9, <1>10, <1>13, <1>14 DEF GraphError

Clean(R) ==
  \A k \in DOMAIN R : MetadataError(R[k]) = NoError /\ GraphError(R[k], R) = NoError

\* A walk that ends without an error: its chain repeats no name and leads through
\* canonical responses.
Free(walk, R, T) ==
  /\ walk = [chain |-> walk.chain, parent |-> walk.parent, error |-> NoError]
  /\ walk.chain \in Seq(T)
  /\ \A i \in 1 .. Len(walk.chain) : \E l \in DOMAIN R : R[l].name = walk.chain[i]
  /\ \A i, j \in 1 .. Len(walk.chain) : walk.chain[i] = walk.chain[j] => i = j

Climbs(walk, R) ==
  /\ walk.parent \in CanonicalNames(R) /\ walk.parent \notin ToSet(walk.chain)
  /\ Climb(walk, R) = [chain |-> <<walk.parent>> \o walk.chain,
                       parent |-> ParentOf(Canonical(R, walk.parent)), error |-> NoError]

LEMMA FreeWalk ==
  ASSUME NEW R, NEW T, AreResponses(R, T), NEW k \in DOMAIN R, NEW f, IsWalk(f, R[k], R),
         f[Len(R) + 1].error = NoError
  PROVE  /\ \A n \in 0 .. Len(R) :
              /\ Free(f[n], R, T)
              /\ f[n].parent # NoDerived => Len(f[n].chain) = n + 1 /\ Climbs(f[n], R)
         /\ f[Len(R)].parent = NoDerived
<1> DEFINE N == Len(R)
<1>1. N \in Nat /\ DOMAIN R = 1 .. N
  BY DEF AreResponses
<1>2. \A l \in DOMAIN R : R[l].name \in T
  BY DEF AreResponses
<1>3. ASSUME NEW n \in 0 .. N + 1 PROVE f[n].error = NoError
  <2> SUFFICES ASSUME f[n].error # NoError PROVE FALSE
    OBVIOUS
  <2>1. f[N + 1] = f[n]
    BY <1>1, WalkStops
  <2> QED
    BY <2>1
<1>4. ASSUME NEW n \in 0 .. N, Free(f[n], R, T), f[n].parent # NoDerived
      PROVE  Climbs(f[n], R) /\ f[n + 1] = Climb(f[n], R)
  <2>1. f[n + 1] = Climb(f[n], R) /\ n + 1 \in 0 .. N + 1
    BY <1>1 DEF IsWalk
  <2>2. Climb(f[n], R).error = NoError
    BY <1>3, <2>1
  <2>3. f[n] = [chain |-> f[n].chain, parent |-> f[n].parent, error |-> NoError]
    BY <1>4 DEF Free
  <2>4. f[n].parent \notin ToSet(f[n].chain) /\ f[n].parent \in CanonicalNames(R)
    BY <1>4, <2>2, <2>3, ClimbFacts
  <2> QED
    BY <1>4, <2>1, <2>3, <2>4, ClimbFacts DEF Climbs
<1> DEFINE Long(n) == f[n].parent # NoDerived => Len(f[n].chain) = n + 1
           Good == {n \in 0 .. N : Free(f[n], R, T) /\ Long(n)}
<1>5. 0 \in Good
  <2>1. f[0] = [chain |-> <<R[k].name>>, parent |-> ParentOf(R[k]), error |-> NoError]
    BY DEF IsWalk, ChainOfOne
  <2>2. f[0].chain = <<R[k].name>>
    BY <2>1
  <2>3. /\ <<R[k].name>> \in Seq(T) /\ Len(<<R[k].name>>) = 0 + 1
        /\ \A i \in 1 .. Len(<<R[k].name>>) : i = 1 /\ <<R[k].name>>[i] = R[k].name
    BY <1>2
  <2>4. Free(f[0], R, T)
    BY <2>1, <2>2, <2>3 DEF Free
  <2> QED
    BY <1>1, <2>2, <2>3, <2>4
<1>6. \A n \in Good : n \in Nat /\ n < N => n + 1 \in Good
  <2> TAKE n \in Good
  <2> SUFFICES ASSUME n \in Nat, n < N PROVE n + 1 \in Good
    OBVIOUS
  <2> DEFINE s == f[n].chain
             x == f[n].parent
             t == <<x>> \o s
  <2>1. n \in 0 .. N /\ n + 1 \in 0 .. N /\ Free(f[n], R, T) /\ Long(n)
    BY <1>1
  <2>2. CASE x = NoDerived
    <3>1. Climb(f[n], R) = f[n]
      BY <2>2 DEF Climb
    <3>2. f[n + 1] = f[n]
      BY <1>1, <2>1, <3>1 DEF IsWalk
    <3> QED
      BY <2>1, <2>2, <3>2
  <2>3. CASE x # NoDerived
    <3>1. Climbs(f[n], R) /\ f[n + 1] = Climb(f[n], R)
      BY <1>4, <2>1, <2>3
    <3>2. f[n + 1].chain = t /\ f[n + 1].error = NoError
          /\ f[n + 1] = [chain |-> f[n + 1].chain, parent |-> f[n + 1].parent, error |-> NoError]
      BY <3>1 DEF Climbs
    <3>3. PICK q \in DOMAIN R : R[q].name = x
      BY <3>1 DEF Climbs, CanonicalNames
    <3>4. x \in T /\ s \in Seq(T) /\ Len(s) = n + 1
      BY <1>2, <2>1, <2>3, <3>3 DEF Free
    <3>5. /\ t \in Seq(T) /\ Len(t) = n + 2 /\ t[1] = x
          /\ \A i \in 1 .. n + 1 : t[i + 1] = s[i]
      <4>1. /\ t \in Seq(T) /\ Len(t) = Len(s) + 1 /\ t[1] = x
            /\ \A i \in 1 .. Len(s) : t[i + 1] = s[i]
        BY <3>4, InFront
      <4> HIDE DEF t, s, x
      <4> QED
        BY <3>4, <4>1
    <3>6. \A i \in 1 .. n + 2 : i = 1 \/ (i - 1 \in 1 .. n + 1 /\ t[i] = s[i - 1])
      <4> TAKE i \in 1 .. n + 2
      <4> SUFFICES ASSUME i # 1 PROVE i - 1 \in 1 .. n + 1 /\ t[i] = s[i - 1]
        OBVIOUS
      <4>1. i - 1 \in 1 .. n + 1 /\ i - 1 + 1 = i
        OBVIOUS
      <4> HIDE DEF t, s
      <4> QED
        BY <3>5, <4>1
    <3>7. \A i \in 1 .. n + 1 : s[i] # x
      <4>1. DOMAIN s = 1 .. n + 1
        BY <3>4
      <4> QED
        BY <3>1, <4>1 DEF Climbs, ToSet
    <3>8. \A i \in 1 .. n + 1 : \E l \in DOMAIN R : R[l].name = s[i]
      BY <2>1, <3>4 DEF Free
    <3>9. \A i, j \in 1 .. n + 1 : s[i] = s[j] => i = j
      BY <2>1, <3>4 DEF Free
    <3> HIDE DEF t, s, x
    <3>10. \A i \in 1 .. n + 2 : \E l \in DOMAIN R : R[l].name = t[i]
      BY <3>3, <3>5, <3>6, <3>8
    <3>11. ASSUME NEW i \in 1 .. n + 2, NEW j \in 1 .. n + 2, t[i] = t[j] PROVE i = j
      <4>1. CASE i = 1 /\ j # 1
        BY <3>5, <3>6, <3>7, <3>11, <4>1
      <4>2. CASE i # 1 /\ j = 1
        BY <3>5, <3>6, <3>7, <3>11, <4>2
      <4>3. CASE i # 1 /\ j # 1
        <5>1. i - 1 = j - 1
          BY <3>6, <3>9, <3>11, <4>3
        <5> QED
          BY <5>1
      <4> QED
        BY <4>1, <4>2, <4>3
    <3>12. Free(f[n + 1], R, T)
      BY <3>2, <3>5, <3>10, <3>11 DEF Free
    <3>13. Long(n + 1)
      BY <3>2, <3>5
    <3> QED
      BY <2>1, <3>12, <3>13
  <2> QED
    BY <2>2, <2>3
<1>7. \A n \in 0 .. N : n \in Good
  <2> HIDE DEF Good
  <2> QED
    BY <1>1, <1>5, <1>6, UpTo
<1>8. f[N].parent = NoDerived
  <2> SUFFICES ASSUME f[N].parent # NoDerived PROVE FALSE
    OBVIOUS
  <2>1. Free(f[N], R, T) /\ Len(f[N].chain) = N + 1
    BY <1>1, <1>7
  <2> DEFINE s == f[N].chain
             at == [i \in 1 .. N + 1 |-> CHOOSE l \in DOMAIN R : R[l].name = s[i]]
  <2>2. \A i \in 1 .. N + 1 : at[i] \in 1 .. N /\ R[at[i]].name = s[i]
    BY <1>1, <2>1 DEF Free
  <2>3. \A i, j \in 1 .. N + 1 : s[i] = s[j] => i = j
    BY <2>1 DEF Free
  <2>4. at \in [1 .. N + 1 -> 1 .. N]
    <3> HIDE DEF N
    <3> QED
      BY <2>2
  <2> HIDE DEF at, s, N
  <2>5. \A i, j \in 1 .. N + 1 : at[i] = at[j] => i = j
    BY <2>2, <2>3
  <2>6. at \in Injection(1 .. N + 1, 1 .. N)
    BY <2>4, <2>5 DEF Injection, IsInjective
  <2>7. IsFiniteSet(1 .. N) /\ Cardinality(1 .. N) = N
    BY <1>1, Counted
  <2>8. Cardinality(1 .. N + 1) = N + 1
    <3>1. N + 1 \in Nat
      BY <1>1
    <3> QED
      BY <3>1, Counted
  <2>9. Cardinality(1 .. N + 1) <= Cardinality(1 .. N)
    BY <2>6, <2>7, FS_Injection
  <2> QED
    BY <1>1, <2>7, <2>8, <2>9
<1> HIDE DEF N
<1>9. ASSUME NEW n \in 0 .. N
      PROVE  /\ Free(f[n], R, T)
             /\ f[n].parent # NoDerived => Len(f[n].chain) = n + 1 /\ Climbs(f[n], R)
  BY <1>4, <1>7, <1>9
<1> QED
  BY <1>8, <1>9 DEF N

\* One turn of a free walk, or none at the root
LEMMA FreeStep ==
  ASSUME NEW R, NEW walk, walk.parent # NoDerived => Climbs(walk, R)
  PROVE  /\ walk.parent = NoDerived => Climb(walk, R) = walk
         /\ walk.parent # NoDerived =>
              /\ walk.parent \in CanonicalNames(R) /\ walk.parent \notin ToSet(walk.chain)
              /\ Climb(walk, R).chain = <<walk.parent>> \o walk.chain
              /\ Climb(walk, R).parent = ParentOf(Canonical(R, walk.parent))
<1>1. walk.parent = NoDerived => Climb(walk, R) = walk
  BY DEF Climb
<1> QED
  BY <1>1 DEF Climbs

\* Something at both ends of a sequence
LEMMA AtBothEnds ==
  ASSUME NEW T, NEW s \in Seq(T), NEW x \in T, NEW y \in T
  PROVE  /\ <<x>> \o Append(s, y) = Append(<<x>> \o s, y)
         /\ s # << >> => Tail(Append(s, y)) = Append(Tail(s), y)
<1>1. s \in Seq(T) /\ Len(s) \in Nat /\ Append(s, y) \in Seq(T) /\ Len(Append(s, y)) = Len(s) + 1
      /\ Append(s, y)[Len(s) + 1] = y /\ \A i \in 1 .. Len(s) : Append(s, y)[i] = s[i]
  OBVIOUS
<1>2. <<x>> \o Append(s, y) = Append(<<x>> \o s, y)
  <2> DEFINE a == Append(s, y)
             b == <<x>> \o s
             l == <<x>> \o a
             r == Append(b, y)
  <2>1. /\ l \in Seq(T) /\ Len(l) = Len(a) + 1 /\ l[1] = x
        /\ \A i \in 1 .. Len(a) : l[i + 1] = a[i]
    <3> HIDE DEF a
    <3>1. a \in Seq(T)
      BY <1>1 DEF a
    <3> QED
      BY <3>1, InFront
  <2>2. /\ b \in Seq(T) /\ Len(b) = Len(s) + 1 /\ b[1] = x
        /\ \A i \in 1 .. Len(s) : b[i + 1] = s[i]
    BY InFront
  <2> HIDE DEF b, l
  <2>3. /\ r \in Seq(T) /\ Len(r) = Len(b) + 1 /\ r[Len(b) + 1] = y
        /\ \A i \in 1 .. Len(b) : r[i] = b[i]
    BY <2>2
  <2> HIDE DEF r, a
  <2>4. ASSUME NEW i \in 1 .. Len(l) PROVE l[i] = r[i]
    <3>1. Len(a) = Len(s) + 1 /\ a[Len(s) + 1] = y /\ \A j \in 1 .. Len(s) : a[j] = s[j]
      BY <1>1 DEF a
    <3>2. CASE i = 1
      BY <1>1, <2>1, <2>2, <2>3, <3>2
    <3>3. CASE i # 1
      <4>1. i - 1 \in 1 .. Len(a) /\ i - 1 + 1 = i
        BY <1>1, <2>1, <3>1, <3>3
      <4>2. l[i] = a[i - 1]
        BY <2>1, <4>1
      <4>3. CASE i - 1 = Len(s) + 1
        BY <2>2, <2>3, <3>1, <4>1, <4>2, <4>3
      <4>4. CASE i - 1 \in 1 .. Len(s)
        <5>1. a[i - 1] = s[i - 1] /\ b[i] = s[i - 1]
          BY <2>2, <3>1, <4>1, <4>4
        <5>2. i \in 1 .. Len(b)
          BY <1>1, <2>2, <4>4
        <5> QED
          BY <2>3, <4>2, <5>1, <5>2
      <4> QED
        BY <1>1, <3>1, <4>1, <4>3, <4>4
    <3> QED
      BY <3>2, <3>3
  <2>5. Len(l) = Len(r)
    BY <1>1, <2>1, <2>2, <2>3 DEF a
  <2>6. l = r
    BY <2>1, <2>3, <2>4, <2>5, SeqEqual
  <2> QED
    BY <2>6 DEF l, r, a, b
<1>3. ASSUME s # << >> PROVE Tail(Append(s, y)) = Append(Tail(s), y)
  <2> DEFINE u == Tail(s)
             l == Tail(Append(s, y))
             r == Append(u, y)
  <2>1. Len(s) >= 1
    BY <1>1, <1>3
  <2>2. u \in Seq(T) /\ Len(u) = Len(s) - 1 /\ \A i \in 1 .. Len(s) - 1 : u[i] = s[i + 1]
    BY <1>1, <2>1
  <2>3. l \in Seq(T) /\ Len(l) = Len(s) /\ \A i \in 1 .. Len(s) : l[i] = Append(s, y)[i + 1]
    BY <1>1, <2>1
  <2> HIDE DEF u
  <2>4. r \in Seq(T) /\ Len(r) = Len(s) /\ r[Len(s)] = y /\ \A i \in 1 .. Len(s) - 1 : r[i] = u[i]
    BY <1>1, <2>1, <2>2
  <2> HIDE DEF l, r
  <2>5. \A i \in 1 .. Len(s) : l[i] = r[i]
    <3> TAKE i \in 1 .. Len(s)
    <3>1. CASE i = Len(s)
      BY <1>1, <2>1, <2>3, <2>4, <3>1
    <3>2. CASE i \in 1 .. Len(s) - 1
      <4>1. i + 1 \in 1 .. Len(s)
        BY <1>1, <3>2
      <4>2. l[i] = s[i + 1] /\ r[i] = s[i + 1]
        BY <1>1, <2>2, <2>3, <2>4, <3>2, <4>1
      <4> QED
        BY <4>2
    <3> QED
      BY <1>1, <3>1, <3>2
  <2>6. l = r
    BY <2>3, <2>4, <2>5, SeqEqual
  <2> QED
    BY <2>6 DEF l, r, u
<1> QED
  BY <1>2, <1>3

\* The walk of a derived response is the walk of its parent, one turn ahead.
OneAhead(f, g, n, name, T) ==
  /\ g[n].error = NoError /\ g[n].chain \in Seq(T) /\ g[n].chain # << >>
  /\ f[n + 1].parent = g[n].parent
  /\ f[n + 1].chain = Append(g[n].chain, name)

LEMMA WalksTogether ==
  ASSUME NEW R, NEW T, AreResponses(R, T), NEW k \in DOMAIN R, NEW f, IsWalk(f, R[k], R),
         f[Len(R) + 1].error = NoError, f[0].parent # NoDerived,
         NEW p \in DOMAIN R, R[p].name = f[0].parent, Canonical(R, f[0].parent) = R[p],
         NEW g, IsWalk(g, R[p], R)
  PROVE  OneAhead(f, g, Len(R), R[k].name, T)
<1> DEFINE N == Len(R)
           name == R[k].name
           Good == {n \in 0 .. N : OneAhead(f, g, n, name, T) /\ g[n] = [chain |-> g[n].chain,
                                     parent |-> g[n].parent, error |-> NoError]}
<1>1. N \in Nat /\ \A l \in DOMAIN R : R[l].name \in T
  BY DEF AreResponses
<1>2. \A n \in 0 .. N :
        /\ f[n].parent # NoDerived => Climbs(f[n], R)
        /\ f[n + 1] = Climb(f[n], R) /\ g[n + 1] = Climb(g[n], R)
  BY FreeWalk DEF IsWalk
<1>3. 0 \in Good
  <2>1. /\ f[0].chain = <<name>>
        /\ g[0] = [chain |-> <<R[p].name>>, parent |-> ParentOf(R[p]), error |-> NoError]
    BY DEF IsWalk, ChainOfOne
  <2>2. 0 \in 0 .. N
    BY <1>1
  <2>3. f[1].chain = <<R[p].name>> \o <<name>> /\ f[1].parent = ParentOf(R[p])
    <3>1. f[0 + 1] = Climb(f[0], R) /\ (f[0].parent # NoDerived => Climbs(f[0], R))
      BY <1>2, <2>2
    <3> DEFINE walk == f[0]
    <3>2. walk.parent # NoDerived => Climbs(walk, R)
      BY <3>1
    <3>3. walk.parent # NoDerived
      OBVIOUS
    <3> HIDE DEF walk
    <3>4. /\ Climb(walk, R).chain = <<walk.parent>> \o walk.chain
          /\ Climb(walk, R).parent = ParentOf(Canonical(R, walk.parent))
      BY <3>2, <3>3, FreeStep
    <3>5. f[0 + 1].chain = <<f[0].parent>> \o f[0].chain
          /\ f[0 + 1].parent = ParentOf(Canonical(R, f[0].parent))
      BY <3>1, <3>4 DEF walk
    <3> QED
      BY <2>1, <3>5
  <2>4. /\ <<R[p].name>> \o <<name>> = Append(<<R[p].name>>, name)
        /\ <<R[p].name>> \in Seq(T) /\ <<R[p].name>> # << >>
    BY <1>1
  <2>5. g[0].chain = <<R[p].name>> /\ g[0].parent = ParentOf(R[p]) /\ g[0].error = NoError
    BY <2>1
  <2>6. OneAhead(f, g, 0, name, T)
    BY <2>3, <2>4, <2>5 DEF OneAhead
  <2> QED
    BY <2>1, <2>2, <2>5, <2>6
<1>4. \A n \in Good : n \in Nat /\ n < N => n + 1 \in Good
  <2> TAKE n \in Good
  <2> SUFFICES ASSUME n \in Nat, n < N PROVE n + 1 \in Good
    OBVIOUS
  <2>1. n \in 0 .. N /\ n + 1 \in 0 .. N
    BY <1>1
  <2>2. OneAhead(f, g, n, name, T)
        /\ g[n] = [chain |-> g[n].chain, parent |-> g[n].parent, error |-> NoError]
    OBVIOUS
  <2> DEFINE s == g[n].chain
             x == g[n].parent
  <2>3. /\ s \in Seq(T) /\ s # << >> /\ f[n + 1].parent = x
        /\ f[n + 1].chain = Append(s, name) /\ g[n].error = NoError
    BY <2>2 DEF OneAhead
  <2>4. /\ f[n + 1 + 1] = Climb(f[n + 1], R) /\ g[n + 1] = Climb(g[n], R)
        /\ f[n + 1].parent # NoDerived => Climbs(f[n + 1], R)
    BY <1>2, <2>1
  <2>5. /\ f[n + 1].parent = NoDerived => f[n + 1 + 1] = f[n + 1]
        /\ f[n + 1].parent # NoDerived =>
             /\ f[n + 1].parent \in CanonicalNames(R)
             /\ f[n + 1].parent \notin ToSet(f[n + 1].chain)
             /\ f[n + 1 + 1].chain = <<f[n + 1].parent>> \o f[n + 1].chain
             /\ f[n + 1 + 1].parent = ParentOf(Canonical(R, f[n + 1].parent))
    <3> DEFINE walk == f[n + 1]
    <3>1. walk.parent # NoDerived => Climbs(walk, R)
      BY <2>4
    <3> HIDE DEF walk
    <3>2. /\ walk.parent = NoDerived => Climb(walk, R) = walk
          /\ walk.parent # NoDerived =>
               /\ walk.parent \in CanonicalNames(R) /\ walk.parent \notin ToSet(walk.chain)
               /\ Climb(walk, R).chain = <<walk.parent>> \o walk.chain
               /\ Climb(walk, R).parent = ParentOf(Canonical(R, walk.parent))
      BY <3>1, FreeStep
    <3> QED
      BY <2>4, <3>2 DEF walk
  <2>6. CASE x = NoDerived
    <3>1. f[n + 1 + 1] = f[n + 1]
      BY <2>3, <2>5, <2>6
    <3>2. g[n + 1] = g[n]
      BY <2>4, <2>6 DEF Climb
    <3> QED
      BY <2>1, <2>2, <3>1, <3>2 DEF OneAhead
  <2>7. CASE x # NoDerived
    <3>1. /\ x \in CanonicalNames(R) /\ x \notin ToSet(Append(s, name))
          /\ f[n + 1 + 1].chain = <<x>> \o Append(s, name)
          /\ f[n + 1 + 1].parent = ParentOf(Canonical(R, x))
      <4> HIDE DEF s, x
      <4>1. f[n + 1].parent # NoDerived
        BY <2>3, <2>7
      <4>2. f[n + 1].parent = x /\ f[n + 1].chain = Append(s, name)
        BY <2>3
      <4> QED
        BY <2>5, <4>1, <4>2, Zenon
    <3>2. x \notin ToSet(s)
      <4> DEFINE t == Append(s, name)
      <4>1. DOMAIN s \subseteq DOMAIN t /\ \A i \in DOMAIN s : t[i] = s[i]
        <5>1. s \in Seq(T) /\ name \in T
          BY <1>1, <2>3
        <5> HIDE DEF s, name
        <5> QED
          BY <5>1
      <4>2. x \notin {t[i] : i \in DOMAIN t}
        BY <3>1 DEF ToSet
      <4> HIDE DEF s, t, x
      <4>3. \A i \in DOMAIN s : s[i] # x
        BY <4>1, <4>2
      <4> QED
        BY <4>3 DEF ToSet
    <3>3. g[n + 1] = [chain |-> <<x>> \o s, parent |-> ParentOf(Canonical(R, x)), error |-> NoError]
      <4> DEFINE walk == g[n]
      <4>1. /\ walk = [chain |-> walk.chain, parent |-> walk.parent, error |-> NoError]
            /\ walk.parent # NoDerived
            /\ walk.parent \notin ToSet(walk.chain) /\ walk.parent \in CanonicalNames(R)
        BY <2>2, <2>7, <3>1, <3>2
      <4> HIDE DEF walk
      <4>2. Climb(walk, R) = [chain |-> <<walk.parent>> \o walk.chain,
                              parent |-> ParentOf(Canonical(R, walk.parent)), error |-> NoError]
        BY <4>1, ClimbFacts
      <4> QED
        BY <2>4, <4>2 DEF walk
    <3>4. name \in T /\ x \in T
      BY <1>1, <3>1 DEF CanonicalNames
    <3> HIDE DEF s, x
    <3>5. <<x>> \o Append(s, name) = Append(<<x>> \o s, name)
      BY <2>3, <3>4, AtBothEnds
    <3>6. <<x>> \o s \in Seq(T) /\ <<x>> \o s # << >>
      <4>1. <<x>> \o s \in Seq(T) /\ Len(<<x>> \o s) = Len(s) + 1 /\ Len(s) \in Nat
        BY <2>3, <3>4, InFront
      <4> DEFINE t == <<x>> \o s
      <4>2. t \in Seq(T) /\ Len(t) > 0
        BY <4>1
      <4> HIDE DEF t
      <4>3. t # << >>
        BY <4>2
      <4> QED
        BY <4>2, <4>3 DEF t
    <3> DEFINE t == <<x>> \o s
    <3> HIDE DEF t
    <3>7. /\ g[n + 1].chain = t /\ g[n + 1].parent = ParentOf(Canonical(R, x))
          /\ g[n + 1].error = NoError
          /\ g[n + 1] = [chain |-> g[n + 1].chain, parent |-> g[n + 1].parent, error |-> NoError]
      BY <3>3 DEF t
    <3>8. OneAhead(f, g, n + 1, name, T)
      BY <3>1, <3>5, <3>6, <3>7 DEF OneAhead, t
    <3> QED
      BY <2>1, <3>7, <3>8
  <2> QED
    BY <2>6, <2>7
<1>5. N \in Good
  <2> HIDE DEF Good, N
  <2>1. \A n \in 0 .. N : n \in Good
    BY <1>1, <1>3, <1>4, UpTo
  <2> QED
    BY <1>1, <2>1
<1> QED
  BY <1>5

LEMMA ChainTells ==
  ASSUME NEW R, NEW T, AreResponses(R, T), Clean(R), NEW k \in DOMAIN R,
         NEW f, IsWalk(f, R[k], R), DerivedResponseChain(R[k], R) = f[Len(R) + 1]
  PROVE  /\ R[k].derived # NoDerived => f[Len(R) + 1].error = NoError
         /\ DepthOf(R[k]) = Len(f[Len(R) + 1].chain) - 1
         /\ LineageOf(R[k]) = Tail(f[Len(R) + 1].chain)
<1> DEFINE end == f[Len(R) + 1]
<1>1. GraphError(R[k], R) = NoError
  BY DEF Clean
<1>2. CASE R[k].derived # NoDerived
  <2>1. end.error = NoError /\ R[k].derived.depth = Len(end.chain) - 1
        /\ R[k].derived.lineage = Tail(end.chain)
    BY <1>1, <1>2 DEF GraphError, NoError
  <2> QED
    BY <1>2, <2>1 DEF DepthOf, LineageOf
<1>3. CASE R[k].derived = NoDerived
  <2>1. f[0] = [chain |-> <<R[k].name>>, parent |-> NoDerived, error |-> NoError]
    BY <1>3 DEF IsWalk, ChainOfOne, ParentOf
  <2>2. Len(R) \in Nat /\ 0 \in 0 .. Len(R) + 1 /\ f[0].parent = NoDerived
    BY <2>1 DEF AreResponses
  <2>3. end = f[0]
    BY <2>2, WalkStops
  <2>4. end.chain = <<R[k].name>>
    BY <2>1, <2>3
  <2>5. Len(<<R[k].name>>) - 1 = 0 /\ Tail(<<R[k].name>>) = << >>
    OBVIOUS
  <2> HIDE DEF end
  <2>6. Len(end.chain) - 1 = 0 /\ Tail(end.chain) = << >>
    BY <2>4, <2>5
  <2> QED
    BY <1>3, <2>6 DEF DepthOf, LineageOf, end
<1> QED
  BY <1>2, <1>3

LEMMA CleanLinks ==
  ASSUME NEW R, NEW T, AreResponses(R, T), ~DuplicateName(R), Clean(R)
  PROVE  Linked(R)
<1> SUFFICES ASSUME NEW k \in DOMAIN R, R[k].derived # NoDerived PROVE Continues(R[k], R)
  BY DEF Linked, Continues
<1> DEFINE N == Len(R)
           derived == R[k].derived
           x == derived.parent
<1>1. N \in Nat
  BY DEF AreResponses
<1>2. PICK f : IsWalk(f, R[k], R) /\ DerivedResponseChain(R[k], R) = f[N + 1]
  BY <1>1, ChainIsWalked
<1>3. /\ f[N + 1].error = NoError
      /\ DepthOf(R[k]) = Len(f[N + 1].chain) - 1 /\ LineageOf(R[k]) = Tail(f[N + 1].chain)
  BY <1>2, ChainTells
<1>4. derived.depth = DepthOf(R[k]) /\ derived.lineage = LineageOf(R[k])
  BY DEF DepthOf, LineageOf
<1>5. f[0] = [chain |-> <<R[k].name>>, parent |-> x, error |-> NoError]
  BY <1>2 DEF IsWalk, ChainOfOne, ParentOf
<1>6. x # NoDerived
  <2> SUFFICES ASSUME x = NoDerived PROVE FALSE
    OBVIOUS
  <2>1. f[N + 1] = f[0]
    <3>1. 0 \in 0 .. Len(R) + 1 /\ f[0].parent = NoDerived
      BY <1>1, <1>5
    <3> QED
      BY <1>1, <1>2, <3>1, WalkStops
  <2>2. f[N + 1].chain = <<R[k].name>>
    BY <1>5, <2>1
  <2>3. derived.lineage = << >>
    <3>1. Tail(<<R[k].name>>) = << >>
      OBVIOUS
    <3> QED
      BY <1>3, <1>4, <2>2, <3>1
  <2>4. MetadataError(R[k]) # NoError
    BY <2>3 DEF MetadataError, NoError
  <2> QED
    BY <2>4 DEF Clean
<1>7. x \in CanonicalNames(R)
  <2>1. 0 \in 0 .. N /\ f[0].parent # NoDerived
    BY <1>1, <1>5, <1>6
  <2>2. Climbs(f[0], R)
    BY <1>2, <1>3, <2>1, FreeWalk
  <2> QED
    BY <1>5, <2>2 DEF Climbs
<1>8. PICK p \in DOMAIN R : R[p].name = x /\ Canonical(R, x) = R[p]
  BY <1>7, CanonicalFacts
<1>9. PICK g : IsWalk(g, R[p], R) /\ DerivedResponseChain(R[p], R) = g[N + 1]
  BY <1>1, ChainIsWalked
<1>10. DepthOf(R[p]) = Len(g[N + 1].chain) - 1 /\ LineageOf(R[p]) = Tail(g[N + 1].chain)
  BY <1>9, ChainTells
<1>11. OneAhead(f, g, N, R[k].name, T)
  <2>1. f[0].parent = x
    BY <1>5
  <2> HIDE DEF x
  <2> QED
    BY <1>2, <1>3, <1>6, <1>8, <1>9, <2>1, WalksTogether
<1>12. f[N].parent = NoDerived
  BY <1>2, <1>3, FreeWalk
<1>13. f[N + 1] = f[N]
  <2>1. N \in 0 .. Len(R) + 1
    BY <1>1
  <2> QED
    BY <1>1, <1>2, <1>12, <2>1, WalkStops
<1>14. g[N + 1] = g[N]
  <2>1. N \in 0 .. Len(R) + 1 /\ g[N].parent = NoDerived
    BY <1>1, <1>11, <1>12, <1>13 DEF OneAhead
  <2> QED
    BY <1>1, <1>9, <2>1, WalkStops
<1> DEFINE s == g[N + 1].chain
<1>15. /\ s \in Seq(T) /\ s # << >> /\ R[k].name \in T
       /\ f[N + 1].chain = Append(s, R[k].name)
  BY <1>11, <1>14 DEF OneAhead, AreResponses
<1> HIDE DEF s, derived, x
<1>16. Tail(Append(s, R[k].name)) = Append(Tail(s), R[k].name)
  BY <1>15, AtBothEnds
<1>17. Len(Append(s, R[k].name)) - 1 = Len(s) - 1 + 1
  BY <1>15
<1>18. DepthOf(R[p]) = Len(s) - 1 /\ LineageOf(R[p]) = Tail(s)
  BY <1>10 DEF s
<1>19. derived.depth = DepthOf(R[p]) + 1
  BY <1>3, <1>4, <1>15, <1>17, <1>18
<1>20. derived.lineage = Append(LineageOf(R[p]), R[k].name)
  BY <1>3, <1>4, <1>15, <1>16, <1>18
<1> QED
  BY <1>7, <1>8, <1>19, <1>20 DEF Continues, derived, x

\* What is found in two sequences of errors, one after the other
LEMMA NoErrorInEither ==
  ASSUME NEW A, NEW a \in Seq(A), NEW b \in Seq(A)
  PROVE  /\ DOMAIN (a \o b) \in SUBSET Nat
         /\ (\A k \in DOMAIN (a \o b) : (a \o b)[k] = NoError)
              <=> /\ \A k \in DOMAIN a : a[k] = NoError
                  /\ \A k \in DOMAIN b : b[k] = NoError
<1> DEFINE c == a \o b
<1>1. /\ Len(a) \in Nat /\ Len(b) \in Nat /\ DOMAIN a = 1 .. Len(a) /\ DOMAIN b = 1 .. Len(b)
      /\ DOMAIN c = 1 .. Len(a) + Len(b)
      /\ \A k \in 1 .. Len(a) : c[k] = a[k]
      /\ \A k \in 1 .. Len(b) : c[Len(a) + k] = b[k]
  OBVIOUS
<1> HIDE DEF c
<1>2. ASSUME \A k \in DOMAIN c : c[k] = NoError
      PROVE  (\A k \in DOMAIN a : a[k] = NoError) /\ \A k \in DOMAIN b : b[k] = NoError
  <2>1. \A k \in 1 .. Len(a) : k \in DOMAIN c
    BY <1>1
  <2>2. \A k \in 1 .. Len(b) : Len(a) + k \in DOMAIN c
    BY <1>1
  <2> QED
    BY <1>1, <1>2, <2>1, <2>2
<1>3. ASSUME \A k \in DOMAIN a : a[k] = NoError, \A k \in DOMAIN b : b[k] = NoError,
             NEW k \in DOMAIN c
      PROVE  c[k] = NoError
  <2>1. CASE k \in 1 .. Len(a)
    BY <1>1, <1>3, <2>1
  <2>2. CASE k \notin 1 .. Len(a)
    <3>1. k - Len(a) \in 1 .. Len(b) /\ Len(a) + (k - Len(a)) = k
      BY <1>1, <2>2
    <3> QED
      BY <1>1, <1>3, <3>1
  <2> QED
    BY <2>1, <2>2
<1>4. DOMAIN c \in SUBSET Nat
  BY <1>1
<1> QED
  BY <1>2, <1>3, <1>4 DEF c

LEMMA FirstErrorFacts ==
  ASSUME NEW errors, DOMAIN errors \in SUBSET Nat
  PROVE  FirstReal(errors) = NoError <=> \A k \in DOMAIN errors : errors[k] = NoError
<1>1. ASSUME \A k \in DOMAIN errors : errors[k] = NoError PROVE FirstReal(errors) = NoError
  <2>1. {k \in DOMAIN errors : errors[k] # "none"} = {}
    BY <1>1 DEF NoError
  <2> QED
    BY <2>1 DEF FirstReal, NoError
<1> QED
  BY <1>1, NoErrorAtAll DEF NoError

\* Every response is checked, the canonical ones in two passes and then the others.
LEMMA ResponsesChecked ==
  ASSUME NEW R, NEW T, AreResponses(R, T)
  PROVE  ResponsesError(R) = NoError <=> ~DuplicateName(R) /\ Clean(R)
<1> DEFINE canonical == {k \in DOMAIN R : R[k].named}
           named == Selected(R, canonical)
           inline == Selected(R, DOMAIN R \ canonical)
           metadata == [k \in DOMAIN named |-> MetadataError(named[k])]
           graph == [k \in DOMAIN named |-> GraphError(named[k], R)]
           first == [k \in DOMAIN inline |->
                       FirstReal(<<MetadataError(inline[k]), GraphError(inline[k], R)>>)]
           AllErrors == {metadata[k] : k \in DOMAIN metadata} \cup {graph[k] : k \in DOMAIN graph}
                        \cup {first[k] : k \in DOMAIN first}
<1>1. ResponsesError(R) = IF DuplicateName(R) THEN "duplicate"
                          ELSE FirstReal(metadata \o graph \o first)
  BY DEF ResponsesError
<1>2. ASSUME NEW positions
      PROVE  /\ Selected(R, positions) \in Seq({R[i] : i \in DOMAIN R \cap positions})
             /\ \A i \in DOMAIN R \cap positions : \E k \in DOMAIN Selected(R, positions) :
                  Selected(R, positions)[k] = R[i]
  <2> DEFINE Elements == {R[k] : k \in DOMAIN R}
  <2>1. R \in Seq(Elements)
    BY DEF AreResponses
  <2> HIDE DEF Elements
  <2> QED
    BY <2>1, SelectedFacts
<1>3. named \in Seq({R[i] : i \in DOMAIN R \cap canonical})
      /\ \A i \in DOMAIN R \cap canonical : \E k \in DOMAIN named : named[k] = R[i]
  BY <1>2
<1>4. inline \in Seq({R[i] : i \in DOMAIN R \cap (DOMAIN R \ canonical)})
      /\ \A i \in DOMAIN R \cap (DOMAIN R \ canonical) : \E k \in DOMAIN inline : inline[k] = R[i]
  BY <1>2
<1>5. \A k \in DOMAIN named : \E i \in DOMAIN R : named[k] = R[i]
  <2> HIDE DEF canonical, named
  <2>1. \A k \in DOMAIN named : named[k] \in {R[i] : i \in DOMAIN R \cap canonical}
    BY <1>3
  <2> QED
    BY <2>1
<1>6. \A k \in DOMAIN inline : \E i \in DOMAIN R : inline[k] = R[i]
  <2> HIDE DEF canonical, inline
  <2>1. \A k \in DOMAIN inline :
          inline[k] \in {R[i] : i \in DOMAIN R \cap (DOMAIN R \ canonical)}
    BY <1>4
  <2> QED
    BY <2>1
<1> HIDE DEF named, inline
<1>7. metadata \in Seq(AllErrors) /\ graph \in Seq(AllErrors) /\ first \in Seq(AllErrors)
  <2>1. DOMAIN named = 1 .. Len(named) /\ Len(named) \in Nat
    BY <1>3
  <2>2. DOMAIN inline = 1 .. Len(inline) /\ Len(inline) \in Nat
    BY <1>4
  <2>3. /\ \A k \in 1 .. Len(named) : metadata[k] \in AllErrors
        /\ \A k \in 1 .. Len(named) : graph[k] \in AllErrors
        /\ \A k \in 1 .. Len(inline) : first[k] \in AllErrors
    BY <2>1, <2>2
  <2>4. /\ metadata = [k \in 1 .. Len(named) |-> metadata[k]]
        /\ graph = [k \in 1 .. Len(named) |-> graph[k]]
        /\ first = [k \in 1 .. Len(inline) |-> first[k]]
    BY <2>1, <2>2
  <2> HIDE DEF metadata, graph, first, AllErrors
  <2> QED
    BY <2>1, <2>2, <2>3, <2>4
<1>8. \A k \in DOMAIN inline : first[k] = NoError <=>
         MetadataError(inline[k]) = NoError /\ GraphError(inline[k], R) = NoError
  <2> TAKE k \in DOMAIN inline
  <2> DEFINE m == MetadataError(inline[k])
             g == GraphError(inline[k], R)
  <2>1. first[k] = FirstReal(<<m, g>>)
    OBVIOUS
  <2> HIDE DEF m, g, first
  <2>2. /\ DOMAIN <<m, g>> = {1, 2} /\ DOMAIN <<m, g>> \in SUBSET Nat
        /\ <<m, g>>[1] = m /\ <<m, g>>[2] = g
    OBVIOUS
  <2>3. FirstReal(<<m, g>>) = NoError <=> m = NoError /\ g = NoError
    BY <2>2, FirstErrorFacts
  <2> QED
    BY <2>1, <2>3 DEF m, g
<1>9. FirstReal(metadata \o graph \o first) = NoError <=>
        /\ \A k \in DOMAIN metadata : metadata[k] = NoError
        /\ \A k \in DOMAIN graph : graph[k] = NoError
        /\ \A k \in DOMAIN first : first[k] = NoError
  <2> HIDE DEF metadata, graph, first, AllErrors
  <2>1. metadata \o graph \in Seq(AllErrors)
    BY <1>7
  <2>2. /\ DOMAIN (metadata \o graph \o first) \in SUBSET Nat
        /\ (\A k \in DOMAIN (metadata \o graph \o first) :
              (metadata \o graph \o first)[k] = NoError)
             <=> /\ \A k \in DOMAIN (metadata \o graph) : (metadata \o graph)[k] = NoError
                 /\ \A k \in DOMAIN first : first[k] = NoError
    BY <1>7, <2>1, NoErrorInEither
  <2>3. (\A k \in DOMAIN (metadata \o graph) : (metadata \o graph)[k] = NoError)
          <=> /\ \A k \in DOMAIN metadata : metadata[k] = NoError
              /\ \A k \in DOMAIN graph : graph[k] = NoError
    BY <1>7, NoErrorInEither
  <2> QED
    BY <2>2, <2>3, FirstErrorFacts
<1>10. FirstReal(metadata \o graph \o first) = NoError <=>
         /\ \A k \in DOMAIN named :
              MetadataError(named[k]) = NoError /\ GraphError(named[k], R) = NoError
         /\ \A k \in DOMAIN inline :
              MetadataError(inline[k]) = NoError /\ GraphError(inline[k], R) = NoError
  <2>1. DOMAIN metadata = DOMAIN named /\ DOMAIN graph = DOMAIN named
        /\ DOMAIN first = DOMAIN inline
    OBVIOUS
  <2>2. \A k \in DOMAIN named : metadata[k] = MetadataError(named[k])
                                /\ graph[k] = GraphError(named[k], R)
    OBVIOUS
  <2> HIDE DEF metadata, graph, first
  <2> QED
    BY <1>8, <1>9, <2>1, <2>2
<1>11. FirstReal(metadata \o graph \o first) = NoError <=> Clean(R)
  <2>1. \A i \in DOMAIN R : \/ \E k \in DOMAIN named : named[k] = R[i]
                            \/ \E k \in DOMAIN inline : inline[k] = R[i]
    BY <1>3, <1>4
  <2> HIDE DEF metadata, graph, first
  <2> QED
    BY <1>5, <1>6, <1>10, <2>1 DEF Clean
<1> QED
  BY <1>1, <1>11 DEF NoError

LEMMA ResponsesExact ==
  ASSUME NEW R, NEW T, AreResponses(R, T)
  PROVE  ResponsesError(R) = NoError <=> ~DuplicateName(R) /\ Linked(R)
<1>1. ASSUME ~DuplicateName(R), Linked(R) PROVE Clean(R)
  BY <1>1, LinkedMetadata, LinkedGraph DEF Clean
<1> QED
  BY <1>1, CleanLinks, ResponsesChecked

\* Every object has a name and an array for a lineage, and what was derived from an
\* object continues it; the verdict is that of the objects listed.
ObjectInv(i) ==
  LET made == objects[i]
  IN  /\ made.name # NoDerived
      /\ made.derived # NoDerived => IsSequence(made.derived.lineage)
      /\ made.base # 0 =>
           /\ made.base \in DOMAIN objects
           /\ made.derived = Derivation(objects[made.base], made.name)

AuthoringInv ==
  /\ IsSequence(objects)
  /\ \A i \in DOMAIN objects : ObjectInv(i)
  /\ responseVerdict # "open" =>
       /\ used \in Seq(DOMAIN objects) /\ IsInjective(used)
       /\ responseVerdict = ResponsesError(UsedObjects)

LEMMA SequenceIs ==
  ASSUME NEW T, NEW s \in Seq(T)
  PROVE  IsSequence(s)
<1> DEFINE range == {s[i] : i \in DOMAIN s}
<1>1. Len(s) \in Nat /\ DOMAIN s = 1 .. Len(s) /\ s = [i \in 1 .. Len(s) |-> s[i]]
  OBVIOUS
<1>2. \A i \in 1 .. Len(s) : s[i] \in range
  BY <1>1
<1> HIDE DEF range
<1>3. s \in Seq(range)
  BY <1>1, <1>2
<1> QED
  BY <1>3 DEF IsSequence, range

LEMMA OneMoreIs ==
  ASSUME NEW s, IsSequence(s), NEW x
  PROVE  /\ IsSequence(Append(s, x)) /\ Len(s) \in Nat /\ DOMAIN s = 1 .. Len(s)
         /\ DOMAIN Append(s, x) = 1 .. Len(s) + 1
         /\ Append(s, x)[Len(s) + 1] = x /\ \A i \in DOMAIN s : Append(s, x)[i] = s[i]
<1> DEFINE T == {s[i] : i \in DOMAIN s} \cup {x}
<1>1. s \in Seq(T) /\ x \in T
  <2> DEFINE range == {s[i] : i \in DOMAIN s}
  <2>1. s \in Seq(range) /\ range \subseteq T
    BY DEF IsSequence
  <2> HIDE DEF range, T
  <2>2. s \in Seq(T)
    BY <2>1
  <2> QED
    BY <2>2 DEF T
<1> HIDE DEF T
<1>2. Append(s, x) \in Seq(T)
  BY <1>1
<1>3. IsSequence(Append(s, x))
  BY <1>2, SequenceIs
<1> QED
  BY <1>1, <1>3

LEMMA MakeKeeps ==
  ASSUME AuthoringInv, responseVerdict = "open", NEW name, NEW named, NEW derived, NEW base,
         Make(name, named, derived, base), name # NoDerived,
         derived # NoDerived => IsSequence(derived.lineage),
         base # 0 => base \in DOMAIN objects /\ derived = Derivation(objects[base], name)
  PROVE  AuthoringInv'
<1> DEFINE x == [name |-> name, named |-> named, derived |-> derived, base |-> base]
<1>1. objects' = Append(objects, x) /\ UNCHANGED responseVerdict
  BY DEF Make
<1>2. x.name = name /\ x.derived = derived /\ x.base = base
  OBVIOUS
<1> HIDE DEF x
<1>3. /\ IsSequence(objects') /\ Len(objects) \in Nat /\ DOMAIN objects = 1 .. Len(objects)
      /\ DOMAIN objects' = 1 .. Len(objects) + 1
      /\ objects'[Len(objects) + 1] = x /\ \A i \in DOMAIN objects : objects'[i] = objects[i]
  BY <1>1, OneMoreIs DEF AuthoringInv
<1>4. DOMAIN objects \subseteq DOMAIN objects'
  BY <1>3
<1>5. ASSUME NEW i \in DOMAIN objects' PROVE ObjectInv(i)'
  <2>1. i \in DOMAIN objects \/ i = Len(objects) + 1
    BY <1>3
  <2>2. CASE i \in DOMAIN objects
    <3>1. ObjectInv(i) /\ objects'[i] = objects[i]
      BY <1>3, <2>2 DEF AuthoringInv
    <3>2. objects[i].base \in DOMAIN objects => objects'[objects[i].base] = objects[objects[i].base]
      BY <1>3
    <3> QED
      BY <1>4, <3>1, <3>2 DEF ObjectInv
  <2>3. CASE i = Len(objects) + 1
    <3>1. objects'[i] = x
      BY <1>3, <2>3
    <3>2. base # 0 => base \in DOMAIN objects' /\ derived = Derivation(objects'[base], name)
      BY <1>3, <1>4
    <3> QED
      BY <1>2, <3>1, <3>2 DEF ObjectInv
  <2> QED
    BY <2>1, <2>2, <2>3
<1> QED
  BY <1>1, <1>3, <1>5 DEF AuthoringInv

LEMMA AuthoringKeeps ==
  ASSUME AuthoringInv, AuthoringNext
  PROVE  AuthoringInv'
<1>1. responseVerdict = "open"
  BY DEF AuthoringNext
<1>2. ASSUME NEW list \in Listings, NormalizeResponses(list) PROVE AuthoringInv'
  <2>1. list \in Seq(DOMAIN objects) /\ IsInjective(list)
    <3>1. PICK m \in 0 .. Len(objects) : list \in [1 .. m -> DOMAIN objects]
      BY <1>2 DEF Listings, BoundedSeq, SeqOf
    <3>2. m \in Nat
      BY <3>1 DEF AuthoringInv, IsSequence
    <3> QED
      BY <1>2, <3>1, <3>2 DEF Listings
  <2>2. used' = list /\ responseVerdict' = ResponsesError(ObjectsOf(list)) /\ objects' = objects
    BY <1>2 DEF NormalizeResponses
  <2>3. ObjectsOf(list) = UsedObjects'
    BY <2>2 DEF ObjectsOf, UsedObjects
  <2>4. \A i \in DOMAIN objects : ObjectInv(i)'
    BY <2>2 DEF AuthoringInv, ObjectInv
  <2> QED
    BY <2>1, <2>2, <2>3, <2>4 DEF AuthoringInv
<1>3. ASSUME NEW i \in DOMAIN objects
      PROVE  /\ objects[i].derived # NoDerived => IsSequence(objects[i].derived.lineage)
             /\ \A name : IsSequence(Derivation(objects[i], name).lineage)
  <2>1. objects[i].derived # NoDerived => IsSequence(objects[i].derived.lineage)
    BY DEF AuthoringInv, ObjectInv
  <2>2. IsSequence(LineageOf(objects[i]))
    <3>1. << >> \in Seq({})
      OBVIOUS
    <3> QED
      BY <2>1, <3>1, SequenceIs DEF LineageOf
  <2>3. \A name : IsSequence(Append(LineageOf(objects[i]), name))
    BY <2>2, OneMoreIs
  <2> QED
    BY <2>1, <2>3 DEF Derivation
<1>4. ASSUME NEW name \in ResponseNames,
             \/ DefineResponse(name) \/ WriteInline(name)
             \/ \E i \in DOMAIN objects : DefineDerivedResponse(i, name)
             \/ \E i \in DOMAIN objects, named \in BOOLEAN : Spread(i, name, named)
      PROVE  AuthoringInv'
  <2>1. name # NoDerived
    BY HandwrittenAssumption
  <2>2. CASE DefineResponse(name) \/ WriteInline(name)
    BY <1>1, <2>1, <2>2, MakeKeeps DEF DefineResponse, WriteInline
  <2>3. ASSUME NEW i \in DOMAIN objects, DefineDerivedResponse(i, name) PROVE AuthoringInv'
    BY <1>1, <1>3, <2>1, <2>3, MakeKeeps DEF DefineDerivedResponse
  <2>4. ASSUME NEW i \in DOMAIN objects, NEW named, Spread(i, name, named) PROVE AuthoringInv'
    BY <1>1, <1>3, <2>1, <2>4, MakeKeeps DEF Spread
  <2> QED
    BY <1>4, <2>2, <2>3, <2>4
<1>5. ASSUME NEW literal \in Handwritten, NEW named \in BOOLEAN, WriteLiteral(literal, named)
      PROVE  AuthoringInv'
  <2>1. literal.name # NoDerived /\ IsSequence(literal.derived.lineage)
    BY HandwrittenAssumption
  <2> QED
    BY <1>1, <1>5, <2>1, MakeKeeps DEF WriteLiteral
<1> QED
  BY <1>2, <1>4, <1>5 DEF AuthoringNext

\* The objects listed are responses, and families the two functions make are linked.
LEMMA UsedAre ==
  ASSUME AuthoringInv, responseVerdict # "open"
  PROVE  /\ \E T : AreResponses(UsedObjects, T)
         /\ WellAuthored => ~DuplicateName(UsedObjects) /\ Linked(UsedObjects)
<1> DEFINE R == UsedObjects
           EntriesOf(o) == {o.derived.lineage[j] : j \in DOMAIN o.derived.lineage}
           T == {objects[i].name : i \in DOMAIN objects}
                  \cup UNION {EntriesOf(objects[i]) : i \in DOMAIN objects}
<1>1. used \in Seq(DOMAIN objects) /\ IsInjective(used)
  BY DEF AuthoringInv
<1>2. DOMAIN R = DOMAIN used /\ DOMAIN used = 1 .. Len(used) /\ Len(used) \in Nat
  BY <1>1 DEF UsedObjects, ObjectsOf
<1>3. \A k \in DOMAIN used : used[k] \in DOMAIN objects /\ R[k] = objects[used[k]]
  BY <1>1 DEF UsedObjects, ObjectsOf
<1>4. R \in Seq({R[k] : k \in DOMAIN R})
  <2> DEFINE range == {R[k] : k \in DOMAIN R}
  <2>1. R = [k \in 1 .. Len(used) |-> R[k]]
    BY <1>2 DEF UsedObjects, ObjectsOf
  <2>2. \A k \in 1 .. Len(used) : R[k] \in range
    BY <1>2
  <2> HIDE DEF range, R
  <2>3. R \in Seq(range)
    BY <1>2, <2>1, <2>2
  <2> QED
    BY <2>3 DEF range
<1> HIDE DEF R
<1>5. ASSUME NEW i \in DOMAIN objects
      PROVE  /\ objects[i].name \in T /\ objects[i].name # NoDerived
             /\ objects[i].derived # NoDerived => objects[i].derived.lineage \in Seq(T)
  <2>1. objects[i].name \in T /\ EntriesOf(objects[i]) \subseteq T
    OBVIOUS
  <2>2. /\ objects[i].name # NoDerived
        /\ objects[i].derived # NoDerived => IsSequence(objects[i].derived.lineage)
    BY DEF AuthoringInv, ObjectInv
  <2>3. ASSUME objects[i].derived # NoDerived PROVE objects[i].derived.lineage \in Seq(T)
    <3>1. objects[i].derived.lineage \in Seq(EntriesOf(objects[i]))
      BY <2>2, <2>3 DEF IsSequence
    <3> HIDE DEF EntriesOf, T
    <3> QED
      BY <2>1, <3>1
  <2> QED
    BY <2>1, <2>2, <2>3
<1>6. AreResponses(R, T)
  <2> HIDE DEF T
  <2> QED
    BY <1>2, <1>3, <1>4, <1>5 DEF AreResponses
<1>7. ASSUME WellAuthored PROVE ~DuplicateName(R) /\ Linked(R)
  <2>1. \A k \in DOMAIN used : used[k] \in ToSet(used)
    BY DEF ToSet
  <2>2. ~DuplicateName(R)
    <3> SUFFICES ASSUME NEW k \in DOMAIN R, NEW l \in DOMAIN R, k < l, R[k].name = R[l].name
                 PROVE  FALSE
      BY DEF DuplicateName
    <3>1. used[k] = used[l]
      BY <1>2, <1>3, <1>7, <2>1 DEF WellAuthored
    <3>2. k = l
      BY <1>1, <1>2, <3>1 DEF IsInjective
    <3> QED
      BY <1>2, <3>2
  <2>3. ASSUME NEW k \in DOMAIN R, R[k].derived # NoDerived PROVE Continues(R[k], R)
    <3> DEFINE i == used[k]
               b == objects[i].base
    <3>1. i \in DOMAIN objects /\ i \in ToSet(used) /\ R[k] = objects[i]
      BY <1>2, <1>3, <2>1
    <3>2. b # 0 /\ b \in ToSet(used) /\ objects[b].named
      BY <1>7, <2>3, <3>1 DEF WellAuthored
    <3>3. R[k].derived = Derivation(objects[b], R[k].name)
      BY <3>1, <3>2 DEF AuthoringInv, ObjectInv
    <3>4. PICK l \in DOMAIN used : used[l] = b
      BY <3>2 DEF ToSet
    <3>5. l \in DOMAIN R /\ R[l] = objects[b]
      BY <1>2, <1>3, <3>4
    <3> HIDE DEF b, i
    <3>6. R[l].name \in CanonicalNames(R) /\ Canonical(R, R[l].name) = R[l]
      BY <1>6, <2>2, <3>2, <3>5, CanonicalFacts
    <3>7. /\ R[k].derived.parent = R[l].name /\ R[k].derived.depth = DepthOf(R[l]) + 1
          /\ R[k].derived.lineage = Append(LineageOf(R[l]), R[k].name)
      BY <3>3, <3>5 DEF Derivation
    <3> QED
      BY <3>6, <3>7 DEF Continues
  <2>4. Linked(R)
    BY <2>3 DEF Linked, Continues
  <2> QED
    BY <2>2, <2>4
<1> QED
  BY <1>6, <1>7 DEF R

LEMMA AuthoringExact == AuthoringInv => NormalizationIsExact
<1> SUFFICES ASSUME AuthoringInv, responseVerdict # "open"
             PROVE  /\ responseVerdict = NoError <=>
                         /\ ~DuplicateName(UsedObjects)
                         /\ \A k \in DOMAIN used : Continues(UsedObjects[k], UsedObjects)
                    /\ WellAuthored => responseVerdict = NoError
  BY DEF NormalizationIsExact
<1>1. PICK T : AreResponses(UsedObjects, T)
  BY UsedAre
<1>2. ResponsesError(UsedObjects) = NoError
        <=> ~DuplicateName(UsedObjects) /\ Linked(UsedObjects)
  BY <1>1, ResponsesExact
<1>3. responseVerdict = ResponsesError(UsedObjects)
  BY DEF AuthoringInv
<1>4. DOMAIN UsedObjects = DOMAIN used
  BY DEF UsedObjects, ObjectsOf
<1>5. Linked(UsedObjects) <=> \A k \in DOMAIN used : Continues(UsedObjects[k], UsedObjects)
  BY <1>4 DEF Linked
<1>6. WellAuthored => ~DuplicateName(UsedObjects) /\ Linked(UsedObjects)
  BY UsedAre
<1> QED
  BY <1>2, <1>3, <1>5, <1>6

\* The checks of normalizeSpec on responses, of names, of each lineage by itself and
\* of every chain up to its root, accept exactly the lists in which names are unique
\* and every derived response continues the lineage of a canonical one; so they
\* accept all that defineResponse and defineDerivedResponse make, in any order.
THEOREM ExactNormalization == Spec => []NormalizationIsExact
<1>1. Init => AuthoringInv
  <2> SUFFICES ASSUME Init PROVE AuthoringInv
    OBVIOUS
  <2>1. objects = << >> /\ responseVerdict = "open"
    BY DEF Init, AuthoringInit
  <2>2. IsSequence(<< >>)
    <3>1. << >> \in Seq({})
      OBVIOUS
    <3> QED
      BY <3>1, SequenceIs
  <2> QED
    BY <2>1, <2>2 DEF AuthoringInv
<1>2. AuthoringInv /\ [Next]_vars => AuthoringInv'
  <2> SUFFICES ASSUME AuthoringInv, [Next]_vars PROVE AuthoringInv'
    OBVIOUS
  <2>1. CASE Responses
    BY <2>1, AuthoringKeeps DEF Responses
  <2>2. CASE UNCHANGED responseVars
    BY <2>2 DEF responseVars, AuthoringInv, ObjectInv, UsedObjects, ObjectsOf
  <2>3. CASE Routes \/ Call \/ Command \/ Handlers \/ Messages \/ UNCHANGED vars
    BY <2>2, <2>3 DEF Routes, Call, InCall, Command, InCommand, Handlers, InHandlers,
       Messages, vars
  <2> QED
    BY <2>1, <2>3 DEF Next
<1> QED
  BY <1>1, <1>2, AuthoringExact, PTL DEF Spec

-----------------------------------------------------------------------------
(* The messages of the operations                                          *)

LEMMA OperationFacts ==
  ASSUME NEW n \in DOMAIN Operations
  PROVE  LET op == Operations[n]
         IN  /\ IsSequence(op.responses)
             /\ \A response \in Range(op.responses) : response.status \in Nat \ {0}
             /\ \A part \in {op.request} \cup Range(op.responses) :
                  /\ part.body \in DOMAIN Schemas \cup {NoSchema}
                  /\ IsFiniteSet(part.contentType.values) /\ IsSequence(part.headers)
                  /\ \A h \in Range(part.headers) :
                       /\ h.schema \in DOMAIN HeaderSchemas
                       /\ \A g \in Range(part.headers) :
                            LowerCase[g.name] = LowerCase[h.name] => g = h
<1>1. Operations[n] \in Range(Operations)
  BY DEF Range
<1> QED
  BY <1>1, OperationsAssumption

\* What the validators look through are the responses declared, in their own order.
LEMMA EntriesAre ==
  ASSUME operation \in DOMAIN Operations
  PROVE  /\ Entries(Current) \in Seq(Range(Current.responses))
         /\ \A response \in Range(Current.responses) :
              \E k \in DOMAIN Entries(Current) : Entries(Current)[k] = response
<1> DEFINE R == Current.responses
           T == Range(R)
           shared == {k \in DOMAIN R : IsCanonical(R[k])}
           own == DOMAIN R \ shared
           first == Selected(R, own)
           second == Selected(R, shared)
<1>1. R \in Seq(T)
  BY OperationFacts DEF IsSequence, Range, Current
<1> HIDE DEF R
<1>2. /\ first \in Seq({R[i] : i \in DOMAIN R \cap own})
      /\ \A i \in DOMAIN R \cap own : \E k \in DOMAIN first : first[k] = R[i]
  <2> HIDE DEF own, T
  <2> QED
    BY <1>1, SelectedFacts
<1>3. /\ second \in Seq({R[i] : i \in DOMAIN R \cap shared})
      /\ \A i \in DOMAIN R \cap shared : \E k \in DOMAIN second : second[k] = R[i]
  <2> HIDE DEF shared, T
  <2> QED
    BY <1>1, SelectedFacts
<1>4. /\ {R[i] : i \in DOMAIN R \cap own} \subseteq T
      /\ {R[i] : i \in DOMAIN R \cap shared} \subseteq T
  BY DEF Range
<1>5. Entries(Current) = first \o second
  BY DEF Entries, R
<1> HIDE DEF first, second, T
<1>6. first \in Seq(T) /\ second \in Seq(T)
  BY <1>2, <1>3, <1>4
<1>7. /\ DOMAIN (first \o second) = 1 .. Len(first) + Len(second)
      /\ \A k \in DOMAIN first : (first \o second)[k] = first[k]
      /\ \A k \in DOMAIN second : (first \o second)[Len(first) + k] = second[k]
  BY <1>6
<1>8. ASSUME NEW i \in DOMAIN R
      PROVE  \E k \in DOMAIN (first \o second) : (first \o second)[k] = R[i]
  <2>1. CASE i \in shared
    <3>1. PICK k \in DOMAIN second : second[k] = R[i]
      BY <1>3, <2>1
    <3>2. Len(first) + k \in DOMAIN (first \o second)
      BY <1>6, <1>7, <3>1
    <3> QED
      BY <1>7, <3>1, <3>2
  <2>2. CASE i \in own
    <3>1. PICK k \in DOMAIN first : first[k] = R[i]
      BY <1>2, <2>2
    <3>2. k \in DOMAIN (first \o second)
      BY <1>6, <1>7, <3>1
    <3> QED
      BY <1>7, <3>1, <3>2
  <2> QED
    BY <2>1, <2>2
<1>9. \A response \in T : \E i \in DOMAIN R : R[i] = response
  BY DEF T, Range
<1>10. T = Range(Current.responses)
  BY DEF T, R
<1> HIDE DEF R
<1> QED
  BY <1>5, <1>6, <1>8, <1>9, <1>10

\* A message some entry fits is taken for the first that it fits.
LEMMA EntryIs ==
  ASSUME operation \in DOMAIN Operations, NEW m, NEW k \in DOMAIN Entries(Current),
         Entries(Current)[k].status = m.status, PartFits(Entries(Current)[k], m)
  PROVE  LET entry == EntryOf(Current, m)
         IN  /\ entry \in DOMAIN Entries(Current) /\ entry # 0 /\ entry <= k
             /\ Entries(Current)[entry].status = m.status
             /\ PartFits(Entries(Current)[entry], m)
<1> DEFINE E == Entries(Current)
           fitting == {j \in DOMAIN E : E[j].status = m.status /\ PartFits(E[j], m)}
<1>1. DOMAIN E = 1 .. Len(E) /\ Len(E) \in Nat
  BY EntriesAre
<1>2. k \in fitting /\ fitting \in SUBSET Nat
  BY <1>1
<1>3. EntryOf(Current, m) = Least(fitting)
  BY <1>2 DEF EntryOf
<1> HIDE DEF fitting
<1>4. Least(fitting) \in fitting /\ Least(fitting) <= k
  BY <1>2, LeastOne
<1> QED
  BY <1>1, <1>3, <1>4 DEF fitting

\* A list of strings without commas is read as it was sent, once it is joined.
LEMMA Joined ==
  ASSUME NEW T, NEW lists \in Seq(Seq(T)), lists # << >>,
         \A i \in DOMAIN lists : Len(lists[i]) = 1
  PROVE  FlattenSeq(lists) = [i \in DOMAIN lists |-> lists[i][1]]
<1> DEFINE N == Len(lists)
           IsFlat(f) ==
             f = [i \in 1 .. N |-> IF i = 1 THEN lists[i] ELSE f[i - 1] \o lists[i]]
           F == CHOOSE f : IsFlat(f)
           upTo == [n \in 0 .. N |-> [k \in 1 .. n |-> lists[k][1]]]
           g == [i \in 1 .. N |-> upTo[i]]
<1>1. N \in Nat \ {0} /\ DOMAIN lists = 1 .. N
  OBVIOUS
<1>2. \A i \in 1 .. N : lists[i] \in Seq(T) /\ Len(lists[i]) = 1
  BY <1>1, ElementOfSeq
<1>3. \A i \in 1 .. N : lists[i] = <<lists[i][1]>> /\ lists[i][1] \in T
  BY <1>2
<1>4. \A i \in 1 .. N : upTo[i] = IF i = 1 THEN lists[i] ELSE upTo[i - 1] \o lists[i]
  <2> TAKE i \in 1 .. N
  <2>1. CASE i = 1
    BY <1>1, <1>3, <2>1
  <2>2. CASE i # 1
    <3>1. i - 1 \in Nat /\ i - 1 + 1 = i /\ i \in Nat
      BY <1>1, <2>2
    <3> DEFINE x == lists[i][1]
               before == [k \in 1 .. i - 1 |-> lists[k][1]]
    <3>2. x \in T /\ lists[i] = <<x>> /\ \A k \in 1 .. i - 1 : k \in 1 .. N
      BY <1>1, <1>3, <3>1
    <3>3. before \in Seq(T) /\ Len(before) = i - 1
      BY <1>3, <3>1, <3>2
    <3>4. upTo[i] = Append(before, x)
      BY <1>1, <3>1, <3>3
    <3>5. upTo[i - 1] = before
      BY <1>1, <2>2, <3>1
    <3> HIDE DEF x, before, upTo
    <3>6. before \o lists[i] = Append(before, x)
      BY <3>2, <3>3, AppendIsConcat
    <3> QED
      BY <2>2, <3>4, <3>5, <3>6
  <2> QED
    BY <2>1, <2>2
<1> HIDE DEF upTo
<1>5. IsFlat(g)
  <2>1. \A i \in 1 .. N : g[i] = IF i = 1 THEN lists[i] ELSE g[i - 1] \o lists[i]
    BY <1>1, <1>4
  <2> QED
    BY <2>1
<1>6. IsFlat(F)
  <2> HIDE DEF IsFlat, g
  <2> QED
    BY <1>5
<1>7. FlattenSeq(lists) = F[N]
  BY <1>1 DEF FlattenSeq
<1> HIDE DEF F
<1>8. \A i \in 1 .. N : F[i] = IF i = 1 THEN lists[i] ELSE F[i - 1] \o lists[i]
  BY <1>6
<1> DEFINE Same == {n \in 0 .. N : n # 0 => F[n] = upTo[n]}
<1>9. \A n \in Same : n \in Nat /\ n < N => n + 1 \in Same
  <2> TAKE n \in Same
  <2> SUFFICES ASSUME n \in Nat, n < N PROVE F[n + 1] = upTo[n + 1]
    BY <1>1
  <2>1. n + 1 \in 1 .. N /\ n + 1 - 1 = n /\ (n + 1 = 1 <=> n = 0)
    BY <1>1
  <2>2. F[n + 1] = IF n = 0 THEN lists[n + 1] ELSE F[n] \o lists[n + 1]
    BY <1>8, <2>1
  <2>3. upTo[n + 1] = IF n = 0 THEN lists[n + 1] ELSE upTo[n] \o lists[n + 1]
    BY <1>4, <2>1
  <2> QED
    BY <2>2, <2>3
<1>10. N \in Same
  <2>1. 0 \in Same
    BY <1>1
  <2> HIDE DEF Same
  <2> QED
    BY <1>1, <1>9, <2>1, UpTo
<1> QED
  BY <1>1, <1>7, <1>10 DEF upTo

\* The strings of a header's value as they are on the wire, before they are joined
WireItems(items) ==
  [k \in DOMAIN items |->
     [items[k] EXCEPT ![1] = IF k = 1 THEN Trim[@] ELSE Spaced[Trim[@]]]]

\* Strings that are trimmed and not empty are what a split leaves of them.
LEMMA Splits ==
  ASSUME NEW items, IsSequence(items), items # << >>,
         \A i \in DOMAIN items : /\ items[i] = <<items[i][1]>>
                                 /\ items[i][1] \in DOMAIN Trim
                                 /\ Trim[items[i][1]] = items[i][1] /\ items[i][1] # Empty
  PROVE  SplitCommaDelimitedValues(FlattenSeq(WireItems(items)))
           = [i \in DOMAIN items |-> items[i][1]]
<1> DEFINE joined == WireItems(items)
           text(i) == items[i][1]
           part(i) == IF i = 1 THEN text(i) ELSE Spaced[text(i)]
           flat == FlattenSeq(joined)
           T == {part(i) : i \in DOMAIN items}
           trimmed == [k \in DOMAIN flat |-> Trim[flat[k]]]
           own == [i \in DOMAIN items |-> text(i)]
<1>1. /\ DOMAIN items = 1 .. Len(items) /\ Len(items) \in Nat
      /\ items \in Seq({items[i] : i \in DOMAIN items})
  BY DEF IsSequence
<1>2. ASSUME NEW i \in DOMAIN items
      PROVE  joined[i] = <<part(i)>> /\ Trim[part(i)] = text(i)
  <2>1. /\ items[i] = <<text(i)>> /\ Trim[text(i)] = text(i) /\ text(i) \in DOMAIN Trim
        /\ joined[i] = [items[i] EXCEPT ![1] = IF i = 1 THEN Trim[@] ELSE Spaced[Trim[@]]]
    BY DEF WireItems
  <2>2. joined[i] = [<<text(i)>> EXCEPT ![1] = part(i)]
    BY <2>1
  <2>3. Trim[part(i)] = text(i)
    BY <2>1, BlanksAssumption
  <2> HIDE DEF text, part, joined
  <2> QED
    BY <2>2, <2>3
<1>3. DOMAIN joined = DOMAIN items
  BY DEF WireItems
<1>4. joined \in Seq(Seq(T)) /\ Len(joined) = Len(items)
  <2>1. \A i \in DOMAIN items : part(i) \in T
    OBVIOUS
  <2>2. joined = [i \in 1 .. Len(items) |-> joined[i]]
    BY <1>1 DEF WireItems
  <2> HIDE DEF joined, T
  <2>3. \A i \in 1 .. Len(items) : joined[i] \in Seq(T)
    <3> TAKE i \in 1 .. Len(items)
    <3> DEFINE x == part(i)
    <3>1. joined[i] = <<x>> /\ x \in T
      BY <1>1, <1>2, <2>1
    <3> HIDE DEF x
    <3> QED
      BY <3>1
  <2> DEFINE strings == Seq(T)
  <2> HIDE DEF strings
  <2>4. joined \in Seq(strings) /\ Len(joined) = Len(items)
    BY <1>1, <2>2, <2>3 DEF strings
  <2> QED
    BY <2>4 DEF strings
<1>5. joined # << >> /\ \A i \in DOMAIN joined : Len(joined[i]) = 1
  <2>1. Len(items) # 0 /\ Len(<< >>) = 0
    BY <1>1
  <2> HIDE DEF joined, part
  <2>2. joined # << >>
    BY <1>4, <2>1
  <2>3. \A i \in DOMAIN joined : Len(joined[i]) = 1
    BY <1>2, <1>3
  <2> QED
    BY <2>2, <2>3
<1> HIDE DEF T, joined
<1>6. flat = [i \in DOMAIN items |-> joined[i][1]]
  BY <1>3, <1>4, <1>5, Joined
<1>7. /\ DOMAIN flat = DOMAIN items
      /\ \A i \in DOMAIN items : Trim[flat[i]] = text(i)
  <2> HIDE DEF text, part, flat
  <2> QED
    BY <1>2, <1>6
<1>8. trimmed = own
  <2> HIDE DEF text, flat
  <2> QED
    BY <1>7
<1>9. \A i \in DOMAIN own : own[i] # Empty
  OBVIOUS
<1>10. own \in Seq({text(i) : i \in DOMAIN items})
  <2> DEFINE R == {text(i) : i \in DOMAIN items}
  <2>1. \A i \in DOMAIN items : text(i) \in R
    OBVIOUS
  <2> HIDE DEF R, text
  <2> QED
    BY <1>1, <2>1
<1>11. SplitCommaDelimitedValues(flat)
         = Selected(trimmed, {k \in DOMAIN trimmed : trimmed[k] # Empty})
  BY DEF SplitCommaDelimitedValues
<1> HIDE DEF own, trimmed, flat
<1>12. Selected(own, {k \in DOMAIN own : own[k] # Empty}) = own
  BY <1>9, <1>10, SelectedFacts
<1> QED
  BY <1>8, <1>11, <1>12 DEF own, flat, joined

\* A header's value that the wire can carry is coerced back to what it was.
LEMMA HeaderReads ==
  ASSUME NEW s \in DOMAIN HeaderSchemas, NEW value \in HeaderSchemas[s].accepts,
         \A item \in Range(value.items) : Trim[item[1]] = item[1],
         value.list => /\ value.items # << >>
                       /\ \A item \in Range(value.items) : Len(item) = 1 /\ item[1] # Empty
  PROVE  /\ value.items # << >>
         /\ Coerce(HeaderSchemas[s], Str(FlattenSeq(WireItems(value.items)))) = value
<1> DEFINE items == value.items
           schema == HeaderSchemas[s]
           flat == FlattenSeq(WireItems(items))
<1>1. /\ value = [list |-> schema.array, items |-> items] /\ IsSequence(items)
      /\ \A item \in Range(items) :
           /\ item # << >> /\ IsSequence(item)
           /\ \A k \in DOMAIN item : item[k] \in DOMAIN Trim
      /\ ~value.list => Len(items) = 1
  BY HeadersAssumption
<1>2. DOMAIN items = 1 .. Len(items) /\ Len(items) \in Nat
  BY <1>1 DEF IsSequence
<1>3. value.list = schema.array
  BY <1>1
<1>4. Str(flat).list = FALSE /\ Str(flat).items = <<flat>>
  BY DEF Str
<1>5. CASE schema.array
  <2>1. /\ items # << >>
        /\ \A i \in DOMAIN items :
             /\ Len(items[i]) = 1 /\ items[i][1] # Empty /\ IsSequence(items[i])
             /\ Trim[items[i][1]] = items[i][1]
             /\ \A k \in DOMAIN items[i] : items[i][k] \in DOMAIN Trim
    BY <1>1, <1>3, <1>5 DEF Range
  <2>2. \A i \in DOMAIN items : items[i] = <<items[i][1]>> /\ items[i][1] \in DOMAIN Trim
    <3> TAKE i \in DOMAIN items
    <3> DEFINE item == items[i]
    <3>1. Len(item) = 1 /\ IsSequence(item) /\ \A k \in DOMAIN item : item[k] \in DOMAIN Trim
      BY <2>1
    <3> HIDE DEF item
    <3>2. item = <<item[1]>> /\ 1 \in DOMAIN item
      BY <3>1 DEF IsSequence
    <3> QED
      BY <3>1, <3>2 DEF item
  <2>3. SplitCommaDelimitedValues(flat) = [i \in DOMAIN items |-> items[i][1]]
    BY <1>1, <2>1, <2>2, Splits
  <2>4. items = [i \in DOMAIN items |-> <<items[i][1]>>]
    <3>1. items = [i \in DOMAIN items |-> items[i]]
      BY <1>1 DEF IsSequence
    <3> HIDE DEF items
    <3> QED
      BY <2>2, <3>1
  <2> DEFINE strings == SplitCommaDelimitedValues(flat)
  <2>5. Coerce(schema, Str(flat)) = List([k \in DOMAIN strings |-> <<strings[k]>>])
    <3> HIDE DEF flat
    <3> QED
      BY <1>4, <1>5 DEF Coerce
  <2>6. [k \in DOMAIN strings |-> <<strings[k]>>] = items
    <3> HIDE DEF flat, items
    <3> QED
      BY <2>3, <2>4
  <2>7. value = [list |-> TRUE, items |-> items]
    <3>1. schema.array = TRUE
      BY <1>5
    <3> QED
      BY <1>1, <3>1
  <2> QED
    BY <2>1, <2>5, <2>6, <2>7 DEF List
<1>6. CASE ~schema.array
  <2>1. Len(items) = 1
    BY <1>1, <1>3, <1>6
  <2>2. items = <<items[1]>> /\ items[1] \in Range(items)
    BY <1>1, <2>1 DEF IsSequence, Range
  <2>3. WireItems(items) = <<items[1]>>
    <3> DEFINE item == items[1]
    <3>1. /\ item # << >> /\ IsSequence(item) /\ Trim[item[1]] = item[1]
          /\ items = <<item>>
      BY <1>1, <2>2
    <3> HIDE DEF item, items
    <3>2. [item EXCEPT ![1] = Trim[item[1]]] = item
      BY <3>1 DEF IsSequence
    <3>3. WireItems(items) = [k \in {1} |-> [item EXCEPT ![1] = Trim[item[1]]]]
      BY <3>1 DEF WireItems
    <3> QED
      BY <3>1, <3>2, <3>3 DEF item
  <2>4. flat = items[1]
    BY <2>3, OneString
  <2>5. Coerce(schema, Str(flat)) = Str(flat)
    <3> HIDE DEF flat
    <3> QED
      BY <1>4, <1>6 DEF Coerce
  <2>6. value = [list |-> FALSE, items |-> items]
    <3>1. schema.array = FALSE
      BY <1>6
    <3> QED
      BY <1>1, <3>1
  <2>7. items # << >>
    <3>1. Len(<< >>) = 0
      OBVIOUS
    <3> HIDE DEF items
    <3> QED
      BY <2>1, <3>1
  <2>8. Str(flat) = value
    <3> HIDE DEF flat, items
    <3> QED
      BY <2>2, <2>4, <2>6 DEF Str
  <2> QED
    BY <2>5, <2>7, <2>8
<1> QED
  BY <1>5, <1>6

-----------------------------------------------------------------------------
(* What is on its way                                                      *)

IsBody(value) ==
  /\ value = [kind |-> value.kind, data |-> value.data]
  /\ value.kind = "undefined" => value = NoBody
  /\ value.kind = "json" => value.data \in JsonTexts
  /\ value.kind = "text" => value.data \notin DOMAIN Decoded

LowerNames(part) == {LowerCase[h.name] : h \in Range(part.headers)}

\* What a caller passes is on the wire.
UploadInv ==
  /\ \E type \in MediaTypes, value \in BodiesOf(Current.request) :
       message = Message(0, << >>, type, value, 0)
  /\ PartFits(Current.request, message)
  /\ Validated(Current.request, message, 0).body = message.body
  /\ Current.request.contentType.declared \/ message.type = "none"
  /\ wire = SerializeRequest(message)

\* What the server's validator leaves of a response, and the client is to read
IsAnswer(m) ==
  LET part == Entries(Current)[m.entry]
  IN  /\ m.entry \in DOMAIN Entries(Current)
      /\ m.status = part.status
      /\ m = Message(m.status, m.headers, m.type, m.body, m.entry)
      /\ m.type \in MediaTypes \cup {"none"}
      /\ part.contentType.declared \/ m.type = "none"
      /\ m.body \in BodiesOf(part)
      /\ m.headers = [name \in DOMAIN m.headers |-> m.headers[name]]
      /\ DOMAIN m.headers \subseteq LowerNames(part)
      /\ \A h \in Range(part.headers) :
           IF LowerCase[h.name] \in DOMAIN m.headers
             THEN m.headers[LowerCase[h.name]] \in HeaderSchemas[h.schema].accepts
             ELSE ~h.required

OnTheWire ==
  IF message.status = 0 THEN UploadInv
  ELSE IsAnswer(message) /\ wire = SerializeResponse(message)

ExchangeInv ==
  /\ operation \in DOMAIN Operations
  /\ exchange # "open" => OnTheWire
  /\ exchange \in {"open", "uploaded", "accepted"} => message.status = 0
  /\ exchange = "answered" => message.status # 0
  /\ MessagesAreReadAsSent

LEMMA BodyFacts ==
  ASSUME NEW part, part.body \in DOMAIN Schemas \cup {NoSchema},
         NEW value \in BodiesOf(part)
  PROVE  IsBody(value)
<1>1. CASE part.body = NoSchema
  BY <1>1 DEF BodiesOf, IsBody, NoBody
<1>2. CASE part.body # NoSchema
  <2>1. value \in Schemas[part.body].accepts /\ part.body \in DOMAIN Schemas
    BY <1>2 DEF BodiesOf
  <2> QED
    BY <2>1, BodiesAssumption DEF IsBody
<1> QED
  BY <1>1, <1>2

\* The content type that both sides add
AutomaticType(payload) ==
  CASE payload.kind = "json" -> "application/json"
    [] payload.kind = "text" -> "text/plain;charset=UTF-8"
    [] OTHER -> "none"

\* What is on the wire, of a message that is not a view
LEMMA SerializedIs ==
  ASSUME NEW m, m.body.kind # "view", NEW w \in {SerializeRequest(m), SerializeResponse(m)}
  PROVE  /\ w.status = m.status /\ w.headers = WireHeaders(m.headers)
         /\ w.type = IF m.type # "none" THEN m.type ELSE AutomaticType(m.body)
         /\ w.data = IF m.body.kind \in {"undefined", "null"} THEN Empty ELSE m.body.data
<1>1. CASE w = SerializeRequest(m)
  BY <1>1 DEF SerializeRequest, Serialize, AutomaticType
<1>2. CASE w = SerializeResponse(m)
  BY <1>2 DEF SerializeResponse, Serialize, AutomaticType
<1> QED
  BY <1>1, <1>2

\* The content type a JSON body travels with
LEMMA TypeFacts ==
  ASSUME NEW m, m.type \in MediaTypes \cup {"none"}, m.body.kind = "json"
  PROVE  /\ SerializeResponse(m).type \in DOMAIN Essence
         /\ Transport(SerializeResponse(m).type) = "json"
              => SerializeResponse(m).type \in JsonLike
<1>1. SerializeResponse(m).type \in DOMAIN Essence
  BY MediaTypesAssumption DEF SerializeResponse, Serialize
<1> QED
  BY <1>1, MediaTypesAssumption DEF Transport

-----------------------------------------------------------------------------
(* What arrives                                                            *)

LEMMA UploadReads ==
  ASSUME operation \in DOMAIN Operations, UploadInv, Carried, NEW streamed \in BOOLEAN
  PROVE  LET m == Message(0, wire.headers, wire.type, ParseRequestBody(wire, streamed), 0)
         IN  /\ m.body = message.body /\ m.body.kind # "error"
             /\ PartFits(Current.request, m)
             /\ Validated(Current.request, m, 0).body = message.body
<1> DEFINE part == Current.request
           m == Message(0, wire.headers, wire.type, ParseRequestBody(wire, streamed), 0)
<1>1. PICK type \in MediaTypes, value \in BodiesOf(part) :
        message = Message(0, << >>, type, value, 0)
  BY DEF UploadInv
<1>2. /\ message.status = 0 /\ message.headers = << >> /\ message.type = type
      /\ message.body = value
  BY <1>1 DEF Message
<1>3. wire = SerializeRequest(message) /\ value.kind # "view"
  <2>1. CarriedBody
    BY DEF Carried
  <2> QED
    BY <1>2, <2>1 DEF UploadInv, CarriedBody
<1>4. /\ wire.type = IF type # "none" THEN type ELSE AutomaticType(value)
      /\ wire.data = IF value.kind \in {"undefined", "null"} THEN Empty ELSE value.data
      /\ wire.headers = WireHeaders(<< >>)
  BY <1>2, <1>3, SerializedIs
<1>5. DOMAIN wire.headers = {} /\ DOMAIN message.headers = {}
  BY <1>2, <1>4 DEF WireHeaders
<1>6. IsBody(value)
  <2>1. part.body \in DOMAIN Schemas \cup {NoSchema}
    BY OperationFacts DEF Current
  <2> HIDE DEF part
  <2> QED
    BY <2>1, BodyFacts
<1>7. /\ m.headers = wire.headers /\ m.type = wire.type
      /\ m.body = ParseRequestBody(wire, streamed)
  BY DEF Message
<1>8. CarriedBody /\ ContentTypeFits(part, wire.type)
  BY <1>2 DEF Carried, Sent
<1>9. ParseRequestBody(wire, streamed) = value
  <2>1. CASE value.kind = "undefined"
    <3>1. wire.data = Empty /\ value = NoBody
      BY <1>4, <1>6, <2>1 DEF IsBody
    <3>2. Transport(wire.type) = "raw" \/ wire.type = "none"
      BY <1>2, <1>8, <2>1 DEF CarriedBody
    <3> QED
      BY <3>1, <3>2 DEF ParseRequestBody
  <2>2. CASE value.kind = "json"
    <3>1. wire.data = value.data /\ value.data \in JsonTexts /\ value.data # Empty
      BY <1>4, <1>6, <2>2, BodiesAssumption DEF IsBody
    <3>2. Transport(wire.type) = "json"
      BY <1>2, <1>8, <2>2 DEF CarriedBody
    <3>3. wire.type # "none"
      BY <1>4, <2>2 DEF AutomaticType
    <3>4. value = [kind |-> "json", data |-> wire.data]
      BY <1>6, <2>2, <3>1 DEF IsBody
    <3> QED
      BY <3>1, <3>2, <3>3, <3>4 DEF ParseRequestBody, JsonBody
  <2>3. CASE value.kind = "text"
    <3>1. /\ Transport(wire.type) = "text" /\ value.data # Empty
      BY <1>2, <1>8, <2>3 DEF CarriedBody
    <3>2. wire.data = value.data /\ value.data \notin DOMAIN Decoded
      BY <1>4, <1>6, <2>3 DEF IsBody
    <3>3. wire.type # "none"
      BY <1>4, <2>3 DEF AutomaticType
    <3>4. value = [kind |-> "text", data |-> wire.data]
      BY <1>6, <2>3, <3>2 DEF IsBody
    <3> QED
      BY <3>1, <3>2, <3>3, <3>4 DEF ParseRequestBody, TextBody
  <2>4. value.kind \in {"undefined", "json", "text"}
    BY <1>2, <1>8 DEF CarriedBody
  <2> QED
    BY <2>1, <2>2, <2>3, <2>4
<1>10. value.kind # "error"
  BY <1>2, <1>8 DEF CarriedBody
<1>11. PartFits(part, m)
  <2>1. PartFits(part, message)
    BY DEF UploadInv
  <2>2. BodyFits(part, m.body)
    BY <1>2, <1>7, <1>9, <2>1 DEF PartFits
  <2>3. ContentTypeFits(part, m.type)
    BY <1>7, <1>8
  <2>4. \A k \in DOMAIN part.headers : HeaderFits(part.headers[k], m.headers)
    <3>1. \A k \in DOMAIN part.headers : HeaderFits(part.headers[k], message.headers)
      BY <2>1 DEF PartFits
    <3> QED
      BY <1>5, <1>7, <3>1 DEF HeaderFits
  <2> HIDE DEF part, m
  <2> QED
    BY <2>2, <2>3, <2>4 DEF PartFits
<1>12. Validated(part, m, 0).body = message.body
  <2>1. Validated(part, message, 0).body = message.body
    BY DEF UploadInv
  <2>2. \A n : Validated(part, n, 0).body = IF part.body = NoSchema THEN NoBody ELSE n.body
    BY DEF Validated, Message
  <2> HIDE DEF part, m
  <2> QED
    BY <1>2, <1>7, <1>9, <2>1, <2>2
<1> QED
  BY <1>2, <1>7, <1>9, <1>10, <1>11, <1>12

\* Of an answer, the headers that the wire can carry are read as they were sent.
LEMMA HeadersRead ==
  ASSUME operation \in DOMAIN Operations, IsAnswer(message), wire = SerializeResponse(message),
         CarriedHeaders
  PROVE  LET part == Entries(Current)[message.entry]
         IN  /\ part \in Range(Current.responses)
             /\ DOMAIN wire.headers = DOMAIN message.headers
             /\ \A h \in Range(part.headers) :
                  LowerCase[h.name] \in DOMAIN message.headers =>
                    /\ Coerce(HeaderSchemas[h.schema], wire.headers[LowerCase[h.name]])
                         = message.headers[LowerCase[h.name]]
                    /\ message.headers[LowerCase[h.name]]
                         \in HeaderSchemas[h.schema].accepts
<1> DEFINE part == Entries(Current)[message.entry]
<1>1. /\ message.entry \in DOMAIN Entries(Current)
      /\ DOMAIN message.headers \subseteq LowerNames(part)
      /\ \A h \in Range(part.headers) :
           LowerCase[h.name] \in DOMAIN message.headers =>
             message.headers[LowerCase[h.name]] \in HeaderSchemas[h.schema].accepts
      /\ wire.headers = WireHeaders(message.headers)
  BY DEF IsAnswer, SerializeResponse, Serialize
<1>2. part \in Range(Current.responses)
  BY <1>1, EntriesAre
<1>3. \A h \in Range(part.headers) : h.schema \in DOMAIN HeaderSchemas
  BY <1>2, OperationFacts DEF Current
<1> HIDE DEF part
<1>4. ASSUME NEW h \in Range(part.headers), LowerCase[h.name] \in DOMAIN message.headers
      PROVE  LET name == LowerCase[h.name]
             IN  /\ name \in DOMAIN wire.headers
                 /\ Coerce(HeaderSchemas[h.schema], wire.headers[name])
                      = message.headers[name]
                 /\ message.headers[name] \in HeaderSchemas[h.schema].accepts
  <2> DEFINE name == LowerCase[h.name]
             value == message.headers[name]
  <2>1. value \in HeaderSchemas[h.schema].accepts /\ h.schema \in DOMAIN HeaderSchemas
    BY <1>1, <1>3, <1>4
  <2>2. /\ \A item \in Range(value.items) : Trim[item[1]] = item[1]
        /\ value.list =>
             /\ value.items # << >>
             /\ \A item \in Range(value.items) : Len(item) = 1 /\ item[1] # Empty
    BY <1>4 DEF CarriedHeaders
  <2> HIDE DEF value
  <2>3. /\ value.items # << >>
        /\ Coerce(HeaderSchemas[h.schema], Str(FlattenSeq(WireItems(value.items)))) = value
    BY <2>1, <2>2, HeaderReads
  <2>4. /\ name \in DOMAIN wire.headers
        /\ wire.headers[name] = Str(FlattenSeq(WireItems(value.items)))
    BY <1>1, <1>4, <2>3 DEF WireHeaders, WireItems, value
  <2> QED
    BY <2>1, <2>3, <2>4 DEF value
<1>5. DOMAIN wire.headers = DOMAIN message.headers
  <2>1. DOMAIN wire.headers \subseteq DOMAIN message.headers
    BY <1>1 DEF WireHeaders
  <2>2. \A name \in DOMAIN message.headers :
          \E h \in Range(part.headers) : name = LowerCase[h.name]
    BY <1>1 DEF LowerNames
  <2>3. DOMAIN message.headers \subseteq DOMAIN wire.headers
    BY <1>4, <2>2
  <2> QED
    BY <2>1, <2>3
<1> QED
  BY <1>2, <1>4, <1>5 DEF part

LEMMA AnswerReads ==
  ASSUME operation \in DOMAIN Operations, IsAnswer(message), wire = SerializeResponse(message),
         Carried
  PROVE  LET part == Entries(Current)[message.entry]
             m == Message(wire.status, wire.headers, wire.type, ParseResponseBody(wire), 0)
         IN  /\ m.status = message.status /\ message.status # 0
             /\ m.body.kind # "error" /\ PartFits(part, m)
             /\ Validated(part, m, message.entry) =
                  [message EXCEPT !.type = IF part.contentType.declared THEN wire.type
                                                                       ELSE "none"]
<1> DEFINE part == Entries(Current)[message.entry]
           payload == message.body
           m == Message(wire.status, wire.headers, wire.type, ParseResponseBody(wire), 0)
<1>1. /\ message.entry \in DOMAIN Entries(Current)
      /\ message.status = part.status
      /\ message = Message(message.status, message.headers, message.type, payload,
                           message.entry)
      /\ message.type \in MediaTypes \cup {"none"}
      /\ payload \in BodiesOf(part)
      /\ message.headers = [name \in DOMAIN message.headers |-> message.headers[name]]
      /\ DOMAIN message.headers \subseteq LowerNames(part)
      /\ \A h \in Range(part.headers) :
           IF LowerCase[h.name] \in DOMAIN message.headers
             THEN message.headers[LowerCase[h.name]] \in HeaderSchemas[h.schema].accepts
             ELSE ~h.required
      /\ wire = SerializeResponse(message)
  BY DEF IsAnswer
<1>2. part \in Range(Current.responses)
  BY <1>1, EntriesAre
<1>3. /\ message.status \in Nat \ {0} /\ part.body \in DOMAIN Schemas \cup {NoSchema}
      /\ \A h \in Range(part.headers) :
           /\ h.schema \in DOMAIN HeaderSchemas
           /\ \A g \in Range(part.headers) : LowerCase[g.name] = LowerCase[h.name] => g = h
  BY <1>1, <1>2, OperationFacts DEF Current
<1>4. IsBody(payload)
  BY <1>1, <1>3, BodyFacts
<1>5. /\ CarriedBody /\ CarriedHeaders /\ ContentTypeFits(part, wire.type)
      /\ message.status \in NullBodyStatuses => payload = NoBody
  BY <1>3 DEF Carried, Sent
<1>6. /\ m.status = wire.status /\ m.headers = wire.headers /\ m.type = wire.type
      /\ m.body = ParseResponseBody(wire)
  BY DEF Message
<1>7. /\ wire.status = message.status
      /\ wire.type = IF message.type # "none" THEN message.type ELSE AutomaticType(payload)
      /\ wire.data = IF payload.kind \in {"undefined", "null"} THEN Empty ELSE payload.data
      /\ wire.headers = WireHeaders(message.headers)
  <2>1. payload.kind # "view"
    BY <1>5 DEF CarriedBody
  <2> QED
    BY <1>1, <2>1, SerializedIs
<1>8. /\ m.body = payload \/ (part.body = NoSchema /\ payload = NoBody)
      /\ m.body.kind # "error"
  <2>1. CASE payload.kind = "undefined"
    <3>1. wire.data = Empty /\ payload = NoBody
      BY <1>4, <1>7, <2>1 DEF IsBody
    <3>2. ParseResponseBody(wire) \in {NoBody, [kind |-> "bytes", data |-> wire.data]}
      BY <3>1 DEF ParseResponseBody
    <3>3. CASE ParseResponseBody(wire) = NoBody
      BY <1>6, <3>1, <3>3 DEF NoBody
    <3>4. CASE ParseResponseBody(wire) # NoBody
      <4>1. wire.type \notin JsonLike /\ wire.type # "none" /\ wire.type \notin TextLike
        BY <3>1, <3>4 DEF ParseResponseBody
      <4>2. part.body = NoSchema
        BY <1>3, <1>5, <2>1, <4>1 DEF CarriedBody, Sent
      <4> QED
        BY <1>6, <3>1, <3>2, <3>4, <4>2
    <3> QED
      BY <3>3, <3>4
  <2>2. CASE payload.kind = "json"
    <3>1. wire.data = payload.data /\ payload.data \in JsonTexts /\ payload.data # Empty
      BY <1>4, <1>7, <2>2, BodiesAssumption DEF IsBody
    <3>2. Transport(wire.type) = "json" /\ wire.type \in JsonLike
      BY <1>1, <1>5, <2>2, TypeFacts DEF CarriedBody
    <3>3. wire.status \notin {204, 304}
      BY <1>5, <1>7, <2>2 DEF NullBodyStatuses, NoBody
    <3>4. payload = [kind |-> "json", data |-> wire.data]
      BY <1>4, <2>2, <3>1 DEF IsBody
    <3>5. ParseResponseBody(wire) = payload
      BY <3>1, <3>2, <3>3, <3>4 DEF ParseResponseBody, JsonBody
    <3> QED
      BY <1>6, <2>2, <3>5
  <2>3. CASE payload.kind = "text"
    <3>1. /\ Transport(wire.type) = "text" /\ payload.data # Empty
          /\ wire.type \notin JsonLike /\ wire.type \in TextLike
      <4>1. /\ Transport(wire.type) = "text" /\ payload.data # Empty
            /\ wire.type \notin JsonLike
        BY <1>3, <1>5, <2>3 DEF CarriedBody
      <4>2. wire.type \in DOMAIN Essence
        BY <1>1, <1>7, <2>3, MediaTypesAssumption DEF AutomaticType
      <4> QED
        BY <4>1, <4>2, MediaTypesAssumption DEF Transport
    <3>2. wire.data = payload.data /\ payload.data \notin DOMAIN Decoded
      BY <1>4, <1>7, <2>3 DEF IsBody
    <3>3. wire.status \notin {204, 304}
      BY <1>5, <1>7, <2>3 DEF NullBodyStatuses, NoBody
    <3>4. payload = [kind |-> "text", data |-> wire.data]
      BY <1>4, <2>3, <3>2 DEF IsBody
    <3>5. ParseResponseBody(wire) = payload
      BY <3>1, <3>2, <3>3, <3>4 DEF ParseResponseBody, TextBody
    <3> QED
      BY <1>6, <2>3, <3>5
  <2>4. CASE payload.kind = "bytes"
    <3>1. wire.type # "none" /\ wire.type \notin JsonLike \cup TextLike
      BY <1>5, <2>4 DEF CarriedBody
    <3>2. wire.data = payload.data
      BY <1>7, <2>4
    <3>3. wire.status \notin {204, 304}
      BY <1>5, <1>7, <2>4 DEF NullBodyStatuses, NoBody
    <3>4. payload = [kind |-> "bytes", data |-> wire.data]
      BY <1>4, <2>4, <3>2 DEF IsBody
    <3>5. ParseResponseBody(wire) = payload
      BY <3>1, <3>3, <3>4 DEF ParseResponseBody
    <3> QED
      BY <1>6, <2>4, <3>5
  <2>5. payload.kind \in {"undefined", "json", "text", "bytes"}
    BY <1>5 DEF CarriedBody
  <2> QED
    BY <2>1, <2>2, <2>3, <2>4, <2>5
<1>9. \A h \in Range(part.headers) :
        LowerCase[h.name] \in DOMAIN message.headers =>
          /\ Coerce(HeaderSchemas[h.schema], wire.headers[LowerCase[h.name]])
               = message.headers[LowerCase[h.name]]
          /\ message.headers[LowerCase[h.name]] \in HeaderSchemas[h.schema].accepts
  BY <1>1, <1>5, HeadersRead
<1>10. DOMAIN wire.headers = DOMAIN message.headers
  BY <1>1, <1>5, HeadersRead
<1>11. PartFits(part, m)
  <2>1. BodyFits(part, m.body)
    BY <1>1, <1>8 DEF BodyFits, BodiesOf
  <2>2. ContentTypeFits(part, m.type)
    BY <1>5, <1>6
  <2>3. \A k \in DOMAIN part.headers : HeaderFits(part.headers[k], m.headers)
    <3> TAKE k \in DOMAIN part.headers
    <3> DEFINE h == part.headers[k]
    <3>1. h \in Range(part.headers)
      BY DEF Range
    <3> HIDE DEF h, part, m
    <3>2. LowerCase[h.name] \in DOMAIN message.headers => HeaderFits(h, m.headers)
      BY <1>6, <1>9, <1>10, <3>1 DEF HeaderFits, part
    <3>3. LowerCase[h.name] \notin DOMAIN message.headers => HeaderFits(h, m.headers)
      BY <1>1, <1>6, <1>10, <3>1 DEF HeaderFits, part
    <3> QED
      BY <3>2, <3>3 DEF h
  <2> HIDE DEF part, m
  <2> QED
    BY <2>1, <2>2, <2>3 DEF PartFits
<1>12. Validated(part, m, message.entry) =
         [message EXCEPT !.type = IF part.contentType.declared THEN wire.type ELSE "none"]
  <2> DEFINE kept == LowerNames(part) \cap DOMAIN m.headers
             schemaOf(name) ==
               HeaderSchemas[
                 (CHOOSE h \in Range(part.headers) : LowerCase[h.name] = name).schema]
             headers == [name \in kept |-> Coerce(schemaOf(name), m.headers[name])]
             type == IF part.contentType.declared THEN m.type ELSE "none"
             value == IF part.body = NoSchema THEN NoBody ELSE m.body
  <2>1. Validated(part, m, message.entry)
          = Message(m.status, headers, type, value, message.entry)
    BY DEF Validated, LowerNames
  <2>2. value = payload
    BY <1>1, <1>8 DEF BodiesOf
  <2>3. kept = DOMAIN message.headers
    BY <1>1, <1>6, <1>10
  <2>4. \A name \in kept : Coerce(schemaOf(name), m.headers[name]) = message.headers[name]
    <3> TAKE name \in kept
    <3> DEFINE h == CHOOSE h \in Range(part.headers) : LowerCase[h.name] = name
    <3>1. h \in Range(part.headers) /\ LowerCase[h.name] = name
      BY DEF LowerNames
    <3> HIDE DEF h, part, m
    <3>2. Coerce(HeaderSchemas[h.schema], m.headers[name]) = message.headers[name]
      BY <1>6, <1>9, <2>3, <3>1 DEF part
    <3> QED
      BY <3>2 DEF h
  <2> HIDE DEF kept, schemaOf
  <2>5. headers = message.headers
    BY <1>1, <2>3, <2>4
  <2> HIDE DEF headers, value, part, m
  <2>6. /\ m.status = message.status
        /\ type = IF part.contentType.declared THEN wire.type ELSE "none"
    BY <1>6, <1>7
  <2> HIDE DEF type
  <2>7. message = Message(message.status, message.headers, message.type, payload,
                          message.entry)
    BY <1>1
  <2> QED
    BY <2>1, <2>2, <2>5, <2>6, <2>7 DEF Message
<1> QED
  BY <1>3, <1>6, <1>7, <1>8, <1>11, <1>12

\* What the server's validator leaves of a response declared is an answer.
LEMMA AnswerIs ==
  ASSUME operation \in DOMAIN Operations, NEW declared \in Range(Current.responses),
         NEW m, m.status = declared.status, m.type \in MediaTypes,
         m.body \in BodiesOf(declared), PartFits(declared, m)
  PROVE  LET entry == EntryOf(Current, m)
             passed == Validated(Entries(Current)[entry], m, entry)
         IN  IsAnswer(passed) /\ passed.status = m.status
<1> DEFINE entry == EntryOf(Current, m)
           part == Entries(Current)[entry]
           passed == Validated(part, m, entry)
           kept == LowerNames(part) \cap DOMAIN m.headers
           schemaOf(name) ==
             HeaderSchemas[
               (CHOOSE h \in Range(part.headers) : LowerCase[h.name] = name).schema]
           headers == [name \in kept |-> Coerce(schemaOf(name), m.headers[name])]
           type == IF part.contentType.declared THEN m.type ELSE "none"
           value == IF part.body = NoSchema THEN NoBody ELSE m.body
<1>1. entry \in DOMAIN Entries(Current) /\ part.status = m.status /\ PartFits(part, m)
  <2>1. PICK k \in DOMAIN Entries(Current) : Entries(Current)[k] = declared
    BY EntriesAre
  <2> QED
    BY <2>1, EntryIs
<1>2. part \in Range(Current.responses)
  BY <1>1, EntriesAre
<1>3. \A g, h \in Range(part.headers) : LowerCase[g.name] = LowerCase[h.name] => g = h
  BY <1>2, OperationFacts DEF Current
<1>4. passed = Message(m.status, headers, type, value, entry)
  BY DEF Validated, LowerNames
<1>5. value \in BodiesOf(part)
  BY <1>1 DEF PartFits, BodyFits, BodiesOf
<1>6. \A h \in Range(part.headers) :
        IF LowerCase[h.name] \in kept
          THEN headers[LowerCase[h.name]] \in HeaderSchemas[h.schema].accepts
          ELSE ~h.required
  <2> TAKE h \in Range(part.headers)
  <2>1. HeaderFits(h, m.headers)
    BY <1>1 DEF PartFits, Range
  <2>2. LowerCase[h.name] \in LowerNames(part)
    BY DEF LowerNames
  <2>3. CASE LowerCase[h.name] \in DOMAIN m.headers
    <3>1. LowerCase[h.name] \in kept
      BY <2>2, <2>3
    <3>2. (CHOOSE g \in Range(part.headers) : LowerCase[g.name] = LowerCase[h.name]) = h
      BY <1>3
    <3>3. headers[LowerCase[h.name]]
            = Coerce(HeaderSchemas[h.schema], m.headers[LowerCase[h.name]])
      BY <3>1, <3>2
    <3>4. Coerce(HeaderSchemas[h.schema], m.headers[LowerCase[h.name]])
            \in HeaderSchemas[h.schema].accepts
      BY <2>1, <2>3 DEF HeaderFits
    <3> HIDE DEF headers, kept
    <3> QED
      BY <3>1, <3>3, <3>4
  <2>4. CASE LowerCase[h.name] \notin DOMAIN m.headers
    BY <2>1, <2>4 DEF HeaderFits
  <2> QED
    BY <2>3, <2>4
<1>7. /\ headers = [name \in DOMAIN headers |-> headers[name]]
      /\ DOMAIN headers = kept /\ kept \subseteq LowerNames(part)
  OBVIOUS
<1>8. type \in MediaTypes \cup {"none"} /\ (part.contentType.declared \/ type = "none")
  OBVIOUS
<1> HIDE DEF headers, kept, type, value, passed
<1>9. /\ passed.status = m.status /\ passed.headers = headers /\ passed.type = type
      /\ passed.body = value /\ passed.entry = entry
  BY <1>4 DEF Message
<1> HIDE DEF entry
<1>10. IsAnswer(passed)
  BY <1>1, <1>4, <1>5, <1>6, <1>7, <1>8, <1>9 DEF IsAnswer
<1> QED
  BY <1>9, <1>10 DEF passed, entry

-----------------------------------------------------------------------------
(* Sequences that are put together                                         *)

LEMMA SequenceOf ==
  ASSUME NEW s, IsSequence(s)
  PROVE  /\ Len(s) \in Nat /\ DOMAIN s = 1 .. Len(s)
         /\ s = [i \in 1 .. Len(s) |-> s[i]] /\ s \in Seq(Range(s))
<1> DEFINE range == {s[i] : i \in DOMAIN s}
<1>1. s \in Seq(range)
  BY DEF IsSequence
<1>2. range = Range(s)
  BY DEF Range
<1> HIDE DEF range
<1> QED
  BY <1>1, <1>2

LEMMA MappedIs ==
  ASSUME NEW s, IsSequence(s), NEW f, f = [i \in DOMAIN s |-> f[i]]
  PROVE  IsSequence(f) /\ DOMAIN f = DOMAIN s /\ Len(f) = Len(s)
<1>1. Len(s) \in Nat /\ DOMAIN s = 1 .. Len(s)
  BY SequenceOf
<1> DEFINE range == {f[i] : i \in DOMAIN f}
<1>2. \A i \in DOMAIN s : f[i] \in range
  OBVIOUS
<1> HIDE DEF range
<1>3. f \in Seq(range)
  BY <1>1, <1>2
<1>4. DOMAIN f = 1 .. Len(s) /\ Len(f) = Len(s)
  BY <1>1
<1> QED
  BY <1>1, <1>3, <1>4 DEF IsSequence, range

LEMMA SelectedRange ==
  ASSUME NEW s, IsSequence(s), NEW positions
  PROVE  /\ IsSequence(Selected(s, positions))
         /\ Range(Selected(s, positions)) = {s[i] : i \in DOMAIN s \cap positions}
<1> DEFINE kept == Selected(s, positions)
           range == {s[i] : i \in DOMAIN s \cap positions}
<1>1. /\ kept \in Seq(range)
      /\ \A i \in DOMAIN s \cap positions : \E k \in DOMAIN kept : kept[k] = s[i]
  <2>1. s \in Seq(Range(s))
    BY SequenceOf
  <2> QED
    BY <2>1, SelectedFacts
<1>2. IsSequence(kept)
  BY <1>1, SequenceIs
<1>3. \A k \in DOMAIN kept : kept[k] \in range
  <2> HIDE DEF kept, range
  <2> QED
    BY <1>1
<1> HIDE DEF kept
<1>4. Range(kept) = range
  BY <1>1, <1>3 DEF Range
<1> QED
  BY <1>2, <1>4 DEF kept

LEMMA ConcatRange ==
  ASSUME NEW s, IsSequence(s), NEW t, IsSequence(t)
  PROVE  IsSequence(s \o t) /\ Range(s \o t) = Range(s) \cup Range(t)
<1> DEFINE T == Range(s) \cup Range(t)
<1>1. s \in Seq(T) /\ t \in Seq(T)
  <2>1. s \in Seq(Range(s)) /\ t \in Seq(Range(t))
    BY SequenceOf
  <2>2. Range(s) \subseteq T /\ Range(t) \subseteq T
    OBVIOUS
  <2> HIDE DEF T
  <2> QED
    BY <2>1, <2>2
<1> HIDE DEF T
<1>2. s \o t \in Seq(T)
  BY <1>1
<1>3. IsSequence(s \o t)
  BY <1>2, SequenceIs
<1>4. /\ DOMAIN (s \o t) = 1 .. Len(s) + Len(t) /\ Len(s) \in Nat /\ Len(t) \in Nat
      /\ DOMAIN s = 1 .. Len(s) /\ DOMAIN t = 1 .. Len(t)
      /\ \A k \in DOMAIN s : (s \o t)[k] = s[k]
      /\ \A k \in DOMAIN t : (s \o t)[Len(s) + k] = t[k]
  BY <1>1
<1> DEFINE both == s \o t
<1> HIDE DEF both
<1>5. /\ DOMAIN both = 1 .. Len(s) + Len(t)
      /\ \A k \in DOMAIN s : both[k] = s[k]
      /\ \A k \in DOMAIN t : both[Len(s) + k] = t[k]
  BY <1>4 DEF both
<1>6. \A x \in Range(both) : x \in Range(s) \cup Range(t)
  <2> TAKE x \in Range(both)
  <2>1. PICK k \in 1 .. Len(s) + Len(t) : x = both[k]
    BY <1>5 DEF Range
  <2>2. CASE k <= Len(s)
    <3>1. k \in DOMAIN s
      BY <1>4, <2>2
    <3> QED
      BY <1>5, <2>1, <3>1 DEF Range
  <2>3. CASE k > Len(s)
    <3>1. k - Len(s) \in DOMAIN t /\ Len(s) + (k - Len(s)) = k
      BY <1>4, <2>3
    <3>2. both[k] = t[k - Len(s)]
      BY <1>5, <3>1
    <3> QED
      BY <2>1, <3>1, <3>2 DEF Range
  <2> QED
    BY <1>4, <2>2, <2>3
<1>7. Range(s) \subseteq Range(both)
  <2>1. \A k \in DOMAIN s : k \in DOMAIN both
    BY <1>4, <1>5
  <2> QED
    BY <1>5, <2>1 DEF Range
<1>8. Range(t) \subseteq Range(both)
  <2>1. \A k \in DOMAIN t : Len(s) + k \in DOMAIN both
    BY <1>4, <1>5
  <2> QED
    BY <1>5, <2>1 DEF Range
<1> QED
  BY <1>3, <1>6, <1>7, <1>8 DEF both

\* The elements of a sequence of sequences are those of its elements.
LEMMA Flattened ==
  ASSUME NEW lists, IsSequence(lists), \A i \in DOMAIN lists : IsSequence(lists[i])
  PROVE  /\ IsSequence(FlattenSeq(lists))
         /\ Range(FlattenSeq(lists)) = UNION {Range(lists[i]) : i \in DOMAIN lists}
<1> DEFINE N == Len(lists)
           IsFlat(f, m) ==
             f = [i \in 1 .. m |-> IF i = 1 THEN lists[i] ELSE f[i - 1] \o lists[i]]
           F == CHOOSE f : IsFlat(f, N)
           Reached == {m \in 0 .. N : \E f : IsFlat(f, m)}
<1>1. N \in Nat /\ DOMAIN lists = 1 .. N
  BY SequenceOf
<1>2. CASE N = 0
  <2>1. FlattenSeq(lists) = lists /\ DOMAIN lists = {}
    BY <1>1, <1>2 DEF FlattenSeq
  <2> QED
    BY <2>1 DEF Range
<1>3. CASE N # 0
  <2>1. 0 \in Reached
    <3>1. IsFlat(<< >>, 0)
      OBVIOUS
    <3> HIDE DEF IsFlat
    <3>2. \E f : IsFlat(f, 0)
      BY <3>1
    <3> QED
      BY <1>1, <3>2
  <2>2. \A m \in Reached : m \in Nat /\ m < N => m + 1 \in Reached
    <3> TAKE m \in Reached
    <3> SUFFICES ASSUME m \in Nat, m < N PROVE \E f : IsFlat(f, m + 1)
      <4> HIDE DEF IsFlat
      <4> QED
        BY <1>1
    <3>1. PICK f : IsFlat(f, m)
      OBVIOUS
    <3> DEFINE last == IF m + 1 = 1 THEN lists[m + 1] ELSE f[m] \o lists[m + 1]
               g == [i \in 1 .. m + 1 |-> IF i = m + 1 THEN last ELSE f[i]]
    <3>2. \A i \in 1 .. m : f[i] = IF i = 1 THEN lists[i] ELSE f[i - 1] \o lists[i]
      BY <3>1
    <3> HIDE DEF last
    <3>3. g[m + 1] = last /\ \A i \in 1 .. m : g[i] = f[i]
      OBVIOUS
    <3>4. \A i \in 1 .. m + 1 : g[i] = IF i = 1 THEN lists[i] ELSE g[i - 1] \o lists[i]
      <4> TAKE i \in 1 .. m + 1
      <4>1. CASE i = m + 1
        <5>1. i # 1 => i - 1 = m /\ m \in 1 .. m
          BY <4>1
        <5> HIDE DEF g
        <5> QED
          BY <3>3, <4>1, <5>1 DEF last
      <4>2. CASE i # m + 1
        <5>1. i \in 1 .. m /\ (i # 1 => i - 1 \in 1 .. m)
          BY <4>2
        <5> HIDE DEF g
        <5> QED
          BY <3>2, <3>3, <5>1
      <4> QED
        BY <4>1, <4>2
    <3>5. g = [i \in 1 .. m + 1 |-> g[i]]
      OBVIOUS
    <3> HIDE DEF g
    <3>6. IsFlat(g, m + 1)
      BY <3>4, <3>5
    <3> QED
      BY <3>6
  <2>3. IsFlat(F, N)
    <3>1. N \in Reached
      <4> HIDE DEF Reached
      <4> QED
        BY <1>1, <2>1, <2>2, UpTo
    <3> HIDE DEF IsFlat
    <3> QED
      BY <3>1
  <2>4. FlattenSeq(lists) = F[N]
    BY <1>3 DEF FlattenSeq
  <2> HIDE DEF F
  <2>5. \A i \in 1 .. N : F[i] = IF i = 1 THEN lists[i] ELSE F[i - 1] \o lists[i]
    BY <2>3
  <2> DEFINE upTo(n) == UNION {Range(lists[i]) : i \in 1 .. n}
             Good == {n \in 0 .. N : n # 0 => IsSequence(F[n]) /\ Range(F[n]) = upTo(n)}
  <2>6. \A n \in Good : n \in Nat /\ n < N => n + 1 \in Good
    <3> TAKE n \in Good
    <3> SUFFICES ASSUME n \in Nat, n < N
                 PROVE  IsSequence(F[n + 1]) /\ Range(F[n + 1]) = upTo(n + 1)
      BY <1>1
    <3>1. n + 1 \in 1 .. N /\ n + 1 - 1 = n /\ (n + 1 = 1 <=> n = 0)
      BY <1>1
    <3>2. F[n + 1] = IF n = 0 THEN lists[n + 1] ELSE F[n] \o lists[n + 1]
      BY <2>5, <3>1
    <3>3. IsSequence(lists[n + 1])
      BY <1>1, <3>1
    <3>4. CASE n = 0
      <4>1. upTo(n + 1) = Range(lists[1])
        BY <3>4
      <4> QED
        BY <3>2, <3>3, <3>4, <4>1
    <3>5. CASE n # 0
      <4>1. IsSequence(F[n]) /\ Range(F[n]) = upTo(n)
        BY <3>5
      <4>2. /\ IsSequence(F[n] \o lists[n + 1])
            /\ Range(F[n] \o lists[n + 1]) = upTo(n) \cup Range(lists[n + 1])
        BY <3>3, <4>1, ConcatRange
      <4>3. upTo(n + 1) = upTo(n) \cup Range(lists[n + 1])
        <5>1. 1 .. n + 1 = (1 .. n) \cup {n + 1}
          OBVIOUS
        <5> QED
          BY <5>1
      <4> QED
        BY <3>2, <3>5, <4>2, <4>3
    <3> QED
      BY <3>4, <3>5
  <2>7. N \in Good
    <3>1. 0 \in Good
      BY <1>1
    <3> HIDE DEF Good
    <3> QED
      BY <1>1, <2>6, <3>1, UpTo
  <2> QED
    BY <1>1, <1>3, <2>4, <2>7
<1> QED
  BY <1>2, <1>3

\* Every key is met a first time, and the first of two keys that differ are others.
LEMMA FirstsFacts ==
  ASSUME NEW keys, IsSequence(keys)
  PROVE  /\ Firsts(keys) \subseteq DOMAIN keys
         /\ \A k \in DOMAIN keys : \E j \in Firsts(keys) : j <= k /\ keys[j] = keys[k]
         /\ \A i, j \in Firsts(keys) : keys[i] = keys[j] => i = j
<1>1. Len(keys) \in Nat /\ DOMAIN keys = 1 .. Len(keys)
  BY SequenceOf
<1>2. Firsts(keys) \subseteq DOMAIN keys
  BY DEF Firsts
<1>3. ASSUME NEW k \in DOMAIN keys
      PROVE  \E j \in Firsts(keys) : j <= k /\ keys[j] = keys[k]
  <2> DEFINE same == {j \in DOMAIN keys : keys[j] = keys[k]}
             first == Least(same)
  <2>1. same \in SUBSET Nat /\ k \in same
    BY <1>1
  <2>2. first \in same /\ \A j \in same : first <= j
    <3> HIDE DEF same
    <3> QED
      BY <2>1, LeastOne
  <2> HIDE DEF first
  <2>3. \A j \in 1 .. first - 1 : keys[j] # keys[first]
    <3> SUFFICES ASSUME NEW j \in 1 .. first - 1, keys[j] = keys[first] PROVE FALSE
      OBVIOUS
    <3>1. j \in same /\ ~(first <= j)
      BY <1>1, <2>2
    <3> QED
      BY <2>2, <3>1
  <2> QED
    BY <2>1, <2>2, <2>3 DEF Firsts
<1>4. ASSUME NEW i \in Firsts(keys), NEW j \in Firsts(keys), keys[i] = keys[j], i # j
      PROVE  FALSE
  <2>1. i \in 1 .. j - 1 \/ j \in 1 .. i - 1
    BY <1>1, <1>2, <1>4
  <2> QED
    BY <1>4, <2>1 DEF Firsts
<1> QED
  BY <1>2, <1>3, <1>4

-----------------------------------------------------------------------------
(* What the document registers                                             *)

AreRegistrations(list) ==
  IsSequence(list) /\ \A r \in Range(list) : r.schema \in DOMAIN Schemas

\* The schema of a part's body, if it has one that gets a component, is on the list.
Registers(list, part) ==
  part.body # NoSchema /\ ~UsesBinary(part) =>
    \E r \in Range(list) : r.schema = Schemas[part.body].inner

LEMMA BodiesRegister ==
  ASSUME NEW part, part.body \in DOMAIN Schemas \cup {NoSchema}, NEW base
  PROVE  /\ AreRegistrations(RegistrationsOf(part, base))
         /\ Registers(RegistrationsOf(part, base), part)
<1> DEFINE r == [schema |-> Schemas[part.body].inner, base |-> base]
<1>1. CASE part.body = NoSchema \/ UsesBinary(part)
  <2>1. RegistrationsOf(part, base) = << >>
    BY <1>1 DEF RegistrationsOf
  <2>2. IsSequence(<< >>) /\ Range(<< >>) = {}
    BY DEF IsSequence, Range
  <2> QED
    BY <1>1, <2>1, <2>2 DEF AreRegistrations, Registers
<1>2. CASE ~(part.body = NoSchema \/ UsesBinary(part))
  <2>1. RegistrationsOf(part, base) = <<r>>
    BY <1>2 DEF RegistrationsOf
  <2>2. r.schema = Schemas[part.body].inner /\ r.schema \in DOMAIN Schemas
    BY <1>2, SchemasAssumption
  <2> HIDE DEF r
  <2>3. <<r>> \in Seq({r}) /\ Range(<<r>>) = {r}
    BY DEF Range
  <2>4. IsSequence(<<r>>)
    BY <2>3, SequenceIs
  <2> QED
    BY <2>1, <2>2, <2>3, <2>4 DEF AreRegistrations, Registers
<1> QED
  BY <1>1, <1>2

LEMMA ListsRegister ==
  ASSUME NEW lists, IsSequence(lists), \A i \in DOMAIN lists : AreRegistrations(lists[i])
  PROVE  /\ AreRegistrations(FlattenSeq(lists))
         /\ \A part : \A i \in DOMAIN lists :
              Registers(lists[i], part) => Registers(FlattenSeq(lists), part)
<1> DEFINE flat == FlattenSeq(lists)
<1>1. IsSequence(flat) /\ Range(flat) = UNION {Range(lists[i]) : i \in DOMAIN lists}
  BY Flattened DEF AreRegistrations
<1> HIDE DEF flat
<1>2. \A r \in Range(flat) : r.schema \in DOMAIN Schemas
  BY <1>1 DEF AreRegistrations
<1>3. \A i \in DOMAIN lists : Range(lists[i]) \subseteq Range(flat)
  BY <1>1
<1> QED
  BY <1>1, <1>2, <1>3 DEF AreRegistrations, Registers, flat

LEMMA VariantsAre ==
  ASSUME NEW n \in DOMAIN Operations, NEW status
  PROVE  LET op == Operations[n]
         IN  /\ IsSequence(Variants(op, status))
             /\ Range(Variants(op, status)) = {r \in Range(op.responses) : r.status = status}
<1> DEFINE R == Operations[n].responses
           positions == {k \in DOMAIN R : R[k].status = status}
<1>1. IsSequence(R)
  BY OperationFacts
<1> HIDE DEF R
<1>2. /\ IsSequence(Selected(R, positions))
      /\ Range(Selected(R, positions)) = {R[i] : i \in DOMAIN R \cap positions}
  <2> HIDE DEF positions
  <2> QED
    BY <1>1, SelectedRange
<1>3. {R[i] : i \in DOMAIN R \cap positions} = {r \in Range(R) : r.status = status}
  BY DEF Range
<1> QED
  BY <1>2, <1>3 DEF Variants, R

LEMMA CanonicalRegister ==
  ASSUME NEW n \in DOMAIN Operations
  PROVE  LET op == Operations[n]
         IN  /\ AreRegistrations(CanonicalBodies(op))
             /\ \A response \in Range(op.responses) :
                  IsCanonical(response) => Registers(CanonicalBodies(op), response)
<1> DEFINE op == Operations[n]
           R == op.responses
           positions == {k \in DOMAIN R : IsCanonical(R[k])}
           canonical == CanonicalOf(op)
           lists == [k \in DOMAIN canonical |->
                       RegistrationsOf(canonical[k], canonical[k].name \o "Body")]
<1>1. IsSequence(R) /\ \A r \in Range(R) : r.body \in DOMAIN Schemas \cup {NoSchema}
  BY OperationFacts
<1>2. canonical = Selected(R, positions)
  BY DEF CanonicalOf
<1>3. IsSequence(canonical) /\ Range(canonical) = {R[i] : i \in DOMAIN R \cap positions}
  <2> HIDE DEF R, positions, canonical
  <2> QED
    BY <1>1, <1>2, SelectedRange
<1>4. CanonicalBodies(op) = FlattenSeq(lists)
  BY DEF CanonicalBodies
<1> HIDE DEF canonical
<1>5. /\ \A k \in DOMAIN canonical : canonical[k] \in Range(R)
      /\ \A r \in Range(R) : IsCanonical(r) => \E k \in DOMAIN canonical : canonical[k] = r
  BY <1>3 DEF Range
<1> HIDE DEF R
<1>6. lists = [k \in DOMAIN canonical |-> lists[k]]
  OBVIOUS
<1>7. \A k \in DOMAIN canonical :
        AreRegistrations(lists[k]) /\ Registers(lists[k], canonical[k])
  BY <1>1, <1>5, BodiesRegister
<1> HIDE DEF lists
<1>8. IsSequence(lists) /\ DOMAIN lists = DOMAIN canonical
  BY <1>3, <1>6, MappedIs
<1>9. /\ AreRegistrations(FlattenSeq(lists))
      /\ \A k \in DOMAIN canonical : Registers(FlattenSeq(lists), canonical[k])
  BY <1>7, <1>8, ListsRegister
<1> HIDE DEF op
<1> QED
  BY <1>4, <1>5, <1>9 DEF op, R

LEMMA StatusRegisters ==
  ASSUME NEW n \in DOMAIN Operations, NEW status
  PROVE  LET op == Operations[n]
         IN  /\ AreRegistrations(BodiesAt(op, status))
             /\ \A response \in Range(op.responses) :
                  response.status = status =>
                    IsCanonical(response) \/ Registers(BodiesAt(op, status), response)
<1> DEFINE op == Operations[n]
           variants == Variants(op, status)
           lists == [v \in DOMAIN variants |->
                       RegistrationsOf(variants[v], ResponseBase(op, variants[v]))]
<1>1. /\ IsSequence(variants)
      /\ Range(variants) = {r \in Range(op.responses) : r.status = status}
  BY VariantsAre
<1>2. \A r \in Range(op.responses) : r.body \in DOMAIN Schemas \cup {NoSchema}
  BY OperationFacts
<1>3. BodiesAt(op, status) = IF Len(variants) = 1 /\ IsCanonical(variants[1]) THEN << >>
                             ELSE FlattenSeq(lists)
  BY DEF BodiesAt
<1> HIDE DEF op, variants
<1>4. CASE Len(variants) = 1 /\ IsCanonical(variants[1])
  <2>1. \A r \in Range(variants) : r = variants[1]
    BY <1>1, <1>4, SequenceOf DEF Range
  <2>2. AreRegistrations(<< >>)
    BY DEF AreRegistrations, IsSequence, Range
  <2> QED
    BY <1>1, <1>3, <1>4, <2>1, <2>2 DEF op
<1>5. CASE ~(Len(variants) = 1 /\ IsCanonical(variants[1]))
  <2>1. lists = [k \in DOMAIN variants |-> lists[k]]
    OBVIOUS
  <2>2. \A k \in DOMAIN variants :
          AreRegistrations(lists[k]) /\ Registers(lists[k], variants[k])
    <3>1. \A k \in DOMAIN variants : variants[k] \in Range(op.responses)
      BY <1>1 DEF Range
    <3> QED
      BY <1>2, <3>1, BodiesRegister
  <2> HIDE DEF lists
  <2>3. IsSequence(lists) /\ DOMAIN lists = DOMAIN variants
    BY <1>1, <2>1, MappedIs
  <2>4. /\ AreRegistrations(FlattenSeq(lists))
        /\ \A k \in DOMAIN variants : Registers(FlattenSeq(lists), variants[k])
    BY <2>2, <2>3, ListsRegister
  <2>5. \A r \in Range(op.responses) : r.status = status =>
          \E k \in DOMAIN variants : variants[k] = r
    BY <1>1 DEF Range
  <2> QED
    BY <1>3, <1>5, <2>4, <2>5 DEF op
<1> QED
  BY <1>4, <1>5

LEMMA OperationRegisters ==
  ASSUME NEW n \in DOMAIN Operations
  PROVE  LET op == Operations[n]
         IN  /\ AreRegistrations(BodiesOfOperation(op))
             /\ Registers(BodiesOfOperation(op), op.request)
             /\ \A response \in Range(op.responses) :
                  IsCanonical(response) \/ Registers(BodiesOfOperation(op), response)
<1> DEFINE op == Operations[n]
           R == op.responses
           statuses == [k \in DOMAIN R |-> R[k].status]
           distinct == Statuses(op)
           lists == [k \in DOMAIN distinct |-> BodiesAt(op, distinct[k])]
           first == RegistrationsOf(op.request, op.id \o "RequestBody")
<1>1. /\ IsSequence(R) /\ op.request.body \in DOMAIN Schemas \cup {NoSchema}
  BY OperationFacts
<1>2. distinct = Selected(statuses, Firsts(statuses))
  BY DEF Statuses
<1> HIDE DEF R, distinct
<1>3. IsSequence(statuses) /\ DOMAIN statuses = DOMAIN R
  <2>1. statuses = [k \in DOMAIN R |-> statuses[k]]
    OBVIOUS
  <2> HIDE DEF statuses
  <2> QED
    BY <1>1, <2>1, MappedIs
<1>4. IsSequence(distinct) /\ \A k \in DOMAIN R : R[k].status \in Range(distinct)
  <2>1. \A k \in DOMAIN R : statuses[k] = R[k].status
    OBVIOUS
  <2> HIDE DEF statuses
  <2>2. /\ Firsts(statuses) \subseteq DOMAIN statuses
        /\ \A k \in DOMAIN statuses : \E j \in Firsts(statuses) : statuses[j] = statuses[k]
    BY <1>3, FirstsFacts
  <2>3. /\ IsSequence(distinct)
        /\ Range(distinct) = {statuses[i] : i \in DOMAIN statuses \cap Firsts(statuses)}
    BY <1>2, <1>3, SelectedRange
  <2> QED
    BY <1>3, <2>1, <2>2, <2>3
<1>5. BodiesOfOperation(op) = first \o FlattenSeq(lists)
  BY DEF BodiesOfOperation, distinct
<1>6. AreRegistrations(first) /\ Registers(first, op.request)
  <2> HIDE DEF op
  <2> QED
    BY <1>1, BodiesRegister
<1> HIDE DEF first
<1>7. /\ \A k \in DOMAIN distinct : AreRegistrations(lists[k])
      /\ \A k \in DOMAIN distinct, r \in Range(R) :
           r.status = distinct[k] => IsCanonical(r) \/ Registers(lists[k], r)
  BY StatusRegisters DEF R
<1>8. lists = [k \in DOMAIN distinct |-> lists[k]]
  OBVIOUS
<1> HIDE DEF lists, op
<1>9. IsSequence(lists) /\ DOMAIN lists = DOMAIN distinct
  BY <1>4, <1>8, MappedIs
<1>10. /\ AreRegistrations(FlattenSeq(lists))
       /\ \A part : \A k \in DOMAIN distinct :
            Registers(lists[k], part) => Registers(FlattenSeq(lists), part)
  BY <1>7, <1>9, ListsRegister
<1>11. /\ IsSequence(first \o FlattenSeq(lists))
       /\ Range(first \o FlattenSeq(lists)) = Range(first) \cup Range(FlattenSeq(lists))
  BY <1>6, <1>10, ConcatRange DEF AreRegistrations
<1>12. AreRegistrations(BodiesOfOperation(op))
  BY <1>5, <1>6, <1>10, <1>11 DEF AreRegistrations
<1>13. Registers(BodiesOfOperation(op), op.request)
  BY <1>5, <1>6, <1>11 DEF Registers
<1>14. \A r \in Range(R) : IsCanonical(r) \/ Registers(BodiesOfOperation(op), r)
  <2> TAKE r \in Range(R)
  <2>1. PICK k \in DOMAIN distinct : distinct[k] = r.status
    BY <1>4 DEF Range
  <2>2. IsCanonical(r) \/ Registers(FlattenSeq(lists), r)
    BY <1>7, <1>10, <2>1
  <2> QED
    BY <1>5, <1>11, <2>2 DEF Registers
<1> QED
  BY <1>12, <1>13, <1>14 DEF op, R

\* The schema of every body that gets a component is registered.
LEMMA AllRegister ==
  /\ AreRegistrations(Registrations)
  /\ \A n \in DOMAIN Operations :
       /\ Registers(Registrations, Operations[n].request)
       /\ \A response \in Range(Operations[n].responses) : Registers(Registrations, response)
<1> DEFINE canonical == [k \in DOMAIN Operations |-> CanonicalBodies(Operations[k])]
           others == [k \in DOMAIN Operations |-> BodiesOfOperation(Operations[k])]
<1>1. Registrations = FlattenSeq(canonical) \o FlattenSeq(others)
  BY DEF Registrations
<1>2. IsSequence(Operations)
  BY OperationsAssumption
<1>3. canonical = [k \in DOMAIN Operations |-> canonical[k]]
  OBVIOUS
<1>4. others = [k \in DOMAIN Operations |-> others[k]]
  OBVIOUS
<1>5. \A n \in DOMAIN Operations :
        /\ AreRegistrations(canonical[n])
        /\ \A r \in Range(Operations[n].responses) :
             IsCanonical(r) => Registers(canonical[n], r)
  BY CanonicalRegister
<1>6. \A n \in DOMAIN Operations :
        /\ AreRegistrations(others[n]) /\ Registers(others[n], Operations[n].request)
        /\ \A r \in Range(Operations[n].responses) : IsCanonical(r) \/ Registers(others[n], r)
  BY OperationRegisters
<1> HIDE DEF canonical, others
<1>7. /\ IsSequence(canonical) /\ DOMAIN canonical = DOMAIN Operations
      /\ IsSequence(others) /\ DOMAIN others = DOMAIN Operations
  BY <1>2, <1>3, <1>4, MappedIs
<1>8. /\ AreRegistrations(FlattenSeq(canonical))
      /\ \A part : \A n \in DOMAIN Operations :
           Registers(canonical[n], part) => Registers(FlattenSeq(canonical), part)
  BY <1>5, <1>7, ListsRegister
<1>9. /\ AreRegistrations(FlattenSeq(others))
      /\ \A part : \A n \in DOMAIN Operations :
           Registers(others[n], part) => Registers(FlattenSeq(others), part)
  BY <1>6, <1>7, ListsRegister
<1>10. /\ IsSequence(Registrations)
       /\ Range(Registrations) = Range(FlattenSeq(canonical)) \cup Range(FlattenSeq(others))
  BY <1>1, <1>8, <1>9, ConcatRange DEF AreRegistrations
<1>11. AreRegistrations(Registrations)
  BY <1>8, <1>9, <1>10 DEF AreRegistrations
<1>12. \A part : \/ Registers(FlattenSeq(canonical), part)
                 \/ Registers(FlattenSeq(others), part)
                 => Registers(Registrations, part)
  BY <1>10 DEF Registers
<1> QED
  BY <1>5, <1>6, <1>8, <1>9, <1>11, <1>12

-----------------------------------------------------------------------------
(* The names of components                                                 *)

LEMMA RegisteredFacts ==
  /\ Len(Registrations) \in Nat /\ DOMAIN Registrations = 1 .. Len(Registrations)
  /\ Registered \subseteq DOMAIN Registrations
  /\ \A k \in DOMAIN Registrations :
       /\ Registrations[k].schema \in DOMAIN Schemas
       /\ \E j \in Registered : Registrations[j].schema = Registrations[k].schema
  /\ \A i, j \in Registered : Registrations[i].schema = Registrations[j].schema => i = j
<1> DEFINE keys == [n \in DOMAIN Registrations |-> Registrations[n].schema]
<1>1. /\ IsSequence(Registrations)
      /\ \A k \in DOMAIN Registrations : Registrations[k].schema \in DOMAIN Schemas
  BY AllRegister DEF AreRegistrations, Range
<1>2. keys = [k \in DOMAIN Registrations |-> keys[k]]
  OBVIOUS
<1>3. \A k \in DOMAIN Registrations : keys[k] = Registrations[k].schema
  OBVIOUS
<1>4. Registered = Firsts(keys)
  BY DEF Registered
<1> HIDE DEF keys
<1>5. IsSequence(keys) /\ DOMAIN keys = DOMAIN Registrations
  BY <1>1, <1>2, MappedIs
<1>6. /\ Firsts(keys) \subseteq DOMAIN keys
      /\ \A k \in DOMAIN keys : \E j \in Firsts(keys) : keys[j] = keys[k]
      /\ \A i, j \in Firsts(keys) : keys[i] = keys[j] => i = j
  BY <1>5, FirstsFacts
<1> QED
  BY <1>1, <1>3, <1>4, <1>5, <1>6, SequenceOf

\* There are more suffixes than names that are taken.
LEMMA NextIsNew ==
  ASSUME NEW r \in Range(Registrations), NEW taken, IsFiniteSet(taken),
         Cardinality(taken) <= Cardinality(DOMAIN Schemas)
  PROVE  NextComponentName(r.base, taken) \notin taken
<1> DEFINE C == Cardinality(DOMAIN Schemas)
           name == [k \in SuffixNumbers |-> Suffixed(r.base, k)]
           free == {k \in SuffixNumbers : Suffixed(r.base, k) \notin taken}
<1>1. C \in Nat /\ Cardinality(taken) \in Nat
  BY SchemasAssumption, FS_CardinalityType
<1> HIDE DEF C
<1>2. IsFiniteSet(SuffixNumbers) /\ Cardinality(SuffixNumbers) = C + 1
  <2>1. SuffixNumbers = 2 .. C + 2 /\ C + 2 \in Int
    BY <1>1 DEF SuffixNumbers, C
  <2> DEFINE last == C + 2
  <2>2. ~(2 > last) /\ last - 2 + 1 = C + 1
    BY <1>1
  <2>3. last \in Int /\ SuffixNumbers = 2 .. last
    BY <2>1
  <2> HIDE DEF last
  <2>4. /\ IsFiniteSet(2 .. last)
        /\ Cardinality(2 .. last) = IF 2 > last THEN 0 ELSE last - 2 + 1
    BY <2>3, FS_Interval
  <2> QED
    BY <2>2, <2>3, <2>4
<1>3. free # {}
  <2> SUFFICES ASSUME free = {} PROVE FALSE
    OBVIOUS
  <2>1. name \in [SuffixNumbers -> taken]
    OBVIOUS
  <2>2. Cardinality(taken) < Cardinality(SuffixNumbers)
    BY <1>1, <1>2 DEF C
  <2>3. \E x, y \in SuffixNumbers : x # y /\ name[x] = name[y]
    <3> HIDE DEF name
    <3> QED
      BY <1>2, <2>1, <2>2, FS_PigeonHole
  <2> QED
    BY <2>3, SuffixesAssumption
<1>4. free \in SUBSET Nat
  BY <1>1 DEF SuffixNumbers, C
<1>5. Least(free) \in free
  <2> HIDE DEF free
  <2> QED
    BY <1>3, <1>4, LeastOne
<1>6. Suffixed(r.base, Least(free)) \notin taken
  BY <1>5
<1>7. NextComponentName(r.base, taken)
        = IF r.base \notin taken THEN r.base ELSE Suffixed(r.base, Least(free))
  BY DEF NextComponentName
<1> HIDE DEF free
<1> QED
  BY <1>6, <1>7

\* No more names are taken than there are schemas.
LEMMA TakenFacts ==
  ASSUME NEW name, NEW n \in Nat
  PROVE  LET taken == {name[m] : m \in Registered \cap 1 .. n}
         IN  IsFiniteSet(taken) /\ Cardinality(taken) <= Cardinality(DOMAIN Schemas)
<1> DEFINE I == Registered \cap 1 .. n
           S == DOMAIN Schemas
           taken == {name[m] : m \in I}
           f == [m \in I |-> Registrations[m].schema]
           g == [m \in I |-> name[m]]
<1>1. f \in Injection(I, S)
  <2>1. \A m \in I : f[m] = Registrations[m].schema /\ f[m] \in S
    BY RegisteredFacts
  <2>2. f \in [I -> S]
    BY <2>1
  <2>3. \A i, j \in I : f[i] = f[j] => i = j
    BY <2>1, RegisteredFacts
  <2> HIDE DEF f, I, S
  <2> QED
    BY <2>2, <2>3 DEF Injection, IsInjective
<1>2. g \in Surjection(I, taken)
  <2>1. \A m \in I : g[m] = name[m]
    OBVIOUS
  <2>2. g \in [I -> taken] /\ \A t \in taken : \E m \in I : g[m] = t
    OBVIOUS
  <2> HIDE DEF g, I, taken
  <2> QED
    BY <2>2 DEF Surjection
<1>3. IsFiniteSet(S)
  BY SchemasAssumption
<1> HIDE DEF f, g, I, S, taken
<1>4. IsFiniteSet(I) /\ Cardinality(I) <= Cardinality(S)
  BY <1>1, <1>3, FS_Injection
<1>5. IsFiniteSet(taken) /\ Cardinality(taken) <= Cardinality(I)
  BY <1>2, <1>4, FS_Surjection
<1>6. Cardinality(I) \in Nat /\ Cardinality(S) \in Nat /\ Cardinality(taken) \in Nat
  BY <1>3, <1>4, <1>5, FS_CardinalityType
<1>7. Cardinality(taken) <= Cardinality(S)
  BY <1>4, <1>5, <1>6
<1> QED
  BY <1>5, <1>7 DEF I, S, taken

\* The registry exists: each name is chosen among those chosen before.
LEMMA RegisterIs ==
  \A n \in Registered :
    Register[n] = NextComponentName(Registrations[n].base,
                                    {Register[m] : m \in Registered \cap 1 .. n - 1})
<1> DEFINE N == Len(Registrations)
           Named(f, n) == NextComponentName(Registrations[n].base,
                                            {f[m] : m \in Registered \cap 1 .. n - 1})
           IsNaming(f, S) == f = [n \in S |-> Named(f, n)]
           upTo(m) == Registered \cap 1 .. m
           Reached == {m \in 0 .. N : \E f : IsNaming(f, upTo(m))}
           F == CHOOSE f : IsNaming(f, Registered)
<1>1. N \in Nat /\ Registered \subseteq 1 .. N
  BY RegisteredFacts
<1>2. 0 \in Reached
  <2>1. IsNaming(<< >>, {}) /\ upTo(0) = {}
    OBVIOUS
  <2> HIDE DEF IsNaming, upTo
  <2>2. \E f : IsNaming(f, upTo(0))
    BY <2>1
  <2> QED
    BY <1>1, <2>2
<1>3. \A m \in Reached : m \in Nat /\ m < N => m + 1 \in Reached
  <2> TAKE m \in Reached
  <2> SUFFICES ASSUME m \in Nat, m < N PROVE \E f : IsNaming(f, upTo(m + 1))
    <3> HIDE DEF IsNaming, upTo
    <3> QED
      BY <1>1
  <2>1. PICK f : IsNaming(f, upTo(m))
    OBVIOUS
  <2> DEFINE g == [n \in upTo(m + 1) |-> IF n = m + 1 THEN Named(f, m + 1) ELSE f[n]]
  <2> HIDE DEF Named
  <2>2. \A n \in upTo(m) : f[n] = Named(f, n)
    BY <2>1
  <2>3. \A n \in upTo(m) : n \in upTo(m + 1) /\ n # m + 1
    OBVIOUS
  <2>4. \A n \in upTo(m) : g[n] = f[n]
    BY <2>3
  <2>5. m + 1 \in upTo(m + 1) => g[m + 1] = Named(f, m + 1)
    OBVIOUS
  <2>6. \A n \in upTo(m + 1) : n \in upTo(m) \/ n = m + 1
    OBVIOUS
  <2>7. g = [n \in upTo(m + 1) |-> g[n]]
    OBVIOUS
  <2> HIDE DEF g
  <2>8. ASSUME NEW n \in upTo(m + 1)
        PROVE  g[n] = Named(g, n)
    <3>1. \A k \in Registered \cap 1 .. n - 1 : k \in upTo(m)
      OBVIOUS
    <3>2. \A k \in Registered \cap 1 .. n - 1 : g[k] = f[k]
      BY <2>4, <3>1
    <3> HIDE DEF upTo
    <3>3. {g[k] : k \in Registered \cap 1 .. n - 1}
            = {f[k] : k \in Registered \cap 1 .. n - 1}
      BY <3>2
    <3>4. Named(g, n) = Named(f, n)
      BY <3>3 DEF Named
    <3> QED
      BY <2>2, <2>4, <2>5, <2>6, <3>4
  <2> HIDE DEF upTo
  <2>9. g = [n \in upTo(m + 1) |-> Named(g, n)]
    BY <2>7, <2>8
  <2> QED
    BY <2>9
<1>4. IsNaming(F, Registered)
  <2>1. N \in Reached
    <3> HIDE DEF Reached
    <3> QED
      BY <1>1, <1>2, <1>3, UpTo
  <2>2. upTo(N) = Registered
    BY <1>1
  <2> HIDE DEF IsNaming, upTo
  <2> QED
    BY <2>1, <2>2
<1>5. Register = F
  BY DEF Register
<1> HIDE DEF F, Named
<1>6. \A n \in Registered : F[n] = Named(F, n)
  BY <1>4
<1> QED
  BY <1>5, <1>6 DEF Named

LEMMA NewNames ==
  \A i, j \in Registered : Register[i] = Register[j] => i = j
<1>1. ASSUME NEW i \in Registered, NEW j \in Registered, i < j
      PROVE  Register[i] # Register[j]
  <2> DEFINE taken == {Register[m] : m \in Registered \cap 1 .. j - 1}
  <2>1. i \in Nat \ {0} /\ j - 1 \in Nat /\ i <= j - 1
    BY <1>1, RegisteredFacts
  <2>2. Register[i] \in taken
    BY <2>1
  <2>3. IsFiniteSet(taken) /\ Cardinality(taken) <= Cardinality(DOMAIN Schemas)
    BY <2>1, TakenFacts
  <2>4. Register[j] = NextComponentName(Registrations[j].base, taken)
    BY RegisterIs
  <2>5. Registrations[j] \in Range(Registrations)
    BY RegisteredFacts DEF Range
  <2> HIDE DEF taken
  <2> QED
    BY <2>2, <2>3, <2>4, <2>5, NextIsNew
<1>2. \A i, j \in Registered : i < j \/ j < i \/ i = j
  BY RegisteredFacts
<1> QED
  BY <1>1, <1>2

\* A component's name stands for one schema.
LEMMA ComponentIs ==
  ASSUME NEW part, Registers(Registrations, part), part.body # NoSchema, ~UsesBinary(part)
  PROVE  LET name == BodySchema(part)
         IN  Components(name) = IF name = Binary THEN {} ELSE {Schemas[part.body].inner}
<1> DEFINE s == Schemas[part.body].inner
           of(schema) == CHOOSE n \in Registered : Registrations[n].schema = schema
<1>1. PICK k \in DOMAIN Registrations : Registrations[k].schema = s
  BY DEF Registers, Range
<1>2. PICK j \in Registered : Registrations[j].schema = s
  BY <1>1, RegisteredFacts
<1>3. /\ DOMAIN ComponentNames = {Registrations[n].schema : n \in Registered}
      /\ \A schema \in DOMAIN ComponentNames : ComponentNames[schema] = Register[of(schema)]
  BY DEF ComponentNames
<1>4. s \in DOMAIN ComponentNames
  BY <1>2, <1>3
<1>5. \A schema \in DOMAIN ComponentNames :
        of(schema) \in Registered /\ Registrations[of(schema)].schema = schema
  BY <1>3
<1> HIDE DEF of
<1>6. \A t \in DOMAIN ComponentNames : ComponentNames[t] = ComponentNames[s] => t = s
  BY <1>3, <1>4, <1>5, NewNames
<1>7. BodySchema(part) = ComponentNames[s]
  BY DEF BodySchema
<1> QED
  BY <1>4, <1>6, <1>7 DEF Components

-----------------------------------------------------------------------------
(* What the document says of a body                                        *)

\* Where nothing is guessed, the media type documented is the one on the wire.
LEMMA TypeIsDocumented ==
  ASSUME NEW part, IsFiniteSet(part.contentType.values),
         message.type \in MediaTypes \cup {"none"},
         part.contentType.declared \/ message.type = "none",
         wire.type = IF message.type # "none" THEN message.type
                     ELSE AutomaticType(message.body),
         CarriedBody, ContentTypeFits(part, wire.type),
         message.body.kind # "undefined", ~Guessed(part)
  PROVE  Essence[MediaType(part)] = Essence[wire.type]
<1>1. message.body.kind \in {"json", "text", "bytes"}
  BY DEF CarriedBody
<1>2. wire.type # "none"
  <2>1. CASE message.body.kind = "bytes"
    BY <2>1 DEF CarriedBody
  <2>2. CASE message.body.kind \in {"json", "text"}
    BY <2>2 DEF AutomaticType
  <2> QED
    BY <1>1, <2>1, <2>2
<1>3. Transport(MediaType(part)) = Transport(wire.type)
  BY DEF Guessed
<1>4. CASE part.contentType.declared
  <2>1. Literal(part)
    BY <1>4 DEF Guessed, BodyWarnings
  <2>2. PICK type : part.contentType.values = {type}
    BY <2>1, FS_Singleton DEF Literal
  <2>3. MediaType(part) = type
    BY <2>1, <2>2 DEF MediaType
  <2>4. wire.type = type
    BY <1>2, <1>4, <2>2 DEF ContentTypeFits
  <2> QED
    BY <2>3, <2>4
<1>5. CASE ~part.contentType.declared
  <2>1. ~Literal(part)
    BY <1>5 DEF Literal
  <2>2. MediaType(part) \in {"text/plain", "application/json", "application/octet-stream"}
    BY <2>1 DEF MediaType, InferBodyMediaType
  <2>3. wire.type = AutomaticType(message.body)
    BY <1>5
  <2>4. CASE message.body.kind = "json"
    <3>1. wire.type = "application/json"
      BY <2>3, <2>4 DEF AutomaticType
    <3>2. MediaType(part) = "application/json"
      BY <1>3, <2>2, <3>1, MediaTypesAssumption
    <3> QED
      BY <3>1, <3>2
  <2>5. CASE message.body.kind = "text"
    <3>1. wire.type = "text/plain;charset=UTF-8"
      BY <2>3, <2>5 DEF AutomaticType
    <3>2. Transport(wire.type) = "text"
      BY <3>1, MediaTypesAssumption DEF Transport
    <3>3. MediaType(part) = "text/plain"
      BY <1>3, <2>2, <3>2, MediaTypesAssumption
    <3> QED
      BY <3>1, <3>3, MediaTypesAssumption
  <2>6. message.body.kind # "bytes"
    BY <1>2, <2>3 DEF AutomaticType
  <2> QED
    BY <1>1, <2>4, <2>5, <2>6
<1> QED
  BY <1>4, <1>5

\* Under it, the document has a component that accepts the body.
LEMMA BodyIsDocumented ==
  ASSUME NEW parts, NEW k \in DOMAIN parts, NEW part, parts[k] = part,
         part.body \in DOMAIN Schemas, part.body # NoSchema,
         Registers(Registrations, part),
         message.body \in Schemas[part.body].accepts, message.body.kind # "undefined",
         Essence[MediaType(part)] = Essence[wire.type]
  PROVE  BodyIsDescribed(Content(parts))
<1> DEFINE content == Content(parts)
           type == MediaType(part)
           name == BodySchema(part)
<1>1. type \in DOMAIN content /\ name \in content[type]
  BY DEF Content
<1>2. name \in UNION Range(content)
  <2> HIDE DEF content, type, name
  <2> QED
    BY <1>1 DEF Range
<1>3. name = Binary \/ BodyIsAccepted(Components(name))
  <2>1. CASE UsesBinary(part)
    BY <2>1 DEF BodySchema
  <2>2. CASE ~UsesBinary(part)
    <3>1. Components(name) = IF name = Binary THEN {} ELSE {Schemas[part.body].inner}
      BY <2>2, ComponentIs
    <3>2. message.body \in Schemas[Schemas[part.body].inner].accepts
      BY BodiesAssumption DEF NoBody
    <3> HIDE DEF name
    <3> QED
      BY <3>1, <3>2 DEF BodyIsAccepted
  <2> QED
    BY <2>1, <2>2
<1> HIDE DEF content, type, name
<1> QED
  BY <1>1, <1>2, <1>3 DEF BodyIsDescribed, content, type

-----------------------------------------------------------------------------
(* What it says of headers                                                 *)

LEMMA HeaderObjectsAre ==
  ASSUME NEW part, IsSequence(part.headers)
  PROVE  /\ IsSequence(HeaderObjects(part))
         /\ DOMAIN HeaderObjects(part) = DOMAIN part.headers
         /\ \A k \in DOMAIN part.headers :
              LET header == HeaderObjects(part)[k]
              IN  /\ header.name = part.headers[k].name
                  /\ header.schema = part.headers[k].schema
                  /\ header.required => part.headers[k].required
                  /\ header.at = <<header.name>>
<1> DEFINE listed == HeaderObjects(part)
<1>1. listed = [k \in DOMAIN part.headers |-> listed[k]]
  BY DEF HeaderObjects
<1>2. \A k \in DOMAIN part.headers :
        /\ listed[k].name = part.headers[k].name
        /\ listed[k].schema = part.headers[k].schema
        /\ listed[k].required => part.headers[k].required
        /\ listed[k].at = <<listed[k].name>>
  BY DEF HeaderObjects
<1> HIDE DEF listed
<1>3. IsSequence(listed) /\ DOMAIN listed = DOMAIN part.headers
  BY <1>1, MappedIs
<1> QED
  BY <1>2, <1>3 DEF listed

\* A header appears wherever a variant has it.
LEMMA AppearancesAre ==
  ASSUME NEW n \in DOMAIN Operations, NEW status, NEW lower
  PROVE  LET variants == Variants(Operations[n], status)
             appearances == Appearances(variants, lower)
         IN  /\ IsSequence(appearances)
             /\ \A h \in Range(appearances) : h.at = <<h.name>>
             /\ \A part \in Range(variants) : \A k \in DOMAIN part.headers :
                  LowerCase[part.headers[k].name] = lower =>
                    HeaderObjects(part)[k] \in Range(appearances)
<1> DEFINE variants == Variants(Operations[n], status)
           named(part) ==
             {k \in DOMAIN part.headers : LowerCase[part.headers[k].name] = lower}
           lists == [v \in DOMAIN variants |->
                       Selected(HeaderObjects(variants[v]), named(variants[v]))]
<1>1. IsSequence(variants) /\ \A part \in Range(variants) : IsSequence(part.headers)
  BY VariantsAre, OperationFacts
<1>2. Appearances(variants, lower) = FlattenSeq(lists)
  BY DEF Appearances
<1> HIDE DEF variants
<1>3. lists = [v \in DOMAIN variants |-> lists[v]]
  OBVIOUS
<1>4. \A v \in DOMAIN variants :
        lists[v] = Selected(HeaderObjects(variants[v]), named(variants[v]))
  OBVIOUS
<1> HIDE DEF lists
<1>5. IsSequence(lists) /\ DOMAIN lists = DOMAIN variants
  BY <1>1, <1>3, MappedIs
<1>6. ASSUME NEW v \in DOMAIN variants
      PROVE  /\ IsSequence(lists[v])
             /\ Range(lists[v]) =
                  {HeaderObjects(variants[v])[k] :
                     k \in DOMAIN HeaderObjects(variants[v]) \cap named(variants[v])}
             /\ DOMAIN HeaderObjects(variants[v]) = DOMAIN variants[v].headers
             /\ \A h \in Range(lists[v]) : h.at = <<h.name>>
  <2> DEFINE part == variants[v]
             listed == HeaderObjects(part)
             positions == named(part)
  <2>1. IsSequence(part.headers)
    BY <1>1 DEF Range
  <2> HIDE DEF part
  <2>2. /\ IsSequence(listed) /\ DOMAIN listed = DOMAIN part.headers
        /\ \A k \in DOMAIN listed : listed[k].at = <<listed[k].name>>
    BY <2>1, HeaderObjectsAre
  <2> HIDE DEF listed, positions
  <2>3. /\ IsSequence(Selected(listed, positions))
        /\ Range(Selected(listed, positions))
             = {listed[k] : k \in DOMAIN listed \cap positions}
    BY <2>2, SelectedRange
  <2>4. lists[v] = Selected(listed, positions)
    BY <1>4 DEF listed, positions, part
  <2>5. \A h \in Range(lists[v]) : h.at = <<h.name>>
    BY <2>2, <2>3, <2>4
  <2> QED
    BY <2>2, <2>3, <2>4, <2>5 DEF listed, positions, part
<1> DEFINE flat == FlattenSeq(lists)
<1>7. IsSequence(flat) /\ Range(flat) = UNION {Range(lists[v]) : v \in DOMAIN variants}
  BY <1>5, <1>6, Flattened
<1> HIDE DEF flat
<1>8. \A h \in Range(flat) : h.at = <<h.name>>
  BY <1>6, <1>7
<1>9. ASSUME NEW part \in Range(variants), NEW k \in DOMAIN part.headers,
             LowerCase[part.headers[k].name] = lower
      PROVE  HeaderObjects(part)[k] \in Range(flat)
  <2>1. PICK v \in DOMAIN variants : variants[v] = part
    BY DEF Range
  <2>2. k \in DOMAIN HeaderObjects(part) \cap named(part)
    BY <1>6, <1>9, <2>1
  <2> HIDE DEF named
  <2>3. HeaderObjects(part)[k] \in Range(lists[v])
    BY <1>6, <2>1, <2>2
  <2> QED
    BY <1>7, <2>3
<1> QED
  BY <1>2, <1>7, <1>8, <1>9 DEF flat, variants

\* Of every schema a header appears with, one is kept.
LEMMA DistinctAre ==
  ASSUME NEW appearances, IsSequence(appearances)
  PROVE  LET distinct == DistinctSchemas(appearances)
         IN  /\ IsSequence(distinct) /\ Range(distinct) \subseteq Range(appearances)
             /\ \A h \in Range(appearances) :
                  \E k \in DOMAIN distinct : SchemaKey(distinct[k]) = SchemaKey(h)
<1> DEFINE keys == [k \in DOMAIN appearances |-> SchemaKey(appearances[k])]
           distinct == DistinctSchemas(appearances)
<1>1. distinct = Selected(appearances, Firsts(keys))
  BY DEF DistinctSchemas
<1>2. keys = [k \in DOMAIN appearances |-> keys[k]]
  OBVIOUS
<1>3. \A k \in DOMAIN appearances : keys[k] = SchemaKey(appearances[k])
  OBVIOUS
<1> HIDE DEF keys, distinct
<1>4. IsSequence(keys) /\ DOMAIN keys = DOMAIN appearances
  BY <1>2, MappedIs
<1>5. /\ Firsts(keys) \subseteq DOMAIN appearances
      /\ \A k \in DOMAIN appearances : \E j \in Firsts(keys) : keys[j] = keys[k]
  BY <1>4, FirstsFacts
<1>6. /\ IsSequence(distinct)
      /\ Range(distinct) = {appearances[i] : i \in DOMAIN appearances \cap Firsts(keys)}
  BY <1>1, SelectedRange
<1>7. Range(distinct) \subseteq Range(appearances)
  BY <1>6 DEF Range
<1>8. ASSUME NEW h \in Range(appearances)
      PROVE  \E k \in DOMAIN distinct : SchemaKey(distinct[k]) = SchemaKey(h)
  <2>1. PICK i \in DOMAIN appearances : appearances[i] = h
    BY DEF Range
  <2>2. PICK j \in Firsts(keys) : keys[j] = keys[i] /\ j \in DOMAIN appearances
    BY <1>5
  <2>3. appearances[j] \in Range(distinct) /\ SchemaKey(appearances[j]) = SchemaKey(h)
    BY <1>3, <1>6, <2>1, <2>2
  <2> QED
    BY <2>3 DEF Range
<1> QED
  BY <1>6, <1>7, <1>8 DEF distinct

LEMMA KeyTells ==
  ASSUME NEW g, NEW h, SchemaKey(g) = SchemaKey(h)
  PROVE  g.schema = h.schema
  BY DEF SchemaKey

\* References and warnings of a merged header point to their own schema.
LEMMA HeaderPoints ==
  ASSUME NEW n \in DOMAIN Operations, NEW status, NEW lower
  PROVE  PointsToItsSchema(MergeHeader(Variants(Operations[n], status), lower))
<1> DEFINE variants == Variants(Operations[n], status)
           A == Appearances(variants, lower)
           D == DistinctSchemas(A)
           header == MergeHeader(variants, lower)
           name == header.name
           branches == header.branches
           at(k) == IF Len(branches) = 1 THEN <<name>> ELSE <<name, k>>
<1>1. IsSequence(A) /\ \A h \in Range(A) : h.at = <<h.name>>
  BY AppearancesAre
<1>2. branches = Branches(name, D) /\ header.warnings = HeaderWarnings(name, A, D)
  BY DEF MergeHeader
<1> HIDE DEF A, header
<1>3. /\ IsSequence(D) /\ Range(D) \subseteq Range(A)
      /\ \A h \in Range(A) : \E k \in DOMAIN D : SchemaKey(D[k]) = SchemaKey(h)
  BY <1>1, DistinctAre
<1> HIDE DEF D, name, branches
<1>4. \A k \in DOMAIN D : D[k].at = <<D[k].name>>
  BY <1>1, <1>3 DEF Range
<1>5. /\ DOMAIN branches = DOMAIN D
      /\ \A k \in DOMAIN D :
           /\ branches[k].schema = D[k].schema
           /\ branches[k].ref = IF Len(D) = 1 THEN D[k].at
                                ELSE Rebase(D[k].at, <<name>>, <<name, k>>)
  BY <1>2 DEF Branches
<1>6. Len(branches) = Len(D) /\ Len(D) \in Nat /\ DOMAIN D = 1 .. Len(D)
  <2>1. branches = [k \in DOMAIN D |-> branches[k]]
    BY <1>2 DEF Branches
  <2> QED
    BY <1>3, <2>1, MappedIs, SequenceOf
<1>7. ASSUME NEW k \in DOMAIN D
      PROVE  branches[k].ref = at(k) \/ branches[k].ref[1] # name
  <2> DEFINE own == D[k].name
  <2>1. D[k].at = <<own>>
    BY <1>4
  <2> HIDE DEF own
  <2>2. <<own>>[1] = own /\ (<<own>> = <<name>> <=> own = name)
    OBVIOUS
  <2>3. CASE Len(D) = 1
    <3>1. branches[k].ref = <<own>> /\ at(k) = <<name>>
      BY <1>5, <1>6, <2>1, <2>3
    <3> QED
      BY <2>2, <3>1
  <2>4. CASE Len(D) # 1
    <3>1. at(k) = <<name, k>>
      BY <1>6, <2>4
    <3>2. branches[k].ref = IF own = name THEN <<name, k>> ELSE <<own>>
      BY <1>5, <2>1, <2>2, <2>4 DEF Rebase
    <3> QED
      BY <2>2, <3>1, <3>2
  <2> QED
    BY <2>3, <2>4
<1>8. ASSUME NEW w \in header.warnings
      PROVE  \E k \in DOMAIN branches : w.at = at(k) /\ branches[k].schema = w.schema
  <2>1. PICK h \in Range(A) :
          w = [schema |-> h.schema,
               at |-> IF Len(D) = 1 THEN <<name>>
                      ELSE <<name,
                             Least({k \in DOMAIN D : SchemaKey(D[k]) = SchemaKey(h)})>>]
    BY <1>2 DEF HeaderWarnings
  <2> DEFINE same == {k \in DOMAIN D : SchemaKey(D[k]) = SchemaKey(h)}
             first == Least(same)
  <2>2. w.schema = h.schema /\ w.at = IF Len(D) = 1 THEN <<name>> ELSE <<name, first>>
    BY <2>1
  <2>3. same \in SUBSET Nat /\ same # {}
    BY <1>3, <1>6
  <2>4. first \in same
    <3> HIDE DEF same
    <3> QED
      BY <2>3, LeastOne
  <2> HIDE DEF first
  <2>5. first \in DOMAIN D /\ D[first].schema = h.schema
    BY <2>4, KeyTells
  <2>6. w.at = at(first)
    BY <1>6, <2>2
  <2> HIDE DEF at
  <2> QED
    BY <1>5, <2>2, <2>5, <2>6
<1> HIDE DEF at
<1>9. \A k \in DOMAIN branches : branches[k].ref = at(k) \/ branches[k].ref[1] # name
  BY <1>5, <1>7
<1>10. PointsToItsSchema(header)
  BY <1>8, <1>9 DEF PointsToItsSchema, at, name, branches
<1> QED
  BY <1>10 DEF header

LEMMA HeadersAreDocumented ==
  ASSUME operation \in DOMAIN Operations, IsAnswer(message), wire = SerializeResponse(message),
         CarriedHeaders
  PROVE  HeadersAreDescribed(MergedHeaders(Variants(Current, message.status)))
<1> DEFINE part == Entries(Current)[message.entry]
           variants == Variants(Current, message.status)
           headers == MergedHeaders(variants)
<1>1. /\ part \in Range(Current.responses) /\ DOMAIN wire.headers = DOMAIN message.headers
      /\ \A h \in Range(part.headers) :
           LowerCase[h.name] \in DOMAIN message.headers =>
             /\ Coerce(HeaderSchemas[h.schema], wire.headers[LowerCase[h.name]])
                  = message.headers[LowerCase[h.name]]
             /\ message.headers[LowerCase[h.name]] \in HeaderSchemas[h.schema].accepts
  BY HeadersRead
<1>2. /\ message.status = part.status /\ DOMAIN message.headers \subseteq LowerNames(part)
      /\ \A h \in Range(part.headers) :
           LowerCase[h.name] \notin DOMAIN message.headers => ~h.required
  BY DEF IsAnswer
<1>3. IsSequence(part.headers)
  BY <1>1, OperationFacts DEF Current
<1>4. part \in Range(variants)
  BY <1>1, <1>2, VariantsAre DEF Current
<1>5. /\ DOMAIN HeaderObjects(part) = DOMAIN part.headers
      /\ \A k \in DOMAIN part.headers :
           LET header == HeaderObjects(part)[k]
           IN  /\ header.name = part.headers[k].name
               /\ header.schema = part.headers[k].schema
               /\ header.required => part.headers[k].required
  BY <1>3, HeaderObjectsAre
<1>6. \A name \in DOMAIN headers : headers[name] = MergeHeader(variants, name)
  BY DEF MergedHeaders
<1>7. \A lower :
        /\ IsSequence(Appearances(variants, lower))
        /\ \A k \in DOMAIN part.headers :
             LowerCase[part.headers[k].name] = lower =>
               HeaderObjects(part)[k] \in Range(Appearances(variants, lower))
  BY <1>4, AppearancesAre DEF Current
<1> HIDE DEF part, variants, headers
<1>8. ASSUME NEW name \in DOMAIN headers, name \in DOMAIN wire.headers
      PROVE  \E branch \in Range(headers[name].branches) :
               LET schema == HeaderSchemas[branch.schema]
               IN  Coerce(schema, wire.headers[name]) \in schema.accepts
  <2> DEFINE A == Appearances(variants, name)
             D == DistinctSchemas(A)
             branches == headers[name].branches
  <2>1. PICK k \in DOMAIN part.headers : LowerCase[part.headers[k].name] = name
    BY <1>1, <1>2, <1>8 DEF LowerNames, Range
  <2> DEFINE h == part.headers[k]
             object == HeaderObjects(part)[k]
  <2>2. h \in Range(part.headers) /\ LowerCase[h.name] = name
    BY <2>1 DEF Range
  <2>3. Coerce(HeaderSchemas[h.schema], wire.headers[name])
          \in HeaderSchemas[h.schema].accepts
    <3> HIDE DEF h
    <3> QED
      BY <1>1, <1>8, <2>2
  <2>4. object \in Range(A) /\ object.schema = h.schema /\ IsSequence(A)
    BY <1>5, <1>7, <2>1
  <2>5. branches = Branches(headers[name].name, D)
    BY <1>6 DEF MergeHeader
  <2> HIDE DEF A, object, h
  <2>6. PICK j \in DOMAIN D : SchemaKey(D[j]) = SchemaKey(object)
    BY <2>4, DistinctAre
  <2>7. D[j].schema = h.schema
    BY <2>4, <2>6, KeyTells
  <2> HIDE DEF D, branches
  <2>8. j \in DOMAIN branches /\ branches[j].schema = h.schema
    BY <2>5, <2>6, <2>7 DEF Branches
  <2>9. branches[j] \in Range(branches)
    BY <2>8 DEF Range
  <2> QED
    BY <2>3, <2>8, <2>9 DEF branches
<1>9. ASSUME NEW name \in DOMAIN headers, name \notin DOMAIN wire.headers
      PROVE  ~headers[name].required
  <2> SUFFICES ASSUME headers[name].required PROVE FALSE
    OBVIOUS
  <2> DEFINE A == Appearances(variants, name)
  <2>1. /\ \A v \in DOMAIN variants :
             \E h \in Range(HeaderObjects(variants[v])) : LowerCase[h.name] = name
        /\ \A h \in Range(A) : h.required
    BY <1>6 DEF MergeHeader
  <2>2. \E h \in Range(HeaderObjects(part)) : LowerCase[h.name] = name
    BY <1>4, <2>1 DEF Range
  <2>3. PICK k \in DOMAIN part.headers : LowerCase[HeaderObjects(part)[k].name] = name
    BY <1>5, <2>2 DEF Range
  <2>4. LowerCase[part.headers[k].name] = name
    BY <1>5, <2>3
  <2>5. HeaderObjects(part)[k] \in Range(A)
    BY <1>7, <2>4
  <2>6. part.headers[k].required
    BY <1>5, <2>1, <2>5
  <2>7. part.headers[k] \in Range(part.headers)
    BY DEF Range
  <2> QED
    BY <1>1, <1>2, <1>9, <2>4, <2>6, <2>7
<1>10. HeadersAreDescribed(headers)
  BY <1>8, <1>9 DEF HeadersAreDescribed
<1> QED
  BY <1>10 DEF headers, variants

\* The document describes whatever is on the wire and can be carried.
LEMMA WireIsDocumented ==
  ASSUME operation \in DOMAIN Operations, OnTheWire
  PROVE  MessagesAreDocumented
<1> SUFFICES ASSUME Carried PROVE MessagesAreDocumented
  BY DEF MessagesAreDocumented
<1> DEFINE op == Current
           document == Document[operation]
           described == document.responses[message.status]
           variants == Variants(op, message.status)
<1>1. /\ document.request = Content(<<op.request>>)
      /\ \A status \in {r.status : r \in Range(op.responses)} :
           /\ document.responses[status].content = Content(Variants(op, status))
           /\ document.responses[status].headers = MergedHeaders(Variants(op, status))
  BY DEF Document, RequestContent, Current
<1>2. CarriedBody /\ CarriedHeaders /\ ContentTypeFits(Sent, wire.type)
  BY DEF Carried
<1>3. CASE message.status = 0
  <2> DEFINE part == op.request
  <2>1. UploadInv /\ Sent = part
    BY <1>3 DEF OnTheWire, Sent
  <2>2. PICK type \in MediaTypes, value \in BodiesOf(part) :
          message = Message(0, << >>, type, value, 0)
    BY <2>1 DEF UploadInv
  <2>3. message.type \in MediaTypes /\ message.body \in BodiesOf(part)
    BY <2>2 DEF Message
  <2>4. /\ part.contentType.declared \/ message.type = "none"
        /\ wire = SerializeRequest(message)
    BY <2>1 DEF UploadInv
  <2>5. wire.type = IF message.type # "none" THEN message.type
                    ELSE AutomaticType(message.body)
    <3>1. message.body.kind # "view"
      BY <1>2 DEF CarriedBody
    <3> QED
      BY <2>4, <3>1, SerializedIs
  <2>6. /\ part.body \in DOMAIN Schemas \cup {NoSchema}
        /\ IsFiniteSet(part.contentType.values) /\ Registers(Registrations, part)
    BY OperationFacts, AllRegister DEF Current
  <2> HIDE DEF part
  <2>7. ASSUME message.body.kind # "undefined", ~Guessed(Sent)
        PROVE  BodyIsDescribed(document.request)
    <3>1. part.body # NoSchema /\ message.body \in Schemas[part.body].accepts
      BY <2>3, <2>7 DEF BodiesOf, NoBody
    <3>2. Essence[MediaType(part)] = Essence[wire.type]
      BY <1>2, <2>1, <2>3, <2>4, <2>5, <2>6, <2>7, TypeIsDocumented
    <3>3. 1 \in DOMAIN <<part>> /\ <<part>>[1] = part
      OBVIOUS
    <3>4. BodyIsDescribed(Content(<<part>>))
      BY <2>6, <2>7, <3>1, <3>2, <3>3, BodyIsDocumented
    <3> QED
      BY <1>1, <3>4 DEF part
  <2> QED
    BY <1>3, <2>7 DEF MessagesAreDocumented, IsDescribedBy
<1>4. CASE message.status # 0
  <2> DEFINE part == Entries(Current)[message.entry]
  <2>1. IsAnswer(message) /\ wire = SerializeResponse(message) /\ Sent = part
    BY <1>4 DEF OnTheWire, Sent
  <2>2. /\ part \in Range(op.responses) /\ message.status = part.status
        /\ message.type \in MediaTypes \cup {"none"} /\ message.body \in BodiesOf(part)
        /\ part.contentType.declared \/ message.type = "none"
    BY <2>1, EntriesAre DEF IsAnswer
  <2>3. wire.type = IF message.type # "none" THEN message.type
                    ELSE AutomaticType(message.body)
    <3>1. message.body.kind # "view"
      BY <1>2 DEF CarriedBody
    <3> QED
      BY <2>1, <3>1, SerializedIs
  <2>4. /\ part.body \in DOMAIN Schemas \cup {NoSchema}
        /\ IsFiniteSet(part.contentType.values) /\ Registers(Registrations, part)
    BY <2>2, OperationFacts, AllRegister DEF Current
  <2>5. HeadersAreDescribed(MergedHeaders(variants))
    BY <1>2, <2>1, HeadersAreDocumented
  <2>6. part \in Range(variants)
    BY <2>2, VariantsAre DEF Current
  <2>7. described.content = Content(variants) /\ described.headers = MergedHeaders(variants)
    BY <1>1, <2>2
  <2>8. ASSUME NEW name \in DOMAIN described.headers
        PROVE  PointsToItsSchema(described.headers[name])
    <3>1. described.headers[name] = MergeHeader(variants, name)
      BY <2>7, <2>8 DEF MergedHeaders
    <3>2. PointsToItsSchema(MergeHeader(variants, name))
      BY HeaderPoints DEF Current
    <3> QED
      BY <3>1, <3>2
  <2> HIDE DEF part, variants
  <2>9. ASSUME message.body.kind # "undefined", ~Guessed(Sent)
        PROVE  BodyIsDescribed(described.content)
    <3>1. part.body # NoSchema /\ message.body \in Schemas[part.body].accepts
      BY <2>2, <2>9 DEF BodiesOf, NoBody
    <3>2. Essence[MediaType(part)] = Essence[wire.type]
      BY <1>2, <2>1, <2>2, <2>3, <2>4, <2>9, TypeIsDocumented
    <3>3. PICK v \in DOMAIN variants : variants[v] = part
      BY <2>6 DEF Range
    <3>4. BodyIsDescribed(Content(variants))
      BY <2>4, <2>9, <3>1, <3>2, <3>3, BodyIsDocumented
    <3> QED
      BY <2>7, <3>4
  <2> QED
    BY <1>4, <2>5, <2>7, <2>8, <2>9 DEF MessagesAreDocumented, IsDescribedBy
<1> QED
  BY <1>3, <1>4

-----------------------------------------------------------------------------
(* The exchange                                                            *)

LEMMA UploadKeeps ==
  ASSUME ExchangeInv, Upload
  PROVE  ExchangeInv'
<1>1. operation' = operation /\ exchange' = "uploaded" /\ operation \in DOMAIN Operations
  BY DEF Upload, ExchangeInv
<1>2. UploadInv'
  <2>1. PICK type \in MediaTypes, value \in BodiesOf(Current.request) :
          LET m == Message(0, << >>, type, value, 0)
          IN  Typed(Current.request, m) /\ message' = m /\ wire' = SerializeRequest(m)
    BY DEF Upload
  <2>2. Current' = Current
    BY <1>1 DEF Current
  <2>3. /\ PartFits(Current.request, message')
        /\ Validated(Current.request, message', 0).body = message'.body
        /\ Validated(Current.request, message', 0).type = message'.type
    BY <2>1 DEF Typed
  <2>4. Current.request.contentType.declared \/ message'.type = "none"
    BY <2>3 DEF Validated, Message
  <2> QED
    BY <2>1, <2>2, <2>3, <2>4 DEF UploadInv
<1>3. message'.status = 0
  BY <1>2 DEF UploadInv, Message
<1>4. MessagesAreReadAsSent'
  BY <1>1 DEF MessagesAreReadAsSent, Uploaded, Arrived
<1> QED
  BY <1>1, <1>2, <1>3, <1>4 DEF ExchangeInv, OnTheWire

LEMMA ReadUploadKeeps ==
  ASSUME ExchangeInv, NEW streamed \in BOOLEAN, ReadUpload(streamed)
  PROVE  ExchangeInv'
<1> DEFINE m == Message(0, wire.headers, wire.type, ParseRequestBody(wire, streamed), 0)
<1>1. /\ UNCHANGED <<operation, message, wire>> /\ operation \in DOMAIN Operations
      /\ OnTheWire /\ message.status = 0 /\ exchange' \in {"accepted", "refused"}
  BY DEF ReadUpload, ExchangeInv
<1>2. UploadInv
  BY <1>1 DEF OnTheWire
<1>3. Carried' <=> Carried
  BY <1>1 DEF Carried, CarriedBody, CarriedHeaders, Sent, Current
<1>4. ASSUME Carried
      PROVE  exchange' = "accepted" /\ reading'.body = message.body
  <2>1. /\ m.body.kind # "error" /\ PartFits(Current.request, m)
        /\ Validated(Current.request, m, 0).body = message.body
    BY <1>1, <1>2, <1>4, UploadReads
  <2> HIDE DEF m
  <2>2. exchange' = "accepted" /\ reading' = Validated(Current.request, m, 0)
    BY <2>1 DEF ReadUpload, m
  <2> QED
    BY <2>1, <2>2
<1>5. MessagesAreReadAsSent'
  BY <1>1, <1>3, <1>4 DEF MessagesAreReadAsSent, Arrived
<1>6. OnTheWire'
  BY <1>1 DEF OnTheWire, UploadInv, Current
<1> QED
  BY <1>1, <1>5, <1>6 DEF ExchangeInv

LEMMA AnswerKeeps ==
  ASSUME ExchangeInv, Answer
  PROVE  ExchangeInv'
<1>1. operation' = operation /\ operation \in DOMAIN Operations
  BY DEF Answer, ExchangeInv
<1> DEFINE entryOf(m) == EntryOf(Current, m)
           sentFor(m) == Validated(Entries(Current)[entryOf(m)], m, entryOf(m))
           Sends(m) ==
             /\ message' = sentFor(m) /\ wire' = SerializeResponse(sentFor(m))
             /\ exchange' = IF m.status \in NullBodyStatuses
                                 /\ sentFor(m).body.kind \notin {"undefined", "null"}
                              THEN "refused" ELSE "answered"
<1>2. PICK declared \in Range(Current.responses), headers \in HeaderSets, type \in MediaTypes :
        \E payload \in BodiesOf(declared) :
          LET m == Message(declared.status, headers, type, payload, 0)
          IN  Typed(declared, m) /\ Sends(m)
  BY DEF Answer
<1>3. PICK payload \in BodiesOf(declared) :
        LET m == Message(declared.status, headers, type, payload, 0)
        IN  Typed(declared, m) /\ Sends(m)
  BY <1>2
<1> DEFINE m == Message(declared.status, headers, type, payload, 0)
           passed == sentFor(m)
<1>4. m.status = declared.status /\ m.type = type /\ m.body = payload
  BY DEF Message
<1>5. PartFits(declared, m) /\ Sends(m)
  BY <1>3 DEF Typed
<1> HIDE DEF m
<1>6. IsAnswer(passed) /\ passed.status = m.status
  BY <1>1, <1>4, <1>5, AnswerIs
<1>7. passed.status # 0
  BY <1>1, <1>4, <1>6, OperationFacts DEF Current
<1>8. /\ message' = passed /\ wire' = SerializeResponse(passed)
      /\ exchange' \in {"refused", "answered"}
      /\ exchange' = "refused" => /\ m.status \in NullBodyStatuses
                                  /\ passed.body.kind # "undefined"
  BY <1>5
<1> HIDE DEF passed, Sends
<1>9. IsAnswer(message)' /\ wire' = SerializeResponse(message')
  BY <1>1, <1>6, <1>8 DEF IsAnswer, Current
<1>10. MessagesAreReadAsSent'
  <2>1. ASSUME Carried', exchange' = "refused" PROVE FALSE
    <3>1. message'.status \in NullBodyStatuses /\ message'.body.kind # "undefined"
      BY <1>6, <1>8, <2>1
    <3>2. message'.body = NoBody
      BY <2>1, <3>1 DEF Carried
    <3> QED
      BY <3>1, <3>2 DEF NoBody
  <2>2. exchange' \in {"refused", "answered"} /\ message'.status # 0
    BY <1>6, <1>7, <1>8
  <2> QED
    BY <2>1, <2>2 DEF MessagesAreReadAsSent, Uploaded, Arrived
<1>11. message'.status # 0 /\ OnTheWire'
  BY <1>7, <1>8, <1>9 DEF OnTheWire
<1> QED
  BY <1>1, <1>8, <1>10, <1>11 DEF ExchangeInv

LEMMA ReceiveKeeps ==
  ASSUME ExchangeInv, Receive
  PROVE  ExchangeInv'
<1> DEFINE m == Message(wire.status, wire.headers, wire.type, ParseResponseBody(wire), 0)
           part == Entries(Current)[message.entry]
           entry == EntryOf(Current, m)
<1>1. /\ UNCHANGED <<operation, message, wire>> /\ operation \in DOMAIN Operations
      /\ message.status # 0 /\ IsAnswer(message) /\ wire = SerializeResponse(message)
      /\ exchange' \in {"read", "refused"}
  BY DEF Receive, ExchangeInv, OnTheWire
<1>2. Carried' <=> Carried
  BY <1>1 DEF Carried, CarriedBody, CarriedHeaders, Sent, Current
<1>3. ASSUME Carried
      PROVE  /\ exchange' = "read" /\ reading'.status = message.status
             /\ reading'.entry <= message.entry
             /\ reading'.entry = message.entry =>
                  reading' = [message EXCEPT !.type = IF part.contentType.declared
                                                        THEN wire.type ELSE "none"]
  <2>1. /\ m.status = message.status /\ m.body.kind # "error" /\ PartFits(part, m)
        /\ Validated(part, m, message.entry) =
             [message EXCEPT !.type = IF part.contentType.declared THEN wire.type
                                                                  ELSE "none"]
    BY <1>1, <1>3, AnswerReads
  <2>2. message.entry \in DOMAIN Entries(Current) /\ part.status = message.status
    BY <1>1 DEF IsAnswer
  <2> HIDE DEF m
  <2>3. entry # 0 /\ entry <= message.entry
    BY <1>1, <2>1, <2>2, EntryIs
  <2> HIDE DEF entry
  <2>4. exchange' = "read" /\ reading' = Validated(Entries(Current)[entry], m, entry)
    BY <2>1, <2>3 DEF Receive, m, entry
  <2>5. reading'.status = m.status /\ reading'.entry = entry
    BY <2>4 DEF Validated, Message
  <2> QED
    BY <2>1, <2>3, <2>4, <2>5
<1>4. MessagesAreReadAsSent'
  <2>1. Sent' = Sent
    BY <1>1 DEF Sent, Current
  <2>2. message.status # 0 => Sent = part
    BY DEF Sent
  <2>3. ~Uploaded' /\ Arrived'
    BY <1>1 DEF Uploaded, Arrived
  <2> HIDE DEF part
  <2> QED
    BY <1>1, <1>2, <1>3, <2>1, <2>2, <2>3 DEF MessagesAreReadAsSent
<1>5. OnTheWire'
  BY <1>1 DEF OnTheWire, IsAnswer, Current
<1> QED
  BY <1>1, <1>4, <1>5 DEF ExchangeInv

LEMMA ExchangeNextKeeps ==
  ASSUME ExchangeInv, [ExchangeNext]_exchangeVars
  PROVE  ExchangeInv'
<1>1. CASE UNCHANGED exchangeVars
  BY <1>1 DEF exchangeVars, ExchangeInv, OnTheWire, UploadInv, IsAnswer,
     MessagesAreReadAsSent, Uploaded, Arrived, Carried, CarriedBody, CarriedHeaders, Sent,
     Current
<1> QED
  BY <1>1, UploadKeeps, ReadUploadKeeps, AnswerKeeps, ReceiveKeeps DEF ExchangeNext

LEMMA ExchangeInvariance == Spec => []ExchangeInv
<1>1. Init => ExchangeInv
  BY DEF Init, ExchangeInit, ExchangeInv, NoMessage, Message, MessagesAreReadAsSent,
     Uploaded, Arrived
<1>2. ExchangeInv /\ [Next]_vars => ExchangeInv'
  <2> SUFFICES ASSUME ExchangeInv, [Next]_vars PROVE ExchangeInv'
    OBVIOUS
  <2>1. [ExchangeNext]_exchangeVars
    BY DEF Next, Responses, Routes, Call, InCall, Command, InCommand, Handlers, InHandlers,
       Messages, vars
  <2> QED
    BY <2>1, ExchangeNextKeeps
<1> QED
  BY <1>1, <1>2, PTL DEF Spec

\* Whatever bodies, headers and content types a contract declares, what one side's
\* validator lets pass and the wire can carry, the other side's lets pass unchanged:
\* a JSON text, a string and bytes are told apart again, joined lists are split
\* again, and of the responses of a status at most an earlier one takes it.  The wire
\* does not carry null, a view of bytes, bytes in a request, a text under a type that
\* is not one of texts or looks like JSON, a header with a blank before it, or a list
\* with an item that is empty, has a comma or a blank before it: Carried.
THEOREM MessageFidelity == Spec => []MessagesAreReadAsSent
  BY ExchangeInvariance, PTL DEF ExchangeInv

\* Whatever a contract's responses share of statuses, names and headers, the document
\* built from it describes what is on the wire: the schema that its media type points
\* to is the one that the body was validated against, no other one having got that
\* name; every header is there with a schema that accepts it, and one that is missing
\* is not required; and what was rebased points to its own schema.
THEOREM MessageDocumentation == Spec => []MessagesAreDocumented
<1>1. ExchangeInv => MessagesAreDocumented
  BY WireIsDocumented DEF ExchangeInv, MessagesAreDocumented
<1> QED
  BY <1>1, ExchangeInvariance, PTL
=============================================================================
