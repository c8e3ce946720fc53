----------------------- MODULE PluginLifecycleProofs -----------------------
(***************************************************************************)
(* Proofs about PluginLifecycle, for any number of generations, plugins    *)
(* and written files, and about the walk of PluginRegistry, for any names, *)
(* registrations and dependencies.                                         *)
(***************************************************************************)
EXTENDS PluginLifecycle, FiniteSetTheorems, FunctionTheorems, TLAPS

-----------------------------------------------------------------------------
(* The order of the plugins: numbers and arrays                            *)

Numbered == {pair \in Nat \X Nat : pair[1] < pair[2]}

\* What holds at 0 and goes on from a number to the next holds as far as it goes on.
LEMMA UpTo ==
  ASSUME NEW N \in Nat, NEW T, 0 \in T, \A n \in T : n \in Nat /\ n < N => n + 1 \in T
  PROVE  \A n \in 0 .. N : n \in T
<1> DEFINE Outside == {n \in 0 .. N : n \notin T}
<1> SUFFICES ASSUME Outside # {} PROVE FALSE
  OBVIOUS
<1>1. Outside \in SUBSET Nat
  OBVIOUS
<1>2. PICK m \in Outside : \A k \in Outside : ~(k < m)
  <2>1. IsWellFoundedOn(Numbered, Nat)
    BY NatLessThanWellFounded DEF OpToRel, Numbered
  <2>2. PICK m \in Outside : \A k \in Outside : <<k, m>> \notin Numbered
    BY <1>1, <2>1, WFMin
  <2> QED
    BY <1>1, <2>2 DEF Numbered
<1>3. m \in 0 .. N /\ m # 0
  BY <1>2
<1>4. m - 1 \in 0 .. N /\ m - 1 < N /\ m - 1 + 1 = m /\ m - 1 < m
  BY <1>3
<1>5. PICK k \in 0 .. N : k < N /\ k + 1 = m /\ k < m
  BY <1>4
<1>6. k \in T
  BY <1>2, <1>5
<1>7. k \in Nat
  BY <1>5
<1>8. k + 1 \in T
  BY <1>5, <1>6, <1>7
<1> QED
  BY <1>2, <1>5, <1>8

LEMMA OneMore ==
  ASSUME NEW T, NEW s \in Seq(T), NEW x \in T
  PROVE  ToSet(Append(s, x)) = ToSet(s) \cup {x}
<1>1. /\ Len(s) \in Nat /\ DOMAIN s = 1 .. Len(s)
      /\ DOMAIN Append(s, x) = 1 .. Len(s) + 1 /\ Append(s, x)[Len(s) + 1] = x
      /\ \A i \in 1 .. Len(s) : Append(s, x)[i] = s[i]
  OBVIOUS
<1>2. (1 .. Len(s) + 1) = (1 .. Len(s)) \cup {Len(s) + 1}
  BY <1>1
<1> QED
  BY <1>1, <1>2 DEF ToSet

\* The filter of an array keeps just what it is told to keep.
LEMMA SelectedFacts ==
  ASSUME NEW T, NEW seq \in Seq(T), NEW positions
  PROVE  LET kept == {seq[i] : i \in DOMAIN seq \cap positions}
         IN  Selected(seq, positions) \in Seq(kept) /\ ToSet(Selected(seq, positions)) = kept
<1> DEFINE N == Len(seq)
           Kept(f, m) ==
             f = [n \in 0 .. m |-> IF n = 0 THEN << >>
                                   ELSE IF n \in positions THEN Append(f[n - 1], seq[n])
                                   ELSE f[n - 1]]
           Reach == {m \in 0 .. N : \E f : Kept(f, m)}
           K == CHOOSE f : Kept(f, N)
           first(n) == {seq[i] : i \in (1 .. n) \cap positions}
<1>1. N \in Nat /\ DOMAIN seq = 1 .. N
  OBVIOUS
<1>2. 0 \in Reach
  <2>1. Kept([n \in 0 .. 0 |-> << >>], 0)
    OBVIOUS
  <2> HIDE DEF Kept
  <2> QED
    BY <1>1, <2>1
<1>3. \A m \in Reach : m \in Nat /\ m < N => m + 1 \in Reach
  <2> TAKE m \in Reach
  <2> SUFFICES ASSUME m \in Nat, m < N PROVE \E f : Kept(f, m + 1)
    <3> HIDE DEF Kept
    <3> QED
      BY <1>1
  <2>1. PICK f : Kept(f, m)
    OBVIOUS
  <2> DEFINE g == [n \in 0 .. m + 1 |-> IF n <= m THEN f[n]
                     ELSE IF n \in positions THEN Append(f[n - 1], seq[n]) ELSE f[n - 1]]
  <2>2. \A n \in 0 .. m : g[n] = f[n]
    OBVIOUS
  <2>3. \A n \in 0 .. m :
          f[n] = IF n = 0 THEN << >>
                 ELSE IF n \in positions THEN Append(f[n - 1], seq[n]) ELSE f[n - 1]
    BY <2>1
  <2>4. \A n \in 0 .. m + 1 :
          g[n] = IF n = 0 THEN << >>
                 ELSE IF n \in positions THEN Append(g[n - 1], seq[n]) ELSE g[n - 1]
    <3> TAKE n \in 0 .. m + 1
    <3>1. CASE n = m + 1
      BY <2>2, <3>1
    <3>2. CASE n <= m
      <4>1. n = 0 \/ n - 1 \in 0 .. m
        BY <3>2
      <4> HIDE DEF g
      <4> QED
        BY <2>2, <2>3, <3>2, <4>1
    <3> QED
      BY <3>1, <3>2
  <2>5. Kept(g, m + 1)
    BY <2>4
  <2> QED
    BY <2>5
<1>4. Kept(K, N)
  <2> HIDE DEF Kept
  <2>1. N \in Reach
    <3> HIDE DEF Reach
    <3> QED
      BY <1>1, <1>2, <1>3, UpTo
  <2> QED
    BY <2>1
<1>5. Selected(seq, positions) = K[N]
  BY DEF Selected
<1> HIDE DEF K
<1>6. \A n \in 0 .. N :
        K[n] = IF n = 0 THEN << >>
               ELSE IF n \in positions THEN Append(K[n - 1], seq[n]) ELSE K[n - 1]
  BY <1>4
<1> DEFINE Right == {n \in 0 .. N : K[n] \in Seq(first(n)) /\ ToSet(K[n]) = first(n)}
<1>7. 0 \in Right
  <2>1. K[0] = << >> /\ first(0) = {} /\ 0 \in 0 .. N
    BY <1>1, <1>6
  <2>2. << >> \in Seq({}) /\ ToSet(<< >>) = {}
    BY DEF ToSet
  <2> HIDE DEF first
  <2> QED
    BY <2>1, <2>2
<1>8. \A n \in Right : n \in Nat /\ n < N => n + 1 \in Right
  <2> TAKE n \in Right
  <2> SUFFICES ASSUME n \in Nat, n < N PROVE n + 1 \in Right
    OBVIOUS
  <2>1. K[n + 1] = IF n + 1 \in positions THEN Append(K[n], seq[n + 1]) ELSE K[n]
    BY <1>1, <1>6
  <2>2. (1 .. n + 1) = (1 .. n) \cup {n + 1}
    OBVIOUS
  <2>3. K[n] \in Seq(first(n)) /\ ToSet(K[n]) = first(n)
    OBVIOUS
  <2>4. n + 1 \in 0 .. N
    BY <1>1
  <2>5. CASE n + 1 \notin positions
    <3>1. first(n + 1) = first(n)
      BY <2>2, <2>5
    <3> HIDE DEF first
    <3> QED
      BY <2>1, <2>3, <2>4, <2>5, <3>1
  <2>6. CASE n + 1 \in positions
    <3>1. first(n + 1) = first(n) \cup {seq[n + 1]}
      BY <2>2, <2>6
    <3>2. K[n + 1] = Append(K[n], seq[n + 1])
      BY <2>1, <2>6
    <3> HIDE DEF first
    <3>3. K[n] \in Seq(first(n + 1)) /\ seq[n + 1] \in first(n + 1)
      BY <2>3, <3>1
    <3>4. ToSet(Append(K[n], seq[n + 1])) = ToSet(K[n]) \cup {seq[n + 1]}
      BY <3>3, OneMore
    <3>5. Append(K[n], seq[n + 1]) \in Seq(first(n + 1))
      BY <3>3
    <3>6. K[n + 1] \in Seq(first(n + 1)) /\ ToSet(K[n + 1]) = first(n + 1)
      BY <2>3, <3>1, <3>2, <3>4, <3>5
    <3> QED
      BY <2>4, <3>6
  <2> QED
    BY <2>5, <2>6
<1>9. N \in Right
  <2> HIDE DEF Right
  <2> QED
    BY <1>1, <1>7, <1>8, UpTo
<1>10. first(N) = {seq[i] : i \in DOMAIN seq \cap positions}
  BY <1>1
<1> HIDE DEF first
<1> QED
  BY <1>5, <1>9, <1>10

LEMMA AlphabeticalFacts ==
  ASSUME NEW names \in SUBSET Names
  PROVE  /\ Alphabetical(names) \in Seq(Names) /\ ToSet(Alphabetical(names)) = names
         /\ \A k \in 1 .. Len(Alphabetical(names)) : Alphabetical(names)[k] \in names
<1> DEFINE positions == {i \in DOMAIN Alphabet : Alphabet[i] \in names}
<1>1. Alphabet \in Seq(Names) /\ {Alphabet[i] : i \in DOMAIN Alphabet \cap positions} = names
  BY AlphabetAssumption DEF Names, ToSet
<1>2. Alphabetical(names) \in Seq(names) /\ ToSet(Alphabetical(names)) = names
  BY <1>1, SelectedFacts DEF Alphabetical
<1> QED
  BY <1>2

LEMMA NamesFinite == IsFiniteSet(Names) /\ Cardinality(Names) \in Nat
<1>1. Alphabet \in Seq(Names) /\ Len(Alphabet) \in Nat /\ DOMAIN Alphabet = 1 .. Len(Alphabet)
  BY AlphabetAssumption
<1>2. Alphabet \in Surjection(1 .. Len(Alphabet), Names)
  BY <1>1 DEF Surjection, Names, ToSet
<1>3. IsFiniteSet(1 .. Len(Alphabet))
  BY <1>1, FS_Interval
<1> QED
  BY <1>2, <1>3, FS_Surjection, FS_CardinalityType

-----------------------------------------------------------------------------
(* The order of the plugins: the walk                                      *)

\* What goes on from a name to the next until one fails
LEMMA EachHolds ==
  ASSUME NEW names \in Seq(Names), NEW visitOne, NEW start, NEW reach,
         start \in reach[0],
         \A k \in 1 .. Len(names) : \A w \in reach[k - 1] :
           IF w.issue # NoIssue THEN w \in reach[k] ELSE visitOne[names[k]][w] \in reach[k]
  PROVE  Each(names, visitOne, start) \in reach[Len(names)]
<1> DEFINE N == Len(names)
           After(f, m) ==
             f = [k \in 0 .. m |-> IF k = 0 THEN start
                                   ELSE IF f[k - 1].issue # NoIssue THEN f[k - 1]
                                   ELSE visitOne[names[k]][f[k - 1]]]
           Reach == {m \in 0 .. N : \E f : After(f, m)}
           A == CHOOSE f : After(f, N)
<1>1. N \in Nat
  OBVIOUS
<1>2. 0 \in Reach
  <2>1. After([k \in 0 .. 0 |-> start], 0)
    OBVIOUS
  <2> HIDE DEF After
  <2> QED
    BY <1>1, <2>1
<1>3. \A m \in Reach : m \in Nat /\ m < N => m + 1 \in Reach
  <2> TAKE m \in Reach
  <2> SUFFICES ASSUME m \in Nat, m < N PROVE \E f : After(f, m + 1)
    <3> HIDE DEF After
    <3> QED
      BY <1>1
  <2>1. PICK f : After(f, m)
    OBVIOUS
  <2> DEFINE g == [k \in 0 .. m + 1 |-> IF k <= m THEN f[k]
                     ELSE IF f[k - 1].issue # NoIssue THEN f[k - 1]
                      ELSE visitOne[names[k]][f[k - 1]]]
  <2>2. \A k \in 0 .. m : g[k] = f[k]
    OBVIOUS
  <2>3. \A k \in 0 .. m :
          f[k] = IF k = 0 THEN start
                 ELSE IF f[k - 1].issue # NoIssue THEN f[k - 1]
                      ELSE visitOne[names[k]][f[k - 1]]
    BY <2>1
  <2>4. \A k \in 0 .. m + 1 :
          g[k] = IF k = 0 THEN start
                 ELSE IF g[k - 1].issue # NoIssue THEN g[k - 1]
                      ELSE visitOne[names[k]][g[k - 1]]
    <3> TAKE k \in 0 .. m + 1
    <3>1. CASE k = m + 1
      BY <2>2, <3>1
    <3>2. CASE k <= m
      <4>1. k = 0 \/ k - 1 \in 0 .. m
        BY <3>2
      <4> HIDE DEF g
      <4> QED
        BY <2>2, <2>3, <3>2, <4>1
    <3> QED
      BY <3>1, <3>2
  <2>5. After(g, m + 1)
    BY <2>4
  <2> QED
    BY <2>5
<1>4. After(A, N)
  <2> HIDE DEF After
  <2>1. N \in Reach
    <3> HIDE DEF Reach
    <3> QED
      BY <1>1, <1>2, <1>3, UpTo
  <2> QED
    BY <2>1
<1>5. Each(names, visitOne, start) = A[N]
  BY DEF Each
<1> HIDE DEF A
<1>6. \A k \in 0 .. N :
        A[k] = IF k = 0 THEN start
               ELSE IF A[k - 1].issue # NoIssue THEN A[k - 1]
               ELSE visitOne[names[k]][A[k - 1]]
  BY <1>4
<1> DEFINE Right == {k \in 0 .. N : A[k] \in reach[k]}
<1>7. 0 \in Right
  <2>1. A[0] = start /\ 0 \in 0 .. N
    BY <1>1, <1>6
  <2> QED
    BY <2>1
<1>8. \A k \in Right : k \in Nat /\ k < N => k + 1 \in Right
  <2> TAKE k \in Right
  <2> SUFFICES ASSUME k \in Nat, k < N PROVE k + 1 \in Right
    OBVIOUS
  <2>1. k + 1 \in 1 .. N /\ k + 1 \in 0 .. N /\ k + 1 - 1 = k /\ k + 1 # 0
    BY <1>1
  <2>2. A[k + 1] = IF A[k].issue # NoIssue THEN A[k] ELSE visitOne[names[k + 1]][A[k]]
    BY <1>6, <2>1
  <2>3. A[k] \in reach[k]
    OBVIOUS
  <2>4. IF A[k].issue # NoIssue THEN A[k] \in reach[k + 1]
        ELSE visitOne[names[k + 1]][A[k]] \in reach[k + 1]
    BY <2>1, <2>3
  <2> QED
    BY <2>1, <2>2, <2>4
<1>9. N \in Right
  <2> HIDE DEF Right
  <2> QED
    BY <1>1, <1>7, <1>8, UpTo
<1> QED
  BY <1>5, <1>9

\* An array in which every name stands after the names it depends on
InOrder(s, depends) ==
  \A i \in 1 .. Len(s) : \A m \in depends[s[i]] : \E j \in 1 .. i - 1 : s[j] = m

LEMMA OrderedFacts ==
  ASSUME NEW s \in Seq(Names), NEW depends, IsInjective(s), InOrder(s, depends)
  PROVE  DependenciesFirst(s, depends)
<1> SUFFICES ASSUME NEW n \in ToSet(s), NEW m \in depends[n]
             PROVE  m \in ToSet(s) /\ Position(s, m) < Position(s, n)
  BY DEF DependenciesFirst
<1>1. Len(s) \in Nat /\ DOMAIN s = 1 .. Len(s)
  OBVIOUS
<1>2. ASSUME NEW k \in 1 .. Len(s) PROVE Position(s, s[k]) = k
  <2>1. k \in DOMAIN s /\ \A l \in DOMAIN s : s[l] = s[k] => l = k
    BY <1>1 DEF IsInjective
  <2> QED
    BY <2>1 DEF Position
<1>3. PICK i \in 1 .. Len(s) : s[i] = n
  BY <1>1 DEF ToSet
<1>4. PICK j \in 1 .. i - 1 : s[j] = m
  BY <1>3 DEF InOrder
<1>5. j \in 1 .. Len(s) /\ j < i
  BY <1>1
<1> QED
  BY <1>1, <1>2, <1>3, <1>4, <1>5 DEF ToSet

LEMMA OneMoreInOrder ==
  ASSUME NEW s \in Seq(Names), NEW depends \in [Names -> SUBSET Names], NEW n \in Names,
         IsInjective(s), InOrder(s, depends), n \notin ToSet(s), depends[n] \subseteq ToSet(s)
  PROVE  LET more == Append(s, n)
         IN  /\ more \in Seq(Names) /\ ToSet(more) = ToSet(s) \cup {n}
             /\ IsInjective(more) /\ InOrder(more, depends)
<1> DEFINE more == Append(s, n)
           N == Len(s)
<1>1. /\ N \in Nat /\ DOMAIN s = 1 .. N
      /\ more \in Seq(Names) /\ Len(more) = N + 1 /\ DOMAIN more = 1 .. N + 1
      /\ more[N + 1] = n /\ \A i \in 1 .. N : more[i] = s[i]
  OBVIOUS
<1> HIDE DEF more
<1>2. (1 .. N + 1) = (1 .. N) \cup {N + 1}
  BY <1>1
<1>3. ToSet(more) = ToSet(s) \cup {n}
  BY <1>1, <1>2 DEF ToSet
<1>4. IsInjective(more)
  <2> SUFFICES ASSUME NEW a \in 1 .. N + 1, NEW b \in 1 .. N + 1, more[a] = more[b] PROVE a = b
    BY <1>1 DEF IsInjective
  <2>1. ASSUME NEW i \in 1 .. N PROVE more[i] # n
    BY <1>1, <2>1 DEF ToSet
  <2> QED
    BY <1>1, <1>2, <2>1 DEF IsInjective
<1>5. InOrder(more, depends)
  <2> SUFFICES ASSUME NEW i \in 1 .. N + 1, NEW m \in depends[more[i]]
               PROVE  \E j \in 1 .. i - 1 : more[j] = m
    BY <1>1 DEF InOrder
  <2>1. CASE i = N + 1
    <3>1. m \in ToSet(s) /\ i - 1 = N
      BY <1>1, <2>1
    <3> QED
      BY <1>1, <3>1 DEF ToSet
  <2>2. CASE i \in 1 .. N
    <3>1. PICK j \in 1 .. i - 1 : s[j] = m
      BY <1>1, <2>2 DEF InOrder
    <3>2. j \in 1 .. N
      BY <1>1, <2>2
    <3> QED
      BY <1>1, <3>1, <3>2
  <2> QED
    BY <1>2, <2>1, <2>2
<1> QED
  BY <1>1, <1>3, <1>4, <1>5 DEF more

\* Of a walk that has not failed: what it has emitted, and whom it has entered.
InProgress(w, known, depends) ==
  /\ w.visiting \cup w.visited \subseteq known /\ w.visiting \cap w.visited = {}
  /\ ToSet(w.sorted) = w.visited /\ IsInjective(w.sorted) /\ InOrder(w.sorted, depends)

\* Whoever has been entered waits for another one who has, or for n.
AllWait(visiting, n, depends) ==
  \A v \in visiting : depends[v] \cap (visiting \cup {n}) # {}

\* A walk that has entered `visiting' and has done at least `done', or has failed
\* with good reason
Reached(visiting, done, known, depends) ==
  {w \in Walk : IF w.issue # NoIssue THEN ~Sortable(known, depends)
                ELSE /\ w.visiting = visiting /\ done \subseteq w.visited
                     /\ InProgress(w, known, depends)}

\* Visiting a name is right in whatever state the walk may come to it, as long as
\* the depth is enough for the names not yet entered.
VisitsRight(visit, d, known, depends) ==
  \A w \in Walk, n \in known :
    /\ w.issue = NoIssue /\ InProgress(w, known, depends)
    /\ AllWait(w.visiting, n, depends)
    /\ Cardinality(w.visiting) + d > Cardinality(Names)
    => visit[n][w] \in Reached(w.visiting, w.visited \cup {n}, known, depends)

LEMMA EntryFacts ==
  ASSUME NEW w \in Walk, NEW n \in Names
  PROVE  /\ w.visiting \subseteq Names /\ w.visited \subseteq Names /\ w.sorted \in Seq(Names)
         /\ Enter(w, n) \in Walk /\ Enter(w, n).issue = w.issue
         /\ Enter(w, n).visiting = w.visiting \cup {n}
         /\ Enter(w, n).visited = w.visited /\ Enter(w, n).sorted = w.sorted
         /\ Leave(w, n) \in Walk /\ Leave(w, n).issue = w.issue
         /\ Leave(w, n).visiting = w.visiting \ {n}
         /\ Leave(w, n).visited = w.visited \cup {n}
         /\ Leave(w, n).sorted = Append(w.sorted, n)
<1>1. /\ w.visiting \subseteq Names /\ w.visited \subseteq Names /\ w.sorted \in Seq(Names)
  BY DEF Walk
<1> DEFINE more == Append(w.sorted, n)
<1>2. more \in Seq(Names)
  BY <1>1
<1>3. ASSUME NEW V \in SUBSET Names
      PROVE  LET e == [w EXCEPT !.visiting = V]
             IN  /\ e \in Walk /\ e.visiting = V /\ e.visited = w.visited
                 /\ e.sorted = w.sorted /\ e.issue = w.issue
  BY DEF Walk
<1> DEFINE set(V, U, s) == [w EXCEPT !.visiting = V, !.visited = U, !.sorted = s]
<1>4. ASSUME NEW V \in SUBSET Names, NEW U \in SUBSET Names, NEW s \in Seq(Names)
      PROVE  /\ set(V, U, s) \in Walk /\ set(V, U, s).visiting = V /\ set(V, U, s).visited = U
             /\ set(V, U, s).sorted = s /\ set(V, U, s).issue = w.issue
  BY DEF Walk
<1>5. Enter(w, n) = [w EXCEPT !.visiting = w.visiting \cup {n}]
  BY DEF Enter
<1>6. Leave(w, n) = set(w.visiting \ {n}, w.visited \cup {n}, more)
  BY DEF Leave
<1>7. /\ w.visiting \cup {n} \in SUBSET Names /\ w.visiting \ {n} \in SUBSET Names
      /\ w.visited \cup {n} \in SUBSET Names
  BY <1>1
<1>8. /\ Enter(w, n) \in Walk /\ Enter(w, n).visiting = w.visiting \cup {n}
      /\ Enter(w, n).visited = w.visited /\ Enter(w, n).sorted = w.sorted
      /\ Enter(w, n).issue = w.issue
  BY <1>3, <1>5, <1>7
<1> HIDE DEF set, more
<1>9. /\ Leave(w, n) \in Walk /\ Leave(w, n).visiting = w.visiting \ {n}
      /\ Leave(w, n).visited = w.visited \cup {n}
      /\ Leave(w, n).sorted = more /\ Leave(w, n).issue = w.issue
  BY <1>2, <1>4, <1>6, <1>7
<1> QED
  BY <1>1, <1>8, <1>9 DEF more

LEMMA IssueFacts ==
  ASSUME NEW w \in Walk, NEW n \in Names, NEW kind \in {"missing-dependency", "dependency-cycle"}
  PROVE  /\ [w EXCEPT !.issue = Issue(kind, n)] \in Walk
         /\ [w EXCEPT !.issue = Issue(kind, n)].issue # NoIssue
<1>1. /\ Issue(kind, n) \in [kind : {"missing-dependency", "dependency-cycle"}, plugin : Names]
      /\ Issue(kind, n) # NoIssue
  BY IssueAssumption DEF Issue
<1> QED
  BY <1>1 DEF Walk

LEMMA VisitPluginRight ==
  ASSUME NEW known \in SUBSET Names, NEW depends \in [Names -> SUBSET Names],
         NEW d \in Nat, NEW visit, VisitsRight(visit, d, known, depends)
  PROVE  VisitsRight(VisitPlugin(known, depends, visit), d + 1, known, depends)
<1> SUFFICES ASSUME NEW w \in Walk, NEW n \in known,
                    w.issue = NoIssue, InProgress(w, known, depends),
                    AllWait(w.visiting, n, depends),
                    Cardinality(w.visiting) + (d + 1) > Cardinality(Names)
             PROVE  VisitPlugin(known, depends, visit)[n][w]
                      \in Reached(w.visiting, w.visited \cup {n}, known, depends)
  BY DEF VisitsRight
<1> DEFINE names == Alphabetical(depends[n])
           dependency == Dependency(known, n, visit)
           after == Each(names, dependency, Enter(w, n))
           entered == w.visiting \cup {n}
           reach == [k \in 0 .. Len(names) |->
                       Reached(entered, w.visited \cup {names[i] : i \in 1 .. k},
                               known, depends)]
<1>1. VisitPlugin(known, depends, visit)[n][w] =
        IF n \in w.visited THEN w
        ELSE IF n \in w.visiting THEN [w EXCEPT !.issue = Issue("dependency-cycle", n)]
        ELSE IF after.issue # NoIssue THEN after ELSE Leave(after, n)
  BY DEF VisitPlugin
<1>2. /\ names \in Seq(Names) /\ ToSet(names) = depends[n] /\ Len(names) \in Nat
      /\ \A k \in 1 .. Len(names) : names[k] \in depends[n]
  BY AlphabeticalFacts
<1>3. n \in Names
  OBVIOUS
<1>4. CASE n \in w.visited
  BY <1>1, <1>4 DEF Reached
<1>5. CASE n \notin w.visited /\ n \in w.visiting
  <2>1. ~Sortable(known, depends)
    <3>1. w.visiting \in SUBSET known /\ w.visiting # {}
      BY <1>5 DEF InProgress
    <3>2. \A v \in w.visiting : depends[v] \cap w.visiting # {}
      <4>1. w.visiting \cup {n} = w.visiting
        BY <1>5
      <4> QED
        BY <4>1 DEF AllWait
    <3> QED
      BY <3>1, <3>2 DEF Sortable
  <2> QED
    BY <1>1, <1>3, <1>5, <2>1, IssueFacts DEF Reached
<1>6. CASE n \notin w.visited /\ n \notin w.visiting
  <2> HIDE DEF names, dependency
  <2>1. Enter(w, n) \in reach[0]
    <3>1. reach[0] = Reached(entered, w.visited \cup {names[i] : i \in 1 .. 0},
                             known, depends)
      BY <1>2
    <3>2. {names[i] : i \in 1 .. 0} = {}
      OBVIOUS
    <3>3. InProgress(Enter(w, n), known, depends)
      BY <1>3, <1>6, EntryFacts DEF InProgress
    <3> QED
      BY <1>3, <3>1, <3>2, <3>3, EntryFacts DEF Reached
  <2>2. ASSUME NEW k \in 1 .. Len(names), NEW v \in reach[k - 1]
        PROVE  IF v.issue # NoIssue THEN v \in reach[k] ELSE dependency[names[k]][v] \in reach[k]
    <3> DEFINE before == {names[i] : i \in 1 .. k - 1}
               m == names[k]
    <3>1. /\ reach[k - 1] = Reached(entered, w.visited \cup before, known, depends)
          /\ reach[k] = Reached(entered, w.visited \cup {names[i] : i \in 1 .. k},
                                known, depends)
      BY <1>2
    <3>2. {names[i] : i \in 1 .. k} = before \cup {m}
      <4>1. (1 .. k) = (1 .. k - 1) \cup {k}
        BY <1>2
      <4> QED
        BY <4>1
    <3>3. m \in depends[n] /\ m \in Names /\ v \in Walk
      BY <1>2, <1>3, <3>1 DEF Reached
    <3>4. dependency[m][v] = IF m \in known THEN visit[m][v]
                             ELSE [v EXCEPT !.issue = Issue("missing-dependency", n)]
      BY <3>3 DEF dependency, Dependency
    <3> HIDE DEF reach, m, before
    <3>5. CASE v.issue # NoIssue
      BY <3>1, <3>5 DEF Reached
    <3>6. CASE v.issue = NoIssue /\ m \notin known
      <4>1. ~Sortable(known, depends)
        BY <3>3, <3>6 DEF Sortable
      <4>2. dependency[m][v] \in Walk /\ dependency[m][v].issue # NoIssue
        <5>1. LET x == [v EXCEPT !.issue = Issue("missing-dependency", n)]
              IN  x \in Walk /\ x.issue # NoIssue
          BY <1>3, <3>3, IssueFacts
        <5> QED
          BY <3>4, <3>6, <5>1
      <4> QED
        BY <3>1, <3>6, <4>1, <4>2 DEF Reached, m
    <3>7. CASE v.issue = NoIssue /\ m \in known
      <4>1. /\ v.visiting = entered /\ w.visited \cup before \subseteq v.visited
            /\ InProgress(v, known, depends)
        BY <3>1, <3>7 DEF Reached
      <4>2. AllWait(entered, m, depends)
        <5> SUFFICES ASSUME NEW u \in entered PROVE depends[u] \cap (entered \cup {m}) # {}
          BY DEF AllWait
        <5>1. CASE u = n
          BY <3>3, <5>1
        <5>2. CASE u \in w.visiting
          BY <5>2 DEF AllWait
        <5> QED
          BY <5>1, <5>2
      <4>3. Cardinality(entered) + d > Cardinality(Names)
        <5>1. w.visiting \subseteq Names
          BY <1>3, EntryFacts
        <5>2. IsFiniteSet(w.visiting)
          BY <5>1, NamesFinite, FS_Subset
        <5>3. Cardinality(entered) = Cardinality(w.visiting) + 1 /\ Cardinality(w.visiting) \in Nat
          BY <1>6, <5>2, FS_AddElement, FS_CardinalityType
        <5> HIDE DEF entered
        <5> QED
          BY <5>3, NamesFinite
      <4>4. visit[m][v] \in Reached(v.visiting, v.visited \cup {m}, known, depends)
        BY <3>3, <3>7, <4>1, <4>2, <4>3 DEF VisitsRight
      <4>5. visit[m][v] \in reach[k]
        BY <3>1, <3>2, <4>1, <4>4 DEF Reached
      <4> QED
        BY <3>4, <3>7, <4>5 DEF m
    <3> QED
      BY <3>5, <3>6, <3>7
  <2>3. after \in reach[Len(names)]
    <3> HIDE DEF reach
    <3> QED
      BY <1>2, <2>1, <2>2, EachHolds
  <2>4. after \in Reached(entered, w.visited \cup depends[n], known, depends)
    <3>1. {names[i] : i \in 1 .. Len(names)} = depends[n]
      BY <1>2 DEF ToSet
    <3>2. reach[Len(names)] = Reached(entered, w.visited \cup {names[i] : i \in 1 .. Len(names)},
                                      known, depends)
      BY <1>2
    <3> QED
      BY <2>3, <3>1, <3>2
  <2> HIDE DEF after
  <2>5. CASE after.issue # NoIssue
    BY <1>1, <1>6, <2>4, <2>5 DEF Reached
  <2>6. CASE after.issue = NoIssue
    <3>1. /\ after \in Walk /\ after.visiting = entered
          /\ w.visited \cup depends[n] \subseteq after.visited
          /\ InProgress(after, known, depends)
      BY <2>4, <2>6 DEF Reached
    <3>2. n \notin after.visited
      BY <3>1 DEF InProgress
    <3>3. /\ after.sorted \in Seq(Names) /\ ToSet(after.sorted) = after.visited
          /\ IsInjective(after.sorted) /\ InOrder(after.sorted, depends)
      BY <3>1 DEF InProgress, Walk
    <3>4. LET more == Append(after.sorted, n)
          IN  /\ ToSet(more) = after.visited \cup {n}
              /\ IsInjective(more) /\ InOrder(more, depends)
      BY <1>3, <3>1, <3>2, <3>3, OneMoreInOrder
    <3> DEFINE left == Leave(after, n)
    <3>5. /\ left \in Walk /\ left.issue = NoIssue /\ left.visiting = w.visiting
          /\ left.visited = after.visited \cup {n} /\ left.sorted = Append(after.sorted, n)
      <4>1. entered \ {n} = w.visiting
        BY <1>6
      <4>2. /\ Leave(after, n) \in Walk /\ Leave(after, n).issue = after.issue
            /\ Leave(after, n).visiting = after.visiting \ {n}
            /\ Leave(after, n).visited = after.visited \cup {n}
            /\ Leave(after, n).sorted = Append(after.sorted, n)
        BY <1>3, <3>1, EntryFacts
      <4> HIDE DEF entered, left
      <4> QED
        BY <2>6, <3>1, <4>1, <4>2 DEF left
    <3> HIDE DEF left
    <3>6. InProgress(left, known, depends)
      <4>1. left.visiting \cup left.visited \subseteq known
            /\ left.visiting \cap left.visited = {}
        BY <1>6, <3>1, <3>5 DEF InProgress
      <4> QED
        BY <3>4, <3>5, <4>1 DEF InProgress
    <3>7. left \in Reached(w.visiting, w.visited \cup {n}, known, depends)
      BY <3>1, <3>5, <3>6 DEF Reached
    <3> QED
      BY <1>1, <1>6, <2>6, <3>7 DEF left
  <2> QED
    BY <2>5, <2>6
<1> QED
  BY <1>4, <1>5, <1>6

\* The walk is right at every depth.
LEMMA VisitRight ==
  ASSUME NEW known \in SUBSET Names, NEW depends \in [Names -> SUBSET Names]
  PROVE  VisitsRight(Visit(known, depends), MaxDepth, known, depends)
<1> DEFINE base == [n \in Names |-> [w \in Walk |-> w]]
           Deep(f, m) == f = [d \in 0 .. m |-> IF d = 0 THEN base
                                               ELSE VisitPlugin(known, depends, f[d - 1])]
           Reach == {m \in 0 .. MaxDepth : \E f : Deep(f, m)}
           V == CHOOSE f : Deep(f, MaxDepth)
<1>1. MaxDepth \in Nat
  BY NamesFinite DEF MaxDepth
<1>2. 0 \in Reach
  <2> HIDE DEF base
  <2>1. Deep([d \in 0 .. 0 |-> base], 0)
    OBVIOUS
  <2> HIDE DEF Deep
  <2> QED
    BY <1>1, <2>1
<1>3. \A m \in Reach : m \in Nat /\ m < MaxDepth => m + 1 \in Reach
  <2> HIDE DEF base
  <2> TAKE m \in Reach
  <2> SUFFICES ASSUME m \in Nat, m < MaxDepth PROVE \E f : Deep(f, m + 1)
    <3> HIDE DEF Deep
    <3> QED
      BY <1>1
  <2>1. PICK f : Deep(f, m)
    OBVIOUS
  <2> DEFINE g == [d \in 0 .. m + 1 |-> IF d <= m THEN f[d]
                     ELSE VisitPlugin(known, depends, f[d - 1])]
  <2>2. \A d \in 0 .. m : g[d] = f[d]
    OBVIOUS
  <2>3. \A d \in 0 .. m :
          f[d] = IF d = 0 THEN base
                 ELSE VisitPlugin(known, depends, f[d - 1])
    BY <2>1
  <2>4. \A d \in 0 .. m + 1 :
          g[d] = IF d = 0 THEN base
                 ELSE VisitPlugin(known, depends, g[d - 1])
    <3> TAKE d \in 0 .. m + 1
    <3>1. CASE d = m + 1
      BY <2>2, <3>1
    <3>2. CASE d <= m
      <4>1. d = 0 \/ d - 1 \in 0 .. m
        BY <3>2
      <4> HIDE DEF g
      <4> QED
        BY <2>2, <2>3, <3>2, <4>1
    <3> QED
      BY <3>1, <3>2
  <2>5. Deep(g, m + 1)
    BY <2>4
  <2> QED
    BY <2>5
<1>4. Deep(V, MaxDepth)
  <2> HIDE DEF Deep
  <2>1. MaxDepth \in Reach
    <3> HIDE DEF Reach
    <3> QED
      BY <1>1, <1>2, <1>3, UpTo
  <2> QED
    BY <2>1
<1>5. Visit(known, depends) = V[MaxDepth]
  BY DEF Visit
<1> HIDE DEF V
<1>9. \A d \in 0 .. MaxDepth :
        V[d] = IF d = 0 THEN base ELSE VisitPlugin(known, depends, V[d - 1])
  <2> HIDE DEF base
  <2> QED
    BY <1>4
<1> DEFINE Right == {d \in 0 .. MaxDepth : VisitsRight(V[d], d, known, depends)}
<1>6. 0 \in Right
  <2>1. ASSUME NEW w \in Walk PROVE ~(Cardinality(w.visiting) + 0 > Cardinality(Names))
    <3>1. w.visiting \in SUBSET Names
      BY DEF Walk
    <3>2. Cardinality(w.visiting) <= Cardinality(Names) /\ Cardinality(w.visiting) \in Nat
      BY <3>1, NamesFinite, FS_Subset, FS_CardinalityType
    <3> QED
      BY <3>2, NamesFinite
  <2>2. 0 \in 0 .. MaxDepth
    BY <1>1
  <2> QED
    BY <2>1, <2>2 DEF VisitsRight
<1>7. \A d \in Right : d \in Nat /\ d < MaxDepth => d + 1 \in Right
  <2> TAKE d \in Right
  <2> SUFFICES ASSUME d \in Nat, d < MaxDepth PROVE d + 1 \in Right
    OBVIOUS
  <2> HIDE DEF base
  <2>1. d + 1 \in 0 .. MaxDepth /\ d + 1 # 0 /\ d + 1 - 1 = d
    BY <1>1
  <2>4. V[d + 1] = VisitPlugin(known, depends, V[d])
    BY <1>9, <2>1
  <2>2. VisitsRight(V[d], d, known, depends)
    OBVIOUS
  <2>3. VisitsRight(V[d + 1], d + 1, known, depends)
    BY <2>2, <2>4, VisitPluginRight
  <2> QED
    BY <2>1, <2>3
<1>8. MaxDepth \in Right
  <2> HIDE DEF Right
  <2> QED
    BY <1>1, <1>6, <1>7, UpTo
<1> QED
  BY <1>5, <1>8

\* The order of the registrations, or a failure with good reason
LEMMA SortRight ==
  ASSUME NEW known \in SUBSET Names, NEW depends \in [Names -> SUBSET Names]
  PROVE  LET walk == SortRegistrations(known, depends)
         IN  IF walk.issue # NoIssue THEN ~Sortable(known, depends)
             ELSE /\ walk.sorted \in Seq(Names) /\ IsInjective(walk.sorted)
                  /\ ToSet(walk.sorted) = known
                  /\ DependenciesFirst(walk.sorted, depends)
<1> DEFINE names == Alphabetical(known)
           visit == Visit(known, depends)
           walk == SortRegistrations(known, depends)
           reach == [k \in 0 .. Len(names) |->
                       Reached({}, {names[i] : i \in 1 .. k}, known, depends)]
<1>1. /\ names \in Seq(Names) /\ ToSet(names) = known /\ Len(names) \in Nat
      /\ \A k \in 1 .. Len(names) : names[k] \in known
  BY AlphabeticalFacts
<1>2. VisitsRight(visit, MaxDepth, known, depends)
  BY VisitRight
<1>3. walk = Each(names, visit, Start)
  BY DEF SortRegistrations
<1> HIDE DEF names, visit, walk
<1>4. Start \in reach[0]
  <2>1. reach[0] = Reached({}, {names[i] : i \in 1 .. 0}, known, depends)
    BY <1>1
  <2>2. {names[i] : i \in 1 .. 0} = {}
    OBVIOUS
  <2>3. Start \in Walk
    BY DEF Start, Walk
  <2>4. InProgress(Start, known, depends)
    BY DEF InProgress, Start, ToSet, IsInjective, InOrder
  <2> QED
    BY <2>1, <2>2, <2>3, <2>4 DEF Reached, Start
<1>5. ASSUME NEW k \in 1 .. Len(names), NEW v \in reach[k - 1]
      PROVE  IF v.issue # NoIssue THEN v \in reach[k] ELSE visit[names[k]][v] \in reach[k]
  <2> DEFINE before == {names[i] : i \in 1 .. k - 1}
  <2>1. /\ reach[k - 1] = Reached({}, before, known, depends)
        /\ reach[k] = Reached({}, {names[i] : i \in 1 .. k}, known, depends)
    BY <1>1
  <2>2. {names[i] : i \in 1 .. k} = before \cup {names[k]}
    <3>1. (1 .. k) = (1 .. k - 1) \cup {k}
      BY <1>1
    <3> QED
      BY <3>1
  <2> HIDE DEF reach, before
  <2>3. CASE v.issue # NoIssue
    BY <2>1, <2>3 DEF Reached
  <2>4. CASE v.issue = NoIssue
    <3>1. /\ v \in Walk /\ v.visiting = {} /\ before \subseteq v.visited
          /\ InProgress(v, known, depends)
      BY <2>1, <2>4 DEF Reached
    <3>2. AllWait({}, names[k], depends)
      BY DEF AllWait
    <3>3. Cardinality({}) + MaxDepth > Cardinality(Names)
      BY NamesFinite, FS_EmptySet DEF MaxDepth
    <3>4. visit[names[k]][v] \in Reached({}, v.visited \cup {names[k]}, known, depends)
      BY <1>1, <1>2, <2>4, <3>1, <3>2, <3>3 DEF VisitsRight
    <3> QED
      BY <2>1, <2>2, <2>4, <3>1, <3>4 DEF Reached
  <2> QED
    BY <2>3, <2>4
<1>6. walk \in reach[Len(names)]
  <2> HIDE DEF reach
  <2> QED
    BY <1>1, <1>3, <1>4, <1>5, EachHolds
<1>7. walk \in Reached({}, known, known, depends)
  <2>1. {names[i] : i \in 1 .. Len(names)} = known
    BY <1>1 DEF ToSet
  <2>2. reach[Len(names)] = Reached({}, {names[i] : i \in 1 .. Len(names)}, known, depends)
    BY <1>1
  <2> QED
    BY <1>6, <2>1, <2>2
<1>8. ASSUME walk.issue = NoIssue
      PROVE  /\ walk.sorted \in Seq(Names) /\ IsInjective(walk.sorted)
             /\ ToSet(walk.sorted) = known /\ DependenciesFirst(walk.sorted, depends)
  <2>1. walk \in Walk /\ InProgress(walk, known, depends) /\ known \subseteq walk.visited
    BY <1>7, <1>8 DEF Reached
  <2>2. walk.sorted \in Seq(Names)
    BY <2>1 DEF Walk
  <2>3. IsInjective(walk.sorted) /\ InOrder(walk.sorted, depends) /\ ToSet(walk.sorted) = known
    BY <2>1 DEF InProgress
  <2> QED
    BY <2>2, <2>3, OrderedFacts
<1> QED
  BY <1>7, <1>8 DEF walk, Reached

-----------------------------------------------------------------------------
(* Types                                                                   *)

Stages == {"load", "sort", "initialize", "collect", "generate", "index", "finalize", "done"}
Steps == {"open", "build", "hook", "leave"}
Causes == {"fail", "die", "interrupt"}

ControlType ==
  /\ scenario \in Scenarios
  /\ stage \in [Gens -> Stages]
  /\ step \in [Gens -> Steps]
  /\ next \in [Gens -> Nat \ {0}]
  /\ interrupted \in [Gens -> BOOLEAN]
  /\ exit \in [Gens -> SUBSET Causes]
  /\ drawn \in [Gens -> SUBSET Ends]
RegistryType ==
  /\ entries \in [Gens -> Seq(Plugins)]
  /\ registered \in [Gens -> [Names -> Plugins \cup {NoPlugin}]]
  /\ order \in [Gens -> Seq(Names)]
  /\ initialized \in [Gens -> Seq(Names)]
  /\ finalized \in [Gens -> Seq(Names)]
ScopeType ==
  /\ runtime \in [Gens -> [Names -> Gens \cup {NoScope}]]
  /\ opened \in [Gens -> [Names -> Nat]]
  /\ closed \in [Gens -> [Names -> Nat]]
FileType ==
  /\ written \in [Gens -> Nat]
  /\ pending \in [Gens -> Nat]
  /\ logged \in [Gens -> Nat]
TypeInv == ControlType /\ RegistryType /\ ScopeType /\ FileType

-----------------------------------------------------------------------------
(* The inductive invariant                                                 *)

\* The scope transaction of the plugin in turn has begun.
InTransaction(g) == stage[g] = "initialize" /\ step[g] # "open"

\* What is initialized is a beginning of the order, what is finalized the end of
\* what is initialized, backwards.
SequenceInv(g) ==
  /\ IsInjective(order[g]) /\ DependenciesFirst(order[g], scenario.depends)
  /\ Len(initialized[g]) <= Len(order[g])
  /\ \A i \in 1 .. Len(initialized[g]) : initialized[g][i] = order[g][i]
  /\ Len(finalized[g]) <= Len(initialized[g])
  /\ \A i \in 1 .. Len(finalized[g]) :
       finalized[g][i] = initialized[g][Len(initialized[g]) - i + 1]
  /\ stage[g] \in {"load", "sort"} => initialized[g] = << >> /\ next[g] = 1
  /\ stage[g] = "initialize" => next[g] = Len(initialized[g]) + 1
  /\ stage[g] \notin {"finalize", "done"} => finalized[g] = << >>
  /\ stage[g] = "done" => Len(finalized[g]) = Len(initialized[g])

\* Who has a Scope: a plugin still to be finalized, or the one being initialized;
\* or nobody who will ever close it, if fibers yield on leaving the transaction.
HasOwner(g, n) ==
  \/ \E i \in 1 .. Unfinalized(g) : initialized[g][i] = n
  \/ InTransaction(g) /\ n = Turn(g)
  \/ YieldsOnLeaving /\ stage[g] \in {"finalize", "done"}
BeingBuilt(g, n) == InTransaction(g) /\ step[g] = "build" /\ n = Turn(g)
ScopeInv(g) ==
  /\ stage[g] \in {"load", "sort"} => step[g] = "open"
  /\ InTransaction(g) =>
       /\ next[g] <= Len(order[g]) /\ IsScoped(g, Turn(g))
       /\ Current(g, Turn(g)) = IF step[g] = "build" THEN NoScope ELSE g
       /\ interrupted[g] /\ ~YieldsOnLeaving => step[g] # "leave"
  /\ \A n \in Names :
       /\ Current(g, n) \in {g, NoScope}
       /\ Current(g, n) = g => IsScoped(g, n) /\ HasOwner(g, n)
       /\ opened[g][n] =
            closed[g][n] + IF Current(g, n) = g \/ BeingBuilt(g, n) THEN 1 ELSE 0

DefectInv(g) == "die" \in exit[g] => "die" \in drawn[g]

FilesInv(g) ==
  /\ written[g] = logged[g] + pending[g]
  /\ stage[g] \notin {"generate", "index"} => pending[g] = 0

GenInv(g) == SequenceInv(g) /\ ScopeInv(g) /\ DefectInv(g) /\ FilesInv(g)

IInv == TypeInv /\ \A g \in Gens : GenInv(g)

StepOf(g) ==
  \/ LoadNext(g) \/ LoadSpec(g) \/ GetAll(g)
  \/ InitializePlain(g) \/ OpenScope(g) \/ BuildLayer(g)
  \/ InitializeHook(g) \/ Initialized(g)
  \/ CollectResources(g) \/ WriteFile(g) \/ Generate(g) \/ GenerateIndex(g)
  \/ NextStage(g) \/ FinalizeNext(g) \/ Finish(g)
  \/ Interrupt(g) \/ TakeInterrupt(g)

-----------------------------------------------------------------------------
(* Published files: nothing about the order of the plugins is needed.      *)

FilesIInv == stage \in [Gens -> Stages] /\ FileType /\ \A g \in Gens : FilesInv(g)

LEMMA StageMoves ==
  ASSUME stage \in [Gens -> Stages], NEW g \in Gens, StepOf(g)
  PROVE  stage' \in [Gens -> Stages] /\ \A h \in Gens \ {g} : stage'[h] = stage[h]
<1>1. ASSUME NEW cause, FailsWith(g, cause)
      PROVE  stage' \in [Gens -> Stages] /\ \A h \in Gens \ {g} : stage'[h] = stage[h]
  BY <1>1 DEF FailsWith, Proceed, Stages
<1>2. ASSUME NEW s \in Stages, Proceed(g, s)
      PROVE  stage' \in [Gens -> Stages] /\ \A h \in Gens \ {g} : stage'[h] = stage[h]
  BY <1>2 DEF Proceed, Stages
<1>3. /\ "sort" \in Stages /\ "initialize" \in Stages /\ "collect" \in Stages
      /\ "generate" \in Stages /\ "index" \in Stages /\ "finalize" \in Stages /\ "done" \in Stages
  BY DEF Stages
<1>4. CASE LoadNext(g) \/ LoadSpec(g) \/ GetAll(g)
  BY <1>1, <1>2, <1>3, <1>4 DEF LoadNext, LoadSpec, GetAll
<1>5. CASE InitializePlain(g) \/ OpenScope(g) \/ BuildLayer(g) \/ InitializeHook(g) \/ Initialized(g)
  BY <1>1, <1>5 DEF InitializePlain, OpenScope, BuildLayer, InitializeHook, Initialized
<1>6. CASE CollectResources(g) \/ WriteFile(g) \/ Generate(g) \/ GenerateIndex(g)
  BY <1>1, <1>2, <1>3, <1>6 DEF CollectResources, WriteFile, Generate, GenerateIndex, HookEnds
<1>7. CASE NextStage(g) \/ FinalizeNext(g) \/ Finish(g) \/ Interrupt(g) \/ TakeInterrupt(g)
  BY <1>1, <1>2, <1>3, <1>7 DEF NextStage, FinalizeNext, Finish, Interrupt, TakeInterrupt
<1> QED
  BY <1>4, <1>5, <1>6, <1>7 DEF StepOf

\* A step publishes a file, reports what is pending, or leaves the books alone.
LEMMA FileMoves ==
  ASSUME stage \in [Gens -> Stages], NEW g \in Gens, StepOf(g)
  PROVE  \/ UNCHANGED files /\ (stage[g] \notin {"generate", "index"}
                                  \/ stage'[g] \in {"generate", "index"})
         \/ /\ stage[g] \in {"generate", "index"} /\ stage' = stage /\ UNCHANGED logged
            /\ written' = [written EXCEPT ![g] = @ + 1]
            /\ pending' = [pending EXCEPT ![g] = @ + 1]
         \/ Flush(g) /\ UNCHANGED written
<1>1. CASE LoadNext(g) \/ LoadSpec(g) \/ GetAll(g)
  BY <1>1 DEF LoadNext, LoadSpec, GetAll, At
<1>2. CASE InitializePlain(g) \/ OpenScope(g) \/ BuildLayer(g) \/ InitializeHook(g) \/ Initialized(g)
  BY <1>2 DEF InitializePlain, OpenScope, BuildLayer, InitializeHook, Initialized, InTurn, At
<1>3. CASE CollectResources(g) \/ WriteFile(g) \/ Generate(g) \/ GenerateIndex(g)
  BY <1>3 DEF CollectResources, WriteFile, Generate, GenerateIndex, InTurn, At
<1>4. CASE NextStage(g)
  BY <1>4 DEF NextStage, AllDone, At, Proceed
<1>5. CASE FinalizeNext(g) \/ Finish(g) \/ Interrupt(g) \/ TakeInterrupt(g)
  BY <1>5 DEF FinalizeNext, Finish, Interrupt, TakeInterrupt
<1> QED
  BY <1>1, <1>2, <1>3, <1>4, <1>5 DEF StepOf

LEMMA FilesStep ==
  ASSUME FilesIInv, NEW g \in Gens, StepOf(g)
  PROVE  FilesIInv'
<1>1. stage' \in [Gens -> Stages] /\ \A h \in Gens \ {g} : stage'[h] = stage[h]
  BY StageMoves DEF FilesIInv
<1>2. CASE UNCHANGED files /\ (stage[g] \notin {"generate", "index"}
                                 \/ stage'[g] \in {"generate", "index"})
  BY <1>1, <1>2 DEF FilesIInv, FileType, FilesInv, files
<1>3. CASE /\ stage[g] \in {"generate", "index"} /\ stage' = stage /\ UNCHANGED logged
           /\ written' = [written EXCEPT ![g] = @ + 1]
           /\ pending' = [pending EXCEPT ![g] = @ + 1]
  BY <1>1, <1>3 DEF FilesIInv, FileType, FilesInv
<1>4. CASE Flush(g) /\ UNCHANGED written
  BY <1>1, <1>4 DEF FilesIInv, FileType, FilesInv, Flush
<1> QED
  BY <1>2, <1>3, <1>4, FileMoves DEF FilesIInv

LEMMA FilesAlways == Spec => []FilesIInv
<1>1. Init => FilesIInv
  BY DEF Init, FilesIInv, FileType, FilesInv, Stages
<1>2. FilesIInv /\ [Next]_vars => FilesIInv'
  <2> SUFFICES ASSUME FilesIInv, [Next]_vars PROVE FilesIInv'
    OBVIOUS
  <2>1. CASE UNCHANGED vars
    BY <2>1 DEF vars, files, FilesIInv, FileType, FilesInv
  <2>2. ASSUME NEW g \in Gens, StepOf(g) PROVE FilesIInv'
    BY <2>2, FilesStep
  <2> QED
    BY <2>1, <2>2 DEF Next, StepOf
<1> QED
  BY <1>1, <1>2, PTL DEF Spec

\* When a generation ends, every file it published has been reported, once
\* (onExit(flushGeneratedFileLogs) in runPluginLifecycle).
THEOREM WritesAreReportedAlways == Spec => []WritesAreReported
<1>1. FilesIInv => WritesAreReported
  BY DEF FilesIInv, FileType, FilesInv, WritesAreReported
<1> QED
  BY <1>1, FilesAlways, PTL

-----------------------------------------------------------------------------
(* Every step keeps the types, if getAll sorts.                            *)

LEMMA FailsType ==
  ASSUME ControlType, NEW g \in Gens, NEW cause \in Causes, FailsWith(g, cause)
  PROVE  stage' \in [Gens -> Stages] /\ exit' \in [Gens -> SUBSET Causes]
  BY DEF ControlType, FailsWith, Proceed, Stages

LEMMA DrawsType ==
  ASSUME ControlType, NEW g \in Gens, NEW end \in Ends, Draws(g, end)
  PROVE  drawn' \in [Gens -> SUBSET Ends] /\ (end # "ok" => end \in Causes)
  BY DEF ControlType, Draws, Ends, Causes

LEMMA ScopeMoves ==
  ASSUME ScopeType, NEW g \in Gens, NEW n \in Names
  PROVE  /\ opened' = [opened EXCEPT ![g][n] = @ + 1] => opened' \in [Gens -> [Names -> Nat]]
         /\ \A h : closed' = [closed EXCEPT ![h][n] = @ + 1] => closed' \in [Gens -> [Names -> Nat]]
         /\ \A to \in Gens \cup {NoScope} :
              SetCurrent(g, n, to) => runtime' \in [Gens -> [Names -> Gens \cup {NoScope}]]
<1>1. opened' = [opened EXCEPT ![g][n] = @ + 1] => opened' \in [Gens -> [Names -> Nat]]
  BY DEF ScopeType
<1>2. ASSUME NEW h, closed' = [closed EXCEPT ![h][n] = @ + 1]
      PROVE  closed' \in [Gens -> [Names -> Nat]]
  <2>1. CASE h \in Gens
    BY <1>2, <2>1 DEF ScopeType
  <2>2. CASE h \notin Gens
    BY <1>2, <2>2 DEF ScopeType
  <2> QED
    BY <2>1, <2>2
<1>3. ASSUME NEW to \in Gens \cup {NoScope}, SetCurrent(g, n, to)
      PROVE  runtime' \in [Gens -> [Names -> Gens \cup {NoScope}]]
  BY <1>3 DEF ScopeType, SetCurrent, Slot
<1> QED
  BY <1>1, <1>2, <1>3

LEMMA TurnType ==
  ASSUME TypeInv, NEW g \in Gens, NEW s, InTurn(g, s)
  PROVE  Turn(g) \in Names
  BY DEF TypeInv, ControlType, RegistryType, InTurn, Turn

LEMMA FinalizedType ==
  ASSUME TypeInv, NEW g \in Gens, Unfinalized(g) > 0
  PROVE  /\ NextToFinalize(g) \in Names
         /\ Unfinalized(g) \in 1 .. Len(initialized[g])
<1>1. /\ initialized[g] \in Seq(Names) /\ Len(finalized[g]) \in Nat
      /\ Len(initialized[g]) \in Nat
  BY DEF TypeInv, RegistryType
<1>2. Unfinalized(g) \in 1 .. Len(initialized[g])
  <2>1. \A m, k \in Nat : m - k > 0 => m - k \in 1 .. m
    OBVIOUS
  <2>2. Len(initialized[g]) - Len(finalized[g]) > 0
    BY DEF Unfinalized
  <2> QED
    BY <1>1, <2>1, <2>2 DEF Unfinalized
<1> QED
  BY <1>1, <1>2 DEF NextToFinalize

LEMMA TypeStep ==
  ASSUME TypeInv, NEW g \in Gens, StepOf(g), SortsExactly(g)
  PROVE  TypeInv'
<1> USE DEF TypeInv, registry, files, scopes
<1>1. CASE LoadNext(g)
  <2>1. Head(entries[g]) \in Plugins /\ Tail(entries[g]) \in Seq(Plugins)
    BY <1>1 DEF LoadNext, RegistryType
  <2>2. Wins(g, Head(entries[g])) \in Plugins \cup {NoPlugin}
    BY <2>1, PluginAssumption DEF Wins, RegistryType
  <2>3. entries' \in [Gens -> Seq(Plugins)]
    BY <1>1, <2>1 DEF LoadNext, RegistryType
  <2>4. registered' \in [Gens -> [Names -> Plugins \cup {NoPlugin}]]
    <3>1. NameOf[Head(entries[g])] \in Names
      BY <2>1, PluginAssumption
    <3>2. registered' = registered \/ registered' =
            [registered EXCEPT ![g][NameOf[Head(entries[g])]] = Wins(g, Head(entries[g]))]
      BY <1>1 DEF LoadNext
    <3>3. [registered[g] EXCEPT ![NameOf[Head(entries[g])]] = Wins(g, Head(entries[g]))]
            \in [Names -> Plugins \cup {NoPlugin}]
      BY <2>2 DEF RegistryType
    <3> QED
      BY <3>2, <3>3 DEF RegistryType
  <2>5. /\ stage' \in [Gens -> Stages] /\ exit' \in [Gens -> SUBSET Causes]
        /\ drawn' \in [Gens -> SUBSET Ends]
    BY <1>1, FailsType, DrawsType DEF LoadNext, ControlType, Causes, Ends
  <2> QED
    BY <1>1, <2>3, <2>4, <2>5 DEF LoadNext, ControlType, RegistryType, ScopeType, FileType
<1>2. CASE LoadSpec(g)
  <2>1. /\ stage' \in [Gens -> Stages] /\ exit' \in [Gens -> SUBSET Causes]
        /\ drawn' \in [Gens -> SUBSET Ends]
    <3>1. PICK end \in Ends :
            /\ Draws(g, end)
            /\ IF end = "ok" THEN Proceed(g, "sort") /\ UNCHANGED exit ELSE FailsWith(g, end)
      BY <1>2 DEF LoadSpec
    <3> QED
      BY <3>1, FailsType, DrawsType DEF ControlType, Proceed, Stages
  <2> QED
    BY <1>2, <2>1 DEF LoadSpec, ControlType, RegistryType, ScopeType, FileType
<1>3. CASE GetAll(g)
  <2>1. stage' \in [Gens -> Stages] /\ exit' \in [Gens -> SUBSET Causes]
    BY <1>3, FailsType DEF GetAll, ControlType, Proceed, Stages, Causes
  <2>2. order' \in [Gens -> Seq(Names)]
    <3>1. CASE order' = order
      BY <3>1 DEF RegistryType
    <3>2. CASE order' # order
      <4>1. stage[g] = "sort" /\ stage'[g] = "initialize"
        BY <1>3, <3>2 DEF GetAll, At, Proceed, ControlType
      <4>2. order'[g] \in Seq(Names)
        BY <4>1 DEF SortsExactly
      <4>3. order' = [order EXCEPT ![g] = order'[g]]
        BY <1>3, <3>2 DEF GetAll, RegistryType
      <4> QED
        BY <4>2, <4>3 DEF RegistryType
    <3> QED
      BY <3>1, <3>2
  <2> QED
    BY <1>3, <2>1, <2>2 DEF GetAll, ControlType, RegistryType, ScopeType, FileType
<1>4. ASSUME Push(g), Turn(g) \in Names
      PROVE  initialized' \in [Gens -> Seq(Names)] /\ next' \in [Gens -> Nat \ {0}]
  <2>1. Append(initialized[g], Turn(g)) \in Seq(Names)
    BY <1>4 DEF RegistryType
  <2> QED
    BY <1>4, <2>1 DEF Push, RegistryType, ControlType
<1>5. CASE InitializePlain(g)
  <2>1. PICK end \in Ends :
          /\ Draws(g, end)
          /\ IF end = "ok" THEN Push(g) /\ UNCHANGED <<exit, stage>>
                           ELSE FailsWith(g, end) /\ UNCHANGED <<initialized, next>>
    BY <1>5 DEF InitializePlain
  <2>2. Turn(g) \in Names
    BY <1>5, TurnType DEF InitializePlain
  <2>3. /\ stage' \in [Gens -> Stages] /\ exit' \in [Gens -> SUBSET Causes]
        /\ drawn' \in [Gens -> SUBSET Ends]
        /\ initialized' \in [Gens -> Seq(Names)] /\ next' \in [Gens -> Nat \ {0}]
    BY <1>4, <2>1, <2>2, FailsType, DrawsType DEF ControlType, RegistryType
  <2> QED
    BY <1>5, <2>3 DEF InitializePlain, ControlType, RegistryType, ScopeType, FileType
<1>6. CASE OpenScope(g)
  <2>1. Turn(g) \in Names
    BY <1>6, TurnType DEF OpenScope
  <2>2. opened' \in [Gens -> [Names -> Nat]]
    BY <1>6, <2>1, ScopeMoves DEF OpenScope, ScopeType
  <2>3. /\ stage' \in [Gens -> Stages] /\ exit' \in [Gens -> SUBSET Causes]
        /\ step' \in [Gens -> Steps]
    BY <1>6, FailsType DEF OpenScope, ControlType, Causes, Steps
  <2> QED
    BY <1>6, <2>2, <2>3 DEF OpenScope, ControlType, RegistryType, ScopeType, FileType
<1>7. ASSUME CloseProvisional(g), Turn(g) \in Names
      PROVE  /\ runtime' \in [Gens -> [Names -> Gens \cup {NoScope}]]
             /\ closed' \in [Gens -> [Names -> Nat]]
  BY <1>7, ScopeMoves DEF CloseProvisional
<1>8. CASE BuildLayer(g) \/ InitializeHook(g)
  <2>1. Turn(g) \in Names
    BY <1>8, TurnType DEF BuildLayer, InitializeHook
  <2>2. PICK end \in Ends :
          /\ Draws(g, end)
          /\ \/ /\ UNCHANGED <<exit, stage, closed>>
                /\ \E s \in Steps : step' = [step EXCEPT ![g] = s]
                /\ UNCHANGED runtime \/ SetCurrent(g, Turn(g), g)
             \/ end # "ok" /\ CloseProvisional(g) /\ FailsWith(g, end) /\ UNCHANGED step
    BY <1>8 DEF BuildLayer, InitializeHook, Steps
  <2>3. /\ stage' \in [Gens -> Stages] /\ exit' \in [Gens -> SUBSET Causes]
        /\ drawn' \in [Gens -> SUBSET Ends] /\ step' \in [Gens -> Steps]
    BY <2>2, FailsType, DrawsType DEF ControlType
  <2>4. /\ runtime' \in [Gens -> [Names -> Gens \cup {NoScope}]]
        /\ closed' \in [Gens -> [Names -> Nat]]
    BY <1>7, <2>1, <2>2, ScopeMoves DEF ScopeType
  <2> QED
    BY <1>8, <2>3, <2>4 DEF BuildLayer, InitializeHook, ControlType, RegistryType, ScopeType, FileType
<1>9. CASE Initialized(g)
  <2>1. Turn(g) \in Names
    BY <1>9, TurnType DEF Initialized
  <2> QED
    BY <1>4, <1>9, <2>1 DEF Initialized, ControlType, RegistryType, ScopeType, FileType, Steps
<1>10. ASSUME NEW end \in Ends, HookEnds(g, end)
       PROVE  /\ stage' \in [Gens -> Stages] /\ exit' \in [Gens -> SUBSET Causes]
              /\ drawn' \in [Gens -> SUBSET Ends] /\ next' \in [Gens -> Nat \ {0}]
  <2>1. next[g] + 1 \in Nat \ {0}
    BY DEF ControlType
  <2>2. next' \in [Gens -> Nat \ {0}]
    BY <1>10, <2>1 DEF HookEnds, ControlType
  <2> QED
    BY <1>10, <2>2, FailsType, DrawsType DEF HookEnds, ControlType
<1>11. ASSUME Flush(g)
       PROVE  pending' \in [Gens -> Nat] /\ logged' \in [Gens -> Nat]
  BY <1>11 DEF Flush, FileType
<1>12. CASE CollectResources(g)
  BY <1>10, <1>12 DEF CollectResources, ControlType, RegistryType, ScopeType, FileType
<1>13. CASE WriteFile(g)
  <2>1. written' \in [Gens -> Nat] /\ pending' \in [Gens -> Nat]
    BY <1>13 DEF WriteFile, FileType
  <2> QED
    BY <1>13, <2>1 DEF WriteFile, ControlType, RegistryType, ScopeType, FileType
<1>14. CASE Generate(g)
  BY <1>10, <1>11, <1>14 DEF Generate, ControlType, RegistryType, ScopeType, FileType
<1>15. CASE GenerateIndex(g)
  <2>1. /\ stage' \in [Gens -> Stages] /\ exit' \in [Gens -> SUBSET Causes]
        /\ drawn' \in [Gens -> SUBSET Ends]
    <3>1. PICK end \in Ends :
            /\ Draws(g, end)
            /\ IF end = "ok" THEN Proceed(g, "finalize") /\ UNCHANGED exit ELSE FailsWith(g, end)
      BY <1>15 DEF GenerateIndex
    <3> QED
      BY <3>1, FailsType, DrawsType DEF ControlType, Proceed, Stages
  <2> QED
    BY <1>11, <1>15, <2>1 DEF GenerateIndex, ControlType, RegistryType, ScopeType, FileType
<1>16. CASE NextStage(g)
  BY <1>16, SMTT(40) DEF NextStage, Proceed, ControlType, RegistryType, ScopeType, FileType, Stages
<1>17. CASE FinalizeNext(g)
  <2> DEFINE n == NextToFinalize(g)
  <2>1. n \in Names
    BY <1>17, FinalizedType DEF FinalizeNext
  <2>2. finalized' \in [Gens -> Seq(Names)]
    <3>1. finalized' = [finalized EXCEPT ![g] = Append(finalized[g], n)]
      BY <1>17 DEF FinalizeNext
    <3> QED
      BY <2>1, <3>1 DEF RegistryType
  <2>3. /\ runtime' \in [Gens -> [Names -> Gens \cup {NoScope}]]
        /\ closed' \in [Gens -> [Names -> Nat]]
    <3>1. \/ UNCHANGED <<runtime, closed>>
          \/ /\ SetCurrent(g, n, NoScope)
             /\ closed' = [closed EXCEPT ![Current(g, n)][n] = @ + 1]
      BY <1>17 DEF FinalizeNext
    <3> QED
      BY <2>1, <3>1, ScopeMoves DEF ScopeType
  <2>4. exit' \in [Gens -> SUBSET Causes] /\ drawn' \in [Gens -> SUBSET Ends]
    <3>1. PICK end \in Ends :
            /\ Draws(g, end)
            /\ exit' = IF end = "die" THEN [exit EXCEPT ![g] = @ \cup {"die"}] ELSE exit
      BY <1>17 DEF FinalizeNext
    <3> QED
      BY <3>1, DrawsType DEF ControlType, Causes
  <2> QED
    BY <1>17, <2>2, <2>3, <2>4 DEF FinalizeNext, ControlType, RegistryType, ScopeType, FileType
<1>18. CASE Finish(g)
  BY <1>18 DEF Finish, Proceed, ControlType, RegistryType, ScopeType, FileType, Stages
<1>19. CASE Interrupt(g)
  BY <1>19 DEF Interrupt, ControlType, RegistryType, ScopeType, FileType
<1>20. CASE TakeInterrupt(g)
  <2>1. stage' \in [Gens -> Stages] /\ exit' \in [Gens -> SUBSET Causes]
    BY <1>20, FailsType DEF TakeInterrupt, Causes
  <2>2. /\ runtime' \in [Gens -> [Names -> Gens \cup {NoScope}]]
        /\ closed' \in [Gens -> [Names -> Nat]]
    <3>1. CASE UNCHANGED <<closed, runtime>>
      BY <3>1 DEF ScopeType
    <3>2. CASE CloseProvisional(g) /\ Turn(g) \in Names
      BY <1>7, <3>2
    <3>3. CASE CloseProvisional(g) /\ Turn(g) \notin Names
      BY <3>3 DEF CloseProvisional, SetCurrent, Slot, ScopeType
    <3> QED
      BY <1>20, <3>1, <3>2, <3>3 DEF TakeInterrupt
  <2> QED
    BY <1>11, <1>20, <2>1, <2>2 DEF TakeInterrupt, ControlType, RegistryType, ScopeType, FileType
<1> QED
  BY <1>1, <1>2, <1>3, <1>5, <1>6, <1>8, <1>9, <1>12, <1>13, <1>14, <1>15, <1>16, <1>17, <1>18,
     <1>19, <1>20 DEF StepOf

-----------------------------------------------------------------------------
(* The other generations are not disturbed.                                *)

Untouched(h) ==
  /\ stage'[h] = stage[h] /\ step'[h] = step[h] /\ entries'[h] = entries[h]
  /\ registered'[h] = registered[h] /\ order'[h] = order[h] /\ next'[h] = next[h]
  /\ initialized'[h] = initialized[h] /\ runtime'[h] = runtime[h] /\ opened'[h] = opened[h]
  /\ closed'[h] = closed[h] /\ finalized'[h] = finalized[h]
  /\ interrupted'[h] = interrupted[h] /\ exit'[h] = exit[h] /\ drawn'[h] = drawn[h]
  /\ written'[h] = written[h] /\ pending'[h] = pending[h] /\ logged'[h] = logged[h]

LEMMA Frame ==
  ASSUME IInv, NEW g \in Gens, StepOf(g), NEW h \in Gens \ {g}
  PROVE  Untouched(h) /\ scenario' = scenario
<1> USE DEF registry, files, scopes
<1> TypeInv /\ ControlType /\ RegistryType /\ ScopeType /\ FileType
  BY DEF IInv, TypeInv
<1>1. stage'[h] = stage[h]
  BY StageMoves DEF ControlType
<1>2. CASE LoadNext(g) \/ LoadSpec(g) \/ GetAll(g)
  <2>1. /\ scenario' = scenario /\ step' = step /\ next' = next /\ initialized' = initialized
        /\ runtime' = runtime /\ opened' = opened /\ closed' = closed /\ finalized' = finalized
        /\ interrupted' = interrupted /\ UNCHANGED files
    BY <1>2 DEF LoadNext, LoadSpec, GetAll
  <2>2. /\ exit'[h] = exit[h] /\ drawn'[h] = drawn[h] /\ entries'[h] = entries[h]
        /\ registered'[h] = registered[h] /\ order'[h] = order[h]
    BY <1>2 DEF LoadNext, LoadSpec, GetAll, FailsWith, Draws, ControlType, RegistryType
  <2> QED
    BY <1>1, <2>1, <2>2 DEF Untouched
<1>3. CASE InitializePlain(g) \/ OpenScope(g) \/ BuildLayer(g) \/ InitializeHook(g) \/ Initialized(g)
  <2>1. scenario' = scenario /\ UNCHANGED <<registry, finalized, interrupted, files>>
    BY <1>3 DEF InitializePlain, OpenScope, BuildLayer, InitializeHook, Initialized
  <2>2. /\ exit'[h] = exit[h] /\ drawn'[h] = drawn[h] /\ step'[h] = step[h]
        /\ next'[h] = next[h] /\ initialized'[h] = initialized[h]
    BY <1>3 DEF InitializePlain, OpenScope, BuildLayer, InitializeHook, Initialized, Push,
                FailsWith, Draws, ControlType, RegistryType
  <2>3. runtime'[h] = runtime[h] /\ opened'[h] = opened[h] /\ closed'[h] = closed[h]
    BY <1>3 DEF InitializePlain, OpenScope, BuildLayer, InitializeHook, Initialized,
                CloseProvisional, SetCurrent, Slot, ScopeType
  <2> QED
    BY <1>1, <2>1, <2>2, <2>3 DEF Untouched
<1>4. CASE CollectResources(g) \/ WriteFile(g) \/ Generate(g) \/ GenerateIndex(g) \/ NextStage(g)
  <2>1. /\ scenario' = scenario
        /\ UNCHANGED <<step, registry, initialized, scopes, finalized, interrupted>>
    BY <1>4 DEF CollectResources, WriteFile, Generate, GenerateIndex, NextStage
  <2>2. /\ exit'[h] = exit[h] /\ drawn'[h] = drawn[h] /\ next'[h] = next[h]
        /\ written'[h] = written[h] /\ pending'[h] = pending[h] /\ logged'[h] = logged[h]
    BY <1>4 DEF CollectResources, WriteFile, Generate, GenerateIndex, NextStage, HookEnds, Flush,
                FailsWith, Draws, ControlType, FileType
  <2> QED
    BY <1>1, <2>1, <2>2 DEF Untouched
<1>5. CASE FinalizeNext(g)
  <2> DEFINE n == NextToFinalize(g)
  <2>1. /\ scenario' = scenario
        /\ UNCHANGED <<step, registry, next, initialized, opened, interrupted, files>>
    BY <1>5 DEF FinalizeNext
  <2>2. exit'[h] = exit[h] /\ drawn'[h] = drawn[h] /\ finalized'[h] = finalized[h]
    BY <1>5 DEF FinalizeNext, Draws, ControlType, RegistryType
  <2>3. n \in Names /\ Current(g, n) \in {g, NoScope}
    BY <1>5, FinalizedType DEF FinalizeNext, IInv, GenInv, ScopeInv
  <2>4. \/ UNCHANGED <<runtime, closed>>
        \/ /\ Current(g, n) # NoScope
           /\ SetCurrent(g, n, NoScope)
           /\ closed' = [closed EXCEPT ![Current(g, n)][n] = @ + 1]
    BY <1>5 DEF FinalizeNext
  <2>5. runtime'[h] = runtime[h] /\ closed'[h] = closed[h]
    BY <2>3, <2>4 DEF SetCurrent, Slot, ScopeType
  <2> QED
    BY <1>1, <2>1, <2>2, <2>5 DEF Untouched
<1>6. CASE Finish(g) \/ Interrupt(g) \/ TakeInterrupt(g)
  <2>1. /\ scenario' = scenario
        /\ UNCHANGED <<step, registry, next, initialized, opened, finalized, drawn, written>>
    BY <1>6 DEF Finish, Interrupt, TakeInterrupt
  <2>2. /\ exit'[h] = exit[h] /\ interrupted'[h] = interrupted[h]
        /\ runtime'[h] = runtime[h] /\ closed'[h] = closed[h]
        /\ pending'[h] = pending[h] /\ logged'[h] = logged[h]
    BY <1>6 DEF Finish, Interrupt, TakeInterrupt, FailsWith, CloseProvisional, SetCurrent, Slot,
                Flush, ControlType, ScopeType, FileType
  <2> QED
    BY <1>1, <2>1, <2>2 DEF Untouched
<1> QED
  BY <1>2, <1>3, <1>4, <1>5, <1>6 DEF StepOf

LEMMA OtherGens ==
  ASSUME IInv, NEW g \in Gens, StepOf(g), NEW h \in Gens \ {g}
  PROVE  GenInv(h)'
<1>1. Untouched(h) /\ scenario' = scenario
  BY Frame
<1>2. SequenceInv(h) /\ ScopeInv(h) /\ DefectInv(h) /\ FilesInv(h)
  BY DEF IInv, GenInv
<1>3. SequenceInv(h)'
  BY <1>1, <1>2 DEF Untouched, SequenceInv
<1>4. ScopeInv(h)'
  <2>1. /\ InTransaction(h)' <=> InTransaction(h)
        /\ Turn(h)' = Turn(h)
        /\ Unfinalized(h)' = Unfinalized(h)
        /\ \A n : Current(h, n)' = Current(h, n) /\ (IsScoped(h, n)' <=> IsScoped(h, n))
    BY <1>1 DEF Untouched, InTransaction, Turn, Unfinalized, Current, Slot, IsScoped
  <2>2. \A n : /\ HasOwner(h, n)' <=> HasOwner(h, n)
               /\ BeingBuilt(h, n)' <=> BeingBuilt(h, n)
    BY <1>1, <2>1 DEF Untouched, HasOwner, BeingBuilt
  <2> QED
    BY <1>1, <1>2, <2>1, <2>2 DEF Untouched, ScopeInv
<1>5. DefectInv(h)' /\ FilesInv(h)'
  BY <1>1, <1>2 DEF Untouched, DefectInv, FilesInv
<1> QED
  BY <1>3, <1>4, <1>5 DEF GenInv

-----------------------------------------------------------------------------
(* The order of initialization and finalization                            *)

LEMMA SequenceKept ==
  ASSUME NEW g \in Gens, SequenceInv(g), UNCHANGED <<scenario, order, initialized, finalized>>,
         stage'[g] \in {"load", "sort"} => initialized[g] = << >> /\ next'[g] = 1,
         stage'[g] = "initialize" => next'[g] = Len(initialized[g]) + 1,
         stage'[g] \notin {"finalize", "done"} => finalized[g] = << >>,
         stage'[g] = "done" => Len(finalized[g]) = Len(initialized[g])
  PROVE  SequenceInv(g)'
  BY DEF SequenceInv

\* Where a generation goes when it neither initializes nor finalizes a plugin
Onwards(g) ==
  \/ stage'[g] = stage[g] /\ (next'[g] = next[g] \/ stage[g] \in {"collect", "generate"})
  \/ stage[g] \in {"load", "sort"} /\ stage'[g] \in {"sort", "done"} /\ next'[g] = next[g]
  \/ /\ stage[g] \in {"initialize", "collect", "generate", "index"}
     /\ stage'[g] \in {"collect", "generate", "index", "finalize"}
  \/ stage[g] = "finalize" /\ stage'[g] = "done" /\ Unfinalized(g) = 0

LEMMA OnwardsKeeps ==
  ASSUME TypeInv, NEW g \in Gens, SequenceInv(g), Onwards(g),
         UNCHANGED <<scenario, order, initialized, finalized>>
  PROVE  SequenceInv(g)'
<1>1. /\ stage[g] \in {"load", "sort"} => initialized[g] = << >> /\ next[g] = 1
      /\ stage[g] = "initialize" => next[g] = Len(initialized[g]) + 1
      /\ stage[g] \notin {"finalize", "done"} => finalized[g] = << >>
      /\ stage[g] = "done" => Len(finalized[g]) = Len(initialized[g])
  BY DEF SequenceInv
<1>2. Unfinalized(g) = 0 => Len(finalized[g]) = Len(initialized[g])
  <2>1. Len(finalized[g]) \in Nat /\ Len(initialized[g]) \in Nat
    BY DEF TypeInv, RegistryType
  <2>2. \A m, k \in Nat : m - k = 0 => k = m
    OBVIOUS
  <2> QED
    BY <2>1, <2>2 DEF Unfinalized
<1>3. stage'[g] = "done" => Len(finalized[g]) = Len(initialized[g])
  BY <1>1, <1>2 DEF Onwards
<1> QED
  BY <1>1, <1>3, SequenceKept DEF Onwards

\* The plugin in turn is initialized: the beginning of the order grows by one.
LEMMA PushKeeps ==
  ASSUME TypeInv, NEW g \in Gens, SequenceInv(g), InTurn(g, "initialize"), Push(g),
         UNCHANGED <<scenario, order, finalized, stage>>
  PROVE  SequenceInv(g)'
<1> DEFINE k == Len(initialized[g])
<1>1. /\ stage[g] = "initialize" /\ next[g] = k + 1 /\ next[g] <= Len(order[g])
      /\ finalized[g] = << >>
  BY DEF InTurn, At, SequenceInv
<1>2. initialized[g] \in Seq(Names) /\ k \in Nat /\ Turn(g) \in Names
  BY TurnType DEF TypeInv, RegistryType
<1>3. initialized'[g] = Append(initialized[g], Turn(g)) /\ next'[g] = next[g] + 1
  BY DEF Push, TypeInv, RegistryType, ControlType
<1>4. Len(initialized'[g]) = k + 1
  BY <1>2, <1>3
<1>5. ASSUME NEW i \in 1 .. Len(initialized'[g])
      PROVE  initialized'[g][i] = order[g][i]
  <2>1. CASE i = k + 1
    BY <1>1, <1>2, <1>3, <2>1 DEF Turn
  <2>2. CASE i \in 1 .. k
    BY <1>2, <1>3, <2>2 DEF SequenceInv
  <2> QED
    BY <1>2, <1>4, <2>1, <2>2
<1>6. Len(finalized'[g]) = 0
  BY <1>1
<1> QED
  BY <1>1, <1>2, <1>3, <1>4, <1>5, <1>6 DEF SequenceInv

LEMMA FinalizeKeeps ==
  ASSUME TypeInv, NEW g \in Gens, SequenceInv(g), FinalizeNext(g)
  PROVE  SequenceInv(g)'
<1> DEFINE k == Len(initialized[g])
           f == Len(finalized[g])
<1>1. /\ stage[g] = "finalize" /\ Unfinalized(g) > 0
      /\ UNCHANGED <<scenario, stage, order, next, initialized>>
  BY DEF FinalizeNext, registry
<1>2. /\ initialized[g] \in Seq(Names) /\ finalized[g] \in Seq(Names) /\ k \in Nat /\ f \in Nat
      /\ NextToFinalize(g) \in Names
  BY <1>1, FinalizedType DEF TypeInv, RegistryType
<1>3. finalized' = [finalized EXCEPT ![g] = Append(finalized[g], NextToFinalize(g))]
  BY DEF FinalizeNext
<1>4. finalized'[g] = Append(finalized[g], NextToFinalize(g))
  BY <1>3 DEF TypeInv, RegistryType
<1>5. Len(finalized'[g]) = f + 1
  BY <1>2, <1>4
<1>6. k - f > 0 /\ NextToFinalize(g) = initialized[g][k - f]
  BY <1>1 DEF NextToFinalize, Unfinalized
<1>7. f + 1 <= k /\ k - (f + 1) + 1 = k - f
  <2>1. \A m, j \in Nat : m - j > 0 => j + 1 <= m /\ m - (j + 1) + 1 = m - j
    OBVIOUS
  <2> QED
    BY <1>2, <1>6, <2>1
<1>8. ASSUME NEW i \in 1 .. Len(finalized'[g])
      PROVE  finalized'[g][i] = initialized[g][k - i + 1]
  <2>1. CASE i = f + 1
    <3>1. finalized'[g][i] = NextToFinalize(g)
      BY <1>2, <1>4, <2>1
    <3> QED
      BY <1>6, <1>7, <2>1, <3>1
  <2>2. CASE i \in 1 .. f
    <3>1. finalized'[g][i] = finalized[g][i]
      BY <1>2, <1>4, <2>2
    <3> QED
      BY <2>2, <3>1 DEF SequenceInv
  <2> QED
    BY <1>2, <1>5, <2>1, <2>2
<1> QED
  BY <1>1, <1>5, <1>7, <1>8 DEF SequenceInv

LEMMA SequenceStep ==
  ASSUME IInv, NEW g \in Gens, StepOf(g), SortsExactly(g)
  PROVE  SequenceInv(g)'
<1> USE DEF registry
<1> TypeInv /\ SequenceInv(g) /\ ControlType
  BY DEF IInv, GenInv, TypeInv
<1>1. ASSUME NEW cause, FailsWith(g, cause)
      PROVE  stage'[g] = IF stage[g] \in {"load", "sort"} THEN "done" ELSE "finalize"
  BY <1>1 DEF FailsWith, Proceed, ControlType
<1>2. ASSUME NEW s, Proceed(g, s)
      PROVE  stage'[g] = s
  BY <1>2 DEF Proceed, ControlType
<1>3. CASE LoadNext(g) \/ LoadSpec(g)
  <2>1. UNCHANGED <<scenario, order, initialized, finalized, next>> /\ stage[g] = "load"
    BY <1>3 DEF LoadNext, LoadSpec, At
  <2>2. stage'[g] \in {"load", "sort", "done"}
    BY <1>1, <1>2, <1>3, <2>1 DEF LoadNext, LoadSpec
  <2> QED
    BY <2>1, <2>2, OnwardsKeeps DEF Onwards
<1>4. CASE GetAll(g)
  <2>1. stage[g] = "sort" /\ UNCHANGED <<scenario, next, initialized, finalized>>
    BY <1>4 DEF GetAll, At
  <2>2. CASE order' = order /\ stage'[g] = "done"
    BY <2>1, <2>2, OnwardsKeeps DEF Onwards
  <2>3. CASE stage'[g] = "initialize"
    <3>1. IsInjective(order'[g]) /\ DependenciesFirst(order'[g], scenario.depends)
          /\ order'[g] \in Seq(Names)
      BY <2>1, <2>3 DEF SortsExactly
    <3>2. initialized[g] = << >> /\ finalized[g] = << >> /\ next[g] = 1
      BY <2>1 DEF SequenceInv
    <3>3. Len(order'[g]) \in Nat
      BY <3>1
    <3>4. Len(initialized[g]) = 0 /\ Len(finalized[g]) = 0
      BY <3>2
    <3> QED
      BY <2>1, <2>3, <3>1, <3>2, <3>3, <3>4 DEF SequenceInv
  <2> QED
    BY <1>1, <1>2, <1>4, <2>1, <2>2, <2>3 DEF GetAll
<1>5. CASE InitializePlain(g) \/ Initialized(g)
  <2>1. InTurn(g, "initialize") /\ UNCHANGED <<scenario, order, finalized>>
    BY <1>5 DEF InitializePlain, Initialized
  <2>2. CASE Push(g) /\ UNCHANGED stage
    BY <2>1, <2>2, PushKeeps
  <2>3. CASE UNCHANGED initialized /\ stage'[g] = "finalize"
    BY <2>1, <2>3, OnwardsKeeps DEF Onwards, InTurn, At
  <2> QED
    BY <1>1, <1>5, <2>1, <2>2, <2>3 DEF InitializePlain, Initialized, InTurn, At
<1>6. CASE OpenScope(g) \/ BuildLayer(g) \/ InitializeHook(g)
  <2>1. /\ stage[g] = "initialize"
        /\ UNCHANGED <<scenario, order, initialized, finalized, next>>
    BY <1>6 DEF OpenScope, BuildLayer, InitializeHook, InTurn, At
  <2>2. stage'[g] \in {"initialize", "finalize"}
    BY <1>1, <1>6, <2>1 DEF OpenScope, BuildLayer, InitializeHook
  <2> QED
    BY <2>1, <2>2, OnwardsKeeps DEF Onwards
<1>7. CASE CollectResources(g) \/ Generate(g)
  <2>1. /\ stage[g] \in {"collect", "generate"}
        /\ UNCHANGED <<scenario, order, initialized, finalized>>
    BY <1>7 DEF CollectResources, Generate, InTurn, At
  <2>2. stage'[g] \in {stage[g], "finalize"}
    BY <1>1, <1>7, <2>1 DEF CollectResources, Generate, HookEnds
  <2> QED
    BY <2>1, <2>2, OnwardsKeeps DEF Onwards
<1>8. CASE WriteFile(g) \/ Interrupt(g)
  <2>1. UNCHANGED <<scenario, order, initialized, finalized, next, stage>>
    BY <1>8 DEF WriteFile, Interrupt
  <2> QED
    BY <2>1, OnwardsKeeps DEF Onwards
<1>9. CASE GenerateIndex(g)
  <2>1. stage[g] = "index" /\ UNCHANGED <<scenario, order, initialized, finalized, next>>
    BY <1>9 DEF GenerateIndex, At
  <2>2. stage'[g] = "finalize"
    BY <1>1, <1>2, <1>9, <2>1 DEF GenerateIndex
  <2> QED
    BY <2>1, <2>2, OnwardsKeeps DEF Onwards
<1>10. CASE NextStage(g)
  <2>1. /\ stage[g] \in {"initialize", "collect", "generate"}
        /\ UNCHANGED <<scenario, order, initialized, finalized>>
    BY <1>10 DEF NextStage, AllDone, At
  <2>2. stage'[g] \in {"collect", "generate", "index"}
    BY <1>2, <1>10 DEF NextStage
  <2> QED
    BY <2>1, <2>2, OnwardsKeeps DEF Onwards
<1>11. CASE FinalizeNext(g)
  BY <1>11, FinalizeKeeps
<1>12. CASE Finish(g)
  <2>1. /\ stage[g] = "finalize" /\ Unfinalized(g) = 0
        /\ UNCHANGED <<scenario, order, initialized, finalized>>
    BY <1>12 DEF Finish
  <2>2. stage'[g] = "done"
    BY <1>2, <1>12 DEF Finish
  <2> QED
    BY <2>1, <2>2, OnwardsKeeps DEF Onwards
<1>13. CASE TakeInterrupt(g)
  <2>1. /\ stage[g] \notin {"finalize", "done"} /\ stage[g] \in Stages
        /\ UNCHANGED <<scenario, order, initialized, finalized, next>>
    BY <1>13 DEF TakeInterrupt, ControlType
  <2>2. stage'[g] = IF stage[g] \in {"load", "sort"} THEN "done" ELSE "finalize"
    BY <1>1, <1>13 DEF TakeInterrupt
  <2> QED
    BY <2>1, <2>2, OnwardsKeeps DEF Onwards, Stages
<1> QED
  BY <1>3, <1>4, <1>5, <1>6, <1>7, <1>8, <1>9, <1>10, <1>11, <1>12, <1>13 DEF StepOf

-----------------------------------------------------------------------------
(* Who holds a Scope                                                       *)

\* A plugin is initialized once, so its FiberRef is empty when its turn comes.
LEMMA FreshScope ==
  ASSUME TypeInv, NEW g \in Gens, SequenceInv(g), ScopeInv(g), InTurn(g, "initialize"),
         step[g] = "open"
  PROVE  Current(g, Turn(g)) = NoScope
<1> DEFINE k == Len(initialized[g])
<1>1. /\ stage[g] = "initialize" /\ next[g] = k + 1 /\ next[g] <= Len(order[g])
      /\ finalized[g] = << >>
  BY DEF InTurn, At, SequenceInv
<1>2. k \in Nat /\ Turn(g) \in Names /\ order[g] \in Seq(Names)
  BY TurnType DEF TypeInv, RegistryType
<1>3. Unfinalized(g) = k
  BY <1>1, <1>2 DEF Unfinalized
<1>4. ASSUME Current(g, Turn(g)) = g PROVE FALSE
  <2>1. HasOwner(g, Turn(g))
    BY <1>2, <1>4 DEF ScopeInv
  <2>2. PICK i \in 1 .. k : initialized[g][i] = Turn(g)
    BY <1>1, <1>3, <2>1 DEF HasOwner, InTransaction
  <2>3. order[g][i] = order[g][next[g]]
    BY <2>2 DEF SequenceInv, Turn
  <2>4. i \in DOMAIN order[g] /\ next[g] \in DOMAIN order[g] /\ i # next[g]
    BY <1>1, <1>2, <2>2
  <2> QED
    BY <2>3, <2>4 DEF SequenceInv, IsInjective
<1> QED
  BY <1>2, <1>4 DEF ScopeInv

LEMMA NothingHeld ==
  ASSUME TypeInv, NEW g \in Gens, SequenceInv(g), ScopeInv(g), stage[g] \in {"load", "sort"}
  PROVE  \A n \in Names : Current(g, n) # g
<1>1. Len(initialized[g]) = 0 /\ Len(finalized[g]) = 0
  BY DEF SequenceInv
<1>2. Unfinalized(g) = 0
  BY <1>1 DEF Unfinalized
<1>3. ASSUME NEW n \in Names PROVE ~HasOwner(g, n)
  BY <1>2 DEF HasOwner, InTransaction
<1> QED
  BY <1>3 DEF ScopeInv

\* Outside of a scope transaction, a step that leaves the Scopes alone
LEMMA ScopesKept ==
  ASSUME NEW g \in Gens, ScopeInv(g), ~InTransaction(g),
         UNCHANGED <<scopes, registered, step, initialized, finalized>>,
         stage'[g] \in {"load", "sort", "initialize"} => stage'[g] = stage[g] \/ step[g] = "open",
         stage[g] \in {"finalize", "done"} => stage'[g] \in {"finalize", "done"}
  PROVE  ScopeInv(g)'
<1>1. ~InTransaction(g)'
  BY DEF InTransaction
<1>2. \A n : Current(g, n)' = Current(g, n) /\ (IsScoped(g, n)' <=> IsScoped(g, n))
  BY DEF scopes, Current, Slot, IsScoped
<1>3. \A n : HasOwner(g, n) => HasOwner(g, n)'
  BY DEF HasOwner, Unfinalized
<1>4. \A n : ~BeingBuilt(g, n)' /\ ~BeingBuilt(g, n)
  BY <1>1 DEF BeingBuilt
<1>5. stage'[g] \in {"load", "sort"} => step'[g] = "open"
  BY DEF ScopeInv
<1> QED
  BY <1>1, <1>2, <1>3, <1>4, <1>5 DEF ScopeInv, scopes

\* The plugin in turn is initialized: from here on its finalization owns the Scope.
LEMMA PushOwns ==
  ASSUME TypeInv, NEW g \in Gens, SequenceInv(g), ScopeInv(g), InTurn(g, "initialize"), Push(g),
         step[g] # "build", step'[g] = "open",
         UNCHANGED <<scopes, registered, stage, finalized>>
  PROVE  ScopeInv(g)'
<1> DEFINE k == Len(initialized[g])
<1>1. /\ stage[g] = "initialize" /\ finalized[g] = << >> /\ stage'[g] = "initialize"
  BY DEF InTurn, At, SequenceInv
<1>2. initialized[g] \in Seq(Names) /\ k \in Nat /\ Turn(g) \in Names
  BY TurnType DEF TypeInv, RegistryType
<1>3. initialized'[g] = Append(initialized[g], Turn(g))
  BY DEF Push, TypeInv, RegistryType
<1>4. Unfinalized(g) = k /\ Unfinalized(g)' = k + 1
  BY <1>1, <1>2, <1>3 DEF Unfinalized
<1>5. ASSUME NEW n \in Names, HasOwner(g, n)
      PROVE  HasOwner(g, n)'
  <2>1. CASE n = Turn(g)
    <3>1. k + 1 \in 1 .. k + 1 /\ initialized'[g][k + 1] = n
      BY <1>2, <1>3, <2>1
    <3> QED
      BY <1>4, <3>1 DEF HasOwner
  <2>2. CASE n # Turn(g)
    <3>1. PICK i \in 1 .. k : initialized[g][i] = n
      BY <1>1, <1>4, <1>5, <2>2 DEF HasOwner
    <3>2. i \in 1 .. k + 1 /\ initialized'[g][i] = n
      BY <1>2, <1>3, <3>1
    <3> QED
      BY <1>4, <3>2 DEF HasOwner
  <2> QED
    BY <2>1, <2>2
<1>6. \A n : Current(g, n)' = Current(g, n) /\ (IsScoped(g, n)' <=> IsScoped(g, n))
  BY DEF scopes, Current, Slot, IsScoped
<1>7. ~InTransaction(g)' /\ \A n : ~BeingBuilt(g, n)' /\ ~BeingBuilt(g, n)
  BY DEF InTransaction, BeingBuilt
<1> QED
  BY <1>1, <1>5, <1>6, <1>7 DEF ScopeInv, scopes

\* The release of a transaction that did not succeed closes what it opened.
LEMMA ProvisionalCloses ==
  ASSUME TypeInv, NEW g \in Gens, ScopeInv(g), InTransaction(g), step[g] \in {"build", "hook"},
         Turn(g) \in Names, CloseProvisional(g), stage'[g] = "finalize",
         UNCHANGED <<opened, registered, initialized, finalized>>
  PROVE  ScopeInv(g)'
<1>0. PICK t \in Names : t = Turn(g)
  OBVIOUS
<1> g # NoScope
  BY PluginAssumption
<1>1. /\ \A n \in Names \ {t} : Current(g, n)' = Current(g, n)
      /\ Current(g, t)' = NoScope
  <2>1. runtime'[g] = [runtime[g] EXCEPT ![t] = NoScope]
    BY <1>0 DEF CloseProvisional, SetCurrent, Slot, TypeInv, ScopeType
  <2>2. runtime[g] \in [Names -> Gens \cup {NoScope}]
    BY DEF TypeInv, ScopeType
  <2> QED
    BY <2>1, <2>2 DEF Current, Slot
<1>2. /\ \A n \in Names \ {t} : closed'[g][n] = closed[g][n]
      /\ closed'[g][t] = closed[g][t] + 1
  BY <1>0 DEF CloseProvisional, TypeInv, ScopeType
<1>3. ~InTransaction(g)' /\ \A n : ~BeingBuilt(g, n)'
  BY DEF InTransaction, BeingBuilt
<1>4. opened[g][t] = closed[g][t] + 1
  <2>1. Current(g, t) = g \/ BeingBuilt(g, t)
    BY <1>0 DEF ScopeInv, BeingBuilt
  <2> QED
    BY <2>1 DEF ScopeInv
<1>5. \A n \in Names \ {t} : ~BeingBuilt(g, n)
  BY <1>0 DEF BeingBuilt
<1>6. ASSUME NEW n \in Names \ {t}, HasOwner(g, n)
      PROVE  HasOwner(g, n)'
  BY <1>0, <1>6 DEF HasOwner, Unfinalized, InTransaction
<1>7. opened'[g][t] = closed'[g][t] + IF Current(g, t)' = g \/ BeingBuilt(g, t)' THEN 1 ELSE 0
  <2>1. closed'[g][t] + 0 = closed'[g][t]
    BY <1>2 DEF TypeInv, ScopeType
  <2> QED
    BY <1>1, <1>2, <1>3, <1>4, <2>1
<1>8. ASSUME NEW n \in Names \ {t}
      PROVE  /\ Current(g, n)' \in {g, NoScope}
             /\ Current(g, n)' = g => IsScoped(g, n)' /\ HasOwner(g, n)'
             /\ opened'[g][n] =
                  closed'[g][n] + IF Current(g, n)' = g \/ BeingBuilt(g, n)' THEN 1 ELSE 0
  <2>1. IsScoped(g, n)' <=> IsScoped(g, n)
    BY DEF IsScoped
  <2> QED
    BY <1>1, <1>2, <1>3, <1>5, <1>6, <2>1 DEF ScopeInv
<1>9. ASSUME NEW n \in Names
      PROVE  /\ Current(g, n)' \in {g, NoScope}
             /\ Current(g, n)' = g => IsScoped(g, n)' /\ HasOwner(g, n)'
             /\ opened'[g][n] =
                  closed'[g][n] + IF Current(g, n)' = g \/ BeingBuilt(g, n)' THEN 1 ELSE 0
  <2>1. CASE n = t
    BY <1>1, <1>7, <2>1
  <2>2. CASE n # t
    BY <1>8, <2>2
  <2> QED
    BY <2>1, <2>2
<1> QED
  BY <1>3, <1>9 DEF ScopeInv

\* A finalizer closes the Scope of its plugin, if the FiberRef still holds it.
LEMMA FinalizeCloses ==
  ASSUME TypeInv, NEW g \in Gens, ScopeInv(g), FinalizeNext(g), g # NoScope
  PROVE  ScopeInv(g)'
<1>0. PICK t \in Names : t = NextToFinalize(g)
  BY FinalizedType DEF FinalizeNext
<1>1. /\ stage[g] = "finalize" /\ Unfinalized(g) > 0
      /\ UNCHANGED <<scenario, stage, step, registry, next, initialized, opened, interrupted>>
      /\ finalized' = [finalized EXCEPT ![g] = Append(finalized[g], t)]
      /\ IF IsScoped(g, t) /\ Current(g, t) # NoScope
           THEN /\ SetCurrent(g, t, NoScope)
                /\ closed' = [closed EXCEPT ![Current(g, t)][t] = @ + 1]
           ELSE UNCHANGED <<runtime, closed>>
  BY <1>0 DEF FinalizeNext
<1>2. ~InTransaction(g)' /\ \A n : ~BeingBuilt(g, n)' /\ ~BeingBuilt(g, n)
  BY <1>1 DEF InTransaction, BeingBuilt
<1>3. Unfinalized(g)' = Unfinalized(g) - 1 /\ Unfinalized(g) \in Nat
  <2>1. /\ initialized[g] \in Seq(Names) /\ finalized[g] \in Seq(Names)
        /\ Len(finalized[g]) \in Nat /\ Len(initialized[g]) \in Nat
    BY DEF TypeInv, RegistryType
  <2>2. finalized'[g] = Append(finalized[g], t)
    BY <1>1 DEF TypeInv, RegistryType
  <2>3. Len(finalized'[g]) = Len(finalized[g]) + 1
    BY <2>1, <2>2
  <2>4. \A m, j \in Nat : m - j > 0 => m - (j + 1) = (m - j) - 1 /\ m - j \in Nat
    OBVIOUS
  <2> QED
    BY <1>1, <2>1, <2>3, <2>4 DEF Unfinalized
<1>4. ASSUME NEW n \in Names, n # t, HasOwner(g, n)
      PROVE  HasOwner(g, n)'
  <2>1. CASE \E i \in 1 .. Unfinalized(g) : initialized[g][i] = n
    <3>1. PICK i \in 1 .. Unfinalized(g) : initialized[g][i] = n
      BY <2>1
    <3>2. i # Unfinalized(g)
      BY <1>0, <1>4, <3>1 DEF NextToFinalize
    <3>3. \A m \in Nat : \A j \in 1 .. m : j # m => j \in 1 .. m - 1
      OBVIOUS
    <3>4. i \in 1 .. Unfinalized(g)'
      BY <1>3, <3>2, <3>3
    <3> QED
      BY <1>1, <3>1, <3>4 DEF HasOwner
  <2> QED
    BY <1>1, <1>4, <2>1 DEF HasOwner, InTransaction
<1>5. \A n : IsScoped(g, n)' <=> IsScoped(g, n)
  BY <1>1 DEF IsScoped, registry
<1>6. CASE Current(g, t) = g
  <2>1. IsScoped(g, t) /\ opened[g][t] = closed[g][t] + 1
    BY <1>6 DEF ScopeInv
  <2>2. /\ runtime' = [runtime EXCEPT ![g][t] = NoScope]
        /\ closed' = [closed EXCEPT ![g][t] = @ + 1]
    BY <1>1, <1>6, <2>1 DEF SetCurrent, Slot
  <2>3. /\ \A n \in Names \ {t} : Current(g, n)' = Current(g, n)
        /\ Current(g, t)' = NoScope
    <3>1. runtime'[g] = [runtime[g] EXCEPT ![t] = NoScope]
      BY <2>2 DEF TypeInv, ScopeType
    <3>2. runtime[g] \in [Names -> Gens \cup {NoScope}]
      BY DEF TypeInv, ScopeType
    <3> QED
      BY <3>1, <3>2 DEF Current, Slot
  <2>4. /\ \A n \in Names \ {t} : closed'[g][n] = closed[g][n]
        /\ closed'[g][t] = closed[g][t] + 1 /\ closed'[g][t] + 0 = closed'[g][t]
    BY <2>2 DEF TypeInv, ScopeType
  <2>5. ASSUME NEW n \in Names
        PROVE  /\ Current(g, n)' \in {g, NoScope}
               /\ Current(g, n)' = g => IsScoped(g, n)' /\ HasOwner(g, n)'
               /\ opened'[g][n] =
                    closed'[g][n] + IF Current(g, n)' = g \/ BeingBuilt(g, n)' THEN 1 ELSE 0
    <3>1. CASE n = t
      BY <1>1, <1>2, <2>1, <2>3, <2>4, <3>1
    <3>2. CASE n # t
      BY <1>1, <1>2, <1>4, <1>5, <2>3, <2>4, <3>2 DEF ScopeInv
    <3> QED
      BY <3>1, <3>2
  <2> QED
    BY <1>1, <1>2, <2>5 DEF ScopeInv
<1>7. CASE Current(g, t) # g
  <2>1. UNCHANGED <<runtime, closed>>
    BY <1>1, <1>7 DEF ScopeInv
  <2>2. \A n : Current(g, n)' = Current(g, n)
    BY <2>1 DEF Current, Slot
  <2>3. ASSUME NEW n \in Names, Current(g, n) = g
        PROVE  HasOwner(g, n)'
    BY <1>4, <1>7, <2>3 DEF ScopeInv
  <2> QED
    BY <1>1, <1>2, <1>5, <2>1, <2>2, <2>3 DEF ScopeInv
<1> QED
  BY <1>6, <1>7

\* The two halves of a transaction: a Scope is made, and becomes the runtime.
LEMMA OpenKeeps ==
  ASSUME TypeInv, NEW g \in Gens, SequenceInv(g), ScopeInv(g), OpenScope(g)
  PROVE  ScopeInv(g)'
<1>0. PICK t \in Names : t = Turn(g)
  BY TurnType DEF OpenScope
<1>1. /\ InTurn(g, "initialize") /\ stage[g] = "initialize" /\ step[g] = "open"
      /\ next[g] <= Len(order[g]) /\ IsScoped(g, t) /\ Current(g, t) = NoScope
  BY <1>0, FreshScope DEF OpenScope, InTurn, At
<1>2. /\ opened' = [opened EXCEPT ![g][t] = @ + 1]
      /\ step' = [step EXCEPT ![g] = "build"]
      /\ UNCHANGED <<stage, registry, next, initialized, runtime, closed, finalized, interrupted>>
  BY <1>0, <1>1 DEF OpenScope
<1>3. step'[g] = "build"
  BY <1>2 DEF TypeInv, ControlType
<1>4. /\ \A n : Current(g, n)' = Current(g, n) /\ (IsScoped(g, n)' <=> IsScoped(g, n))
      /\ Turn(g)' = t
  BY <1>0, <1>2 DEF Current, Slot, IsScoped, registry, Turn
<1>5. \A n : HasOwner(g, n) => HasOwner(g, n)'
  BY <1>1, <1>2 DEF HasOwner, Unfinalized, InTransaction
<1>6. \A n \in Names : ~BeingBuilt(g, n) /\ (BeingBuilt(g, n)' <=> n = t)
  BY <1>1, <1>2, <1>3, <1>4 DEF BeingBuilt, InTransaction
<1>7. /\ \A n \in Names \ {t} : opened'[g][n] = opened[g][n]
      /\ opened'[g][t] = opened[g][t] + 1
  BY <1>2 DEF TypeInv, ScopeType
<1>8. opened[g][t] = closed[g][t]
  <2>1. opened[g][t] = closed[g][t] + 0 /\ closed[g][t] \in Nat
    BY <1>1, <1>6, PluginAssumption, ZenonT(60) DEF ScopeInv, TypeInv, ScopeType
  <2> QED
    BY <2>1
<1>9. ASSUME NEW n \in Names
      PROVE  opened'[g][n] =
               closed'[g][n] + IF Current(g, n)' = g \/ BeingBuilt(g, n)' THEN 1 ELSE 0
  <2>1. CASE n = t
    BY <1>2, <1>6, <1>7, <1>8, <2>1
  <2>2. CASE n # t
    BY <1>2, <1>4, <1>6, <1>7, <2>2 DEF ScopeInv
  <2> QED
    BY <2>1, <2>2
<1>10. \A n \in Names : /\ Current(g, n)' \in {g, NoScope}
                        /\ Current(g, n)' = g => IsScoped(g, n)' /\ HasOwner(g, n)'
  BY <1>4, <1>5 DEF ScopeInv
<1>11. UNCHANGED <<stage, next, order>>
  BY <1>2 DEF registry
<1> QED
  BY <1>1, <1>3, <1>4, <1>9, <1>10, <1>11 DEF ScopeInv

LEMMA BuildKeeps ==
  ASSUME TypeInv, NEW g \in Gens, ScopeInv(g), InTurn(g, "initialize"), step[g] = "build",
         SetCurrent(g, Turn(g), g), step' = [step EXCEPT ![g] = "hook"], g # NoScope,
         UNCHANGED <<stage, registry, next, initialized, opened, closed, finalized, interrupted>>
  PROVE  ScopeInv(g)'
<1>0. PICK t \in Names : t = Turn(g)
  BY TurnType
<1>1. /\ stage[g] = "initialize" /\ InTransaction(g) /\ next[g] <= Len(order[g])
      /\ IsScoped(g, t) /\ Current(g, t) = NoScope /\ BeingBuilt(g, t)
  BY <1>0 DEF InTurn, At, InTransaction, ScopeInv, BeingBuilt
<1>2. step'[g] = "hook" /\ UNCHANGED <<order, registered>>
  BY DEF TypeInv, ControlType, registry
<1>3. /\ \A n \in Names \ {t} : Current(g, n)' = Current(g, n)
      /\ Current(g, t)' = g
  <2>1. runtime'[g] = [runtime[g] EXCEPT ![t] = g]
    BY <1>0 DEF SetCurrent, Slot, TypeInv, ScopeType
  <2>2. runtime[g] \in [Names -> Gens \cup {NoScope}]
    BY DEF TypeInv, ScopeType
  <2> QED
    BY <2>1, <2>2 DEF Current, Slot
<1>4. Turn(g)' = t /\ InTransaction(g)' /\ \A n : IsScoped(g, n)' <=> IsScoped(g, n)
  BY <1>0, <1>1, <1>2 DEF Turn, InTransaction, IsScoped
<1>5. \A n : ~BeingBuilt(g, n)' /\ (n # t => ~BeingBuilt(g, n))
  BY <1>0, <1>2 DEF BeingBuilt
<1>6. \A n : HasOwner(g, n) => HasOwner(g, n)'
  BY <1>0, <1>4 DEF HasOwner, Unfinalized
<1>7. HasOwner(g, t)'
  BY <1>4 DEF HasOwner
<1>8. ASSUME NEW n \in Names
      PROVE  /\ Current(g, n)' \in {g, NoScope}
             /\ Current(g, n)' = g => IsScoped(g, n)' /\ HasOwner(g, n)'
             /\ opened'[g][n] =
                  closed'[g][n] + IF Current(g, n)' = g \/ BeingBuilt(g, n)' THEN 1 ELSE 0
  <2>1. CASE n = t
    BY <1>1, <1>3, <1>4, <1>7, <2>1 DEF ScopeInv
  <2>2. CASE n # t
    BY <1>3, <1>4, <1>5, <1>6, <2>2 DEF ScopeInv
  <2> QED
    BY <2>1, <2>2
<1> QED
  BY <1>1, <1>2, <1>3, <1>4, <1>8 DEF ScopeInv

\* Inside a transaction, after the layer is built or when a signal arrives
LEMMA TransactionKeeps ==
  ASSUME TypeInv, NEW g \in Gens, ScopeInv(g), InTransaction(g),
         UNCHANGED <<stage, registry, next, initialized, scopes, finalized>>,
         step'[g] = step[g] \/ (step[g] = "hook" /\ step'[g] = "leave"),
         step'[g] = "leave" /\ interrupted'[g] => YieldsOnLeaving
  PROVE  ScopeInv(g)'
<1>1. /\ Turn(g)' = Turn(g) /\ InTransaction(g)' /\ step'[g] # "open"
      /\ \A n : Current(g, n)' = Current(g, n) /\ (IsScoped(g, n)' <=> IsScoped(g, n))
  BY DEF Turn, InTransaction, IsScoped, Current, Slot, registry, scopes
<1>2. \A n : (BeingBuilt(g, n)' <=> BeingBuilt(g, n)) /\ (HasOwner(g, n) => HasOwner(g, n)')
  BY <1>1 DEF BeingBuilt, HasOwner, Unfinalized
<1>3. UNCHANGED <<stage, next, order, opened, closed>>
  BY DEF registry, scopes
<1> QED
  BY <1>1, <1>2, <1>3 DEF ScopeInv, InTransaction

LEMMA ScopeStep ==
  ASSUME IInv, NEW g \in Gens, StepOf(g)
  PROVE  ScopeInv(g)'
<1> USE DEF registry
<1> TypeInv /\ SequenceInv(g) /\ ScopeInv(g) /\ ControlType /\ g # NoScope
  BY PluginAssumption DEF IInv, GenInv, TypeInv
<1>1. ASSUME NEW cause, FailsWith(g, cause)
      PROVE  stage'[g] = IF stage[g] \in {"load", "sort"} THEN "done" ELSE "finalize"
  BY <1>1 DEF FailsWith, Proceed, ControlType
<1>2. ASSUME NEW s, Proceed(g, s)
      PROVE  stage'[g] = s
  BY <1>2 DEF Proceed, ControlType
<1>3. CASE LoadNext(g)
  <2>1. /\ stage[g] = "load" /\ stage'[g] \in {"load", "done"}
        /\ UNCHANGED <<step, scopes, initialized, finalized>>
    BY <1>1, <1>3 DEF LoadNext, At
  <2>2. ~InTransaction(g)' /\ \A n : ~BeingBuilt(g, n) /\ ~BeingBuilt(g, n)'
    BY <2>1 DEF InTransaction, BeingBuilt
  <2>3. \A n : Current(g, n)' = Current(g, n)
    BY <2>1 DEF Current, Slot, scopes
  <2>4. \A n \in Names : Current(g, n) # g
    BY <2>1, NothingHeld
  <2> QED
    BY <2>1, <2>2, <2>3, <2>4 DEF ScopeInv, scopes
<1>4. CASE LoadSpec(g)
  <2>1. /\ stage[g] = "load" /\ stage'[g] \in {"sort", "done"}
        /\ UNCHANGED <<scopes, registered, step, initialized, finalized>>
    BY <1>1, <1>2, <1>4 DEF LoadSpec, At
  <2>2. step[g] = "open" /\ ~InTransaction(g)
    BY <2>1 DEF ScopeInv, InTransaction
  <2> QED
    BY <2>1, <2>2, ScopesKept
<1>5. CASE GetAll(g)
  <2>1. /\ stage[g] = "sort" /\ stage'[g] \in {"initialize", "done"}
        /\ UNCHANGED <<scopes, registered, step, initialized, finalized>>
    BY <1>1, <1>2, <1>5 DEF GetAll, At
  <2>2. step[g] = "open" /\ ~InTransaction(g)
    BY <2>1 DEF ScopeInv, InTransaction
  <2> QED
    BY <2>1, <2>2, ScopesKept
<1>6. CASE InitializePlain(g)
  <2>1. /\ InTurn(g, "initialize") /\ stage[g] = "initialize"
        /\ UNCHANGED <<scopes, registered, step, finalized>>
        /\ step[g] = "open" /\ ~InTransaction(g)
    BY <1>6 DEF InitializePlain, InTurn, At, ScopeInv, InTransaction
  <2>2. CASE Push(g) /\ UNCHANGED stage
    BY <2>1, <2>2, PushOwns
  <2>3. CASE UNCHANGED initialized /\ stage'[g] = "finalize"
    BY <2>1, <2>3, ScopesKept
  <2> QED
    BY <1>1, <1>6, <2>1, <2>2, <2>3 DEF InitializePlain
<1>7. CASE OpenScope(g)
  BY <1>7, OpenKeeps
<1>8. CASE BuildLayer(g) \/ InitializeHook(g)
  <2>1. /\ InTurn(g, "initialize") /\ stage[g] = "initialize" /\ ~interrupted[g]
        /\ step[g] \in {"build", "hook"} /\ InTransaction(g) /\ Turn(g) \in Names
        /\ UNCHANGED <<registry, next, initialized, opened, finalized, interrupted>>
    BY <1>8, TurnType DEF BuildLayer, InitializeHook, InTurn, At, InTransaction
  <2>2. CASE CloseProvisional(g) /\ stage'[g] = "finalize"
    BY <2>1, <2>2, ProvisionalCloses
  <2>3. CASE /\ step[g] = "build" /\ SetCurrent(g, Turn(g), g)
             /\ step' = [step EXCEPT ![g] = "hook"] /\ UNCHANGED <<stage, closed>>
    BY <2>1, <2>3, BuildKeeps
  <2>4. CASE /\ step[g] = "hook" /\ step' = [step EXCEPT ![g] = "leave"]
             /\ UNCHANGED <<stage, closed, runtime>>
    <3>1. step'[g] = "leave"
      BY <2>4 DEF ControlType
    <3> QED
      BY <2>1, <2>4, <3>1, TransactionKeeps DEF scopes
  <2> QED
    BY <1>1, <1>8, <2>1, <2>2, <2>3, <2>4 DEF BuildLayer, InitializeHook
<1>9. CASE Initialized(g)
  <2>1. /\ InTurn(g, "initialize") /\ Push(g) /\ step[g] # "build"
        /\ UNCHANGED <<scopes, registered, stage, finalized>>
    BY <1>9 DEF Initialized
  <2>2. step'[g] = "open"
    BY <1>9 DEF Initialized, ControlType
  <2> QED
    BY <2>1, <2>2, PushOwns
<1>10. CASE CollectResources(g) \/ Generate(g) \/ GenerateIndex(g)
  <2>1. /\ stage[g] \in {"collect", "generate", "index"}
        /\ UNCHANGED <<scopes, registered, step, initialized, finalized>>
    BY <1>10 DEF CollectResources, Generate, GenerateIndex, InTurn, At
  <2>2. stage'[g] \in {stage[g], "finalize"}
    BY <1>1, <1>2, <1>10, <2>1 DEF CollectResources, Generate, GenerateIndex, HookEnds
  <2> QED
    BY <2>1, <2>2, ScopesKept DEF InTransaction
<1>11. CASE WriteFile(g)
  <2>1. /\ stage[g] \in {"generate", "index"}
        /\ UNCHANGED <<scopes, registered, step, initialized, finalized, stage>>
    BY <1>11 DEF WriteFile
  <2> QED
    BY <2>1, ScopesKept DEF InTransaction
<1>12. CASE NextStage(g)
  <2>1. /\ stage[g] \in {"initialize", "collect", "generate"} /\ next[g] > Len(order[g])
        /\ UNCHANGED <<scopes, registered, step, initialized, finalized>>
    BY <1>12 DEF NextStage, AllDone, At
  <2>2. stage'[g] \in {"collect", "generate", "index"}
    BY <1>2, <1>12 DEF NextStage
  <2>3. ~InTransaction(g)
    <3>1. \A m, k \in Nat : ~(m > k /\ m <= k)
      OBVIOUS
    <3>2. next[g] \in Nat /\ Len(order[g]) \in Nat
      BY DEF TypeInv, ControlType, RegistryType
    <3> QED
      BY <2>1, <3>1, <3>2 DEF ScopeInv
  <2> QED
    BY <2>1, <2>2, <2>3, ScopesKept
<1>13. CASE FinalizeNext(g)
  BY <1>13, FinalizeCloses
<1>14. CASE Finish(g)
  <2>1. /\ stage[g] = "finalize"
        /\ UNCHANGED <<scopes, registered, step, initialized, finalized>>
    BY <1>14 DEF Finish
  <2>2. stage'[g] = "done"
    BY <1>2, <1>14 DEF Finish
  <2> QED
    BY <2>1, <2>2, ScopesKept DEF InTransaction
<1>15. CASE Interrupt(g)
  <2>1. /\ step[g] = "leave" => YieldsOnLeaving
        /\ stage[g] \notin {"finalize", "done"}
        /\ UNCHANGED <<stage, step, registry, next, initialized, scopes, finalized>>
    BY <1>15 DEF Interrupt
  <2>2. CASE InTransaction(g)
    <3>1. UNCHANGED <<stage, registry, next, initialized, scopes, finalized>>
      BY <2>1
    <3>2. step'[g] = step[g] \/ (step[g] = "hook" /\ step'[g] = "leave")
      BY <2>1
    <3>3. step'[g] = "leave" /\ interrupted'[g] => YieldsOnLeaving
      BY <2>1
    <3> QED
      BY <2>2, <3>1, <3>2, <3>3, TransactionKeeps
  <2>3. CASE ~InTransaction(g)
    BY <2>1, <2>3, ScopesKept
  <2> QED
    BY <2>2, <2>3
<1>16. CASE TakeInterrupt(g)
  <2>1. /\ interrupted[g] /\ stage[g] \notin {"finalize", "done"} /\ stage[g] \in Stages
        /\ IF stage[g] = "initialize" /\ step[g] \in {"build", "hook"}
             THEN CloseProvisional(g) ELSE UNCHANGED <<closed, runtime>>
        /\ UNCHANGED <<step, registry, next, initialized, opened, finalized>>
    BY <1>16 DEF TakeInterrupt, ControlType
  <2>2. stage'[g] = IF stage[g] \in {"load", "sort"} THEN "done" ELSE "finalize"
    BY <1>1, <1>16 DEF TakeInterrupt
  <2>3. CASE InTransaction(g) /\ step[g] \in {"build", "hook"}
    <3>1. Turn(g) \in Names
      BY <2>3 DEF ScopeInv, TypeInv, ControlType, RegistryType, Turn
    <3>2. stage'[g] = "finalize" /\ CloseProvisional(g)
      BY <2>1, <2>2, <2>3 DEF InTransaction
    <3> QED
      BY <2>1, <2>3, <3>1, <3>2, ProvisionalCloses
  <2>4. CASE ~InTransaction(g)
    <3>1. UNCHANGED <<scopes, registered, step, initialized, finalized>>
      BY <2>1, <2>4 DEF InTransaction, scopes
    <3>2. stage'[g] \in {"done", "finalize"}
      BY <2>2
    <3> QED
      BY <2>4, <3>1, <3>2, ScopesKept
  <2>5. CASE InTransaction(g) /\ step[g] = "leave"
    <3>1. YieldsOnLeaving /\ stage'[g] = "finalize"
      BY <2>1, <2>2, <2>5 DEF ScopeInv, InTransaction
    <3>2. UNCHANGED <<scopes, registered, initialized, finalized>>
      BY <2>1, <2>5 DEF scopes
    <3>3. /\ ~InTransaction(g)' /\ \A n : ~BeingBuilt(g, n) /\ ~BeingBuilt(g, n)'
          /\ \A n : HasOwner(g, n)'
      BY <2>5, <3>1 DEF InTransaction, BeingBuilt, HasOwner
    <3>4. \A n : Current(g, n)' = Current(g, n) /\ (IsScoped(g, n)' <=> IsScoped(g, n))
      BY <3>2 DEF Current, Slot, scopes, IsScoped
    <3> QED
      BY <3>1, <3>2, <3>3, <3>4 DEF ScopeInv, scopes
  <2>6. InTransaction(g) => step[g] \in {"build", "hook", "leave"}
    BY DEF InTransaction, ControlType, Steps
  <2> QED
    BY <2>3, <2>4, <2>5, <2>6
<1> QED
  BY <1>3, <1>4, <1>5, <1>6, <1>7, <1>8, <1>9, <1>10, <1>11, <1>12, <1>13, <1>14, <1>15,
     <1>16 DEF StepOf

-----------------------------------------------------------------------------
(* Defects, and the invariant as a whole                                   *)

LEMMA DefectStep ==
  ASSUME IInv, NEW g \in Gens, StepOf(g)
  PROVE  DefectInv(g)'
<1> TypeInv /\ SequenceInv(g) /\ ScopeInv(g) /\ DefectInv(g) /\ ControlType
  BY DEF IInv, GenInv, TypeInv
<1>1. ASSUME NEW end \in Ends, Draws(g, end)
      PROVE  drawn[g] \subseteq drawn'[g] /\ (end # "ok" => end \in drawn'[g])
  BY <1>1 DEF Draws, ControlType
<1>2. ASSUME NEW cause, FailsWith(g, cause)
      PROVE  exit'[g] = exit[g] \cup {cause}
  BY <1>2 DEF FailsWith, ControlType
<1>3. CASE UNCHANGED exit /\ drawn[g] \subseteq drawn'[g]
  BY <1>3 DEF DefectInv
<1>4. CASE \E end \in Ends : Draws(g, end) /\ end # "ok" /\ FailsWith(g, end)
  BY <1>1, <1>2, <1>4 DEF DefectInv
<1>5. CASE LoadNext(g)
  BY <1>1, <1>3, <1>4, <1>5 DEF LoadNext, Ends
<1>6. CASE LoadSpec(g)
  <2>1. PICK end \in Ends :
          /\ Draws(g, end)
          /\ IF end = "ok" THEN Proceed(g, "sort") /\ UNCHANGED exit ELSE FailsWith(g, end)
    BY <1>6 DEF LoadSpec
  <2> QED
    BY <1>1, <1>3, <1>4, <2>1
<1>7. CASE GetAll(g)
  BY <1>2, <1>7 DEF GetAll, DefectInv
<1>8. CASE InitializePlain(g)
  <2>1. PICK end \in Ends :
          /\ Draws(g, end)
          /\ IF end = "ok" THEN Push(g) /\ UNCHANGED <<exit, stage>>
                           ELSE FailsWith(g, end) /\ UNCHANGED <<initialized, next>>
    BY <1>8 DEF InitializePlain
  <2> QED
    BY <1>1, <1>3, <1>4, <2>1
<1>9. CASE OpenScope(g)
  <2>1. Current(g, Turn(g)) = NoScope
    BY <1>9, FreshScope DEF OpenScope
  <2> QED
    BY <1>3, <1>9, <2>1 DEF OpenScope
<1>10. CASE BuildLayer(g)
  <2>1. PICK end \in Ends :
          /\ Draws(g, end)
          /\ end = "ok" => UNCHANGED exit
          /\ end # "ok" => FailsWith(g, end)
    BY <1>10 DEF BuildLayer
  <2> QED
    BY <1>1, <1>3, <1>4, <2>1
<1>11. CASE InitializeHook(g)
  <2>1. PICK end \in Ends :
          /\ Draws(g, end)
          /\ end = "ok" => UNCHANGED exit
          /\ end # "ok" => FailsWith(g, end)
    BY <1>11 DEF InitializeHook
  <2> QED
    BY <1>1, <1>3, <1>4, <2>1
<1>12. CASE CollectResources(g) \/ Generate(g)
  <2>1. PICK end \in Ends : HookEnds(g, end)
    BY <1>12 DEF CollectResources, Generate
  <2> QED
    BY <1>1, <1>3, <1>4, <2>1 DEF HookEnds
<1>13. CASE GenerateIndex(g)
  <2>1. PICK end \in Ends :
          /\ Draws(g, end)
          /\ IF end = "ok" THEN Proceed(g, "finalize") /\ UNCHANGED exit ELSE FailsWith(g, end)
    BY <1>13 DEF GenerateIndex
  <2> QED
    BY <1>1, <1>3, <1>4, <2>1
<1>14. CASE Initialized(g) \/ WriteFile(g) \/ NextStage(g) \/ Finish(g) \/ Interrupt(g)
  BY <1>3, <1>14 DEF Initialized, WriteFile, NextStage, Finish, Interrupt
<1>15. CASE FinalizeNext(g)
  <2>1. PICK end \in Ends :
          /\ Draws(g, end)
          /\ exit' = IF end = "die" THEN [exit EXCEPT ![g] = @ \cup {"die"}] ELSE exit
    BY <1>15 DEF FinalizeNext
  <2> QED
    BY <1>1, <1>3, <2>1 DEF DefectInv, ControlType
<1>16. CASE TakeInterrupt(g)
  <2>1. FailsWith(g, "interrupt") /\ UNCHANGED drawn
    BY <1>16 DEF TakeInterrupt
  <2> QED
    BY <1>2, <2>1 DEF DefectInv
<1> QED
  BY <1>5, <1>6, <1>7, <1>8, <1>9, <1>10, <1>11, <1>12, <1>13, <1>14, <1>15, <1>16 DEF StepOf

LEMMA InitStep == Init => IInv
<1> SUFFICES ASSUME Init PROVE IInv
  OBVIOUS
<1>1. scenario \in Scenarios /\ scenario.entries \in Seq(Plugins)
  BY ScenarioAssumption DEF Init
<1>2. << >> \in Seq(Names) /\ Len(<< >>) = 0
  OBVIOUS
<1>3. ControlType
  BY <1>1 DEF Init, ControlType, Stages, Steps
<1>4. RegistryType
  BY <1>1, <1>2 DEF Init, RegistryType
<1>5. ScopeType /\ FileType
  BY DEF Init, ScopeType, FileType
<1>6. ASSUME NEW g \in Gens PROVE GenInv(g)
  <2>1. /\ stage[g] \in {"load", "done"} /\ step[g] = "open" /\ order[g] = << >>
        /\ next[g] = 1 /\ initialized[g] = << >> /\ finalized[g] = << >>
    BY DEF Init
  <2>2. SequenceInv(g)
    <3>1. IsInjective(<< >>)
      BY DEF IsInjective
    <3>2. DependenciesFirst(<< >>, scenario.depends)
      BY DEF DependenciesFirst, ToSet
    <3>3. \A i \in 1 .. 0 : FALSE
      OBVIOUS
    <3> QED
      BY <1>2, <2>1, <3>1, <3>2, <3>3 DEF SequenceInv
  <2>3. ScopeInv(g)
    <3>1. ~InTransaction(g) /\ \A n : ~BeingBuilt(g, n)
      BY <2>1 DEF InTransaction, BeingBuilt
    <3>2. \A n \in Names : Current(g, n) = NoScope /\ opened[g][n] = 0 /\ closed[g][n] = 0
      BY DEF Init, Current, Slot
    <3> QED
      BY <2>1, <3>1, <3>2, PluginAssumption DEF ScopeInv
  <2>4. DefectInv(g) /\ FilesInv(g)
    BY DEF Init, DefectInv, FilesInv
  <2> QED
    BY <2>2, <2>3, <2>4 DEF GenInv
<1> QED
  BY <1>3, <1>4, <1>5, <1>6 DEF IInv, TypeInv

\* getAll sorts.
LEMMA StepSorts ==
  ASSUME TypeInv, [Next]_vars, NEW g \in Gens
  PROVE  SortsExactly(g)
<1> SUFFICES ASSUME stage[g] = "sort", stage'[g] # "sort" PROVE SortsExactly(g)
  BY DEF SortsExactly
<1> ControlType
  BY DEF TypeInv
<1>1. PICK h \in Gens : StepOf(h)
  BY DEF Next, StepOf, vars
<1>2. h = g
  BY <1>1, StageMoves DEF ControlType
<1>3. CASE TakeInterrupt(g)
  <2>1. interrupted[g] /\ stage'[g] = "done"
    BY <1>3 DEF TakeInterrupt, FailsWith, Proceed, ControlType
  <2> QED
    BY <2>1 DEF SortsExactly
<1>4. CASE GetAll(g)
  <2> DEFINE known == RegisteredNames(g)
             depends == scenario.depends
             walk == SortRegistrations(known, depends)
  <2>1. known \in SUBSET Names /\ depends \in [Names -> SUBSET Names]
    BY ScenarioAssumption DEF RegisteredNames, ControlType
  <2> HIDE DEF known, depends
  <2>2. IF walk.issue # NoIssue THEN ~Sortable(known, depends)
        ELSE /\ walk.sorted \in Seq(Names) /\ IsInjective(walk.sorted)
             /\ ToSet(walk.sorted) = known /\ DependenciesFirst(walk.sorted, depends)
    BY <2>1, SortRight
  <2> HIDE DEF walk
  <2>3. IF walk.issue = NoIssue
          THEN order' = [order EXCEPT ![g] = walk.sorted] /\ stage'[g] = "initialize"
          ELSE stage'[g] = "done"
    BY <1>4 DEF GetAll, FailsWith, Proceed, ControlType, walk, known, depends
  <2>4. walk.issue = NoIssue => order'[g] = walk.sorted
    BY <2>3 DEF TypeInv, RegistryType
  <2> QED
    BY <2>2, <2>3, <2>4 DEF SortsExactly, known, depends
<1>5. StepOf(g) => TakeInterrupt(g) \/ GetAll(g)
  <2>1. ~(LoadNext(g) \/ LoadSpec(g))
    BY DEF LoadNext, LoadSpec, At
  <2>2. ~(InitializePlain(g) \/ OpenScope(g) \/ BuildLayer(g) \/ InitializeHook(g) \/ Initialized(g))
    BY DEF InitializePlain, OpenScope, BuildLayer, InitializeHook, Initialized, InTurn, At
  <2>3. ~(CollectResources(g) \/ WriteFile(g) \/ Generate(g) \/ GenerateIndex(g))
    BY DEF CollectResources, WriteFile, Generate, GenerateIndex, InTurn, AllDone, At
  <2>4. ~(NextStage(g) \/ FinalizeNext(g) \/ Finish(g) \/ Interrupt(g))
    BY DEF NextStage, FinalizeNext, Finish, Interrupt, AllDone, At
  <2> QED
    BY <2>1, <2>2, <2>3, <2>4 DEF StepOf
<1> QED
  BY <1>1, <1>2, <1>3, <1>4, <1>5

\* Every step keeps the invariant.
LEMMA NextStep ==
  ASSUME IInv, [Next]_vars
  PROVE  IInv'
<1>1. CASE UNCHANGED vars
  <2>1. /\ UNCHANGED <<scenario, stage, step, next, interrupted, exit, drawn>>
        /\ UNCHANGED <<entries, registered, order, initialized, finalized>>
        /\ UNCHANGED <<runtime, opened, closed>> /\ UNCHANGED <<written, pending, logged>>
    BY <1>1 DEF vars, registry, scopes, files
  <2>2. TypeInv'
    BY <2>1 DEF IInv, TypeInv, ControlType, RegistryType, ScopeType, FileType
  <2>3. ASSUME NEW g \in Gens PROVE GenInv(g)'
    <3>1. GenInv(g)
      BY DEF IInv
    <3>2. SequenceInv(g)' /\ DefectInv(g)' /\ FilesInv(g)'
      BY <2>1, <3>1 DEF GenInv, SequenceInv, DefectInv, FilesInv
    <3>3. ScopeInv(g)'
      BY <2>1, <3>1 DEF GenInv, ScopeInv, InTransaction, HasOwner, BeingBuilt, Turn, Unfinalized,
                        Current, Slot, IsScoped
    <3> QED
      BY <3>2, <3>3 DEF GenInv
  <2> QED
    BY <2>2, <2>3 DEF IInv
<1>2. CASE ~UNCHANGED vars
  <2>1. PICK g \in Gens : StepOf(g)
    BY <1>2 DEF Next, StepOf
  <2>2. SortsExactly(g)
    BY StepSorts DEF IInv
  <2>3. TypeInv'
    BY <2>1, <2>2, TypeStep DEF IInv
  <2>4. FilesInv(g)'
    BY <2>1, FilesStep DEF IInv, TypeInv, ControlType, GenInv, FilesIInv
  <2>5. GenInv(g)'
    BY <2>1, <2>2, <2>4, SequenceStep, ScopeStep, DefectStep DEF GenInv
  <2>6. \A h \in Gens \ {g} : GenInv(h)'
    BY <2>1, OtherGens
  <2> QED
    BY <2>3, <2>5, <2>6 DEF IInv
<1> QED
  BY <1>1, <1>2

\* In every state of every run
THEOREM Invariance == Spec => []IInv
<1>1. IInv /\ [Next]_vars => IInv'
  BY NextStep
<1> QED
  BY <1>1, InitStep, PTL DEF Spec

-----------------------------------------------------------------------------
(* What follows from the invariant                                         *)

\* getAll fails only if no order exists, a stop apart, and otherwise yields all the
\* registered plugins, each once and after the plugins it depends on
\* (sortPluginRegistrations, visitPlugin).
THEOREM Sorting == Spec => SortIsExact
<1>1. IInv /\ [Next]_vars => [\A g \in Gens : SortsExactly(g)]_vars
  BY StepSorts DEF IInv
<1> QED
  BY <1>1, Invariance, PTL DEF Spec, SortIsExact

\* Every Scope a generation opens for a plugin is closed exactly once by the time it
\* ends, however it ends (the scope transaction of makeInitialize and the
\* finalizer of defineScopedPlugin), if fibers do not yield between the two.
THEOREM ScopesAreClosedAlways ==
  ASSUME ~YieldsOnLeaving
  PROVE  Spec => []ScopesAreClosed
<1>1. IInv => ScopesAreClosed
  <2> SUFFICES ASSUME IInv, NEW g \in Gens, NEW n \in Names
               PROVE  /\ closed[g][n] <= opened[g][n]
                      /\ stage[g] = "done" => closed[g][n] = opened[g][n]
    BY DEF ScopesAreClosed
  <2> TypeInv /\ SequenceInv(g) /\ ScopeInv(g)
    BY DEF IInv, GenInv
  <2>1. opened[g][n] \in Nat /\ closed[g][n] \in Nat
    BY DEF TypeInv, ScopeType
  <2>2. opened[g][n] = closed[g][n] + IF Current(g, n) = g \/ BeingBuilt(g, n) THEN 1 ELSE 0
    BY DEF ScopeInv
  <2>3. ASSUME stage[g] = "done" PROVE ~(Current(g, n) = g \/ BeingBuilt(g, n))
    <3>1. Unfinalized(g) = 0
      BY <2>3 DEF SequenceInv, Unfinalized, TypeInv, RegistryType
    <3>2. ~HasOwner(g, n) /\ ~BeingBuilt(g, n)
      BY <2>3, <3>1 DEF HasOwner, BeingBuilt, InTransaction
    <3> QED
      BY <3>2 DEF ScopeInv
  <2> QED
    BY <2>1, <2>2, <2>3
<1> QED
  BY <1>1, Invariance, PTL

\* Generations that share plugin records do not see one another's services: no defect
\* without a hook of one's own that died (the FiberRef of defineScopedPlugin).
THEOREM NoForeignDefectAlways == Spec => []NoForeignDefect
<1>1. IInv => NoForeignDefect
  BY DEF IInv, GenInv, DefectInv, NoForeignDefect
<1> QED
  BY <1>1, Invariance, PTL

\* In an order with dependencies first, what a name depends on stands before it.
LEMMA DependsOnEarlier ==
  ASSUME NEW s \in Seq(Names), NEW depends, IsInjective(s), DependenciesFirst(s, depends),
         NEW i \in 1 .. Len(s), NEW m \in depends[s[i]]
  PROVE  \E j \in 1 .. i - 1 : s[j] = m
<1>1. ASSUME NEW k \in 1 .. Len(s) PROVE Position(s, s[k]) = k
  <2>1. k \in DOMAIN s /\ \A l \in DOMAIN s : s[l] = s[k] => l = k
    BY DEF IsInjective
  <2> QED
    BY <2>1 DEF Position
<1>2. s[i] \in ToSet(s)
  BY DEF ToSet
<1>3. m \in ToSet(s) /\ Position(s, m) < Position(s, s[i])
  BY <1>2 DEF DependenciesFirst
<1>4. PICK j \in 1 .. Len(s) : s[j] = m
  BY <1>3 DEF ToSet
<1>5. j < i
  BY <1>1, <1>3, <1>4
<1> QED
  BY <1>4, <1>5

\* The plugins that are alive are the unfinalized beginning of the order.
LEMMA AliveIsABeginning ==
  ASSUME TypeInv, NEW g \in Gens, SequenceInv(g)
  PROVE  /\ Unfinalized(g) \in Nat /\ Unfinalized(g) <= Len(order[g])
         /\ \A n : n \in ToSet(initialized[g]) \ ToSet(finalized[g])
                     <=> \E i \in 1 .. Unfinalized(g) : order[g][i] = n
<1> DEFINE k == Len(initialized[g])
           f == Len(finalized[g])
<1>1. /\ order[g] \in Seq(Names) /\ initialized[g] \in Seq(Names) /\ finalized[g] \in Seq(Names)
      /\ k \in Nat /\ f \in Nat /\ Len(order[g]) \in Nat
  BY DEF TypeInv, RegistryType
<1>2. f <= k /\ k <= Len(order[g]) /\ Unfinalized(g) = k - f
  BY DEF SequenceInv, Unfinalized
<1>3. \A i \in 1 .. k : initialized[g][i] = order[g][i]
  BY DEF SequenceInv
<1>4. \A j \in 1 .. f : k - j + 1 \in 1 .. k /\ finalized[g][j] = order[g][k - j + 1]
  <2>1. \A m, l \in Nat : m <= l => \A j \in 1 .. m : l - j + 1 \in 1 .. l
    OBVIOUS
  <2>2. \A j \in 1 .. f : k - j + 1 \in 1 .. k
    BY <1>1, <1>2, <2>1
  <2>3. \A j \in 1 .. f : finalized[g][j] = initialized[g][k - j + 1]
    BY DEF SequenceInv
  <2> QED
    BY <1>3, <2>2, <2>3
<1>5. ASSUME NEW n, n \in ToSet(initialized[g]) \ ToSet(finalized[g])
      PROVE  \E i \in 1 .. k - f : order[g][i] = n
  <2>1. PICK i \in 1 .. k : order[g][i] = n
    BY <1>1, <1>3, <1>5 DEF ToSet
  <2>2. ASSUME i \notin 1 .. k - f PROVE FALSE
    <3>1. \A m, l \in Nat : m <= l =>
            \A j \in 1 .. l : j \notin 1 .. l - m => l - j + 1 \in 1 .. m /\ l - (l - j + 1) + 1 = j
      OBVIOUS
    <3>2. k - i + 1 \in 1 .. f /\ k - (k - i + 1) + 1 = i
      BY <1>1, <1>2, <2>2, <3>1
    <3>3. finalized[g][k - i + 1] = n
      BY <1>4, <2>1, <3>2
    <3> QED
      BY <1>1, <1>5, <3>2, <3>3 DEF ToSet
  <2> QED
    BY <2>1, <2>2
<1>6. ASSUME NEW n, NEW i \in 1 .. k - f, order[g][i] = n
      PROVE  n \in ToSet(initialized[g]) \ ToSet(finalized[g])
  <2>1. i \in 1 .. k /\ \A j \in 1 .. f : k - j + 1 # i
    <3>1. \A m, l \in Nat : m <= l =>
            \A h \in 1 .. l - m : h \in 1 .. l /\ \A j \in 1 .. m : l - j + 1 # h
      OBVIOUS
    <3> QED
      BY <1>1, <1>2, <3>1
  <2>2. n \in ToSet(initialized[g])
    BY <1>1, <1>3, <1>6, <2>1 DEF ToSet
  <2>3. ASSUME n \in ToSet(finalized[g]) PROVE FALSE
    <3>1. PICK j \in 1 .. f : finalized[g][j] = n
      BY <1>1, <2>3 DEF ToSet
    <3>2. order[g][k - j + 1] = order[g][i] /\ k - j + 1 \in 1 .. k
      BY <1>4, <1>6, <3>1
    <3>3. k - j + 1 \in DOMAIN order[g] /\ i \in DOMAIN order[g]
      BY <1>1, <1>2, <2>1, <3>2
    <3>4. k - j + 1 = i
      BY <3>2, <3>3 DEF SequenceInv, IsInjective
    <3> QED
      BY <2>1, <3>4
  <2> QED
    BY <2>2, <2>3
<1>7. \A m, l, o \in Nat : m <= l /\ l <= o => l - m \in Nat /\ l - m <= o
  OBVIOUS
<1>8. k - f \in Nat /\ k - f <= Len(order[g])
  BY <1>1, <1>2, <1>7
<1> QED
  BY <1>2, <1>5, <1>6, <1>8

\* What was initialized is finalized once and in reverse, whatever finalizers do, and
\* the plugins a plugin depends on are alive whenever one of its hooks runs
\* (runPluginLifecycle: initializePlugin in registration order, finalizePlugins
\* over the reversed array).
THEOREM FinalizersMirrorInitializationAlways ==
  Spec => []FinalizersMirrorInitialization
<1>1. IInv => FinalizersMirrorInitialization
  <2> SUFFICES ASSUME IInv, NEW g \in Gens
               PROVE  LET Alive == ToSet(initialized[g]) \ ToSet(finalized[g]) IN
                        /\ stage[g] = "done" => finalized[g] = Reverse(initialized[g])
                        /\ \A n \in Alive : scenario.depends[n] \subseteq Alive
                        /\ stage[g] = "initialize" /\ next[g] <= Len(order[g]) =>
                             scenario.depends[Turn(g)] \subseteq Alive
    BY DEF FinalizersMirrorInitialization
  <2> TypeInv /\ SequenceInv(g)
    BY DEF IInv, GenInv
  <2> DEFINE Alive == ToSet(initialized[g]) \ ToSet(finalized[g])
             u == Unfinalized(g)
  <2>1. /\ order[g] \in Seq(Names) /\ initialized[g] \in Seq(Names) /\ finalized[g] \in Seq(Names)
        /\ Len(order[g]) \in Nat /\ Len(initialized[g]) \in Nat
        /\ u \in Nat /\ u <= Len(order[g])
    BY AliveIsABeginning DEF TypeInv, RegistryType
  <2>2. \A n : n \in Alive <=> \E i \in 1 .. u : order[g][i] = n
    BY AliveIsABeginning
  <2>3. ASSUME NEW i \in 1 .. Len(order[g]), i <= u + 1
        PROVE  scenario.depends[order[g][i]] \subseteq Alive
    <3> SUFFICES ASSUME NEW m \in scenario.depends[order[g][i]] PROVE m \in Alive
      OBVIOUS
    <3>1. /\ IsInjective(order[g]) /\ DependenciesFirst(order[g], scenario.depends)
          /\ order[g] \in Seq(Names)
      BY <2>1 DEF SequenceInv
    <3>2. \A d : DependenciesFirst(order[g], d) =>
            \A l \in 1 .. Len(order[g]) : \A q \in d[order[g][l]] :
              \E j \in 1 .. l - 1 : order[g][j] = q
      BY <3>1, DependsOnEarlier
    <3>3. PICK j \in 1 .. i - 1 : order[g][j] = m
      BY <3>1, <3>2
    <3>4. j \in 1 .. u
      BY <2>1, <2>3
    <3> QED
      BY <2>2, <3>3, <3>4
  <2>4. ASSUME NEW n \in Alive PROVE scenario.depends[n] \subseteq Alive
    <3>1. PICK i \in 1 .. u : order[g][i] = n
      BY <2>2
    <3>2. i \in 1 .. Len(order[g]) /\ i <= u + 1
      BY <2>1
    <3> QED
      BY <2>3, <3>1, <3>2
  <2>5. ASSUME stage[g] = "initialize", next[g] <= Len(order[g])
        PROVE  scenario.depends[Turn(g)] \subseteq Alive
    <3>1. next[g] = Len(initialized[g]) + 1 /\ Len(finalized[g]) = 0
      BY <2>5 DEF SequenceInv
    <3>2. next[g] = u + 1 /\ next[g] \in 1 .. Len(order[g])
      BY <2>1, <2>5, <3>1 DEF Unfinalized
    <3> QED
      BY <2>1, <2>3, <3>2 DEF Turn
  <2>6. ASSUME stage[g] = "done" PROVE finalized[g] = Reverse(initialized[g])
    <3>1. Len(finalized[g]) = Len(initialized[g])
      BY <2>6 DEF SequenceInv
    <3>2. \A i \in 1 .. Len(initialized[g]) :
            finalized[g][i] = initialized[g][(Len(initialized[g]) - i) + 1]
      BY <3>1 DEF SequenceInv
    <3>3. finalized[g] = [i \in 1 .. Len(initialized[g]) |-> finalized[g][i]]
      BY <2>1, <3>1
    <3> QED
      BY <3>2, <3>3 DEF Reverse
  <2> QED
    BY <2>4, <2>5, <2>6
<1> QED
  BY <1>1, Invariance, PTL
=============================================================================
