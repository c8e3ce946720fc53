--------------------------- MODULE PluginRegistry ---------------------------
(***************************************************************************)
(* The plugin registry of one generation                                   *)
(* (packages/gen/src/services/PluginRegistry.ts): the first registration   *)
(* of a name wins, and getAll orders the registrations by a depth-first    *)
(* walk of their dependencies, alphabetical at every level.                *)
(***************************************************************************)
EXTENDS Naturals, FiniteSets, Sequences, SequencesExt, Collections

CONSTANTS
  Alphabet,     \* all plugin names, in alphabetical order
  NoIssue       \* the walk has not failed

Names == ToSet(Alphabet)

ASSUME AlphabetAssumption == Alphabet \in Seq(Names) /\ IsInjective(Alphabet)
ASSUME IssueAssumption ==
  NoIssue \notin [kind : {"missing-dependency", "dependency-cycle"},
                  plugin : Names]

-----------------------------------------------------------------------------
\* Array.prototype.sort on names
Alphabetical(names) == Selected(Alphabet, {i \in DOMAIN Alphabet : Alphabet[i] \in names})

Issue(kind, plugin) == [kind |-> kind, plugin |-> plugin]

\* The sets and the array the walk shares, and the failure it returns
Walk == [visiting : SUBSET Names, visited : SUBSET Names, sorted : Seq(Names),
         issue : {NoIssue} \cup [kind : {"missing-dependency",
                                         "dependency-cycle"}, plugin : Names]]

Start == [visiting |-> {}, visited |-> {}, sorted |-> << >>, issue |-> NoIssue]

Enter(w, n) == [w EXCEPT !.visiting = @ \cup {n}]

\* Mutant: a plugin that is done still counts as being visited.
LeaveVisiting(w, n) == [w EXCEPT !.sorted = Append(@, n)]

Leave(w, n) ==
  [w EXCEPT !.visiting = @ \ {n}, !.visited = @ \cup {n},
            !.sorted = Append(@, n)]

\* One name after the other, until one fails
Each(names, visitOne, start) ==
  LET after[k \in 0 .. Len(names)] ==
        IF k = 0 THEN start
        ELSE IF after[k - 1].issue # NoIssue THEN after[k - 1]
        ELSE visitOne[names[k]][after[k - 1]]
  IN after[Len(names)]

\* The dependency m of n is visited if it is registered.
Dependency(registered, n, visit) ==
  [m \in Names |->
    [w \in Walk |->
       IF m \in registered THEN visit[m][w]
       ELSE [w EXCEPT !.issue = Issue("missing-dependency", n)]]]

\* visitPlugin: the walk after a registered name, `visit' doing its dependencies
VisitPlugin(registered, depends, visit) ==
  [n \in Names |->
    [w \in Walk |->
       IF n \in w.visited THEN w
       ELSE IF n \in w.visiting
         THEN [w EXCEPT !.issue = Issue("dependency-cycle", n)]
       ELSE
         LET after == Each(Alphabetical(depends[n]),
                           Dependency(registered, n, visit), Enter(w, n))
         IN IF after.issue # NoIssue THEN after ELSE Leave(after, n)]]

\* A name is entered at most once, so this is deep enough.
MaxDepth == Cardinality(Names) + 1

Visit(registered, depends) ==
  LET visit[d \in 0 .. MaxDepth] ==
        IF d = 0 THEN [n \in Names |-> [w \in Walk |-> w]]
        ELSE VisitPlugin(registered, depends, visit[d - 1])
  IN visit[MaxDepth]

\* sortPluginRegistrations
SortRegistrations(registered, depends) ==
  Each(Alphabetical(registered), Visit(registered, depends), Start)

-----------------------------------------------------------------------------
(* What the walk is for, said without it                                   *)

\* No set of plugins each of which waits for another one of the set
Sortable(registered, depends) ==
  /\ \A n \in registered : depends[n] \subseteq registered
  /\ \A S \in SUBSET registered : S # {} =>
       \E n \in S : depends[n] \cap S = {}

Position(order, n) == CHOOSE k \in DOMAIN order : order[k] = n

DependenciesFirst(order, depends) ==
  \A n \in ToSet(order) : \A m \in depends[n] :
    m \in ToSet(order) /\ Position(order, m) < Position(order, n)
=============================================================================
