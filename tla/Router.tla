------------------------------- MODULE Router -------------------------------
(***************************************************************************)
(* The route table of TypeweaverApp (packages/server/src/lib/Router.ts):   *)
(* the radix tree that mounted routers fill and requests are looked up in. *)
(* A tree node is the sequence of segments that lead to it, every          *)
(* parameter being the one wildcard branch.  A node that exists without    *)
(* methods and without a parameter branch behaves like one that does not   *)
(* exist, so the tree is what it names and what it maps.                   *)
(***************************************************************************)
EXTENDS Collections, FiniteSets

CONSTANTS
  Routers,      \* the routers an application may mount, each a sequence of routes
  Embedding,    \* segments with a parameter inside -> what createPath makes of them
  Separators,   \* decoded values with a slash, a backslash or only dots
  Malformed     \* texts that decodeURIComponent refuses

\* A segment of a route's path: the router takes one that begins with a colon for a
\* parameter and all that follows, ".json" or a second colon included, for its name.
Static(text) == [param |-> FALSE, text |-> text]
Param(name) == [param |-> TRUE, text |-> name]
Wildcard == Param("")

NameOf(segment) == segment.text

\* getPathParameterNames and createPath look for :([A-Za-z0-9_]+) anywhere in the
\* path: a segment is to them a sequence of holes and of the texts between.
Hole(name) == [hole |-> TRUE, text |-> name]
Fixed(text) == [hole |-> FALSE, text |-> text]
PiecesOf(segment) ==
  IF segment \in DOMAIN Embedding THEN Embedding[segment]
  ELSE <<[hole |-> segment.param, text |-> segment.text]>>

\* add splits a path with toSegments, which leaves no segment empty.
WellFormed(path) ==
  /\ IsSequence(path)
  /\ \A i \in DOMAIN path :
       /\ path[i] \in {Static(path[i].text), Param(path[i].text)}
       /\ path[i].param \/ path[i].text # ""

\* No two branches on the way of a path bear one name.
NamesOnce(path) ==
  \A i, j \in DOMAIN path :
    path[i].param /\ path[j].param /\ NameOf(path[i]) = NameOf(path[j]) => i = j

ASSUME RoutersAssumption ==
  \A r \in DOMAIN Routers :
    IsSequence(Routers[r]) /\ \A n \in DOMAIN Routers[r] : WellFormed(Routers[r][n].path)

VARIABLES
  names,    \* parameter name of each node with a parameter branch
  table,    \* entries: node, method, route
  mounted,  \* routers mounted without an error
  failed    \* routers whose mounting threw: router -> error

routerVars == <<names, table, mounted, failed>>

NodeOf(path, n) ==
  [k \in 1 .. n |-> IF path[k].param THEN Wildcard ELSE path[k]]
Leaf(path) == NodeOf(path, Len(path))

-----------------------------------------------------------------------------
(* Registration                                                            *)

\* Positions at which add would rename an existing parameter branch.
Conflicts(known, path) ==
  {i \in 1 .. Len(path) :
     /\ path[i].param
     /\ NodeOf(path, i - 1) \in DOMAIN known
     /\ known[NodeOf(path, i - 1)] # NameOf(path[i])}

\* The parameter names once the first n segments have been walked.
Walk(known, path, n) ==
  LET fresh == {NodeOf(path, i - 1) : i \in {j \in 1 .. n : path[j].param}}
                 \ DOMAIN known
  IN  [node \in DOMAIN known \cup fresh |->
         IF node \in DOMAIN known THEN known[node] ELSE NameOf(path[Len(node) + 1])]

\* add keeps what it has walked when it throws.
Add(tree, route) ==
  LET path == route.path
      conflicts == Conflicts(tree.names, path)
      walked == Walk(tree.names, path,
                     IF conflicts = {} THEN Len(path) ELSE Least(conflicts) - 1)
      taken == \E entry \in tree.table :
                 entry.node = Leaf(path) /\ entry.method = route.method
  IN  IF conflicts # {}
        THEN [names |-> walked, table |-> tree.table, error |-> "conflict"]
      ELSE IF taken
        THEN [names |-> walked, table |-> tree.table, error |-> "duplicate"]
      ELSE [names |-> walked, error |-> "none",
            table |-> tree.table \cup {[node |-> Leaf(path),
                                        method |-> route.method,
                                        route |-> route]}]

\* mountRouter: the routes one by one, up to the first that is refused.
AddAll(tree, routes) ==
  LET after[i \in 0 .. Len(routes)] ==
        IF i = 0 THEN [names |-> tree.names, table |-> tree.table,
                       error |-> "none"]
        ELSE IF after[i - 1].error # "none" THEN after[i - 1]
        ELSE Add(after[i - 1], routes[i])
  IN  after[Len(routes)]

Mount(r) ==
  LET tree == AddAll([names |-> names, table |-> table], Routers[r])
  IN  /\ r \notin mounted \cup DOMAIN failed
      /\ names' = tree.names /\ table' = tree.table
      /\ IF tree.error = "none"
           THEN mounted' = mounted \cup {r} /\ UNCHANGED failed
           ELSE failed' = With(failed, r, tree.error) /\ UNCHANGED mounted

RouterInit == names = << >> /\ table = {} /\ mounted = {} /\ failed = << >>

-----------------------------------------------------------------------------
(* Lookup.  A segment of a request is its text, decoded, and whether it     *)
(* came percent-encoded.                                                   *)

\* toSegments: empty segments do not count.
ToSegments(segments) ==
  Selected(segments, {i \in DOMAIN segments : segments[i].text # ""})

\* decodePathSegment
DecodeSegment(segment) ==
  IF segment.encoded /\ segment.text \notin Separators \cup Malformed
    THEN [segment EXCEPT !.encoded = FALSE] ELSE segment

HasMethods(node) == \E entry \in table : entry.node = node

\* The nodes a request of these segments may come to
NodesOn(segments) ==
  {node \in Seq({Wildcard} \cup {Static(segments[i].text) : i \in DOMAIN segments}) :
     Len(node) <= Len(segments)}

Miss(node, params) == [node |-> node, hit |-> FALSE, params |-> params]

\* The params once the parameter branch has been tried: all levels share one object,
\* and a level returns what the walk has written there since, a value or none for a
\* deleted name.
Written(node, segment, left, right) ==
  LET before == With(left.params, names[node], {DecodeSegment(segment)})
  IN  [name \in DOMAIN right.params \cup DOMAIN before |->
         IF name \in DOMAIN right.params THEN right.params[name] ELSE before[name]]

\* Mutant: a name bound on a branch that failed stays in the params.
TryBranchesLeaving(node, segment, left, right) ==
  IF left.hit /\ HasMethods(left.node) THEN left
  ELSE IF node \notin DOMAIN names THEN Miss(node, left.params)
  ELSE IF right.hit /\ HasMethods(right.node)
    THEN [right EXCEPT !.params = Written(node, segment, left, right)]
  ELSE Miss(node, Written(node, segment, left, right))

\* The static branch first, then the parameter branch; a level that fails deletes
\* the name it has bound.
TryBranches(node, segment, left, right) ==
  IF left.hit /\ HasMethods(left.node) THEN left
  ELSE IF node \notin DOMAIN names THEN Miss(node, left.params)
  ELSE IF right.hit /\ HasMethods(right.node)
    THEN [right EXCEPT !.params = Written(node, segment, left, right)]
  ELSE Miss(node, With(Written(node, segment, left, right), names[node], {}))

\* traverse at one node, given what it returns below
TraverseAt(node, segments, below) ==
  IF Len(node) = Len(segments) THEN [node |-> node, hit |-> TRUE, params |-> << >>]
  ELSE LET segment == segments[Len(node) + 1]
       IN  TryBranches(node, segment,
             IF segment.encoded THEN Miss(node, << >>)
             ELSE below[Append(node, Static(segment.text))],
             below[Append(node, Wildcard)])

Traverse(segments) ==
  LET walk[node \in NodesOn(segments)] == TraverseAt(node, segments, walk)
  IN  walk[<< >>]

Present(params) ==
  [name \in {n \in DOMAIN params : params[n] # {}} |-> CHOOSE v \in params[name] : TRUE]

NoMatch == [found |-> FALSE]

EntriesFor(node, method) ==
  {entry \in table : entry.node = node /\ entry.method = method}

\* match: HEAD falls back to GET.
Match(method, segments) ==
  LET reached == Traverse(ToSegments(segments))
      exact == EntriesFor(reached.node, method)
      usable == IF exact = {} /\ method = "HEAD"
                  THEN EntriesFor(reached.node, "GET") ELSE exact
  IN  IF ~reached.hit \/ usable = {} THEN NoMatch
      ELSE [found |-> TRUE, route |-> (CHOOSE entry \in usable : TRUE).route,
            params |-> Present(reached.params)]

\* matchPath: the Allow header of a 405, or nothing for a 404.
AllowedMethods(segments) ==
  LET reached == Traverse(ToSegments(segments))
      methods == {entry.method : entry \in {e \in table : e.node = reached.node}}
  IN  IF ~reached.hit THEN {}
      ELSE IF "GET" \in methods THEN methods \cup {"HEAD"} ELSE methods
=============================================================================
