--------------------------- MODULE RouteAgreement ---------------------------
(***************************************************************************)
(* Four pieces of code read the paths of a contract, each in its own way,  *)
(* and have to agree: the router of the server, its path matcher for       *)
(* middleware guards, the generated client that builds the URL, and the    *)
(* generated Hono router, which relies on the order routes are written in. *)
(***************************************************************************)
EXTENDS Router, SequencesExt

CONSTANTS
  Methods,       \* methods in the order of METHOD_PRIORITY
  Alphabet,      \* the texts of segments in alphabetical order
  Requests,      \* request paths: sequences of segments
  Values,        \* path parameter values a caller may pass
  DotSegments,   \* "." and ".."
  Escaped        \* values that encodeURIComponent changes

ASSUME RequestsAssumption ==
  \A request \in Requests :
    /\ IsSequence(request)
    /\ \A i \in DOMAIN request :
         request[i] \in {[text |-> request[i].text, encoded |-> coded] : coded \in BOOLEAN}

\* What encodeURIComponent has written decodeURIComponent can read.
ASSUME EscapedAssumption == Escaped \cap Malformed = {}

-----------------------------------------------------------------------------
(* Generated client: ApiClient.createPath                                  *)

PathParameterNames(path) ==
  UNION {{piece.text : piece \in {p \in ToSet(PiecesOf(path[i])) : p.hole}} :
           i \in 1 .. Len(path)}

\* createPath writes each value into its hole, encodePathParameter having encoded it.
Fill(pieces, params) ==
  [text |-> FlattenSeq([k \in DOMAIN pieces |->
              IF pieces[k].hole THEN params[pieces[k].text] ELSE pieces[k].text]),
   encoded |-> \E k \in DOMAIN pieces :
                 pieces[k].hole /\ params[pieces[k].text] \in Escaped]

\* createPath refuses parameters the path does not have, missing ones and
\* values that are dot segments.
PathParameterError(path, params) ==
  \/ DOMAIN params # PathParameterNames(path)
  \/ \E name \in DOMAIN params : params[name] \in DotSegments

CreatePath(path, params) ==
  [i \in 1 .. Len(path) |-> Fill(PiecesOf(path[i]), params)]

-----------------------------------------------------------------------------
(* Path matcher of guards (PathMatcher.ts)                                 *)

\* pathMatcher(pattern): a pattern that ends in a wildcard compares its prefix
\* literally, a parameter included; the others match segment by segment.
GuardMatches(pattern, prefixOnly, segments) ==
  LET parts == ToSegments(segments)
      same(i) == ~parts[i].encoded /\ parts[i].text = pattern[i].text
  IN  IF prefixOnly
        THEN /\ Len(parts) >= Len(pattern)
             /\ \A i \in 1 .. Len(pattern) : ~pattern[i].param /\ same(i)
        ELSE /\ Len(parts) = Len(pattern)
             /\ \A i \in 1 .. Len(pattern) : pattern[i].param \/ same(i)

-----------------------------------------------------------------------------
(* Order of generated routes (gen/src/helpers/routeSort.ts)                *)

Place(x, order) == CHOOSE i \in 1 .. Len(order) : order[i] = x
MethodPriority(method) == Place(method, Methods)

\* comparePathSegments: static before parameter, then by the alphabet.
SegmentBefore(a, b) ==
  \/ ~a.param /\ b.param
  \/ a.param = b.param /\ Place(a.text, Alphabet) < Place(b.text, Alphabet)

\* compareRoutes: shallow paths first, then the first segment that differs,
\* then the method.
RouteBefore(a, b) ==
  LET differing == {i \in 1 .. Len(a.path) : a.path[i] # b.path[i]}
  IN  \/ Len(a.path) < Len(b.path)
      \/ /\ Len(a.path) = Len(b.path)
         /\ IF differing = {}
              THEN MethodPriority(a.method) < MethodPriority(b.method)
              ELSE SegmentBefore(a.path[Least(differing)],
                                 b.path[Least(differing)])

\* Hono matches whole paths, an empty segment being one, for the method asked
\* for, and runs the first handler in the order of registration.  It decodes the path
\* before it compares anything.  It serves HEAD as GET, and the generator leaves out
\* the HEAD operations of a contract.
HonoMatches(route, method, segments) ==
  /\ route.method = IF method = "HEAD" THEN "GET" ELSE method
  /\ Len(segments) = Len(route.path)
  /\ \A i \in 1 .. Len(segments) :
       IF route.path[i].param THEN segments[i].text # ""
       ELSE segments[i].text = route.path[i].text

RoutesOf(r) == {Routers[r][i] : i \in DOMAIN Routers[r]}

HonoDispatch(r, method, segments) ==
  LET matching == {route \in RoutesOf(r) : HonoMatches(route, method, segments)}
  IN  IF matching = {} THEN NoMatch
      ELSE [found |-> TRUE,
            route |-> CHOOSE first \in matching :
                        \A other \in matching \ {first} : RouteBefore(first, other)]

-----------------------------------------------------------------------------
(* Properties                                                              *)

Fits(node, segments) ==
  /\ Len(node) = Len(segments)
  /\ \A i \in 1 .. Len(node) :
       node[i].param \/ (~segments[i].encoded /\ segments[i].text = node[i].text)

\* Of two nodes a request fits, the more special one is static where they
\* first differ.
MoreSpecial(a, b) ==
  a # b /\ ~a[Least({i \in 1 .. Len(a) : a[i] # b[i]})].param

\* Reference: the most special of the registered paths a request fits.
BestNodes(segments) ==
  LET fitting == {node \in {entry.node : entry \in table} :
                    Fits(node, segments)}
  IN  {node \in fitting : \A other \in fitting :
                            node = other \/ MoreSpecial(node, other)}

Bindings(route, segments) ==
  [name \in {NameOf(route.path[i]) : i \in {j \in 1 .. Len(route.path) :
                                              route.path[j].param}} |->
     DecodeSegment(segments[CHOOSE i \in 1 .. Len(route.path) :
                              /\ route.path[i].param
                              /\ NameOf(route.path[i]) = name])]

AllMethods == {Methods[i] : i \in DOMAIN Methods}

\* No path that has been added, to its end or not, repeats the name of a parameter.
NamedOnce ==
  \A r \in mounted \cup DOMAIN failed : \A route \in RoutesOf(r) : NamesOnce(route.path)

\* The backtracking walk of traverse, over a tree that mounts have filled in any
\* order and that failed mounts have left their traces in, ends at the most
\* special registered path; HEAD is served by GET, and a path without the method
\* lists its methods (405) while an unknown path lists none (404).  The handler gets
\* the parameters of its own path and no others, as long as no path in the tree
\* repeats a name: all levels of the walk write to one object, so a failed branch of
\* "/:id/x/:id" takes the "id" of a path that is served with it.
DispatchIsBest ==
  mounted \cup DOMAIN failed # {} => \A request \in Requests :
    LET segments == ToSegments(request)
        best == BestNodes(segments)
        at(method) == {entry \in table : entry.node \in best
                                         /\ entry.method = method}
        allowed == {entry.method : entry \in {e \in table : e.node \in best}}
    IN  /\ AllowedMethods(request) =
             allowed \cup (IF "GET" \in allowed THEN {"HEAD"} ELSE {})
        /\ \A method \in AllMethods :
             LET serving == IF at(method) = {} /\ method = "HEAD"
                              THEN at("GET") ELSE at(method)
                 match == Match(method, request)
             IN  /\ match.found <=> serving # {}
                 /\ match.found =>
                      /\ \E entry \in serving : entry.route = match.route
                      /\ NamedOnce => match.params = Bindings(match.route, segments)

\* A path that the router and the client read differently
Embeds(path) == \E i \in 1 .. Len(path) : path[i] \in DOMAIN Embedding
Passable == {value \in Values : value # "" /\ value \notin Separators}

\* The parameters as the caller passed them
Unchanged(params) ==
  [name \in DOMAIN params |-> [text |-> params[name], encoded |-> FALSE]]

\* What the generated client sends for an operation reaches that operation, with
\* the parameters the caller passed, whatever other routers were mounted before
\* or after and failed half-way; except where a static path of the contract says
\* so, for a path the contract itself writes with a dot segment, and for values the
\* router keeps encoded or drops (empty ones).  It is claimed of operations whose
\* parameters are whole segments: the router takes ":id.json" for one parameter of that
\* name and a colon inside a segment for text, which the client takes for parameters.
\* And it is claimed of the parameters while NamedOnce holds.
ClientReachesItsOperation ==
  \A r \in mounted : \A route \in RoutesOf(r) :
    \A params \in [PathParameterNames(route.path) -> Values] :
      LET url == CreatePath(route.path, params)
          match == Match(route.method, url)
      IN  \/ PathParameterError(route.path, params)
          \/ \E name \in DOMAIN params : params[name] \notin
               Passable \cup DotSegments
          \/ Embeds(route.path)
          \/ \E i \in 1 .. Len(url) : ~route.path[i].param /\ url[i].text \in DotSegments
          \/ \E node \in BestNodes(url) : node # Leaf(route.path)
          \/ /\ match.found
             /\ match.route = route
             /\ NamedOnce => match.params = Unchanged(params)
             /\ \A i \in 1 .. Len(url) : url[i].text \notin DotSegments

GuardsCover(request, method) ==
  LET match == Match(method, request)
      path == match.route.path
  IN  match.found =>
        /\ GuardMatches(path, FALSE, request)
        /\ \A n \in 0 .. Len(path) :
             (\A i \in 1 .. n : ~path[i].param) =>
               GuardMatches(SubSeq(path, 1, n), TRUE, request)

\* No segment of the request spells a static segment in percent-encoding.
SpelledOut(r, request) ==
  \A route \in RoutesOf(r) : \A i \in DOMAIN request, k \in DOMAIN route.path :
    request[i].encoded => route.path[k] # Static(request[i].text)

HonoAgrees(r, request, method) ==
  LET match == Match(method, request)
  IN  (/\ match.found /\ match.route.method # "HEAD"
       /\ request = ToSegments(request) /\ SpelledOut(r, request)
       /\ \A route \in RoutesOf(r) : ~Embeds(route.path)) =>
        HonoDispatch(r, method, request) = [found |-> TRUE, route |-> match.route]

\* The other two readers agree with the router.  A guard on a route's own path, or
\* on a static prefix of it, covers every request the router dispatches to that
\* route, however its slashes are written; and a resource served by the generated
\* Hono router, which takes the first match in the order compareRoutes writes the
\* routes in, answers with the operation the generated server would, unless the
\* contract has a HEAD operation of its own.  Left out are resources with parameters
\* inside a segment, which Hono's own syntax reads, and requests that percent-encode
\* a static segment: "/todos/%65xport" is "/todos/export" to Hono and "/todos/:id" to
\* the router.
ReadersAgree ==
  mounted \cup DOMAIN failed # {} =>
    \A request \in Requests, method \in AllMethods :
      /\ GuardsCover(request, method)
      /\ \A r \in mounted : (mounted = {r} /\ failed = << >>) =>
           HonoAgrees(r, request, method)
=============================================================================
