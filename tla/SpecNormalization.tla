------------------------- MODULE SpecNormalization -------------------------
(***************************************************************************)
(* normalizeSpec (packages/gen/src): what authors write with the core's    *)
(* defineResponse and defineDerivedResponse, and the checks that turn a    *)
(* contract into the model all generators work on.  Authoring is a         *)
(* sequence of calls that make response objects; a spec uses some of them. *)
(***************************************************************************)
EXTENDS Collections, FiniteSets, SequencesExt

CONSTANTS
  ResponseNames,
  Handwritten,   \* response literals that carry a derivation: name, derived
  MaxObjects,    \* bound: response objects an author makes
  NoDerived      \* undefined: the `derived' of a response that is not derived

\* A lineage is an array, and undefined is no name.
ASSUME HandwrittenAssumption ==
  /\ NoDerived \notin ResponseNames
  /\ \A literal \in Handwritten :
       literal.name # NoDerived /\ IsSequence(literal.derived.lineage)

VARIABLES
  objects,       \* response objects, in the order they were made
  used,          \* those an operation lists, in the order of the spec
  responseVerdict  \* "open", then the first error of the responses, "none" if accepted

responseVars == <<objects, used, responseVerdict>>

NoError == "none"

-----------------------------------------------------------------------------
(* Authoring                                                               *)

LineageOf(response) ==
  IF response.derived = NoDerived THEN << >> ELSE response.derived.lineage
DepthOf(response) ==
  IF response.derived = NoDerived THEN 0 ELSE response.derived.depth

Derivation(base, name) ==
  [parent |-> base.name, depth |-> DepthOf(base) + 1,
   lineage |-> Append(LineageOf(base), name)]

\* "named": the object carries the hidden metadata of the two functions.
\* "base": which object it was derived from, for the properties.
Make(name, named, derived, base) ==
  /\ Len(objects) < MaxObjects
  /\ objects' = Append(objects, [name |-> name, named |-> named,
                                 derived |-> derived, base |-> base])
  /\ UNCHANGED <<used, responseVerdict>>

DefineResponse(name) == Make(name, TRUE, NoDerived, 0)

DefineDerivedResponse(i, name) ==
  Make(name, TRUE, Derivation(objects[i], name), i)

\* An object literal, or { ...response, name }: the hidden metadata is not
\* enumerable and stays behind, `derived' comes along.  defineResponse around it
\* makes it canonical.
WriteLiteral(literal, named) == Make(literal.name, named, literal.derived, 0)
WriteInline(name) == Make(name, FALSE, NoDerived, 0)
Spread(i, name, named) ==
  /\ objects[i].derived # NoDerived
  /\ Make(name, named, objects[i].derived, 0)

-----------------------------------------------------------------------------
(* Responses                                                               *)

ObjectsOf(list) == [k \in DOMAIN list |-> objects[list[k]]]
UsedObjects == ObjectsOf(used)

\* validateUniqueResponseNames
DuplicateName(responses) ==
  \E k, l \in DOMAIN responses : k < l /\ responses[k].name = responses[l].name

\* validateDerivedResponseMetadata
MetadataError(response) ==
  LET derived == response.derived
      lineage == derived.lineage
  IN  IF derived = NoDerived THEN NoError
      ELSE IF derived.parent = response.name THEN "cycle"
      ELSE IF \/ lineage = << >>
              \/ Last(lineage) # response.name
              \/ Len(lineage) # derived.depth
        THEN "invalid"
      ELSE IF \E k, l \in DOMAIN lineage : k < l /\ lineage[k] = lineage[l]
        THEN "cycle"
      ELSE IF derived.depth > 1 /\ lineage[derived.depth - 1] # derived.parent
        THEN "invalid"
      ELSE NoError

\* The canonical response of a name, in a list without duplicates.
CanonicalNames(responses) ==
  {responses[k].name : k \in {l \in DOMAIN responses : responses[l].named}}
Canonical(responses, name) ==
  responses[CHOOSE k \in DOMAIN responses :
              responses[k].named /\ responses[k].name = name]

ParentOf(response) ==
  IF response.derived = NoDerived THEN NoDerived ELSE response.derived.parent

\* getDerivedResponseChain, from the response up to its root: how it starts, one
\* turn of its loop, and as many as a chain without repetitions can take.
ChainOfOne(response) ==
  [chain |-> <<response.name>>, parent |-> ParentOf(response), error |-> NoError]

Climb(walk, responses) ==
  IF walk.parent = NoDerived \/ walk.error # NoError THEN walk
  ELSE IF walk.parent \in ToSet(walk.chain)
    THEN [walk EXCEPT !.error = "cycle"]
  ELSE IF walk.parent \notin CanonicalNames(responses)
    THEN [walk EXCEPT !.error = "missing"]
  ELSE [walk EXCEPT !.chain = <<walk.parent>> \o walk.chain,
                    !.parent = ParentOf(Canonical(responses, walk.parent))]

DerivedResponseChain(response, responses) ==
  LET walked[n \in 0 .. Len(responses) + 1] ==
        IF n = 0 THEN ChainOfOne(response) ELSE Climb(walked[n - 1], responses)
  IN  walked[Len(responses) + 1]

\* Mutant: only the direct parent has to exist.
GraphErrorShallow(response, responses) ==
  IF response.derived = NoDerived THEN NoError
  ELSE IF response.derived.parent \in CanonicalNames(responses)
    THEN NoError ELSE "missing"

\* validateDerivedResponseAgainstCanonicalGraph
GraphError(response, responses) ==
  LET walk == DerivedResponseChain(response, responses)
  IN  IF response.derived = NoDerived THEN NoError
      ELSE IF walk.error # NoError THEN walk.error
      ELSE IF \/ response.derived.depth # Len(walk.chain) - 1
              \/ response.derived.lineage # Tail(walk.chain)
        THEN "invalid"
      ELSE NoError

\* validateUniqueResponseNames, then collectCanonicalResponses: the metadata of
\* the named ones, the graph, and the inline ones.
ResponsesError(responses) ==
  LET canonical == {k \in DOMAIN responses : responses[k].named}
      named == Selected(responses, canonical)
      inline == Selected(responses, DOMAIN responses \ canonical)
      metadata == [k \in DOMAIN named |-> MetadataError(named[k])]
      graph == [k \in DOMAIN named |-> GraphError(named[k], responses)]
      inlineErrors ==
        [k \in DOMAIN inline |->
           FirstReal(<<MetadataError(inline[k]),
                       GraphError(inline[k], responses)>>)]
  IN  IF DuplicateName(responses) THEN "duplicate"
      ELSE FirstReal(metadata \o graph \o inlineErrors)

NormalizeResponses(list) ==
  /\ used' = list
  /\ responseVerdict' = ResponsesError(ObjectsOf(list))
  /\ UNCHANGED objects

\* The objects an operation may list, each at most once.
Listings ==
  {list \in BoundedSeq(DOMAIN objects, Len(objects)) :
     list # << >> /\ IsInjective(list)}

AuthoringInit == objects = << >> /\ used = << >> /\ responseVerdict = "open"

AuthoringNext ==
  /\ responseVerdict = "open"
  /\ \/ \E list \in Listings : NormalizeResponses(list)
     \/ \E name \in ResponseNames :
          \/ DefineResponse(name)
          \/ WriteInline(name)
          \/ \E i \in DOMAIN objects : DefineDerivedResponse(i, name)
          \/ \E i \in DOMAIN objects, named \in BOOLEAN : Spread(i, name, named)
     \/ \E literal \in Handwritten, named \in BOOLEAN :
          WriteLiteral(literal, named)

-----------------------------------------------------------------------------
(* Properties                                                              *)

\* Reference, local: a derived response continues the lineage of its parent,
\* which is a canonical response of the same spec.
Continues(response, responses) ==
  \/ response.derived = NoDerived
  \/ /\ response.derived.parent \in CanonicalNames(responses)
     /\ LET parent == Canonical(responses, response.derived.parent)
        IN  /\ response.derived.depth = DepthOf(parent) + 1
            /\ response.derived.lineage
                 = Append(LineageOf(parent), response.name)

\* What the two functions make by themselves: responses whose bases are used too,
\* all with names of their own.
WellAuthored ==
  LET made == ToSet(used)
  IN  /\ \A i \in made :
           /\ objects[i].derived = NoDerived \/ objects[i].base # 0
           /\ objects[i].base \in made \cup {0}
           /\ objects[i].base # 0 => objects[objects[i].base].named
      /\ \A i, j \in made : objects[i].name = objects[j].name => i = j

\* Walking every chain to its root, with checks on the way for cycles, lengths,
\* order and missing parents, accepts exactly the specs in which names are unique
\* and every derived response continues its parent's lineage: renamed copies,
\* handwritten lineages and cycles included.  Among them are all families made by
\* defineResponse and defineDerivedResponse alone, whatever their order in the
\* spec.
NormalizationIsExact ==
  responseVerdict # "open" =>
    /\ responseVerdict = NoError <=>
         /\ ~DuplicateName(UsedObjects)
         /\ \A k \in DOMAIN used : Continues(UsedObjects[k], UsedObjects)
    /\ WellAuthored => responseVerdict = NoError
=============================================================================
