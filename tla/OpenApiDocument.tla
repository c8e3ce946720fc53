--------------------------- MODULE OpenApiDocument ---------------------------
(***************************************************************************)
(* The bodies and responses of a contract as its OpenAPI document has      *)
(* them: body normalization (bodyNormalization.ts of packages/gen), the    *)
(* merging of responses of one status, the registry of schema components   *)
(* and the pointers of references and warnings (packages/openapi).         *)
(*                                                                         *)
(* A part (a request or a response) declares a body schema and headers;    *)
(* Content-Type is kept apart from the others.  What a schema accepts is a *)
(* set of values.  A document pointer below the headers of a response is   *)
(* <<name>> for a header's schema and <<name, i>> for its i-th branch.     *)
(***************************************************************************)
EXTENDS Naturals, FiniteSets, SequencesExt, Collections

CONSTANTS
  Operations,     \* sequence of [id, request, responses], requests and responses parts
  Schemas,        \* body schemas: [sort, accepts, inner]
  NoSchema,
  LowerCase,      \* of the spellings of a header's name
  HeaderSchemas,  \* header schemas: [accepts, array, selfReferring, warned]
  Essence,        \* of the media types, without parameters
  JsonTypes, TextTypes  \* of the essences

ASSUME SchemasAssumption ==
  /\ IsFiniteSet(DOMAIN Schemas)
  /\ \A s \in DOMAIN Schemas : Schemas[s].inner \in DOMAIN Schemas

\* A part has one spelling per header, and known schemas.
ASSUME OperationsAssumption ==
  /\ IsSequence(Operations)
  /\ \A op \in Range(Operations) :
       /\ IsSequence(op.responses)
       /\ \A response \in Range(op.responses) : response.status \in Nat \ {0}
       /\ \A part \in {op.request} \cup Range(op.responses) :
            /\ part.body \in DOMAIN Schemas \cup {NoSchema}
            /\ IsFiniteSet(part.contentType.values) /\ IsSequence(part.headers)
            /\ \A h \in Range(part.headers) :
                 /\ h.schema \in DOMAIN HeaderSchemas
                 /\ \A g \in Range(part.headers) :
                      LowerCase[g.name] = LowerCase[h.name] => g = h

-----------------------------------------------------------------------------
(* Normalization of bodies                                                 *)

\* extractContentTypeHeader: one header with one literal value
Literal(part) ==
  part.contentType.declared /\ Cardinality(part.contentType.values) = 1

\* resolveTransport; the server's adapter has the same classes.
Transport(type) ==
  IF Essence[type] \in JsonTypes THEN "json"
  ELSE IF Essence[type] \in TextTypes THEN "text" ELSE "raw"

\* inferBodyMediaType: the type of the schema under its wrappers
InferBodyMediaType(sort) ==
  CASE sort = "string" -> "text/plain"
    [] sort = "object" -> "application/json"
    [] OTHER -> "application/octet-stream"

MediaType(part) ==
  IF Literal(part) THEN CHOOSE type \in part.contentType.values : TRUE
  ELSE InferBodyMediaType(Schemas[part.body].sort)

RawFallback(part) ==
  ~Literal(part) /\ Schemas[part.body].sort \notin {"string", "object"}

\* normalizeBody warns of what it had to guess.
BodyWarnings(part) ==
  (IF Literal(part) THEN {}
   ELSE {IF part.contentType.declared THEN "ambiguous-content-type-header"
                                      ELSE "missing-content-type-header"})
    \cup (IF RawFallback(part) THEN {"raw-body-media-type-fallback"} ELSE {})

-----------------------------------------------------------------------------
(* Components                                                              *)

Binary == "openapi-binary"
UsesBinary(part) ==
  /\ Essence[MediaType(part)] = "application/octet-stream"
  /\ RawFallback(part) \/ Schemas[part.body].sort = "any"

IsCanonical(response) == response.source = "canonical"

Variants(op, status) ==
  Selected(op.responses, {k \in DOMAIN op.responses : op.responses[k].status = status})

ResponseBase(op, response) ==
  (IF IsCanonical(response) THEN "" ELSE op.id) \o response.name \o "Body"

\* Where something is met for the first time
Firsts(keys) == {k \in DOMAIN keys : \A j \in 1 .. k - 1 : keys[j] # keys[k]}

\* groupResponsesByStatus: in the order in which they are first met
Statuses(op) ==
  LET statuses == [k \in DOMAIN op.responses |-> op.responses[k].status]
  IN  Selected(statuses, Firsts(statuses))

\* What registers a schema: canonical responses first, then each operation's
\* request and its responses, but for those that are a reference to a component.
RegistrationsOf(part, base) ==
  IF part.body = NoSchema \/ UsesBinary(part) THEN << >>
  ELSE <<[schema |-> Schemas[part.body].inner, base |-> base]>>

CanonicalOf(op) ==
  Selected(op.responses, {k \in DOMAIN op.responses : IsCanonical(op.responses[k])})
CanonicalBodies(op) ==
  FlattenSeq([k \in DOMAIN CanonicalOf(op) |->
    RegistrationsOf(CanonicalOf(op)[k], CanonicalOf(op)[k].name \o "Body")])

BodiesAt(op, status) ==
  LET variants == Variants(op, status)
  IN  IF Len(variants) = 1 /\ IsCanonical(variants[1]) THEN << >>
      ELSE FlattenSeq([v \in DOMAIN variants |->
             RegistrationsOf(variants[v], ResponseBase(op, variants[v]))])
BodiesOfOperation(op) ==
  RegistrationsOf(op.request, op.id \o "RequestBody")
    \o FlattenSeq([k \in DOMAIN Statuses(op) |-> BodiesAt(op, Statuses(op)[k])])

Registrations ==
  FlattenSeq([k \in DOMAIN Operations |-> CanonicalBodies(Operations[k])])
    \o FlattenSeq([k \in DOMAIN Operations |-> BodiesOfOperation(Operations[k])])

\* nextComponentName: Foo, Foo_2, Foo_3; no more are needed than there are schemas.
SuffixNumbers == 2 .. Cardinality(DOMAIN Schemas) + 2
Suffixed(base, k) == base \o "_" \o ToString(k)
NextComponentName(base, taken) ==
  IF base \notin taken THEN base
  ELSE Suffixed(base, Least({k \in SuffixNumbers : Suffixed(base, k) \notin taken}))

ASSUME SuffixesAssumption ==
  \A registration \in Range(Registrations) : \A j, k \in SuffixNumbers :
    Suffixed(registration.base, j) = Suffixed(registration.base, k) => j = k

\* register: a schema, known by its identity, is named when it is met first.
Registered == Firsts([n \in DOMAIN Registrations |-> Registrations[n].schema])
Register ==
  LET name[n \in Registered] ==
        NextComponentName(Registrations[n].base, {name[m] : m \in Registered \cap 1 .. n - 1})
  IN  name

\* The name of each schema
ComponentNames ==
  [schema \in {Registrations[n].schema : n \in Registered} |->
     Register[CHOOSE n \in Registered : Registrations[n].schema = schema]]

BodySchema(part) ==
  IF UsesBinary(part) THEN Binary
  ELSE ComponentNames[Schemas[part.body].inner]

\* buildResponseBody, buildMergedResponseBody: of each media type, the schemas
\* without repetition
Content(parts) ==
  LET bodies == {k \in DOMAIN parts : parts[k].body # NoSchema}
  IN  [type \in {MediaType(parts[k]) : k \in bodies} |->
         {BodySchema(parts[k]) : k \in {j \in bodies : MediaType(parts[j]) = type}}]

\* buildRequestBody
RequestContent(request) == Content(<<request>>)

-----------------------------------------------------------------------------
(* Headers                                                                 *)

\* buildHeaderObjects: at is where the schema's references and warnings point.
HeaderObjects(part) ==
  [k \in DOMAIN part.headers |->
     [name |-> part.headers[k].name, schema |-> part.headers[k].schema,
      required |-> part.headers[k].required /\ ~part.headersOptional,
      at |-> <<part.headers[k].name>>]]

\* headerAppearancesFor
Appearances(variants, lower) ==
  LET named(part) == {k \in DOMAIN part.headers : LowerCase[part.headers[k].name] = lower}
  IN  FlattenSeq([v \in DOMAIN variants |->
        Selected(HeaderObjects(variants[v]), named(variants[v]))])

\* stableStringifyJsonSchema: references are part of a schema.
SchemaKey(header) ==
  <<header.schema,
    IF HeaderSchemas[header.schema].selfReferring THEN header.at ELSE << >> >>

\* distinctHeaderSchemaAppearances
DistinctSchemas(appearances) ==
  Selected(appearances,
           Firsts([k \in DOMAIN appearances |-> SchemaKey(appearances[k])]))

Rebase(pointer, from, to) == IF pointer = from THEN to ELSE pointer

\* mergedHeaderSchema: a reference is rebased if it is below the merged spelling.
Branches(name, distinct) ==
  [k \in DOMAIN distinct |->
     [schema |-> distinct[k].schema,
      ref |-> IF Len(distinct) = 1 THEN distinct[k].at
              ELSE Rebase(distinct[k].at, <<name>>, <<name, k>>)]]

\* mergedHeaderSchemaWarnings: warnings of any spelling are rebased to the merged
\* one first.
HeaderWarnings(name, appearances, distinct) ==
  {[schema |-> h.schema,
    at |-> IF Len(distinct) = 1 THEN <<name>>
           ELSE <<name, Least({k \in DOMAIN distinct : SchemaKey(distinct[k]) = SchemaKey(h)})>>] :
     h \in {a \in Range(appearances) : HeaderSchemas[a.schema].warned}}

\* Mutant: required if it is wherever it appears.
MergeHeaderRequired(variants, lower) ==
  LET appearances == Appearances(variants, lower)
      distinct == DistinctSchemas(appearances)
      name == appearances[1].name
  IN  [name |-> name,
       required |-> \A h \in Range(appearances) : h.required,
       branches |-> Branches(name, distinct),
       warnings |-> HeaderWarnings(name, appearances, distinct)]

\* mergeHeader
MergeHeader(variants, lower) ==
  LET appearances == Appearances(variants, lower)
      distinct == DistinctSchemas(appearances)
      name == appearances[1].name
  IN  [name |-> name,
       required |-> /\ \A v \in DOMAIN variants :
                         \E h \in Range(HeaderObjects(variants[v])) :
                           LowerCase[h.name] = lower
                    /\ \A h \in Range(appearances) : h.required,
       branches |-> Branches(name, distinct),
       warnings |-> HeaderWarnings(name, appearances, distinct)]

\* buildMergedHeaders; a response alone at its status has its headers as they are.
MergedHeaders(variants) ==
  LET lowerNames == UNION {{LowerCase[h.name] : h \in Range(variants[v].headers)} :
                             v \in DOMAIN variants}
  IN  [lower \in lowerNames |-> MergeHeader(variants, lower)]

-----------------------------------------------------------------------------
(* The document                                                            *)

Document ==
  [k \in DOMAIN Operations |->
     LET op == Operations[k] IN
     [request |-> RequestContent(op.request),
      responses |-> [status \in {r.status : r \in Range(op.responses)} |->
        [content |-> Content(Variants(op, status)),
         headers |-> MergedHeaders(Variants(op, status))]]]]

\* The schemas a reader of the document finds under a component's name
Components(name) ==
  IF name = Binary THEN {} ELSE {s \in DOMAIN ComponentNames : ComponentNames[s] = name}
=============================================================================
