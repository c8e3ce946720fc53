----------------------- MODULE ContractNormalization -----------------------
(***************************************************************************)
(* The rest of normalizeSpec: security schemes and requirements with their *)
(* inheritance (contractNormalization.ts), resources, operations, routes.  *)
(* An accepted contract becomes routers, one per resource.                 *)
(***************************************************************************)
EXTENDS Router, SequencesExt

CONSTANTS
  Contracts,    \* security schemes, security and resources of a specification
  Undeclared,   \* a security field that is left out
  Unsupported   \* operation ids and resource names generators cannot use

ASSUME ContractsAssumption ==
  \A c \in Contracts :
    /\ IsSequence(c.resources)
    /\ \A n \in DOMAIN c.resources : c.resources[n].name \in DOMAIN Routers

VARIABLES
  contract,
  verdict     \* "open", then the first error of the contract, "none" if it is accepted

contractVars == <<contract, verdict>>

Check(holds, error) == IF holds THEN "none" ELSE error

Errors(seq, error(_)) == FirstReal([k \in DOMAIN seq |-> error(seq[k])])

-----------------------------------------------------------------------------
(* Security.  A requirement is the sequence of its schemes, each with the   *)
(* scopes it asks for; requirements are alternatives.                       *)

SchemeNames(schemes) == {schemes[k].name : k \in DOMAIN schemes}
SchemeNamed(schemes, name) ==
  schemes[CHOOSE k \in DOMAIN schemes : schemes[k].name = name]

\* normalizeSecuritySchemes; what validateScheme looks at is one flag.
SchemesError(schemes) ==
  FirstReal([k \in DOMAIN schemes |->
    IF ~schemes[k].wellFormed THEN "scheme"
    ELSE IF \E l \in 1 .. k - 1 : schemes[l].name = schemes[k].name
      THEN "duplicateScheme"
    ELSE "none"])

\* validateSchemeScopes
ScopesError(entry, schemes) ==
  IF entry.scheme \notin SchemeNames(schemes) THEN "unknownScheme"
  ELSE LET scheme == SchemeNamed(schemes, entry.scheme)
       IN  CASE scheme.kind = "oauth2" ->
                  IF entry.scopes \subseteq scheme.scopes
                    THEN "none" ELSE "requirement"
             [] scheme.kind \in {"http", "apiKey"} ->
                  IF entry.scopes = {} THEN "none" ELSE "requirement"
             [] OTHER -> "none"

\* validateSecurityRequirements
SecurityError(declared, schemes) ==
  IF declared = Undeclared THEN "none"
  ELSE Errors(declared,
         LAMBDA requirement :
           IF requirement = << >> THEN "requirement"
           ELSE Errors(requirement, LAMBDA entry : ScopesError(entry, schemes)))

\* Mutant: an empty list of requirements is taken for an absent one.
ResolveSecurityIfAny(declared, inherited) ==
  IF declared \in {Undeclared, << >>} THEN inherited ELSE declared

\* resolveSecurity
ResolveSecurity(declared, inherited) ==
  IF declared = Undeclared THEN inherited ELSE declared

\* The security of an operation once spec, resource and operation are resolved.
NormalizedSecurity(c, resource, operation) ==
  ResolveSecurity(operation.security,
    ResolveSecurity(resource.security, ResolveSecurity(c.security, << >>)))

\* validateAuthorizationHeader: the operation's own schema of the header has to
\* take what each HTTP scheme it refers to would send.
HeaderError(security, operation, schemes) ==
  LET entries == UNION {ToSet(security[k]) : k \in DOMAIN security}
      asked == {scheme \in ToSet(schemes) :
                  \E entry \in entries : entry.scheme = scheme.name}
  IN  Check(\A scheme \in asked : scheme.kind = "http"
                                    => scheme.sort \in operation.accepts, "header")

-----------------------------------------------------------------------------
(* Operations                                                              *)

NormalizeRoutePath(path) == Leaf(path)
RouteKey(operation) == <<operation.method, NormalizeRoutePath(operation.path)>>

\* pathParametersMatch: the names in the path, a repeated one counted again, and the
\* request's.
PathParametersMatch(operation) ==
  LET pieces == FlattenSeq([k \in DOMAIN operation.path |-> PiecesOf(operation.path[k])])
      inPath == {k \in DOMAIN pieces : pieces[k].hole}
  IN  /\ Cardinality(inPath) = Cardinality(operation.params)
      /\ \A k \in inPath : pieces[k].text \in operation.params

\* normalizeOperation, `earlier' being all operations before it in the spec.
OperationError(c, resource, operation, earlier) ==
  LET security == NormalizedSecurity(c, resource, operation)
  IN  FirstReal(<<
        Check(operation.id \notin Unsupported, "name"),
        Check(\A other \in earlier : other.id # operation.id, "duplicateId"),
        Check(\A other \in earlier : RouteKey(other) # RouteKey(operation),
              "duplicateRoute"),
        Check(operation.answers, "noResponses"),
        Check(PathParametersMatch(operation), "parameters"),
        SecurityError(operation.security, c.schemes),
        HeaderError(security, operation, c.schemes)>>)

\* normalizeSpecSync: one resource after the other, operations in order.
OperationsOf(resource) == Routers[resource.name]

\* Mutant: ids and routes are unique within a resource only.
EarlierInResource(c, n, k) ==
  {OperationsOf(c.resources[n])[j] : j \in 1 .. k - 1}

Earlier(c, n, k) ==
  (UNION {ToSet(OperationsOf(c.resources[m])) : m \in 1 .. n - 1})
    \cup {OperationsOf(c.resources[n])[j] : j \in 1 .. k - 1}

ResourceError(c, n) ==
  LET resource == c.resources[n]
      operations == OperationsOf(resource)
      errors == [k \in DOMAIN operations |->
                   OperationError(c, resource, operations[k], Earlier(c, n, k))]
  IN  IF resource.name \in Unsupported THEN "name"
      ELSE IF operations = << >> THEN "noOperations"
      ELSE FirstReal(<<SecurityError(resource.security, c.schemes)>> \o errors)

ContractError(c) ==
  IF c.resources = << >> THEN "noResources"
  ELSE FirstReal(<<SchemesError(c.schemes), SecurityError(c.security, c.schemes)>>
                 \o [n \in DOMAIN c.resources |-> ResourceError(c, n)])

NormalizeContract ==
  /\ verdict = "open"
  /\ verdict' = ContractError(contract)
  /\ UNCHANGED contract

\* The application mounts the routers generated from an accepted contract.
MountOne ==
  /\ verdict = "none"
  /\ \E n \in DOMAIN contract.resources : Mount(contract.resources[n].name)

-----------------------------------------------------------------------------
(* Properties                                                              *)

OperationsIn(c) ==
  UNION {ToSet(OperationsOf(c.resources[n])) : n \in DOMAIN c.resources}

\* Two operations give one parameter branch of the tree two names.
NamesCollide(a, b) ==
  \E n \in 1 .. Len(a.path) :
    /\ n <= Len(b.path) /\ a.path[n].param /\ b.path[n].param
    /\ NodeOf(a.path, n - 1) = NodeOf(b.path, n - 1)
    /\ NameOf(a.path[n]) # NameOf(b.path[n])

\* What normalization lets through, the server can mount: no two operations of an
\* accepted contract, whatever resources they are in, meet at one route, so a
\* mount fails only over the name of a parameter, and only if the contract itself
\* names that parameter in two ways.
AcceptedContractsMount ==
  \A r \in DOMAIN failed :
    /\ failed[r] = "conflict"
    /\ \E a \in ToSet(Routers[r]), b \in OperationsIn(contract) : NamesCollide(a, b)
=============================================================================
