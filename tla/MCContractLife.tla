--------------------------- MODULE MCContractLife ---------------------------
(***************************************************************************)
(* Response families of up to three objects; contracts whose resources     *)
(* share, shadow, duplicate or misname routes; all requests of up to three *)
(* segments; client calls with every configuration; command lines over     *)
(* every level of security; two requests and two disposers of a runtime;   *)
(* and the messages of MCMessages.                                         *)
(***************************************************************************)
EXTENDS ContractLife, MCMessages

\* Literals that pretend to be derived: a cycle, two lineages, an empty one
Derived(name, parent, lineage, depth) ==
  [name |-> name,
   derived |-> [parent |-> parent, lineage |-> lineage, depth |-> depth]]
Literals ==
  {Derived("a", "b", <<"a">>, 1), Derived("b", "a", <<"b">>, 1),
   Derived("c", "a", <<"b", "c">>, 2), Derived("c", "b", << >>, 0)}

-----------------------------------------------------------------------------
(* Routes and contracts                                                    *)

Op(id, method, path) ==
  [id |-> id, method |-> method, path |-> path, answers |-> TRUE,
   params |-> PathParameterNames(path),
   security |-> Undeclared, accepts |-> {"bearer", "basic"}]

SomeEmbedding ==
  Param("id.json") :> <<Hole("id"), Fixed(".json")>> @@
  Param("name.:ext") :> <<Hole("name"), Fixed("."), Hole("ext")>> @@
  Static("todos:archive") :> <<Fixed("todos"), Hole("archive")>>

todos == Static("todos")
export == Static("export")
items == Static("items")
GetTodos == Op("getTodos", "GET", <<todos>>)
GetTodo == Op("getTodo", "GET", <<todos, Param("id")>>)

Scoped(scopes) == << <<[scheme |-> "oauth", scopes |-> scopes]>> >>
AllRouters ==
  "todo" :> <<GetTodos, Op("postTodos", "POST", <<todos>>),
              Op("postExport", "POST", <<todos, export>>), GetTodo,
              Op("deleteTodo", "DELETE", <<todos, Param("id")>>)>> @@
  "item" :> <<Op("getItems", "GET", <<todos, Param("id"), items>>),
              Op("headItems", "HEAD", <<todos, Param("id"), items>>),
              Op("getExported", "GET", <<todos, export, items>>),
              Op("getX", "GET", <<todos, export, Static("x")>>)>> @@
  "other" :> <<Op("postItems", "POST", <<items>>),
               Op("postItem", "POST", <<todos, Param("todo"), items>>),
               Op("putItems", "PUT", <<items>>)>> @@
  "any" :> <<Op("getAny", "GET", <<Param("kind"), Param("id")>>),
             Op("getExport", "GET", <<Param("kind"), export, items>>),
             Op("putPart", "PUT", <<Param("kind"), Param("id"), Param("part")>>)>> @@
  "file" :> <<Op("getFile", "GET", <<items, Param("id.json")>>),
              Op("removeTodo", "DELETE", <<todos, Param("id")>>)>> @@
  "mixed" :> <<Op("getNamed", "GET", <<todos, Param("name.:ext")>>),
               Op("archive", "POST", <<Static("todos:archive")>>)>> @@
  "twice" :> <<[Op("getPair", "GET", <<Param("id"), items, Param("id")>>)
                  EXCEPT !.params = {"id", "foo"}],
               Op("getOwned", "GET", <<Param("id"), Param("part"), export>>)>> @@
  "twin" :> <<Op("twinTodos", "GET", <<todos>>)>> @@
  "renamed" :> <<Op("renamedTodo", "GET", <<todos, Param("todo")>>)>> @@
  "again" :> <<[GetTodos EXCEPT !.path = <<items>>]>> @@
  "bare" :> << >> @@
  "silent" :> <<[GetTodos EXCEPT !.answers = FALSE]>> @@
  "misnamed" :> <<[GetTodo EXCEPT !.params = {"todo"}]>> @@
  "default" :> <<Op("getDefault", "GET", <<items>>)>> @@
  "unnamed" :> <<Op("class", "GET", <<items>>)>> @@
  "basicOnly" :> <<[GetTodos EXCEPT !.accepts = {"basic"}]>> @@
  "scoped" :> <<[GetTodos EXCEPT !.security = Scoped({"read"})],
                [GetTodo EXCEPT !.security = << >>]>> @@
  "overscoped" :> <<[GetTodos EXCEPT !.security = Scoped({"write"})]>>

ApiKey(name, target, key) ==
  [name |-> name, kind |-> "apiKey", sort |-> "none", scopes |-> {},
   wellFormed |-> TRUE, place |-> [target |-> target, key |-> key]]
Token(name, kind, sort, scopes) ==
  [name |-> name, kind |-> kind, sort |-> sort, scopes |-> scopes,
   wellFormed |-> TRUE, place |-> HeaderPlace("authorization")]
bearer == Token("bearer", "http", "bearer", {})
oauth == Token("oauth", "oauth2", "none", {"read"})
Schemes ==
  <<bearer, Token("basic", "http", "basic", {}), oauth,
    ApiKey("key", "header", "x-key"), ApiKey("search", "query", "key"),
    ApiKey("session", "header", "cookie"), ApiKey("csrf", "header", "cookie")>>

Requires(requirements) ==
  [k \in DOMAIN requirements |->
     [j \in DOMAIN requirements[k] |->
        [scheme |-> requirements[k][j], scopes |-> {}]]]

Resources(resources) ==
  [n \in DOMAIN resources |-> [name |-> resources[n], security |-> Undeclared]]
Contract(schemes, security, resources) ==
  [schemes |-> schemes, security |-> security, resources |-> resources]
Open(resources) == Contract(<< >>, Undeclared, Resources(resources))
Secured(security) == Contract(Schemes, security, Resources(<<"todo">>))

AllContracts ==
  {Open(resources) : resources \in
     {<< >>, <<"todo", "item", "other", "any">>, <<"any", "item", "other", "file">>,
      <<"todo", "file">>, <<"todo", "twin">>, <<"todo", "renamed">>,
      <<"todo", "again">>, <<"todo", "bare">>, <<"silent">>, <<"misnamed">>,
      <<"default">>, <<"unnamed">>, <<"mixed">>, <<"twice">>}}
  \cup {Secured(security) : security \in
     {Undeclared, << >>, Requires(<< <<"bearer", "key">> >>), << << >> >>,
      Requires(<< <<"unknown">> >>), Scoped({"read"}),
      << <<[scheme |-> "key", scopes |-> {"read"}]>> >>}}
  \cup {Contract(<<oauth>>, Undeclared, Resources(<<name>>)) :
          name \in {"scoped", "overscoped"}}
  \cup {Contract(Schemes, Undeclared,
                 <<[name |-> "basicOnly", security |-> security]>>) :
          security \in {Requires(<< <<"basic">> >>), Requires(<< <<"bearer">> >>)}}
  \cup {Contract(<<bearer, bearer>>, Undeclared, Resources(<<"todo">>)),
        Contract(<<[bearer EXCEPT !.wellFormed = FALSE]>>, Undeclared,
                 Resources(<<"todo">>))}

OneContract == Open(<<"todo">>)

MethodOrder == <<"GET", "POST", "PUT", "DELETE", "HEAD">>
Alphabetical ==
  <<"export", "id", "id.json", "items", "kind", "name.:ext", "part", "todo", "todos",
    "todos:archive", "x">>

Plain(text) == [text |-> text, encoded |-> FALSE]
Coded(text) == [text |-> text, encoded |-> TRUE]
Tokens == {Plain(t) : t \in {"todos", "export", "items", "x", ""}}
            \cup {Coded("a/b"), Coded("a b"), Coded("export")}
Paths == UNION {[1 .. n -> Tokens] : n \in 0 .. 3}

-----------------------------------------------------------------------------
(* Calls                                                                   *)

AllCalls ==
  [signal : BOOLEAN, timeout : BOOLEAN, honours : BOOLEAN, early : {"none"}]
  \cup {[signal |-> TRUE, timeout |-> TRUE, honours |-> TRUE,
         early |-> "PathParameterError"]}
AllAnswers ==
  [kind : {"declared", "undeclared"}, status : {200, 400}, body : {"json", "text"}]
  \cup {[kind |-> "declared", status |-> 204, body |-> "none"]}

Word(text) == [kind |-> "word", text |-> text, value |-> ""]
Long(text) == [kind |-> "long", text |-> text, value |-> ""]
Assigned(text, value) == [kind |-> "assigned", text |-> text, value |-> value]

Inputs ==
  {[target |-> "header", key |-> "x-key", required |-> FALSE],
   [target |-> "header", key |-> "cookie", required |-> FALSE],
   [target |-> "query", key |-> "key", required |-> TRUE]}

\* Security on three levels
Levels ==
  {Undeclared, << >>, Requires(<< <<"bearer">> >>),
   Requires(<< <<"key">>, <<"bearer">> >>),
   Requires(<< <<"bearer", "key">>, <<"csrf", "session">> >>),
   Requires(<< <<"basic", "bearer">>, <<"search">> >>)}
Flags(schemes) ==
  [k \in DOMAIN schemes |-> Assigned("auth-" \o schemes[k], "secret")]

Invocation(spec, resource, security, inputs, argv) ==
  [contract |-> Contract(Schemes, spec, << >>),
   resource |-> [name |-> "todo", security |-> resource],
   operation |-> [id |-> "get", security |-> security, inputs |-> inputs,
                  hasBody |-> FALSE],
   argv |-> argv, environment |-> "url", terminal |-> TRUE, content |-> "empty",
   early |-> "none"]

Offered == {<< >>, <<"bearer">>, <<"key">>, <<"bearer", "key">>, <<"csrf">>,
            <<"csrf", "session">>, <<"basic", "bearer">>, <<"search">>,
            <<"bearer", "csrf", "key", "session">>}
SecureInvocations ==
  {Invocation(spec, resource, security, {}, <<Word("get")>> \o Flags(offered)) :
     spec \in {Undeclared, Requires(<< <<"key">> >>)},
     resource \in {Undeclared, << >>, Requires(<< <<"bearer">> >>)},
     security \in Levels, offered \in Offered}
InputInvocations ==
  {Invocation(Undeclared, Undeclared, security, Inputs,
              <<Word("get"), Assigned("query-key", "v")>> \o extra) :
     security \in {<< >>, Requires(<< <<"key">> >>), Requires(<< <<"search">> >>),
                   Requires(<< <<"session">> >>)},
     extra \in {Flags(<<"key">>), Flags(<<"session">>), Flags(<<"session">>)
                  \o <<Assigned("header-cookie", "v")>>,
                <<Assigned("header-x-key", "v")>>,
                <<Assigned("query-key", "v")>>}}

\* Arguments, bodies and faults of one command without security
Posting(argv, environment, terminal, content, early) ==
  [Invocation(Undeclared, Undeclared, Undeclared, {}, argv) EXCEPT
     !.operation.hasBody = TRUE, !.environment = environment,
     !.terminal = terminal, !.content = content, !.early = early]
Arguments ==
  {<< >>, <<Long("help")>>, <<Word("get"), Long("help")>>, <<Word("other")>>,
   <<Word("get"), Word("more")>>, <<Word("get"), Long("unknown"), Word("v")>>,
   <<Word("get"), Long("base-url")>>, <<Long("base-url"), Long("human")>>,
   <<Long("base-url"), Word("url"), Word("get")>>,
   <<Word("get"), Assigned("base-url", "u"), Assigned("base-url", "v")>>,
   <<Word("get"), Assigned("body", "v"), Long("body-stdin")>>}
Bodies == {<<Word("get")>>, <<Word("get"), Assigned("body", "v")>>,
           <<Word("get"), Long("body-stdin")>>}
PlainInvocations ==
  {Posting(argv, environment, TRUE, "valid", "none") :
     argv \in Arguments, environment \in {"", "url"}}
  \cup {Posting(argv, "url", terminal, content, "none") :
     argv \in Bodies, terminal \in BOOLEAN,
     content \in {"empty", "valid", "malformed"}}
  \cup {Posting(<<Word("get"), Assigned("body-file", "f")>>, "url", TRUE, content,
                "none") : content \in {"valid", "malformed", "unreadable"}}
  \cup {Posting(<<Word("get")>>, "url", TRUE, "empty", early) :
     early \in {"RequestValidationError", "ApiClientConfigurationError",
                "PathParameterError"}}
  \cup {[Posting(<<Word("get"), Assigned("body", "v")>>, "url", TRUE, "valid",
                 "none") EXCEPT !.operation.hasBody = FALSE]}

AllInvocations == SecureInvocations \cup InputInvocations \cup PlainInvocations
=============================================================================
