----------------------------- MODULE MCMessages -----------------------------
(***************************************************************************)
(* Operations over thirteen parts, which differ in the body's schema, the  *)
(* Content-Type header and the other headers: each part as a request and   *)
(* at the statuses 400 (beside a shared error) and 204, and each merged at *)
(* the status 200 with itself, its three successors and shared responses;  *)
(* and operations whose bodies ask for the names of others.                *)
(***************************************************************************)
EXTENDS MessageExchange, TLC

Json(data) == [kind |-> "json", data |-> data]
Text(data) == [kind |-> "text", data |-> data]
Bytes(data) == [kind |-> "bytes", data |-> data]
View == [kind |-> "view", data |-> "bin"]
Null == [kind |-> "null", data |-> "null"]
AllBodies ==
  {NoBody, Null, Json("{}"), Json("{n}"), Text("word"), Text("{}"), Text(""),
   Bytes("bin"), Bytes("word"), View}

Schema(sort, accepts, inner) == [sort |-> sort, accepts |-> accepts, inner |-> inner]
AllSchemas ==
  "item" :> Schema("object", {Json("{}")}, "item") @@
  "items" :> Schema("object", {Json("{}"), Json("{n}")}, "items") @@
  "maybeItem" :> Schema("object", {Json("{}"), NoBody}, "item") @@
  "nullable" :> Schema("object", {Json("{n}"), Null}, "nullable") @@
  "text" :> Schema("string", {Text("word"), Text("{}"), Text("")}, "text") @@
  "mixed" :> Schema("object", {Json("{}"), Text("word"), Text("{}")}, "mixed") @@
  "any" :> Schema("any", AllBodies, "any") @@
  "file" :> Schema("custom", {Bytes("bin"), Bytes("word"), View}, "file") @@
  "maybeFile" :> Schema("custom", {Bytes("bin"), NoBody}, "file")

SomeLowerCase == "X-A" :> "x-a" @@ "x-a" :> "x-a" @@ "X-B" :> "x-b"

One == Str(<<"1">>)
Two == Str(<<"2">>)
Pair == Str(<<"1", "2">>)
Indented == Str(<<" 1">>)
PairAsJoined == Str(<<"1", " 2">>)
Lists ==
  {List(<< >>), List(<< <<"1">>, <<"2">> >>), List(<< <<"1", "2">> >>),
   List(<< <<"1">>, <<"">> >>), List(<< <<" 1">> >>)}
SomeTrim == [part \in {"", "1", "2"} |-> part] @@ " " :> "" @@ " 1" :> "1" @@ " 2" :> "2"
SomeSpaced ==
  [part \in {" ", " 1", " 2"} |-> part] @@ "" :> " " @@ "1" :> " 1" @@ "2" :> " 2"
HeaderSchema(accepts, array, selfReferring, warned) ==
  [accepts |-> accepts, array |-> array, selfReferring |-> selfReferring,
   warned |-> warned]
SomeHeaderSchemas ==
  "one" :> HeaderSchema({One}, FALSE, FALSE, FALSE) @@
  "number" :> HeaderSchema({One, Two}, FALSE, TRUE, TRUE) @@
  "string" :> HeaderSchema({One, Two, Pair, Indented, PairAsJoined}, FALSE, FALSE, TRUE) @@
  "list" :> HeaderSchema(Lists \cup {List(<< <<"1">> >>)}, TRUE, TRUE, TRUE)
SomeHeaderSets ==
  {<< >>} \cup {("x-a" :> v) : v \in {One, Two, Pair, Indented} \cup Lists}
    \cup {("x-a" :> One @@ "x-b" :> v) : v \in {Two, Pair}}

SomeMediaTypes ==
  {"none", "application/json", "text/plain", "application/problem+json",
   "application/octet-stream", "application/octet-stream;of=text/csv",
   "application/json-seq"}
Essences ==
  "application/octet-stream;of=text/csv" :> "application/octet-stream" @@
  [type \in SomeMediaTypes |-> type] @@ "text/plain;charset=UTF-8" :> "text/plain"

Absent == [declared |-> FALSE, values |-> {}, optional |-> TRUE]
Always(values) == [declared |-> TRUE, values |-> values, optional |-> FALSE]
Maybe(values) == [declared |-> TRUE, values |-> values, optional |-> TRUE]
json == Always({"application/json"})
problem == Always({"application/problem+json"})
octets == Always({"application/octet-stream"})

Header(name, schema, required) ==
  [name |-> name, schema |-> schema, required |-> required]
Part(schema, contentType, headers) ==
  [source |-> "inline", name |-> "Ok", status |-> 200, body |-> schema,
   contentType |-> contentType, headersOptional |-> FALSE, headers |-> headers]
EmptyPart == Part("none", Absent, << >>)
Named(name, response) == [response EXCEPT !.name = name]
Shared(name, response) == [response EXCEPT !.name = name, !.source = "canonical"]
At(status, response) == [response EXCEPT !.status = status]

Variety ==
  <<Part("item", json, <<Header("X-A", "one", TRUE), Header("X-B", "string", FALSE)>>),
    Part("items", Always({"application/json", "application/problem+json"}),
         <<Header("x-a", "string", TRUE)>>),
    Part("items", Absent, << >>),
    Part("text", Maybe({"text/plain"}), <<Header("X-A", "number", FALSE)>>),
    Part("none", json, << >>),
    Part("nullable", Maybe({}), <<Header("x-a", "list", TRUE)>>),
    Part("mixed", Absent, <<Header("X-A", "list", FALSE), Header("X-B", "number", TRUE)>>),
    Part("file", octets, << >>),
    Part("maybeFile", Maybe({}), << >>),
    Part("file", Always({"text/plain"}), <<Header("X-B", "string", FALSE)>>),
    Part("any", Always({"application/json-seq"}), <<Header("x-a", "number", FALSE)>>),
    [Part("any", Always({"application/octet-stream", "application/json"}),
          <<Header("X-A", "list", TRUE)>>) EXCEPT !.headersOptional = TRUE],
    Part("maybeItem", Maybe({"application/json"}), << >>)>>

Error == At(400, Shared("Error", Part("item", problem, <<Header("X-A", "number", TRUE)>>)))
Found ==
  Shared("Found", Part("items", json, <<Header("X-A", "string", FALSE),
                                        Header("X-B", "one", TRUE)>>))

\* An operation over a part, alone if distance is 0, or over two parts
OperationOf(i, distance) ==
  LET j == ((i + distance - 1) % Len(Variety)) + 1
  IN  [id |-> "Op" \o ToString(i) \o "x" \o ToString(j),
       request |-> IF distance = 0 THEN [Variety[i] EXCEPT !.headers = << >>]
                   ELSE EmptyPart,
       responses |->
         IF distance = 0
         THEN <<Error, At(400, Named("Bad", Variety[i])), At(204, Named("Gone", Variety[i]))>>
         ELSE <<Variety[i], Named("Other", Variety[j])>>
                \o (IF distance > 2 THEN <<Error, Found>> ELSE << >>)]

\* Their response bodies ask for the names ErrorBody, FoundBody_2 and FoundBody.
Nameless ==
  <<[id |-> "", request |-> EmptyPart,
     responses |-> <<Named("Error", Part("items", json, << >>)),
                     Named("FoundBody_2", Part("text", Absent, << >>))>>],
    [id |-> "Found", request |-> EmptyPart,
     responses |-> <<At(400, Named("", Part("mixed", Absent, << >>)))>>]>>

SomeOperations ==
  [k \in 1 .. 5 * Len(Variety) + Len(Nameless) |->
     IF k <= 5 * Len(Variety) THEN OperationOf(((k - 1) \div 5) + 1, (k - 1) % 5)
     ELSE Nameless[k - 5 * Len(Variety)]]
SomeDecoded == [bin |-> "b?n"]
SomeStringified == [bin |-> "{n}"]
=============================================================================
