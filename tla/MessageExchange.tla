--------------------------- MODULE MessageExchange ---------------------------
(***************************************************************************)
(* A request and its response between the generated client and server:     *)
(* what the adapters put on the wire and read from it (FetchApiAdapter of  *)
(* packages/server, ApiClient of packages/clients) and the generated       *)
(* validators (packages/types), which both sides use; and what the OpenAPI *)
(* document says of the same messages.                                     *)
(*                                                                         *)
(* A body value has a kind, the JavaScript type, and the data a message    *)
(* carries for it: a string and a JSON value may have the same data.       *)
(* "bytes" are an ArrayBuffer or a Blob without a type, a "view" is a      *)
(* typed array.  A schema parses what it accepts to itself.  A header's    *)
(* value is a string (Str) or a list of strings (List), a string the       *)
(* sequence of what stands between its commas, with the blanks before it.  *)
(***************************************************************************)
EXTENDS OpenApiDocument

CONSTANTS
  MediaTypes,  \* that programs declare, and "none"
  JsonLike,    \* types that contain "application/json" or "+json"
  TextLike,    \* types that contain "text/"
  HeaderSets,  \* headers that handlers return
  Trim,        \* of what stands between commas, without the blanks around it
  Spaced,      \* of the same, with a blank before it
  Empty,       \* the data of an empty string
  JsonTexts,   \* data that is JSON
  Decoded,     \* of binary data, what decoding gives
  Stringified  \* of a view's data, what JSON.stringify makes of the view

VARIABLES
  operation,  \* its index in the contract
  exchange,   \* "open", "uploaded", "accepted", "answered", "read", "refused"
  message,    \* as the sender passed it to its adapter: [status, headers, type, body, entry]
  wire,       \* its content type, data, headers and status
  reading     \* what the receiver's validator let pass, like message

exchangeVars == <<operation, exchange, message, wire, reading>>

NoBody == [kind |-> "undefined", data |-> Empty]
Message(status, headers, type, value, entry) ==
  [status |-> status, headers |-> headers, type |-> type, body |-> value,
   entry |-> entry]
NoMessage == Message(0, << >>, "none", NoBody, 0)

Current == Operations[operation]

\* JSON is never empty, a string's data is what decoding it gives, and a wrapper
\* accepts what its inner schema does, or nothing: what a catch or a default puts in
\* place of a value is one its schema accepts.
ASSUME BodiesAssumption ==
  /\ Empty \notin JsonTexts
  /\ \A s \in DOMAIN Schemas : \A value \in Schemas[s].accepts :
       /\ value = [kind |-> value.kind, data |-> value.data]
       /\ value.kind = "undefined" => value = NoBody
       /\ value.kind = "json" => value.data \in JsonTexts
       /\ value.kind = "text" => value.data \notin DOMAIN Decoded
       /\ value \in Schemas[Schemas[s].inner].accepts \cup {NoBody}

\* HttpHeaderSchema: a header's schema is one of strings or of arrays of strings.
\* What split gives of a string is never an empty sequence.
ASSUME HeadersAssumption ==
  \A s \in DOMAIN HeaderSchemas : \A value \in HeaderSchemas[s].accepts :
    /\ value = [list |-> HeaderSchemas[s].array, items |-> value.items]
    /\ IsSequence(value.items)
    /\ \A item \in Range(value.items) :
         /\ item # << >> /\ IsSequence(item)
         /\ \A k \in DOMAIN item : item[k] \in DOMAIN Trim
    /\ ~value.list => Len(value.items) = 1

\* String.trim, and the comma and blank with which Headers joins values
ASSUME BlanksAssumption ==
  \A part \in DOMAIN Trim :
    /\ Trim[part] \in DOMAIN Trim /\ Trim[Trim[part]] = Trim[part]
    /\ Trim[Spaced[part]] = Trim[part]

\* What the server's adapter takes for JSON or for text the client does, too.
ASSUME MediaTypesAssumption ==
  /\ MediaTypes \subseteq DOMAIN Essence
  /\ {"application/json", "text/plain", "text/plain;charset=UTF-8"} \subseteq DOMAIN Essence
  /\ \A type \in DOMAIN Essence : Essence[type] \in JsonTypes => type \in JsonLike
  /\ \A type \in DOMAIN Essence : Essence[type] \in TextTypes => type \in TextLike
  /\ Transport("application/json") = "json" /\ Transport("text/plain") = "text"
  /\ Transport("application/octet-stream") = "raw"
  /\ Essence["text/plain;charset=UTF-8"] = Essence["text/plain"]

-----------------------------------------------------------------------------
(* Adapters                                                                *)

Str(parts) == [list |-> FALSE, items |-> <<parts>>]
List(items) == [list |-> TRUE, items |-> items]

\* appendResponseHeader: Headers drops the blanks around a value it is given, and joins
\* the values of a name with ", "; an empty list puts nothing on the wire.
WireHeaders(headers) ==
  [name \in {n \in DOMAIN headers : headers[n].items # << >>} |->
     LET items == headers[name].items
     IN  Str(FlattenSeq(
           [k \in DOMAIN items |->
              [items[k] EXCEPT ![1] = IF k = 1 THEN Trim[@] ELSE Spaced[Trim[@]]]]))]

\* A message's own content type goes before the one its adapter or fetch adds, and
\* null has no body.
Serialize(m, automaticType, data) ==
  [status |-> m.status, headers |-> WireHeaders(m.headers),
   type |-> IF m.type # "none" THEN m.type ELSE automaticType,
   data |-> IF m.body.kind \in {"undefined", "null"} THEN Empty ELSE data]

\* serializeBody and createRequestHeaders of the client: a JSON body gets a content
\* type and fetch gives one to strings; bytes and views are sent as they are.
SerializeRequest(m) ==
  Serialize(m, CASE m.body.kind = "json" -> "application/json"
                 [] m.body.kind = "text" -> "text/plain;charset=UTF-8"
                 [] OTHER -> "none",
            m.body.data)

\* serializeResponseBody and buildResponseHeaders of the server: what is neither a
\* string nor bytes is JSON, a view too.
SerializeResponse(m) ==
  Serialize(m, CASE m.body.kind \in {"json", "view"} -> "application/json"
                 [] m.body.kind = "text" -> "text/plain;charset=UTF-8"
                 [] OTHER -> "none",
            IF m.body.kind = "view" THEN Stringified[m.body.data] ELSE m.body.data)

\* A fetch response of these has no body, and none can be made with one.
NullBodyStatuses == {204, 205, 304}

JsonBody(w) ==
  [kind |-> IF w.data \in JsonTexts THEN "json" ELSE "error", data |-> w.data]
TextBody(w) ==
  [kind |-> "text",
   data |-> IF w.data \in DOMAIN Decoded THEN Decoded[w.data] ELSE w.data]

\* ApiClient.parseResponseBody
ParseResponseBody(w) ==
  IF w.status \in {204, 304} THEN NoBody
  ELSE IF w.type \in JsonLike THEN IF w.data = Empty THEN NoBody ELSE JsonBody(w)
  ELSE IF w.type = "none" \/ w.type \in TextLike
    THEN IF w.data = Empty THEN NoBody ELSE TextBody(w)
  ELSE [kind |-> "bytes", data |-> w.data]

\* FetchApiAdapter.parseRequestBody; parseRawBody decodes as well.  A request of the
\* Node adapter has a stream even if it has no body.
ParseRequestBody(w, streamed) ==
  IF w.data = Empty /\ ~streamed THEN NoBody
  ELSE IF w.type # "none" /\ Transport(w.type) = "json" THEN JsonBody(w)
  ELSE IF w.type # "none" /\ Transport(w.type) = "text" THEN TextBody(w)
  ELSE IF w.data = Empty THEN NoBody ELSE TextBody(w)

-----------------------------------------------------------------------------
(* The generated validators                                                *)

\* Responses declared in the operation come before shared ones.
Entries(op) ==
  LET shared == {k \in DOMAIN op.responses : IsCanonical(op.responses[k])}
  IN  Selected(op.responses, DOMAIN op.responses \ shared) \o Selected(op.responses, shared)

BodyFits(part, body) ==
  part.body # NoSchema => body \in Schemas[part.body].accepts

ContentTypeFits(part, type) ==
  part.contentType.declared =>
    IF type = "none" THEN part.contentType.optional
    ELSE part.contentType.values = {} \/ type \in part.contentType.values

\* Mutant: the blanks that joining put between them stay with the strings.
CoerceWithoutTrim(schema, value) ==
  IF schema.array
    THEN IF value.list THEN value
         ELSE List([k \in DOMAIN value.items[1] |-> <<value.items[1][k]>>])
  ELSE IF value.list /\ Len(value.items) = 1 THEN Str(value.items[1]) ELSE value

\* The strings between the commas of a string, trimmed, without those that are empty
SplitCommaDelimitedValues(string) ==
  LET trimmed == [k \in DOMAIN string |-> Trim[string[k]]]
  IN  Selected(trimmed, {k \in DOMAIN trimmed : trimmed[k] # Empty})

\* splitCommaDelimitedValues, coerceValueStructure
Coerce(schema, value) ==
  IF schema.array
    THEN IF value.list THEN value
         ELSE LET strings == SplitCommaDelimitedValues(value.items[1])
              IN  List([k \in DOMAIN strings |-> <<strings[k]>>])
  ELSE IF value.list /\ Len(value.items) = 1 THEN Str(value.items[1]) ELSE value

HeaderFits(header, headers) ==
  LET name == LowerCase[header.name]
      schema == HeaderSchemas[header.schema]
  IN  IF name \in DOMAIN headers THEN Coerce(schema, headers[name]) \in schema.accepts
      ELSE ~header.required

\* validateResponseType.  Headers that are optional as a whole are looked at like
\* any others: what is missing is an empty object.
PartFits(part, m) ==
  /\ BodyFits(part, m.body) /\ ContentTypeFits(part, m.type)
  /\ \A k \in DOMAIN part.headers : HeaderFits(part.headers[k], m.headers)

\* What the part does not declare is left out.
Validated(part, m, entry) ==
  LET names == {LowerCase[h.name] : h \in Range(part.headers)} \cap DOMAIN m.headers
      schemaOf(name) ==
        HeaderSchemas[(CHOOSE h \in Range(part.headers) : LowerCase[h.name] = name).schema]
  IN  Message(m.status,
              [name \in names |-> Coerce(schemaOf(name), m.headers[name])],
              IF part.contentType.declared THEN m.type ELSE "none",
              IF part.body = NoSchema THEN NoBody ELSE m.body, entry)

\* safeValidate: the first entry of the status that fits, or 0
EntryOf(op, m) ==
  LET fitting == {k \in DOMAIN Entries(op) : /\ Entries(op)[k].status = m.status
                                            /\ PartFits(Entries(op)[k], m)}
  IN  IF fitting = {} THEN 0 ELSE Least(fitting)

-----------------------------------------------------------------------------
(* The exchange                                                            *)

ExchangeInit ==
  /\ operation \in DOMAIN Operations
  /\ exchange = "open"
  /\ message = NoMessage /\ wire = SerializeRequest(NoMessage) /\ reading = NoMessage

\* What the types of a part allow
BodiesOf(part) == IF part.body = NoSchema THEN {NoBody} ELSE Schemas[part.body].accepts
Typed(part, m) ==
  /\ PartFits(part, m)
  /\ Validated(part, m, 0).body = m.body /\ Validated(part, m, 0).type = m.type

\* A caller passes what its types allow; its command adds a required literal type.
Upload ==
  /\ exchange = "open"
  /\ \E type \in MediaTypes, body \in BodiesOf(Current.request) :
       LET m == Message(0, << >>, type, body, 0)
       IN  Typed(Current.request, m) /\ message' = m /\ wire' = SerializeRequest(m)
  /\ exchange' = "uploaded"
  /\ UNCHANGED <<operation, reading>>

\* toRequest and the request validator
ReadUpload(streamed) ==
  /\ exchange = "uploaded"
  /\ LET m == Message(0, wire.headers, wire.type, ParseRequestBody(wire, streamed), 0)
     IN
     IF m.body.kind # "error" /\ PartFits(Current.request, m)
       THEN exchange' = "accepted" /\ reading' = Validated(Current.request, m, 0)
       ELSE exchange' = "refused" /\ UNCHANGED reading
  /\ UNCHANGED <<operation, message, wire>>

\* The handler returns a declared response, which the server's validator may take
\* for an earlier one and strips, and toResponse serializes.
Answer ==
  /\ exchange = "accepted"
  /\ \E declared \in Range(Current.responses), headers \in HeaderSets, type \in MediaTypes :
     \E body \in BodiesOf(declared) :
       LET m == Message(declared.status, headers, type, body, 0)
           entry == EntryOf(Current, m)
           sent == Validated(Entries(Current)[entry], m, entry)
       IN  /\ Typed(declared, m)
           /\ message' = sent /\ wire' = SerializeResponse(sent)
           /\ exchange' = IF m.status \in NullBodyStatuses
                               /\ sent.body.kind \notin {"undefined", "null"}
                            THEN "refused" ELSE "answered"
  /\ UNCHANGED <<operation, reading>>

\* createResponse and the command's processResponse
Receive ==
  /\ exchange = "answered"
  /\ LET m == Message(wire.status, wire.headers, wire.type,
                      ParseResponseBody(wire), 0)
         entry == EntryOf(Current, m)
     IN  IF m.body.kind # "error" /\ entry # 0
           THEN exchange' = "read" /\ reading' = Validated(Entries(Current)[entry], m, entry)
           ELSE exchange' = "refused" /\ UNCHANGED reading
  /\ UNCHANGED <<operation, message, wire>>

ExchangeNext ==
  Upload \/ (\E streamed \in BOOLEAN : ReadUpload(streamed)) \/ Answer \/ Receive

-----------------------------------------------------------------------------
(* Properties                                                              *)

Uploaded == message.status = 0 /\ exchange \in {"accepted", "refused"}
Arrived == message.status # 0 /\ exchange \in {"read", "refused"}
Sent == IF message.status = 0 THEN Current.request ELSE Entries(Current)[message.entry]

\* A body can be read back if its kind is what its content type stands for, to both
\* sides.  Null and views never can, bytes only in a response.
CarriedBody ==
  LET transport == Transport(wire.type)
      none == IF message.status = 0 THEN transport = "raw"
              ELSE wire.type \in JsonLike \cup TextLike \/ Sent.body = NoSchema
  IN  CASE message.body.kind = "undefined" -> none \/ wire.type = "none"
        [] message.body.kind = "json" -> transport = "json"
        [] message.body.kind = "text" -> /\ transport = "text" /\ message.body.data # Empty
                                         /\ message.status # 0 => wire.type \notin JsonLike
        [] message.body.kind = "bytes" -> /\ message.status # 0 /\ wire.type # "none"
                                         /\ wire.type \notin JsonLike \cup TextLike
        [] OTHER -> FALSE

\* A string can be read back if no blank is before it, and a list if it has strings,
\* none of them empty or with a comma or a blank before it.
CarriedHeaders ==
  \A name \in DOMAIN message.headers :
    LET value == message.headers[name]
    IN  /\ \A item \in Range(value.items) : Trim[item[1]] = item[1]
        /\ value.list =>
             /\ value.items # << >>
             /\ \A item \in Range(value.items) : Len(item) = 1 /\ item[1] # Empty

Carried ==
  /\ CarriedBody /\ CarriedHeaders
  /\ ContentTypeFits(Sent, wire.type)
  /\ message.status \in NullBodyStatuses => message.body = NoBody

\* What one side's validator lets pass and the wire can carry, the other side's lets
\* pass unchanged, though it sees content types nobody set, headers joined to one
\* string and only what the first validator left; only a response declared earlier,
\* with more headers or a content type, may take it for its own.
MessagesAreReadAsSent ==
  Carried =>
    /\ Uploaded => exchange = "accepted" /\ reading.body = message.body
    /\ Arrived =>
         /\ exchange = "read"
         /\ reading.status = message.status
         /\ reading.entry <= message.entry
         /\ reading.entry = message.entry =>
              reading = [message EXCEPT !.type = IF Sent.contentType.declared
                                                   THEN wire.type ELSE "none"]

\* The contract's author was warned that the media type is ambiguous, or the body is
\* not of the kind its schema's type stands for.
Guessed(part) ==
  \/ "ambiguous-content-type-header" \in BodyWarnings(part)
  \/ Transport(MediaType(part)) # Transport(wire.type)

BodyIsAccepted(schemas) ==
  schemas # {} /\ \A s \in schemas : message.body \in Schemas[s].accepts
BodyIsDescribed(content) ==
  \E type \in DOMAIN content, name \in UNION Range(content) :
    /\ Essence[type] = Essence[wire.type] /\ name \in content[type]
    /\ name = Binary \/ BodyIsAccepted(Components(name))

HeadersAreDescribed(headers) ==
  \A name \in DOMAIN headers :
    IF name \in DOMAIN wire.headers
      THEN \E branch \in Range(headers[name].branches) :
             LET schema == HeaderSchemas[branch.schema]
             IN  Coerce(schema, wire.headers[name]) \in schema.accepts
      ELSE ~headers[name].required

\* Of a merged header, references of the spelling that is kept and warnings of every
\* spelling point to a branch of their own schema.
PointsToItsSchema(header) ==
  LET branches == header.branches
      at(k) == IF Len(branches) = 1 THEN <<header.name>> ELSE <<header.name, k>>
  IN  /\ \A k \in DOMAIN branches :
           HeaderSchemas[branches[k].schema].selfReferring =>
             branches[k].ref = at(k) \/ branches[k].ref[1] # header.name
      /\ \A w \in header.warnings :
           \E k \in DOMAIN branches : w.at = at(k) /\ branches[k].schema = w.schema

IsDescribedBy(document) ==
  LET answer == document.responses[message.status]
      content == IF message.status = 0 THEN document.request ELSE answer.content
  IN  /\ message.body.kind = "undefined" \/ Guessed(Sent) \/ BodyIsDescribed(content)
      /\ message.status # 0 =>
           /\ HeadersAreDescribed(answer.headers)
           /\ \A name \in DOMAIN answer.headers : PointsToItsSchema(answer.headers[name])

\* The OpenAPI document describes what is on the wire: at the response's status, its
\* headers, and a schema that accepts its body under its media type, whatever other
\* responses of that status were merged with it and whatever other schemas had asked
\* for its name; and its references point to what they refer to.
MessagesAreDocumented ==
  (exchange # "open" /\ Carried) => IsDescribedBy(Document[operation])
=============================================================================
