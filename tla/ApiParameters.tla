--------------------------- MODULE ApiParameters ---------------------------
(***************************************************************************)
(* What an operation of the document says of its request and answers: a    *)
(* route gathers it from options and from structs, in any order, and       *)
(* buildOpenAPISpec turns it into parameters, a body and responses, as     *)
(* often as the document is built.  The order of parameters is left out:   *)
(* those of the path are counted by their names, the others are sets.      *)
(***************************************************************************)
EXTENDS Integers, Sequences, FiniteSets

\* A field of a struct is [name, tags, required, body, member]: the tags that say where it
\* comes from, under one name; body for the field Body; member when decoding a body fills it.
CONSTANTS
  DocPath,      \* the parameters in the route's path, as [name, form], form "{}" or ":"
  SchemeSets,   \* what the application may register as security schemes
  RequestTypes, \* structs, as sequences of fields
  AnswerTypes,  \* [status, fields], status 0 when there is none
  MaxOptions    \* options of a route, for TLC

DefaultStatus == 200
Nothing == "nothing"
Auths == {"BearerAuth", "BasicAuth"}

PathNames  == {DocPath[i].name : i \in DOMAIN DocPath}
ParamNames == PathNames \cup UNION {{fields[i].name : i \in DOMAIN fields} : fields \in RequestTypes}

\* A path has no name in braces twice.  A struct is a sequence of fields; what fills one is
\* something a document can say: one of the tags, or the body.  The Body of an answer has no tag.
ASSUME ParametersAssumption ==
  /\ \A i, j \in DOMAIN DocPath :
       DocPath[i].name = DocPath[j].name /\ DocPath[i].form = "{}" /\ DocPath[j].form = "{}" => i = j
  /\ \A i \in DOMAIN DocPath : DocPath[i].form \in {"{}", ":"}
  /\ \A fields \in RequestTypes : Len(fields) \in Nat /\ DOMAIN fields = 1 .. Len(fields)
  /\ \A fields \in RequestTypes : \A i \in DOMAIN fields :
       fields[i].body \/ fields[i].member \/ fields[i].tags \cap {"header", "cookie", "query", "path", "param"} # {}
  /\ \A a \in AnswerTypes : \A i \in DOMAIN a.fields : a.fields[i].body => a.fields[i].tags = {}

VARIABLES
  route,     \* the Route, as [pathParams, queryParams, headers, cookies, request, responses,
             \* responseHeaders, auth, security]
  operation, \* what was documented last, and of which structs
  input,     \* the struct the handler binds: that of the last Request
  byHand,    \* how often path parameters were documented one by one since then
  answers,   \* the structs given to Response
  options

parametersVars == <<route, operation, input, byHand, answers, options>>

\* How often names are given.
NoNames == [name \in ParamNames |-> 0]
Together(some, others) == [name \in ParamNames |-> some[name] + others[name]]

NoOperation ==
  [built |-> FALSE, pathParams |-> NoNames, parameters |-> {}, request |-> Nothing,
   responses |-> {}, responseHeaders |-> {}, security |-> {}, asked |-> {}, schemes |-> {},
   input |-> <<>>, byHand |-> NoNames, answers |-> {}]

ParametersInit ==
  /\ route = [pathParams |-> NoNames, queryParams |-> {}, headers |-> {}, cookies |-> {},
              request |-> Nothing, responses |-> {}, responseHeaders |-> {},
              auth |-> {}, security |-> {}]
  /\ operation = NoOperation /\ input = <<>> /\ byHand = NoNames /\ answers = {}
  /\ options = 0

Parameter(name, in, required) == [name |-> name, in |-> in, required |-> required]

-----------------------------------------------------------------------------
Another == options < MaxOptions /\ options' = options + 1

\* Options are applied while the route is added, before any document is built.
Option == ~operation.built /\ Another

DocPathParam(name) ==
  /\ Option
  /\ route' = [route EXCEPT !.pathParams[name] = @ + 1]
  /\ byHand' = [byHand EXCEPT ![name] = @ + 1]
  /\ UNCHANGED <<operation, input, answers>>

DocQueryParam(name, required) ==
  /\ Option
  /\ route' = [route EXCEPT !.queryParams = @ \cup {Parameter(name, "query", required)}]
  /\ UNCHANGED <<operation, input, byHand, answers>>

DocHeader(name, required) ==
  /\ Option
  /\ route' = [route EXCEPT !.headers = @ \cup {Parameter(name, "header", required)}]
  /\ UNCHANGED <<operation, input, byHand, answers>>

\* DocBearerAuth and DocBasicAuth, and those of the route's group.
DocAuth(scheme) ==
  /\ Option
  /\ route' = [route EXCEPT !.auth = @ \cup {scheme}]
  /\ UNCHANGED <<operation, input, byHand, answers>>

\* WithSecurity of the route, or of its group: alternatives, each a set of schemes.
WithSecurity(security) ==
  /\ Option
  /\ route' = [route EXCEPT !.security = security]
  /\ UNCHANGED <<operation, input, byHand, answers>>

DocResponseHeader(name) ==
  /\ Option
  /\ route' = [route EXCEPT !.responseHeaders = @ \cup {name}]
  /\ UNCHANGED <<operation, input, byHand, answers>>

DocRequestBody ==
  /\ Option
  /\ route' = [route EXCEPT !.request = "byHand"]
  /\ UNCHANGED <<operation, input, byHand, answers>>

DocResponse(status) ==
  /\ Option
  /\ route' = [route EXCEPT !.responses =
                 {r \in @ : r[1] # status} \cup {<<status, "byHand">>}]
  /\ UNCHANGED <<operation, input, byHand, answers>>

-----------------------------------------------------------------------------
\* processField: the first tag that says where the field comes from decides; a field for the
\* path is left to extractPathParamsFromStruct.
InPath(field) == field.tags \cap {"path", "param"} # {}

Place(field, isRequest) ==
  IF "header" \in field.tags THEN "header"
  ELSE IF "cookie" \in field.tags THEN "cookie"
  ELSE IF isRequest /\ "query" \in field.tags THEN "query"
  ELSE IF isRequest /\ InPath(field) THEN "path"
  ELSE IF field.body THEN "body" ELSE Nothing

Placed(fields, isRequest, place) ==
  {Parameter(fields[i].name, place, fields[i].required) :
     i \in {i \in DOMAIN fields : Place(fields[i], isRequest) = place}}

\* Bug: the last field alone decides.
HasExplicitBindingLast(fields, isRequest) ==
  fields # <<>> /\ Place(fields[Len(fields)], isRequest) # Nothing

\* processFields
HasExplicitBinding(fields, isRequest) ==
  \E i \in DOMAIN fields : Place(fields[i], isRequest) # Nothing

\* processBodyField, and the whole struct when no field says where it comes from.
BodyOf(fields, isRequest, before) ==
  IF ~HasExplicitBinding(fields, isRequest) THEN "whole"
  ELSE IF \E i \in DOMAIN fields : Place(fields[i], isRequest) = "body" THEN "body" ELSE before

\* extractPathParamsFromStruct
PathParamsOf(fields) ==
  [name \in ParamNames |->
     Cardinality({i \in DOMAIN fields : fields[i].name = name /\ InPath(fields[i])})]

\* generateRequestSchema: the Request option, WithInput and WithIO.
Request(fields) ==
  /\ Another
  /\ route' = [route EXCEPT
                 !.headers = @ \cup Placed(fields, TRUE, "header"),
                 !.cookies = @ \cup Placed(fields, TRUE, "cookie"),
                 !.queryParams = @ \cup Placed(fields, TRUE, "query"),
                 !.request = BodyOf(fields, TRUE, @),
                 !.pathParams = PathParamsOf(fields)]
  /\ input' = fields /\ byHand' = NoNames
  /\ UNCHANGED <<operation, answers>>

Headers(fields) == {p.name : p \in Placed(fields, FALSE, "header")}

\* generateResponseSchema: the whole struct stands under its status, a Body under the default.
Response(answer) ==
  LET body == BodyOf(answer.fields, FALSE, Nothing)
      status == IF body = "whole" /\ answer.status # 0 THEN answer.status ELSE DefaultStatus
  IN  /\ Another
      /\ route' = [route EXCEPT
                     !.cookies = @ \cup Placed(answer.fields, FALSE, "cookie"),
                     !.responseHeaders = @ \cup Headers(answer.fields),
                     !.responses = IF body = Nothing THEN @
                                   ELSE {r \in @ : r[1] # status} \cup {<<status, body>>}]
      /\ answers' = answers \cup {answer}
      /\ UNCHANGED <<operation, input, byHand>>

\* The parameters in braces, and those after a colon, once, that are not among them.
ExtractPathParams(path) ==
  [name \in ParamNames |->
     LET named == {i \in DOMAIN path : path[i].name = name}
         braced == {i \in named : path[i].form = "{}"}
     IN  IF braced = {} /\ named # {} THEN 1 ELSE Cardinality(braced)]

\* Respond: what a handler's answer is sent as.  The fields no tag places go into headers.
Responded(answer) ==
  LET fields == {answer.fields[i] : i \in DOMAIN answer.fields}
      placed(p) == {f \in fields : Place(f, FALSE) = p}
  IN  [status  |-> IF answer.status = 0 THEN DefaultStatus ELSE answer.status,
       headers |-> {f.name : f \in placed("header") \cup placed(Nothing)},
       cookies |-> {f.name : f \in placed("cookie")},
       body    |-> \E f \in fields : f.body]

\* Where nothing is registered, schemes for what the routes are marked with: the one for
\* Basic replaces the one for Bearer.
SecuritySchemes(registered, marks) ==
  IF registered # {} THEN registered
  ELSE IF "BasicAuth" \in marks THEN {"BasicAuth"} ELSE marks

Marked(auth) == {{scheme} : scheme \in auth}

\* addSecurity: requirements of unknown schemes are left out.
AddSecurity(auth, security, schemes) ==
  IF security = {} THEN Marked(auth) ELSE {s \in security : s \subseteq schemes}

\* buildOpenAPISpec and buildOperation: the path's own parameters where none are given, which
\* stay with the route.  The application's other routes have marks of their own.
BuildOperation(registered, others) ==
  LET pathParams == IF route.pathParams # NoNames THEN route.pathParams ELSE ExtractPathParams(DocPath)
      schemes == SecuritySchemes(registered, route.auth \cup others)
  IN  /\ route' = [route EXCEPT !.pathParams = pathParams]
      /\ operation' = [built |-> TRUE,
                       pathParams |-> pathParams,
                       parameters |-> route.queryParams \cup route.headers,
                       request |-> route.request, responses |-> route.responses,
                       responseHeaders |-> route.responseHeaders,
                       security |-> AddSecurity(route.auth, route.security, schemes),
                       asked |-> IF route.security = {} THEN Marked(route.auth) ELSE route.security,
                       schemes |-> schemes,
                       input |-> input, byHand |-> byHand, answers |-> answers]
      /\ UNCHANGED <<input, byHand, answers, options>>

ParametersNext ==
  \/ \E name \in PathNames : DocPathParam(name)
  \/ \E required \in BOOLEAN : DocQueryParam("q", required) \/ DocHeader("h", required)
  \/ DocRequestBody \/ DocResponse(DefaultStatus) \/ DocResponseHeader("r")
  \/ \E scheme \in Auths : DocAuth(scheme)
  \/ \E security \in {{{"BearerAuth"}, {"Key"}}, {{"BearerAuth", "Key"}}} : WithSecurity(security)
  \/ \E fields \in RequestTypes : Request(fields)
  \/ \E answer \in AnswerTypes : Response(answer)
  \/ \E registered \in SchemeSets, others \in SUBSET Auths : BuildOperation(registered, others)

ParametersSpec == ParametersInit /\ [][ParametersNext]_parametersVars

-----------------------------------------------------------------------------
Untagged(fields) ==
  {fields[i].name : i \in {i \in DOMAIN fields : Place(fields[i], FALSE) = Nothing}}

\* Every parameter of the path once, and no other.
EachOnce == [name \in ParamNames |-> IF name \in PathNames THEN 1 ELSE 0]

\* The operation tells a client to send what fills the field.
Describes(field) ==
  \/ \E p \in operation.parameters : p.name = field.name /\ p.required /\ p.in \in field.tags
  \/ InPath(field) /\ operation.pathParams[field.name] > 0
  \/ field.body /\ operation.request = "body"
  \/ field.member /\ operation.request = "whole"

\* A client that sends what the document says is required sends every field the handler's
\* struct requires, from where the binder looks for it; every parameter of the path is
\* documented once; and a route is documented as guarded, by exactly the alternatives asked
\* for, when the document has their schemes.  However the options, the structs and earlier
\* documents came before.
\* Left out are fields from cookies, which are never documented; members of a body beside
\* tagged fields, which are not either; a body described by hand; and a route whose
\* path parameters were given for a part of the path, or twice.
\* What Respond sends for a response struct is documented: its status (but a Body is always
\* documented under 200), and its tagged headers, when any response is.
FollowingSuffices ==
  LET op == operation
      given == Together(op.byHand, PathParamsOf(op.input))
  IN  op.built =>
        /\ \A i \in DOMAIN op.input :
             LET f == op.input[i]
             IN  \/ ~f.required
                 \/ (f.body \/ f.member) /\ op.request = "byHand"
                 \/ Place(f, TRUE) = "cookie" /\ ~InPath(f)
                 \/ f.member /\ HasExplicitBinding(op.input, TRUE)
                 \/ Describes(f)
        /\ given \in {NoNames, EachOnce} => op.pathParams = EachOnce
        /\ (\A alternative \in op.asked : alternative \subseteq op.schemes)
           => op.security = op.asked
        /\ (\E alternative \in op.asked : alternative \subseteq op.schemes)
           => op.security # {}
        /\ \A a \in op.answers :
             LET sent     == Responded(a)
                 explicit == HasExplicitBinding(a.fields, FALSE)
             IN  /\ op.responses # {} => sent.headers \ Untagged(a.fields) \subseteq op.responseHeaders
                 /\ ~explicit \/ (sent.body /\ sent.status = DefaultStatus)
                    => \E r \in op.responses : r[1] = sent.status
=============================================================================
