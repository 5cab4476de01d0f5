------------------------------- MODULE MCParts -------------------------------
(* Components that share no state, for TLC: the configuration from the command line,       *)
(* routes with CORS and their operations in the document, the document's components, the   *)
(* members of structs, the constraints on a field, the binding of a request, the limits on *)
(* its body, its token, its operation in the document, the address it came from, the errors,*)
(* events and the files it is answered with.  A behaviour goes through one of them, its    *)
(* part, while the others stay as they begin.                                              *)
EXTENDS ApiPaths, ApiComponents, JsonMembers, ApiParameters, CommandLine, Binding, BodyCap,
        Constraints, JwtAuth, ForwardedIP, EventStream, WebFallback,
        ErrorAnswers

LOCAL INSTANCE TLC

CONSTANT Parts
VARIABLE part

documentVars == <<registrationVars, componentsVars, membersVars, parametersVars>>
requestVars  == <<bindingVars, bodyCapVars, constraintsVars, jwtVars, forwardedVars>>
otherVars    == <<commandLineVars, eventVars, webVars, errorVars>>
allVars == <<part, documentVars, requestVars, otherVars>>

\* Two CORS configurations; in the second the wildcard comes before the named origin.
NamedEntry == [kind |-> "exact", origins |-> {"site"}]
Star       == [kind |-> "any", origins |-> {}]

NoInputs ==
    /\ commands = {} /\ current = [f \in Fields |-> Zero] /\ line = <<>>
    /\ tag = [f \in Fields |-> Unset] /\ env = [f \in Fields |-> Unset]

NoTags == [min |-> {}, max |-> {}, exclusiveMin |-> {}, exclusiveMax |-> {}, multipleOf |-> {},
           minLength |-> {}, maxLength |-> {}, enum |-> {}, const |-> {}, format |-> {},
           pattern |-> {}, contains |-> {}, notContains |-> {}, minItems |-> {},
           maxItems |-> {}, uniqueItems |-> FALSE, minProperties |-> {}, maxProperties |-> {}]
NoField == [kind |-> "int", pointer |-> FALSE, tags |-> NoTags, values |-> {0}]

NoCase == [target |-> <<>>, content |-> "none", given |-> <<>>]

NoToken == [keys |-> {}, expression |-> <<>>, needsExpiry |-> TRUE, issuer |-> "",
            sources |-> <<>>, validateClaims |-> {}, validateRole |-> {}]

PartsInit ==
    /\ part \in Parts
    /\ RegistrationInit /\ ComponentsInit /\ MembersInit /\ ParametersInit
    /\ CommandLineInit /\ EventInit /\ WebInit /\ ErrorInit
    /\ part # "routes" => cors = [entries |-> <<NamedEntry>>, methods |-> {}, credentials |-> TRUE]
    /\ part # "commandLine" => NoInputs
    /\ BodyCapInit /\ (part # "body" => size = 0)
    /\ IF part = "constraints" THEN ConstraintsInit ELSE ConstraintsStart(NoField)
    /\ IF part = "token" THEN JwtInit ELSE JwtStart(NoToken)
    /\ ForwardedInit /\ (part # "address" => restricted /\ peer = "h1")
    /\ \E c \in IF part = "binding" THEN Cases ELSE {NoCase} : BindingStart(c)

PartsNext ==
    /\ UNCHANGED part
    /\ \/ /\ part = "routes" /\ RegistrationNext
          /\ UNCHANGED <<componentsVars, membersVars, parametersVars, requestVars, otherVars>>
       \/ /\ part = "components" /\ ComponentsNext
          /\ UNCHANGED <<registrationVars, membersVars, parametersVars, requestVars, otherVars>>
       \/ /\ part = "members" /\ MembersNext
          /\ UNCHANGED <<registrationVars, componentsVars, parametersVars, requestVars, otherVars>>
       \/ /\ part = "parameters" /\ ParametersNext
          /\ UNCHANGED <<registrationVars, componentsVars, membersVars, requestVars, otherVars>>
       \/ /\ part = "binding" /\ BindingNext
          /\ UNCHANGED <<bodyCapVars, constraintsVars, jwtVars, forwardedVars, documentVars, otherVars>>
       \/ /\ part = "body" /\ BodyCapNext
          /\ UNCHANGED <<bindingVars, constraintsVars, jwtVars, forwardedVars, documentVars, otherVars>>
       \/ /\ part = "constraints" /\ ConstraintsNext
          /\ UNCHANGED <<bindingVars, bodyCapVars, jwtVars, forwardedVars, documentVars, otherVars>>
       \/ /\ part = "token" /\ JwtNext
          /\ UNCHANGED <<bindingVars, bodyCapVars, constraintsVars, forwardedVars, documentVars, otherVars>>
       \/ /\ part = "address" /\ ForwardedNext
          /\ UNCHANGED <<bindingVars, bodyCapVars, constraintsVars, jwtVars, documentVars, otherVars>>
       \/ /\ part = "commandLine" /\ CommandLineNext
          /\ UNCHANGED <<eventVars, webVars, errorVars, documentVars, requestVars>>
       \/ /\ part = "events" /\ EventNext
          /\ UNCHANGED <<commandLineVars, webVars, errorVars, documentVars, requestVars>>
       \/ /\ part = "web" /\ WebNext
          /\ UNCHANGED <<commandLineVars, eventVars, errorVars, documentVars, requestVars>>
       \/ /\ part = "errors" /\ ErrorNext
          /\ UNCHANGED <<commandLineVars, eventVars, webVars, documentVars, requestVars>>

PartsSpec == PartsInit /\ [][PartsNext]_allVars

MCEntries  == {NamedEntry, Star}
MCConfigs  ==
    {[entries |-> <<NamedEntry>>, methods |-> {}, credentials |-> TRUE],
     [entries |-> <<Star, NamedEntry>>, methods |-> {"GET"}, credentials |-> TRUE]}

\* Two structs T of different packages, one in a cycle with D; and E, registered as Mine.
MCTypeName == [ta |-> "T", tb |-> "T", d |-> "D", e |-> "E"]
MCProperties ==
    [ta |-> [x |-> Scalar, next |-> "ta"],
     tb |-> [y |-> "d", b |-> Scalar],
     d  |-> [t |-> "tb", a |-> "ta"],
     e  |-> [d |-> "d"]]
MCRequired == [ta |-> 0, tb |-> 1, d |-> 1, e |-> 0]
MCNames == {"T", "T1", "T2", "D", "D1", "E", "Mine"}
MCDeclared == [name \in MCNames |-> IF name = "Mine" THEN "e" ELSE Nowhere]
MCSuffixed == [name \in MCNames |-> IF name = "T" THEN <<"T", "T1", "T2">>
                                   ELSE IF name = "D" THEN <<"D", "D1">> ELSE <<name>>]
Use(id, s, whole) == [id |-> id, struct |-> s, whole |-> whole]
MCRouteUses ==
    <<{Use("request1", "ta", TRUE)},
      {Use("ok2", "tb", TRUE), Use("created2", "ta", TRUE), Use("error2", "d", FALSE)},
      {Use("request3", "tb", TRUE), Use("ok3", "e", TRUE)}>>
MCWebhookUses ==
    <<{Use("payload", "tb", TRUE), Use("answer", "d", TRUE), Use("list", "e", FALSE)}>>

\* A port and a timeout; a command, and the lines that name it or not.
MCKind  == [port |-> "int", size |-> "sizedInt", wait |-> "duration"]
MCTags  == {[f \in Fields |-> Unset], [port |-> "v", size |-> "v", wait |-> Unset],
            [port |-> Bad, size |-> Unset, wait |-> "v"]}
MCEnvs  == {[f \in Fields |-> Unset], [port |-> "v", size |-> "w", wait |-> "v"],
            [port |-> Unset, size |-> "v", wait |-> Bad]}
Flag(f, v) == <<"flag", f, v>>
Serve   == <<"word", "serve">>
MCLines == {<<>>, <<Serve>>, <<Flag("port", "w")>>, <<Flag("port", "w"), Serve>>,
            <<Serve, Flag("port", "v"), Flag("size", "w"), Flag("port", "w")>>,
            <<Serve, Flag("wait", Bad)>>, <<<<"word", "other">>, Flag("wait", "w")>>}

\* Structs and what requests say to their fields; every content type with every struct.
Field(from) == [from |-> from, default |-> Empty, required |-> FALSE, rule |-> "none",
                sibling |-> 0, limited |-> FALSE, kind |-> "one", body |-> FALSE]
Sourced == [Field({"path", "header", "cookie"}) EXCEPT !.limited = TRUE]
Defaulted == [Field({"member", "query"}) EXCEPT !.default = "w", !.limited = TRUE]
Listed(kind, from) == [Field(from) EXCEPT !.kind = kind, !.required = TRUE]
Ruled(rule, i, from) == [Field(from) EXCEPT !.rule = rule, !.sibling = i]
BodyField == [Field({"member", "form"}) EXCEPT !.required = TRUE, !.limited = TRUE, !.body = TRUE]
MCTargets ==
    {<<Sourced, Ruled("without", 1, {"query", "form"})>>,
     <<Defaulted, Ruled("with", 1, {"header", "form"})>>,
     <<Ruled("with", 2, {"cookie"}), Listed("numbers", {"member", "query"})>>,
     <<Ruled("with", 2, {"header"}), Listed("strings", {"query", "form"})>>,
     <<Listed("numbers", {"query", "header"}), BodyField>>,
     <<Ruled("without", 2, {"query"}), Field({"header", "form"}), BodyField>>,
     <<[Field({"query", "header"}) EXCEPT !.default = "w"], Ruled("with", 1, {"path"}), BodyField>>}
MCKeyed(f) ==
    f.from \cup (IF f.from \cap {"query", "form"} = {} THEN {} ELSE {"query", "form"})
MCTexts(f, c, s) ==
    {<<>>} \cup
    IF s \notin MCKeyed(f) THEN {} ELSE
    CASE s = "path"   -> {<<"v">>}
      [] s = "query"  -> {<<Empty>>, <<Nought>>, <<"v">>, <<Broken>>} \cup
                         IF f.kind = "one" THEN {}
                         ELSE {<<Wide>>, <<Gappy>>, <<"v", "w">>, <<Empty, "v">>}
      [] s = "header" -> {<<Nought>>, <<"w">>}
      [] s = "cookie" -> {<<Odd>>, <<"v">>}
      [] s = "form"   -> IF c \notin {"form", "multipart"} THEN {}
                         ELSE {<<Empty>>, <<"v">>, <<Odd>>} \cup
                              IF f.kind = "one" THEN {} ELSE {<<"w", "v">>}
      [] s = "member" -> IF c = "decoded" THEN {<<Nought>>, <<"v">>, <<Broken>>, <<Wide>>} ELSE {}
MCGiven(f, c) ==
    [path : MCTexts(f, c, "path"), query : MCTexts(f, c, "query"),
     form : MCTexts(f, c, "form"), header : MCTexts(f, c, "header"),
     cookie : MCTexts(f, c, "cookie"), member : MCTexts(f, c, "member")]
MCCases ==
    UNION {[target : {t}, content : {c},
            given : IF Len(t) = 2 THEN MCGiven(t[1], c) \X MCGiven(t[2], c)
                    ELSE MCGiven(t[1], c) \X MCGiven(t[2], c) \X MCGiven(t[3], c)] :
             <<t, c>> \in MCTargets \X Contents}

\* Fields under the tags of their kind, and under those of texts and numbers.
Maybe(S) == {{}} \cup {{x} : x \in S}
MCFields(kind, tagSets, values) ==
    {[kind |-> kind, pointer |-> p, tags |-> t @@ NoTags, values |-> values] :
       p \in BOOLEAN, t \in tagSets}
MCWords == {"", "a", "ab", "accent"}
MCAnyTags == [enum : Maybe({{"a"}}), const : Maybe({"a"}), pattern : Maybe({{"a"}}),
              format : Maybe({{"a"}, {"a", "value"}}), min : Maybe({1}), multipleOf : Maybe({2})]
MCBytes == [t \in MCWords |-> IF t = "" THEN 0 ELSE IF t = "a" THEN 1 ELSE 2]
MCCharacters == [t \in MCWords |-> IF t = "" THEN 0 ELSE IF t = "ab" THEN 2 ELSE 1]
MCFieldsOf ==
    UNION {MCFields("int", [min : Maybe({1}), max : Maybe({2}), exclusiveMin : Maybe({1}),
                            exclusiveMax : Maybe({3}), multipleOf : Maybe({2})], 0 .. 4),
           MCFields("string", [minLength : Maybe({1, 2}), maxLength : Maybe({1}),
                               enum : Maybe({{"a", "accent"}}), const : Maybe({"a"}),
                               pattern : Maybe({{"a", "ab"}}), contains : Maybe({{"ab"}})], MCWords),
           MCFields("strings", [min : Maybe({1}), minItems : Maybe({1}), maxItems : Maybe({1}),
                                uniqueItems : BOOLEAN, format : Maybe({{"a"}})],
                    {<<>>, <<"a">>, <<"a", "a">>, <<"ab", "a">>}),
           MCFields("int", MCAnyTags, 0 .. 2), MCFields("string", MCAnyTags, MCWords),
           MCFields("strings", MCAnyTags, {<<>>, <<"a">>}), MCFields("map", MCAnyTags, 0 .. 1),
           MCFields("map", [max : Maybe({1}), minProperties : Maybe({1}), maxProperties : Maybe({2})], 0 .. 3)}

\* Claims expressions of three calls, with a ! or a parenthesis almost anywhere, over tokens
\* that lack claims, hold lists or are enough; and every way to find and verify a token.
MCCall == [a |-> [fn |-> "Equals", key |-> "role", values |-> {"admin"}],
           b |-> [fn |-> "OneOf", key |-> "tags", values |-> {"vip", "staff"}],
           p |-> [fn |-> "Prefix", key |-> "mail", values |-> {"ad"}],
           s |-> [fn |-> "Substring", key |-> "role", values |-> {"min"}]]
MCPrefixPairs   == {<<"admin", "ad">>}
MCSubstringPairs == {<<"admin", "min">>}
Admin == [role |-> {"admin"}, tags |-> {"vip"}, mail |-> {"admin"}]
Guest == [role |-> {"guest"}, tags |-> {}, mail |-> {"admin"}]
MCClaims == {Admin, Guest, [role |-> {"admin"}, tags |-> {"new", "staff"}],
             [role |-> {"guest"}, mail |-> {"guest"}], [tags |-> {"vip"}, mail |-> {"guest"}],
             [role |-> {"guest"}, tags |-> {"vip"}, mail |-> {"admin"}]}
Opened == {<<>>, <<"!">>, <<"(">>, <<"!", "(">>}
Closed == {<<>>, <<")">>}
MCInputs ==
    {<<"a", "junk">>, <<"junk">>, <<"a", "b">>, <<"a", "||">>, <<"&&", "a">>, <<"s">>} \cup
    {x[1] \o <<"a">> \o <<x[2]>> \o x[3] \o <<"b">> \o x[4] \o <<x[5]>> \o x[6] \o <<"p">> \o x[7] :
       x \in Opened \X {"||", "&&"} \X Opened \X Closed \X {"||", "&&"} \X Opened \X Closed}
MCTokens == [key : {"SigningSecret", "JwksUrl", "JwksFile"}, expiry : {"future", "past", "none"},
             issuer : {"us", "them"}, claims : {Admin, Guest}]
SignedFor(c) == [key |-> "SigningSecret", expiry |-> "future", issuer |-> "us", claims |-> c]
MCAuthCases ==
    {[keys |-> {"SigningSecret"}, expression |-> i, needsExpiry |-> TRUE, issuer |-> "",
      sources |-> <<{SignedFor(c)}>>, validateClaims |-> MCClaims, validateRole |-> MCClaims] :
        i \in MCInputs, c \in MCClaims}
    \cup
    [keys : {{}, {"RsaKey", "SigningSecret"}, {"JwksUrl", "SigningSecret"}, {"JwksFile"}},
     expression : {<<>>, <<"s">>, <<"a", ")">>}, needsExpiry : BOOLEAN, issuer : {"", "us"},
     sources : {<<{}>>} \cup {<<{}, {t}, {SignedFor(Admin)}>> : t \in MCTokens},
     validateClaims : {MCClaims, {Admin}}, validateRole : {MCClaims, {}}]

\* Structs for a path of two parameters: tags in either order, with and without a body.
Described(name, from, required) ==
    [name |-> name, tags |-> from, required |-> required, body |-> FALSE, member |-> from = {}]
DocumentedBody == [name |-> "Body", tags |-> {}, required |-> TRUE, body |-> TRUE, member |-> FALSE]
MCRequestTypes ==
    {<<Described("id", {"path"}, TRUE), Described("m", {}, TRUE)>>,
     <<Described("id", {"param", "header"}, TRUE), Described("at", {"path", "query"}, FALSE),
       Described("h", {"header", "query"}, TRUE), DocumentedBody>>,
     <<DocumentedBody, Described("q", {"query"}, TRUE), Described("c", {"cookie", "path"}, TRUE)>>,
     <<DocumentedBody, Described("m", {}, FALSE)>>,
     <<Described("m", {}, TRUE)>>}
MCAnswerTypes ==
    {[status |-> 201, fields |-> <<Described("m", {}, FALSE)>>],
     [status |-> 201, fields |-> <<DocumentedBody, Described("h", {"header"}, TRUE)>>],
     [status |-> 0, fields |-> <<Described("q", {"query"}, FALSE)>>],
     [status |-> 204, fields |-> <<Described("c", {"cookie"}, TRUE)>>]}
MCDocPath ==
    <<[name |-> "at", form |-> ":"], [name |-> "id", form |-> "{}"]>>
MCSchemeSets == {{}, {"BearerAuth", "Key"}}

\* Messages whose texts hold line ends and fields, with every serializer, failing or not.
MCGenerated == <<"g">>
MCChars == {"a", "b", "g", "i", "x", "y", "z", "9", CR, LF, "id: ", "event: ", "data: "}
Sends(id, event, option, plain) ==
    [id |-> id, event |-> event, retry |-> <<"9">>, hasData |-> plain # {}, hasOwn |-> FALSE,
     own |-> {}, option |-> option, plain |-> plain]
MCMessages ==
    {Sends(<<>>, <<"x">>, {<<"a">>}, {<<"a", CR, LF, "event: ", CR, "id: ", "b">>}),
     Sends(<<"i", LF, "data: ", CR>>, <<>>, {}, {}),
     [Sends(<<>>, <<"y", LF, LF, "z">>, {}, {<<"b">>}) EXCEPT !.hasOwn = TRUE],
     [Sends(<<>>, <<>>, {}, {<<"a">>}) EXCEPT !.hasOwn = TRUE, !.own = {<<LF, CR>>}],
     Sends(<<"i">>, <<>>, {}, {<<"a">>})}

\* Routes beside an application at the root or under a prefix; and any paths.
MCRoutePaths == {<<>>, <<"api">>, <<"api", "users">>, <<"app", "x">>}
MCApplications ==
    {[prefix |-> <<>>, exclude |-> {}, auto |-> TRUE],
     [prefix |-> <<>>, exclude |-> {<<"metrics">>, <<"app", "x">>}, auto |-> FALSE],
     [prefix |-> <<"app">>, exclude |-> {<<"app", "a.js">>}, auto |-> TRUE]}
MCFiles == {<<"a.js">>, <<"api", "a.js">>}
MCURLs == UNION {[1 .. n -> {"api", "users", "app", "x", "a.js", "metrics", ".."}] : n \in 0 .. 3}

ASSUME DistinguishableAssumption == Distinguishable
=============================================================================
