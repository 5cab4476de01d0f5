# Okapi, specified

Okapi is a Go web framework: an HTTP router with middlewares, groups, binding and
validation, OpenAPI generation, JWT authentication, Server-Sent Events, a client and a
command-line runner.  This directory holds TLA+ specifications of the parts of it that
are hard to test, the TLC runs that check them on small instances, and TLAPS proofs of
the results that hold for every instance.

| files | what they are |
|---|---|
| `Lifecycle`, `JwksCache`, `Dispatch`, `ClientRetry` | the concurrent components: state, actions, properties |
| `RunServer` | the command-line runner, around `Lifecycle` |
| `Delivery` | the abstract specification that `ClientRetry` implements |
| `Registration`, `ApiPaths` | routes, CORS and OPTIONS; the operations documented for them |
| `ApiComponents`, `JsonMembers`, `ApiParameters`, `Constraints` | the OpenAPI document: shared schemas, members of structs, what an operation says, validation keywords beside the validators |
| `Binding`, `BodyCap` | filling a struct from a request; limits on its body |
| `ClaimsExpr`, `JwtAuth` | claims expressions; a request before the JWT middleware |
| `ErrorAnswers`, `EventStream`, `ForwardedIP`, `WebFallback`, `CommandLine` | answers to errors, server-sent events, the client's address, web applications, configuration structs |
| `MC*.tla`, `*.cfg` | the instances TLC checks; `MCParts` composes the parts of the five rows above |
| `LifecycleProofs`, `JwtProofs`, `DispatchProofs`, `ClientRetryProofs`, `RegistrationProofs`, `DocumentProofs`, `PartsProofs` | theorems and their proofs |
| `NumberLemmas` | lemmas on numbers and recursion that the proofs share |
| `PROJECT.json` | components, runs, the source lines behind each definition, findings, hazards, theorems |

To check a run: `tlc -config Jwks.cfg MCJwksCache`.  To check the proofs of a module:
`tlapm JwtProofs.tla`.

The operators whose comment begins with "Bug:" are not part of any specification: each is
a definition of the module as a plausible mistake would have written it (a dropped guard, a
missing reset), and substituting it must break the property `PROJECT.json` pairs it
with.

## The system

### What there is

| component | source | state | operations | modelled in |
|---|---|---|---|---|
| server lifecycle | okapi.go 905-1110, 1605-1651 | `o.server`, `o.tlsServer`, `o.baseCancel`, `o.shutdownCh`, all under `lifecycleMu`; two `http.Server`s | Start, StartServer, Stop, StopWithContext, Shutdown | `Lifecycle` |
| runner | okapicli/okapi_cli.go 420-481 | signal and error channels | RunServer | `RunServer` |
| JWKS cache | jwks.go | per endpoint: key set, error, time of success, time of last fetch, fetch in flight | jwksFromCache, jwksRefresh, startFetch, await | `JwksCache` |
| JWT authentication | jwt.go, middlewares.go | the cache of parsed expressions | authenticate, extractToken, resolveKeyFunc, validateJWTClaims, Middleware | `JwtAuth`, key function in `JwksCache` |
| claims expressions | jwt_claims_expression.go | none | ParseExpression, Evaluate | `ClaimsExpr` |
| request dispatch | okapi.go 796-1000, 1366-1383, 1531-1566, 1785-1804; group.go; context.go 143-151, 457-492 | middleware lists and disabled flags of app, groups and routes; per request the chain, the index in it, the response | Use, Disable, Enable, ServeHTTP, buildHandlers, Next, writeResponse, handleChainError | `Dispatch` |
| routing, CORS and OPTIONS | okapi.go 1335-1530, cors.go, router_register.go | `routes`, `optionsHandlers`, `optionsRegistered`, `corsEnabled`, the router's table | addRoute, WithCors, registerUserOptions, registerOptionsHandler, CORSHandler | `Registration` |
| binding | binder.go | the request body and its cap | Bind, bindRequest, BindMultipart, bindStruct, capBody; BodyLimit | `Binding`, `BodyCap` |
| validation | validator.go | none | the checkers | `Constraints`, `Binding` |
| OpenAPI | openapi.go, route options in okapi.go | registry of components; a route's documentation | buildOpenAPISpec and all below it | `ApiPaths`, `ApiComponents`, `JsonMembers`, `ApiParameters`, `Constraints` |
| error helpers | errors.go | the error handlers of application and request | Abort..., Error..., handlers | `ErrorAnswers` |
| server-sent events | sse.go, context.go 560-714 | ping ticker, message channel, the shutdown channel a loop holds | Send, SSEvent and its like, SSEStream | `EventStream`, end of the loop in `Lifecycle` |
| client | client/ | per call: attempt, body, response; the transport's connections | Do, retryMiddleware | `ClientRetry` |
| flags and configuration | okapicli/ | flag values | FromStruct, Execute, Parse | `CommandLine` |
| web applications | static.go | none | webExcluded, webHandler | `WebFallback` |
| request facts | util.go, helper.go | none | realIP | `ForwardedIP` |
| templates, docs pages, accessors, test helpers | template.go, doc.go, context.go, okapitest/ | none or one request's | | not modelled (see below) |

### How they interact

A request enters through `net/http` on one of the two listeners with a context derived
from the base context of the run that started it (`Lifecycle`).  `ServeHTTP` hands it to
the router (njia, external), which calls the handler `Registration` says; that resolves the
route's flags and middlewares through the groups above it and runs the chain (`Dispatch`).
One of the middlewares may be `JWTAuth` (`JwtAuth`), which verifies a token against a key set
shared by every request of the process (`JwksCache`); another may be BodyLimit, whose limit
meets the binders' (`BodyCap`).  The handler binds its request (`Binding`), answers or fails
(`ErrorAnswers`), or is an SSE loop that lives until the shutdown channel closes (`Lifecycle`
again, and `EventStream`).  The document is built from the routes and structs that serve
requests, which is what its properties compare it with.

Where two components share state, one module has both: `RunServer` extends `Lifecycle`
(RunServer's goroutine is one of its starters, its stop one of its stoppers), `ApiPaths`
extends `Registration`, `JwtAuth` extends `ClaimsExpr`.  The others share no variables:
`Lifecycle` sees a request as running or not, `Dispatch` sees one request's way through the
chain while other goroutines change the configuration, and most of the parts in `MCParts`
see one call on one goroutine.  The client is a package of its own and meets the server side
only over HTTP.

### What is hard, and what makes each part correct

*Lifecycle.*  `lifecycleMu` covers four fields but not `Shutdown`, which takes arbitrarily
long, and not `Start`'s own read of `o.server`.  Starts, overlapping stops, the two
listeners and requests interleave everywhere else.  Correct means: the shutdown channel is
closed once; contexts are cancelled after draining, not before; a stop that reports
success left nothing running; every server that accepts can be stopped; streams cannot
keep a stop from returning.  *RunServer* adds a signal at any time and a bind error: what it
returns must agree with what was drained, and a signal must end it.

*JWKS cache.*  A waiter gives up the mutex and finds another entry when it has it back;
configurations with different TTLs share one entry; the provider rotates keys and fails
whenever it likes.  Correct means: one fetch at a time and a bound on how often; a
withdrawn key stops working; a published key starts working; nobody waits for ever.

*Dispatch.*  Middlewares and flags change while requests run; elements of a chain call
`Next` once, twice or never, write or not, fail or not.  Correct means: authentication in
a group covers everything in it whatever the order of registration; the handler runs at
most once and only inside its guards; a response, once committed, stays as it is, and a
failure is always answered; what is disabled is closed.

*Client.*  An attempt can fail after the server acted, with the body half read, with a
response open, or because the caller gave up.  Correct means: nothing is carried out more
often than its policy allows; each time with the whole body; no response is left open while
the call waits; the first acceptable answer is the one returned; cancellation is noticed.

*The parts.*  Their difficulty is order and combination.  Routes, CORS, a user's OPTIONS
route and flags come in any order; struct tags are read by a validator, two binders and a
document generator that must agree; Go maps are walked in any order while names are given
out; a parser decides who is authorised; headers pass through proxies; bytes of an event
stream end in the middle.  Each has one property that compares what the code computes with
what its callers rely on, stated without the algorithm.

## The modules and the code

### Lifecycle

One action per section between two synchronisation points of the code.

| action | code |
|---|---|
| StartCall | `Start` reads `o.server` (no lock) or the caller passes a server to `StartServer` |
| StartPrepare | `ValidateAddr(server.Addr)`, the base context, `server.BaseContext` |
| StartPublish | the section under `lifecycleMu`: `o.server`, `o.baseCancel`, `o.shutdownCh`; `printServerInfo` reads `o.tlsServer` |
| StartSpawn | the HTTP goroutine and `tlsServer.BaseContext` |
| StartListen, StartReturn, BgListen, BgReturn | the two `ListenAndServe` calls begin and return |
| StopCall | the snapshot of both servers in `StopWithContext` |
| StopSkip | `shutdownServer(nil)` |
| StopClose | the section that closes the channel and reads `o.baseCancel` |
| StopShutdown, StopDrained, StopExpired | `server.Shutdown(ctx)`: called; returned nil; returned the context's error |
| StopCancel | `baseCancel()`, and the early return on an error |
| StopClear | the section that sets `o.server` or `o.tlsServer` to nil |
| Accept | net/http gives a request to a handler |
| StreamOpen, StreamEnd | `SSEStream` reads the channel; its `select` sees the channel or the context |
| Finish | any other end of a handler |

A call of `StartServer` creates one base context and one channel; both are named by the
starter.  `reqCtx` and `reqCh` record which ones a request holds.  `closes` counts how
often each channel was closed (the second time would panic).  A Go panic ends the process:
`Next` has no successor once one happened (`NoPanic`).

Left out: the panic on an invalid address before anything is shared; `StartOn`, which sets
the port and calls `Start`; `Shutdown(server)`, which is one `shutdownServer` on a server of
the caller's; `With` on a started instance;
`WithTLS` on the plain server (`server.TLSConfig` is nil, so the HTTP listener is plain);
connections that net/http keeps idle.  A bind error is possible at any start.

`net/http` is external: `Shutdown` stops the listener at once, waits for the requests on
it and returns when they are gone or its context ends; `Serve` returns as soon as
`Shutdown` is called, and a server that was shut down never serves again.

### RunServer

| action | code |
|---|---|
| Signal | `signal.Notify`: one signal is kept, from any moment on |
| Launch | `OnStart`, then the goroutine that calls `Start` (whose steps are `Lifecycle`'s) |
| ReportError | that goroutine sends what `Start` returned, which is always an error |
| SelectError, SelectQuit | the two cases of the `select` |
| CallStop | `OnShutdown` has returned, the timeout starts, `StopWithContext` is called |
| StopReturned | and its result returned |

The stop of RunServer always has a deadline: the option's timeout is positive, or the
default.  When the application stops the instance by itself, `RunServer` returns
`ErrServerClosed` as an error, and the process may end while that stop still drains:
`ReturnsDrained` says so.

### JwksCache

One entry of `jwksStore`, its callers and the endpoint.  Each section under `e.mu` is one
action; the wait in `await`, the gap between `jwksFromCache` and `jwksRefresh` in the key
function, and the HTTP request are open to every interleaving.

| action | code |
|---|---|
| Lookup | `jwksFromCache` up to its return or its wait, then `getKey` on what it returned |
| LookupResumes | `jwksFromCache` after `await` |
| Refresh, RefreshResumes | `jwksRefresh` up to its wait, and after it, then `getKey` |
| FetchAnswered | the endpoint answers with the keys it has at that moment |
| FetchDone | the goroutine of `startFetch` records result or error, clears `inflight`, closes the channel |
| Publish, Withdraw, Tick | the provider; the clock |

A key set is the set of key ids in it that parse to a usable key.  The clock is discrete,
and no fetch outlives `FetchTimeout` (the HTTP client's timeout).  `since` and `until` are
history of the provider, `callAt` of a call; no action reads them but to update them.
`FetchIds` are reused names for the fetch goroutines: one more than the callers is enough,
because a name is in use only while its fetch runs or a caller waits on it.
The assumptions on the constants (`JwksAssumption`) are the relations between the values
in the code: the fetch timeout (5 s) is below the cooldown (1 min), the cooldown at most
the grace (15 min); a TTL is positive, after its default.  That the goroutine records the
result within the timeout, scheduling included, is the one thing assumed of time.

`RotationPickedUp` is about every refusal of a key id as unknown.  The key function also
refuses so when its refresh fails: it then returns the error of its first `getKey`, "no
matching JWK" (jwt.go 233-236).  A key published long ago is refused for that reason while
the endpoint fails, which the property excepts: the latest fetch failed, and one started
within the cooldown before the call or since.  `FetchSpacing` is about each fetch by itself,
by the variables of its goroutine: those that `jwksFromCache` starts while it serves a stale
set (jwks.go 168-173) are among them.  The distance is that of the caller who starts it
(`fetchTtl`).

### Dispatch

Groups and routes form a constant tree (`Up`); a holder is the app, a group or a route,
each with a list of middlewares, and a group or a route can be disabled.  `Use`,
`Disable` and `Enable` may be called while requests run.  The flags are plain booleans read
without a lock, one at a time (`CheckDisabled`); a read returns the value last stored, which
is what a one-byte load does on the processors Go supports, although Go's memory model
promises less.  `Use` appends to a slice, which is more than a byte: an append while a request
reads the lists (`pc = "build"`) may be seen in part, and has no meaning to model.  `Use` is
excluded there and free everywhere else.

| action | code |
|---|---|
| Arrive | `ServeHTTP`, the router's match, `NewContext` |
| CheckDisabled | one step of `isDisabled` from the route upwards; the 404 |
| BuildChain | `buildHandlers` and the first `Next` |
| CallNext | an element calls `Next` (or `next.ServeHTTP` in a standard middleware) |
| WriteResponse | `writeResponse`, including its failed encoding |
| RawWrite | the response used directly: Write, WriteHeader, Flush |
| Return | an element returns nil or an error; the adapter around a standard middleware and `routeHandler` handle errors with `handleChainError` |

An element of the chain may do any of these, in any order, any number of times (`Next`:
at most `MaxNext`).  `stack` is the goroutine's call stack.  `owed`, `blockers`, `opened`,
`handled` and `failed` are history for the properties, not code.

Left out: the access log (always the first global middleware; it calls `Next` once and
returns its result),
hijacked connections, what an error handler writes (`ErrorAnswers` has it; here it is one
write), and registration of routes and groups while requests run (`Registration` has the
registration before).

### ClientRetry

One call of `RequestBuilder.Do` (or `Client.Do`) is one element of `Calls`, with a request
and a policy that never change (`setting`).

| action | code |
|---|---|
| Do | building the request and entering the chain; `!policy.enabled() \|\| !policy.canRetry(req)` |
| BufferBody | `io.ReadAll(req.Body)`, which may fail |
| GiveUp | `attempt == policy.MaxAttempts \|\| !policy.shouldRetry(resp, err)`: return |
| TryAgain, Drain | the end of the loop's body: `io.Copy`, `Close`; the next turn, with its delay and its new body reader |
| BackoffEnds, BackoffInterrupted | the two cases of the `select` |
| ReadResponse | `Do` reads the response and closes it |
| Connect, SendChunk, Execute, Respond, AttemptFails, LateExecute | external: `http.Client.Do`, its transport and the server |

A body is a number of chunks and is consumed as it is sent, so an attempt that fails leaves
a reader somewhere in the middle.  The length is taken to be unknown to the transport, as
with `Body(io.Reader)`: a known one would turn a truncated body into an error.  A failed
attempt whose body was complete may be carried out later (`orphans`).  A connection is
taken for an attempt and given back when the attempt fails or its response is closed; the
limit is the transport's (`MaxConnsPerHost`, through `WithHTTPClient`).  `outcomes` is
history.

Left out: redirects (inside `http.Client.Do`); middlewares, which wrap the whole loop and
see one request and one response per call; a second `Do` of one builder, whose body reader
is then used up; the overflow of a delay without `MaxDelay`, which the sum of the delays
before it, over a century, keeps out of reach.

`Delivery` is the contract: executions, the status held, the result.  `Contract` maps the
lengths of `effects` to executions and `resp` to the status held; `Execute` and
`LateExecute` are its Execute, `Respond` its Reply, closing a response its Discard.

### Registration and ApiPaths

The actions are what an application does before it serves: WithCors, AddRoute (`addRoute`
with `mustRegister`, `registerUserOptions` and `registerOptionsHandler` whole), Disable and
Enable, in any order.  The router is external: a table from method and path to a handler, an
Any route for the rest, and a panic for a method and path registered twice, which ends the
behaviour.  Requests change nothing here, so `Answer` is an operator: the router's choice,
`RouteHandler` with the disabled flag, `CORSHandler`, or `PreflightHandler`, and the headers.
A pattern of origins is the set of origins it matches; Expose-Headers, Max-Age and Vary are
left out.  Paths are normalized, and no two match one URL.

`OptionsAnswered` says that the handler okapi adds takes nothing from the application, and
that a preflight tells what the request will get.  It leaves out routes added before
`WithCors` (`late`: they get no preflight handler, okapi.go 1481) and a path whose OPTIONS
route is disabled.

`ApiPaths` is the loop of `buildOpenAPISpec` over the same routes: an Any route documents the
methods no other route documents, in whatever order they came.  `DocumentsServing` compares
the result with `Answer`.  Where a disabled route keeps an Any route from answering, the Any
route is documented all the same; the property excepts that, and the methods an Any route
serves that the document has none of it for, OPTIONS and HEAD (`NotForAny`).

### ApiComponents

| action | code |
|---|---|
| BuildSchema | one use of a struct in `buildOperation`: inline, or `getOrCreateSchemaComponent` |
| NextBatch | the next operation's request, its responses, the next operation |
| ResolveRef | `resolveRecursiveRefs`, one reference: Go maps are walked in any order |
| DeriveSpec31 | `buildWebhooks` on a copy, from the components as they are |
| Finish | the document is done |

A schema is named by the structs in progress when it was built; a struct that turns up inside
itself is a reference, first named after its type and later after its component.
`schemasEqual` compares titles, property names and the number of required properties, not
the types of the properties, so that two types of one name with the same properties share a
component: `Distinguishable` says that no structs do, and the results assume it.  Which of two
types of one name becomes `T` and which `T1` depends on the order of a map and may differ
between two builds.

### JsonMembers

One action: a round of `dominantFields`' loop, for any member.  The members of a struct and
those it promotes come in any order.  The reference is the rule in encoding/json's
documentation.

### ApiParameters

The actions are the options of a route (DocPathParam, DocQueryParam, DocHeader, DocAuth,
WithSecurity, DocResponseHeader, DocRequestBody, DocResponse), the two that read a struct
(Request, Response, for `generateRequestSchema` and `generateResponseSchema`) and
BuildOperation, as often as the document is built; it writes the path's own parameters back
into the route, which the next build meets.  The order of parameters is left out: those of the
path are counted by their names, the others are sets.  `input`, `byHand` and `answers` are
history.

`FollowingSuffices` is the document seen from a client: sending what it says is required is
enough for the binder, and what `Respond` sends is what it says.  Its comment names the
cases where this is not so: fields from cookies are not documented at all, nor members
of a body beside tagged fields; when the path's parameters are given in part, the rest stay
undocumented (openapi.go 992), and a second struct replaces those given before; a `Body` is
documented under status 200 whatever `Status` says (openapi.go 2615); and `Respond` sends
a struct without tags as headers with an empty body, while the document says it is the body.
Where nothing is registered and one route asks for Basic and another for Bearer, the document
keeps the scheme for Basic only (openapi.go 968): the premise about `schemes` is that.
`WithOutput` says "any type (struct, slice, map)" (okapi.go 272), but
`normalizeToStructPointer` panics on what is not a struct.

### Constraints

Two readings of one set of tags: CheckFieldConstraints is the validator's;
ApplyValidationTags, DeriveSpec30 and TransformSchemaTo31 are the document's.  `In30` and
`In31` are JSON Schema, as a client reads it.  `DocumentedIsEnforced` compares them, for tags
that can be said in a schema as they are enforced (`Expressible`) and texts both measure
alike (`ReadAlike`).  The tags it leaves out are where the two differ: lengths count bytes,
while validation.md:19-20 and JSON Schema count characters; an exclusive bound takes the
place of an inclusive one given beside it; `min` and `max` of slices and maps become
`minimum` and `maximum`, which say nothing about them; choices, patterns and formats of a
slice of strings are put on the array; substrings are not documented; an empty text passes
every choice and pattern; a nullable pointer with a choice documents no null.  A tag of
another kind is passed over by a schema, while `multipleOf` refuses what is no number
(validator.go 1304), `pattern`, `contains` and `notContains` what is no text (736, 336), and
`format` reads what reflect's `String` says of a number, which is `ValueText` (700); `enum`
and `const` of another kind refuse every value on both sides, as validation.md:47-62 says.
Formats and patterns are the sets of texts that match; `multipleOf` zero, which panics on
integers, is left out.

### Binding

| action | code |
|---|---|
| Bind | `Bind` and `bindRequest`: a struct with a Body field, a multipart form, or a body to decode |
| Decode | the decoder for the content type, into all members |
| Overlay | `bindFromFields`, one field after the other, over what was decoded |
| Multipart | `bindMultipartField`, likewise |
| Extract | `bindStruct`: a field, its binding and its validation, before the next |
| Validate | `validateStruct`, one field after the other |

A source has the texts it has under the field's key, several when the key is repeated.  A
text is empty, a value, the zero value, one that breaks a constraint, one that does not
parse, one that is too large, or a list's with nothing between two commas.  `ReadQuery` and
`ReadForm` are what each binder finds in them: the first, all of them, or all that are not
empty.

`BoundAsSaid` compares the three binders with one order of sources: what a request says of a
field is what the first source says that says anything, all its texts for a list.
`SaidAlike` excepts where the binders differ.  Some of these no page promises otherwise:
net/http's FormValue also finds the query string, and a query tag in a multipart request also
finds the form; a multipart form has no cookies; the siblings of a Body ignore form tags;
`setSliceWithType` cuts integers to the size of an element (validator.go 500).  In the others
the code does less than core-concepts/request-handling.md says of every binder:

- Lines 116 and 170 promise repeated keys, `?tags=a&tags=b`.  The siblings of a Body read all
  of them, and so do the lists of strings of a multipart form; a flat struct reads the
  first one (binder.go 499), and so do a multipart form's other lists (449).
- Line 181 says that the first non-empty value wins.  In a multipart form an empty part is a
  value: it refuses the request (405, 577-586), or is an empty element of a list of strings
  (368).  And for such a list under both tags, a query tag also takes the form's texts
  (419).

Furthermore a rule about a sibling in a struct with a Body sees only fields
declared before (validation.md:69-75 says nothing of an order); `required` means not the zero
value; a zero in a decoded body counts as missing for the default.  Left out: nested structs,
files, protobuf, `BindQuery` and `BindForm`, which only convert.

### BodyCap

BindBody is any binder or form parser reading some or all of the body, with `capBody` before
it; BodyLimit reads ahead and puts a buffer in place; Copy is `Context.Copy`, used from then
on.  Integers wrap at `MaxInt`: a BodyLimit of the largest int64 reads nothing and leaves an
empty body (middlewares.go 309).  A copy has neither `bodyLimited` nor `cappedBody`, nor the
application, so that the default cap applies to it.  `BodyBounded` leaves both out.

### ClaimsExpr and JwtAuth

An expression is the function from claims to what `Evaluate` returns, so that the parser's
result and the grammar's can be compared.  `ParseRule` is what each function of the parser
does, from a position and, in a loop, with what was parsed so far; `Descend` is the recursion
over tokens.  `ReadRule` is the grammar: what the tokens of a span stand for in every way they
can be read; `Readings` is the set for a whole input.  A claim that is missing makes the whole
expression an error, and so a 401, even where the other side of `||` would hold; the model has
that, and `Says` does too.  JwtAuth has one action per check of `authenticate` and
`Middleware`, in the code's order; the order matters for which of 401 and 403 is answered, and
the cache of parsed expressions is kept between requests (Arrive).  Left out: audiences and the
list of algorithms, which `jwt.Parse` checks like the issuer, and forwarding of single claims.

### ErrorAnswers

The actions are the helpers of errors.go by what they do: AbortHelper (message or default
text, error or none, through the error handler), AbortWithError, ErrorHelper (the value
alone), FixedForm, NotModified, HandleError (a returned error), and the two ways to set a
handler.  An answer is a status and the set of texts it shows; the first is committed.
`CausesKept` says where an error's text may reach the client.  Seen while modelling: helpers
whose own text differs from net/http's ("Bad request", "request Timeout") count as having a
message, so that problem details show that instead of the error, against
error-handling.md; the typed handlers' "Bad Request" (okapi.go 1992) counts as none, so that
they show the binder's error; problem details in XML have no extensions.  `writeResponse`
passes an encoding error's text to `http.Error` (context.go 475), which
error-handling.md:26 does not expect; that is `Dispatch`'s.

### EventStream

SendSSE and StreamMessage write the lines of a message (writeID, writeEvent, writeRetry,
writeData), whole, without the data when the encoding failed, or up to any character when the
connection breaks; Ping writes a comment; SSEStream and StreamStops begin and end a stream.
The client is the standard's parser.  Texts and the wire are read character by character, by
left folds that are recursive functions (`Folded`), so that they can be proved about.  The
type of a message whose encoding failed is left on the wire and would be the next one's, if
that has none (sse.go): `EventsAsSent` excepts it.

### ForwardedIP

A request passes from host to host: Rewrite (a host outside the trusted networks writes what
it likes), Forward (a proxy appends), Replace (the proxy before the application sets both
headers anew).  `RealIP` is the code's.  Without trusted proxies the code takes the first
entry, whoever wrote it, which may be blank; the property asks for nothing then.

### WebFallback

AddWebRoute and Web in any order; `ServedBy` is the router with `webHandler` behind it.  With
a prefix of its own, routes under that prefix do not exclude their segment (`app.prefix = <<>>`
in the property).  `o.routes` is read by each request without a lock, which matters only when
routes are added while serving.

### CommandLine

FromStruct, Execute, ApplyEnvVar (Go maps: any order), EnvApplied, ParseArgs, PopulateStruct,
each on all fields but the third.  Flags before a command's name are dropped, and in
`--port 80 serve` the 80 is taken for the command; the parsed part of the line is what comes
after the name.  `ConfigPrecedence` leaves out what the code does not do: integers of a given
size and float32 fall back to zero without a tag (cli.md:150-160 does not say so), and a
CLI's own durations are never written back.

## What the runs check

| run | instance | result |
|---|---|---|
| LifecycleHttp | RunServer around one plain listener; the application may stop the instance too, with no deadline, before the start included; a signal at any time; an ordinary request and a stream; fairness | nothing is born cancelled; RunServer's result agrees with what was drained; a signal ends it |
| LifecycleTls | both listeners, two stops after the start, one with a deadline, an ordinary request and a stream; fairness | the channel is closed once; the plain listener's requests are drained before they are cancelled; a nil `Stop` means drained; every accepting listener can be stopped; streams end; every stop with a deadline, or whose ordinary requests end, returns |
| LifecycleHttpsCancel | both listeners, one stop | *violation*: requests on HTTPS are cancelled when HTTP is drained |
| LifecycleStartRace | `Start` and one stop | *violation*: `Start` dereferences the nil that `Stop` left |
| LifecycleLostServer | `StartServer(srv2)` and a stop that began before it | *violation*: the stop's last step clears `srv2` from `o.server`; nobody can stop it |
| Jwks | two callers with TTL 1 and 2, cooldown 2, grace 2, fetch timeout 1, one key, time 0..4; fairness | every call is answered; single flight, fetch spacing, bounded use of withdrawn keys, rotation picked up, causes for refusals |
| JwksRetry | the same | *violation*: a failing endpoint is asked once per TTL when that is below the cooldown |
| DispatchGuards | a route in a group in a group; three middlewares, one standard, added anywhere at any time; each calls Next at most once | the handler runs inside everything it is owed, outermost first; errors are answered |
| DispatchTwice | two middlewares; Next at most twice each; all three flags toggled at any time | the handler runs once; committed responses are final; what stays disabled stays closed |
| DispatchHandover | flags toggled while one request is checked | *violation*: served although something on its path was disabled at every moment |
| Retry | two calls, one connection; a POST sent once, a POST with a key retried after a backoff, a request of any method retried at once as a predicate says; fairness | carried out as often as allowed and with the whole body; responses closed; first acceptable outcome returned; every call ends; implements `Delivery` |
| Parts | one of thirteen parts at a time, below | one property each for the parts |

`MCParts` composes modules that share no state into one specification: an initial state picks
a part, whose actions are the only ones then.  So one run checks them all, and its states
are the sum of theirs.

| part | instance | property |
|---|---|---|
| routes | three routes on two paths, of GET, HEAD, TRACE, OPTIONS or any method; two CORS configurations, one with the wildcard before a named origin | `OptionsAnswered`, `DocumentsServing` |
| components | four structs, two of one name, three in cycles, one registered by hand; three sets of schemas of operations, one of a webhook | `ComponentsFaithful` |
| members | up to four members of two names, three levels | `DocumentsSerialized` |
| parameters | three options on a path of two parameters; five request structs, four answers; the document built any number of times | `FollowingSuffices` |
| binding | seven structs of two or three fields, three with a Body, some with lists of strings or numbers; every content type; values, empty, broken and repeated texts in the sources | `BoundAsSaid` |
| body | bodies of 0 to 5 bytes, caps 2 and 3, limits 1, 4 and the largest integer; parts and wholes | `BodyBounded` |
| constraints | integers, strings, slices and maps under the tags of their kind, and under those of texts and numbers whatever the kind | `DocumentedIsEnforced` |
| token | some 1500 expressions of up to three calls over six sets of claims; every key, expiry and issuer | `EnoughToPass` |
| address | two hosts, two proxies, three hops | `ClientSeen` |
| commandLine | three fields of different kinds, three tag sets and environments, seven lines, with and without a command | `ConfigPrecedence` |
| events | five messages with line ends and field names in their texts, three sends | `EventsAsSent` |
| web | four routes, three applications, every URL of up to three segments | `IndexForOwnPaths` |
| errors | two statuses, every helper, every pair of handlers | `CausesKept` |

### The findings

Five runs show the code doing something else than its documentation or its comments say;
`PROJECT.json` quotes both.  Each counterexample is a dozen steps at most.

1. *HTTPS requests are cancelled early* (okapi.go:1094).  One base context serves both
   servers, and the HTTP half of a stop cancels it.
2. *`Start` races `Stop`* (okapi.go:921).  `o.server` is read without the lock; after a
   complete `Stop` it is nil.
3. *A server nobody can stop* (okapi.go:1103).  The last section of `shutdownServer` sets
   the field to nil without looking whether it still holds the server it shut down.
4. *A failing key endpoint is retried faster than the cooldown* (jwks.go:168), once per TTL.
5. *A request can slip through two toggles* (group.go:176): the walk reads the outer
   group's and the route's flags at different times.

The smaller differences met in the parts stand with their modules above, and in the comments
of the properties that except them.

### The bounds, and why they are enough

*Lifecycle.*  Two stops give every overlap of two critical sections; a third adds no new
pair.  In `LifecycleHttp` one of the two is RunServer's.  One stream and one ordinary request
are the two kinds of handler; one start, because
a second start of a running instance is a use the findings already break.  The proofs
cover any number of stops and requests.  Every process runs a fixed program, so the state
space is finite without a bound.

*JwksCache.*  Time 0..4 is cooldown + grace: a key set is fetched, outlives its TTL, is
served stale, expires, and a fetch is due again on both sides of the cooldown.  One TTL is
below the cooldown and one at it, because the code branches there.  One key id suffices: the
keys of a set are independent of one another.  `MaxTime` is the only bound; the proofs do not
use it.

*Dispatch.*  Two nested groups are the least with an ancestor's ancestor; three
middlewares put one on each of three levels or several on one.  `MaxNext = 2` is the
least that repeats.  One request: requests share only the configuration, which here
changes at every step anyhow.  A middleware is added at most once in all, so the lists
are finite.  `DispatchGuards` toggles no flag and `DispatchTwice` does: flags matter
only before the chain is built.

`HandlerGuarded` is checked, and proved, for `MaxNext = 1`.  With a second call of `Next`
it does not hold and is not meant to: when an inner element stops the chain and returns,
an outer one that calls `Next` again resumes behind the element that stopped it, because
the index only grows.

*ClientRetry.*  One connection for two calls is the least that makes an unclosed response
block somebody, oneself included.  Two and three attempts have a first, a middle and a last;
a body of one chunk is consumed or not, which is what a missing rewind turns on.  The three
settings cover both sides of each branch of the policy.  Nothing else is bounded.

*Parts.*  `MaxRoutes = 3`: a method's own route, an Any route and an OPTIONS route of one
path in every order, with CORS switched on between any two.  `MaxMembers = 4` and `MaxDepth =
3`: a tie, its being broken, and a member of another name or level.  `MaxOptions = 3`: two
structs and an option between, before or after, which is what overwriting and appending turn
on. `MaxInt = 6`: values on both sides of every cap, and the integer that overflows.
`MaxBounds = 3`: a limit, a binder and another limit.  `MaxHops = 3`: a host that writes,
then a proxy that appends and one more.  `MaxSends = 3`: a failure or a ping between two
messages, and a break after.  Expressions of three calls have every pair of operators side by
side, with a negation and a parenthesis at the places where precedence shows.  All of these
are bounds of the instance, and the proofs, where there are some, hold without them.

### Fairness

*Lifecycle* (`FairSpec`): a stop that began goes on, which includes that a deadline
expires; a stream reaches its loop, and its `select` notices what is ready.  Both are the Go
scheduler's.  Nothing is assumed of clients, of ordinary handlers (the premise of
`StopReturns` names them) or of starts.  A stop may never begin.

*RunServer* (`RunSpec`): RunServer and its goroutine go on, its callbacks return, and a stop
that began goes on.  Signals may never come, requests may never end.

*JwksCache*: the HTTP client's timeout ends every fetch and its goroutine records that; a
caller whose channel is closed, or that is between its two calls, is scheduled.  The
endpoint may never answer, the clock may stop.

*ClientRetry*: the goroutine of a call goes on; an attempt with a connection gets an
answer; one that waits for a connection gets it when it stays free; `http.Client` fails an
attempt whose context has ended.  The timer of a backoff may never fire, because its delay
has no bound when `MaxDelay` is 0: a call may wait there until its context ends.  Timeouts
are possible and not counted on: `WithTimeout(0)` turns them off.

The parts have no liveness properties: each is a call that returns, or state between calls.
Deadlock checking is off: all these systems stop when every actor is done.

## What is proved

All theorems hold for every value of the constants that satisfies the module's `ASSUME`.

*LifecycleProofs.* `TypeCorrect` and `ClosedOnce`, for any configuration.  `StopsDrain`,
`DrainsBeforeCancel` and `ServersStayStoppable`, with one listener or two and any number of
starts, stops and requests, under `OwnServers`: every start is on the instance's own servers,
none on one passed to StartServer.  Without it `ServingIsStoppable` is false, which is what
the run *LifecycleLostServer* shows.  None of them is inductive: whether a cancelled context
may have active requests depends on where each stop is.  The invariant (`OwnInv`) has five
parts: no other server is involved (`OnlyOwn`); without TLS neither is the HTTPS one
(`OnlyPlain`); a server in shutdown accepts nothing (`Silenced`); what each stage of a stop
tells of the server it is at and of those it has behind it (`Stage`), in particular that one
is `Drained`, in shutdown and without requests, which is stable; and what a cleared field and
a cancelled context tell of servers (`Traces`).  `NoneStillborn` holds with one plain
listener only (`PlainHttp`): with two the base context they share is cancelled while the
second still accepts.  `RunReturnsDrained`, of `RunServer`: it needs that the instance has
one plain listener and nobody but RunServer starts it (`OnlyRunStarts`): otherwise its start
may fail, and RunServer return that error at once, while another listener still serves.  Its
invariants say when the listener serves or has requests (`RunListener`) and what each stage
of RunServer knows of its start and its stop (`RunStages`).

*JwtProofs.*  Of `JwksCache`: `TypeCorrect`; `JwksCorrect`: `SingleFlight`,
`WithdrawnKeyBounded` and `EveryRefusalHasCause`; `RotationsPickedUp` and `FetchesSpaced`, of
every step.  The invariant relates the clock to the entry: nothing recorded lies in the
future (`Clock`); a running fetch started at `lastFetch`, is not overdue, and its answer has
every key published since before it (`FetchesRunning`); the cached set is a snapshot at most
one fetch timeout older than `fetchedAt` (`Snapshot`); with no fetch running and no error,
the latest fetch filled the cache (`Outcome`); and a waiter whose fetch is done finds a
failure or a set as recent as its call, whatever came in between (`Waiters`).  `OneFetch`,
`WithdrawnKeysEnd` and `RefusalsExplained` state the parts of `JwksCorrect` by themselves.
For rotations the invariant also has that what a refresh waits for started at most a fetch
timeout before its call (`Awaited`).

Of `ClaimsExpr`: `ParserFollowsGrammar`, for every input: what the recursive descent returns
is the input's one reading, and an input it refuses has none.  The parser and the grammar are
recursive functions, so that it is first shown that both are defined: a recursion in which
every call is of a smaller size has a fixed point (`Recursion`), and for the parser the size
is what is left of the input, then the rule.  For this the fixed point is sought among the
functions that stop behind where they start (`Stops`), since how far a call goes decides
where the next one starts.  Soundness (`ParserSound`) is an induction on the position, with a
statement for the loops (`LoopSound`: what was read before is continued to a longer reading);
completeness (`ParserComplete`) an induction on the length of the span, which says of an
operand that the parser finds it, and of a chain that the loop goes on behind it (`GoesOn`)
where no operator that binds closer follows.  That a reading is found means that there is one
at most.  The only assumption (`ClaimsAssumption`) is that no call is spelled like an
operator.

Of `JwtAuth`: `AlwaysEnoughToPass`, for any configurations, sources and tokens.  The
invariant says for each phase which checks a request has behind it, the expression as the
parser has it; `ParserFollowsGrammar` turns that into what the grammar says.  `JwtAssumption`
says that a source holds one token or none and that an expression is of some length.

*DispatchProofs.*  `HandlerRunsOnce`, for any `MaxNext`: the index never goes back, and an
element is entered only by raising it.  `HandlerRunsGuarded` under `MaxNext = 1`: the stack
holds positions 1, 2, ..., and an element that has not called `Next` is the last.
`CommittedStays`: every action that changes the response needs it open.  `FailuresAnswered`
follows from it: the one step that makes a chain fail answers it, and no later step undoes
that.  `DisabledClosed`, in any tree: the nodes disabled ever since the request arrived lie
on the part of the path the walk has yet to read (`Walk`, with `PathUp`).
`GuardsAlwaysHold`, also under `MaxNext = 1` (an element that calls Next twice runs what is
behind it twice, see the findings): the middlewares that the instance, the route and all
groups above it had when the request arrived stand around the handler, outermost first.
`ChainMiddlewares` is recursive over the tree of groups; it is followed from the root
downwards by induction on the ancestors (`ChainUnfolds`), and what it returns has every
middleware of the path, no other, and in order (`ChainOK`).  The invariant (`GuardInv`)
carries that from the arrival through the check, over any `Use` meanwhile, to the chain that
was built.

*ClientRetryProofs.*  `TypeCorrect`; `CallsCorrect`: `WholeBody`, `WaitsEmptyHanded` and
`StopsAtAcceptable`; `ClientDelivers`: each step of `ClientRetry` is a step of `Delivery` or
a stutter.  A step moves one call (`Frame`); the invariant of a call says where it holds a
connection (`Holding`), that its body is whole before an attempt and in two parts during one
(`Bodies`), that executions and orphans together do not exceed the attempts begun
(`Counted`, which is what bounds late executions), and that every outcome so far was to be
retried (`Judged`).  `NoHoldAndWait` and `FirstAcceptableReturned` state the parts by
themselves.

*RegistrationProofs.* `OptionsAlwaysAnswered`, for any routes, origins and CORS
configurations: what the router's table and the handlers of OPTIONS hold is what the list of
routes says, whatever the order (`RegistrationInv`): the table has the one route of a method
and path (`TableHolds`), so have the OPTIONS handlers, which the router reaches directly or
through okapi's preflight handler (`OptionsHold`), and OPTIONS is taken on the path of a route
added under CORS (`UnderCors`), until a duplicate panics.  `DocumentsAlwaysServing`: the loop
over the routes that writes the document is a recursive function; that it is defined
(`LoopEnds`) comes first, and by induction on the number of routes an operation is that of a
route for its method, else of the Any route.  Both orders of adding are in it, and the methods
that an Any route serves without documenting them (`NotForAny`) are named by the property.

*DocumentProofs.*  `ComponentsCorrect`: `ComponentsFaithful`, under `Distinguishable`, for
any structs, references, routes and webhooks; the invariant adds that registry and document
have the same components, which is why a name that is free in one is free in the other.
`DocumentationSerialized`: one pass over the members keeps only the best one of each name;
the invariant (`BestSoFar`) relates it to every member met: none dominates it, and the name
is ambiguous when another is its equal.  It rests on `Dominance` being a preorder.
`DocumentedAlwaysEnforced`, for any texts, lengths, bounds and tags, of any kind, under
`Expressible` and `ReadAlike`: the two readings of the tags, the checkers' and the schema's,
agree value by value, in the 3.1 document after its rewriting and, one way, in the 3.0
document.  `FollowingAlwaysSuffices`, for any path, structs and security schemes: the
invariant relates the route to the struct of its handler however the options come
(`RouteMet`) and an operation to the route it was built from (`OperationMet`).

*PartsProofs.*  `ClientAlwaysSeen`, for any trusted networks and any number of hops: while
only proxies wrote, the headers start with the client (`Untouched`); behind a client outside
the trusted networks its address stands in them with nothing but proxies after it (`Behind`);
and where the client is itself inside, all entries are (`Inside`).  `CausesAlwaysKept`, for
any codes and any sequence of calls: the first call is answered at once (`Answered`), later
ones change nothing.  `BodyAlwaysBounded`, for any sizes, limits and `MaxInt`: every cap
stands for a limit that applied, the first limit for a cap, and nothing is lost but by the
BodyLimit that overflows. `IndexAlwaysForOwnPaths`, for any routes, files and prefixes in any
order. `ConfigAlwaysPrecedes`, for any fields and inputs: where each flag stands between the
steps. `BindersAgree`, for any number of fields, in any order, from any sources: an invariant
of the loops (fields before the current one hold what is said of them, and keep the rules
that only look back), below which stands the comparison of the three orders of sources, and
of what each binder reads of a key's texts, with those the property names, where `SaidAlike`
holds.  `EventsAlwaysAsSent`, for any characters, messages, serializers and failures: what is
written and what a client makes of it are folds over texts, recursive functions of the
position.  Each is first shown to be defined, and what it is for a text with one more
character (`FoldLaws`).  By one induction over a text, converting its line ends, framing its
lines and reading the frames gives its lines (`DataRead`); reading goes on where it stopped
(`ReadTwo`) and events only grow (`EventsGrow`), so that what breaks off before the last line
end of a message has no event of it (`NoEventBefore`).  The invariant (`EventInv`): until the
connection breaks the client is at the end of a line, with no data, and with no type unless
an encoding failed.

*NumberLemmas.*  The least and the greatest element that a CHOOSE picks, induction over a set
in place of a predicate (which the provers cannot instantiate), and the fixed point of a
recursion.

The assumptions on constants are those of the modules: `LifecycleAssumption`,
`RunAssumption`, `JwksAssumption`, `ClientAssumption` and so on say what kind of value a
constant is, and what the code guarantees of it (a fetch times out before the cooldown is
over, since both are constants of jwks.go).  TLC evaluates each on the instances.

### What is only model-checked

Liveness, since the prover has no ENABLED: `SignalEndsRun`, `StreamsEndOnShutdown`,
`StopReturns`, `CallersAnswered`, `CallsEnd`.  Every other property of a passing run is a
theorem, or a part of one.

## What is not modelled, and why

*Pure input and output, or wording*: templates, documentation pages, static file
contents, access logs, generated examples, descriptions and tags in the document, usage texts,
configuration files, assertion helpers of okapitest (`StartForTest` is a `Start` and a wait).
*One request's data without control flow*: accessors of Context, cookies (`SetCookie` escapes
what `Cookie` returns raw), the store, parameters; `Context.Copy` is in `BodyCap` as far as the
body goes (that it walks the store without its lock, context.go 254, is a data race no
property here is about).
*Regular expressions and parsing of formats*: the validators of strings, `ValidateAddr`,
`normalizeRoutePath`, patterns of origins.
*Middlewares without state*: BasicAuth, RequestID, the logger.
*External*: njia (routing), net/http, golang-jwt, pflag.

`PROJECT.json` lists under `hazards` what no property covers, with the reason.

## What could be added

1. `With` on a running instance and a second start, in `Lifecycle`, once their intended
   meaning is documented.
2. Abstract specifications: a shutdown contract that `Lifecycle` refines, a key store for the
   cache.
3. Nested structs and files in `Binding`; the client's request builder.
