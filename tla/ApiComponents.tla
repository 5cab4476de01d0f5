---------------------------- MODULE ApiComponents ----------------------------
(***************************************************************************)
(* Schemas shared as components of the OpenAPI documents.                  *)
(*                                                                         *)
(* Each use of a Go struct by a route (request, response) has a schema of  *)
(* its own, in which the structs it has for fields are written out, until  *)
(* a struct turns up inside itself: that one becomes a reference.          *)
(* buildOpenAPISpec replaces the schema of a use by a reference to a       *)
(* component, made for the first use and found again by comparing schemas, *)
(* and gives references to recursive structs their names when all routes   *)
(* are done.  Then the 3.1 document adds the webhooks to a copy.           *)
(*                                                                         *)
(* Responses, registered schemas and components are kept in Go maps: they  *)
(* are met in any order.  Embedded structs are left out (see JsonMembers). *)
(***************************************************************************)
EXTENDS Integers, Sequences, FiniteSets

CONSTANTS
    Structs,        \* Go struct types
    TypeName,       \* a struct's name, without its package
    Properties,     \* a struct's properties: name to a struct, or Scalar
    Required,       \* how many of them are required
    Declared,       \* components registered by hand: name to a struct, or Nowhere
    ComponentNames, \* names of components
    Suffixed,       \* the names a name stands for: itself, then with counters 1, 2, ...
    RouteUses,      \* sequence of sets of uses [id, struct, whole]: one operation's request,
                    \* then its responses, then the next operation's; ~whole: an array or map
    WebhookUses     \* the same for the webhooks

Scalar  == "scalar"
Nowhere == "nowhere"

SubStructs(s) == {Properties[s][p] : p \in DOMAIN Properties[s]} \ {Scalar}

\* A schema is named by the structs in progress when it is built: the last is its own.
Nodes ==
    {path \in UNION {[1..n -> Structs] : n \in 1..Cardinality(Structs)} :
        /\ \A i, j \in DOMAIN path : path[i] = path[j] => i = j
        /\ \A i \in DOMAIN path : i > 1 => path[i] \in SubStructs(path[i - 1])}

StructOf(node) == node[Len(node)]

IsPrefixOf(a, b) == Len(a) <= Len(b) /\ \A i \in 1..Len(a) : a[i] = b[i]

AllUses(batches) == UNION {batches[i] : i \in 1..Len(batches)}
Uses    == AllUses(RouteUses) \cup AllUses(WebhookUses)
Holders == {use.id : use \in Uses} \cup ComponentNames

ASSUME ComponentsAssumption ==
    /\ IsFiniteSet(Structs) /\ Scalar \notin Structs /\ Nowhere \notin Structs
    /\ TypeName \in [Structs -> ComponentNames]
    /\ Declared \in [ComponentNames -> Structs \cup {Nowhere}]
    /\ Suffixed \in [ComponentNames -> Seq(ComponentNames)]
    /\ RouteUses \in Seq(SUBSET Uses) /\ WebhookUses \in Seq(SUBSET Uses)
    /\ \A use \in Uses : use.struct \in Structs /\ use.whole \in BOOLEAN
    /\ {use.id : use \in Uses} \cap ComponentNames = {}

VARIABLES
    stage,       \* "routes", "resolve", "webhooks", "resolveWebhooks" or "done"
    batch, due,  \* the position in the routes or webhooks, and the uses of it to come
    registry,    \* schemaRegistry: name to a schema, or <<>>
    components,  \* spec.Components.Schemas, likewise
    named,       \* what a use has come to: the name of a component, or Nowhere (inline)
    refs,        \* references to recursive structs: [holder, from, to],
    unresolved,  \* those resolveRecursiveRefs has yet to come to,
    refName      \* and the component each names

componentsVars ==
    <<stage, batch, due, registry, components, named, refs, unresolved, refName>>

\* newRecursiveRef: a struct that is in progress is referred to by the name of its type.
RefsUnder(holder, node) ==
    {ref \in [holder : {holder}, from : Nodes, to : Nodes] :
        /\ IsPrefixOf(node, ref.from) /\ IsPrefixOf(ref.to, ref.from)
        /\ StructOf(ref.to) \in SubStructs(StructOf(ref.from))}

RefIds == UNION {RefsUnder(holder, node) : holder \in Holders, node \in Nodes}

BatchAt(batches, i) == IF i <= Len(batches) THEN batches[i] ELSE {}

ComponentsTypeOK ==
    /\ stage \in {"routes", "resolve", "webhooks", "resolveWebhooks", "done"}
    /\ batch \in Nat
    /\ due \subseteq Uses
    /\ registry \in [ComponentNames -> Nodes \cup {<<>>}]
    /\ components \in [ComponentNames -> Nodes \cup {<<>>}]
    /\ named \in [Uses -> ComponentNames \cup {Nowhere}]
    /\ unresolved \subseteq refs /\ refs \subseteq RefIds
    /\ refName \in [RefIds -> ComponentNames]

\* The start of buildOpenAPISpec: registered schemas come first.
ComponentsInit ==
    LET seeded == [name \in ComponentNames |->
                     IF Declared[name] = Nowhere THEN <<>> ELSE <<Declared[name]>>]
    IN  /\ stage = "routes" /\ batch = 1 /\ due = BatchAt(RouteUses, 1)
        /\ registry = seeded /\ components = seeded
        /\ named = [use \in Uses |-> Nowhere]
        /\ refs = UNION {RefsUnder(name, seeded[name]) :
                            name \in {n \in ComponentNames : Declared[n] # Nowhere}}
        /\ unresolved = refs
        /\ refName = [ref \in RefIds |-> TypeName[StructOf(ref.to)]]

\* schemasEqual, of the schemas of two structs.
SchemasEqual(s, t) ==
    /\ TypeName[s] = TypeName[t]
    /\ DOMAIN Properties[s] = DOMAIN Properties[t]
    /\ Required[s] = Required[t]

IsObject(s) == DOMAIN Properties[s] # {}

\* The registered components a schema is taken to be.
Known(s) == {name \in ComponentNames :
                registry[name] # <<>> /\ SchemasEqual(s, StructOf(registry[name]))}

\* generateComponentName, and the first counter that makes the name unique.
IsFresh(name, s) ==
    \E k \in DOMAIN Suffixed[TypeName[s]] :
        /\ name = Suffixed[TypeName[s]][k] /\ registry[name] = <<>>
        /\ \A l \in 1..(k - 1) : registry[Suffixed[TypeName[s]][l]] # <<>>

\* getOrCreateSchemaComponent for an object schema, which is to be known as name.
GetOrCreate(node, name) ==
    IF Known(StructOf(node)) # {}
    THEN name \in Known(StructOf(node)) /\ UNCHANGED <<registry, components>>
    ELSE /\ IsFresh(name, StructOf(node))
         /\ registry' = [registry EXCEPT ![name] = node]
         /\ components' = [components EXCEPT ![name] = node]

\* The references that come into the document with a new component.
Added(node, name) == IF Known(StructOf(node)) # {} THEN {} ELSE RefsUnder(name, node)

\* buildOperation, one schema: an array, a map or an object without properties stays inline.
BuildSchema(use) ==
    /\ stage \in {"routes", "webhooks"} /\ use \in due
    /\ due' = due \ {use}
    /\ IF use.whole /\ IsObject(use.struct)
       THEN \E name \in ComponentNames :
              /\ GetOrCreate(<<use.struct>>, name)
              /\ named' = [named EXCEPT ![use] = name]
              /\ refs' = refs \cup Added(<<use.struct>>, name)
              /\ unresolved' = unresolved \cup Added(<<use.struct>>, name)
       ELSE /\ refs' = refs \cup RefsUnder(use.id, <<use.struct>>)
            /\ unresolved' = unresolved \cup RefsUnder(use.id, <<use.struct>>)
            /\ UNCHANGED <<registry, components, named>>
    /\ UNCHANGED <<stage, batch, refName>>

\* The next set of schemas; after the last, references are resolved.
NextBatch ==
    LET batches == IF stage = "routes" THEN RouteUses ELSE WebhookUses
    IN  /\ stage \in {"routes", "webhooks"} /\ due = {}
        /\ IF batch < Len(batches)
           THEN batch' = batch + 1 /\ due' = batches[batch + 1] /\ UNCHANGED stage
           ELSE /\ stage' = IF stage = "routes" THEN "resolve" ELSE "resolveWebhooks"
                /\ UNCHANGED <<batch, due>>
        /\ UNCHANGED <<registry, components, named, refs, unresolved, refName>>

\* A recursive reference gets the name of its target's component.
PointAt(ref, name) == refName' = [refName EXCEPT ![ref] = name]

\* resolveRecursiveRefs, one reference, in any order.  References of the routes are plain in
\* the copy the webhooks are added to: the second pass has those of the webhooks only.
ResolveRef(ref) ==
    /\ stage \in {"resolve", "resolveWebhooks"} /\ ref \in unresolved
    /\ \E name \in ComponentNames :
          /\ GetOrCreate(ref.to, name) /\ PointAt(ref, name)
          /\ refs' = refs \cup Added(ref.to, name)
          /\ unresolved' = (unresolved \ {ref}) \cup Added(ref.to, name)
    /\ UNCHANGED <<stage, batch, due, named>>

\* Bug: webhooks start from an empty registry.
StartWebhooksEmpty ==
    /\ stage' = "webhooks" /\ batch' = 1 /\ due' = BatchAt(WebhookUses, 1)
    /\ registry' = [name \in ComponentNames |-> <<>>]
    /\ UNCHANGED <<components, named, refs, unresolved, refName>>

\* buildWebhooks: the registry starts from the components.
StartWebhooks ==
    /\ stage' = "webhooks" /\ batch' = 1 /\ due' = BatchAt(WebhookUses, 1)
    /\ registry' = components
    /\ UNCHANGED <<components, named, refs, unresolved, refName>>

DeriveSpec31 == stage = "resolve" /\ unresolved = {} /\ StartWebhooks

Finish ==
    /\ stage = "resolveWebhooks" /\ unresolved = {}
    /\ stage' = "done"
    /\ UNCHANGED <<batch, due, registry, components, named, refs, unresolved, refName>>

ComponentsNext ==
    \/ \E use \in due : BuildSchema(use)
    \/ NextBatch
    \/ \E ref \in refs : ResolveRef(ref)
    \/ DeriveSpec31
    \/ Finish

ComponentsSpec == ComponentsInit /\ [][ComponentsNext]_componentsVars

(***************************************************************************)
(* Properties.  They need structs okapi can tell apart: schemasEqual looks *)
(* at the names of the properties and not at their types.                  *)
(***************************************************************************)
Distinguishable == \A s, t \in Structs : SchemasEqual(s, t) => s = t

Documents(name, s) == components[name] # <<>> /\ StructOf(components[name]) = s

\* The component a document refers to, instead of writing out a struct, is that struct's.
RefsFaithful ==
    /\ \A use \in Uses : named[use] # Nowhere => Documents(named[use], use.struct)
    /\ \A ref \in refs \ unresolved : Documents(refName[ref], StructOf(ref.to))

\* No struct is documented under two names, unless it was registered under both.
OneComponentPerStruct ==
    \A m, n \in ComponentNames :
        /\ components[m] # <<>> /\ components[n] # <<>>
        /\ StructOf(components[m]) = StructOf(components[n])
        => m = n \/ (Declared[m] # Nowhere /\ Declared[n] # Nowhere)

\* References in the document lead to the struct they stand for, and each struct is documented
\* once: also when structs of different packages bear one name, when a struct is only found to
\* need a component once all routes are done, whatever made a component, a registered schema,
\* a route, a reference or a webhook, and in whatever order.
ComponentsFaithful == RefsFaithful /\ OneComponentPerStruct
=============================================================================
