--------------------------- MODULE DocumentProofs ---------------------------
(***************************************************************************)
(* What the OpenAPI document says, for any structs, routes, webhooks and   *)
(* members, and for any tags and values: references are faithful, the      *)
(* properties of a struct are the members encoding/json writes, a field    *)
(* allows the values that validation accepts, and an operation says enough *)
(* to call it.                                                             *)
(***************************************************************************)
EXTENDS ApiComponents, JsonMembers, Constraints, ApiParameters, FiniteSetTheorems,
        TLAPS

-----------------------------------------------------------------------------
(* References, for any structs, however they refer to each other, as long as *)
(* structs can be told apart.  The inductive invariant adds that the registry *)
(* has exactly the components: it is what makes a name that is free in the *)
(* registry free in the document.                                          *)

ComponentsInv ==
    /\ ComponentsTypeOK
    /\ registry = components
    /\ RefsFaithful
    /\ OneComponentPerStruct

\* A node is a schema of its last struct, and a struct alone is a node.
LEMMA NodesTyped ==
    /\ \A node \in Nodes : node # <<>> /\ StructOf(node) \in Structs
    /\ \A s \in Structs : <<s>> \in Nodes /\ StructOf(<<s>>) = s
  <1>1. ASSUME NEW node \in Nodes PROVE node # <<>> /\ StructOf(node) \in Structs
    <2>1. PICK n \in 1..Cardinality(Structs) : node \in [1..n -> Structs]
      BY DEF Nodes
    <2>2. Cardinality(Structs) \in Nat
      BY FS_CardinalityType, ComponentsAssumption
    <2>3. n \in Nat /\ n >= 1 /\ Len(node) = n
      BY <2>1, <2>2
    <2> QED BY <2>1, <2>3 DEF StructOf
  <1>2. ASSUME NEW s \in Structs PROVE <<s>> \in Nodes /\ StructOf(<<s>>) = s
    <2>1. Cardinality(Structs) \in Nat /\ Cardinality(Structs) # 0
      BY FS_CardinalityType, FS_EmptySet, ComponentsAssumption
    <2>2. 1 \in 1..Cardinality(Structs) /\ <<s>> \in [1..1 -> Structs]
      BY <2>1
    <2>3. <<s>> \in UNION {[1..n -> Structs] : n \in 1..Cardinality(Structs)}
      BY <2>2
    <2>4. DOMAIN <<s>> = {1} /\ Len(<<s>>) = 1 /\ <<s>>[1] = s
      OBVIOUS
    <2> QED BY <2>3, <2>4 DEF Nodes, StructOf
  <1> QED BY <1>1, <1>2

\* The references of a schema lead to schemas.
LEMMA RefsTyped ==
    ASSUME NEW holder \in Holders, NEW node \in Nodes
    PROVE  /\ RefsUnder(holder, node) \subseteq RefIds
           /\ \A ref \in RefsUnder(holder, node) : ref.to \in Nodes
  <1>1. RefsUnder(holder, node) \subseteq RefIds
    BY DEF RefIds
  <1>2. \A ref \in RefsUnder(holder, node) : ref.to \in Nodes
    BY DEF RefsUnder
  <1> QED BY <1>1, <1>2

LEMMA RefTargets == \A ref \in RefIds : ref.to \in Nodes
  BY DEF RefIds, RefsUnder

\* Whatever getOrCreateSchemaComponent does, the name documents the struct, no other
\* component changes and no struct gets a second one.
LEMMA GetOrCreateFaithful ==
    ASSUME Distinguishable, ComponentsInv, NEW node \in Nodes, NEW name \in ComponentNames,
           GetOrCreate(node, name)
    PROVE  /\ registry' \in [ComponentNames -> Nodes \cup {<<>>}]
           /\ registry' = components'
           /\ Documents(name, StructOf(node))'
           /\ \A n \in ComponentNames, s \in Structs : Documents(n, s) => Documents(n, s)'
           /\ OneComponentPerStruct'
           /\ Added(node, name) \subseteq RefIds
  <1>1. /\ registry \in [ComponentNames -> Nodes \cup {<<>>}] /\ registry = components
        /\ StructOf(node) \in Structs /\ node # <<>>
        /\ \A n \in ComponentNames : registry[n] # <<>> => StructOf(registry[n]) \in Structs
    BY NodesTyped DEF ComponentsInv, ComponentsTypeOK
  <1>2. Added(node, name) \subseteq RefIds
    BY RefsTyped DEF Added, Holders
  <1>3. CASE Known(StructOf(node)) # {}
    <2>1. name \in Known(StructOf(node)) /\ registry' = registry /\ components' = components
      BY <1>3 DEF GetOrCreate
    <2>2. Documents(name, StructOf(node))
      BY <1>1, <2>1 DEF Known, Distinguishable, Documents
    <2> QED BY <1>1, <1>2, <2>1, <2>2 DEF ComponentsInv, OneComponentPerStruct, Documents
  <1>4. CASE Known(StructOf(node)) = {}
    <2>1. /\ registry' = [registry EXCEPT ![name] = node]
          /\ components' = [components EXCEPT ![name] = node]
          /\ IsFresh(name, StructOf(node))
      BY <1>4 DEF GetOrCreate
    <2>2. registry[name] = <<>>
      BY <2>1 DEF IsFresh
    <2>3. SchemasEqual(StructOf(node), StructOf(node))
      BY DEF SchemasEqual
    <2>4. \A n \in ComponentNames : registry[n] # <<>> => StructOf(registry[n]) # StructOf(node)
      BY <1>4, <2>3 DEF Known
    <2>5. /\ registry' \in [ComponentNames -> Nodes \cup {<<>>}] /\ registry' = components'
          /\ components'[name] = node
          /\ \A n \in ComponentNames \ {name} : components'[n] = components[n]
      BY <1>1, <2>1
    <2>6. OneComponentPerStruct'
      BY <1>1, <2>4, <2>5 DEF ComponentsInv, OneComponentPerStruct
    <2> QED BY <1>1, <1>2, <2>2, <2>5, <2>6 DEF Documents
  <1> QED BY <1>3, <1>4

\* The documents start with the registered schemas.
LEMMA ComponentsInitInv == ComponentsInit => ComponentsInv
  <1> SUFFICES ASSUME ComponentsInit PROVE ComponentsInv
    OBVIOUS
  <1>1. \A name \in ComponentNames :
           registry[name] = IF Declared[name] = Nowhere THEN <<>> ELSE <<Declared[name]>>
    BY DEF ComponentsInit
  <1>2. registry \in [ComponentNames -> Nodes \cup {<<>>}] /\ registry = components
    BY <1>1, NodesTyped, ComponentsAssumption DEF ComponentsInit
  <1>3. refs \subseteq RefIds /\ unresolved = refs
    <2>1. \A name \in {n \in ComponentNames : Declared[n] # Nowhere} :
             registry[name] \in Nodes /\ name \in Holders
      <3>1. ASSUME NEW name \in ComponentNames, Declared[name] # Nowhere
            PROVE  registry[name] = <<Declared[name]>> /\ Declared[name] \in Structs
        BY <1>1, <3>1, ComponentsAssumption
      <3>2. ASSUME NEW name \in ComponentNames PROVE name \in Holders
        BY <3>2 DEF Holders
      <3> QED BY <3>1, <3>2, NodesTyped
    <2>2. refs = UNION {RefsUnder(name, registry[name]) :
                            name \in {n \in ComponentNames : Declared[n] # Nowhere}}
      BY DEF ComponentsInit
    <2>3. \A name \in {n \in ComponentNames : Declared[n] # Nowhere} :
             RefsUnder(name, registry[name]) \subseteq RefIds
      BY <2>1, RefsTyped
    <2>4. refs \subseteq RefIds
      BY <2>2, <2>3
    <2>5. unresolved = refs
      BY DEF ComponentsInit
    <2> QED BY <2>4, <2>5
  <1>4. refName \in [RefIds -> ComponentNames]
    BY RefTargets, NodesTyped, ComponentsAssumption DEF ComponentsInit
  <1>5. due \subseteq Uses
    <2>1. RouteUses \in Seq(SUBSET Uses)
      BY ComponentsAssumption
    <2> QED BY <2>1 DEF ComponentsInit, BatchAt
  <1>6. named \in [Uses -> ComponentNames \cup {Nowhere}] /\ stage = "routes" /\ batch = 1
    BY DEF ComponentsInit
  <1>7. ComponentsTypeOK
    BY <1>2, <1>3, <1>4, <1>5, <1>6 DEF ComponentsTypeOK
  <1>8. RefsFaithful
    <2>1. \A use \in Uses : named[use] = Nowhere
      BY DEF ComponentsInit
    <2>2. refs \ unresolved = {}
      BY <1>3
    <2> QED BY <2>1, <2>2 DEF RefsFaithful
  <1>9. OneComponentPerStruct
    BY <1>1, <1>2 DEF OneComponentPerStruct
  <1> QED BY <1>2, <1>7, <1>8, <1>9 DEF ComponentsInv

\* Every step keeps the invariant.
LEMMA ComponentsStep ==
    ASSUME Distinguishable, ComponentsInv, [ComponentsNext]_componentsVars
    PROVE  ComponentsInv'
  <1> USE DEF ComponentsInv
  <1>1. ASSUME NEW use \in due, BuildSchema(use) PROVE ComponentsInv'
    <2>1. use \in Uses /\ use.struct \in Structs /\ use.id \in Holders
          /\ <<use.struct>> \in Nodes /\ StructOf(<<use.struct>>) = use.struct
      BY NodesTyped, ComponentsAssumption DEF ComponentsTypeOK, Holders
    <2>2. UNCHANGED <<stage, batch, refName>> /\ due' = due \ {use}
      BY <1>1 DEF BuildSchema
    <2>3. CASE use.whole /\ IsObject(use.struct)
      <3>1. PICK name \in ComponentNames :
              /\ GetOrCreate(<<use.struct>>, name)
              /\ named' = [named EXCEPT ![use] = name]
              /\ refs' = refs \cup Added(<<use.struct>>, name)
              /\ unresolved' = unresolved \cup Added(<<use.struct>>, name)
        BY <1>1, <2>3 DEF BuildSchema
      <3>2. /\ registry' \in [ComponentNames -> Nodes \cup {<<>>}] /\ registry' = components'
            /\ Documents(name, use.struct)'
            /\ \A n \in ComponentNames, s \in Structs : Documents(n, s) => Documents(n, s)'
            /\ OneComponentPerStruct' /\ Added(<<use.struct>>, name) \subseteq RefIds
        BY <2>1, <3>1, GetOrCreateFaithful
      <3>3. ComponentsTypeOK'
        BY <2>1, <2>2, <3>1, <3>2 DEF ComponentsTypeOK
      <3>4. RefsFaithful'
        <4>1. \A u \in Uses : named'[u] # Nowhere => Documents(named[u], u.struct)'
          <5>1. \A u \in Uses : u.struct \in Structs
            BY ComponentsAssumption
          <5>2. ASSUME NEW u \in Uses, named'[u] # Nowhere
                PROVE  Documents(named[u], u.struct)'
            <6>1. CASE u = use
              <7>1. named'[u] = name
                BY <2>1, <3>1, <6>1 DEF ComponentsTypeOK
              <7> QED BY <3>2, <6>1, <7>1
            <6>2. CASE u # use
              <7>1. named'[u] = named[u] /\ named[u] \in ComponentNames
                BY <3>1, <5>2, <6>2 DEF ComponentsTypeOK
              <7>2. Documents(named[u], u.struct)
                BY <5>2, <7>1 DEF RefsFaithful
              <7> QED BY <3>2, <5>1, <7>1, <7>2
            <6> QED BY <6>1, <6>2
          <5> QED BY <5>2
        <4>2. \A ref \in refs' \ unresolved' : ref \in refs \ unresolved
          BY <3>1
        <4>3. \A ref \in refs' \ unresolved' : Documents(refName[ref], StructOf(ref.to))'
          <5>1. SUFFICES ASSUME NEW ref \in refs' \ unresolved'
                         PROVE  Documents(refName[ref], StructOf(ref.to))'
            OBVIOUS
          <5>2. ref \in refs \ unresolved /\ ref \in RefIds /\ refName[ref] \in ComponentNames
                /\ StructOf(ref.to) \in Structs
            BY <4>2, RefTargets, NodesTyped DEF ComponentsTypeOK
          <5>3. Documents(refName[ref], StructOf(ref.to)) /\ refName' = refName
            BY <2>2, <5>2 DEF RefsFaithful
          <5>4. \A n \in ComponentNames, s \in Structs : Documents(n, s) => Documents(n, s)'
            BY <3>2
          <5>5. Documents(refName[ref], StructOf(ref.to))'
            BY <5>2, <5>3, <5>4
          <5> QED BY <5>5
        <4> QED BY <4>1, <4>3 DEF RefsFaithful
      <3> QED BY <3>2, <3>3, <3>4
    <2>4. CASE ~(use.whole /\ IsObject(use.struct))
      <3>1. /\ refs' = refs \cup RefsUnder(use.id, <<use.struct>>)
            /\ unresolved' = unresolved \cup RefsUnder(use.id, <<use.struct>>)
            /\ UNCHANGED <<registry, components, named>>
        BY <1>1, <2>4 DEF BuildSchema
      <3>2. RefsUnder(use.id, <<use.struct>>) \subseteq RefIds
        BY <2>1, RefsTyped
      <3>3. ComponentsTypeOK'
        BY <2>2, <3>1, <3>2 DEF ComponentsTypeOK
      <3>4. RefsFaithful'
        BY <2>2, <3>1 DEF RefsFaithful, Documents
      <3> QED BY <3>1, <3>3, <3>4 DEF OneComponentPerStruct
    <2> QED BY <2>3, <2>4
  <1>2. CASE NextBatch
    <2>1. ComponentsTypeOK'
      <3>1. RouteUses \in Seq(SUBSET Uses) /\ WebhookUses \in Seq(SUBSET Uses) /\ batch \in Nat
        BY ComponentsAssumption DEF ComponentsTypeOK
      <3>2. /\ due' \subseteq Uses /\ batch' \in Nat
            /\ stage' \in {"routes", "resolve", "webhooks", "resolveWebhooks", "done"}
        BY <1>2, <3>1 DEF NextBatch, ComponentsTypeOK
      <3> QED BY <1>2, <3>2 DEF NextBatch, ComponentsTypeOK
    <2> QED BY <1>2, <2>1 DEF NextBatch, RefsFaithful, Documents, OneComponentPerStruct
  <1>3. ASSUME NEW ref \in refs, ResolveRef(ref) PROVE ComponentsInv'
    <2>1. ref \in RefIds /\ ref.to \in Nodes /\ StructOf(ref.to) \in Structs
      BY RefTargets, NodesTyped DEF ComponentsTypeOK
    <2>2. PICK name \in ComponentNames :
            /\ GetOrCreate(ref.to, name) /\ refName' = [refName EXCEPT ![ref] = name]
            /\ refs' = refs \cup Added(ref.to, name)
            /\ unresolved' = (unresolved \ {ref}) \cup Added(ref.to, name)
      BY <1>3 DEF ResolveRef, PointAt
    <2>3. UNCHANGED <<stage, batch, due, named>>
      BY <1>3 DEF ResolveRef
    <2>4. /\ registry' \in [ComponentNames -> Nodes \cup {<<>>}] /\ registry' = components'
          /\ Documents(name, StructOf(ref.to))'
          /\ \A n \in ComponentNames, s \in Structs : Documents(n, s) => Documents(n, s)'
          /\ OneComponentPerStruct' /\ Added(ref.to, name) \subseteq RefIds
      BY <2>1, <2>2, GetOrCreateFaithful
    <2>5. ComponentsTypeOK'
      BY <2>1, <2>2, <2>3, <2>4 DEF ComponentsTypeOK
    <2>6. \A u \in Uses : named'[u] # Nowhere => Documents(named[u], u.struct)'
      BY <2>3, <2>4, ComponentsAssumption DEF ComponentsTypeOK, RefsFaithful
    <2>7. ASSUME NEW r \in refs' \ unresolved'
          PROVE  Documents(refName[r], StructOf(r.to))'
      <3>1. r = ref \/ r \in refs \ unresolved
        BY <2>2
      <3>2. CASE r = ref
        BY <2>1, <2>2, <2>4, <3>2 DEF ComponentsTypeOK
      <3>3. CASE r # ref /\ r \in refs \ unresolved
        <4>1. r \in RefIds /\ StructOf(r.to) \in Structs /\ refName[r] \in ComponentNames
          BY <3>3, RefTargets, NodesTyped DEF ComponentsTypeOK
        <4>2. Documents(refName[r], StructOf(r.to)) /\ refName'[r] = refName[r]
          BY <2>1, <2>2, <3>3, <4>1 DEF ComponentsTypeOK, RefsFaithful
        <4> QED BY <2>4, <4>1, <4>2
      <3> QED BY <3>1, <3>2, <3>3
    <2> QED BY <2>4, <2>5, <2>6, <2>7 DEF RefsFaithful
  <1>4. CASE DeriveSpec31
    <2>1. /\ stage' = "webhooks" /\ batch' = 1 /\ due' = BatchAt(WebhookUses, 1)
          /\ registry' = components
          /\ UNCHANGED <<components, named, refs, unresolved, refName>>
      BY <1>4 DEF DeriveSpec31, StartWebhooks
    <2>2. WebhookUses \in Seq(SUBSET Uses)
      BY ComponentsAssumption
    <2>3. due' \subseteq Uses
      BY <2>1, <2>2 DEF BatchAt
    <2> QED BY <2>1, <2>3 DEF ComponentsTypeOK, RefsFaithful, Documents, OneComponentPerStruct
  <1>5. CASE Finish
    BY <1>5 DEF Finish, ComponentsTypeOK, RefsFaithful, Documents, OneComponentPerStruct
  <1>6. CASE UNCHANGED componentsVars
    BY <1>6 DEF componentsVars, ComponentsTypeOK, RefsFaithful, Documents, OneComponentPerStruct
  <1> QED BY <1>1, <1>2, <1>3, <1>4, <1>5, <1>6 DEF ComponentsNext

\* References are faithful and no struct is documented twice, for any structs that can be
\* told apart, any routes and any webhooks.
THEOREM ComponentsCorrect ==
    ASSUME Distinguishable
    PROVE  ComponentsSpec => [](ComponentsTypeOK /\ ComponentsFaithful)
  <1>1. ComponentsInv /\ [ComponentsNext]_componentsVars => ComponentsInv'
    BY ComponentsStep
  <1>2. ComponentsInv => ComponentsTypeOK /\ ComponentsFaithful
    BY DEF ComponentsInv, ComponentsFaithful
  <1> QED BY <1>1, <1>2, ComponentsInitInv, PTL DEF ComponentsSpec

-----------------------------------------------------------------------------
(* One pass is enough: for any members in any order, the best member of a  *)
(* name and its ties are what encoding/json's rule says.  The pass keeps only *)
(* the best member of each name, so the invariant relates that one to every *)
(* member met: none dominates it, and the name is ambiguous when another is *)
(* its equal.                                                              *)

\* The best member of each name is one of that name that none dominates, and its name is
\* ambiguous exactly when another member is as good.
BestSoFar ==
    \A name \in MemberNames :
        LET best == winners[name]
        IN  /\ best = 0 => /\ name \notin ambiguous
                           /\ \A j \in 1..Len(members) : members[j].name # name
            /\ best # 0 =>
                 /\ members[best].name = name
                 /\ \A j \in 1..Len(members) : members[j].name = name =>
                        Dominance(members[j], members[best]) <= 0
                 /\ name \in ambiguous <=>
                        \E j \in 1..Len(members) :
                            /\ j # best /\ members[j].name = name
                            /\ Dominance(members[j], members[best]) = 0

MembersInv == MembersTypeOK /\ BestSoFar

\* Dominance is a comparison: an integer, and a preorder.
LEMMA DominanceOrders ==
    /\ \A a, b \in Members : Dominance(a, b) \in Int /\ Dominance(b, a) = -Dominance(a, b)
    /\ \A a, b, c \in Members : Dominance(a, b) >= 0 /\ Dominance(b, c) >= 0 =>
          /\ Dominance(a, c) >= 0
          /\ Dominance(a, c) = 0 <=> Dominance(a, b) = 0 /\ Dominance(b, c) = 0
  <1>1. \A a, b \in Members : Dominance(a, b) \in Int /\ Dominance(b, a) = -Dominance(a, b)
    BY JsonMembersAssumption DEF Dominance, Members
  <1>2. ASSUME NEW a \in Members, NEW b \in Members, NEW c \in Members,
               Dominance(a, b) >= 0, Dominance(b, c) >= 0
        PROVE  /\ Dominance(a, c) >= 0
               /\ Dominance(a, c) = 0 <=> Dominance(a, b) = 0 /\ Dominance(b, c) = 0
    BY <1>2, JsonMembersAssumption DEF Dominance, Members
  <1> QED BY <1>1, <1>2

\* The types survive a round.
LEMMA ConsiderTyped ==
    ASSUME MembersTypeOK, NEW member \in Members, Consider(member)
    PROVE  /\ MembersTypeOK'
           /\ Len(members') = Len(members) + 1
           /\ members'[Len(members) + 1] = member
           /\ \A j \in 1..Len(members) : members'[j] = members[j]
  <1>1. /\ members' = Append(members, member) /\ members \in Seq(Members)
        /\ Len(members) \in Nat
    BY DEF MembersTypeOK, Consider
  <1>2. /\ members' \in Seq(Members) /\ Len(members') = Len(members) + 1
        /\ members'[Len(members) + 1] = member
        /\ \A j \in 1..Len(members) : members'[j] = members[j]
    BY <1>1
  <1>3. member.name \in MemberNames
    BY DEF Members
  <1>4. winners' \in [MemberNames -> 0..Len(members')]
    <2>1. /\ winners \in [MemberNames -> 0..Len(members)]
          /\ \/ winners' = [winners EXCEPT ![member.name] = Len(members) + 1]
             \/ winners' = winners
      BY DEF MembersTypeOK, Consider
    <2> QED BY <1>1, <1>2, <1>3, <2>1
  <1>5. ambiguous' \subseteq MemberNames
    <2>1. /\ ambiguous \subseteq MemberNames
          /\ \/ ambiguous' = ambiguous \ {member.name}
             \/ ambiguous' = ambiguous \cup {member.name}
             \/ ambiguous' = ambiguous
      BY DEF MembersTypeOK, Consider
    <2> QED BY <1>3, <2>1
  <1> QED BY <1>2, <1>4, <1>5 DEF MembersTypeOK

\* A round keeps the best member of every name.
LEMMA ConsiderKeepsBest ==
    ASSUME MembersInv, NEW member \in Members, Consider(member)
    PROVE  BestSoFar'
  <1> DEFINE n == Len(members)
             best == winners[member.name]
             d    == IF best = 0 THEN 1 ELSE Dominance(member, members[best])
  <1>1. /\ members \in Seq(Members) /\ n \in Nat
        /\ winners \in [MemberNames -> 0..n] /\ ambiguous \subseteq MemberNames
        /\ member.name \in MemberNames /\ best \in 0..n
    BY DEF MembersInv, MembersTypeOK, Members
  <1>2. /\ Len(members') = n + 1 /\ members'[n + 1] = member
        /\ \A j \in 1..n : members'[j] = members[j] /\ members[j] \in Members
    BY <1>1, ConsiderTyped DEF MembersInv
  <1>3. /\ winners' = IF d > 0 THEN [winners EXCEPT ![member.name] = n + 1] ELSE winners
        /\ ambiguous' = IF d > 0 THEN ambiguous \ {member.name}
                        ELSE IF d = 0 THEN ambiguous \cup {member.name}
                        ELSE ambiguous
    BY DEF Consider
  <1>4. best # 0 => /\ members[best] \in Members /\ members[best].name = member.name
                    /\ \A j \in 1..n : members[j].name = member.name =>
                           Dominance(members[j], members[best]) <= 0
                    /\ member.name \in ambiguous <=>
                           \E j \in 1..n : /\ j # best /\ members[j].name = member.name
                                           /\ Dominance(members[j], members[best]) = 0
    BY <1>1, <1>2, SMTT(30) DEF MembersInv, BestSoFar
  <1>5. best = 0 => \A j \in 1..n : members[j].name # member.name
    BY <1>1 DEF MembersInv, BestSoFar
  <1>6. d \in Int
    BY <1>4, DominanceOrders
  <1>m. \A j \in 1..(n + 1) : j \in 1..n \/ j = n + 1
    BY <1>1
  <1>p. 1..n \subseteq 1..(n + 1) /\ n + 1 \in 1..(n + 1) /\ n + 1 # 0 /\ n + 1 \notin 1..n
    BY <1>1
  <1>i. \A j \in 1..(n + 1) : \A b \in Members : Dominance(members'[j], b) \in Int
    BY <1>2, <1>m, DominanceOrders
  <1> HIDE DEF n, d
  <1>7. SUFFICES ASSUME NEW name \in MemberNames
                 PROVE  LET top == winners'[name]
                        IN  /\ top = 0 => /\ name \notin ambiguous'
                                          /\ \A j \in 1..(n + 1) : members'[j].name # name
                            /\ top # 0 =>
                                 /\ members'[top].name = name
                                 /\ \A j \in 1..(n + 1) : members'[j].name = name =>
                                        Dominance(members'[j], members'[top]) <= 0
                                 /\ name \in ambiguous' <=>
                                        \E j \in 1..(n + 1) :
                                            /\ j # top /\ members'[j].name = name
                                            /\ Dominance(members'[j], members'[top]) = 0
    BY <1>2 DEF BestSoFar, n
  <1>8. CASE name # member.name
    <2>1. winners'[name] = winners[name] /\ (name \in ambiguous' <=> name \in ambiguous)
      BY <1>1, <1>3, <1>6, <1>8
    <2>2. winners[name] \in 0..n /\ members'[n + 1].name # name
      BY <1>1, <1>2, <1>8
    <2>3. \A j \in 1..n : members'[j] = members[j]
      BY <1>2
    <2>4. LET top == winners[name]
          IN  /\ top = 0 => /\ name \notin ambiguous
                            /\ \A j \in 1..n : members[j].name # name
              /\ top # 0 =>
                   /\ members[top].name = name
                   /\ \A j \in 1..n : members[j].name = name =>
                          Dominance(members[j], members[top]) <= 0
                   /\ name \in ambiguous <=>
                          \E j \in 1..n : /\ j # top /\ members[j].name = name
                                          /\ Dominance(members[j], members[top]) = 0
      BY DEF MembersInv, BestSoFar, n
    <2>5. CASE winners[name] = 0
      BY <2>1, <2>2, <2>3, <2>4, <2>5, <1>m
    <2>6. CASE winners[name] # 0
      <3>1. winners[name] \in 1..n /\ winners[name] # n + 1
        BY <2>2, <2>6, <1>1
      <3>2. \A j \in 1..(n + 1) : members'[j].name = name => j \in 1..n
        BY <2>2, <1>m
      <3> QED BY <2>1, <2>3, <2>4, <2>6, <3>1, <3>2, <1>p
    <2> QED BY <2>5, <2>6
  <1>9. CASE name = member.name /\ d > 0
    <2>1. winners'[name] = n + 1 /\ name \notin ambiguous'
      BY <1>1, <1>3, <1>9
    <2>2. Dominance(member, member) = 0
      BY DEF Dominance
    <2>3. \A j \in 1..n : members[j].name = name => Dominance(members[j], member) < 0
      <3>1. SUFFICES ASSUME NEW j \in 1..n, members[j].name = name
                     PROVE  Dominance(members[j], member) < 0
        OBVIOUS
      <3>2. best # 0 /\ d = Dominance(member, members[best])
        BY <1>5, <1>9, <3>1 DEF d
      <3>3. Dominance(members[best], members[j]) >= 0
        BY <1>2, <1>4, <1>9, <3>1, <3>2, DominanceOrders, SMTT(30)
      <3>4. /\ members[best] \in Members /\ members[j] \in Members
            /\ Dominance(member, members[best]) > 0
        BY <1>2, <1>4, <1>9, <3>2
      <3>5. /\ Dominance(member, members[j]) >= 0
            /\ Dominance(member, members[j]) # 0
        BY <3>3, <3>4, DominanceOrders
      <3> QED BY <3>4, <3>5, DominanceOrders
    <2>4. \A j \in 1..n : members'[j] = members[j]
      BY <1>2
    <2>5. \A j \in 1..(n + 1) : members'[j].name = name =>
             \/ j = n + 1 /\ Dominance(members'[j], member) = 0
             \/ j # n + 1 /\ Dominance(members'[j], member) < 0
      BY <1>m, <1>p, <1>2, <2>2, <2>3, <2>4
    <2>6. \A j \in 1..(n + 1) : members'[j].name = name =>
             Dominance(members'[j], member) <= 0
      BY <2>5, <1>i
    <2>7. ~ \E j \in 1..(n + 1) : /\ j # n + 1 /\ members'[j].name = name
                                  /\ Dominance(members'[j], member) = 0
      BY <2>5
    <2> QED BY <1>p, <1>2, <1>9, <2>1, <2>6, <2>7
  <1>10. CASE name = member.name /\ d = 0
    <2>1. /\ winners'[name] = best /\ name \in ambiguous'
          /\ best # 0 /\ Dominance(member, members[best]) = 0
      BY <1>1, <1>3, <1>10 DEF d
    <2>2. members'[best] = members[best] /\ best # n + 1 /\ best \in 1..n
      BY <1>1, <1>2, <2>1
    <2> QED BY <1>1, <1>2, <1>4, <1>10, <2>1, <2>2, SMTT(30)
  <1>11. CASE name = member.name /\ d < 0
    <2>0. winners' = winners /\ ambiguous' = ambiguous
      BY <1>3, <1>6, <1>11
    <2>1. /\ winners'[name] = best /\ (name \in ambiguous' <=> name \in ambiguous)
          /\ best # 0 /\ Dominance(member, members[best]) < 0
      BY <1>11, <2>0 DEF d
    <2>2. members'[best] = members[best] /\ best # n + 1 /\ best \in 1..n
      BY <1>1, <1>2, <2>1
    <2>3. \A j \in 1..n : members'[j] = members[j]
      BY <1>2
    <2>4. Dominance(members'[n + 1], members'[best]) < 0
      BY <1>2, <2>1, <2>2
    <2>5. \A j \in 1..(n + 1) : members'[j].name = name =>
             \/ j \in 1..n /\ Dominance(members'[j], members[best]) <= 0
             \/ j = n + 1 /\ Dominance(members'[j], members[best]) < 0
      BY <1>m, <1>4, <1>11, <2>1, <2>2, <2>3, <2>4
    <2>6. \A j \in 1..(n + 1) : members'[j].name = name =>
             Dominance(members'[j], members[best]) <= 0
      BY <2>1, <2>5, <1>4, <1>11, <1>i
    <2>7. (\E j \in 1..(n + 1) : /\ j # best /\ members'[j].name = name
                                 /\ Dominance(members'[j], members[best]) = 0)
          <=> \E j \in 1..n : /\ j # best /\ members[j].name = name
                               /\ Dominance(members[j], members[best]) = 0
      BY <1>p, <2>3, <2>5
    <2> QED BY <1>4, <1>11, <2>1, <2>2, <2>6, <2>7
  <1> QED BY <1>6, <1>8, <1>9, <1>10, <1>11

\* The invariant holds of every list of members.
THEOREM PassInvariant == MembersSpec => []MembersInv
  <1>1. MembersInit => MembersInv
    BY JsonMembersAssumption DEF MembersInit, MembersInv, MembersTypeOK, BestSoFar
  <1>2. MembersInv /\ [MembersNext]_membersVars => MembersInv'
    <2>1. ASSUME MembersInv, MembersNext PROVE MembersInv'
      <3>1. PICK member \in Members : Consider(member)
        BY <2>1 DEF MembersNext
      <3> QED BY <2>1, <3>1, ConsiderTyped, ConsiderKeepsBest DEF MembersInv
    <2>2. ASSUME MembersInv, UNCHANGED membersVars PROVE MembersInv'
      BY <2>2 DEF MembersInv, MembersTypeOK, BestSoFar, membersVars
    <2> QED BY <2>1, <2>2
  <1> QED BY <1>1, <1>2, PTL DEF MembersSpec

\* The best member without an equal is the one the rule of encoding/json picks.
LEMMA BestIsSerialized == MembersInv => DocumentsSerialized
  <1>1. SUFFICES ASSUME MembersInv, NEW i \in DOMAIN members
                 PROVE  Dominant(i) <=> Serialized(i)
    BY DEF DocumentsSerialized
  <1> DEFINE n    == Len(members)
             name == members[i].name
             best == winners[name]
             same == {j \in DOMAIN members : members[j].name = name}
             top  == {j \in same : \A k \in same : members[j].depth <= members[k].depth}
  <1>2. /\ n \in Nat /\ DOMAIN members = 1..n /\ i \in 1..n
        /\ \A j \in 1..n : members[j] \in Members
        /\ name \in MemberNames /\ best \in 0..n
    <2>1. /\ members \in Seq(Members) /\ winners \in [MemberNames -> 0..n]
      BY <1>1 DEF MembersInv, MembersTypeOK
    <2>2. /\ n \in Nat /\ DOMAIN members = 1..n
          /\ \A j \in 1..n : members[j] \in Members
      BY <2>1
    <2>3. i \in 1..n /\ name \in MemberNames
      BY <2>2 DEF Members
    <2> QED BY <2>1, <2>2, <2>3
  <1>3. /\ best \in same
        /\ \A j \in same : Dominance(members[j], members[best]) <= 0
        /\ name \in ambiguous <=>
               \E j \in same : j # best /\ Dominance(members[j], members[best]) = 0
    BY <1>1, <1>2 DEF MembersInv, BestSoFar
  <1>4. \A j \in same : /\ j \in 1..n /\ members[j] \in Members
                        /\ members[j].depth \in Nat /\ members[j].tagged \in BOOLEAN
    BY <1>2 DEF Members
  <1>5. i \in same /\ (Dominant(i) <=> best = i /\ name \notin ambiguous)
    BY <1>2 DEF Dominant
  <1>6. Serialized(i) <=> top = {i} \/ {j \in top : members[j].tagged} = {i}
    BY DEF Serialized
  <1> HIDE DEF n, name, best, same
  <1>7. best \in top
    BY <1>3, <1>4 DEF Dominance
  <1>8. \A j \in top : members[j].depth = members[best].depth
    BY <1>4, <1>7
  <1>9. \A j \in top : members[j].tagged => members[best].tagged
    BY <1>3, <1>4, <1>7, <1>8 DEF Dominance
  <1>10. \A j \in same : Dominance(members[j], members[best]) = 0 <=>
            j \in top /\ members[j].tagged = members[best].tagged
    BY <1>3, <1>4, <1>7, <1>8 DEF Dominance
  <1>t. top \subseteq same
    OBVIOUS
  <1> HIDE DEF top
  <1>11. CASE members[best].tagged
    <2>1. name \in ambiguous <=> \E j \in top : j # best /\ members[j].tagged
      BY <1>3, <1>4, <1>10, <1>11, <1>t
    <2>2. best \in {j \in top : members[j].tagged}
      BY <1>7, <1>11
    <2>3. top = {i} => {j \in top : members[j].tagged} = {i}
      BY <2>2
    <2> QED BY <1>5, <1>6, <2>1, <2>2, <2>3
  <1>12. CASE ~members[best].tagged
    <2>1. {j \in top : members[j].tagged} # {i}
      BY <1>9, <1>12
    <2>2. \A j \in top : members[j].tagged = members[best].tagged
      BY <1>4, <1>9, <1>12, <1>t, <1>7
    <2>3. name \in ambiguous <=> \E j \in top : j # best
      BY <1>3, <1>10, <1>t, <2>2
    <2> QED BY <1>5, <1>6, <1>7, <2>1, <2>3
  <1> QED BY <1>4, <1>3, <1>11, <1>12

\* The documented members are the serialized ones, for any number of members, names and
\* embedding depths.
THEOREM DocumentationSerialized == MembersSpec => []DocumentsSerialized
  BY PassInvariant, BestIsSerialized, PTL

-----------------------------------------------------------------------------
(* One set of tags read twice. *)

Schema30 == [SchemaOfTags EXCEPT !.const = {}]
Schema31 ==
  [SchemaOfTags EXCEPT
     !.exclusiveMin = tags.exclusiveMin, !.exclusiveMax = tags.exclusiveMax,
     !.minimum = IF tags.exclusiveMin = {} THEN tags.min ELSE {},
     !.maximum = IF tags.exclusiveMax = {} THEN tags.max ELSE {}]

ConstraintsInv ==
  /\ field \in FieldsOf /\ val \in field.values /\ isNil \in {FALSE, field.pointer}
  /\ schema \in {NotYet, SchemaOfTags}
  /\ schema30 \in {NotYet, Schema30} /\ schema31 \in {NotYet, Schema31}
  /\ verdict # "none" => (verdict = "accepted" <=> FieldOk)

LEMMA Fields31 ==
  /\ Schema31.minimum = IF tags.exclusiveMin = {} THEN tags.min ELSE {}
  /\ Schema31.maximum = IF tags.exclusiveMax = {} THEN tags.max ELSE {}
  /\ Schema31.exclusiveMin = tags.exclusiveMin /\ Schema31.exclusiveMax = tags.exclusiveMax
  /\ Schema31.const = tags.const /\ Schema31.enum = tags.enum
  /\ Schema31.format = tags.format /\ Schema31.pattern = tags.pattern
  /\ Schema31.minLength = tags.minLength /\ Schema31.maxLength = tags.maxLength
  /\ Schema31.multipleOf = tags.multipleOf /\ Schema31.uniqueItems = tags.uniqueItems
  /\ Schema31.minItems = tags.minItems /\ Schema31.maxItems = tags.maxItems
  /\ Schema31.minProperties = tags.minProperties
  /\ Schema31.maxProperties = tags.maxProperties
  /\ Schema31.nullable = field.pointer
BY DEF Schema31, SchemaOfTags

LEMMA Fields30 ==
  /\ Schema30.minimum = IF tags.exclusiveMin = {} THEN tags.min ELSE tags.exclusiveMin
  /\ Schema30.maximum = IF tags.exclusiveMax = {} THEN tags.max ELSE tags.exclusiveMax
  /\ Schema30.exclusiveMin <=> tags.exclusiveMin # {}
  /\ Schema30.exclusiveMax <=> tags.exclusiveMax # {}
  /\ Schema30.const = {} /\ Schema30.enum = tags.enum
  /\ Schema30.format = tags.format /\ Schema30.pattern = tags.pattern
  /\ Schema30.minLength = tags.minLength /\ Schema30.maxLength = tags.maxLength
  /\ Schema30.multipleOf = tags.multipleOf /\ Schema30.uniqueItems = tags.uniqueItems
  /\ Schema30.minItems = tags.minItems /\ Schema30.maxItems = tags.maxItems
  /\ Schema30.minProperties = tags.minProperties
  /\ Schema30.maxProperties = tags.maxProperties
  /\ Schema30.nullable = field.pointer
BY DEF Schema30, SchemaOfTags

\* The schema of the 3.1 document is the base document's with the flags turned to bounds.
LEMMA Transformed ==
  ASSUME schema = SchemaOfTags, TransformSchemaTo31
  PROVE  schema31' = Schema31
BY DEF TransformSchemaTo31, Schema31, SchemaOfTags

\* A schema that says the tags of field as they are, with at most the const left out.
Says(s) ==
  /\ s.enum = tags.enum /\ s.format = tags.format /\ s.pattern = tags.pattern
  /\ s.minLength = tags.minLength /\ s.maxLength = tags.maxLength
  /\ s.uniqueItems = tags.uniqueItems
  /\ s.minItems = tags.minItems /\ s.maxItems = tags.maxItems
  /\ s.minProperties = tags.minProperties /\ s.maxProperties = tags.maxProperties
  /\ s.const \in {tags.const, {}}

\* Texts, slices and maps.
LEMMA OtherwiseAlike ==
  ASSUME field \in FieldsOf, Expressible, ReadAlike, ~isNil, field.kind # "int",
         NEW s, Says(s)
  PROVE  /\ s.const = tags.const => (OtherwiseIn(s) <=> FieldOk)
         /\ FieldOk => OtherwiseIn(s)
<1>0. FieldOk <=> OtherwiseOk
  BY DEF FieldOk
<1> tags.multipleOf = {}
  BY DEF Expressible
<1>1. CASE field.kind = "string"
  <2>1. LengthOk(val) <=> /\ \A m \in s.minLength : Characters[val] >= m
                          /\ \A m \in s.maxLength : Characters[val] <= m
    BY <1>1 DEF LengthOk, Says, ReadAlike
  <2>2. /\ FormatOk(val) /\ (\A allowed \in tags.enum : val \in allowed) <=>
             \A matching \in s.format \cup s.pattern \cup s.enum : val \in matching
    BY DEF FormatOk, Says
  <2>3. TextOk(val) <=> /\ FormatOk(val) /\ \A allowed \in tags.enum : val \in allowed
                        /\ \A constant \in tags.const : val = constant
    BY <1>1 DEF TextOk, ChoiceOk, SubstringOk, Expressible, ReadAlike
  <2>4. OtherwiseIn(s) <=> /\ LengthOk(val) /\ FormatOk(val)
                           /\ \A allowed \in tags.enum : val \in allowed
                           /\ \A constant \in s.const : val = constant
    BY <1>1, <2>1, <2>2 DEF OtherwiseIn
  <2>5. FieldOk <=> LengthOk(val) /\ TextOk(val)
    BY <1>0, <1>1 DEF OtherwiseOk
  <2>6. QED
    BY <2>3, <2>4, <2>5 DEF Says
<1>2. CASE field.kind = "strings"
  <2>1. AtLeast(Len(val)) /\ AtMost(Len(val)) /\ \A i \in DOMAIN val : TextOk(val[i])
    BY <1>2 DEF AtLeast, AtMost, TextOk, ChoiceOk, FormatOk, SubstringOk, Expressible
  <2>2. s.enum = {} /\ s.const = {}
    BY <1>2 DEF Says, Expressible
  <2>3. QED
    BY <1>0, <1>2, <2>1, <2>2 DEF OtherwiseOk, OtherwiseIn, ItemsOk, Says, NoChoice
<1>3. CASE field.kind = "map"
  <2>1. AtLeast(val) /\ AtMost(val)
    BY <1>3 DEF AtLeast, AtMost, Expressible
  <2>2. NoTextOk <=> tags.enum = {} /\ tags.const = {}
    BY <1>3 DEF NoTextOk, Expressible
  <2>3. FieldOk <=> PropertiesOk(val) /\ tags.enum = {} /\ tags.const = {}
    BY <1>0, <1>3, <2>1, <2>2 DEF OtherwiseOk
  <2>4. OtherwiseIn(s) <=> PropertiesOk(val) /\ tags.enum = {} /\ s.const = {}
    BY <1>3 DEF OtherwiseIn, PropertiesOk, Says, NoChoice
  <2>5. QED
    BY <2>3, <2>4 DEF Says
<1>4. QED
  BY <1>1, <1>2, <1>3, ConstraintsAssumption

\* A number under the tags of texts.
LEMMA NumberAlone ==
  ASSUME Expressible, ~isNil, field.kind = "int"
  PROVE  FieldOk <=> NumberOk(val) /\ tags.enum = {} /\ tags.const = {}
<1>1. NoTextOk <=> tags.enum = {} /\ tags.const = {}
  BY DEF NoTextOk, Expressible
<1>2. QED
  BY <1>1 DEF FieldOk

\* The 3.1 document.
LEMMA Alike31 ==
  ASSUME ConstraintsInv, Expressible, isNil \/ ReadAlike, schema31 = Schema31
  PROVE  In31 <=> FieldOk
<1>1. CASE isNil
  <2>1. field.pointer
    BY <1>1 DEF ConstraintsInv
  <2>2. NullIn(Schema31)
    BY <2>1, Fields31 DEF NullIn, NoChoice, Expressible
  <2>3. QED
    BY <1>1, <2>2 DEF In31, FieldOk
<1>2. CASE ~isNil /\ field.kind = "int"
  <2>1. In31 <=> NumberIn(val, Schema31, tags.exclusiveMin, tags.exclusiveMax)
    BY <1>2, Fields31 DEF In31
  <2>2. FieldOk <=> NumberOk(val) /\ tags.enum = {} /\ tags.const = {}
    BY <1>2, NumberAlone
  <2>3. (\A m \in Schema31.minimum : val >= m) <=> AtLeast(val)
    BY Fields31 DEF Expressible, AtLeast
  <2>4. (\A m \in Schema31.maximum : val <= m) <=> AtMost(val)
    BY Fields31 DEF Expressible, AtMost
  <2>5. (\A m \in Schema31.multipleOf : val % m = 0) <=> Multiple(val)
    BY Fields31 DEF Multiple
  <2>6. QED
    BY <2>1, <2>2, <2>3, <2>4, <2>5, Fields31
       DEF NumberIn, NoChoice, InRange, NumberOk, Above, Below
<1>3. CASE ~isNil /\ field.kind # "int"
  <2>1. Says(Schema31) /\ Schema31.const = tags.const
    BY Fields31 DEF Says
  <2>2. In31 <=> OtherwiseIn(Schema31)
    BY <1>3 DEF In31
  <2>3. QED
    BY <1>3, <2>1, <2>2, OtherwiseAlike DEF ConstraintsInv
<1>4. QED
  BY <1>1, <1>2, <1>3

\* The 3.0 document.
LEMMA Alike30 ==
  ASSUME ConstraintsInv, Expressible, isNil \/ ReadAlike, schema30 = Schema30
  PROVE  (FieldOk => In30) /\ (tags.const = {} /\ In30 => FieldOk)
<1>1. CASE isNil
  <2>1. field.pointer
    BY <1>1 DEF ConstraintsInv
  <2>2. NullIn(Schema30)
    BY <2>1, Fields30 DEF NullIn, NoChoice, Expressible
  <2>3. QED
    BY <1>1, <2>2 DEF In30, FieldOk
<1>2. CASE ~isNil /\ field.kind = "int"
  <2>1. In30 <=> NumberIn(val, Schema30, tags.exclusiveMin, tags.exclusiveMax)
    <3>1. Flagged(Schema30.exclusiveMin, Schema30.minimum) = tags.exclusiveMin
      BY Fields30 DEF Flagged
    <3>2. Flagged(Schema30.exclusiveMax, Schema30.maximum) = tags.exclusiveMax
      BY Fields30 DEF Flagged
    <3>3. QED
      BY <1>2, <3>1, <3>2 DEF In30
  <2>2. FieldOk <=> NumberOk(val) /\ tags.enum = {} /\ tags.const = {}
    BY <1>2, NumberAlone
  <2>3. /\ val \in Int /\ \A m \in tags.exclusiveMin : m \in Int
        /\ \A m \in tags.exclusiveMax : m \in Int
    <3>1. field \in FieldsOf /\ val \in field.values
      BY <1>2 DEF ConstraintsInv
    <3>2. val \in Int
      BY <1>2, <3>1, ConstraintsAssumption
    <3>3. field.tags.exclusiveMin \cup field.tags.exclusiveMax \subseteq Int
      BY <3>1, ConstraintsAssumption
    <3>4. QED
      BY <3>2, <3>3 DEF tags
  <2>4. Above(val) => ((\A m \in Schema30.minimum : val >= m) <=> AtLeast(val))
    BY <2>3, Fields30 DEF Expressible, AtLeast, Above
  <2>5. Below(val) => ((\A m \in Schema30.maximum : val <= m) <=> AtMost(val))
    BY <2>3, Fields30 DEF Expressible, AtMost, Below
  <2>6. (\A m \in Schema30.multipleOf : val % m = 0) <=> Multiple(val)
    BY Fields30 DEF Multiple
  <2>7. QED
    BY <2>1, <2>2, <2>4, <2>5, <2>6, Fields30
       DEF NumberIn, NoChoice, InRange, NumberOk, Above, Below
<1>3. CASE ~isNil /\ field.kind # "int"
  <2>1. Says(Schema30) /\ (tags.const = {} => Schema30.const = tags.const)
    BY Fields30 DEF Says
  <2>2. In30 <=> OtherwiseIn(Schema30)
    BY <1>3 DEF In30
  <2>3. QED
    BY <1>3, <2>1, <2>2, OtherwiseAlike DEF ConstraintsInv
<1>4. QED
  BY <1>1, <1>2, <1>3

(* For any texts, lengths, tags and values: where a schema can say the     *)
(* tags of a field, the 3.1 document allows exactly the values validation  *)
(* accepts, and the 3.0 document them all, and no others without a const.  *)
(* A tag of another kind is said when the schema and the checkers pass it  *)
(* over alike, or both refuse every value for it.                          *)
THEOREM DocumentedAlwaysEnforced == ConstraintsSpec => []DocumentedIsEnforced
<1>1. ConstraintsInit => ConstraintsInv
  BY DEF ConstraintsInit, ConstraintsStart, ConstraintsInv
<1>2. ConstraintsInv /\ [ConstraintsNext]_constraintsVars => ConstraintsInv'
  <2> SUFFICES ASSUME ConstraintsInv, [ConstraintsNext]_constraintsVars
               PROVE  ConstraintsInv'
    OBVIOUS
  <2>1. UNCHANGED <<field, isNil, val>>
    BY DEF ConstraintsNext, constraintsVars, ApplyValidationTags, DeriveSpec30,
           TransformSchemaTo31, CheckFieldConstraints
  <2>2. UNCHANGED <<SchemaOfTags, Schema30, Schema31>>
    BY <2>1 DEF SchemaOfTags, Schema30, Schema31, tags
  <2>3. FieldOk' = FieldOk
    BY <2>1 DEF FieldOk, NumberOk, AtLeast, AtMost, Above, Below, Multiple, LengthOk, TextOk,
                ChoiceOk, FormatOk, SubstringOk, ItemsOk, PropertiesOk, OtherwiseOk, NoTextOk,
                tags
  <2>4. CASE ApplyValidationTags
    BY <2>1, <2>2, <2>3, <2>4 DEF ApplyValidationTags, ConstraintsInv
  <2>5. CASE DeriveSpec30
    <3>1. schema30' = Schema30
      BY <2>5 DEF DeriveSpec30, ConstraintsInv, Schema30
    <3>2. QED
      BY <2>1, <2>2, <2>3, <2>5, <3>1 DEF DeriveSpec30, ConstraintsInv
  <2>6. CASE TransformSchemaTo31
    <3>1. schema31' = Schema31
      BY <2>6, Transformed DEF TransformSchemaTo31, ConstraintsInv
    <3>2. QED
      BY <2>1, <2>2, <2>3, <2>6, <3>1 DEF TransformSchemaTo31, ConstraintsInv
  <2>7. CASE CheckFieldConstraints
    BY <2>1, <2>2, <2>3, <2>7 DEF CheckFieldConstraints, ConstraintsInv
  <2>8. CASE UNCHANGED constraintsVars
    BY <2>1, <2>2, <2>3, <2>8 DEF constraintsVars, ConstraintsInv
  <2>9. QED
    BY <2>4, <2>5, <2>6, <2>7, <2>8 DEF ConstraintsNext
<1>3. ConstraintsInv => DocumentedIsEnforced
  <2> SUFFICES ASSUME ConstraintsInv, Expressible, isNil \/ ReadAlike, verdict # "none"
               PROVE  /\ schema31 # NotYet => (In31 <=> verdict = "accepted")
                      /\ schema30 # NotYet /\ verdict = "accepted" => In30
                      /\ schema30 # NotYet /\ tags.const = {} /\ In30 => verdict = "accepted"
    BY DEF DocumentedIsEnforced
  <2>1. verdict = "accepted" <=> FieldOk
    BY DEF ConstraintsInv
  <2>2. schema31 # NotYet => (In31 <=> FieldOk)
    BY Alike31 DEF ConstraintsInv
  <2>3. schema30 # NotYet => (FieldOk => In30) /\ (tags.const = {} /\ In30 => FieldOk)
    BY Alike30 DEF ConstraintsInv
  <2>4. QED
    BY <2>1, <2>2, <2>3
<1>4. QED
  BY <1>1, <1>2, <1>3, PTL DEF ConstraintsSpec

-----------------------------------------------------------------------------
(* What an operation says of its request and answers, for any path, structs *)
(* and security schemes, and however often the options and structs come.    *)
(* The inductive invariant relates the route to the struct its handler      *)
(* binds, and an operation to the route it was built from.                  *)

Counts == [ParamNames -> Nat]

\* The route, or an operation, has all of the fields: parameters for those with a tag, and a
\* request for the others.
HasField(f, fields, paths, params, request) ==
  /\ Place(f, TRUE) \in {"header", "query"} =>
       Parameter(f.name, Place(f, TRUE), f.required) \in params
  /\ InPath(f) => paths[f.name] > 0
  /\ Place(f, TRUE) = "body" => request \in {"body", "byHand"}
  /\ ~HasExplicitBinding(fields, TRUE) => request \in {"whole", "byHand"}

HasFields(fields, paths, params, request) ==
  \A i \in DOMAIN fields : HasField(fields[i], fields, paths, params, request)

\* The responses and headers of the structs given to Response.
Statuses(responses) == {r[1] : r \in responses}

HasAnswer(a, statuses, headers) ==
  /\ Headers(a.fields) \subseteq headers
  /\ ~HasExplicitBinding(a.fields, FALSE) =>
       (IF a.status = 0 THEN DefaultStatus ELSE a.status) \in statuses
  /\ (\E i \in DOMAIN a.fields : a.fields[i].body) => DefaultStatus \in statuses

HasAnswers(some, statuses, headers) ==
  some \subseteq AnswerTypes /\ \A a \in some : HasAnswer(a, statuses, headers)

RouteMet ==
  /\ DOMAIN route = {"pathParams", "queryParams", "headers", "cookies", "request", "responses",
                     "responseHeaders", "auth", "security"}
  /\ input \in RequestTypes \cup {<<>>} /\ byHand \in Counts
  /\ LET given == Together(byHand, PathParamsOf(input))
     IN  route.pathParams = given
           \/ (operation.built /\ given = NoNames /\ route.pathParams = EachOnce)
  /\ HasFields(input, route.pathParams, route.queryParams \cup route.headers, route.request)
  /\ HasAnswers(answers, Statuses(route.responses), route.responseHeaders)

OperationMet(op) ==
  /\ op.input \in RequestTypes \cup {<<>>}
  /\ LET given == Together(op.byHand, PathParamsOf(op.input))
     IN  op.pathParams = IF given = NoNames THEN EachOnce ELSE given
  /\ HasFields(op.input, op.pathParams, op.parameters, op.request)
  /\ HasAnswers(op.answers, Statuses(op.responses), op.responseHeaders)
  /\ op.security \in {op.asked, {s \in op.asked : s \subseteq op.schemes}}

ParametersInv == RouteMet /\ (operation.built => OperationMet(operation))

-----------------------------------------------------------------------------
\* How often a struct gives names.
LEMMA StructsCounted ==
  ASSUME NEW fields \in RequestTypes \cup {<<>>}
  PROVE  /\ PathParamsOf(fields) \in Counts
         /\ \A i \in DOMAIN fields : InPath(fields[i]) =>
              fields[i].name \in ParamNames /\ PathParamsOf(fields)[fields[i].name] > 0
         /\ fields = <<>> => PathParamsOf(fields) = NoNames
<1>1. Len(fields) \in Nat /\ DOMAIN fields = 1 .. Len(fields)
  <2>1. CASE fields \in RequestTypes
    BY <2>1, ParametersAssumption
  <2>2. CASE fields = <<>>
    BY <2>2
  <2>3. QED
    BY <2>1, <2>2
<1> DEFINE At(name) == {i \in DOMAIN fields : fields[i].name = name /\ InPath(fields[i])}
<1>2. ASSUME NEW name
      PROVE  IsFiniteSet(At(name)) /\ Cardinality(At(name)) \in Nat
  <2>1. IsFiniteSet(1 .. Len(fields))
    BY <1>1, FS_Interval
  <2>2. At(name) \subseteq 1 .. Len(fields)
    BY <1>1
  <2>3. QED
    BY <2>1, <2>2, FS_Subset, FS_CardinalityType
<1>3. PathParamsOf(fields) = [name \in ParamNames |-> Cardinality(At(name))]
  BY DEF PathParamsOf
<1> HIDE DEF At
<1>4. PathParamsOf(fields) \in Counts
  BY <1>2, <1>3 DEF Counts
<1>5. ASSUME NEW i \in DOMAIN fields, InPath(fields[i])
      PROVE  fields[i].name \in ParamNames /\ PathParamsOf(fields)[fields[i].name] > 0
  <2>1. fields \in RequestTypes
    BY <1>1
  <2>2. fields[i].name \in ParamNames
    BY <2>1 DEF ParamNames
  <2>3. At(fields[i].name) # {}
    BY <1>5 DEF At
  <2>4. Cardinality(At(fields[i].name)) # 0
    BY <1>2, <2>3, FS_EmptySet
  <2>5. QED
    BY <1>2, <1>3, <2>2, <2>4
<1>6. ASSUME fields = <<>> PROVE PathParamsOf(fields) = NoNames
  <2>1. ASSUME NEW name PROVE Cardinality(At(name)) = 0
    <3>1. At(name) = {}
      BY <1>6 DEF At
    <3>2. QED
      BY <3>1, FS_EmptySet
  <2>2. QED
    BY <1>3, <2>1 DEF NoNames
<1>7. QED
  BY <1>4, <1>5, <1>6

\* The path gives each of its parameters once.
LEMMA PathCounted == ExtractPathParams(DocPath) = EachOnce
<1> DEFINE Named(name) == {i \in DOMAIN DocPath : DocPath[i].name = name}
           Braced(name) == {i \in Named(name) : DocPath[i].form = "{}"}
           Count(name) == IF Braced(name) = {} /\ Named(name) # {} THEN 1
                          ELSE Cardinality(Braced(name))
<1>1. ExtractPathParams(DocPath) = [name \in ParamNames |-> Count(name)]
  BY DEF ExtractPathParams
<1>2. ASSUME NEW name \in ParamNames
      PROVE  Count(name) = IF name \in PathNames THEN 1 ELSE 0
  <2>1. name \in PathNames <=> Named(name) # {}
    BY DEF PathNames
  <2>2. CASE Braced(name) = {}
    <3>1. Cardinality(Braced(name)) = 0
      BY <2>2, FS_EmptySet
    <3>2. QED
      BY <2>1, <2>2, <3>1
  <2>3. CASE Braced(name) # {}
    <3>1. PICK i : i \in Braced(name)
      BY <2>3
    <3>2. \A j \in Braced(name) : j = i
      BY <3>1, ParametersAssumption
    <3>3. Braced(name) = {i}
      BY <3>1, <3>2
    <3>4. Cardinality(Braced(name)) = 1
      BY <3>3, FS_Singleton
    <3>5. QED
      BY <2>1, <2>3, <3>1, <3>4
  <2>4. QED
    BY <2>2, <2>3
<1> HIDE DEF Count
<1>3. QED
  BY <1>1, <1>2 DEF EachOnce

\* More parameters, names and a request by hand leave a field described.
LEMMA FieldsKept ==
  ASSUME NEW fields, NEW paths, NEW params, NEW request,
         NEW morePaths, NEW moreParams, NEW another,
         HasFields(fields, paths, params, request),
         \A i \in DOMAIN fields : InPath(fields[i]) /\ paths[fields[i].name] > 0 =>
           morePaths[fields[i].name] > 0,
         params \subseteq moreParams, another \in {request, "byHand"}
  PROVE  HasFields(fields, morePaths, moreParams, another)
BY DEF HasFields, HasField

\* More responses and headers leave an answer described.
LEMMA AnswersKept ==
  ASSUME NEW some, NEW statuses, NEW headers, NEW more, NEW moreHeaders,
         HasAnswers(some, statuses, headers), statuses \subseteq more, headers \subseteq moreHeaders
  PROVE  HasAnswers(some, more, moreHeaders)
BY DEF HasAnswers, HasAnswer

\* A struct that Request goes through is described.
LEMMA RequestDescribes ==
  ASSUME NEW fields \in RequestTypes, NEW params, NEW before,
         Placed(fields, TRUE, "header") \subseteq params,
         Placed(fields, TRUE, "query") \subseteq params
  PROVE  HasFields(fields, PathParamsOf(fields), params, BodyOf(fields, TRUE, before))
<1> SUFFICES ASSUME NEW i \in DOMAIN fields
             PROVE  HasField(fields[i], fields, PathParamsOf(fields), params,
                             BodyOf(fields, TRUE, before))
  BY DEF HasFields
<1>1. ASSUME NEW place \in {"header", "query"}, Place(fields[i], TRUE) = place
      PROVE  Parameter(fields[i].name, place, fields[i].required) \in params
  BY <1>1 DEF Placed
<1>2. InPath(fields[i]) => PathParamsOf(fields)[fields[i].name] > 0
  BY StructsCounted
<1>3. Place(fields[i], TRUE) = "body" => BodyOf(fields, TRUE, before) = "body"
  BY DEF BodyOf, HasExplicitBinding, Nothing
<1>4. ~HasExplicitBinding(fields, TRUE) => BodyOf(fields, TRUE, before) = "whole"
  BY DEF BodyOf
<1>5. QED
  BY <1>1, <1>2, <1>3, <1>4 DEF HasField

\* So is one that Response goes through.
LEMMA ResponseDescribes ==
  ASSUME NEW answer \in AnswerTypes, Response(answer), RouteMet
  PROVE  HasAnswers(answers', Statuses(route'.responses), route'.responseHeaders)
<1> DEFINE explicit == HasExplicitBinding(answer.fields, FALSE)
           body     == BodyOf(answer.fields, FALSE, Nothing)
           status   == IF body = "whole" /\ answer.status # 0 THEN answer.status ELSE DefaultStatus
<1>1. /\ route'.responseHeaders = route.responseHeaders \cup Headers(answer.fields)
      /\ route'.responses = IF body = Nothing THEN route.responses
                            ELSE {r \in route.responses : r[1] # status} \cup {<<status, body>>}
      /\ answers' = answers \cup {answer}
  BY DEF Response, RouteMet
<1>2. Statuses(route.responses) \subseteq Statuses(route'.responses)
  <2>1. CASE body = Nothing
    BY <1>1, <2>1
  <2>2. CASE body # Nothing
    <3>1. \A r \in route.responses : r \in route'.responses \/ r[1] = <<status, body>>[1]
      BY <1>1, <2>2
    <3>2. <<status, body>> \in route'.responses
      BY <1>1, <2>2
    <3> HIDE DEF status, body
    <3>3. QED
      BY <3>1, <3>2 DEF Statuses
  <2>3. QED
    BY <2>1, <2>2
<1>3. HasAnswers(answers, Statuses(route'.responses), route'.responseHeaders)
  <2>1. HasAnswers(answers, Statuses(route.responses), route.responseHeaders)
    BY DEF RouteMet
  <2>2. route.responseHeaders \subseteq route'.responseHeaders
    BY <1>1
  <2>3. QED
    BY <1>2, <2>1, <2>2, AnswersKept
<1>4. body # Nothing => status \in Statuses(route'.responses)
  <2> SUFFICES ASSUME body # Nothing PROVE status \in Statuses(route'.responses)
    OBVIOUS
  <2>1. <<status, body>> \in route'.responses
    BY <1>1
  <2> HIDE DEF status, body
  <2>2. QED
    BY <2>1 DEF Statuses
<1>5. ~explicit => body = "whole"
  BY DEF BodyOf
<1>6. ASSUME NEW i \in DOMAIN answer.fields, answer.fields[i].body
      PROVE  explicit /\ body = "body"
  <2>1. answer.fields[i].tags = {}
    BY <1>6, ParametersAssumption
  <2>2. Place(answer.fields[i], FALSE) = "body"
    BY <1>6, <2>1 DEF Place
  <2>3. QED
    BY <2>2 DEF BodyOf, HasExplicitBinding, Nothing
<1>7. HasAnswer(answer, Statuses(route'.responses), route'.responseHeaders)
  <2>1. Headers(answer.fields) \subseteq route'.responseHeaders
    BY <1>1
  <2>2. ~explicit => (IF answer.status = 0 THEN DefaultStatus ELSE answer.status)
                       \in Statuses(route'.responses)
    BY <1>4, <1>5 DEF Nothing
  <2>3. (\E i \in DOMAIN answer.fields : answer.fields[i].body) =>
          DefaultStatus \in Statuses(route'.responses)
    BY <1>4, <1>6 DEF Nothing
  <2>4. QED
    BY <2>1, <2>2, <2>3 DEF HasAnswer
<1>8. QED
  BY <1>1, <1>3, <1>7 DEF HasAnswers

\* An operation says what the route it was built from does.
LEMMA OperationBuilt ==
  ASSUME RouteMet, NEW registered, NEW others, BuildOperation(registered, others)
  PROVE  RouteMet' /\ OperationMet(operation')
<1> DEFINE given == Together(byHand, PathParamsOf(input))
<1>1. /\ route'.pathParams = IF route.pathParams # NoNames THEN route.pathParams ELSE EachOnce
      /\ \A k \in {"queryParams", "headers", "cookies", "request", "responses",
                   "responseHeaders", "auth", "security"} : route'[k] = route[k]
      /\ DOMAIN route' = DOMAIN route /\ operation'.built
      /\ UNCHANGED <<input, byHand, answers>>
  BY PathCounted DEF BuildOperation, RouteMet
<1>2. route'.pathParams = IF given = NoNames THEN EachOnce ELSE given
  BY <1>1 DEF RouteMet
<1>3. HasFields(input, route'.pathParams, route.queryParams \cup route.headers, route.request)
  <2>1. ASSUME NEW i \in DOMAIN input, InPath(input[i]), route.pathParams[input[i].name] > 0
        PROVE  route'.pathParams[input[i].name] > 0
    <3>1. input[i].name \in ParamNames
      BY <2>1, StructsCounted DEF RouteMet
    <3>2. route.pathParams # NoNames
      BY <2>1, <3>1 DEF NoNames
    <3>3. QED
      BY <1>1, <2>1, <3>2
  <2>2. HasFields(input, route.pathParams, route.queryParams \cup route.headers, route.request)
    BY DEF RouteMet
  <2>3. QED
    BY <2>1, <2>2, FieldsKept
<1>4. HasAnswers(answers, Statuses(route.responses), route.responseHeaders)
  BY DEF RouteMet
<1>5. RouteMet'
  BY <1>1, <1>2, <1>3, <1>4 DEF RouteMet
<1>6. /\ operation'.input = input /\ operation'.byHand = byHand /\ operation'.answers = answers
      /\ operation'.pathParams = route'.pathParams
      /\ operation'.parameters = route.queryParams \cup route.headers
      /\ operation'.request = route.request /\ operation'.responses = route.responses
      /\ operation'.responseHeaders = route.responseHeaders
  BY DEF BuildOperation, RouteMet
<1>7. operation'.security \in
        {operation'.asked, {s \in operation'.asked : s \subseteq operation'.schemes}}
  <2> DEFINE schemes == SecuritySchemes(registered, route.auth \cup others)
  <2>1. /\ operation'.security = AddSecurity(route.auth, route.security, schemes)
        /\ operation'.asked = IF route.security = {} THEN Marked(route.auth) ELSE route.security
        /\ operation'.schemes = schemes
    BY DEF BuildOperation
  <2> HIDE DEF schemes
  <2>2. QED
    BY <2>1 DEF AddSecurity
<1>8. QED
  BY <1>2, <1>3, <1>4, <1>5, <1>6, <1>7 DEF OperationMet, RouteMet

\* What is not about the route of the handler, or its path, leaves the rest described.
LEMMA OptionKeeps ==
  ASSUME RouteMet, DOMAIN route' = DOMAIN route, UNCHANGED <<input, byHand, answers>>,
         UNCHANGED route.pathParams, operation.built => operation'.built,
         route.queryParams \cup route.headers \subseteq route'.queryParams \cup route'.headers,
         route'.request \in {route.request, "byHand"},
         Statuses(route.responses) \subseteq Statuses(route'.responses),
         route.responseHeaders \subseteq route'.responseHeaders
  PROVE  RouteMet'
<1>1. HasFields(input, route.pathParams, route.queryParams \cup route.headers, route.request)
  BY DEF RouteMet
<1>2. HasFields(input, route'.pathParams, route'.queryParams \cup route'.headers, route'.request)
  BY <1>1, FieldsKept
<1>3. HasAnswers(answers, Statuses(route'.responses), route'.responseHeaders)
  BY AnswersKept DEF RouteMet
<1>4. QED
  BY <1>2, <1>3 DEF RouteMet

LEMMA RouteStays ==
  ASSUME RouteMet, [ParametersNext]_parametersVars
  PROVE  RouteMet'
<1> USE DEF RouteMet
<1>1. ASSUME NEW name \in PathNames, DocPathParam(name)
      PROVE  RouteMet'
  <2> DEFINE given == Together(byHand, PathParamsOf(input))
  <2>1. /\ route'.pathParams = [route.pathParams EXCEPT ![name] = @ + 1]
        /\ \A k \in {"queryParams", "headers", "cookies", "request", "responses",
                     "responseHeaders", "auth", "security"} : route'[k] = route[k]
        /\ DOMAIN route' = DOMAIN route
        /\ byHand' = [byHand EXCEPT ![name] = @ + 1]
        /\ UNCHANGED <<input, answers, operation>> /\ ~operation.built
    BY <1>1 DEF DocPathParam, Option
  <2>2. PathParamsOf(input) \in Counts
    BY StructsCounted
  <2>3. name \in ParamNames
    BY DEF ParamNames
  <2>4. Together(byHand', PathParamsOf(input')) =
          [Together(byHand, PathParamsOf(input)) EXCEPT ![name] = @ + 1]
    <3> DEFINE structs == PathParamsOf(input)
    <3>1. PathParamsOf(input') = structs
      BY <2>1
    <3>2. structs \in Counts
      BY <2>2
    <3> HIDE DEF structs
    <3>3. \A n \in ParamNames : byHand'[n] + structs[n] =
            IF n = name THEN (byHand[n] + structs[n]) + 1 ELSE byHand[n] + structs[n]
      <4> SUFFICES ASSUME NEW n \in ParamNames
                   PROVE  byHand'[n] + structs[n] =
                            IF n = name THEN (byHand[n] + structs[n]) + 1 ELSE byHand[n] + structs[n]
        OBVIOUS
      <4>1. byHand \in Counts
        OBVIOUS
      <4>2. byHand[n] \in Nat /\ structs[n] \in Nat
        BY <3>2, <4>1 DEF Counts
      <4>3. byHand'[n] = IF n = name THEN byHand[n] + 1 ELSE byHand[n]
        BY <2>1, <2>3, <4>1 DEF Counts
      <4> HIDE DEF RouteMet
      <4>4. QED
        BY <4>2, <4>3
    <3>4. Together(byHand', structs) = [Together(byHand, structs) EXCEPT ![name] = @ + 1]
      BY <2>3, <3>3 DEF Together
    <3>5. QED
      BY <3>1, <3>4 DEF structs
  <2>5. byHand' \in Counts
    BY <2>1, <2>3 DEF Counts
  <2>6. ~operation.built => route.pathParams = given
    OBVIOUS
  <2>7. route'.pathParams = Together(byHand', PathParamsOf(input'))
    BY <2>1, <2>4, <2>6
  <2>8. ASSUME NEW i \in DOMAIN input, InPath(input[i]), route.pathParams[input[i].name] > 0
        PROVE  route'.pathParams[input[i].name] > 0
    <3>1. input[i].name \in ParamNames
      BY <2>8, StructsCounted
    <3>2. route.pathParams \in Counts
      BY <2>2, <2>6, <2>1 DEF Together, Counts
    <3>3. QED
      BY <2>1, <2>8, <3>1, <3>2 DEF Counts
  <2>9. HasFields(input, route'.pathParams, route'.queryParams \cup route'.headers, route'.request)
    <3>1. /\ route'.queryParams \cup route'.headers = route.queryParams \cup route.headers
          /\ route'.request = route.request
      BY <2>1
    <3>2. HasFields(input, route.pathParams, route.queryParams \cup route.headers, route.request)
      OBVIOUS
    <3>3. QED
      BY <2>8, <3>1, <3>2, FieldsKept
  <2>10. QED
    BY <2>1, <2>5, <2>7, <2>9
<1>2. ASSUME NEW fields \in RequestTypes, Request(fields)
      PROVE  RouteMet'
  <2>1. /\ DOMAIN route' = DOMAIN route /\ UNCHANGED <<answers, operation>>
        /\ route'.headers = route.headers \cup Placed(fields, TRUE, "header")
        /\ route'.queryParams = route.queryParams \cup Placed(fields, TRUE, "query")
        /\ route'.request = BodyOf(fields, TRUE, route.request)
        /\ route'.pathParams = PathParamsOf(fields)
        /\ route'.responses = route.responses /\ route'.responseHeaders = route.responseHeaders
        /\ input' = fields /\ byHand' = NoNames
    BY <1>2 DEF Request
  <2>2. PathParamsOf(fields) \in Counts
    BY StructsCounted
  <2>3. Together(NoNames, PathParamsOf(fields)) = PathParamsOf(fields)
    BY <2>2 DEF Together, NoNames, Counts
  <2>4. NoNames \in Counts
    BY DEF NoNames, Counts
  <2>5. HasFields(fields, PathParamsOf(fields), route'.queryParams \cup route'.headers,
                  BodyOf(fields, TRUE, route.request))
    BY <2>1, RequestDescribes
  <2>6. QED
    BY <2>1, <2>3, <2>4, <2>5
<1>3. ASSUME NEW answer \in AnswerTypes, Response(answer)
      PROVE  RouteMet'
  <2>1. /\ DOMAIN route' = DOMAIN route /\ UNCHANGED <<input, byHand, operation>>
        /\ \A k \in {"pathParams", "queryParams", "headers", "request"} : route'[k] = route[k]
    BY <1>3 DEF Response
  <2>2. HasAnswers(answers', Statuses(route'.responses), route'.responseHeaders)
    BY <1>3, ResponseDescribes
  <2>3. QED
    BY <2>1, <2>2
<1>4. ASSUME NEW name, NEW required \in BOOLEAN,
             DocQueryParam(name, required) \/ DocHeader(name, required)
      PROVE  RouteMet'
  <2>1. CASE DocQueryParam(name, required)
    BY <2>1, OptionKeeps DEF DocQueryParam
  <2>2. CASE DocHeader(name, required)
    BY <2>2, OptionKeeps DEF DocHeader
  <2>3. QED
    BY <1>4, <2>1, <2>2
<1>5. CASE DocRequestBody
  BY <1>5, OptionKeeps DEF DocRequestBody
<1>6. ASSUME NEW status, DocResponse(status)
      PROVE  RouteMet'
  <2>1. route'.responses = {r \in route.responses : r[1] # status} \cup {<<status, "byHand">>}
    BY <1>6 DEF DocResponse
  <2>2. Statuses(route.responses) \subseteq Statuses(route'.responses)
    <3>1. \A r \in route.responses : r \in route'.responses \/ r[1] = <<status, "byHand">>[1]
      BY <2>1
    <3>2. <<status, "byHand">> \in route'.responses
      BY <2>1
    <3>3. QED
      BY <3>1, <3>2 DEF Statuses
  <2>3. QED
    BY <1>6, <2>2, OptionKeeps DEF DocResponse
<1>7. ASSUME NEW name, DocResponseHeader(name)
      PROVE  RouteMet'
  BY <1>7, OptionKeeps DEF DocResponseHeader
<1>8. ASSUME NEW scheme, DocAuth(scheme)
      PROVE  RouteMet'
  BY <1>8, OptionKeeps DEF DocAuth
<1>9. ASSUME NEW security, WithSecurity(security)
      PROVE  RouteMet'
  BY <1>9, OptionKeeps DEF WithSecurity
<1>10. ASSUME NEW registered, NEW others, BuildOperation(registered, others)
       PROVE  RouteMet'
  BY <1>10, OperationBuilt
<1>11. CASE UNCHANGED parametersVars
  BY <1>11 DEF parametersVars
<1> USE DEF ParametersNext
<1>12. QED
  BY <1>1, <1>2, <1>3, <1>4, <1>5, <1>6, <1>7, <1>8, <1>9, <1>10, <1>11

\* An operation stays what it was built as.
LEMMA OperationStays ==
  ASSUME ParametersNext, RouteMet, operation.built => OperationMet(operation)
  PROVE  operation'.built => OperationMet(operation')
<1>1. CASE UNCHANGED operation
  BY <1>1
<1>2. ASSUME NEW registered, NEW others, BuildOperation(registered, others)
      PROVE  OperationMet(operation')
  BY <1>2, OperationBuilt
<1>3. UNCHANGED operation \/ \E registered, others : BuildOperation(registered, others)
  BY DEF ParametersNext, DocPathParam, DocQueryParam, DocHeader, DocRequestBody, DocResponse,
         DocResponseHeader, DocAuth, WithSecurity, Request, Response
<1>4. QED
  BY <1>1, <1>2, <1>3

\* An operation that has the fields and answers of its structs says enough.
LEMMA OperationSuffices ==
  ASSUME ParametersInv
  PROVE  FollowingSuffices
<1> SUFFICES ASSUME operation.built PROVE FollowingSuffices
  BY DEF FollowingSuffices
<1> DEFINE op == operation
<1>1. OperationMet(op)
  BY DEF ParametersInv
<1>2. ASSUME NEW i \in DOMAIN op.input, op.input[i].required,
             ~((op.input[i].body \/ op.input[i].member) /\ op.request = "byHand"),
             ~(Place(op.input[i], TRUE) = "cookie" /\ ~InPath(op.input[i])),
             ~(op.input[i].member /\ HasExplicitBinding(op.input, TRUE))
      PROVE  Describes(op.input[i])
  <2> DEFINE f == op.input[i]
  <2>1. HasField(f, op.input, op.pathParams, op.parameters, op.request)
    BY <1>1 DEF OperationMet, HasFields
  <2>2. op.input \in RequestTypes
    BY <1>1, <1>2 DEF OperationMet
  <2>3. f.body \/ f.member \/ f.tags \cap {"header", "cookie", "query", "path", "param"} # {}
    BY <2>2, ParametersAssumption
  <2>4. Place(f, TRUE) # Nothing => HasExplicitBinding(op.input, TRUE)
    BY DEF HasExplicitBinding
  <2>5. CASE InPath(f)
    BY <2>1, <2>5 DEF HasField, Describes
  <2>6. CASE Place(f, TRUE) \in {"header", "query"}
    <3>1. Place(f, TRUE) \in f.tags
      BY <2>6 DEF Place, Nothing
    <3>2. Parameter(f.name, Place(f, TRUE), TRUE) \in op.parameters
      BY <1>2, <2>1, <2>6 DEF HasField
    <3>3. QED
      BY <3>1, <3>2 DEF Describes, Parameter
  <2>7. CASE Place(f, TRUE) = "body"
    BY <1>2, <2>1, <2>4, <2>7 DEF HasField, Describes, Place, Nothing
  <2>8. CASE Place(f, TRUE) = Nothing /\ ~InPath(f)
    BY <1>2, <2>1, <2>3, <2>4, <2>8 DEF HasField, Describes, Place, Nothing, InPath
  <2>9. QED
    BY <1>2, <2>5, <2>6, <2>7, <2>8 DEF Place, Nothing
<1>3. LET given == Together(op.byHand, PathParamsOf(op.input))
      IN  given \in {NoNames, EachOnce} => op.pathParams = EachOnce
  BY <1>1 DEF OperationMet
<1>4. /\ (\A alternative \in op.asked : alternative \subseteq op.schemes) => op.security = op.asked
      /\ (\E alternative \in op.asked : alternative \subseteq op.schemes) => op.security # {}
  <2>1. op.security \in {op.asked, {s \in op.asked : s \subseteq op.schemes}}
    BY <1>1 DEF OperationMet
  <2> HIDE DEF op
  <2>2. QED
    BY <2>1
<1>5. ASSUME NEW a \in op.answers
      PROVE  LET sent     == Responded(a)
                 explicit == HasExplicitBinding(a.fields, FALSE)
             IN  /\ op.responses # {} => sent.headers \ Untagged(a.fields) \subseteq op.responseHeaders
                 /\ ~explicit \/ (sent.body /\ sent.status = DefaultStatus)
                    => \E r \in op.responses : r[1] = sent.status
  <2>1. HasAnswer(a, Statuses(op.responses), op.responseHeaders)
    BY <1>1 DEF OperationMet, HasAnswers
  <2>2. /\ Responded(a).status = IF a.status = 0 THEN DefaultStatus ELSE a.status
        /\ Responded(a).body => \E i \in DOMAIN a.fields : a.fields[i].body
    BY DEF Responded
  <2>3. Responded(a).headers \ Untagged(a.fields) \subseteq Headers(a.fields)
    <3> SUFFICES ASSUME NEW name \in Responded(a).headers, name \notin Untagged(a.fields)
                 PROVE  name \in Headers(a.fields)
      OBVIOUS
    <3>1. PICK i \in DOMAIN a.fields : /\ name = a.fields[i].name
                                       /\ Place(a.fields[i], FALSE) \in {"header", Nothing}
      BY DEF Responded
    <3>2. Place(a.fields[i], FALSE) = "header"
      BY <3>1 DEF Untagged
    <3>3. Parameter(name, "header", a.fields[i].required) \in Placed(a.fields, FALSE, "header")
      BY <3>1, <3>2 DEF Placed
    <3>4. Parameter(name, "header", a.fields[i].required).name = name
      BY DEF Parameter
    <3>5. QED
      BY <3>3, <3>4 DEF Headers
  <2>4. \A status \in Statuses(op.responses) : \E r \in op.responses : r[1] = status
    BY DEF Statuses
  <2>5. QED
    BY <2>1, <2>2, <2>3, <2>4 DEF HasAnswer
<1>6. QED
  BY <1>2, <1>3, <1>4, <1>5 DEF FollowingSuffices

(* For any path, structs, security schemes and options, in any order, and  *)
(* over any number of builds of the document: what an operation says its   *)
(* requests need is enough for the binder, its answers are documented, and *)
(* a guarded route is documented as one.                                   *)
THEOREM FollowingAlwaysSuffices == ParametersSpec => []FollowingSuffices
<1>1. ParametersInit => ParametersInv
  <2> SUFFICES ASSUME ParametersInit PROVE ParametersInv
    OBVIOUS
  <2>1. PathParamsOf(<<>>) = NoNames /\ NoNames \in Counts
    BY StructsCounted DEF NoNames, Counts
  <2>2. Together(NoNames, NoNames) = NoNames
    BY DEF Together, NoNames
  <2>3. QED
    BY <2>1, <2>2 DEF ParametersInit, ParametersInv, RouteMet, HasFields, HasAnswers, NoOperation
<1>2. ParametersInv /\ [ParametersNext]_parametersVars => ParametersInv'
  BY RouteStays, OperationStays DEF ParametersInv, parametersVars
<1>3. QED
  BY <1>1, <1>2, OperationSuffices, PTL DEF ParametersSpec
=============================================================================
