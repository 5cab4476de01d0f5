---------------------------- MODULE Constraints ----------------------------
(***************************************************************************)
(* One set of struct tags is read twice: by the checkers that validate a   *)
(* bound field, and by the document, which promises clients the same       *)
(* constraints as a JSON schema, in OpenAPI 3.0 and 3.1.                   *)
(*                                                                         *)
(* A tag is the set of its values, empty when it is absent.  Texts are     *)
(* abstract: a pattern, a format or a substring is the set of texts that   *)
(* match it.  Numbers in tags parse; a tag may be one of another kind.     *)
(***************************************************************************)
EXTENDS Integers, Sequences, Functions

CONSTANTS
    Words, EmptyWord,   \* the texts, and the empty one
    Bytes, Characters,  \* their lengths
    ValueText,          \* what reflect's String says of a number or a map
    FieldsOf            \* fields: records of a kind ("int", "string", "strings" or "map"),
                        \* pointer (a Boolean), tags and the values they may hold (of a map,
                        \* its number of entries)

ASSUME ConstraintsAssumption ==
    \A f \in FieldsOf :
        /\ f.kind \in {"int", "string", "strings", "map"} /\ f.pointer \in BOOLEAN
        /\ f.kind = "int" => f.values \subseteq Int
        /\ f.tags.exclusiveMin \cup f.tags.exclusiveMax \subseteq Int
        /\ f.tags.multipleOf \subseteq Nat \ {0}

VARIABLES
    field,     \* a field
    isNil, val, \* what it holds
    schema,    \* its schema in the base document: a record, or none yet
    schema30, schema31,  \* the same in the documents that are served
    verdict    \* what the checkers say: "none", "accepted" or "refused"

constraintsVars == <<field, isNil, val, schema, schema30, schema31, verdict>>

NotYet == <<>>
tags == field.tags

ConstraintsStart(f) ==
    /\ field = f
    /\ isNil \in {FALSE, field.pointer} /\ val \in field.values
    /\ schema = NotYet /\ schema30 = NotYet /\ schema31 = NotYet /\ verdict = "none"

ConstraintsInit == \E f \in FieldsOf : ConstraintsStart(f)

-----------------------------------------------------------------------------
(* The checkers. *)

\* checkMin and checkMax: of numbers, or of the length of slices and maps.
AtLeast(n) == \A m \in tags.min : n >= m
AtMost(n)  == \A m \in tags.max : n <= m
Above(n)   == \A m \in tags.exclusiveMin : n > m
Below(n)   == \A m \in tags.exclusiveMax : n < m
Multiple(n) == \A m \in tags.multipleOf : n % m = 0

NumberOk(n) == AtLeast(n) /\ AtMost(n) /\ Above(n) /\ Below(n) /\ Multiple(n)

\* checkLengthConstraints counts bytes.
LengthOk(t) ==
    /\ \A m \in tags.minLength : Bytes[t] >= m
    /\ \A m \in tags.maxLength : Bytes[t] <= m

\* An empty text passes every check below.
ChoiceOk(t) == (\A allowed \in tags.enum : t \in allowed) /\ \A constant \in tags.const : t = constant
FormatOk(t) == \A matching \in tags.format \cup tags.pattern : t \in matching
SubstringOk(t) ==
    /\ \A matching \in tags.contains : t \in matching
    /\ \A matching \in tags.notContains : t \notin matching

\* A number or a map is no text: format reads what reflect says of it, the others refuse it.
NoTextOk ==
    /\ \A k \in {"enum", "const", "pattern", "contains", "notContains"} : tags[k] = {}
    /\ \A matching \in tags.format : ValueText \in matching

TextOk(t) == t = EmptyWord \/ (ChoiceOk(t) /\ FormatOk(t) /\ SubstringOk(t))

ItemsOk(items) ==
    /\ \A m \in tags.minItems : Len(items) >= m
    /\ \A m \in tags.maxItems : Len(items) <= m
    /\ tags.uniqueItems => IsInjective(items)

PropertiesOk(n) ==
    (\A m \in tags.minProperties : n >= m) /\ (\A m \in tags.maxProperties : n <= m)

\* What is no number satisfies no multipleOf; the other tags of numbers leave it alone.
OtherwiseOk ==
    /\ tags.multipleOf = {}
    /\ \/ field.kind = "string" /\ LengthOk(val) /\ TextOk(val)
       \/ /\ field.kind = "strings" /\ AtLeast(Len(val)) /\ AtMost(Len(val)) /\ ItemsOk(val)
          /\ \A i \in DOMAIN val : TextOk(val[i])
       \/ field.kind = "map" /\ AtLeast(val) /\ AtMost(val) /\ PropertiesOk(val) /\ NoTextOk

\* checkFieldConstraints: a nil pointer has no value to constrain.
FieldOk ==
    \/ isNil
    \/ field.kind = "int" /\ NumberOk(val) /\ NoTextOk
    \/ field.kind # "int" /\ OtherwiseOk

CheckFieldConstraints ==
    /\ verdict = "none"
    /\ verdict' = IF FieldOk THEN "accepted" ELSE "refused"
    /\ UNCHANGED <<field, isNil, val, schema, schema30, schema31>>

-----------------------------------------------------------------------------
(* The document. *)

\* applyNumericSchemaTags: an exclusive bound is the bound and a flag, as in 3.0, and takes
\* the place of the other bound.  applyStringSchemaTags, applyArraySchemaTags, enum and const
\* (kept as a marker): the other tags keep their names and values.
SchemaOfTags ==
    [minimum |-> IF tags.exclusiveMin = {} THEN tags.min ELSE tags.exclusiveMin,
     maximum |-> IF tags.exclusiveMax = {} THEN tags.max ELSE tags.exclusiveMax,
     exclusiveMin |-> tags.exclusiveMin # {}, exclusiveMax |-> tags.exclusiveMax # {},
     multipleOf |-> tags.multipleOf, minLength |-> tags.minLength,
     maxLength |-> tags.maxLength, format |-> tags.format, pattern |-> tags.pattern,
     enum |-> tags.enum, const |-> tags.const, minItems |-> tags.minItems,
     maxItems |-> tags.maxItems, uniqueItems |-> tags.uniqueItems,
     minProperties |-> tags.minProperties, maxProperties |-> tags.maxProperties,
     nullable |-> field.pointer]

ApplyValidationTags ==
    /\ schema = NotYet
    /\ schema' = SchemaOfTags
    /\ UNCHANGED <<field, isNil, val, schema30, schema31, verdict>>

\* deriveSpec30 strips the markers.
DeriveSpec30 ==
    /\ schema # NotYet /\ schema30 = NotYet
    /\ schema30' = [schema EXCEPT !.const = {}]
    /\ UNCHANGED <<field, isNil, val, schema, schema31, verdict>>

\* Bug: the flag goes and the bound stays.
TransformSchemaTo31Inclusive ==
    /\ schema # NotYet /\ schema31 = NotYet
    /\ schema31' = [schema EXCEPT !.exclusiveMin = {}, !.exclusiveMax = {}]
    /\ UNCHANGED <<field, isNil, val, schema, schema30, verdict>>

\* transformSchemaTo31: an exclusive bound is a number of its own.
TransformSchemaTo31 ==
    /\ schema # NotYet /\ schema31 = NotYet
    /\ LET Moved(flag, bound) == IF flag THEN bound ELSE {}
           Kept(flag, bound)  == IF flag THEN {} ELSE bound
       IN  schema31' =
             [schema EXCEPT !.exclusiveMin = Moved(@, schema.minimum),
                            !.exclusiveMax = Moved(@, schema.maximum),
                            !.minimum = Kept(schema.exclusiveMin, @),
                            !.maximum = Kept(schema.exclusiveMax, @)]
    /\ UNCHANGED <<field, isNil, val, schema, schema30, verdict>>

ConstraintsNext ==
    ApplyValidationTags \/ DeriveSpec30 \/ TransformSchemaTo31 \/ CheckFieldConstraints

ConstraintsSpec == ConstraintsInit /\ [][ConstraintsNext]_constraintsVars

-----------------------------------------------------------------------------
(* What a client reads: JSON Schema.  Keywords for another type are ignored, but enum and  *)
(* const are for any, and theirs are texts.                                                *)

NoChoice(s) == s.enum = {} /\ s.const = {}

InRange(n, s) == (\A m \in s.minimum : n >= m) /\ (\A m \in s.maximum : n <= m)

NumberIn(n, s, above, below) ==
    /\ NoChoice(s) /\ InRange(n, s) /\ \A m \in s.multipleOf : n % m = 0
    /\ \A m \in above : n > m
    /\ \A m \in below : n < m

Flagged(flag, bound) == IF flag THEN bound ELSE {}

OtherwiseIn(s) ==
    \/ /\ field.kind = "string"
       /\ \A m \in s.minLength : Characters[val] >= m
       /\ \A m \in s.maxLength : Characters[val] <= m
       /\ \A matching \in s.format \cup s.pattern \cup s.enum : val \in matching
       /\ \A constant \in s.const : val = constant
    \/ /\ field.kind = "strings"
       /\ NoChoice(s)
       /\ \A m \in s.minItems : Len(val) >= m
       /\ \A m \in s.maxItems : Len(val) <= m
       /\ s.uniqueItems => IsInjective(val)
    \/ /\ field.kind = "map"
       /\ NoChoice(s)
       /\ \A m \in s.minProperties : val >= m
       /\ \A m \in s.maxProperties : val <= m

NullIn(s) == s.nullable /\ NoChoice(s)

\* The value is one the 3.0, the 3.1 document allows.
In30 == IF isNil THEN NullIn(schema30)
        ELSE IF field.kind = "int"
        THEN NumberIn(val, schema30, Flagged(schema30.exclusiveMin, schema30.minimum),
                                     Flagged(schema30.exclusiveMax, schema30.maximum))
        ELSE OtherwiseIn(schema30)
In31 == IF isNil THEN NullIn(schema31)
        ELSE IF field.kind = "int"
        THEN NumberIn(val, schema31, schema31.exclusiveMin, schema31.exclusiveMax)
        ELSE OtherwiseIn(schema31)

\* Tags a schema says as they are enforced.  It does not where a bound is given twice, where
\* the texts of a slice are constrained (the schema is the slice's), for substrings, for
\* bounds on a size (only numbers have a minimum) and for a choice of a pointer; nor where a
\* tag is of another kind that a schema passes over and a checker refuses.
Expressible ==
    /\ tags.min = {} \/ tags.exclusiveMin = {}
    /\ tags.max = {} \/ tags.exclusiveMax = {}
    /\ tags.contains = {} /\ tags.notContains = {}
    /\ field.pointer => tags.enum = {} /\ tags.const = {}
    /\ field.kind \in {"strings", "map"} => tags.min = {} /\ tags.max = {}
    /\ field.kind = "strings" => tags.enum = {} /\ tags.const = {}
    /\ field.kind # "string" => tags.format = {} /\ tags.pattern = {}
    /\ field.kind # "int" => tags.multipleOf = {}

\* Lengths count bytes where the schema counts characters, and the empty text is passed over.
ReadAlike == field.kind = "string" => val # EmptyWord /\ Bytes[val] = Characters[val]

\* Validation enforces what the documents promise: the 3.1 document allows exactly the values
\* that are accepted, and the 3.0 document, which has no const, all of them.
DocumentedIsEnforced ==
    Expressible /\ (isNil \/ ReadAlike) /\ verdict # "none" =>
      /\ schema31 # NotYet => (In31 <=> verdict = "accepted")
      /\ schema30 # NotYet /\ verdict = "accepted" => In30
      /\ schema30 # NotYet /\ tags.const = {} /\ In30 => verdict = "accepted"
=============================================================================
