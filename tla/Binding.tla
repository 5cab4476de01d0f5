------------------------------ MODULE Binding ------------------------------
(***************************************************************************)
(* Binding a request to a struct.  Three binders fill it, field by field:  *)
(* bindRequest decodes the body into a flat struct and lays the other      *)
(* sources over it; BindMultipart takes every field from a multipart form  *)
(* or from the other sources; bindStruct, for a struct with a Body field,  *)
(* binds Body by itself and each sibling from one source.  Each validates. *)
(*                                                                         *)
(* A field has one key, under which each source it is tagged with may say  *)
(* something of it.  Body stands for a struct of one field.                *)
(***************************************************************************)
EXTENDS Naturals, Sequences

\* A case is a struct and a request.  The struct is a sequence of fields, records of
\*   from: the sources it is tagged with; "member" is a member of the decoded body
\*   default: the text of its default tag, Empty without one
\*   rule: "none", "with" (required with the sibling, another field) or "without"
\*   kind: "one" value, a list of "strings" or a list of "numbers"
\*   required, limited (under a constraint), body (it is Body): Booleans
\* The request has a kind of body, and in each source the texts it has under the field's key,
\* several when the key is repeated.  A text of a list stands for its elements, which it has
\* between commas: they come out the same wherever it is cut.
CONSTANT Cases

Empty   == "empty"    \* the empty text: "?ids="
Gappy   == "gappy"    \* a list's text with nothing between two commas
Nought  == "zero"     \* the text of a zero value
Broken  == "broken"   \* a text that does not parse as a number
Wide    == "wide"     \* a number too large for the field, or for an element of it
Odd     == "odd"      \* parses, but breaks a constraint
Wrapped == "wrapped"  \* what is left of Wide in an element

Contents   == {"none", "decoded", "form", "multipart", "malformed"}
Sources    == {"path", "query", "form", "header", "cookie", "member"}
FieldTexts == {Empty, Gappy, Nought, Broken, Wide, Odd, "v", "w"}

\* A value is the sequence of what was parsed; a list that is not set is zero.
ZeroValue == <<>>
Refused   == <<"refused">>  \* in place of a value

StructFields ==
  [from : SUBSET Sources, default : FieldTexts \ {Gappy, Broken, Wide},
   rule : {"none", "with", "without"}, sibling : Nat, required : BOOLEAN, limited : BOOLEAN,
   kind : {"one", "strings", "numbers"}, body : BOOLEAN]

\* What the model takes for a struct and a request: defaults parse, a rule is about a field of
\* the struct, only a body that is decoded has members, each once and whole, only a form's has form
\* values, and next to Body no field is a member.
ASSUME BindingAssumption ==
  \A c \in Cases :
    /\ c.target \in Seq(StructFields)
    /\ c.content \in Contents
    /\ c.given \in [DOMAIN c.target -> [Sources -> Seq(FieldTexts)]]
    /\ \A i \in DOMAIN c.target :
         /\ c.target[i].rule # "none" => c.target[i].sibling \in DOMAIN c.target
         /\ c.content # "decoded" => c.given[i].member = <<>>
         /\ c.content \in {"none", "decoded"} => c.given[i].form = <<>>
         /\ c.given[i].member # <<>> =>
              \E text \in FieldTexts \ {Empty, Gappy} : c.given[i].member = <<text>>
         /\ (\E j \in DOMAIN c.target : c.target[j].body) /\ "member" \in c.target[i].from =>
              c.target[i].body

\* The order in which the binders try the tags.
Order == <<"path", "query", "form", "header", "cookie">>

VARIABLES
  target, content, given,  \* the case
  binder,  \* what comes next: "bind", "decode", "overlay", "multipart", "extract", "validate",
           \* or the outcome: "accepted", "refused"
  at,      \* the field it is at
  value    \* the struct's fields

request == <<target, content, given>>
bindingVars == <<request, binder, at, value>>

Indices == DOMAIN target
HasBody == \E i \in Indices : target[i].body
Tagged(i, s) == s \in target[i].from
Beside(i) == HasBody /\ ~target[i].body  \* one of the siblings of Body

BindingTypeOK ==
  /\ content \in Contents /\ DOMAIN given = Indices
  /\ binder \in {"bind", "decode", "overlay", "multipart", "extract", "validate", "accepted",
                 "refused"}
  /\ at \in 1 .. Len(target) + 1
  /\ value \in [Indices -> Seq(FieldTexts \cup {Wrapped})]

BindingStart(c) ==
  /\ target = c.target /\ content = c.content /\ given = c.given
  /\ binder = "bind" /\ at = 1 /\ value = [i \in Indices |-> ZeroValue]

BindingInit == \E c \in Cases : BindingStart(c)

-----------------------------------------------------------------------------
\* setWithType, setSliceWithType: a single field refuses a number that does not fit, a list of
\* numbers cuts it, and also refuses an element that is empty; strings take any text.
Parsed(i, text) ==
  CASE target[i].kind = "one"     -> text \notin {Empty, Broken, Wide}
    [] target[i].kind = "numbers" -> text \notin {Empty, Broken, Gappy}
    [] target[i].kind = "strings" -> TRUE

Set(i, texts) ==
  IF \E k \in DOMAIN texts : ~Parsed(i, texts[k]) THEN Refused
  ELSE IF target[i].kind = "one" /\ texts = <<Nought>> THEN ZeroValue
  ELSE IF target[i].kind = "numbers"
  THEN [k \in DOMAIN texts |-> IF texts[k] = Wide THEN Wrapped ELSE texts[k]]
  ELSE texts

\* The first text of a key, when it is not empty.
First(texts) == IF texts = <<>> \/ texts[1] = Empty THEN <<>> ELSE <<texts[1]>>

\* QueryArray: all texts, without what is empty in them.
Kept(texts) ==
  LET kept[n \in 0 .. Len(texts)] ==
        IF n = 0 THEN <<>>
        ELSE IF texts[n] = Empty THEN kept[n - 1]
        ELSE Append(kept[n - 1], IF texts[n] = Gappy THEN "v" ELSE texts[n])
  IN  kept[Len(texts)]

\* Request.Form: a form body comes before the query string, a multipart one after it.
RequestForm(i) ==
  IF content = "multipart" THEN given[i].query \o given[i].form
  ELSE given[i].form \o given[i].query

\* What each of the binders finds under a query tag, and under a form tag: bindMultipartField
\* takes all texts for a list of strings, and under a form tag also an empty one.
ReadQuery(i) ==
  IF Beside(i)
  THEN IF target[i].kind = "one" THEN First(given[i].query) ELSE Kept(given[i].query)
  ELSE IF content # "multipart" THEN First(given[i].query)
  ELSE IF target[i].kind = "strings" THEN RequestForm(i) ELSE First(RequestForm(i))

ReadForm(i) ==
  IF content # "multipart" THEN First(RequestForm(i))
  ELSE IF target[i].kind = "strings" \/ given[i].form = <<>> THEN given[i].form
  ELSE <<given[i].form[1]>>

Read(i, s) ==
  CASE s = "query" -> ReadQuery(i)
    [] s = "form"  -> ReadForm(i)
    [] OTHER       -> First(given[i][s])

\* What the first of the tags that finds something finds.
FirstRead(i, order) ==
  LET finds == {k \in DOMAIN order : Tagged(i, order[k]) /\ Read(i, order[k]) # <<>>}
  IN  IF finds = {} THEN <<>>
      ELSE Read(i, order[CHOOSE k \in finds : \A l \in finds : k <= l])

\* Bug: the default replaces an explicit zero.
FilledOverZero(i, order, v) ==
  LET texts == FirstRead(i, order)
      default == target[i].default
  IN  IF texts # <<>> /\ (texts # <<Nought>> \/ default = Empty) THEN Set(i, texts)
      ELSE IF default # Empty /\ v = ZeroValue THEN Set(i, <<default>>)
      ELSE IF target[i].required /\ v = ZeroValue THEN Refused ELSE v

\* bindFromFields and bindMultipartField for field i, which holds v.
Filled(i, order, v) ==
  LET texts == FirstRead(i, order)
      default == target[i].default
  IN  IF texts # <<>> THEN Set(i, texts)
      ELSE IF default # Empty /\ v = ZeroValue THEN Set(i, <<default>>)
      ELSE IF target[i].required /\ v = ZeroValue THEN Refused ELSE v

Overlaid(i, v)     == Filled(i, Order, v)
FromMultipart(i)   == Filled(i, <<"path", "query", "form", "header">>, ZeroValue)

\* The decoder for the content type; a member that is not there leaves the zero value.
Decoded(i) ==
  LET member == given[i].member
  IN  IF content # "decoded" \/ ~Tagged(i, "member") \/ member \in {<<>>, <<Nought>>} THEN ZeroValue
      ELSE IF member \in {<<Broken>>, <<Wide>>} THEN Refused ELSE member

\* validateField, validateStruct: required, the conditional rules, the constraints.
ConditionallyRequired(i, v) ==
  LET field == target[i]
  IN  \/ field.rule = "with"    /\ v[field.sibling] # ZeroValue
      \/ field.rule = "without" /\ v[field.sibling] = ZeroValue

BreaksLimit(x) == \E k \in DOMAIN x : x[k] = Odd

Valid(i, v) ==
  /\ target[i].required \/ ConditionallyRequired(i, v) => v[i] # ZeroValue
  /\ target[i].limited => ~BreaksLimit(v[i])

\* Bind of the Body field, with the validation at its end.
BoundBody(i) ==
  LET v == IF content = "malformed" THEN Refused
           ELSE IF content = "multipart" THEN FromMultipart(i)
           ELSE IF Decoded(i) = Refused THEN Refused ELSE Overlaid(i, Decoded(i))
  IN  IF v # Refused /\ Valid(i, [value EXCEPT ![i] = v]) THEN v ELSE Refused

\* extractAndSetField: no form tag.
Extracted(i) ==
  LET texts == FirstRead(i, <<"path", "query", "header", "cookie">>)
  IN  IF target[i].body THEN BoundBody(i)
      ELSE IF texts # <<>> THEN Set(i, texts)
      ELSE IF target[i].default # Empty THEN Set(i, <<target[i].default>>) ELSE ZeroValue

\* Field at gets v and the binder goes on, or the request is refused.
Put(v) ==
  /\ at <= Len(target)
  /\ IF v = Refused THEN binder' = "refused" /\ UNCHANGED <<at, value>>
     ELSE value' = [value EXCEPT ![at] = v] /\ at' = at + 1 /\ UNCHANGED binder
  /\ UNCHANGED request

\* After the last field.
Then(next) ==
  /\ at > Len(target)
  /\ binder' = next /\ at' = 1
  /\ UNCHANGED <<request, value>>

\* Bind, and the content types of bindRequest.
Bind ==
  /\ binder = "bind"
  /\ binder' = IF HasBody THEN "extract"
               ELSE IF content = "malformed" THEN "refused"
               ELSE IF content = "multipart" THEN "multipart" ELSE "decode"
  /\ UNCHANGED <<request, at, value>>

Decode ==
  /\ binder = "decode"
  /\ IF \E i \in Indices : Decoded(i) = Refused THEN binder' = "refused" /\ UNCHANGED value
     ELSE binder' = "overlay" /\ value' = [i \in Indices |-> Decoded(i)]
  /\ UNCHANGED <<request, at>>

Overlay == binder = "overlay" /\ (Put(Overlaid(at, value[at])) \/ Then("validate"))

Multipart == binder = "multipart" /\ (Put(FromMultipart(at)) \/ Then("validate"))

Validate ==
  /\ binder = "validate"
  /\ \/ Put(IF Valid(at, value) THEN value[at] ELSE Refused)
     \/ Then("accepted")

\* bindStruct: each field is set and checked before the next one is.
Extract ==
  /\ binder = "extract"
  /\ \/ LET v == Extracted(at)
        IN  Put(IF v # Refused /\ Valid(at, [value EXCEPT ![at] = v]) THEN v ELSE Refused)
     \/ Then("accepted")

BindingNext == Bind \/ Decode \/ Overlay \/ Multipart \/ Validate \/ Extract

BindingSpec == BindingInit /\ [][BindingNext]_bindingVars

-----------------------------------------------------------------------------
\* A rule of bindStruct sees the siblings declared before the field only.
RuleHolds(i, v) ==
  (HasBody => target[i].sibling < i) /\ ConditionallyRequired(i, v) => v[i] # ZeroValue

RulesKept ==
  \A i \in Indices :
    /\ target[i].required => value[i] # ZeroValue
    /\ RuleHolds(i, value)
    /\ target[i].limited => ~BreaksLimit(value[i])

\* Where a binder reads all texts of a list: next to Body, and a multipart form's strings.  The
\* flat binder reads the first of repeated keys, and so does the multipart one for numbers.
ReadsAll(i) == Beside(i) \/ (content = "multipart" /\ target[i].kind = "strings")

\* Field i is said the same by all binders.  Its key is used in the sources it is tagged with only
\* (net/http gives form values for query tags and the reverse), and its binder reads these: next to
\* Body no form tag, in a multipart form no cookie.  A list has no element that setSliceWithType
\* cuts (validator.go:500) or that QueryArray alone leaves out.
\* The other conditions except what core-concepts/request-handling.md promises and the binders do
\* not keep.  Lines 116 and 170 there say that "?tags=a&tags=b" is supported: a list's repeated key
\* must be one that is read whole (not so at binder.go:499 and :449).  Line 181 says that the first
\* non-empty value wins: in a multipart form an empty part refuses the request (:405, :577), or is
\* an element of a list of strings (:368), which also has the form's texts after the query's (:419).
SaidAlike(i) ==
  /\ \A s \in {"query", "form"} : given[i][s] # <<>> => Tagged(i, s)
  /\ Beside(i) => ~Tagged(i, "form")
  /\ target[i].kind # "one" =>
       /\ \A s \in Sources : \A k \in DOMAIN given[i][s] : given[i][s][k] \notin {Gappy, Wide}
       /\ \A s \in {"query", "form"} : Len(given[i][s]) > 1 => ReadsAll(i)
  /\ content = "multipart" /\ ~Beside(i) =>
       /\ ~Tagged(i, "cookie")
       /\ given[i].form # <<>> => given[i].form[1] # Empty
       /\ target[i].kind = "strings" =>
            /\ given[i].query = <<>> \/ given[i].form = <<>>
            /\ \A s \in {"query", "form"} : \A k \in DOMAIN given[i][s] : given[i][s][k] # Empty

\* What a source says of a field: a list's texts, or the first.
SaidIn(i, s) ==
  IF s = "member" THEN given[i].member
  ELSE IF s \in {"query", "form"} /\ target[i].kind # "one" THEN Kept(given[i][s])
  ELSE First(given[i][s])

\* What a request says of a field: the first of its sources, in one order for all binders,
\* then the body, then the default.
Said(i) ==
  LET order == <<"path", "query", "form", "header", "cookie", "member">>
      speak == {k \in DOMAIN order : Tagged(i, order[k]) /\ SaidIn(i, order[k]) # <<>>}
      first == CHOOSE k \in speak : \A l \in speak : k <= l
      Means(texts, whole) == IF texts = <<Nought>> /\ whole THEN ZeroValue ELSE texts
      text  == IF speak = {} THEN ZeroValue
               ELSE Means(SaidIn(i, order[first]), target[i].kind = "one" \/ first = 6)
  IN  IF text = ZeroValue /\ speak \subseteq {6} /\ target[i].default # Empty
      THEN Means(<<target[i].default>>, target[i].kind = "one") ELSE text

\* A text of the field does not parse.
Unparsed(i) ==
  \E s \in Sources : \E k \in DOMAIN given[i][s] :
    /\ Tagged(i, s) /\ given[i][s][k] \in {Broken, Wide}
    /\ target[i].kind = "strings" => s = "member"

\* A flat struct, a multipart form and a struct with a Body field are filled from the same
\* sources in the same order, where SaidAlike does not except it: an accepted request's value is
\* what the first source says and keeps every rule of the struct, and a request is refused only
\* when its body or a text of a field does not parse, or when what it says breaks a rule.
BoundAsSaid ==
  /\ binder = "accepted" =>
       RulesKept /\ \A i \in Indices : SaidAlike(i) => value[i] = Said(i)
  /\ /\ binder = "refused"
     /\ \A i \in Indices : SaidAlike(i) /\ (HasBody => target[i].sibling < i)
     => \/ content = "malformed"
        \/ \E i \in Indices : Unparsed(i) \/ ~Valid(i, [j \in Indices |-> Said(j)])
=============================================================================
