------------------------------ MODULE JwtAuth ------------------------------
(***************************************************************************)
(* A request before JWTAuth.Middleware, or ValidateToken: where its token  *)
(* is found, with which key it is verified, and whether its claims are     *)
(* enough.  Requests share the cache of parsed claims expressions.         *)
(***************************************************************************)
EXTENDS ClaimsExpr

\* A case is a configuration and a request:
\*   keys: what it can verify with; expression: the claims expression, <<>> for none
\*   needsExpiry, issuer: which registered claims are checked ("" for any issuer)
\*   sources: the token each source of TokenLookup holds, in order, or {} when it is empty or
\*     fails (a cookie that is not there)
\*   validateClaims, validateRole: the tokens' claims they accept
\* A token has the key it was signed with, an expiry ("future", "past" or "none"), an issuer
\* and its claims.
CONSTANT AuthCases

\* An expression is a sequence of tokens; a source holds one token or none.
ASSUME JwtAssumption ==
  \A c \in AuthCases :
    /\ Len(c.expression) \in Nat
    /\ Len(c.sources) \in Nat /\ DOMAIN c.sources = 1 .. Len(c.sources)
    /\ \A i \in DOMAIN c.sources :
         c.sources[i] = {} \/ \E t \in c.sources[i] : c.sources[i] = {t} /\ t.claims \in Claims

KeyOrder == <<"JwksUrl", "SigningSecret", "JwksFile", "RsaKey">>

VARIABLES
  auth,   \* the case
  phase,   \* what comes next: "extract", "parse", "expression", "claims", "role", "admit",
          \* or "done"
  token,  \* the token found: {} or one
  claimsExprCache, \* the inputs parsed so far
  response, \* 0, 401, 403, or 200 when the request went on
  stored  \* the claims the context holds for those behind: {} or one

jwtVars == <<auth, phase, token, claimsExprCache, response, stored>>

JwtStart(c) ==
  /\ auth = c /\ phase = "extract" /\ token = {} /\ claimsExprCache = {}
  /\ response = 0 /\ stored = {}

JwtInit == \E c \in AuthCases : JwtStart(c)

TokenClaims == (CHOOSE t \in token : TRUE).claims

Proceed(next) == phase' = next /\ UNCHANGED <<auth, token, response, stored>>

Refuse(status) ==
  /\ phase' = "done" /\ response' = status
  /\ UNCHANGED <<auth, token, stored>>

\* extractToken: the first that is not empty.
ExtractToken ==
  /\ phase = "extract"
  /\ LET holds == {i \in DOMAIN auth.sources : auth.sources[i] # {}}
     IN  IF holds = {} THEN Refuse(401)
         ELSE /\ token' = auth.sources[CHOOSE i \in holds : \A j \in holds : i <= j]
              /\ phase' = "parse" /\ UNCHANGED <<auth, response, stored>>
  /\ UNCHANGED claimsExprCache

\* resolveKeyFunc: one key, or none.
ResolvedKey ==
  LET configured == {i \in DOMAIN KeyOrder : KeyOrder[i] \in auth.keys}
  IN  {KeyOrder[i] : i \in {i \in configured : \A j \in configured : i <= j}}

\* jwt.Parse under parserOptions: an expiry that is there is always checked.
Verifies(t) ==
  /\ t.key \in ResolvedKey
  /\ t.expiry # "past" /\ (auth.needsExpiry => t.expiry = "future")
  /\ auth.issuer # "" => t.issuer = auth.issuer

Parse ==
  /\ phase = "parse"
  /\ IF \A t \in token : Verifies(t) THEN Proceed("expression") ELSE Refuse(401)
  /\ UNCHANGED claimsExprCache

\* validateJWTClaims: a parsed expression is kept, a failure is not.
CheckExpression ==
  /\ phase = "expression"
  /\ IF auth.expression = <<>> THEN Proceed("claims") /\ UNCHANGED claimsExprCache
     ELSE LET parsed == ParseExpression(auth.expression)
          IN  IF ~parsed.ok THEN Refuse(401) /\ UNCHANGED claimsExprCache
              ELSE /\ claimsExprCache' = claimsExprCache \cup {auth.expression}
                   /\ CASE parsed.expr[TokenClaims] = "error" -> Refuse(401)
                        [] parsed.expr[TokenClaims] = "false" -> Refuse(403)
                        [] parsed.expr[TokenClaims] = "true"  -> Proceed("claims")

\* ValidateClaims and ValidateRole.
CheckClaims ==
  /\ phase = "claims"
  /\ IF TokenClaims \in auth.validateClaims THEN Proceed("role") ELSE Refuse(403)
  /\ UNCHANGED claimsExprCache

CheckRole ==
  /\ phase = "role"
  /\ IF TokenClaims \in auth.validateRole THEN Proceed("admit") ELSE Refuse(403)
  /\ UNCHANGED claimsExprCache

\* Middleware stores the claims and goes on.
Admit ==
  /\ phase = "admit"
  /\ phase' = "done" /\ response' = 200 /\ stored' = {TokenClaims}
  /\ UNCHANGED <<auth, token, claimsExprCache>>

\* The same request again, after its expression was parsed.
Arrive ==
  /\ phase = "done" /\ claimsExprCache # {}
  /\ phase' = "extract" /\ token' = {} /\ response' = 0 /\ stored' = {}
  /\ UNCHANGED <<auth, claimsExprCache>>

JwtNext ==
  \/ ExtractToken \/ Parse \/ CheckExpression \/ CheckClaims \/ CheckRole \/ Admit \/ Arrive

JwtSpec == JwtInit /\ [][JwtNext]_jwtVars

-----------------------------------------------------------------------------
\* What the grammar makes of the expression over the token's claims; all readings agree, and
\* none is left for an input that is not an expression.
Says(result) ==
  IF auth.expression = <<>> THEN result = "true"
  ELSE \E e \in Readings(auth.expression) : e[TokenClaims] = result

\* A request goes on only with a token that verifies and claims that are enough in every
\* respect: the whole expression, read by its grammar, holds over them, and what ValidateClaims
\* and ValidateRole say.  It is forbidden only with a token that verifies, when some check says
\* that its claims are not enough, and unauthorized only without such a token or when the
\* expression cannot be read or evaluated.
EnoughToPass ==
  phase = "done" =>
    LET verified == token # {} /\ \A t \in token : Verifies(t)
        accepted == TokenClaims \in auth.validateClaims \cap auth.validateRole
    IN  /\ response = 200 => verified /\ Says("true") /\ accepted
        /\ response = 403 => verified /\ (Says("false") \/ ~accepted)
        /\ response = 401 => ~verified \/ ~(Says("true") \/ Says("false"))
        /\ verified => \A e, f \in Readings(auth.expression) : e = f
=============================================================================
