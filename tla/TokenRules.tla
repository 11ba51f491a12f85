----------------------------- MODULE TokenRules -----------------------------
(***************************************************************************)
(* What one token request is allowed to get, as pure operators: the mode   *)
(* and audience rules of tokens.py, the identity claims the providers put  *)
(* in, what an exchange takes over from the subject token, and the reasons *)
(* for which the handlers of token_handler.py turn a request down.         *)
(*                                                                         *)
(* Claims are reduced to "sub" and "tid", the two identity claims that tell*)
(* apart providers which set all of them and providers which set only some,*)
(* and exp.  An override can put any text into exp, extra_claims can put   *)
(* any value there, and the X-Omit-Claims header takes it out.             *)
(***************************************************************************)
EXTENDS Integers, Sequences

CONSTANTS
  Users,              \* names of users (password grant)
  ServicePrincipals,  \* client ids of service principals
  Tenants,            \* tenant ids
  Auds,               \* audiences a request can ask for
  Absent              \* the value of a claim that is not there

Identities == Users \cup ServicePrincipals

ASSUME IdentitiesAssumption ==
  /\ Users \cap ServicePrincipals = {}
  /\ Absent \notin Identities \cup Tenants

Modes == {"lax", "strict"}

\* A row of app_config may hold any text.
ModeValues == Modes \cup {"other"}

IdClaims == {"sub", "tid"}

(***************************************************************************)
(* Claims, all of a token or some to add.  What is in exp is a number, a   *)
(* text that int() reads ("numeral"), something that it refuses ("text"),  *)
(* or nothing ("absent").                                                  *)
(***************************************************************************)
ExpKinds == {"number", "numeral", "text", "absent"}

Claims ==
  [id : [IdClaims -> Identities \cup Tenants \cup {Absent}],
   exp : Int, expKind : ExpKinds]

(***************************************************************************)
(* A configuration: the global mode, the mode of this issuer ("unset" if   *)
(* issuer_modes has none), the identities by name with what the handlers   *)
(* read of them ("exists" is FALSE for a name that is not configured,      *)
(* "extra" are its extra_claims), and per audience the identities a client *)
(* app of that name grants ("app" is FALSE if no client app has the name). *)
(***************************************************************************)
Records ==
  [exists : BOOLEAN, secret : STRING, tid : Tenants, provider : STRING,
   alg : {"RS256", "ES256"}, auds : SUBSET Auds, overrides : BOOLEAN,
   extra : Claims]

\* The mode of the issuer, or the one given; or, if that is neither lax nor
\* strict, the global mode of this moment, whatever it is.
EffectiveMode(c, mode) ==
  LET m == IF c.issuerMode # "unset" THEN c.issuerMode ELSE mode
  IN IF m \in Modes THEN m ELSE c.mode

(***************************************************************************)
(* check_audience: nothing is checked in lax mode or for an overriding     *)
(* service principal; a client app's grants come before the identity's own *)
(* list.                                                                   *)
(***************************************************************************)
AudienceAllowed(c, mode, id, aud) ==
  \/ EffectiveMode(c, mode) # "strict"
  \/ id \in ServicePrincipals /\ c.ids[id].overrides
  \/ c.apps[aud].app /\ id \in c.apps[aud].grants
  \/ ~c.apps[aud].app /\ aud \in c.ids[id].auds

(***************************************************************************)
(* A request asks one of the four grants of /token, or another one, which  *)
(* there is not, or one of the three routes that make bad tokens on purpose*)
(* (they take any grant but "password" for that of a client).  "subject" is*)
(* the position of the presented token in the log of issued tokens, 0 for  *)
(* none; "omit" the names of X-Omit-Claims; "set" what the form overrides; *)
(* "fail" the X-Test-Fail header.                                          *)
(***************************************************************************)
Exchanges == {"token-exchange", "jwt-bearer"}

Grants == {"password", "client_credentials", "other"} \cup Exchanges

BadRoutes == {"wrong-sig", "unsigned", "wrong-alg"}

\* "exp" stands for a text that is no number: apply_overrides turns one that
\* is into a number, which is what another lifetime does.
Overrides == {"nothing", "exp"} \cup Users

Authenticated(c, job) ==
  /\ c.ids[job.id].exists
  /\ c.ids[job.id].secret = job.secret
  /\ job.grant = "password" <=> job.id \in Users

\* The claims "own", with those of "other" that are there in their place.
Threaded(own, other) ==
  [k \in IdClaims |-> IF other[k] # Absent THEN other[k] ELSE own[k]]

(***************************************************************************)
(* The claims a provider makes for an identity: all of them name the       *)
(* identity, and only the Entra ID shape names its tenant.  Last of all    *)
(* they are updated with the extra_claims of the identity, which may       *)
(* replace any of them, also the sub and the exp.                          *)
(***************************************************************************)
OwnId(c, id) ==
  [k \in IdClaims |-> IF k = "sub" THEN id
                      ELSE IF c.ids[id].provider = "entra_id" THEN c.ids[id].tid
                      ELSE Absent]

OwnClaims(c, id, exp) ==
  LET extra == c.ids[id].extra
  IN [id      |-> Threaded(OwnId(c, id), extra.id),
      exp     |-> IF extra.expKind # "absent" THEN extra.exp ELSE exp,
      expKind |-> IF extra.expKind # "absent" THEN extra.expKind ELSE "number"]

\* apply_overrides, for service principals with override_any_claim.
Overridden(claims, set) ==
  [claims EXCEPT
     !.id      = [k \in IdClaims |-> IF k = "sub" /\ set \in Users THEN set ELSE @[k]],
     !.expKind = IF set = "exp" THEN "text" ELSE @]

\* omit(): the named claims are taken out.
Omitted(claims, names) ==
  [claims EXCEPT
     !.id      = [k \in IdClaims |-> IF k \in names THEN Absent ELSE @[k]],
     !.expKind = IF "exp" \in names THEN "absent" ELSE @]
=============================================================================
