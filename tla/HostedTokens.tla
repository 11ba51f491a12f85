---------------------------- MODULE HostedTokens ----------------------------
(***************************************************************************)
(* Tokens of hosted mode over the life of the orgs of one slug: the        *)
(* handlers of routers/hosted.py with the key look-up of the org context   *)
(* a request was resolved to (_OrgKeyResolver), composed with what the     *)
(* registry does (OrgLife).                                                *)
(*                                                                         *)
(* A request is tied to the OrgContext the dictionary of its pod has when  *)
(* it arrives, and keeps it while it waits for its body and for the        *)
(* database, whatever becomes of the org.  The org_id is the slug, so that *)
(* rows of org_jwks are found by slug: the context of a deleted org reads  *)
(* and writes the row of the next org of that name.  The row goes with the *)
(* org (ON DELETE CASCADE), and none can be written without one.           *)
(*                                                                         *)
(* There is one issuer.  Key sets are numbered in the order they are       *)
(* generated; a token verifies with a key set if that set signed it (see   *)
(* KeyMaterial).  A context is named by its pod and its org.  What follows *)
(* a signature (webhooks, the audit row, the response) does to the request *)
(* what it does in TokenIssuance, and is left out here.                    *)
(***************************************************************************)
EXTENDS Naturals, FiniteSets

CONSTANTS
  Pods, Orgs, NoOrg,  \* as in OrgLife
  Requests,           \* slots: requests in progress at one time
  MaxSets,            \* bound: key sets generated
  MaxTokens           \* bound: tokens issued

ASSUME HostedAssumption ==
  /\ NoOrg \notin Orgs
  /\ MaxSets \in Nat
  /\ MaxTokens \in Nat

VARIABLES
  row, served, gone,  \* as in OrgLife
  jwks,    \* the key set in the org_jwks row, 0 if there is none
  kept,    \* per pod and org, the key set in the _cache of that context
  req,     \* what each request is doing
  minted,  \* key sets generated so far
  tokens   \* every token issued so far

Life == INSTANCE OrgLife

orgVars == <<row, served, gone>>

vars == <<orgVars, jwks, kept, req, minted, tokens>>

NoSet == 0

(***************************************************************************)
(* A token: the org whose context signed it, the key set, the org from     *)
(* whose declarations its identity claims are (extra_claims among them),   *)
(* and whether it is late, that is, signed when its org was deleted        *)
(* already, or exchanged for such a token.                                 *)
(***************************************************************************)
Tokens == [by : Orgs, set : 1..MaxSets, claims : Orgs, late : BOOLEAN]

NoToken == [by |-> NoOrg, set |-> NoSet, claims |-> NoOrg, late |-> FALSE]

(***************************************************************************)
(* "issue" is a password or client_credentials grant; "look" any request   *)
(* that only looks at the keys: JWKS, introspection, an exchange that is   *)
(* refused afterwards, and /token/wrong-sig, whose tokens no published key *)
(* verifies.  An "orphan" is a statement whose request is gone.            *)
(***************************************************************************)
Kinds == {"issue", "exchange", "look"}

Phases == {"body", "selecting", "selected", "storing", "stored", "orphan"}

Idle == [phase |-> "idle", pod |-> "nowhere", org |-> NoOrg, kind |-> "look",
         subject |-> NoToken, set |-> NoSet]

Init ==
  /\ Life!Init
  /\ jwks = NoSet
  /\ kept = [q \in Pods |-> [k \in Orgs |-> NoSet]]
  /\ req = [r \in Requests |-> Idle]
  /\ minted = 0
  /\ tokens = {}

-----------------------------------------------------------------------------
(***************************************************************************)
(* A request arrives and is resolved: the slug is in the dictionary, and   *)
(* the API key is that of the org (_resolve).  Otherwise a 404 or a 401.   *)
(***************************************************************************)
At(r, phase) == req[r].phase = phase

Arrive(r, q) ==
  /\ At(r, "idle")
  /\ served[q] # NoOrg
  /\ req' = [req EXCEPT ![r] = [Idle EXCEPT !.phase = "body", !.pod = q,
                                            !.org = served[q]]]
  /\ UNCHANGED <<orgVars, jwks, kept, minted, tokens>>

-----------------------------------------------------------------------------
\* Seeded fault: an exchange takes any subject token.
SignedUnverified(x, k) ==
  IF x.kind = "look" THEN {}
  ELSE {[by |-> x.org, set |-> k,
         claims |-> IF x.kind = "issue" THEN x.org ELSE x.subject.claims,
         late |-> x.org \in gone \/ x.subject.late]}

(***************************************************************************)
(* The end of a request that has got key set k for job x, without another  *)
(* wait: an exchange verifies its subject token and signs, for the second  *)
(* look-up of the handler hits the cache of the context.                   *)
(***************************************************************************)
Signed(x, k) ==
  IF x.kind = "issue"
  THEN {[by |-> x.org, set |-> k, claims |-> x.org, late |-> x.org \in gone]}
  ELSE IF x.kind = "exchange" /\ x.subject.set = k
  THEN {[by |-> x.org, set |-> k, claims |-> x.subject.claims,
         late |-> x.org \in gone \/ x.subject.late]}
  ELSE {}

Finish(r, x, k) ==
  /\ req' = [req EXCEPT ![r] = Idle]
  /\ kept' = [kept EXCEPT ![x.pod][x.org] = k]
  /\ tokens' = tokens \cup Signed(x, k)

Issuing == {r \in Requests : req[r].kind # "look"}

Room == Cardinality(tokens) + Cardinality(Issuing) < MaxTokens

(***************************************************************************)
(* The body is there, and what the form asks for is allowed; the keys are  *)
(* looked up, in the cache of the context and then in the database.        *)
(***************************************************************************)
Jobs(r) ==
  {[req[r] EXCEPT !.kind = kind, !.subject = NoToken] : kind \in {"issue", "look"}}
    \cup {[req[r] EXCEPT !.kind = "exchange", !.subject = t] : t \in tokens}

Allowed(r) ==
  IF Room THEN Jobs(r) ELSE {x \in Jobs(r) : x.kind = "look"}

CacheHit(r, x) ==
  /\ kept[x.pod][x.org] # NoSet
  /\ Finish(r, x, kept[x.pod][x.org])
  /\ UNCHANGED <<orgVars, jwks, minted>>

CacheMiss(r, x) ==
  /\ kept[x.pod][x.org] = NoSet
  /\ req' = [req EXCEPT ![r] = [x EXCEPT !.phase = "selecting"]]
  /\ UNCHANGED <<orgVars, jwks, kept, minted, tokens>>

Decide(r) ==
  /\ At(r, "body")
  /\ \E x \in Allowed(r) : CacheHit(r, x) \/ CacheMiss(r, x)

Select(r) ==
  /\ At(r, "selecting")
  /\ req' = [req EXCEPT ![r].phase = "selected", ![r].set = jwks]
  /\ UNCHANGED <<orgVars, jwks, kept, minted, tokens>>

\* Seeded fault: it is not asked whether there was a row.
LoadUnchecked(r) ==
  /\ At(r, "selected")
  /\ Finish(r, req[r], req[r].set)
  /\ UNCHANGED <<orgVars, jwks, minted>>

Load(r) ==
  /\ At(r, "selected")
  /\ req[r].set # NoSet
  /\ Finish(r, req[r], req[r].set)
  /\ UNCHANGED <<orgVars, jwks, minted>>

Generate(r) ==
  /\ At(r, "selected")
  /\ req[r].set = NoSet
  /\ minted < MaxSets
  /\ minted' = minted + 1
  /\ req' = [req EXCEPT ![r].phase = "storing", ![r].set = minted + 1]
  /\ UNCHANGED <<orgVars, jwks, kept, tokens>>

\* The row is inserted or overwritten, if some org has the slug.
Upsert(r) ==
  /\ req[r].phase \in {"storing", "orphan"}
  /\ row # NoOrg
  /\ jwks' = req[r].set
  /\ req' = [req EXCEPT ![r] = IF At(r, "orphan") THEN Idle
                               ELSE [@ EXCEPT !.phase = "stored"]]
  /\ UNCHANGED <<orgVars, kept, minted, tokens>>

Remember(r) ==
  /\ At(r, "stored")
  /\ Finish(r, req[r], req[r].set)
  /\ UNCHANGED <<orgVars, jwks, minted>>

-----------------------------------------------------------------------------
(***************************************************************************)
(* A request is refused, or fails at a call of the database, for which an  *)
(* upsert without an org is one reason; or its pod ends.  Its upsert may   *)
(* be on its way.                                                          *)
(***************************************************************************)
GivenUp(x, sent) ==
  IF sent /\ x.phase = "storing" THEN [x EXCEPT !.phase = "orphan", !.kind = "look",
                                                !.subject = NoToken]
                                 ELSE Idle

Fail(r) ==
  /\ ~At(r, "idle")
  /\ \E sent \in BOOLEAN : req' = [req EXCEPT ![r] = GivenUp(@, sent)]
  /\ UNCHANGED <<orgVars, jwks, kept, minted, tokens>>

RequestsIn(q) == {r \in Requests : req[r].pod = q /\ req[r].phase # "orphan"}

Crash(q) ==
  /\ Life!Drop(q)
  /\ kept' = [kept EXCEPT ![q] = [k \in Orgs |-> NoSet]]
  /\ \E sent \in SUBSET RequestsIn(q) :
       req' = [r \in Requests |->
                 IF r \in RequestsIn(q) THEN GivenUp(req[r], r \in sent) ELSE req[r]]
  /\ UNCHANGED <<jwks, minted, tokens>>

\* Seeded fault: the key row of a deleted org stays.
DeleteRowOnly == Life!Disappear /\ UNCHANGED <<jwks, kept, req, minted, tokens>>

\* The row of the org goes, and with it its key row.
DeleteRow ==
  /\ Life!Disappear
  /\ jwks' = NoSet
  /\ UNCHANGED <<kept, req, minted, tokens>>

\* What the registry does without the keys.
Administer ==
  /\ \/ \E k \in Orgs : Life!Appear(k)
     \/ \E q \in Pods : Life!Drop(q) \/ \E k \in Orgs : Life!Take(q, k)
  /\ UNCHANGED <<jwks, kept, req, minted, tokens>>

Next ==
  \/ Administer
  \/ DeleteRow
  \/ \E q \in Pods : Crash(q)
  \/ \E r \in Requests :
       \/ \E q \in Pods : Arrive(r, q)
       \/ Decide(r)
       \/ Select(r) \/ Load(r)
       \/ Generate(r) \/ Upsert(r) \/ Remember(r)
       \/ Fail(r)

Spec == Init /\ [][Next]_vars

-----------------------------------------------------------------------------
ActiveRequests ==
  [phase : Phases, pod : Pods, org : Orgs, kind : Kinds,
   subject : Tokens \cup {NoToken}, set : 0..MaxSets]

TypeOK ==
  /\ row \in Orgs \cup {NoOrg}
  /\ served \in [Pods -> Orgs \cup {NoOrg}]
  /\ gone \subseteq Orgs
  /\ jwks \in 0..minted
  /\ kept \in [Pods -> [Orgs -> 0..minted]]
  /\ req \in [Requests -> ActiveRequests \cup {Idle}]
  /\ minted \in 0..MaxSets
  /\ tokens \subseteq Tokens

(***************************************************************************)
(* Tokens end with their org.  What a pod accepts for an org that is there *)
(* was signed for that org; a token of an earlier org of the slug is       *)
(* accepted only if it is late, from a request or a pod that did not know  *)
(* of the deletion (hosted_introspect, _load_or_create).                   *)
(***************************************************************************)
TokensEndWithTheirOrg ==
  \A q \in Pods, k \in Orgs \ gone, t \in tokens :
    kept[q][k] = t.set => t.by = k \/ t.late

(***************************************************************************)
(* No chain of exchanges takes an identity of one org into another, again  *)
(* unless one of its tokens is late (hosted_token, token exchange).        *)
(***************************************************************************)
IdentitiesStayInTheirOrg ==
  \A t \in tokens : t.claims = t.by \/ t.late
=============================================================================
