----------------------------- MODULE IssuerKeys -----------------------------
(***************************************************************************)
(* The in-memory key stores of the flat routes (keys.py): one store per    *)
(* issuer path, created by the first request that names the issuer, kept   *)
(* in one dictionary until the process ends, with an RSA signing key that  *)
(* the admin route replaces.  Around it, what outlives a request: the      *)
(* tokens clients hold, and the key sets gateways fetched from the JWKS    *)
(* route and cache.                                                        *)
(*                                                                         *)
(* Every function of keys.py runs to its end on the event loop without an  *)
(* await, so each is one action.  A JWKS response is a message: it leaves  *)
(* the server in one step and replaces the gateway's cache in another, and *)
(* two responses may arrive in the wrong order or from before a restart.   *)
(***************************************************************************)
EXTENDS KeyMaterial, FiniteSets, SequencesExt

CONSTANTS
  MaxMinted,    \* bound: key pairs generated
  MaxTokens,    \* bound: tokens issued
  MaxReplies,   \* bound: JWKS responses on the way
  MaxEpoch      \* bound: process restarts

ASSUME BoundsAssumption ==
  /\ MaxMinted \in Nat
  /\ MaxTokens \in Nat
  /\ MaxReplies \in Nat
  /\ MaxEpoch \in Nat

VARIABLES
  stores,   \* _stores: the dictionary from issuer to key store
  order,    \* the insertion order of that dictionary
  minted,   \* number of key pairs generated so far, by any process
  epoch,    \* number of restarts so far
  tokens,   \* every token issued so far, by any process
  replies,  \* JWKS responses that have not arrived yet
  cached    \* per issuer, the last JWKS a gateway received

vars == <<stores, order, minted, epoch, tokens, replies, cached>>

(***************************************************************************)
(* A token remembers who signed it: issuer, slot, generation of the        *)
(* issuer's RSA key at that time, and process.                             *)
(***************************************************************************)
TokenSlots == {"signing", "ecSigning", "alt", "ecAlt", "none"}

Sigs == [kid : Kids, mat : Nat]

Tokens == [iss : Issuers, slot : TokenSlots, gen : Nat, epoch : Nat, sig : Sigs]

KeySets == [epoch : Nat, keys : SUBSET Keys]

TypeOK ==
  /\ DOMAIN stores \subseteq Issuers
  /\ \A i \in DOMAIN stores : stores[i] \in Stores
  /\ order \in Seq(Issuers)
  /\ minted \in Nat
  /\ epoch \in Nat
  /\ tokens \subseteq Tokens
  /\ replies \subseteq [iss : Issuers, set : KeySets]
  /\ cached \in [Issuers -> KeySets]

Init ==
  /\ stores = [i \in {} |-> 0]
  /\ order = <<>>
  /\ minted = 0
  /\ epoch = 0
  /\ tokens = {}
  /\ replies = {}
  /\ cached = [i \in Issuers |-> [epoch |-> 0, keys |-> {}]]

(***************************************************************************)
(* _get(issuer): the store of i, created if the dictionary has none.       *)
(***************************************************************************)
Known(i) == i \in DOMAIN stores

Got(i) == IF Known(i) THEN stores[i] ELSE NewStore(i, minted)

MintedByGet(i) == IF Known(i) THEN 0 ELSE SlotsPerStore

Room(n) == minted + n <= MaxMinted

\* The dictionary after store st of issuer i was looked up or created.
Put(i, st, used) ==
  /\ Room(used)
  /\ stores' = [j \in DOMAIN stores \cup {i} |-> IF j = i THEN st ELSE stores[j]]
  /\ order' = IF Known(i) THEN order ELSE Append(order, i)
  /\ minted' = minted + used

Get(i) == Put(i, Got(i), MintedByGet(i))

(***************************************************************************)
(* The published keys of one issuer, and of all issuers: the lists of the  *)
(* stores one behind the other in the order of the dictionary              *)
(* (all_jwks_keys, for /debug/decode).  Every list has PerStore keys, so   *)
(* the n-th key of the joined list is found by division.                   *)
(***************************************************************************)
JwksOf(i) == JwksKeys(stores[i])

PerStore == Len(JwksSlots)

\* Seeded fault: the newest store comes first.
NewestFirst == FlattenSeq([n \in DOMAIN order |-> JwksOf(order[Len(order) + 1 - n])])

AllJwksKeys ==
  [n \in 1..(PerStore * Len(order)) |->
     JwksOf(order[1 + ((n - 1) \div PerStore)])[1 + ((n - 1) % PerStore)]]

(***************************************************************************)
(* A token is signed: with the signing key of its algorithm by /token,     *)
(* with the unpublished key by /token/wrong-sig or a signature fault; or   *)
(* it is made without a private key, by /token/unsigned, /token/wrong-alg  *)
(* or an invalid_token fault.                                              *)
(***************************************************************************)
Issue(i, slot, sig) ==
  /\ Cardinality(tokens) < MaxTokens
  /\ tokens' = tokens \cup {[iss |-> i, slot |-> slot, gen |-> Got(i).seq,
                             epoch |-> epoch, sig |-> sig]}
  /\ Get(i)
  /\ UNCHANGED <<epoch, replies, cached>>

SignToken(i, alg) ==
  Issue(i, SigningSlot(alg), SignedBy(Got(i).keys[SigningSlot(alg)]))

SignTokenAlt(i, alg) ==
  Issue(i, AltSlot(alg), SignedBy(Got(i).keys[AltSlot(alg)]))

MakeUnsignedToken(i) == Issue(i, "none", Unsigned(i))

\* Seeded fault: the route answers with the keys of every issuer.
ServeJwksOfAll(i) ==
  /\ Cardinality(replies) < MaxReplies
  /\ replies' = replies \cup
       {[iss |-> i, set |-> [epoch |-> epoch, keys |-> ToSet(AllJwksKeys)]]}
  /\ Get(i)
  /\ UNCHANGED <<epoch, tokens, cached>>

(***************************************************************************)
(* GET /{issuer}/jwks leaves the server; its response reaches the gateway. *)
(***************************************************************************)
ServeJwks(i) ==
  /\ Cardinality(replies) < MaxReplies
  /\ replies' = replies \cup
       {[iss |-> i,
         set |-> [epoch |-> epoch, keys |-> ToSet(JwksKeys(Got(i)))]]}
  /\ Get(i)
  /\ UNCHANGED <<epoch, tokens, cached>>

ReceiveJwks(r) ==
  /\ replies' = replies \ {r}
  /\ cached' = [cached EXCEPT ![r.iss] = r.set]
  /\ UNCHANGED <<stores, order, minted, epoch, tokens>>

(***************************************************************************)
(* Introspection, userinfo and token exchange look the store up to verify, *)
(* which creates it too.                                                   *)
(***************************************************************************)
VerifyAtUnknownIssuer(i) ==
  /\ ~Known(i)
  /\ Get(i)
  /\ UNCHANGED <<epoch, tokens, replies, cached>>

(***************************************************************************)
(* POST /admin/rotate-jwks?issuer=i creates the store if need be, then     *)
(* replaces its signing key; without a parameter it rotates every store    *)
(* the dictionary has, in its order.                                       *)
(***************************************************************************)
RotateIssuer(i) ==
  LET used == MintedByGet(i)
  IN /\ Put(i, Rotated(i, Got(i), minted + used), used + 1)
     /\ UNCHANGED <<epoch, tokens, replies, cached>>

Position(i) == CHOOSE n \in DOMAIN order : order[n] = i

RotateAll ==
  /\ Room(Len(order))
  /\ stores' = [i \in DOMAIN stores |->
                  Rotated(i, stores[i], minted + Position(i) - 1)]
  /\ minted' = minted + Len(order)
  /\ UNCHANGED <<order, epoch, tokens, replies, cached>>

(***************************************************************************)
(* The process ends and a new one starts: the dictionary is module state   *)
(* and starts empty.                                                       *)
(***************************************************************************)
Restart ==
  /\ epoch < MaxEpoch
  /\ epoch' = epoch + 1
  /\ stores' = [i \in {} |-> 0]
  /\ order' = <<>>
  /\ UNCHANGED <<minted, tokens, replies, cached>>

Algs == {"RS256", "ES256"}

Next ==
  \/ \E i \in Issuers :
       \/ \E alg \in Algs : SignToken(i, alg) \/ SignTokenAlt(i, alg)
       \/ MakeUnsignedToken(i)
       \/ ServeJwks(i)
       \/ VerifyAtUnknownIssuer(i)
       \/ RotateIssuer(i)
  \/ \E r \in replies : ReceiveJwks(r)
  \/ RotateAll
  \/ Restart

Spec == Init /\ [][Next]_vars

-----------------------------------------------------------------------------
(***************************************************************************)
(* Verification at issuer i (verify_token against get_jwks_keys) of a token*)
(* that anybody may present, which creates the store if there is none.     *)
(***************************************************************************)
Accepts(i, t) == Verifies(t.sig, JwksKeys(Got(i)))

\* What a token must be for issuer i to stand by it now.
Current(i, t) ==
  /\ Known(i)
  /\ t.iss = i
  /\ t.epoch = epoch
  /\ \/ t.slot = "ecSigning"
     \/ t.slot = "signing" /\ t.gen = stores[i].seq

(***************************************************************************)
(* An issuer accepts a token exactly if it signed it itself, in this       *)
(* process, with its EC signing key or with the RSA signing key it has now:*)
(* never one of another issuer, of the unpublished keys, without a key, of *)
(* before a rotation (RS256) or of before a restart, whatever kid it       *)
(* carries; and no decoy or reused kid ever hides the right key            *)
(* (keys.py jwks_keys and rotate, tokens.py verify_token).                 *)
(***************************************************************************)
AcceptedIffCurrent ==
  \A t \in tokens, i \in Issuers : Accepts(i, t) <=> Current(i, t)

(***************************************************************************)
(* A gateway that holds any JWKS response of issuer i, however old or out  *)
(* of order, trusts no token of another issuer and no token made with an   *)
(* unpublished key or none.                                                *)
(***************************************************************************)
GatewayTrusts(i, t) ==
  \E k \in cached[i].keys : k.kid = t.sig.kid /\ k.mat = t.sig.mat

GatewayTrustsOnlyItsIssuer ==
  \A i \in Issuers, t \in tokens :
     GatewayTrusts(i, t) => t.iss = i /\ t.slot \in {"signing", "ecSigning"}

(***************************************************************************)
(* A gateway that refetches when it meets an unknown kid never turns down a*)
(* good token: as long as the cached set comes from this process, it has no*)
(* key with the token's kid, or only the key that signed it.  This is what *)
(* the generation number in the kid is for (keys.py rotate).               *)
(***************************************************************************)
GatewayMissOrCorrect ==
  \A i \in Issuers, t \in tokens :
     Current(i, t) /\ cached[i].epoch = epoch
        => \A k \in cached[i].keys : k.kid = t.sig.kid => k.mat = t.sig.mat

(***************************************************************************)
(* A token its issuer accepts stops being accepted only in a step that     *)
(* replaces the RSA signing key of that issuer and only if it is RS256, or *)
(* when the process ends: rotating one issuer does not touch the tokens of *)
(* another.                                                                *)
(***************************************************************************)
Revokes(t) ==
  \/ epoch' # epoch
  \/ /\ t.slot = "signing"
     /\ stores'[t.iss].keys["signing"] # stores[t.iss].keys["signing"]
     /\ RotateAll \/ RotateIssuer(t.iss)

OnlyOwnRotationRevokes ==
  [][\A t \in tokens :
        Accepts(t.iss, t) /\ ~Accepts(t.iss, t)' => Revokes(t)]_vars

(***************************************************************************)
(* /debug/decode, which joins the keys of all issuers, calls a token valid *)
(* exactly if its own issuer stands by it and no store that was created    *)
(* before that issuer's publishes a key with the same kid: a token of      *)
(* issuer x can be called invalid for the sake of a key of issuer x-ec,    *)
(* never valid for the sake of another issuer's (all_jwks_keys,            *)
(* verify_token).                                                          *)
(***************************************************************************)
Shadowed(t) ==
  \E n \in 1..(Position(t.iss) - 1) :
    \E k \in ToSet(JwksOf(order[n])) : k.kid = t.sig.kid

DebugDecodeIsExact ==
  \A t \in tokens :
    Verifies(t.sig, AllJwksKeys) <=> Current(t.iss, t) /\ ~Shadowed(t)
=============================================================================
