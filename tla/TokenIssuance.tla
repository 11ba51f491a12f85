---------------------------- MODULE TokenIssuance ----------------------------
(***************************************************************************)
(* The life of a POST to the token routes of one issuer (token_handler.py),*)
(* from the moment the route captures its TokenContext to the response,    *)
(* with everything that can happen while it waits: the body is read, a     *)
(* delay runs, webhooks are posted, the audit row is inserted.             *)
(*                                                                         *)
(* All handlers are coroutines of one event loop, so what stands between   *)
(* two awaits is one action.  In particular a request is decided, and its  *)
(* token built and signed, in one step: from the read of issuer_modes to   *)
(* fire_webhooks there is no await.  Around the requests: configuration    *)
(* reloads, the chaos routes, key rotation, the clock, and the end of the  *)
(* process.                                                                *)
(*                                                                         *)
(* "log" is history: every token ever issued, whoever holds it now; any of *)
(* them may be presented again.                                            *)
(***************************************************************************)
EXTENDS KeyMaterial, TokenRules, FiniteSets, SequencesExt

CONSTANTS
  Issuer,       \* the issuer path of all requests
  Requests,     \* slots: requests in flight at one time
  Hooks,        \* webhook destinations
  Configs,      \* the configurations a reload may find
  Jobs,         \* what clients ask for
  Faults,       \* the faults the admin sets
  Start,        \* the time of the first state
  MaxTime,      \* bound: the clock
  MaxTokens,    \* bound: tokens issued
  MaxRotations, \* bound: rotations of the signing key
  MaxEpoch      \* bound: restarts of the process

FaultModes == {"error_500", "delay_ms", "invalid_token", "invalid_signature",
               "expired_token"}

\* skew is the skew_seconds of expired_token, any integer.
FaultType == [mode : FaultModes, skew : Int]

NoFault == [mode |-> "none", skew |-> 0]

ConfigType ==
  [mode : ModeValues, issuerMode : ModeValues \cup {"unset"}, ids : [Identities -> Records],
   apps : [Auds -> [app : BOOLEAN, grants : SUBSET Identities]], hooks : SUBSET Hooks]

JobType ==
  [route : {"token"} \cup BadRoutes, grant : Grants, id : Identities, secret : STRING,
   aud : Auds, ttl : Int, subject : Nat, omit : SUBSET (IdClaims \cup {"exp"}),
   set : Overrides, fail : BOOLEAN]

ASSUME IssuanceAssumption ==
  /\ Issuer \in Issuers
  /\ Configs \subseteq ConfigType
  /\ Jobs \subseteq JobType
  /\ Faults \subseteq FaultType
  /\ Start \in Nat \ {0}
  /\ {MaxTime, MaxTokens, MaxRotations, MaxEpoch} \subseteq Nat

VARIABLES
  config,  \* the store's dictionaries and the scalars of config.py
  fault,   \* _faults of the issuer, NoFault if it has no entry
  store,   \* the key store of the issuer
  minted,  \* key pairs generated so far
  epoch,   \* restarts so far
  now,     \* time.time()
  reqs,    \* the request in each slot
  log,     \* history: the tokens issued
  rows     \* the audit table, a set of rows

vars == <<config, fault, store, minted, epoch, now, reqs, log, rows>>

Phases == {"idle", "body", "delayed", "webhooks", "audit", "respond", "done", "lost"}

NoJob == [route |-> "token", grant |-> "password", id |-> "", secret |-> "", aud |-> "",
          ttl |-> 0, subject |-> 0, omit |-> {}, set |-> "nothing", fail |-> FALSE]

(***************************************************************************)
(* mode is ctx.mode, captured by the route.  tok is the position of the    *)
(* request's token in the log, waiting the webhooks that have not ended.   *)
(* modesSeen and faultsSeen are history: the modes and faults in force at  *)
(* some time between the arrival of the request and its decision.          *)
(***************************************************************************)
Idle == [phase |-> "idle", job |-> NoJob, mode |-> "lax", tok |-> 0, waiting |-> {},
         status |-> 0, modesSeen |-> {}, faultsSeen |-> {}]

ModesOf(c) == [mode |-> c.mode, issuerMode |-> c.issuerMode]

Undecided(r) == reqs[r].phase \in {"body", "delayed"}

Active(r) == reqs[r].phase \in {"body", "delayed", "webhooks", "audit", "respond"}

Init ==
  /\ config \in Configs
  /\ fault = NoFault
  /\ store = NewStore(Issuer, 0)
  /\ minted = SlotsPerStore
  /\ epoch = 0
  /\ now = Start
  /\ reqs = [r \in Requests |-> Idle]
  /\ log = <<>>
  /\ rows = {}

-----------------------------------------------------------------------------
(***************************************************************************)
(* Decision: what stands between a request and its token, in the order of  *)
(* the checks.  0 means there is nothing.                                  *)
(***************************************************************************)
Exchanging(job) == job.route = "token" /\ job.grant \in Exchanges

Subject(job) == log[job.subject]

\* Seeded fault: the expiry of the subject token is not looked at.
SubjectStatusAnyExp(job) ==
  IF job.subject = 0 \/ ~Verifies(Subject(job).sig, JwksKeys(store)) THEN 400 ELSE 0

SubjectStatus(job) ==
  IF job.subject = 0 \/ ~Verifies(Subject(job).sig, JwksKeys(store)) THEN 400
  ELSE IF Subject(job).claims.expKind \in {"text", "numeral"} THEN 500
  ELSE IF Subject(job).claims.expKind = "absent" THEN 400
  ELSE IF Subject(job).claims.exp < now THEN 400
  ELSE 0

Refusal(req) ==
  LET job == req.job
  IN IF job.route = "token" /\ job.grant = "other" THEN 400
     ELSE IF ~Authenticated(config, job) THEN 401
     ELSE IF Exchanging(job) /\ SubjectStatus(job) # 0 THEN SubjectStatus(job)
     ELSE IF ~AudienceAllowed(config, req.mode, job.id, job.aud) THEN 400
     ELSE 0

(***************************************************************************)
(* The claims built for a request: those of the provider with its          *)
(* extra_claims, what an exchange takes over, what an overriding service   *)
(* principal sets, less what the header omits.  The routes for bad tokens  *)
(* do none of the last three.                                              *)
(***************************************************************************)
Built(job) ==
  LET own   == OwnClaims(config, job.id, now + job.ttl)
      base  == IF Exchanging(job)
                 THEN [own EXCEPT !.id = Threaded(@, Subject(job).claims.id)]
                 ELSE own
      forge == job.grant = "client_credentials" /\ config.ids[job.id].overrides
  IN IF job.route # "token" THEN base
     ELSE Omitted(IF forge THEN Overridden(base, job.set) ELSE base, job.omit)

(***************************************************************************)
(* The token made of the claims: _corrupt_or_sign with the fault that is   *)
(* set at that moment, or the bad key or algorithm of the other routes.    *)
(***************************************************************************)
SlotFor(job) ==
  LET alg == config.ids[job.id].alg
  IN IF job.route = "wrong-sig" THEN AltSlot(alg)
     ELSE IF job.route # "token" \/ fault.mode = "invalid_token" THEN "none"
     ELSE IF fault.mode = "invalid_signature" THEN AltSlot(alg)
     ELSE SigningSlot(alg)

SigFor(slot) == IF slot = "none" THEN Unsigned(Issuer) ELSE SignedBy(store.keys[slot])

\* Seeded fault: the exchange grants sign without asking for the fault.
SignedClaimsOfOneGrant(job) ==
  IF job.route = "token" /\ fault.mode = "expired_token" /\ ~Exchanging(job)
    THEN [Built(job) EXCEPT !.exp = now + fault.skew, !.expKind = "number"]
    ELSE Built(job)

SignedClaims(job) ==
  IF job.route = "token" /\ fault.mode = "expired_token"
    THEN [Built(job) EXCEPT !.exp = now + fault.skew, !.expKind = "number"]
    ELSE Built(job)

(***************************************************************************)
(* The log entry of a token.  event holds the claims given to _emit_event; *)
(* by, parent, forged, extra and omit say how the token came about; listed *)
(* whether the strict rules allow the audience that was asked for.         *)
(***************************************************************************)
Entry(req) ==
  LET job  == req.job
      slot == SlotFor(job)
  IN [claims |-> SignedClaims(job), event |-> Built(job), slot |-> slot,
      sig |-> SigFor(slot), gen |-> store.seq, epoch |-> epoch, at |-> now,
      route |-> job.route, by |-> job.id,
      parent |-> IF Exchanging(job) THEN job.subject ELSE 0,
      forged |-> IF config.ids[job.id].overrides THEN job.set ELSE "nothing",
      extra |-> config.ids[job.id].extra, omit |-> job.omit,
      listed |-> AudienceAllowed([config EXCEPT !.issuerMode = "strict"], "strict",
                                 job.id, job.aud)]

-----------------------------------------------------------------------------
(***************************************************************************)
(* Steps of a request.                                                     *)
(***************************************************************************)
World == <<config, fault, store, minted, epoch, now>>

\* The slot's request ends with an HTTP status.
Reply(r, status) ==
  reqs' = [reqs EXCEPT ![r] = [Idle EXCEPT !.phase = "done", !.status = status]]

\* Bound: the requests in flight leave the log within MaxTokens.
Room == Len(log) + Cardinality({r \in Requests : Undecided(r)}) < MaxTokens

\* Seeded fault: the context of the slot's last request is used again.
SubmitKeepingMode(r, job) ==
  /\ ~Active(r)
  /\ Room
  /\ job.subject <= Len(log)
  /\ reqs' = [reqs EXCEPT ![r] =
       [Idle EXCEPT !.phase = "body", !.job = job, !.mode = reqs[r].mode,
                    !.modesSeen = {ModesOf(config)}, !.faultsSeen = {fault}]]
  /\ UNCHANGED <<World, log, rows>>

\* The route calls _ctx(): MODE is copied, the dictionaries are shared.
Submit(r, job) ==
  /\ ~Active(r)
  /\ Room
  /\ job.subject <= Len(log)
  /\ reqs' = [reqs EXCEPT ![r] =
       [Idle EXCEPT !.phase = "body", !.job = job, !.mode = config.mode,
                    !.modesSeen = {ModesOf(config)}, !.faultsSeen = {fault}]]
  /\ UNCHANGED <<World, log, rows>>

(***************************************************************************)
(* From the read of issuer_modes to the first await after it: the request  *)
(* is refused, or its token is signed and the webhooks start.              *)
(***************************************************************************)
Refuse(r) ==
  /\ Refusal(reqs[r]) # 0
  /\ Reply(r, Refusal(reqs[r]))
  /\ UNCHANGED <<World, log, rows>>

AfterSigning == IF config.hooks = {} THEN "audit" ELSE "webhooks"

Issue(r) ==
  /\ Refusal(reqs[r]) = 0
  /\ log' = Append(log, Entry(reqs[r]))
  /\ reqs' = [reqs EXCEPT ![r] =
       IF @.job.route = "token"
         THEN [@ EXCEPT !.phase = AfterSigning, !.tok = Len(log) + 1,
                        !.waiting = config.hooks]
         ELSE [Idle EXCEPT !.phase = "done", !.status = 200, !.tok = Len(log) + 1]]
  /\ UNCHANGED <<World, rows>>

Decide(r) == Refuse(r) \/ Issue(r)

(***************************************************************************)
(* The body is there and the delay of the test hooks is over: X-Test-Fail, *)
(* then apply_pre.  An error_500 fault may spare the request, by its       *)
(* probability; a delay_ms fault puts it to sleep.                         *)
(***************************************************************************)
ReadyAt(r, onToken) ==
  reqs[r].phase = "body" /\ (reqs[r].job.route = "token" <=> onToken)

FailBeforeDeciding(r) ==
  /\ ReadyAt(r, TRUE)
  /\ reqs[r].job.fail \/ fault.mode = "error_500"
  /\ Reply(r, 500)
  /\ UNCHANGED <<World, log, rows>>

Sleep(r) ==
  /\ ReadyAt(r, TRUE)
  /\ ~reqs[r].job.fail
  /\ fault.mode = "delay_ms"
  /\ reqs' = [reqs EXCEPT ![r].phase = "delayed"]
  /\ UNCHANGED <<World, log, rows>>

Proceed(r) ==
  /\ ReadyAt(r, TRUE)
  /\ ~reqs[r].job.fail
  /\ fault.mode # "delay_ms"
  /\ Decide(r)

\* The routes for bad tokens know neither test hooks nor faults.
ProceedBadRoute(r) == ReadyAt(r, FALSE) /\ Decide(r)

\* Seeded fault: the delay lasts as long as the fault.
WakeWhenCleared(r) ==
  reqs[r].phase = "delayed" /\ fault.mode # "delay_ms" /\ Decide(r)

Wake(r) == reqs[r].phase = "delayed" /\ Decide(r)

(***************************************************************************)
(* One webhook ends: delivered, or failed or timed out, which is swallowed.*)
(* When the last one has ended the request goes on to the audit row.  The  *)
(* timeout is one of each read and write: a destination that sends a byte  *)
(* now and then is waited for.                                             *)
(***************************************************************************)
HookEnds(r, h) ==
  /\ reqs[r].phase = "webhooks"
  /\ h \in reqs[r].waiting
  /\ reqs' = [reqs EXCEPT ![r].waiting = @ \ {h},
                          ![r].phase = IF reqs[r].waiting = {h} THEN "audit" ELSE @]
  /\ UNCHANGED <<World, log, rows>>

\* Seeded fault: whatever exp is goes into the row.
InsertAnyRow(r) ==
  /\ reqs[r].phase = "audit"
  /\ reqs' = [reqs EXCEPT ![r].phase = "respond"]
  /\ \/ rows' = rows \cup {[tok |-> reqs[r].tok, claims |-> log[reqs[r].tok].event]}
     \/ UNCHANGED rows
  /\ UNCHANGED <<World, log>>

(***************************************************************************)
(* The INSERT is committed, or fails, which is swallowed: int() refuses an *)
(* exp that is no number and reads one that is written as a text; the YAML *)
(* store never writes a row.  There is no timeout: neither a connection of *)
(* the pool nor the answer of the database need ever come.                 *)
(***************************************************************************)
InsertRow(r) ==
  /\ reqs[r].phase = "audit"
  /\ reqs' = [reqs EXCEPT ![r].phase = "respond"]
  /\ \/ /\ log[reqs[r].tok].event.expKind # "text"
        /\ rows' = rows \cup {[tok |-> reqs[r].tok, claims |-> log[reqs[r].tok].event]}
     \/ UNCHANGED rows
  /\ UNCHANGED <<World, log>>

\* The response computes expires_in from claims["exp"].
Respond(r) ==
  /\ reqs[r].phase = "respond"
  /\ reqs' = [reqs EXCEPT ![r] =
       [Idle EXCEPT !.phase = "done", !.tok = reqs[r].tok,
          !.status = IF log[reqs[r].tok].event.expKind = "number" THEN 200 ELSE 500]]
  /\ UNCHANGED <<World, log, rows>>

-----------------------------------------------------------------------------
(***************************************************************************)
(* Steps of the world around the requests.                                 *)
(***************************************************************************)

\* The requests, when configuration c and fault f come into force.
Seen(c, f) ==
  [r \in Requests |->
     IF Undecided(r)
       THEN [reqs[r] EXCEPT !.modesSeen = @ \cup {ModesOf(c)},
                            !.faultsSeen = @ \cup {f}]
       ELSE reqs[r]]

\* reload_config(): the dictionaries and the scalars change together; a
\* reload of which only a part gets through comes to another configuration.
Reload(c) ==
  /\ c # config
  /\ config' = c
  /\ reqs' = Seen(c, fault)
  /\ UNCHANGED <<fault, store, minted, epoch, now, log, rows>>

SetFault(f) ==
  /\ fault' = f
  /\ reqs' = Seen(config, f)
  /\ UNCHANGED <<config, store, minted, epoch, now, log, rows>>

ClearFault ==
  /\ fault # NoFault
  /\ fault' = NoFault
  /\ reqs' = Seen(config, NoFault)
  /\ UNCHANGED <<config, store, minted, epoch, now, log, rows>>

Rotate ==
  /\ store.seq <= MaxRotations
  /\ store' = Rotated(Issuer, store, minted)
  /\ minted' = minted + 1
  /\ UNCHANGED <<config, fault, epoch, now, reqs, log, rows>>

Tick ==
  /\ now < MaxTime
  /\ now' = now + 1
  /\ UNCHANGED <<config, fault, store, minted, epoch, reqs, log, rows>>

(***************************************************************************)
(* The process ends, whatever its requests were waiting for, and a new one *)
(* reads some configuration: faults and keys were in memory only.          *)
(***************************************************************************)
Restart ==
  /\ epoch < MaxEpoch
  /\ epoch' = epoch + 1
  /\ config' \in Configs
  /\ fault' = NoFault
  /\ store' = NewStore(Issuer, minted)
  /\ minted' = minted + SlotsPerStore
  /\ reqs' = [r \in Requests |->
                IF Active(r) THEN [Idle EXCEPT !.phase = "lost", !.tok = reqs[r].tok]
                             ELSE reqs[r]]
  /\ UNCHANGED <<now, log, rows>>

Next ==
  \/ \E r \in Requests :
       \/ \E job \in Jobs : Submit(r, job)
       \/ FailBeforeDeciding(r) \/ Sleep(r) \/ Proceed(r) \/ ProceedBadRoute(r)
       \/ Wake(r)
       \/ \E h \in Hooks : HookEnds(r, h)
       \/ InsertRow(r)
       \/ Respond(r)
  \/ \E c \in Configs : Reload(c)
  \/ \E f \in Faults : SetFault(f)
  \/ ClearFault
  \/ Rotate
  \/ Tick
  \/ Restart

Spec == Init /\ [][Next]_vars

(***************************************************************************)
(* What the server itself will do: wake a request whose delay is over, and *)
(* run a coroutine that is ready.  Nothing is assumed of what the code     *)
(* waits for without a timeout of its own: the client's body, the answers  *)
(* of webhooks, the database.                                              *)
(***************************************************************************)
Fairness ==
  \A r \in Requests : WF_vars(Wake(r)) /\ WF_vars(Respond(r))

FairSpec == Spec /\ Fairness

-----------------------------------------------------------------------------
SigningSlots == {"signing", "ecSigning"}

TokenSlots == SigningSlots \cup {"alt", "ecAlt", "none"}

Entries ==
  [claims : Claims, event : Claims, slot : TokenSlots, sig : [kid : Kids, mat : Nat],
   gen : Nat, epoch : Nat, at : Nat, route : {"token"} \cup BadRoutes,
   by : Identities, parent : Nat,
   forged : Overrides, extra : Claims, omit : SUBSET (IdClaims \cup {"exp"}),
   listed : BOOLEAN]

Statuses == {0, 200, 400, 401, 500}

ModePairs == [mode : ModeValues, issuerMode : ModeValues \cup {"unset"}]

FaultValues == FaultType \cup {NoFault}

RequestType ==
  [phase : Phases, job : JobType \cup {NoJob}, mode : ModeValues, tok : Nat,
   waiting : SUBSET Hooks, status : Statuses,
   modesSeen : SUBSET ModePairs, faultsSeen : SUBSET FaultValues]

Announcements == [tok : Nat, claims : Claims]

TypeOK ==
  /\ config \in ConfigType
  /\ fault \in FaultValues
  /\ store \in Stores
  /\ {minted, epoch, now} \subseteq Nat
  /\ reqs \in [Requests -> RequestType]
  /\ log \in Seq(Entries)
  /\ rows \subseteq Announcements

(***************************************************************************)
(* No chain of exchanges launders a token: whatever was presented to a     *)
(* token-exchange or jwt-bearer grant was, when it was accepted, signed by *)
(* this issuer in this process with a signing key it still published, and  *)
(* not expired.  Tokens of the bad routes and of the corrupting faults, and*)
(* RS256 tokens of before a rotation, never have children                  *)
(* (token_handler.py handle_token, tokens.py verify_token).                *)
(***************************************************************************)
NoLaundering ==
  \A n \in DOMAIN log : log[n].parent # 0 =>
     /\ log[n].parent < n
     /\ LET p == log[log[n].parent]
        IN /\ p.slot \in SigningSlots
           /\ p.epoch = log[n].epoch
           /\ p.slot = "signing" => p.gen = log[n].gen
           /\ p.claims.expKind = "number"
           /\ p.claims.exp >= log[n].at

(***************************************************************************)
(* A token that names a user as its subject, however many exchanges away,  *)
(* goes back to a token made for that user's own password, or by a service *)
(* principal that may override claims and asked for that name, or for an   *)
(* identity that was configured with that name in its extra_claims; and if *)
(* it is not that token itself, then that one was properly signed          *)
(* (token_handler.py handle_token, providers/*.py).                        *)
(***************************************************************************)
Vouches(m, u) ==
  /\ log[m].claims.id["sub"] = u
  /\ \/ log[m].parent = 0 /\ (log[m].by = u \/ log[m].forged = u)
     \/ log[m].extra.id["sub"] = u

SubjectsAreEarned ==
  \A n \in DOMAIN log, u \in Users : log[n].claims.id["sub"] = u =>
     \E m \in 1..n : Vouches(m, u) /\ (m = n \/ log[m].slot \in SigningSlots)

(***************************************************************************)
(* What /token hands out is what the code makes of its claims under a fault*)
(* that was set, or under none if there was none, at some time during the  *)
(* request: no fault outlives its removal, none is missed by a request that*)
(* lies within it, in any grant (chaos.py, _corrupt_or_sign).              *)
(***************************************************************************)
MadeUnder(f, e) ==
  /\ e.slot = "none" <=> f.mode = "invalid_token"
  /\ e.slot \in {"alt", "ecAlt"} <=> f.mode = "invalid_signature"
  /\ IF f.mode = "expired_token"
       THEN /\ e.claims.expKind = "number" /\ e.claims.exp = e.at + f.skew
            /\ e.claims.id = e.event.id
       ELSE e.claims = e.event

CorruptionMatchesFaults ==
  \A r \in Requests : Active(r) /\ reqs[r].tok # 0 =>
     \E f \in reqs[r].faultsSeen : MadeUnder(f, log[reqs[r].tok])

(***************************************************************************)
(* A request for an audience the strict rules do not allow gets a token    *)
(* only if the modes that let it pass were in force during the request: a  *)
(* mode of the issuer, or none and a mode of the server.  The two may come *)
(* from different configurations: the route copies MODE when the request   *)
(* comes, issuer_modes is read when it is decided (routers/oidc.py _ctx),  *)
(* so a reload in between can make lax of two that are strict.             *)
(***************************************************************************)
ModePartsWereInForce ==
  \A r \in Requests : Active(r) /\ reqs[r].tok # 0 =>
     \/ log[reqs[r].tok].listed
     \/ \E a, b \in reqs[r].modesSeen : EffectiveMode(a, b.mode) # "strict"

(***************************************************************************)
(* Two kinds of requests are answered 500 although their token has an audit*)
(* row (handle_token computes expires_in after the event is out): one that *)
(* asked for exp to be omitted, and one of an identity whose extra_claims  *)
(* have an exp that is a number written as a text, which the row takes and *)
(* the subtraction does not.  No other failure comes that late: not one of *)
(* an override, and not one of a fault, which spoils the token only.       *)
(***************************************************************************)
LateFailuresAreOfTwoKinds ==
  \A r \in Requests, row \in rows :
     reqs[r].phase = "done" /\ reqs[r].status = 500 /\ reqs[r].tok = row.tok
       => \/ "exp" \in log[row.tok].omit
          \/ log[row.tok].extra.expKind = "numeral"

(***************************************************************************)
(* handle_introspect, for a caller that is not itself a client app.  A     *)
(* token that it reports inactive stays so: no rotation, restart, reload or*)
(* fault brings an expired, foreign or badly signed token to life.         *)
(***************************************************************************)
IntrospectsActive(e) ==
  /\ Verifies(e.sig, JwksKeys(store))
  /\ e.claims.expKind = "number"
  /\ e.claims.exp >= now

DeadStaysDead ==
  [][\A n \in DOMAIN log : ~IntrospectsActive(log[n]) => ~IntrospectsActive(log[n])']_vars

(***************************************************************************)
(* A request whose body has been read is answered, or dies with the process*)
(* or waits for ever for a webhook or for the database, which the code does*)
(* not put an end to.  It hangs nowhere else: not in a delay, whatever     *)
(* becomes of the fault that delayed it, and not once the audit row is     *)
(* written or given up (webhooks.py fire_webhooks, chaos.py apply_pre).    *)
(***************************************************************************)
HangsOnlyOutside ==
  \A r \in Requests :
     reqs[r].phase \in {"delayed", "webhooks", "audit", "respond"}
       ~> \/ reqs[r].phase \in {"done", "lost"}
          \/ [](reqs[r].phase = "webhooks" /\ reqs[r].waiting # {})
          \/ [](reqs[r].phase = "audit")

=============================================================================
