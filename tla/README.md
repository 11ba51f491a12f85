# mock-idp in TLA+

A verification project for mock-idp, a mock OpenID Connect provider (FastAPI,
one process, one event loop; optionally Postgres and several pods). The models
are read off `src/mock_idp/`; paths below are relative to that directory.

## 1. Inventory

| Component | State it keeps | Operations | Hard behaviour |
|---|---|---|---|
| Issuer key stores (`keys.py`) | `_stores`: issuer path -> six keys and a generation, in memory | lazy creation, signing/alt key per algorithm, JWKS list, rotation of one or all issuers | kids repeat after a restart and can meet across issuers; rotation replaces the RSA key only; JWKS responses are cached and reordered |
| Token issuance (`token_handler.py`, `tokens.py`, `routers/oidc.py`) | none of its own: a `TokenContext` per request, tokens held by clients | four grants, three routes for bad tokens, introspection, userinfo | awaits between the capture of the context, the decision, the announcement and the response; tokens come back as input of exchanges |
| Chaos faults (`chaos.py`) | `_faults`: issuer -> fault, in memory | set, clear, list; read twice per request | fault replaced while a request sleeps |
| Webhooks (`webhooks.py`) | none | post to every matching hook, swallow errors | timeouts hold the response; announced tokens whose response fails |
| Runtime configuration (`config.py`, `main.py`) | dictionaries shared by reference, scalars re-bound on reload, watcher task | import, lifespan, reload by admin route, file watcher | edits before the watcher listens; the watcher task dies |
| YAML store (`store/yaml_store.py`) | identity tables, mode, webhooks, issuer modes | load, lint, resolve secrets, validate, apply | the file changes between test, open and secrets; a bad file must leave the tables alone |
| Postgres store (`store/pg_store.py`) | the same tables, a pool, `token_events` | startup load, reload, insert event, page through the audit log | reads of several tables without a transaction; scalars copied by `config.py` before the store has loaded; ids given before commit |
| Identity tables (`_apply` of both stores, `tokens.py`) | users and service principals by name, client apps | merge of tenants, look-up, admission, roles | one name carried by several; grants looked up twice |
| Org registry (`org_registry.py`, `routers/admin.py`) | per pod a dictionary of orgs and their key resolvers; `orgs`, `app_config`, `org_jwks` rows | create, delete, look up, load or create keys | several pods and tasks share the rows; check-then-act across awaits; statements that outlive their requests |
| Hosted router (`routers/hosted.py`) | sliding windows per client address of the sandbox | discovery, JWKS, token, introspection, userinfo per org | limiter at its boundary; requests that outlive their org |
| Debug route (`routers/debug.py`) | none | decode | kids that meet across issuers |
| Claim shapes (`providers/`) | none | claims of users and service principals, `extra_claims` last | pure; `extra_claims` may replace `sub`, `tid` and `exp` |
| Rate limiter, metrics, static UI, migrations | | | library glue |

### How the parts meet

A request of the flat routes (`/{issuer}/token`) runs as a coroutine of the one
event loop. `routers/oidc.py:_ctx` first captures a `TokenContext`: the global
mode by value, the dictionaries of the store by reference. Then the body is
awaited, the test hooks may sleep, a chaos fault may sleep again, and only then
`handle_token` reads the issuer's mode, authenticates, checks the audience and
signs. What follows (webhooks, the audit row, the response) waits again. Between
any two of these, the admin routes and the file watcher may reload the
configuration, set or clear a fault, or rotate a key, and other requests run.
So **the event loop makes each stretch between two awaits atomic, and nothing
longer**: the models have one action per such stretch. What is outside the
process (the file system, the database, other pods) does not wait even for that:
`ConfigReload` therefore splits a reload at every access of a file, and the
Postgres modules at every statement.

Tokens leave the process and come back, as subject tokens of exchanges and as
arguments of introspection. Key sets leave it as JWKS responses and live on in
the caches of gateways. Both outlive a rotation and a restart.

In hosted mode several pods share Postgres. A pod keeps orgs and key sets in
memory; between the look into its cache and the write of the row stand awaits,
and it learns of what other pods do only when it starts. The `org_id` of an org
is its slug, so an org, its pods' contexts and its late statements meet the next
org of the same slug.

### What makes each part correct

| Component | Properties |
|---|---|
| Issuer key stores | an issuer accepts exactly what it signed with its present keys; no cached key set makes a gateway trust a foreign token or, in one process, distrust a good one; a rotation ends tokens of its issuer only; the debug route errs only where kids meet |
| Token issuance | exchanges neither launder a bad token nor invent a subject; a token once inactive stays so; a decision uses modes that were in force; a request whose token is recorded is answered, but for two named kinds; a request hangs in a webhook or in the database or not at all |
| Chaos faults | a spoiled token has a fault that was set during its request, and none is missed |
| Configuration, YAML store | the file is served in the end; what the validation refuses changes nothing and does not stop later reloads |
| Postgres store | the identity tables are of one reload, and what is loaded is recent; the scalars in force are those of the store, once a POST has copied them; paging to the end shows every event that was there once |
| Identity tables | a name leads to the last row that carries it, and to nothing older; the names of an identity are worth the same, for admission and for roles |
| Org registry | one key set per org and issuer; a key that was handed out works until the org is deleted; a deleted org is gone |
| Hosted router | a token ends with its org; no identity crosses into the next org of the slug; at most ten requests of an address in any sixty seconds on the routes that call the check, and nobody refused early |

## 2. Modules

| Module | What it is |
|---|---|
| `KeyMaterial` | the six keys of an issuer, their kids, rotation, the JWKS list, verification by the first key with the right kid |
| `IssuerKeys` | the dictionary of key stores, tokens, JWKS responses on the way, gateway caches, restarts |
| `TokenRules` | who is authenticated, which audience is allowed, which claims an identity has with its `extra_claims`, which an exchange takes over, what overriding and omitting do |
| `TokenIssuance` | the life of a request to the token routes of one issuer, among reloads, faults, rotations, the clock and restarts; composes `KeyMaterial` and `TokenRules` |
| `ConfigReload` | config file, secret file, boot, watcher, admin reload: how a pod with the YAML store comes to serve its file |
| `IdentityTables` | how declared identities become look-up tables, and what is granted under a name |
| `PgReload` | the startup load and the reloads of a Postgres store over four SELECTs, among commits and each other, and what `config.py` copies |
| `AuditLog` | writers that commit in any order and a client that pages through |
| `StableKeys` | abstract: clients of an org's issuer see one key set |
| `OrgKeyResolver` | the look-up of that key set over caches and the row, in several pods; implements `StableKeys` while first uses do not overlap |
| `OrgLife` | abstract: the orgs that have one slug one after the other, as hosted requests see them |
| `OrgRegistry` | creation, deletion, start and restart of pods, statement by statement; implements `OrgLife` for every slug |
| `HostedTokens` | tokens and key sets of the orgs of one slug; composes `OrgLife` with the hosted handlers and the key look-up |
| `SandboxLimiter` | the sliding window of the sandbox org |
| `MC...` | the instances for model checking |
| `...Proofs` | the theorems |

The composition of the hosted part is by way of the abstract module: `OrgRegistry`
shows that all it does to a slug is a behaviour of `OrgLife`, and `HostedTokens`
lets requests run over any behaviour of `OrgLife`. Its results therefore hold for
the registry as modelled, without the product of both state spaces.

### State and code

**KeyMaterial, IssuerKeys.** A key is a pair of a kid and its material, a number
drawn from a counter, so "the same key" is decided by the material and "the same
name" by the kid. `stores` is `keys._stores`, `order` the insertion order of that
dictionary, which `all_jwks_keys` depends on. Creation, rotation and the JWKS
list are functions without await and each is one action. Every route that looks
a store up also creates it (`Get`). Issuer names are free text in the code and
the kid is pasted from it, so the names are a parameter, with `EcName` giving
the name that the EC kids of an issuer are built from; the instance has issuers
`x` and `x-ec`, whose kids meet. `DebugDecodeIsExact` says exactly when
`/debug/decode` misses a good token: when an earlier store has a key of that kid.

**TokenIssuance.** `reqs[r].phase` says at which await a request stands: `body`
(the captured context waits for body and test delay), `delayed` (in a `delay_ms`
fault), `webhooks`, `audit`, `respond`. `Decide` is the code from the read of
`issuer_modes` to the first await after signing, `Refuse` its early exits in
their order (a grant type that there is not among them), `Issue` the rest. `log`
is history: all tokens ever issued, with what they were made of; any of them may
be presented again, which stands for clients that keep tokens. `modesSeen` and
`faultsSeen` are history too: what was in force while the request was undecided.
Authentication, audience rules and claims are those of the handler. A mode of
the database may be any text, so there is a third value (`other`), for which the
code falls back to the global mode of that moment. `OwnClaims` is a provider's
claims updated with the `extra_claims` of the identity, which come last and may
replace `sub`, `tid` and `exp`. What stands in `exp` is of four kinds
(`expKind`): a number; a text that `int()` reads; something it refuses; nothing.
`expires_in`, introspection, the check of a subject token and the audit column
each treat these differently.

**ConfigReload.** `reader` is whoever is in `_read_raw` and what follows (the
import of `config.py`, the watcher, the admin route), between `Look` (`exists()`),
`Open` and `Serve` or one of the four ways to fail. The file system moves between
any two of them. `OpenFails` (the file is gone), `ParseFails` (no YAML) and
`ShapeFails` (YAML with a list where `_lint_raw` asks for items, or a number where
`_resolve_secret` takes a text) raise what nobody catches (`Raise`), which ends
the import or the watcher's task; `Refuse` is the failed validation or missing
secret, logged, with the state kept. `Boot`, `Lifespan` and `StartWatching` are
the steps of `main.py`. `pending` stands for watchfiles, which is outside the
repository: it reports that something has changed since it reported last. `missed`
is history: changes nobody could hear of.

**IdentityTables.** `rows` is what the store was loaded from last, in its order;
`users` and `sps` are the tables the loops of `_apply` and `_fetch_and_apply`
leave behind, built row by row (`Filled`) with `Enter`, which enters a service
principal under its key and its `client_id`. `app` is the client app of the
requested audience, in the default store (see the deviations below). `Admitted` is
`check_audience`, `AudienceRoles` is `resolve_roles`; each makes a key of its own
for the grants (`AudienceKey`, `RolesKey`), as the two functions do.

**PgReload.** The rows of a database table are abstracted to the number of the
commit that last changed them, and `mem` has for each part of the memory the
number of what it holds and of the reload it is from. The beginning, each `Fetch`
and the end are one stretch between awaits each. There are two callers: `Startup`
is the load of `lifespan`, after which the server is `up`, and `Ask` is POST
`/admin/reload-config`. They share `Apply`, the code from the release of the
connection on, and `Reject`, the same stretch if it raises half way, after the
config row was put to use (`PutConfigOnly`). In that stretch lies what only a POST
does: `config.reload_config` copies the scalars of the store (`Finish`, `copy`).
`invalid` says which contents raise. `asked`, `rejected` and `copied` are history.

**AuditLog.** `writing` are the INSERTs that have an id of the sequence and are
not committed, `events` what others see. `AskPage` is one call of the audit route
with the cursor of the answer before; `FetchedEvents` is the query with its one
extra row. A query that fails is answered with no events and a null cursor
(`AskPageFails`). `owed` and `late` are history: what was visible when the client
began, and what became visible behind its back.

**OrgKeyResolver.** One org and one issuer. `row` is the row of `org_jwks`,
`cache` the dictionary of each pod, `task` where each look-up stands between its
awaits. A request that fails after it sent its upsert leaves an `orphan`: the
statement may still take effect. An answer is the moment a client gets a token or
a JWKS response. `contested` is history: whether two requests were ever creating
keys at the same time.

**OrgRegistry.** `orgs` and `conf` are the rows of `orgs` and `app_config`,
`cache` is `_orgs` of each pod. An org is its API key, and the key is a number, so
two orgs that had one slug differ. `op[o].phase` is the statement an admin request
waits for: `insert`, `config`, `load`, or `delete`, `pop`. `Start` is the SELECT
of `startup`, `LoadRow` one turn of its loop. As in `OrgKeyResolver`, a failed or
crashed request may leave a statement behind. `crossed` is history and names the
one thing that goes wrong: a request stood between its statement and its
dictionary when the row of another org of the slug came or went.

**HostedTokens.** `row`, `served` and `gone` are those of `OrgLife`. A request
keeps the org it was resolved to (`req[r].org`), whatever becomes of it. `jwks` is
the key row of the slug, `kept` the `_cache` of each context. A token has the org
that signed it, the key set, the org from whose declarations its identity claims
are, and whether it is `late`: signed by a request or pod that did not know that
its org was deleted, or exchanged for such a token.

**SandboxLimiter.** `hits` is `_sandbox_hits`, `accepted` history. The check has no
await and is one step; the clock may be set back, for it is `time.time()`. The
requests are those of the routes that call the check, which are all that resolve
the org by `_resolve`; `hosted_userinfo` and `token/malformed` do not, and neither
use up the limit nor are held by it.

## 3. Runs

| Run | Question | Bounds |
|---|---|---|
| `issuer_keys` | does an issuer accept exactly its current tokens, are gateways never misled, when does the debug route err? | issuers `x`, `x-ec`; 15 key pairs (two stores, a rotation or two, a restart with a new store); 1 token; 2 responses on the way; 1 restart |
| `token_chains` | can a chain of exchanges launder a token or invent a user; does a dead token come back? | 3 tokens (a chain of two exchanges), 8 kinds of request (password, override of the name and of `exp`, an identity with another's `sub` in its `extra_claims`, a bad route, two exchanges), clock 1..3 with lifetimes 1, 1 rotation, 1 restart |
| `token_requests` | do spoiled tokens match the faults, was the mode in force, which failure comes late, where can a request hang? | 1 request at a time, 2 tokens, 5 kinds of request, faults `delay_ms` and `expired_token` with a skew into the future, 3 configurations from lax to strict, 2 webhooks in the last; clock stands still |
| `config_reload` | does the pod serve its file in the end; what ends the watcher? | contents of every kind (two plain, one with a secret, one invalid, one that is no YAML, one misshapen, empty, missing), 2 secrets or none; no counters at all |
| `identity_tables` | where does a name lead after any reloads; are the names of an identity worth the same? | 3 names, 2 tenants (one lists the audience, one may override), 3 rows |
| `pg_reload` | do the tables fit together, is what is loaded recent, and which scalars are in force, when reloads overlap commits and each other? | 2 slots, 4 reloads with that of the startup, 1 commit after the first contents |
| `audit_log` | does paging to the end show every event once? | pages of 2, 5 ids |
| `org_keys` | is no unstored key set ever used, do races end, is there one key set while first uses do not overlap? | 2 pods with 2 requests each, 3 key sets |
| `org_keys_race` (violation) | is there one key set in any case? | the same |
| `org_registry` | do handed-out keys work, are deleted orgs gone, is it an `OrgLife`? | 2 pods, 1 slug, 3 admin requests at a time, 2 API keys |
| `hosted_tokens` | does a token end with its org; do identities stay in it? | 1 pod, 2 orgs of one slug, 2 requests at a time, 3 key sets, 2 tokens |
| `sandbox_limiter` | is the limit kept, and nobody refused early? | 2 addresses, window 3, limit 2, clock 0..6, 4 accepted requests per address |

Why these bounds are enough to mean something:

- Keys: one token suffices where the property speaks of one token and the
  adversary is the key store.
- Chains: three tokens are the shortest chain in which the middle token is both
  parent and child.
- Configuration: the three configurations of `token_requests` are the steps an
  operator takes to a strict issuer and from there to a strict server, so that a
  request can capture one half of each; two webhooks are needed for one that
  answers while the other waits. Its five kinds of request have an `exp` of each
  kind: a number, a text by override, a numeric text by `extra_claims`, none.
- Files: every kind of content can follow every other, arbitrarily often, since
  nothing is counted.
- Tables: three rows give a key that meets a `client_id` of another tenant and a
  third row before or after both.
- Reloads: one commit that falls between two SELECTs already gives the mix of
  old and new; of the four reloads the first is the startup's, and the last
  follows two that overlapped.
- Audit: five ids with pages of two give a full page, a page that is just
  filled, and a last page with one event.
- Org keys: the third key set is needed for a late upsert that overwrites a row
  others read; four requests in two pods give two that share a cache and two
  that share only the row.
- Orgs: two keys are two lives of one slug, and three requests are a creation, a
  deletion and the next creation crossing each other. Slugs do not interact, as
  every statement and look-up is by slug; one is enough.
- Hosted: two orgs are a life and the next one; the third key set is one that a
  request of the first life stores in the second.
- Limiter: the clock runs for two windows, and four accepted requests are two
  full windows of the limit.

Bounds are constants and appear in guards (`MaxMinted`, `MaxTokens`, `MaxReplies`,
`MaxEpoch`, `MaxTime`, `MaxRotations`, `MaxCommits`, `MaxReloads`, `MaxKeys`,
`MaxSets`, `MaxEvents`, `MaxAccepts`, `MaxRows`); `Room` counts the requests in
flight so that a bound never makes a decided request wait. Permutations are taken
as symmetries only in runs without liveness properties.

The type invariants of `ConfigReload`, `IdentityTables`, `AuditLog`, `PgReload`
and `OrgRegistry` are not among the properties of their runs; they are proved, as
conjuncts of the invariants of section 4. Those of the other modules are checked
and proved.

Every run has its own specification. `ConfigReload`, `AuditLog` and `IdentityTables`
prefix the names every module has (`CRSpec`, `ALInit`, `ITNext`, ...), since one
module of proofs extends all modules of the identity stores.

Deadlock is not checked where a run can use up its bounds and stop; that is the
end of the experiment and not of the server.

### Fairness

`token_requests` and `config_reload` use fairness.

- `TokenIssuance!FairSpec`: `Wake` (a timer) and `Respond` (a ready coroutine) are
  weakly fair: the event loop runs what is ready and every timer ends. Nothing
  else is fair, because nothing else is bound to happen. A client may never send
  its body. A webhook may never end: the timeout that `webhooks.py` gives to httpx
  is one of each connect, read and write, not of the delivery. A row may never be
  inserted: neither the acquire of a connection nor the `execute` has a timeout.
  So `HangsOnlyOutside` does not say that every request is answered, which is
  false. It says that one that is not has been at one of the last two places from
  some moment on, unless the process ended: a delay ends although the fault that
  made it is replaced or cleared, and after the row nothing waits.
- `ConfigReload!FairSpec`: `Read` is weakly fair because a reader runs without
  an await. `Notice` is strongly fair: the watcher is a task like others, and it
  gets its turn however many reloads are asked for by the admin route, which
  disable it again and again. The file system and the operator owe nothing.

### The violation

`org_keys_race` shows a line of a docstring that the code does not keep: JWKS are to
"remain stable across pod restarts", and two first look-ups that overlap generate
two key sets with the same kids, of which the last upsert decides the row and the
last return each cache. Details and quotations are in `PROJECT.json` under
`findings`. `org_keys` says what holds all the same: the promise until first uses
overlap, and that races end.

### Limits that the passing properties state

Several properties hold only with an exception, and the exception is part of the
property, so that it says exactly how far the code goes:

- The global mode is captured before the body is read, the issuer modes after
  it. A reload in between gives a pair that nobody configured;
  `ModePartsWereInForce` says that each half was in force during the request.
- `expires_in` is computed after the event is out, so a request with `exp`
  omitted is answered 500 after its token was recorded, and so is one of an
  identity whose `extra_claims` write `exp` as a numeric text, which the `int()` of
  the row reads and the subtraction does not; `LateFailuresAreOfTwoKinds` says
  nothing else is.
- A name on a token may also come from `extra_claims`, and then of an identity
  that has nothing to do with that user; `SubjectsAreEarned` names it beside the
  password and the override.
- A file that is gone when it is opened, that is no YAML, or that is YAML of a
  shape that raises before the validation, ends the watcher
  (`WatcherOutlivesBadConfigs` has the three in its premise). An edit between the
  import and the first listening is not heard of, and a secret file is not
  watched at all (`missed` in `SettledServesTheFile`).
- A name carried by several identities goes to the last one, and Postgres
  returns rows in any order; `TablesAreExact` says so, and
  `OrderMattersOnlyToSharedNames` (in `StoreProofs`) that a mere reordering touches
  no other name.
- An event that becomes visible behind the cursor is never shown, and a query
  that fails looks like the end (`late`, `failed` in `AuditLog`).
- A creation and a deletion of one slug in one pod can cross, and then a live org
  is dropped or a dead one kept until the next restart; `ToldKeysWork` and
  `DeletedOrgsAreGone` allow this for `crossed` pods only. Pods other than the one
  that deleted an org serve it until they restart.
- Tokens signed by a request or pod that does not know of a deletion may verify
  for the next org of the slug (`late` in `HostedTokens`).
- A kid of one issuer can hide a key of another from `/debug/decode`.
- A Postgres reload that meets rows that do not validate has replaced mode, admin
  token, CORS origins and issuer modes before it finds out, and has emptied the
  issuer modes if these are what does not validate. `IdentitiesOfOneReload` speaks
  of the identities only; `ReloadsAreRecent` of all, with the emptied modes as its
  exception; `ScalarsFollowTheStore` says that the replaced scalars come into force.
- The startup of a Postgres store does not bring its scalars into force: until the
  first POST `/admin/reload-config` has ended `ScalarsFollowTheStore` has the
  constructor's defaults.
- The sandbox limit is one of the routes that call the check.

### Where the code departs from its documents

Besides the violation above, these are lines of the repository that the code does
not keep. Most are exceptions in a passing property, named in the last column;
the others happen whenever the code is run, so that there is nothing to search.

| The repository says | The code does | Seen in |
|---|---|---|
| `store/__init__.py:95`: a database hiccup cannot block token issuance | the acquire and the INSERT are awaited without a timeout before the response | `HangsOnlyOutside` |
| `webhooks.py:1`, `:10`: fire and forget, issuance always succeeds whether or not a hook is reachable | the response waits for every delivery, whose timeout is one of each operation | `HangsOnlyOutside` |
| `store/__init__.py:93`: a row is written after every successful response | it is written before the response, which may then fail | `LateFailuresAreOfTwoKinds` |
| `store/__init__.py:85`, `pg_store.py:129`: a reload that fails preserves the state | scalars and issuer modes are assigned before the rows are validated | `ReloadsAreRecent` |
| `pg_store.py:34`, `config.py:8`: scalars are re-read after each reload | the load of `main.py:38` is not followed by it: the server starts with mode, admin token and origins of the constructor | `ScalarsFollowTheStore` |
| `yaml_store.py:239`, ADR-003 (Reload safety): with a bad file the server keeps the last good configuration | three kinds of bad file raise outside of the handlers; the state is kept, but the watcher's task ends, and later good files are not loaded | `WatcherOutlivesBadConfigs` |
| `main.py:27`: the watcher is started for the YAML store only | it is started whenever the file exists (`main.py:42`) | none; with Postgres it calls the same reload as the admin |
| `routers/hosted.py:3`: each request is rate limited in the sandbox | `hosted_userinfo` and `token/malformed` never call the check | none; the limiter's properties are about the routes that do |
| ADR-004, line 139: the key sets of two issuers are completely disjoint | the keys are, but not their names: the EC kids of `x` are the RSA kids of `x-ec` | `DebugDecodeIsExact` |
| `org_registry.py:279`: an org is deleted with all its data | `app_config` and identity rows stay (see below) | none |

Three deviations of behaviour need a word more:

- `extra_claims` are merged verbatim (architecture.md says so). That means that
  a service principal configured with a `sub` gets tokens whose subject is a user,
  and exchanges carry the name on.
- Deleting an org takes its `orgs` row and, by the foreign key, its key rows. The
  `app_config` row (`conf`) and the identity rows stay and become those of the next
  org of the slug, where `org_registry.py` says "and all its data".
- `check_audience` and `resolve_roles` read the client apps of the default store, on
  the routes of an org too; the client apps of the org have no effect.

## 4. Proofs

All theorems hold for every value of the constants that satisfies the named
assumptions. `NamesAssumption` says that the text `-ec` at the end makes another
name of a name, and different names of different ones; `IdentitiesAssumption`
that users and service principals have different names; `ContentsAssumption`
that a content of the config file is of one kind and none is called like the
model's marks for no file, no content or no secret. `BoundsAssumption`,
`IssuanceAssumption`, `ResolverAssumption`, `ReloadAssumption`, `HostedAssumption`,
`RegistryAssumption`, `LimiterAssumption`, `AuditAssumption` and `TablesAssumption`
give the other constants their types. TLC evaluates all of them on every run.

| Module | Theorems |
|---|---|
| `KeyMaterialProofs` | lemmas on the key stores: what a new and a rotated store contain, which keys are published, when a signature verifies |
| `IssuerKeysProofs` | `TypeCorrect`, `AcceptedIffCurrentAlways`, `GatewayTrustsOnlyItsIssuerAlways`, `GatewayMissOrCorrectAlways`, `OnlyOwnRotationRevokesAlways`, `DebugDecodeIsExactAlways` |
| `TokenIssuanceProofs` | `TypeCorrect`, `NoLaunderingAlways`, `SubjectsAreEarnedAlways`, `DeadStaysDeadAlways`, `CorruptionMatchesFaultsAlways`, `ModePartsWereInForceAlways`, `LateFailuresAreOfTwoKindsAlways` |
| `OrgKeyResolverProofs` | `TypeCorrect`, `ShownWasStoredAlways`, `SettledStaysAlways`, `KeepsPromiseAlways` |
| `OrgRegistryProofs` | `TypeCorrect`, `ToldKeysStayGoodAlways`, `ToldKeysWorkAlways`, `DeletedOrgsAreGoneAlways`, `ImplementsOrgLifeAlways` |
| `HostedTokensProofs` | `TypeCorrect`, `TokensEndWithTheirOrgAlways`, `IdentitiesStayInTheirOrgAlways` |
| `SandboxLimiterProofs` | `TypeCorrect`, `AtMostTheLimitAlways`, `RefusedExactlyWhenFullAlways` |
| `StoreProofs`, Postgres reload | `TypeCorrect`, `IdentitiesOfOneReloadAlways`, `ScalarsFollowTheStoreAlways`, `ReloadsAreRecentAlways` |
| `StoreProofs`, YAML reload | `SettledServesTheFileAlways`, `WatcherOutlivesBadConfigsAlways` |
| `StoreProofs`, audit log | `PagesAreInOrderAlways`, `OnlyLateEventsAreSkippedAlways`, `NullMeansAllAlways` |
| `StoreProofs`, tables | `TablesAreExactAlways`, `NamesAreWorthTheSameAlways`, `OrderMattersOnlyToSharedNamesAlways` |

**Key stores.** None of the properties is inductive: that a token is accepted
says nothing of how its key came to be in the store. The invariant (`IInv` of
`IssuerKeysProofs`) has a part for the dictionary, one for each token and one for
each key set that left the server: every key number is at most the counter and
stands in one slot of one issuer; a token or a published key whose number some
store holds came from that very slot, generation and process; a token of this
process has the key of its slot unless a rotation took it away; and a key set of
this process has, under a kid that is published now, the key that is published
now. Every operation on the dictionary is growth (`Grows`): new stores, new RSA
signing keys, all with numbers never seen. That growth preserves each part is
proved once, and an action then only has to account for what it adds.

The debug route asks where a key stands in the list of all stores. The stores
publish four keys each, so `AllJwksKeys` finds the n-th key of the joined list by
division, and `JoinedList` says which position of which store that is. With
`OrderInv` (the insertion order names every store once) a key that accepts a token
is its issuer's own, and the first with that kid exactly if no earlier store has
one.

**Issuance.** An entry of the log whose key number is in the present store is of
that slot, generation and process (`EntryInv`). So a subject token that verifies
was signed with a signing key the issuer still has, which gives `NoLaundering` for
the new entry. `SubjectsAreEarned` follows by one link of the chain: the name on a
new token is its identity's own, or put there by its override or its extra
claims, which vouches for it, or it is that of the subject token, which already
satisfies the property; and the log only grows. `DeadStaysDead` uses that
numbers of new keys are above everything in the log, that the clock does not go
back, and that entries never change.

A second invariant (`HInv`) is about requests and rows. While a request is
undecided, the fault and the modes that are in force are in its history; from
`Decide` on, its log entry was made under one of these faults and its audience
listed or let pass by two of these modes; and a request that failed with a token
has an entry whose `exp` is no number. A row has the claims of the announced
token, and its `exp` is no text that `int()` refuses. So what failed late and has
a row has no `exp`, which only the header takes out, or a numeric text, which only
extra claims put there. A reload or a new fault only adds to the histories; a step
of a request moves its own part of the invariant on (`StepHInv`).

**Org keys.** The invariant says that whatever a cache or a request holds was
stored, except a key set on its way to the row. `ShownWasStored` is part of it and
`SettledStays` follows action by action. For `KeepsPromise` there is a second one
(`SerialInv`), for as long as first uses have not overlapped: before the first
upsert nobody has been answered and nothing is cached; after it everything is
settled and all caches and answers have the key set of the row. That there was
one creator at a time is what makes that change happen once. Every step then
maps to a step of `StableKeys` or to a stutter, and once `contested` is set the
promise asks for nothing more.

**Org registry.** An admin request changes a row and then a dictionary, so the
invariant says what a request that stands between the two has done and still has
to know. Its key is new before the `INSERT` and placed, or deleted again,
afterwards (`KeyInv`, `UniqueInv`); once the slug is another org's, or its own org
is gone, that is recorded in `crossed` before it can touch the dictionary
(`CrossInv`). A starting pod loads rows that are there or were deleted meanwhile,
among them those of every key it told of (`StartInv`). `ToldKeysWork` and
`DeletedOrgsAreGone` are then preserved by each of the two steps of a request. For
the refinement, every action is a step of `OrgLife` for the slug it is about and a
stutter for all others; the proof is for an arbitrary slug.

**Sandbox limiter.** As long as the clock is not set back, the times of accepted
requests are in order, and what is less than a window old is still in `hits`
(`SteadyInv`). So the fresh hits are an end piece of the accepted requests. Its
length is compared with the limit by cardinalities of intervals: were a request
let through within a window of the `RateLimit`'th before it, the end piece would
have that many elements already. That at most `RateLimit` hits are kept needs no
clock.

**YAML reload.** A reader that has parsed the file has what is in it, and one
about to open it will find it, unless a change is pending or went unheard
(`YamlReadInv`). Hence what a finished reload leaves in memory is the file
(`YamlLoadedInv`). That bad contents do not end the watcher is an invariant under
the premise that the file is never gone, no YAML or misshapen: then no reader ever
has contents that raise (`WatcherAlive`).

**Audit log.** A page is the least ids of a set, told by counting the ids below.
The lemmas on that (`FirstIsBeginning`, `FirstOfFew`) say that it is a beginning of
the set, and all of it if the set is small enough, which is what the extra row is
for. With them the invariant holds: pages are in order and below the cursor, and
what is below the cursor was shown or came late. When the cursor is null nothing
was left beyond it.

**Identity tables.** What the loop over the rows does is a recursive function.
Its value has a closed form (`Led`): under each name the last row so far that
carries it. The closed form solves the equations of the loop, so these have a
solution; and the least number of rows for which a solution differs from it
leads to a contradiction. That makes induction over the rows an argument about
least numbers, which the prover can do. The rest follows from what a name leads
to: an identity that is found was declared in a row that carries the name.

**Postgres reloads.** Reloads in progress have different numbers, and none of
those numbers is rejected or stands beside an identity table yet (`NumbersInv`);
so the tables an `Apply` writes are of a single reload that was not rejected, and
nothing that ends later can reject it. Until the server is up there is one reload,
that of the startup, and none of its number afterwards (`StartInv`); so the
scalars are copied at the end of every reload but the first, in the very step that
may have changed them, which makes `ScalarsFollowTheStore` inductive. The numbers
of contents only grow, hence what a SELECT returned lies between what was there at
the request and what is there now (`ReadInv`), which, with the modes that a
rejected reload empties, is all that `ReloadsAreRecent` asks. That the tables are
of one *commit* is not claimed and not true: each SELECT has its own snapshot.

**Hosted tokens.** The heart is `OverInv`: once the org of a token that was signed
in time is gone, the key set of that token is out of reach of every org that is
there: it is not in the key row, in no context of a living org, and with no
request of one. When the row of the org is deleted this becomes true because the
key row goes with it and because no context but those of orgs that were or are
there exists (`OriginInv`). It stays true because a key set that is still to be
stored belongs to one request only and signed nothing (`FreshInv`), so a late
upsert of a dead org brings a key set that no token in time has. Identities stay
in their org because an exchange takes over the claims of a token that verified
with the key set of its own context (`SubjectInv`). Actions that only move
requests on or forget caches share one lemma (`MovesIInv`).

**Only model-checked.** `HangsOnlyOutside` and `WatchedEditsAreServed` are liveness
properties and out of the prover's reach; TLC checks them under the fairness
above. Every other property of a passing run is a theorem. The violation
(`JwksStable`) needs one behaviour.

## 5. Not modelled, and why

- Groups, token versions and most claims of `providers/`: pure functions. The
  identity claims that tell tokens apart, and what `extra_claims` make of these and
  of `exp`, are `TokenRules!OwnClaims`; other claims that `extra_claims` replace,
  `aud` and `iss` among them, are not in the model. Realm roles are the same for
  every audience and name.
- Userinfo, and the filter that introspection applies for callers which are
  client apps: they read no state beyond the token and its audience.
  `hosted_userinfo` asks for the org without an API key, so it answers 401 for
  every org but the sandbox.
- `routers/hosted.py` does not call `token_handler.py`: it writes out the
  password, client credentials and token exchange grants once more, without chaos
  faults and without jwt-bearer. `HostedTokens` is a model of that code as far as
  keys and orgs decide, and ends with the signature. What follows there (webhooks,
  the audit row, `expires_in`) stands in the same order as in `token_handler.py`,
  does the same to a request, and is modelled once, in `TokenIssuance`; so are the
  rules of a grant.
- The content of the rows a Postgres reload brings: which rows validate is the
  choice of a commit. How valid rows become tables is in `IdentityTables`.
- `rotate` of the hosted key resolver: no route calls it. `push_config`: it
  imports a function that `config.py` does not define, and always ends in a 422.
- The identity rows that a deleted org leaves behind: of these and the
  `app_config` row, which stay for the same reason, the model has the latter.
- Deletion of the org while its keys are looked up is in `HostedTokens`;
  `OrgKeyResolver` assumes the `orgs` row is there.
- slowapi, the Prometheus instrumentator, static pages, migrations: libraries
  and data.

## 6. Plan

1. The filter that introspection applies for callers which are client apps, and
   userinfo, as operators beside `TokenRules`, with what they say of a token
   compared with what issuing it decided.
2. `rotate` of the hosted key resolver, once a route calls it: the promise of
   `StableKeys` then needs generations.
3. A theorem that composes `OrgRegistry` and `HostedTokens` for one slug, which so
   far share `OrgLife` by argument: every behaviour of the first, seen for a slug,
   is one over which the second lets its requests run.
