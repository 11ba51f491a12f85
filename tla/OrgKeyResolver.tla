--------------------------- MODULE OrgKeyResolver ---------------------------
(***************************************************************************)
(* The keys of one org and issuer in hosted mode (org_registry.py, class   *)
(* _OrgKeyResolver): a row of org_jwks that all pods share, a cache in each*)
(* pod, and the requests that look keys up.  The lock of the class is held *)
(* only around the accesses to the cache; between them a look-up waits for *)
(* the database, and other requests of the pod run.                        *)
(*                                                                         *)
(* Key sets are numbered in the order they are generated; 0 is no key set. *)
(* Loading a row gives back the key set that was stored.                   *)
(***************************************************************************)
EXTENDS Naturals

CONSTANTS
  Pods,
  Tasks,      \* requests in progress at one time
  PodOf,      \* the pod each of them runs in
  MaxMinted   \* bound: key sets generated

ASSUME ResolverAssumption ==
  /\ PodOf \in [Tasks -> Pods]
  /\ MaxMinted \in Nat

VARIABLES
  row,     \* key_data of the row
  cache,   \* _cache of each pod
  task,    \* what each request is doing
  minted,  \* key sets generated so far
  stored,  \* history: the key sets that have been in the row
  shown,   \* history: the key sets clients got tokens or JWKS responses of
  contested  \* history: whether two requests created keys at the same time

vars == <<row, cache, task, minted, stored, shown, contested>>

NoKeys == 0

\* "orphan" is a statement in the database whose request is gone.
Phases == {"idle", "selecting", "selected", "storing", "stored", "orphan"}

Idle == [phase |-> "idle", keys |-> NoKeys]

Init ==
  /\ row = NoKeys
  /\ cache = [p \in Pods |-> NoKeys]
  /\ task = [t \in Tasks |-> Idle]
  /\ minted = 0
  /\ stored = {}
  /\ shown = {}
  /\ contested = FALSE

-----------------------------------------------------------------------------
At(t, phase) == task[t].phase = phase

Goes(t, phase, keys) == task' = [task EXCEPT ![t] = [phase |-> phase, keys |-> keys]]

\* The request gets key set k: it signs a token or lists the public keys.
Answer(t, k) == Goes(t, "idle", NoKeys) /\ shown' = shown \cup {k}

CacheHit(t) ==
  /\ At(t, "idle")
  /\ cache[PodOf[t]] # NoKeys
  /\ Answer(t, cache[PodOf[t]])
  /\ UNCHANGED <<row, cache, minted, stored>>

CacheMiss(t) ==
  /\ At(t, "idle")
  /\ cache[PodOf[t]] = NoKeys
  /\ Goes(t, "selecting", NoKeys)
  /\ UNCHANGED <<row, cache, minted, stored, shown>>

\* Seeded fault: a SELECT that fails counts as no row.
SelectOrNothing(t) ==
  /\ At(t, "selecting")
  /\ Goes(t, "selected", row) \/ Goes(t, "selected", NoKeys)
  /\ UNCHANGED <<row, cache, minted, stored, shown>>

\* The database answers the SELECT.
Select(t) ==
  /\ At(t, "selecting")
  /\ Goes(t, "selected", row)
  /\ UNCHANGED <<row, cache, minted, stored, shown>>

CacheAndAnswer(t) ==
  /\ cache' = [cache EXCEPT ![PodOf[t]] = task[t].keys]
  /\ Answer(t, task[t].keys)
  /\ UNCHANGED <<row, minted, stored>>

\* Seeded fault: it is not asked whether there was a row.
LoadUnchecked(t) == At(t, "selected") /\ CacheAndAnswer(t)

\* There was a row.
Load(t) ==
  /\ At(t, "selected")
  /\ task[t].keys # NoKeys
  /\ CacheAndAnswer(t)

\* Seeded fault: the row is not looked at.
GenerateAlways(t) ==
  /\ At(t, "selected")
  /\ minted < MaxMinted
  /\ minted' = minted + 1
  /\ Goes(t, "storing", minted + 1)
  /\ UNCHANGED <<row, cache, stored, shown>>

\* There was none: a key set is generated and its upsert is sent.
Generate(t) ==
  /\ At(t, "selected")
  /\ task[t].keys = NoKeys
  /\ minted < MaxMinted
  /\ minted' = minted + 1
  /\ Goes(t, "storing", minted + 1)
  /\ UNCHANGED <<row, cache, stored, shown>>

\* INSERT ... ON CONFLICT DO UPDATE: the row is overwritten.
Upsert(t) ==
  /\ task[t].phase \in {"storing", "orphan"}
  /\ row' = task[t].keys
  /\ stored' = stored \cup {task[t].keys}
  /\ IF At(t, "orphan") THEN Goes(t, "idle", NoKeys)
                        ELSE Goes(t, "stored", task[t].keys)
  /\ UNCHANGED <<cache, minted, shown>>

\* Seeded fault: the key set is used before it is stored.
RememberUnstored(t) == task[t].phase \in {"storing", "stored"} /\ CacheAndAnswer(t)

Remember(t) == At(t, "stored") /\ CacheAndAnswer(t)

\* The requests of qs end early; what those of "sent" sent to the database
\* still takes effect.
Abandon(qs, sent) ==
  task' = [t \in Tasks |->
             IF t \notin qs THEN task[t]
             ELSE IF t \in sent THEN [task[t] EXCEPT !.phase = "orphan"]
             ELSE Idle]

Sending == {t \in Tasks : task[t].phase \in {"storing", "orphan"}}

\* A database call raises, and the request fails.
Fail(t) ==
  /\ task[t].phase \in {"selecting", "selected", "storing", "stored"}
  /\ \E sent \in SUBSET Sending : Abandon({t}, sent)
  /\ UNCHANGED <<row, cache, minted, stored, shown>>

\* The pod ends, with its cache and its requests, and is started again.
PodRestarts(p) ==
  /\ cache' = [cache EXCEPT ![p] = NoKeys]
  /\ \E sent \in SUBSET Sending : Abandon({t \in Tasks : PodOf[t] = p}, sent)
  /\ UNCHANGED <<row, minted, stored, shown>>

Step ==
  \/ \E t \in Tasks :
       \/ CacheHit(t) \/ CacheMiss(t)
       \/ Select(t) \/ Load(t)
       \/ Generate(t) \/ Upsert(t) \/ Remember(t)
       \/ Fail(t)
  \/ \E p \in Pods : PodRestarts(p)

(***************************************************************************)
(* First uses overlap if, while one request creates the keys, from its     *)
(* read of the empty table to its upsert, another one has read the table   *)
(* empty too.  Nothing in the code keeps that from happening; who warms an *)
(* issuer up with a single request before using it does.                   *)
(***************************************************************************)
Creates(t) ==
  \/ task[t].phase \in {"storing", "orphan"}
  \/ At(t, "selected") /\ task[t].keys = NoKeys

OneCreator == \A t, u \in Tasks : Creates(t) /\ Creates(u) => t = u

Next == Step /\ contested' = (contested \/ ~OneCreator')

Spec == Init /\ [][Next]_vars

-----------------------------------------------------------------------------
TypeOK ==
  /\ minted \in 0..MaxMinted
  /\ row \in 0..minted
  /\ cache \in [Pods -> 0..minted]
  /\ task \in [Tasks -> [phase : Phases, keys : 0..minted]]
  /\ stored \subseteq 1..minted
  /\ shown \subseteq 1..minted
  /\ contested \in BOOLEAN

(***************************************************************************)
(* A client never sees a key set that only lives in the memory of a pod:   *)
(* it was in the row before the answer, whatever raced, failed or          *)
(* restarted (_load_or_create persists before it returns).                 *)
(***************************************************************************)
ShownWasStored == shown \subseteq stored

(***************************************************************************)
(* Races end.  Once the row is there and every request in progress that    *)
(* has read or made a key set holds the one of the row, it stays that way: *)
(* the row never changes again, a pod that has no keys gets those of the   *)
(* row, and a pod that lost a race is cured by a restart.                  *)
(***************************************************************************)
Settled ==
  /\ row # NoKeys
  /\ \A t \in Tasks :
       task[t].phase \in {"selected", "storing", "stored", "orphan"}
         => task[t].keys = row

SettledStays ==
  [][Settled => /\ Settled'
                /\ row' = row
                /\ \A p \in Pods : cache'[p] \in {cache[p], NoKeys, row}]_vars

(***************************************************************************)
(* Until first uses overlap, the promise of hosted mode is kept.           *)
(***************************************************************************)
Promise == INSTANCE StableKeys WITH KeySets <- 1..MaxMinted

KeepsPromise == Promise!Spec

(***************************************************************************)
(* "keys are persisted in Postgres so JWKS URLs remain stable across pod   *)
(* restarts" (org_registry.py), for any order of requests.                 *)
(***************************************************************************)
JwksStable == \A k, l \in shown : k = l
=============================================================================
