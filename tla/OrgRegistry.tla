----------------------------- MODULE OrgRegistry -----------------------------
(***************************************************************************)
(* The orgs of hosted mode (org_registry.py, class OrgRegistry, and the    *)
(* admin routes for orgs): rows of a database that all pods share, and in  *)
(* each pod a dictionary of the orgs it serves.  A pod reads the rows when *)
(* it starts and from then on only learns of what it does itself.          *)
(*                                                                         *)
(* An org is created and deleted in several awaited statements, each       *)
(* committed on its own; other requests, other pods and crashes come in    *)
(* between.  A statement whose request has failed, or whose pod is gone,   *)
(* may still take effect: it is then an orphan.                            *)
(*                                                                         *)
(* Each creation draws a new API key, and its number stands for the org:   *)
(* two orgs that have had the same slug have different keys.  Slugs are    *)
(* those an admin may delete, so "sandbox" is not among them.              *)
(***************************************************************************)
EXTENDS Naturals

CONSTANTS
  Pods,
  Slugs,
  Ops,      \* slots: admin requests in progress at one time
  MaxKeys   \* bound: API keys drawn

ASSUME RegistryAssumption == MaxKeys \in Nat

VARIABLES
  orgs,     \* the key in the orgs row of each slug, 0 if there is no row
  conf,     \* the slugs that have a row in app_config
  cache,    \* _orgs of each pod: the key of each slug
  pod,      \* each pod: its phase, and the rows it has yet to load
  op,       \* the admin request in each slot
  drawn,    \* API keys drawn so far
  told,     \* history: the creations answered with a key
  deleted,  \* history: <<slug, key>> of the rows that were deleted
  closed,   \* history: the deletions answered "deleted"
  crossed   \* history: <<pod, key>>: the row of the key appeared while that pod
            \* was between statement and dictionary for the slug, or went
            \* while the pod was still creating the org

vars == <<orgs, conf, cache, pod, op, drawn, told, deleted, closed, crossed>>

NoKey == 0

NoRows == [s \in Slugs |-> NoKey]

(***************************************************************************)
(* A creation goes through "insert", "config" and "load", a deletion       *)
(* through "delete" and "pop".                                             *)
(***************************************************************************)
Phases == {"idle", "insert", "config", "load", "delete", "pop"}

Statements == {"insert", "config", "delete"}

IdleOp == [phase |-> "idle", pod |-> "nowhere", slug |-> "nothing", key |-> NoKey,
           orphan |-> FALSE]

Init ==
  /\ orgs = NoRows
  /\ conf = {}
  /\ cache = [q \in Pods |-> NoRows]
  /\ pod = [q \in Pods |-> [phase |-> "down", todo |-> NoRows]]
  /\ op = [o \in Ops |-> IdleOp]
  /\ drawn = 0
  /\ told = {}
  /\ deleted = {}
  /\ closed = {}
  /\ crossed = {}

-----------------------------------------------------------------------------
Up(q) == pod[q].phase = "up"

At(o, phase) == op[o].phase = phase

Begin(o, phase, q, s, k) ==
  op' = [op EXCEPT ![o] = [phase |-> phase, pod |-> q, slug |-> s, key |-> k,
                           orphan |-> FALSE]]

\* The statement of slot o is done; nobody waits for an orphan's.
Goes(o, phase) ==
  op' = [op EXCEPT ![o] = IF @.orphan THEN IdleOp ELSE [@ EXCEPT !.phase = phase]]

Ends(o) == op' = [op EXCEPT ![o] = IdleOp]

Entry(o) == [slug |-> op[o].slug, key |-> op[o].key, pod |-> op[o].pod]

(***************************************************************************)
(* The pods in which a request on slug s that goes on stands between its   *)
(* statement and the dictionary, which it is about to change; and those in *)
(* which that is the creation of key k.                                    *)
(***************************************************************************)
Between(s) == {op[x].pod : x \in {y \in Ops : /\ op[y].phase \in {"config", "load", "pop"}
                                             /\ op[y].slug = s /\ ~op[y].orphan}}

Creating(k) == {op[x].pod : x \in {y \in Ops : /\ op[y].phase \in {"config", "load"}
                                              /\ op[y].key = k /\ ~op[y].orphan}}

-----------------------------------------------------------------------------
(***************************************************************************)
(* POST /admin/orgs: admin_create_org and register.                        *)
(***************************************************************************)

\* The slug is not in this pod's dictionary; otherwise the answer is 409.
Create(o, q, s) ==
  /\ At(o, "idle") /\ Up(q)
  /\ cache[q][s] = NoKey
  /\ drawn < MaxKeys
  /\ drawn' = drawn + 1
  /\ Begin(o, "insert", q, s, drawn + 1)
  /\ UNCHANGED <<orgs, conf, cache, pod, told, deleted, closed, crossed>>

\* Seeded fault: the INSERT replaces the row of another org.
Upsert(o) ==
  /\ At(o, "insert")
  /\ orgs' = [orgs EXCEPT ![op[o].slug] = op[o].key]
  /\ crossed' = crossed \cup (Between(op[o].slug) \X {op[o].key})
  /\ Goes(o, "config")
  /\ UNCHANGED <<conf, cache, pod, drawn, told, deleted, closed>>

Insert(o) ==
  /\ At(o, "insert")
  /\ orgs[op[o].slug] = NoKey
  /\ orgs' = [orgs EXCEPT ![op[o].slug] = op[o].key]
  /\ crossed' = crossed \cup (Between(op[o].slug) \X {op[o].key})
  /\ Goes(o, "config")
  /\ UNCHANGED <<conf, cache, pod, drawn, told, deleted, closed>>

\* Seeded fault: an error of the INSERT is passed over.
IgnoreUnique(o) ==
  /\ At(o, "insert")
  /\ orgs[op[o].slug] # NoKey
  /\ Goes(o, "config")
  /\ UNCHANGED <<orgs, conf, cache, pod, drawn, told, deleted, closed, crossed>>

\* Another org has the slug, perhaps one this pod does not know: a 500.
InsertViolatesUnique(o) ==
  /\ At(o, "insert")
  /\ orgs[op[o].slug] # NoKey
  /\ Ends(o)
  /\ UNCHANGED <<orgs, conf, cache, pod, drawn, told, deleted, closed, crossed>>

\* ON CONFLICT DO NOTHING: a row that was left behind stays.
InsertConfig(o) ==
  /\ At(o, "config")
  /\ conf' = conf \cup {op[o].slug}
  /\ Goes(o, "load")
  /\ UNCHANGED <<orgs, cache, pod, drawn, told, deleted, closed, crossed>>

\* The identities are loaded, or that fails, which is swallowed; the org is
\* served from now on and the admin is told its key.
Load(o) ==
  /\ At(o, "load")
  /\ cache' = [cache EXCEPT ![op[o].pod][op[o].slug] = op[o].key]
  /\ told' = told \cup {Entry(o)}
  /\ Ends(o)
  /\ UNCHANGED <<orgs, conf, pod, drawn, deleted, closed, crossed>>

-----------------------------------------------------------------------------
(***************************************************************************)
(* DELETE /admin/orgs/{slug}: admin_delete_org and deregister.             *)
(***************************************************************************)
Delete(o, q, s) ==
  /\ At(o, "idle") /\ Up(q)
  /\ Begin(o, "delete", q, s, NoKey)
  /\ UNCHANGED <<orgs, conf, cache, pod, drawn, told, deleted, closed, crossed>>

DeleteRow(o) ==
  /\ At(o, "delete")
  /\ LET s == op[o].slug
         k == orgs[s]
     IN /\ k # NoKey
        /\ orgs' = [orgs EXCEPT ![s] = NoKey]
        /\ deleted' = deleted \cup {<<s, k>>}
        /\ crossed' = crossed \cup (Creating(k) \X {k})
        /\ op' = [op EXCEPT ![o] = IF @.orphan THEN IdleOp
                                   ELSE [@ EXCEPT !.phase = "pop", !.key = k]]
  /\ UNCHANGED <<conf, cache, pod, drawn, told, closed>>

\* "DELETE 0": a 404.
DeleteNothing(o) ==
  /\ At(o, "delete")
  /\ orgs[op[o].slug] = NoKey
  /\ Ends(o)
  /\ UNCHANGED <<orgs, conf, cache, pod, drawn, told, deleted, closed, crossed>>

\* Seeded fault: the dictionary is left as it is.
PopNothing(o) ==
  /\ At(o, "pop")
  /\ closed' = closed \cup {Entry(o)}
  /\ Ends(o)
  /\ UNCHANGED <<orgs, conf, cache, pod, drawn, told, deleted, crossed>>

\* Whatever org has the slug leaves the dictionary of this pod.
Pop(o) ==
  /\ At(o, "pop")
  /\ cache' = [cache EXCEPT ![op[o].pod][op[o].slug] = NoKey]
  /\ closed' = closed \cup {Entry(o)}
  /\ Ends(o)
  /\ UNCHANGED <<orgs, conf, pod, drawn, told, deleted, crossed>>

-----------------------------------------------------------------------------
(***************************************************************************)
(* Failures and the life of a pod.                                         *)
(***************************************************************************)

\* What becomes of a request that is given up; the statement it waits for
\* may be on its way.
GivenUp(request, sent) ==
  IF sent /\ request.phase \in Statements THEN [request EXCEPT !.orphan = TRUE]
                                          ELSE IdleOp

\* A call of the database raises: a 500.
Fail(o) ==
  /\ ~At(o, "idle") /\ ~op[o].orphan
  /\ \E sent \in BOOLEAN : op' = [op EXCEPT ![o] = GivenUp(@, sent)]
  /\ UNCHANGED <<orgs, conf, cache, pod, drawn, told, deleted, closed, crossed>>

\* An orphan does not take effect after all.
Vanish(o) ==
  /\ op[o].orphan
  /\ Ends(o)
  /\ UNCHANGED <<orgs, conf, cache, pod, drawn, told, deleted, closed, crossed>>

OpsIn(q) == {o \in Ops : op[o].pod = q /\ ~At(o, "idle") /\ ~op[o].orphan}

Crash(q) ==
  /\ pod[q].phase # "down"
  /\ pod' = [pod EXCEPT ![q] = [phase |-> "down", todo |-> NoRows]]
  /\ cache' = [cache EXCEPT ![q] = NoRows]
  /\ \E sent \in SUBSET OpsIn(q) :
       op' = [o \in Ops |-> IF o \in OpsIn(q) THEN GivenUp(op[o], o \in sent) ELSE op[o]]
  /\ crossed' = {x \in crossed : x[1] # q}
  /\ UNCHANGED <<orgs, conf, drawn, told, deleted, closed>>

\* startup(): the rows are selected, then loaded one after the other.
Start(q) ==
  /\ pod[q].phase = "down"
  /\ pod' = [pod EXCEPT ![q] = [phase |-> "loading", todo |-> orgs]]
  /\ UNCHANGED <<orgs, conf, cache, op, drawn, told, deleted, closed, crossed>>

LoadRow(q, s) ==
  /\ pod[q].phase = "loading"
  /\ pod[q].todo[s] # NoKey
  /\ cache' = [cache EXCEPT ![q][s] = pod[q].todo[s]]
  /\ pod' = [pod EXCEPT ![q].todo[s] = NoKey]
  /\ UNCHANGED <<orgs, conf, op, drawn, told, deleted, closed, crossed>>

\* Seeded fault: the pod serves while the orgs are loaded.
ServeEarly(q) ==
  /\ pod[q].phase = "loading"
  /\ pod' = [pod EXCEPT ![q].phase = "up"]
  /\ UNCHANGED <<orgs, conf, cache, op, drawn, told, deleted, closed, crossed>>

Serve(q) ==
  /\ pod[q].phase = "loading"
  /\ pod[q].todo = NoRows
  /\ pod' = [pod EXCEPT ![q].phase = "up"]
  /\ UNCHANGED <<orgs, conf, cache, op, drawn, told, deleted, closed, crossed>>

Next ==
  \/ \E o \in Ops, q \in Pods, s \in Slugs : Create(o, q, s) \/ Delete(o, q, s)
  \/ \E o \in Ops :
       \/ Insert(o) \/ InsertViolatesUnique(o) \/ InsertConfig(o) \/ Load(o)
       \/ DeleteRow(o) \/ DeleteNothing(o) \/ Pop(o)
       \/ Fail(o) \/ Vanish(o)
  \/ \E q \in Pods : Crash(q) \/ Start(q) \/ Serve(q) \/ \E s \in Slugs : LoadRow(q, s)

Spec == Init /\ [][Next]_vars

-----------------------------------------------------------------------------
Keys == 1..MaxKeys

Rows == [Slugs -> Keys \cup {NoKey}]

Entries == [slug : Slugs, key : Keys, pod : Pods]

ActiveOps == [phase : Phases \ {"idle"}, pod : Pods, slug : Slugs,
              key : Keys \cup {NoKey}, orphan : BOOLEAN]

TypeOK ==
  /\ orgs \in Rows
  /\ conf \subseteq Slugs
  /\ cache \in [Pods -> Rows]
  /\ pod \in [Pods -> [phase : {"down", "loading", "up"}, todo : Rows]]
  /\ op \in [Ops -> ActiveOps \cup {IdleOp}]
  /\ drawn \in 0..MaxKeys
  /\ told \subseteq Entries
  /\ deleted \subseteq Slugs \X (1..drawn)
  /\ closed \subseteq Entries
  /\ crossed \subseteq Pods \X Keys

(***************************************************************************)
(* An API key that was handed out stays good until somebody deletes the    *)
(* org: whatever other creations of the slug do, in this pod or another,   *)
(* and whichever of their statements fail, the row and the configuration   *)
(* row of that org are there (register).                                   *)
(***************************************************************************)
ToldKeysStayGood ==
  \A t \in told :
    <<t.slug, t.key>> \notin deleted => orgs[t.slug] = t.key /\ t.slug \in conf

(***************************************************************************)
(* The pod that handed out the key serves the org, after a restart too,    *)
(* until it is deleted.  The one exception: the pod was still creating or  *)
(* deleting an earlier org of that slug, and changed its dictionary after  *)
(* the new org was put into it.                                            *)
(***************************************************************************)
ToldKeysWork ==
  \A t \in told :
    /\ Up(t.pod)
    /\ <<t.slug, t.key>> \notin deleted
    /\ <<t.pod, t.key>> \notin crossed
    => cache[t.pod][t.slug] = t.key

(***************************************************************************)
(* A pod that has answered "deleted" does not serve that org again, unless *)
(* it was still creating it when the row was deleted (deregister).  Other  *)
(* pods may serve it until they restart.                                   *)
(***************************************************************************)
DeletedOrgsAreGone ==
  \A c \in closed :
    cache[c.pod][c.slug] = c.key => <<c.pod, c.key>> \in crossed

(***************************************************************************)
(* For the tokens of hosted mode the registry is no more than OrgLife: a   *)
(* pod serves only orgs whose rows were there, under their own slug, and   *)
(* no org comes back with a key of old (register, deregister, _load_all).  *)
(***************************************************************************)
Life(s) == INSTANCE OrgLife WITH
             Orgs   <- Keys,
             NoOrg  <- NoKey,
             row    <- orgs[s],
             served <- [q \in Pods |-> cache[q][s]],
             gone   <- {k \in Keys : <<s, k>> \in deleted}

ImplementsOrgLife ==
  /\ \A s \in Slugs : Life(s)!Init
  /\ [][\A s \in Slugs : Life(s)!Next \/ UNCHANGED Life(s)!vars]_vars
=============================================================================
