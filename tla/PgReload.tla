------------------------------ MODULE PgReload ------------------------------
(***************************************************************************)
(* How the in-memory tables of a Postgres identity store come to hold what *)
(* is in the database (store/pg_store.py, reload and _fetch_and_apply): at *)
(* startup, before the server accepts requests, and then on each POST      *)
(* /admin/reload-config.                                                   *)
(*                                                                         *)
(* A reload waits for four SELECTs, each with a snapshot of its own, and   *)
(* for the release of the connection; transactions commit and other reloads*)
(* run in between.  What it then does with the rows has no await.          *)
(*                                                                         *)
(* The handlers share the dictionaries of the store, but its scalars they  *)
(* know by the copies of config.py (MODE, ADMIN_TOKEN, CORS_ORIGINS).      *)
(* These are made when the module is imported, which is before the store   *)
(* has loaded anything, and by config.reload_config at the end of a POST,  *)
(* in the step that ends the store's reload.  The startup does not make    *)
(* them again.                                                             *)
(*                                                                         *)
(* The contents of a database table are named by the commit that last      *)
(* changed it.  A commit may write rows that do not validate; for the      *)
(* config row that is an issuer_modes value that is no object.             *)
(***************************************************************************)
EXTENDS Naturals, Sequences

CONSTANTS
  Reloads,      \* slots: reloads in progress at one time
  MaxCommits,   \* bound: commits
  MaxReloads    \* bound: reloads, with that of the startup

ASSUME ReloadAssumption == MaxCommits \in Nat \ {0} /\ MaxReloads \in Nat

Identities == {"users", "sps", "apps"}

Tables == {"config"} \cup Identities

\* The order of the SELECTs.
Selects == <<"config", "users", "sps", "apps">>

(***************************************************************************)
(* The memory has the config row in two parts: the scalars (auth_mode,     *)
(* admin_token, cors_allow_origins) and the dictionary of issuer modes.    *)
(***************************************************************************)
ConfigParts == {"scalars", "issuerModes"}

Parts == ConfigParts \cup Identities

TableOf(part) == IF part \in ConfigParts THEN "config" ELSE part

VARIABLES
  db,        \* the commit that last changed each table, 0 for no row
  commits,   \* commits so far
  invalid,   \* the contents that do not validate, as <<table, commit>>
  mem,       \* per part, the contents held (ver) and the reload they are from (by)
  copy,      \* the scalars of config.py, in the same way
  up,        \* TRUE once the server accepts requests
  reload,    \* the reload in each slot
  asks,      \* reloads begun so far; the first is that of the startup
  rejected,  \* history: the reloads that met contents that do not validate
  copied     \* history: whether a POST has ended, so that config.py copied the scalars

vars == <<db, commits, invalid, mem, copy, up, reload, asks, rejected, copied>>

Nothing == 0

NoVersions == [t \in Tables |-> Nothing]

\* "next" is the SELECT to come; "asked" is history, the tables at the start.
Idle == [phase |-> "idle", no |-> 0, next |-> 1,
         got |-> NoVersions, asked |-> NoVersions]

\* What the constructor of the store sets.
Defaults == [ver |-> Nothing, by |-> 0]

Init ==
  /\ db \in [Tables -> {Nothing, 1}]
  /\ \A t \in Identities : db[t] = 1
  /\ commits = 1
  /\ invalid = {}
  /\ mem = [p \in Parts |-> Defaults]
  /\ copy = Defaults
  /\ up = FALSE
  /\ reload = [r \in Reloads |-> Idle]
  /\ asks = 0
  /\ rejected = {}
  /\ copied = FALSE

-----------------------------------------------------------------------------
World == <<db, commits, invalid>>

Memory == <<mem, copy, up, copied>>

\* Somebody commits a transaction that changes the tables ts, the ones of
\* "bad" so that they do not validate.
Commit(ts, bad) ==
  /\ commits < MaxCommits
  /\ commits' = commits + 1
  /\ db' = [t \in Tables |-> IF t \in ts THEN commits + 1 ELSE db[t]]
  /\ invalid' = invalid \cup (bad \X {commits + 1})
  /\ UNCHANGED <<Memory, reload, asks, rejected>>

Fetching(r) == reload[r].phase = "fetching"

\* Seeded fault: the config row is only read once.
BeginReloadKnowingConfig(r) ==
  /\ ~Fetching(r)
  /\ asks < MaxReloads
  /\ asks' = asks + 1
  /\ reload' = [reload EXCEPT ![r] =
       IF mem["scalars"].ver = Nothing
         THEN [Idle EXCEPT !.phase = "fetching", !.no = asks + 1, !.asked = db]
         ELSE [Idle EXCEPT !.phase = "fetching", !.no = asks + 1, !.asked = db,
                           !.next = 2, !.got["config"] = mem["scalars"].ver]]
  /\ UNCHANGED <<World, Memory, rejected>>

\* A reload begins.
BeginReload(r) ==
  /\ ~Fetching(r)
  /\ asks < MaxReloads
  /\ asks' = asks + 1
  /\ reload' = [reload EXCEPT ![r] =
       [Idle EXCEPT !.phase = "fetching", !.no = asks + 1, !.asked = db]]
  /\ UNCHANGED <<World, Memory, rejected>>

\* The pool is made, and the store loads for the first time.
Startup(r) == asks = 0 /\ BeginReload(r)

AtStartup(r) == reload[r].no = 1

\* The admin asks for a reload.
Ask(r) == up /\ BeginReload(r)

\* The next SELECT is answered.
Fetch(r) ==
  /\ Fetching(r)
  /\ reload[r].next <= Len(Selects)
  /\ LET t == Selects[reload[r].next]
     IN reload' = [reload EXCEPT ![r].got[t] = db[t], ![r].next = @ + 1]
  /\ UNCHANGED <<World, Memory, asks, rejected>>

(***************************************************************************)
(* A reload ends, in whatever way: the server begins to accept requests, or*)
(* reload_config copies the scalars the store has and the admin is told    *)
(* "reloaded".                                                             *)
(***************************************************************************)
Finish(r) ==
  /\ reload' = [reload EXCEPT ![r] = Idle]
  /\ up' = TRUE
  /\ IF AtStartup(r) THEN UNCHANGED <<copy, copied>>
                     ELSE copy' = mem'["scalars"] /\ copied' = TRUE

\* A call of the database raises, which is logged: the store keeps its state.
QueryFails(r) ==
  /\ Fetching(r)
  /\ UNCHANGED <<World, mem, asks, rejected>>
  /\ Finish(r)

-----------------------------------------------------------------------------
(***************************************************************************)
(* The rows are there and the connection is released.                      *)
(***************************************************************************)
Fetched(r) == Fetching(r) /\ reload[r].next > Len(Selects)

Got(r, t) == reload[r].got[t]

Validates(r, t) == <<t, Got(r, t)>> \notin invalid

HasConfig(r) == Got(r, "config") # Nothing

\* The parts of the set ps get what reload r read.
Put(r, ps) ==
  mem' = [p \in Parts |-> IF p \in ps
                            THEN [ver |-> Got(r, TableOf(p)), by |-> reload[r].no]
                            ELSE mem[p]]

\* Everything validates: the scalars and issuer modes, if there is a config
\* row, and the three tables are replaced.
Apply(r) ==
  /\ Fetched(r)
  /\ \A t \in Tables : Validates(r, t)
  /\ Put(r, Identities \cup (IF HasConfig(r) THEN ConfigParts ELSE {}))
  /\ Finish(r)
  /\ UNCHANGED <<World, asks, rejected>>

\* Seeded fault: each table is replaced as soon as its rows are validated.
RejectLate(r) ==
  /\ Fetched(r)
  /\ ~Validates(r, "apps")
  /\ Put(r, {t \in Identities : Validates(r, t)})
  /\ Finish(r)
  /\ rejected' = rejected \cup {reload[r].no}
  /\ UNCHANGED <<World, asks>>

(***************************************************************************)
(* What is assigned before a row is found not to validate: the scalars, and*)
(* the issuer modes, to what was read or, if that is no object, cleared and*)
(* not filled again.                                                       *)
(***************************************************************************)
PutConfigOnly(r) ==
  IF ~HasConfig(r) THEN UNCHANGED mem
  ELSE IF Validates(r, "config") THEN Put(r, ConfigParts)
  ELSE mem' = [mem EXCEPT
                 !["scalars"] = [ver |-> Got(r, "config"), by |-> reload[r].no],
                 !["issuerModes"] = [ver |-> Nothing, by |-> reload[r].no]]

\* Seeded fault: the error is not caught in reload, so reload_config ends too.
RejectRaising(r) ==
  /\ Fetched(r)
  /\ ~AtStartup(r)
  /\ \E t \in Tables : ~Validates(r, t)
  /\ PutConfigOnly(r)
  /\ reload' = [reload EXCEPT ![r] = Idle]
  /\ copied' = TRUE
  /\ rejected' = rejected \cup {reload[r].no}
  /\ UNCHANGED <<World, copy, up, asks>>

\* Something does not validate, which raises in _fetch_and_apply and is logged.
Reject(r) ==
  /\ Fetched(r)
  /\ \E t \in Tables : ~Validates(r, t)
  /\ PutConfigOnly(r)
  /\ Finish(r)
  /\ rejected' = rejected \cup {reload[r].no}
  /\ UNCHANGED <<World, asks>>

Next ==
  \/ \E ts \in SUBSET Tables : \E bad \in SUBSET ts : ts # {} /\ Commit(ts, bad)
  \/ \E r \in Reloads :
       Startup(r) \/ Ask(r) \/ Fetch(r) \/ QueryFails(r) \/ Apply(r) \/ Reject(r)

Spec == Init /\ [][Next]_vars

-----------------------------------------------------------------------------
Versions == 0..commits

ReloadType ==
  [phase : {"idle", "fetching"}, no : 0..MaxReloads, next : 1..(Len(Selects) + 1),
   got : [Tables -> Nat], asked : [Tables -> Nat]]

HeldBy(n) == [ver : Versions, by : 0..n]

TypeOK ==
  /\ commits \in 1..MaxCommits
  /\ db \in [Tables -> Versions]
  /\ invalid \subseteq Tables \X Versions
  /\ mem \in [Parts -> HeldBy(asks)]
  /\ copy \in HeldBy(asks)
  /\ {up, copied} \subseteq BOOLEAN
  /\ reload \in [Reloads -> ReloadType]
  /\ asks \in 0..MaxReloads
  /\ rejected \subseteq 1..asks

(***************************************************************************)
(* The tables of identities are those of one reload, and of one whose rows *)
(* all validated: however reloads overlap, fail and are rejected, a user   *)
(* is never looked up beside the service principals of another reload, and *)
(* no invalid contents are served (_fetch_and_apply builds all of them     *)
(* before it replaces any).                                                *)
(***************************************************************************)
IdentitiesOfOneReload ==
  \A t \in Identities :
     /\ mem[t].by = mem["users"].by
     /\ mem[t].by \notin rejected
     /\ <<t, mem[t].ver>> \notin invalid

(***************************************************************************)
(* The scalars the handlers go by are the constructor's defaults until the *)
(* first POST has ended, whatever the startup has loaded; from then on they*)
(* are those of the store at every moment, however reloads overlap and     *)
(* however they end, also those of a reload that was rejected (config.py   *)
(* reload_config, main.py lifespan).                                       *)
(***************************************************************************)
ScalarsFollowTheStore ==
  copy = IF copied THEN mem["scalars"] ELSE Defaults

(***************************************************************************)
(* What a reload puts into a part of memory was in the database at some    *)
(* time between its beginning and that step, so it is exactly what is there*)
(* if nothing was committed meanwhile.  A reload that is rejected puts no  *)
(* identities there; but it does put the scalars and the issuer modes it   *)
(* read, although it should preserve the state, and it alone may leave the *)
(* issuer modes empty instead (_fetch_and_apply).                          *)
(***************************************************************************)
ReadDuring(r, p) ==
  LET t == TableOf(p) IN mem'[p].ver \in reload[r].asked[t]..db[t]

ReloadsAreRecent ==
  [][\A p \in Parts : mem'[p] # mem[p] =>
        \E r \in Reloads :
           /\ Fetching(r)
           /\ mem'[p].by = reload[r].no
           /\ \/ ReadDuring(r, p)
              \/ p = "issuerModes" /\ mem'[p].ver = Nothing /\ reload[r].no \in rejected'
           /\ p \in Identities => reload[r].no \notin rejected']_vars
=============================================================================
