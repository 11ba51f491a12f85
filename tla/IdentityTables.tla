--------------------------- MODULE IdentityTables ---------------------------
(***************************************************************************)
(* How a store turns what is declared into the tables the handlers look    *)
(* names up in (store/yaml_store.py, _apply; store/pg_store.py,            *)
(* _fetch_and_apply), and what an identity found under a name may have     *)
(* (tokens.py, check_audience and resolve_roles).                          *)
(*                                                                         *)
(* Tenants are merged into one table of users and one of service           *)
(* principals.  A service principal is entered under its key and under its *)
(* client_id, so a name may be carried by several: the one that comes last *)
(* has it.  The rows of a file come in its order, those of Postgres in any *)
(* order, for the SELECTs have no ORDER BY.                                *)
(*                                                                         *)
(* One audience is asked for.  Of the client app with that name only the   *)
(* names it grants roles to are kept, and of an identity what its tenant   *)
(* stands for.  The functions of tokens.py look the client app up in the   *)
(* tables of the default store (_cfg.CLIENT_APPS), on the routes of an org *)
(* too, so it need not come from the store of the identities.  How contents*)
(* get to a store, and when, is in ConfigReload and PgReload.              *)
(*                                                                         *)
(* Init, Next, Spec and the like are prefixed, so that a module can extend *)
(* this one and those of the other stores.                                 *)
(***************************************************************************)
EXTENDS Naturals, Sequences, SequencesExt

CONSTANTS
  Names,       \* keys of identities, and client_ids
  Tids,        \* tenants
  Listing,     \* the tenants whose identities list the audience as allowed
  Overriding,  \* the tenants whose service principals may override claims
  NoName,      \* the client_id of a row without one
  Nobody,      \* what a table has under a name nobody carries
  NoApp,       \* no client app has the name of the audience
  MaxRows      \* bound: rows of one store

ASSUME TablesAssumption ==
  /\ NoName \notin Names
  /\ Listing \subseteq Tids /\ Overriding \subseteq Tids
  /\ MaxRows \in Nat

VARIABLES
  rows,   \* the rows the store was loaded from last, in their order
  users,  \* its table of users
  sps,    \* its table of service principals
  app     \* the client app of the default store: the names it grants roles to,
          \* or NoApp

itVars == <<rows, users, sps, app>>

Rows == [kind : {"user"}, tid : Tids, name : Names, client : {NoName}]
          \cup [kind : {"sp"}, tid : Tids, name : Names, client : Names \cup {NoName}]

Apps == (SUBSET Names) \cup {NoApp}

\* The client_id that tokens of a service principal name.
Canonical(r) == IF r.client # NoName THEN r.client ELSE r.name

Carried(r) == {r.name, Canonical(r)}

\* What PRIMARY KEY (org_id, name, tid), or a YAML mapping, keeps apart.
SameKey(r, x) == r.kind = x.kind /\ r.tid = x.tid /\ r.name = x.name

-----------------------------------------------------------------------------
Empty == [n \in Names |-> Nobody]

\* A row is entered under its names.
Enter(table, r) == [n \in Names |-> IF n \in Carried(r) THEN r ELSE table[n]]

\* The table that row after row of that kind makes of table start.
Filled(start, s, kind) ==
  LET filled[k \in 0..Len(s)] ==
        IF k = 0 THEN start
        ELSE IF s[k].kind = kind THEN Enter(filled[k - 1], s[k]) ELSE filled[k - 1]
  IN  filled[Len(s)]

\* Seeded fault: the table is not cleared before it is updated.
TableUpdated(old, s, kind) == Filled(old, s, kind)

\* The table is built from nothing, and takes the place of the old one.
Table(old, s, kind) == Filled(Empty, s, kind)

ITInit ==
  /\ rows = <<>>
  /\ users = Empty
  /\ sps = Empty
  /\ app = NoApp

\* The store is loaded from rows s.
Load(s) ==
  /\ rows' = s
  /\ users' = Table(users, s, "user")
  /\ sps' = Table(sps, s, "sp")

\* A row was added at the end.
Added ==
  /\ Len(rows) < MaxRows
  /\ \E r \in Rows :
       /\ \A i \in DOMAIN rows : ~SameKey(r, rows[i])
       /\ Load(Append(rows, r))
  /\ UNCHANGED app

\* A row was taken out.
Removed ==
  /\ \E i \in DOMAIN rows : Load(RemoveAt(rows, i))
  /\ UNCHANGED app

\* The rows come in another order.
Reordered ==
  /\ \E i, j \in DOMAIN rows :
       i < j /\ Load([rows EXCEPT ![i] = rows[j], ![j] = rows[i]])
  /\ UNCHANGED app

\* The client app of the default store was changed.
AppLoaded ==
  /\ app' \in Apps
  /\ UNCHANGED <<rows, users, sps>>

ITNext == Added \/ Removed \/ Reordered \/ AppLoaded

ITSpec == ITInit /\ [][ITNext]_itVars

-----------------------------------------------------------------------------
(***************************************************************************)
(* What identity r, found under name n, may have of client app a.  The two *)
(* functions of tokens.py look its grants up each by a key of its own      *)
(* making; n is the name the client presented.                             *)
(***************************************************************************)
AudienceKey(r, n) == IF r.kind = "sp" THEN r.name ELSE n

\* check_audience in strict mode.
Admitted(r, n, a) ==
  \/ r.kind = "sp" /\ r.tid \in Overriding
  \/ IF a = NoApp THEN r.tid \in Listing ELSE AudienceKey(r, n) \in a

\* Seeded fault: the name that was presented decides.
RolesKeyPresented(r, n) == n

RolesKey(r, n) == IF r.kind = "sp" THEN r.name ELSE n

\* resolve_roles without the realm roles, which are there for any audience.
AudienceRoles(r, n, a) ==
  IF a = NoApp THEN {"own"} ELSE IF RolesKey(r, n) \in a THEN {"granted"} ELSE {}

\* Who is found under which name.
Found == {<<users[n], n>> : n \in {x \in Names : users[x] # Nobody}}
           \cup {<<sps[n], n>> : n \in {x \in Names : sps[x] # Nobody}}

-----------------------------------------------------------------------------
ITTypeOK ==
  /\ rows \in Seq(Rows)
  /\ Len(rows) <= MaxRows
  /\ users \in [Names -> Rows \cup {Nobody}]
  /\ sps \in [Names -> Rows \cup {Nobody}]
  /\ app \in Apps

(***************************************************************************)
(* After any sequence of reloads a name leads to the last row that carries *)
(* it, and to nobody if no row does: nothing of earlier contents is left,  *)
(* and key and client_id count alike.  So rows that come in another order  *)
(* change no name that only one row carries (_apply, _fetch_and_apply).    *)
(***************************************************************************)
Carriers(kind, n) == {i \in DOMAIN rows : rows[i].kind = kind /\ n \in Carried(rows[i])}

LastCarrier(kind, n) ==
  IF Carriers(kind, n) = {} THEN Nobody
  ELSE rows[CHOOSE i \in Carriers(kind, n) : \A j \in Carriers(kind, n) : j <= i]

TablesAreExact ==
  \A n \in Names : users[n] = LastCarrier("user", n) /\ sps[n] = LastCarrier("sp", n)

(***************************************************************************)
(* Key and client_id of a service principal are worth the same: whichever  *)
(* of them a client presents, it is admitted to the same audiences and gets*)
(* the same roles there; and a user has one name only (check_audience and  *)
(* resolve_roles, with the tables of the store).                           *)
(***************************************************************************)
NamesAreWorthTheSame ==
  \A f, g \in Found : f[1] = g[1] =>
    /\ Admitted(f[1], f[2], app) = Admitted(g[1], g[2], app)
    /\ AudienceRoles(f[1], f[2], app) = AudienceRoles(g[1], g[2], app)
=============================================================================
