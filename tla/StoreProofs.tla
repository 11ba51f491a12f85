----------------------------- MODULE StoreProofs -----------------------------
(***************************************************************************)
(* Proofs about the identity stores (store/): PgReload, the reload of the  *)
(* Postgres store; ConfigReload, the YAML store and its watcher; AuditLog, *)
(* the audit query of the Postgres store; and IdentityTables, what both    *)
(* stores make of the identities they load.                                *)
(*                                                                         *)
(* Reloads of the Postgres store have different numbers, and the number of *)
(* one in progress is neither in memory beside the identities nor rejected,*)
(* so what a step puts into memory is of one reload.  The contents of a    *)
(* table only grow in number, hence what a SELECT returned lies between    *)
(* what was there when the reload was asked for and what is there now.     *)
(* The reload of the startup has the number 1 and is alone, so it ends     *)
(* before the scalars are copied for the first time.                       *)
(*                                                                         *)
(* The arguments about the other three are beside their invariants,        *)
(* YamlInv and AuditInv, and beside Led for the tables.                    *)
(***************************************************************************)
EXTENDS PgReload, ConfigReload, AuditLog, IdentityTables,
        FiniteSetTheorems, WellFoundedInduction, TLAPS

NumbersInv ==
  /\ \A r \in Reloads : Fetching(r) =>
        /\ reload[r].no \in 1..asks
        /\ reload[r].no \notin rejected
        /\ \A t \in Identities : mem[t].by # reload[r].no
  /\ \A r, s \in Reloads :
        Fetching(r) /\ Fetching(s) /\ reload[r].no = reload[s].no => r = s

\* What reload r has read so far.
ReadInv(r) ==
  Fetching(r) =>
    /\ \A t \in Tables : /\ reload[r].asked[t] <= db[t]
                         /\ reload[r].got[t] <= db[t]
    /\ \A n \in 1..Len(Selects) : n < reload[r].next =>
          reload[r].asked[Selects[n]] <= reload[r].got[Selects[n]]

\* The reload of the startup is the only one until the server is up.
StartInv ==
  /\ up => asks # 0
  /\ copied => up
  /\ \A r \in Reloads : Fetching(r) => (up <=> ~AtStartup(r))

IInv ==
  /\ TypeOK
  /\ IdentitiesOfOneReload
  /\ ScalarsFollowTheStore
  /\ NumbersInv
  /\ StartInv
  /\ \A r \in Reloads : ReadInv(r)

-----------------------------------------------------------------------------
LEMMA SelectsFacts ==
  /\ Len(Selects) = 4
  /\ \A n \in 1..4 : Selects[n] \in Tables
  /\ \A t \in Tables : \E n \in 1..4 : Selects[n] = t
<1>1. Len(Selects) = 4
  BY DEF Selects
<1>2. Selects[1] = "config" /\ Selects[2] = "users" /\ Selects[3] = "sps" /\ Selects[4] = "apps"
  BY DEF Selects
<1>3. \A n \in 1..4 : n = 1 \/ n = 2 \/ n = 3 \/ n = 4
  OBVIOUS
<1>4. QED
  BY <1>1, <1>2, <1>3 DEF Tables, Identities

LEMMA PartsFacts ==
  /\ \A p \in Parts : TableOf(p) \in Tables
  /\ \A t \in Identities : t \in Parts /\ t \in Tables /\ TableOf(t) = t /\ t \notin ConfigParts
  /\ \A p \in ConfigParts : p \in Parts /\ TableOf(p) = "config"
  /\ "config" \in Tables
  BY DEF Parts, ConfigParts, Identities, Tables, TableOf

LEMMA NoVersionsFacts ==
  NoVersions \in [Tables -> Nat] /\ \A t \in Tables : NoVersions[t] = 0
  BY DEF NoVersions, Nothing

LEMMA IdleType == Idle \in ReloadType /\ Idle.phase = "idle"
<1>1. Len(Selects) = 4
  BY SelectsFacts
<1>2. QED
  BY <1>1, NoVersionsFacts, ReloadAssumption DEF Idle, ReloadType

\* Everything a reload has read once its last SELECT is answered.
LEMMA FetchedFacts ==
  ASSUME IInv, NEW r \in Reloads, Fetched(r), NEW t \in Tables
  PROVE  /\ Got(r, t) \in Versions
         /\ Got(r, t) \in reload[r].asked[t]..db[t]
         /\ reload[r].no \in 1..asks
<1>1. /\ reload[r] \in ReloadType
      /\ db \in [Tables -> Versions]
      /\ commits \in Nat
  BY DEF IInv, TypeOK
<1>2. PICK n \in 1..4 : Selects[n] = t
  BY SelectsFacts
<1>3. n < reload[r].next
  BY <1>1, SelectsFacts DEF Fetched, ReloadType
<1>4. /\ reload[r].asked[t] <= Got(r, t)
      /\ Got(r, t) <= db[t]
  BY <1>2, <1>3, SelectsFacts DEF IInv, ReadInv, Fetched, Got
<1>5. /\ reload[r].asked[t] \in Nat
      /\ Got(r, t) \in Nat
      /\ db[t] \in 0..commits
  BY <1>1 DEF ReloadType, Got, Versions
<1>6. reload[r].no \in 1..asks
  BY DEF IInv, NumbersInv, Fetched
<1>7. QED
  BY <1>1, <1>4, <1>5, <1>6 DEF Versions

-----------------------------------------------------------------------------
(***************************************************************************)
(* The ends of a reload.                                                   *)
(***************************************************************************)

\* A reload that ends leaves the others as they were.
LEMMA FinishOthers ==
  ASSUME IInv, NEW r \in Reloads, Finish(r), UNCHANGED <<World, asks>>
  PROVE  /\ reload' \in [Reloads -> ReloadType]
         /\ \A s \in Reloads : Fetching(s)' =>
               s # r /\ Fetching(s) /\ reload'[s] = reload[s]
         /\ \A s \in Reloads : ReadInv(s)'
<1>1. reload \in [Reloads -> ReloadType]
  BY DEF IInv, TypeOK
<1>2. reload' \in [Reloads -> ReloadType]
  BY <1>1, IdleType DEF Finish
<1>3. \A s \in Reloads : Fetching(s)' => s # r /\ Fetching(s) /\ reload'[s] = reload[s]
  BY <1>1, IdleType DEF Finish, Fetching
<1>4. ASSUME NEW s \in Reloads PROVE ReadInv(s)'
  BY <1>3 DEF IInv, ReadInv, World
<1>5. QED
  BY <1>2, <1>3, <1>4

\* The scalars and the server, when a reload ends.
LEMMA FinishStart ==
  ASSUME IInv, NEW r \in Reloads, Fetching(r), Finish(r), UNCHANGED <<World, asks>>,
         mem' \in [Parts -> HeldBy(asks)]
  PROVE  /\ StartInv'
         /\ ScalarsFollowTheStore'
         /\ copy' \in HeldBy(asks)
         /\ {up, copied}' \subseteq BOOLEAN
<1>1. /\ up' = TRUE
      /\ AtStartup(r) => copy' = copy /\ copied' = copied
      /\ ~AtStartup(r) => copy' = mem'["scalars"] /\ copied' = TRUE
  BY DEF Finish
<1>2. /\ copy \in HeldBy(asks)
      /\ up \in BOOLEAN /\ copied \in BOOLEAN
      /\ "scalars" \in Parts
  BY PartsFacts DEF IInv, TypeOK, ConfigParts
<1>3. copy' \in HeldBy(asks) /\ {up, copied}' \subseteq BOOLEAN
  BY <1>1, <1>2
<1>4. AtStartup(r) => copied = FALSE
  BY <1>2 DEF IInv, StartInv
<1>5. ScalarsFollowTheStore'
  <2>1. CASE AtStartup(r)
    BY <1>1, <1>4, <2>1 DEF IInv, ScalarsFollowTheStore, Defaults
  <2>2. CASE ~AtStartup(r)
    BY <1>1, <2>2 DEF ScalarsFollowTheStore
  <2>3. QED
    BY <2>1, <2>2
<1>6. asks' # 0
  BY DEF IInv, NumbersInv
<1>7. ASSUME NEW s \in Reloads, Fetching(s)' PROVE ~AtStartup(s)'
  <2>1. s # r /\ Fetching(s) /\ reload'[s] = reload[s]
    BY <1>7, FinishOthers
  <2>2. reload[s].no # 1
    <3>1. CASE AtStartup(r)
      BY <2>1, <3>1 DEF IInv, NumbersInv, AtStartup
    <3>2. CASE ~AtStartup(r)
      BY <2>1, <3>2 DEF IInv, StartInv, AtStartup
    <3>3. QED
      BY <3>1, <3>2
  <2>3. QED
    BY <2>1, <2>2 DEF AtStartup
<1>8. StartInv'
  BY <1>1, <1>6, <1>7 DEF StartInv
<1>9. QED
  BY <1>3, <1>5, <1>8

LEMMA ApplyIInv ==
  ASSUME IInv, NEW r \in Reloads, Apply(r) PROVE IInv'
<1> DEFINE ps == Identities \cup (IF HasConfig(r) THEN ConfigParts ELSE {})
           no == reload[r].no
<1>1. /\ Fetched(r)
      /\ Finish(r)
      /\ Put(r, ps)
      /\ UNCHANGED <<World, asks, rejected>>
      /\ \A t \in Tables : <<t, Got(r, t)>> \notin invalid
  BY DEF Apply, Validates
<1>2. \A p \in Parts :
        mem'[p] = IF p \in ps THEN [ver |-> Got(r, TableOf(p)), by |-> no] ELSE mem[p]
  BY <1>1 DEF Put
<1>3. no \in 1..asks /\ no \notin rejected
  BY <1>1 DEF IInv, NumbersInv, Fetched
<1>4. mem' \in [Parts -> HeldBy(asks)]
  <2>1. mem \in [Parts -> HeldBy(asks)] /\ asks \in Nat
    BY DEF IInv, TypeOK
  <2>2. \A p \in Parts : Got(r, TableOf(p)) \in Versions
    BY <1>1, FetchedFacts, PartsFacts
  <2>3. QED
    BY <1>1, <1>3, <2>1, <2>2 DEF Put, HeldBy
<1>5. TypeOK'
  <2>1. copy' \in HeldBy(asks) /\ {up, copied}' \subseteq BOOLEAN
    BY <1>1, <1>4, FinishStart DEF Fetched
  <2>2. QED
    BY <1>1, <1>4, <2>1, FinishOthers DEF IInv, TypeOK, World, Versions, HeldBy
<1>6. \A t \in Identities : mem'[t] = [ver |-> Got(r, t), by |-> no]
  BY <1>2, PartsFacts
<1>7. IdentitiesOfOneReload'
  BY <1>1, <1>3, <1>6, PartsFacts DEF IdentitiesOfOneReload, World, Identities
<1>8. NumbersInv'
  <2>1. ASSUME NEW s \in Reloads, Fetching(s)'
        PROVE  s # r /\ Fetching(s) /\ reload'[s] = reload[s] /\ reload[s].no # no
    BY <1>1, <2>1, FinishOthers DEF IInv, NumbersInv, Fetched
  <2>2. ASSUME NEW s \in Reloads, Fetching(s)'
        PROVE  /\ reload'[s].no \in 1..asks'
               /\ reload'[s].no \notin rejected'
               /\ \A t \in Identities : mem'[t].by # reload'[s].no
    <3>1. /\ reload'[s] = reload[s]
          /\ reload[s].no # no
          /\ reload[s].no \in 1..asks
          /\ reload[s].no \notin rejected
      BY <2>1, <2>2 DEF IInv, NumbersInv
    <3>2. ASSUME NEW t \in Identities PROVE mem'[t].by = no
      <4>1. mem'[t] = [ver |-> Got(r, t), by |-> no]
        BY <1>6
      <4>2. QED
        BY <4>1
    <3>3. asks' = asks /\ rejected' = rejected
      BY <1>1
    <3>4. QED
      BY <3>1, <3>2, <3>3
  <2>3. ASSUME NEW s \in Reloads, NEW u \in Reloads, Fetching(s)', Fetching(u)',
               reload'[s].no = reload'[u].no
        PROVE  s = u
    BY <2>1, <2>3 DEF IInv, NumbersInv
  <2>4. QED
    BY <2>2, <2>3 DEF NumbersInv
<1>9. StartInv' /\ ScalarsFollowTheStore'
  BY <1>1, <1>4, FinishStart DEF Fetched
<1>10. QED
  BY <1>1, <1>5, <1>7, <1>8, <1>9, FinishOthers DEF IInv

LEMMA RejectIInv ==
  ASSUME IInv, NEW r \in Reloads, Reject(r) PROVE IInv'
<1> DEFINE no == reload[r].no
<1>1. /\ Fetched(r)
      /\ Finish(r)
      /\ rejected' = rejected \cup {no}
      /\ UNCHANGED <<World, asks>>
  BY DEF Reject
<1>2. no \in 1..asks /\ no \notin rejected /\ \A t \in Identities : mem[t].by # no
  BY <1>1 DEF IInv, NumbersInv, Fetched
<1>3. /\ mem \in [Parts -> HeldBy(asks)]
      /\ asks \in Nat
      /\ Got(r, "config") \in Versions
      /\ Nothing \in Versions
  BY <1>1, FetchedFacts, PartsFacts DEF IInv, TypeOK, Versions, Nothing
<1>4. /\ mem' \in [Parts -> HeldBy(asks)]
      /\ \A t \in Identities : mem'[t] = mem[t]
  <2>1. CASE ~HasConfig(r)
    BY <1>3, <2>1 DEF Reject, PutConfigOnly
  <2>2. CASE HasConfig(r) /\ Validates(r, "config")
    <3>1. mem' = [p \in Parts |-> IF p \in ConfigParts
                    THEN [ver |-> Got(r, TableOf(p)), by |-> no] ELSE mem[p]]
      BY <2>2 DEF Reject, PutConfigOnly, Put
    <3>2. QED
      BY <1>2, <1>3, <3>1, PartsFacts DEF HeldBy
  <2>3. CASE HasConfig(r) /\ ~Validates(r, "config")
    <3>1. mem' = [mem EXCEPT !["scalars"] = [ver |-> Got(r, "config"), by |-> no],
                             !["issuerModes"] = [ver |-> Nothing, by |-> no]]
      BY <2>3 DEF Reject, PutConfigOnly
    <3>2. QED
      BY <1>2, <1>3, <3>1, PartsFacts DEF ConfigParts, HeldBy
  <2>4. QED
    BY <2>1, <2>2, <2>3
<1>5. TypeOK'
  <2>1. copy' \in HeldBy(asks) /\ {up, copied}' \subseteq BOOLEAN
    BY <1>1, <1>4, FinishStart DEF Fetched
  <2>2. QED
    BY <1>1, <1>2, <1>4, <2>1, FinishOthers DEF IInv, TypeOK, World, Versions, HeldBy
<1>6. IdentitiesOfOneReload'
  BY <1>1, <1>2, <1>4 DEF IInv, IdentitiesOfOneReload, World, Identities
<1>7. NumbersInv'
  BY <1>1, <1>4, FinishOthers DEF IInv, NumbersInv, Fetched
<1>8. StartInv' /\ ScalarsFollowTheStore'
  BY <1>1, <1>4, FinishStart DEF Fetched
<1>9. QED
  BY <1>1, <1>5, <1>6, <1>7, <1>8, FinishOthers DEF IInv

LEMMA QueryFailsIInv ==
  ASSUME IInv, NEW r \in Reloads, QueryFails(r) PROVE IInv'
<1>1. /\ Fetching(r)
      /\ Finish(r)
      /\ UNCHANGED <<World, mem, asks, rejected>>
      /\ mem' \in [Parts -> HeldBy(asks)]
  BY DEF QueryFails, IInv, TypeOK
<1>2. TypeOK'
  <2>1. copy' \in HeldBy(asks) /\ {up, copied}' \subseteq BOOLEAN
    BY <1>1, FinishStart
  <2>2. QED
    BY <1>1, <2>1, FinishOthers DEF IInv, TypeOK, World, Versions, HeldBy
<1>3. IdentitiesOfOneReload'
  BY <1>1 DEF IInv, IdentitiesOfOneReload, World
<1>4. NumbersInv'
  BY <1>1, FinishOthers DEF IInv, NumbersInv
<1>5. StartInv' /\ ScalarsFollowTheStore'
  BY <1>1, FinishStart
<1>6. QED
  BY <1>1, <1>2, <1>3, <1>4, <1>5, FinishOthers DEF IInv

-----------------------------------------------------------------------------
(***************************************************************************)
(* The beginning and the reading.                                          *)
(***************************************************************************)
LEMMA BeginIInv ==
  ASSUME IInv, NEW r \in Reloads, BeginReload(r), asks = 0 \/ up PROVE IInv'
<1> DEFINE q == [Idle EXCEPT !.phase = "fetching", !.no = asks + 1, !.asked = db]
<1>1. /\ asks < MaxReloads
      /\ asks' = asks + 1
      /\ reload' = [reload EXCEPT ![r] = q]
      /\ UNCHANGED <<World, Memory, rejected>>
      /\ UNCHANGED <<mem, copy, up, copied>>
  BY DEF BeginReload, Memory
<1>2. /\ asks \in Nat
      /\ reload \in [Reloads -> ReloadType]
      /\ rejected \subseteq 1..asks
      /\ mem \in [Parts -> HeldBy(asks)]
      /\ copy \in HeldBy(asks)
      /\ db \in [Tables -> Nat]
      /\ commits \in Nat
  BY DEF IInv, TypeOK, Versions
<1>3. /\ q \in ReloadType
      /\ q.no = asks + 1
      /\ q.asked = db
      /\ q.next = 1
      /\ \A t \in Tables : q.got[t] = 0
  <2>1. asks + 1 \in 0..MaxReloads
    BY <1>1, <1>2, ReloadAssumption
  <2>2. /\ Idle \in ReloadType
        /\ Idle.next = 1
        /\ \A t \in Tables : Idle.got[t] = 0
    BY IdleType, NoVersionsFacts DEF Idle
  <2>3. /\ q \in ReloadType
        /\ q.no = asks + 1
        /\ q.asked = db
        /\ q.next = Idle.next
        /\ q.got = Idle.got
    <3> DEFINE Nexts == 1..(Len(Selects) + 1)
               Numbers == 0..MaxReloads
               no == asks + 1
    <3> HIDE DEF Nexts, Numbers, no
    <3>1. Idle \in [phase : {"idle", "fetching"}, no : Numbers, next : Nexts,
                    got : [Tables -> Nat], asked : [Tables -> Nat]]
      BY <2>2 DEF ReloadType, Nexts, Numbers
    <3>2. no \in Numbers
      BY <2>1 DEF no, Numbers
    <3>3. q = [Idle EXCEPT !.phase = "fetching", !.no = no, !.asked = db]
      BY DEF no
    <3>4. /\ q \in [phase : {"idle", "fetching"}, no : Numbers, next : Nexts,
                     got : [Tables -> Nat], asked : [Tables -> Nat]]
          /\ q.no = no
          /\ q.asked = db
          /\ q.next = Idle.next
          /\ q.got = Idle.got
      BY <1>2, <3>1, <3>2, <3>3
    <3>5. QED
      BY <3>4 DEF ReloadType, Nexts, Numbers, no
  <2>4. QED
    BY <2>2, <2>3
<1> HIDE DEF q
<1>4. \A s \in Reloads : reload'[s] = IF s = r THEN q ELSE reload[s]
  BY <1>1, <1>2
<1>5. TypeOK'
  <2>1. reload' \in [Reloads -> ReloadType]
    BY <1>1, <1>2, <1>3
  <2>2. asks' \in 0..MaxReloads
    BY <1>1, <1>2, ReloadAssumption
  <2>3. rejected' \subseteq 1..asks'
    BY <1>1, <1>2
  <2>4. mem' \in [Parts -> HeldBy(asks)'] /\ copy' \in HeldBy(asks)'
    <3>1. 0..asks \subseteq 0..asks'
      BY <1>1, <1>2
    <3>2. QED
      BY <1>1, <1>2, <3>1 DEF Versions, World, HeldBy
  <2>5. QED
    BY <1>1, <2>1, <2>2, <2>3, <2>4 DEF IInv, TypeOK, World, Versions
<1>6. IdentitiesOfOneReload'
  BY <1>1 DEF IInv, IdentitiesOfOneReload, World
<1>7. NumbersInv'
  <2>1. ASSUME NEW s \in Reloads, Fetching(s)'
        PROVE  /\ reload'[s].no \in 1..asks'
               /\ reload'[s].no \notin rejected'
               /\ \A t \in Identities : mem'[t].by # reload'[s].no
    <3>1. CASE s = r
      BY <1>1, <1>2, <1>3, <1>4, <3>1, PartsFacts DEF HeldBy
    <3>2. CASE s # r
      BY <1>1, <1>2, <1>4, <2>1, <3>2 DEF IInv, NumbersInv, Fetching
    <3>3. QED
      BY <3>1, <3>2
  <2>2. ASSUME NEW s \in Reloads, NEW u \in Reloads, Fetching(s)', Fetching(u)',
               reload'[s].no = reload'[u].no
        PROVE  s = u
    <3>1. \A w \in Reloads : w # r /\ Fetching(w)' => reload'[w].no < asks + 1
      BY <1>2, <1>4 DEF IInv, NumbersInv, Fetching
    <3>2. CASE s = r \/ u = r
      BY <1>2, <1>3, <1>4, <2>2, <3>1, <3>2
    <3>3. CASE s # r /\ u # r
      BY <1>4, <2>2, <3>3 DEF IInv, NumbersInv, Fetching
    <3>4. QED
      BY <3>2, <3>3
  <2>3. QED
    BY <2>1, <2>2 DEF NumbersInv
<1>8. ASSUME NEW s \in Reloads PROVE ReadInv(s)'
  <2>1. CASE s = r
    BY <1>1, <1>2, <1>3, <1>4, <2>1 DEF ReadInv, World
  <2>2. CASE s # r
    BY <1>1, <1>4, <2>2 DEF IInv, ReadInv, World, Fetching
  <2>3. QED
    BY <2>1, <2>2
<1>9. StartInv'
  <2>1. up => asks # 0
    BY DEF IInv, StartInv
  <2>2. (up => asks # 0)' /\ (copied => up)'
    BY <1>1, <1>2 DEF IInv, StartInv
  <2>3. ASSUME NEW s \in Reloads, Fetching(s)' PROVE (up <=> ~AtStartup(s))'
    <3>1. CASE s = r
      <4>1. AtStartup(s)' <=> asks = 0
        BY <1>2, <1>3, <1>4, <3>1 DEF AtStartup
      <4>2. (up <=> up') /\ (asks = 0 <=> ~up)
        BY <1>1, <2>1
      <4>3. QED
        BY <4>1, <4>2
    <3>2. CASE s # r
      BY <1>1, <1>4, <2>3, <3>2 DEF IInv, StartInv, AtStartup, Fetching
    <3>3. QED
      BY <3>1, <3>2
  <2>4. QED
    BY <2>2, <2>3 DEF StartInv
<1>10. ScalarsFollowTheStore'
  BY <1>1 DEF IInv, ScalarsFollowTheStore, Defaults
<1>11. QED
  BY <1>5, <1>6, <1>7, <1>8, <1>9, <1>10 DEF IInv

LEMMA FetchIInv ==
  ASSUME IInv, NEW r \in Reloads, Fetch(r) PROVE IInv'
<1> DEFINE t == Selects[reload[r].next]
           q == [reload[r] EXCEPT !.got = [@ EXCEPT ![t] = db[t]], !.next = @ + 1]
<1>1. /\ reload \in [Reloads -> ReloadType]
      /\ db \in [Tables -> Nat]
      /\ Fetching(r)
      /\ reload[r].next \in 1..4
      /\ UNCHANGED <<World, mem, copy, up, copied, asks, rejected>>
  BY SelectsFacts DEF IInv, TypeOK, Fetch, Memory, ReloadType, Versions
<1>2. t \in Tables /\ db[t] \in Nat
  BY <1>1, SelectsFacts
<1>3. reload' = [reload EXCEPT ![r] = q]
  BY <1>1 DEF Fetch, ReloadType
<1>4. /\ q \in ReloadType
      /\ q.phase = "fetching"
      /\ q.no = reload[r].no
      /\ q.asked = reload[r].asked
      /\ q.next = reload[r].next + 1
      /\ \A u \in Tables : q.got[u] = IF u = t THEN db[t] ELSE reload[r].got[u]
  <2>1. /\ reload[r] \in ReloadType
        /\ reload[r].phase = "fetching"
        /\ reload[r].got \in [Tables -> Nat]
    BY <1>1 DEF Fetching, ReloadType
  <2>2. [reload[r].got EXCEPT ![t] = db[t]] \in [Tables -> Nat]
    BY <1>2, <2>1
  <2>3. reload[r].next + 1 \in 1..5 /\ Len(Selects) = 4
    BY <1>1, SelectsFacts
  <2> DEFINE g == [reload[r].got EXCEPT ![t] = db[t]]
             m == reload[r].next + 1
  <2>4. q = [reload[r] EXCEPT !.got = g, !.next = m]
    BY <2>1
  <2>5. g \in [Tables -> Nat] /\ m \in 1..(Len(Selects) + 1)
    BY <2>2, <2>3
  <2> HIDE DEF g, m
  <2>6. /\ q \in ReloadType
        /\ q.phase = reload[r].phase
        /\ q.no = reload[r].no
        /\ q.asked = reload[r].asked
        /\ q.next = m
        /\ q.got = g
    <3> DEFINE i == reload[r]
               Nexts == 1..(Len(Selects) + 1)
    <3> HIDE DEF i, Nexts
    <3>1. i \in [phase : {"idle", "fetching"}, no : 0..MaxReloads, next : Nexts,
                  got : [Tables -> Nat], asked : [Tables -> Nat]]
      BY <2>1 DEF ReloadType, Nexts, i
    <3>2. m \in Nexts
      BY <2>5 DEF Nexts
    <3>3. q = [i EXCEPT !.got = g, !.next = m]
      BY <2>4 DEF i
    <3>4. /\ q \in [phase : {"idle", "fetching"}, no : 0..MaxReloads, next : Nexts,
                     got : [Tables -> Nat], asked : [Tables -> Nat]]
          /\ q.phase = i.phase
          /\ q.no = i.no
          /\ q.asked = i.asked
          /\ q.next = m
          /\ q.got = g
      BY <2>5, <3>1, <3>2, <3>3
    <3>5. QED
      BY <3>4 DEF ReloadType, Nexts, i
  <2>7. \A u \in Tables : g[u] = IF u = t THEN db[t] ELSE reload[r].got[u]
    BY <2>1 DEF g
  <2>8. QED
    BY <2>1, <2>6, <2>7 DEF m
<1> HIDE DEF q
<1>5. \A s \in Reloads : reload'[s] = IF s = r THEN q ELSE reload[s]
  BY <1>1, <1>3
<1>6. reload' \in [Reloads -> ReloadType]
  BY <1>1, <1>3, <1>4
<1>7. TypeOK'
  BY <1>1, <1>6 DEF IInv, TypeOK, World, Versions, HeldBy
<1>8. IdentitiesOfOneReload'
  BY <1>1 DEF IInv, IdentitiesOfOneReload, World
<1>9. \A s \in Reloads : (Fetching(s)' <=> Fetching(s)) /\ reload'[s].no = reload[s].no
  BY <1>1, <1>4, <1>5 DEF Fetching
<1>10. NumbersInv'
  BY <1>1, <1>9 DEF IInv, NumbersInv
<1>11. ASSUME NEW s \in Reloads PROVE ReadInv(s)'
  <2>1. CASE s = r
    <3>1. ReadInv(r)
      BY DEF IInv
    <3>2. \A u \in Tables : reload[r].asked[u] <= db[u] /\ reload[r].got[u] <= db[u]
      BY <1>1, <3>1 DEF ReadInv
    <3>3. \A u \in Tables : reload'[r].asked[u] <= db'[u] /\ reload'[r].got[u] <= db'[u]
      BY <1>1, <1>2, <1>4, <1>5, <3>2 DEF World
    <3>4. ASSUME NEW n \in 1..Len(Selects), n < reload'[r].next
          PROVE  reload'[r].asked[Selects[n]] <= reload'[r].got[Selects[n]]
      <4>1. Selects[n] \in Tables /\ n \in 1..4
        BY SelectsFacts
      <4>2. CASE Selects[n] = t
        BY <1>2, <1>4, <1>5, <3>2, <4>1, <4>2
      <4>3. CASE Selects[n] # t
        <5>1. n < reload[r].next
          BY <1>1, <1>4, <1>5, <3>4, <4>1, <4>3
        <5>2. reload[r].asked[Selects[n]] <= reload[r].got[Selects[n]]
          BY <1>1, <3>1, <5>1 DEF ReadInv
        <5>3. QED
          BY <1>4, <1>5, <4>1, <4>3, <5>2
      <4>4. QED
        BY <4>2, <4>3
    <3>5. QED
      BY <2>1, <3>3, <3>4 DEF ReadInv
  <2>2. CASE s # r
    BY <1>1, <1>5, <2>2 DEF IInv, ReadInv, World, Fetching
  <2>3. QED
    BY <2>1, <2>2
<1>12. StartInv' /\ ScalarsFollowTheStore'
  <2>1. \A s \in Reloads : AtStartup(s)' <=> AtStartup(s)
    BY <1>9 DEF AtStartup
  <2>2. StartInv'
    BY <1>1, <1>9, <2>1 DEF IInv, StartInv
  <2>3. QED
    BY <1>1, <2>2 DEF IInv, ScalarsFollowTheStore, Defaults
<1>13. QED
  BY <1>7, <1>8, <1>10, <1>11, <1>12 DEF IInv

LEMMA CommitIInv ==
  ASSUME IInv, NEW ts \in SUBSET Tables, NEW bad \in SUBSET ts, Commit(ts, bad)
  PROVE  IInv'
<1>1. /\ commits < MaxCommits
      /\ commits' = commits + 1
      /\ db' = [t \in Tables |-> IF t \in ts THEN commits + 1 ELSE db[t]]
      /\ invalid' = invalid \cup (bad \X {commits + 1})
      /\ UNCHANGED <<mem, copy, up, copied, reload, asks, rejected>>
  BY DEF Commit, Memory
<1>2. /\ commits \in 1..MaxCommits
      /\ db \in [Tables -> Versions]
      /\ invalid \subseteq Tables \X Versions
      /\ mem \in [Parts -> HeldBy(asks)]
      /\ reload \in [Reloads -> ReloadType]
  BY DEF IInv, TypeOK
<1>3. Versions \subseteq Versions' /\ commits + 1 \in Versions' /\ commits + 1 \notin Versions
  BY <1>1, <1>2, ReloadAssumption DEF Versions
<1>4. TypeOK'
  <2>1. db' \in [Tables -> Versions']
    BY <1>1, <1>2, <1>3
  <2>2. invalid' \subseteq Tables \X Versions'
    BY <1>1, <1>2, <1>3
  <2>3. mem' \in [Parts -> HeldBy(asks)'] /\ copy' \in HeldBy(asks)'
    BY <1>1, <1>2, <1>3 DEF IInv, TypeOK, HeldBy
  <2>4. commits' \in 1..MaxCommits
    BY <1>1, <1>2, ReloadAssumption
  <2>5. QED
    BY <1>1, <2>1, <2>2, <2>3, <2>4 DEF IInv, TypeOK
<1>5. IdentitiesOfOneReload'
  <2>1. \A t \in Identities : mem[t].ver \in Versions
    BY <1>2, PartsFacts DEF HeldBy
  <2>2. \A t \in Identities : <<t, mem[t].ver>> \notin bad \X {commits + 1}
    BY <1>3, <2>1
  <2>3. QED
    BY <1>1, <2>2 DEF IInv, IdentitiesOfOneReload
<1>6. NumbersInv'
  BY <1>1 DEF IInv, NumbersInv, Fetching
<1>7. ASSUME NEW s \in Reloads PROVE ReadInv(s)'
  <2>1. \A t \in Tables : db[t] \in Nat /\ db'[t] \in Nat /\ db[t] <= db'[t]
    BY <1>1, <1>2, ReloadAssumption DEF Versions
  <2>2. \A t \in Tables : reload[s].asked[t] \in Nat /\ reload[s].got[t] \in Nat
    BY <1>2 DEF ReloadType
  <2>3. ReadInv(s)
    BY DEF IInv
  <2>4. QED
    BY <1>1, <2>1, <2>2, <2>3 DEF ReadInv, Fetching
<1>8. StartInv' /\ ScalarsFollowTheStore'
  BY <1>1 DEF IInv, StartInv, ScalarsFollowTheStore, Defaults, Fetching, AtStartup
<1>9. QED
  BY <1>4, <1>5, <1>6, <1>7, <1>8 DEF IInv

-----------------------------------------------------------------------------
LEMMA InitIInv == Init => IInv
<1> SUFFICES ASSUME Init PROVE IInv
  OBVIOUS
<1>1. 0 \in Versions /\ 1 \in Versions
  BY DEF Init, Versions
<1>2. TypeOK
  <2>1. Defaults \in HeldBy(asks)
    BY <1>1 DEF Init, Defaults, HeldBy, Nothing
  <2>2. /\ commits \in 1..MaxCommits
        /\ db \in [Tables -> Versions]
    BY <1>1, ReloadAssumption DEF Init, Nothing
  <2>3. reload \in [Reloads -> ReloadType]
    BY IdleType DEF Init
  <2>4. asks \in 0..MaxReloads
    BY ReloadAssumption DEF Init
  <2>5. QED
    BY <2>1, <2>2, <2>3, <2>4 DEF Init, TypeOK
<1>3. IdentitiesOfOneReload
  BY PartsFacts DEF Init, IdentitiesOfOneReload, Identities, Defaults
<1>4. \A r \in Reloads : ~Fetching(r)
  BY IdleType DEF Init, Fetching
<1>5. StartInv /\ ScalarsFollowTheStore
  BY <1>4 DEF Init, StartInv, ScalarsFollowTheStore
<1>6. QED
  BY <1>2, <1>3, <1>4, <1>5 DEF IInv, NumbersInv, ReadInv

LEMMA NextIInv == IInv /\ [Next]_vars => IInv'
<1> SUFFICES ASSUME IInv, [Next]_vars PROVE IInv'
  OBVIOUS
<1>1. CASE UNCHANGED vars
  BY <1>1 DEF vars, IInv, TypeOK, Versions, HeldBy, IdentitiesOfOneReload, NumbersInv,
              ReadInv, Fetching, StartInv, ScalarsFollowTheStore, Defaults, AtStartup
<1>2. ASSUME NEW r \in Reloads, Startup(r) \/ Ask(r) PROVE IInv'
  BY <1>2, BeginIInv DEF Startup, Ask
<1>3. QED
  BY <1>1, <1>2, CommitIInv, FetchIInv, QueryFailsIInv, ApplyIInv, RejectIInv DEF Next

LEMMA IInvAlways == Spec => []IInv
<1>1. QED
  BY InitIInv, NextIInv, PTL DEF Spec

(***************************************************************************)
(* Every reachable state of the database, the memory and the reloads is    *)
(* well typed (PgReload!TypeOK).                                           *)
(***************************************************************************)
THEOREM TypeCorrect == Spec => []TypeOK
<1>1. IInv => TypeOK
  BY DEF IInv
<1>2. QED
  BY <1>1, IInvAlways, PTL

(***************************************************************************)
(* The identity tables in memory are those of one reload, whose rows all   *)
(* validated.                                                              *)
(***************************************************************************)
THEOREM IdentitiesOfOneReloadAlways == Spec => []IdentitiesOfOneReload
<1>1. IInv => IdentitiesOfOneReload
  BY DEF IInv
<1>2. QED
  BY <1>1, IInvAlways, PTL

(***************************************************************************)
(* The handlers go by the constructor's scalars until the first POST       *)
(* /admin/reload-config has ended, and by those of the store ever after    *)
(* (config.py reload_config, main.py lifespan).                            *)
(***************************************************************************)
THEOREM ScalarsFollowTheStoreAlways == Spec => []ScalarsFollowTheStore
<1>1. IInv => ScalarsFollowTheStore
  BY DEF IInv
<1>2. QED
  BY <1>1, IInvAlways, PTL

-----------------------------------------------------------------------------
\* What a step puts into memory, action by action.
LEMMA RecentStep ==
  ASSUME IInv, [Next]_vars, NEW p \in Parts, mem'[p] # mem[p]
  PROVE  \E r \in Reloads :
           /\ Fetching(r)
           /\ mem'[p].by = reload[r].no
           /\ \/ ReadDuring(r, p)
              \/ p = "issuerModes" /\ mem'[p].ver = Nothing /\ reload[r].no \in rejected'
           /\ p \in Identities => reload[r].no \notin rejected'
<1>1. PICK r \in Reloads : Apply(r) \/ Reject(r)
  BY DEF Next, vars, Commit, Startup, Ask, BeginReload, Memory, Fetch, QueryFails
<1>2. /\ Fetched(r)
      /\ Fetching(r)
      /\ TableOf(p) \in Tables
      /\ "config" \in Tables
      /\ mem \in [Parts -> HeldBy(asks)]
  BY <1>1, PartsFacts DEF Apply, Reject, Fetched, IInv, TypeOK
<1>3. \A t \in Tables : Got(r, t) \in reload[r].asked[t]..db[t]
  BY <1>2, FetchedFacts
<1>4. ASSUME NEW ps, Put(r, ps)
      PROVE  mem'[p].by = reload[r].no /\ ReadDuring(r, p)
  <2>1. mem'[p] = [ver |-> Got(r, TableOf(p)), by |-> reload[r].no]
    BY <1>4 DEF Put
  <2>2. QED
    BY <1>2, <1>3, <2>1 DEF ReadDuring
<1>5. CASE Apply(r)
  <2>1. reload[r].no \notin rejected /\ rejected' = rejected
    BY <1>2, <1>5 DEF Apply, IInv, NumbersInv
  <2>2. QED
    BY <1>2, <1>4, <1>5, <2>1 DEF Apply
<1>6. CASE Reject(r)
  <2>0. p \notin Identities /\ reload[r].no \in rejected'
    <3>1. \A t \in Identities : mem'[t] = mem[t]
      BY <1>2, <1>6, PartsFacts DEF Reject, PutConfigOnly, Put, ConfigParts
    <3>2. QED
      BY <1>6, <3>1 DEF Reject
  <2>1. CASE HasConfig(r) /\ Validates(r, "config")
    BY <1>2, <1>4, <1>6, <2>0, <2>1 DEF Reject, PutConfigOnly
  <2>2. CASE HasConfig(r) /\ ~Validates(r, "config")
    <3>1. mem' = [mem EXCEPT
                    !["scalars"] = [ver |-> Got(r, "config"), by |-> reload[r].no],
                    !["issuerModes"] = [ver |-> Nothing, by |-> reload[r].no]]
      BY <1>6, <2>2 DEF Reject, PutConfigOnly
    <3>2. CASE p = "issuerModes"
      BY <1>2, <2>0, <3>1, <3>2
    <3>3. CASE p # "issuerModes"
      <4>1. p = "scalars" /\ mem'[p] = [ver |-> Got(r, "config"), by |-> reload[r].no]
        BY <1>2, <3>1, <3>3
      <4>2. TableOf(p) = "config"
        BY <4>1 DEF TableOf, ConfigParts
      <4>3. QED
        BY <1>2, <1>3, <2>0, <4>1, <4>2 DEF ReadDuring
    <3>4. QED
      BY <3>2, <3>3
  <2>3. CASE ~HasConfig(r)
    BY <1>6, <2>3 DEF Reject, PutConfigOnly
  <2>4. QED
    BY <2>1, <2>2, <2>3
<1>7. QED
  BY <1>1, <1>5, <1>6

(***************************************************************************)
(* What is put into memory was in the database between the beginning of the*)
(* reload that puts it there and that step, save issuer modes that a       *)
(* rejected reload clears; identities are put there by a reload that is not*)
(* rejected, scalars and issuer modes by any that reads a config row       *)
(* (store/pg_store.py _fetch_and_apply).                                   *)
(***************************************************************************)
THEOREM ReloadsAreRecentAlways == Spec => ReloadsAreRecent
<1>1. IInv /\ [Next]_vars =>
        [\A p \in Parts : mem'[p] # mem[p] =>
           \E r \in Reloads :
              /\ Fetching(r)
              /\ mem'[p].by = reload[r].no
              /\ \/ ReadDuring(r, p)
                 \/ p = "issuerModes" /\ mem'[p].ver = Nothing /\ reload[r].no \in rejected'
              /\ p \in Identities => reload[r].no \notin rejected']_vars
  BY RecentStep
<1>2. QED
  BY <1>1, IInvAlways, PTL DEF Spec, ReloadsAreRecent

-----------------------------------------------------------------------------
(***************************************************************************)
(* The YAML store.  A reader that has parsed the file has what is in it,   *)
(* and one that is about to open it will find it, unless somebody was told *)
(* of a change or nobody could be.  With that, a reload that is over has   *)
(* left the file's contents in memory, or they do not load.                *)
(***************************************************************************)
YamlHeard == "file" \notin missed /\ ~pending

YamlReadInv ==
  /\ reader.by = "nobody" => Free
  /\ HasRead /\ YamlHeard => reader.got = file
  /\ Opening /\ YamlHeard => file # "missing"

YamlSettled ==
  process # "down" /\ watcher # "dead" /\ Free /\ ~pending /\ missed = {}

YamlLoadedInv ==
  YamlSettled /\ Loads(file, secret) => served = Loaded(file, secret)

YamlInv == CRTypeOK /\ YamlReadInv /\ YamlLoadedInv

LEMMA YamlInit == ASSUME CRInit PROVE YamlInv
  BY DEF CRInit, YamlInv, CRTypeOK, YamlReadInv, YamlLoadedInv, YamlSettled, YamlHeard,
         Free, HasRead, Opening, NoReader, NothingServed,
         Readers

LEMMA YamlLoadedType ==
  ASSUME NEW c, NEW s \in Secrets \cup {"none"}, Loads(c, s)
  PROVE  /\ Loaded(c, s) \in [conf : Plain \cup Secretful \cup {"defaults", "nothing"},
                                   secret : Secrets \cup {"none"}]
         /\ Loaded(c, s) # NothingServed
         /\ c \notin Raising
  BY ContentsAssumption DEF Loads, Loaded, Conf, Blank, NothingServed

\* A reader that ends without having loaded anything.
LEMMA YamlGivesUp ==
  ASSUME YamlInv, UNCHANGED <<file, secret, served, missed, process>>,
         reader' = NoReader,
         \/ UNCHANGED <<watcher, pending>>
         \/ watcher' = "dead" /\ pending' = FALSE /\ reader.by = "watcher",
         \/ Opening /\ file = "missing"
         \/ HasRead /\ ~Loads(reader.got, secret)
  PROVE  YamlInv'
<1>1. CRTypeOK'
  <2>1. /\ reader' \in [by : Readers, got : Contents \cup {"missing", "unread"}]
        /\ reader'.by = "nobody"
    BY DEF NoReader, Readers
  <2>2. reader.by = "watcher" => process = "serving"
    BY DEF YamlInv, CRTypeOK
  <2>3. pending' \in BOOLEAN /\ (pending' => watcher' = "watching")
    <3>1. CASE UNCHANGED <<watcher, pending>>
      BY <3>1 DEF YamlInv, CRTypeOK
    <3>2. CASE pending' = FALSE
      BY <3>2, Zenon
    <3>3. QED
      BY <3>1, <3>2, Zenon
  <2>4. watcher' \in {"none", "created", "watching", "dead"}
    BY DEF YamlInv, CRTypeOK
  <2>5. watcher' # "none" => process' = "serving"
    BY <2>2 DEF YamlInv, CRTypeOK
  <2>6. QED
    BY <2>1, <2>3, <2>4, <2>5 DEF YamlInv, CRTypeOK
<1>2. YamlReadInv'
  BY DEF YamlReadInv, NoReader, Free, HasRead, Opening
<1>3. YamlLoadedInv'
  BY DEF YamlInv, YamlReadInv, YamlHeard, YamlLoadedInv, YamlSettled,
         Loads, Loaded, Blank, Conf
<1>4. QED
  BY <1>1, <1>2, <1>3 DEF YamlInv

LEMMA YamlNext ==
  ASSUME YamlInv, [CRNext]_crVars
  PROVE  YamlInv'
<1> USE DEF Disk
<1>1. ASSUME NEW c \in Contents \cup {"missing"}, Edit(c) PROVE YamlInv'
  <2>1. CRTypeOK'
    BY <1>1 DEF Edit, YamlInv, CRTypeOK
  <2>2. YamlReadInv'
    BY <1>1 DEF Edit, YamlInv, YamlReadInv, YamlHeard, Free,
       HasRead, Opening, CRTypeOK
  <2>3. YamlLoadedInv'
    BY <1>1 DEF Edit, YamlLoadedInv, YamlSettled
  <2>4. QED
    BY <2>1, <2>2, <2>3 DEF YamlInv
<1>2. ASSUME NEW s \in Secrets \cup {"none"}, SecretChanges(s) PROVE YamlInv'
  <2>1. CRTypeOK'
    BY <1>2 DEF SecretChanges, YamlInv, CRTypeOK
  <2>2. YamlReadInv'
    BY <1>2 DEF SecretChanges, YamlInv, YamlReadInv, YamlHeard, Free,
       HasRead, Opening
  <2>3. YamlLoadedInv'
    BY <1>2 DEF SecretChanges, YamlLoadedInv, YamlSettled
  <2>4. QED
    BY <2>1, <2>2, <2>3 DEF YamlInv
<1>3. ASSUME Open PROVE YamlInv'
  <2>1. CRTypeOK' /\ reader'.got = file /\ reader'.by = reader.by /\ file # "unread"
    BY <1>3, ContentsAssumption DEF Open, YamlInv, CRTypeOK, Contents
  <2>2. ~Free'
    BY <2>1 DEF Free, NoReader
  <2>3. YamlReadInv'
    BY <1>3, <2>1, <2>2 DEF Open, YamlInv, YamlReadInv, Free, HasRead, Opening
  <2>4. YamlLoadedInv'
    BY <2>2 DEF YamlLoadedInv, YamlSettled
  <2>5. QED
    BY <2>1, <2>3, <2>4 DEF YamlInv
<1>4. ASSUME OpenFails PROVE YamlInv'
  BY <1>4, YamlGivesUp DEF OpenFails, Raise
<1>5. ASSUME ParseFails \/ ShapeFails PROVE YamlInv'
  <2>1. reader.got \in Raising /\ HasRead /\ Raise
    BY <1>5 DEF ParseFails, ShapeFails, Raising
  <2>2. ~Loads(reader.got, secret)
    BY <2>1, ContentsAssumption DEF Loads, Blank
  <2>3. QED
    BY <2>1, <2>2, YamlGivesUp DEF Raise
<1>6. ASSUME Refuse PROVE YamlInv'
  BY <1>6, YamlGivesUp DEF Refuse
<1>7. ASSUME Serve PROVE YamlInv'
  <2>1. /\ HasRead /\ Loads(reader.got, secret)
        /\ served' = Loaded(reader.got, secret)
        /\ process' = IF reader.by = "boot" THEN "imported" ELSE process
        /\ reader' = NoReader
        /\ missed' = missed \ {"secret"}
        /\ UNCHANGED <<file, secret, watcher, pending>>
    BY <1>7 DEF Serve, ApplyBody
  <2>2. secret \in Secrets \cup {"none"} /\ reader.by \in Readers \ {"nobody"}
    BY <2>1 DEF YamlInv, YamlReadInv, CRTypeOK, HasRead
  <2>3. /\ served' \in [conf : Plain \cup Secretful \cup {"defaults", "nothing"},
                        secret : Secrets \cup {"none"}]
        /\ served' # NothingServed
    BY <2>1, <2>2, YamlLoadedType
  <2>4. CRTypeOK'
    BY <2>1, <2>2, <2>3 DEF YamlInv, CRTypeOK, NoReader, Readers
  <2>5. YamlReadInv'
    BY <2>1 DEF YamlReadInv, NoReader, Free, HasRead, Opening
  <2>6. YamlLoadedInv'
    BY <2>1 DEF YamlLoadedInv, YamlSettled, YamlInv, YamlReadInv, YamlHeard
  <2>7. QED
    BY <2>4, <2>5, <2>6 DEF YamlInv
<1>8. ASSUME NEW by \in Readers \ {"nobody"}, Look(by), Free,
             UNCHANGED <<file, secret, process, watcher, served>>,
             pending' \in BOOLEAN, pending' => pending,
             by = "boot" => process = "down",
             by # "boot" => process = "serving",
             by = "watcher" => watcher = "watching"
      PROVE  YamlInv'
  <2>1. /\ reader' \in [by : Readers,
                        got : Contents \cup {"missing", "unread"}]
        /\ reader'.by = by
        /\ reader'.got = IF file = "missing" THEN "missing" ELSE "unread"
    BY <1>8 DEF Look
  <2>2. ~Free'
    BY <2>1 DEF Free, NoReader
  <2>3. CRTypeOK'
    BY <1>8, <2>1 DEF YamlInv, CRTypeOK, Look
  <2>4. YamlReadInv'
    BY <1>8, <2>1, <2>2 DEF YamlReadInv, HasRead, Opening
  <2>5. YamlLoadedInv'
    BY <2>2 DEF YamlLoadedInv, YamlSettled
  <2>6. QED
    BY <2>3, <2>4, <2>5 DEF YamlInv
<1>9. ASSUME Boot PROVE YamlInv'
  BY <1>8, <1>9 DEF Boot, Readers, YamlInv, CRTypeOK
<1>10. ASSUME Notice PROVE YamlInv'
  <2>1. process = "serving"
    BY <1>10 DEF Notice, YamlInv, CRTypeOK
  <2>2. QED
    BY <1>8, <1>10, <2>1 DEF Notice, Readers
<1>11. ASSUME AdminReload PROVE YamlInv'
  BY <1>8, <1>11 DEF AdminReload, Readers, YamlInv, CRTypeOK
<1>12. ASSUME Lifespan PROVE YamlInv'
  <2>1. CRTypeOK'
    BY <1>12 DEF Lifespan, YamlInv, CRTypeOK
  <2>2. YamlReadInv'
    BY <1>12 DEF Lifespan, YamlInv, YamlReadInv, YamlHeard, Free,
       HasRead, Opening
  <2>3. YamlLoadedInv'
    BY <1>12 DEF Lifespan, YamlInv, YamlLoadedInv, YamlSettled, CRTypeOK, Free
  <2>4. QED
    BY <2>1, <2>2, <2>3 DEF YamlInv
<1>13. ASSUME StartWatching PROVE YamlInv'
  <2>1. CRTypeOK'
    BY <1>13 DEF StartWatching, YamlInv, CRTypeOK, Free, NoReader
  <2>2. YamlReadInv'
    BY <1>13 DEF StartWatching, YamlInv, YamlReadInv, YamlHeard, Free,
       HasRead, Opening
  <2>3. YamlLoadedInv'
    BY <1>13 DEF StartWatching, YamlInv, YamlLoadedInv, YamlSettled, Free
  <2>4. QED
    BY <2>1, <2>2, <2>3 DEF YamlInv
<1>14. ASSUME Crash PROVE YamlInv'
  BY <1>14 DEF Crash, YamlInv, CRTypeOK, YamlReadInv, YamlLoadedInv, YamlSettled, Free,
     HasRead, Opening, NoReader, NothingServed, Readers
<1>15. CASE UNCHANGED crVars
  BY <1>15 DEF crVars, YamlInv, CRTypeOK, YamlReadInv, YamlHeard, YamlLoadedInv, YamlSettled,
     Free, HasRead, Opening
<1>16. QED
  BY <1>1, <1>2, <1>3, <1>4, <1>5, <1>6, <1>7, <1>9, <1>10, <1>11, <1>12, <1>13,
     <1>14, <1>15 DEF CRNext, Read

\* When the watcher listens and nothing is left to do, the pod serves what is
\* in the file, if it loads and no change went unheard (yaml_store.py reload,
\* main.py _watch_config).
THEOREM SettledServesTheFileAlways == CRSpec => []SettledServesTheFile
<1>1. CRInit => YamlInv
  BY YamlInit
<1>2. YamlInv /\ [CRNext]_crVars => YamlInv'
  BY YamlNext
<1>3. YamlInv => SettledServesTheFile
  BY DEF YamlInv, YamlLoadedInv, YamlSettled, SettledServesTheFile, Settled, CRTypeOK
<1>4. QED
  BY <1>1, <1>2, <1>3, PTL DEF CRSpec

(***************************************************************************)
(* Contents that do not validate and secrets that cannot be read never end *)
(* the watcher (main.py _watch_config; yaml_store.py reload): as long as   *)
(* the file is there and has no contents that raise, nor has any reader.   *)
(***************************************************************************)
Readable == file \notin Raising \cup {"missing"}

WatcherAlive == watcher # "dead" /\ reader.got \notin Raising

LEMMA ReadableKeepsAlive ==
  ASSUME Readable, WatcherAlive, [CRNext]_crVars
  PROVE  WatcherAlive'
<1> USE DEF WatcherAlive
<1>1. "unread" \notin Raising /\ "missing" \notin Raising /\ NoReader.got = "unread"
  BY ContentsAssumption DEF NoReader
<1>2. CASE \E c \in Contents \cup {"missing"} : Edit(c)
  BY <1>2 DEF Edit
<1>3. CASE \E s \in Secrets \cup {"none"} : SecretChanges(s)
  BY <1>3 DEF SecretChanges
<1>4. CASE Read
  <2>1. ~OpenFails /\ ~ParseFails /\ ~ShapeFails
    BY DEF OpenFails, ParseFails, ShapeFails, Raising, Readable
  <2>2. CASE Open
    <3>1. reader'.got = file \/ reader' = reader
      BY <2>2 DEF Open, Opening
    <3>2. watcher' = watcher
      BY <2>2 DEF Open
    <3>3. QED
      BY <3>1, <3>2 DEF Readable
  <2>3. CASE Serve \/ Refuse
    BY <1>1, <2>3 DEF Serve, Refuse, ApplyBody
  <2>4. QED
    BY <1>4, <2>1, <2>2, <2>3 DEF Read
<1>5. ASSUME NEW by, Look(by) PROVE reader'.got \notin Raising
  BY <1>1, <1>5 DEF Look
<1>6. CASE Boot \/ Notice \/ AdminReload
  BY <1>5, <1>6 DEF Boot, Notice, AdminReload
<1>7. CASE Lifespan
  BY <1>7 DEF Lifespan
<1>8. CASE StartWatching
  BY <1>8 DEF StartWatching, Readable
<1>9. CASE Crash
  BY <1>1, <1>9 DEF Crash
<1>10. CASE UNCHANGED crVars
  BY <1>10 DEF crVars
<1>11. QED
  BY <1>2, <1>3, <1>4, <1>6, <1>7, <1>8, <1>9, <1>10 DEF CRNext

\* The watcher only ends if at some time the file is gone, is no YAML, or is
\* YAML of a shape that raises before it is validated (main.py _watch_config,
\* yaml_store.py reload, _lint_raw, _resolve_secret), whatever the validation
\* refuses in between.
THEOREM WatcherOutlivesBadConfigsAlways == CRSpec => WatcherOutlivesBadConfigs
<1>1. CRInit => WatcherAlive
  BY ContentsAssumption DEF CRInit, WatcherAlive, NoReader
<1>2. Readable /\ WatcherAlive /\ [CRNext]_crVars => WatcherAlive'
  BY ReadableKeepsAlive
<1>3. WatcherAlive => watcher # "dead"
  BY DEF WatcherAlive
<1>4. (file \notin Unparsable \cup Misshapen \cup {"missing"}) <=> Readable
  BY DEF Readable, Raising
<1>5. QED
  BY <1>1, <1>2, <1>3, <1>4, PTL DEF CRSpec, WatcherOutlivesBadConfigs

-----------------------------------------------------------------------------
\* A set of numbers has a least one, and a greatest if it is bounded.
LEMMA LeastNumber ==
  ASSUME NEW T, T \subseteq Nat, T # {}
  PROVE  \E m \in T : \A n \in T : m <= n
<1>1. IsWellFoundedOn(OpToRel(<, Nat), Nat)
  BY NatLessThanWellFounded
<1>2. PICK m \in T : \A n \in T : <<n, m>> \notin OpToRel(<, Nat)
  BY <1>1, WFMin
<1>3. \A n \in T : ~(n < m)
  BY <1>2 DEF OpToRel
<1>4. QED
  BY <1>3

LEMMA GreatestNumber ==
  ASSUME NEW T, T \subseteq Nat, T # {}, NEW b \in Nat, \A n \in T : n <= b
  PROVE  \E m \in T : \A n \in T : n <= m
<1> DEFINE U == {u \in Nat : \A n \in T : n <= u}
<1>1. PICK m \in U : \A u \in U : m <= u
  <2>1. U \subseteq Nat /\ b \in U
    OBVIOUS
  <2> HIDE DEF U
  <2>2. QED
    BY <2>1, LeastNumber
<1>2. m \in T
  <2>1. SUFFICES ASSUME m \notin T PROVE FALSE
    OBVIOUS
  <2>2. \A n \in T : n <= m - 1
    <3>1. m \in Nat /\ \A n \in T : n \in Nat /\ n <= m /\ n # m
      BY <1>1, <2>1
    <3>2. QED
      BY <3>1
  <2>3. m - 1 \in Nat
    <3>1. PICK n \in T : n \in Nat /\ n <= m /\ n # m
      BY <1>1, <2>1
    <3>2. m \in Nat
      BY <1>1
    <3>3. QED
      BY <3>1, <3>2
  <2>4. m - 1 \in U
    BY <2>2, <2>3
  <2>5. m <= m - 1 /\ m \in Nat
    BY <1>1, <2>4
  <2>6. QED
    BY <2>5
<1>3. QED
  BY <1>1, <1>2

(***************************************************************************)
(* The first n of a set of ids: a beginning of it, which is the whole set  *)
(* if it has fewer ids than it might.                                      *)
(***************************************************************************)
Below(S, e) == {x \in S : x < e}

LEMMA InFirst ==
  ASSUME NEW n, NEW S, NEW e
  PROVE  e \in First(n, S) <=> e \in S /\ Cardinality(Below(S, e)) < n
  BY Zenon DEF First, Below

LEMMA BelowFacts ==
  ASSUME NEW d \in Nat, NEW S, S \subseteq 1..d, NEW e \in S
  PROVE  /\ IsFiniteSet(S) /\ Cardinality(S) \in Nat
         /\ IsFiniteSet(Below(S, e))
         /\ Cardinality(Below(S, e)) \in Nat
         /\ Cardinality(Below(S, e)) < Cardinality(S)
<1>1. 1 \in Int /\ d \in Int
  OBVIOUS
<1>2. IsFiniteSet(1..d)
  BY <1>1, FS_Interval
<1>3. IsFiniteSet(S) /\ Cardinality(S) \in Nat
  BY <1>2, FS_Subset, FS_CardinalityType
<1>4. Below(S, e) \subseteq S \ {e}
  <2>1. e \in Nat
    OBVIOUS
  <2>2. QED
    BY <2>1 DEF Below
<1>5. IsFiniteSet(S \ {e}) /\ Cardinality(S \ {e}) = Cardinality(S) - 1
  BY <1>3, FS_RemoveElement
<1>6. IsFiniteSet(Below(S, e)) /\ Cardinality(Below(S, e)) <= Cardinality(S \ {e})
  BY <1>4, <1>5, FS_Subset
<1>7. Cardinality(Below(S, e)) \in Nat
  BY <1>6, FS_CardinalityType
<1>8. QED
  BY <1>3, <1>5, <1>6, <1>7

LEMMA FirstIsBeginning ==
  ASSUME NEW d \in Nat, NEW S, S \subseteq 1..d, NEW n \in Nat,
         NEW p \in First(n, S), NEW e \in S, e <= p
  PROVE  e \in First(n, S)
<1>1. p \in S /\ Cardinality(Below(S, p)) < n
  BY InFirst
<1>2. p \in Nat /\ e \in Nat /\ \A x \in S : x \in Nat
  BY <1>1
<1>3. Below(S, e) \subseteq Below(S, p)
  <2>1. \A x \in S : x < e => x < p
    BY <1>2
  <2>2. QED
    BY <2>1 DEF Below
<1>4. /\ IsFiniteSet(Below(S, p)) /\ Cardinality(Below(S, p)) \in Nat
      /\ Cardinality(Below(S, e)) \in Nat
  BY <1>1, BelowFacts
<1>5. Cardinality(Below(S, e)) <= Cardinality(Below(S, p))
  BY <1>3, <1>4, FS_Subset
<1>6. Cardinality(Below(S, e)) < n
  BY <1>1, <1>4, <1>5
<1>7. QED
  BY <1>6, InFirst

LEMMA FirstOfFew ==
  ASSUME NEW d \in Nat, NEW S, S \subseteq 1..d, NEW n \in Nat
  PROVE  /\ Cardinality(S) <= n => First(n, S) = S
         /\ Cardinality(First(n + 1, S)) <= n => First(n + 1, S) = S
<1>1. \A m : First(m, S) \subseteq S
  BY InFirst
<1>2. ASSUME Cardinality(S) <= n, NEW e \in S PROVE e \in First(n, S)
  <2>1. /\ Cardinality(Below(S, e)) \in Nat /\ Cardinality(S) \in Nat
        /\ Cardinality(Below(S, e)) < Cardinality(S)
    BY BelowFacts
  <2>2. Cardinality(Below(S, e)) < n
    BY <1>2, <2>1
  <2>3. QED
    BY <2>2, InFirst
<1>3. ASSUME Cardinality(First(n + 1, S)) <= n,
             S \ First(n + 1, S) # {}
      PROVE  FALSE
  <2>1. PICK F : F = First(n + 1, S)
    OBVIOUS
  <2>2. S \ F \subseteq Nat /\ S \ F # {}
    <3>1. S \subseteq Nat
      OBVIOUS
    <3>2. QED
      BY <1>3, <2>1, <3>1
  <2>3. PICK e \in S \ F : \A x \in S \ F : e <= x
    BY <2>2, LeastNumber
  <2>4. Below(S, e) \subseteq F
    <3>1. e \in Nat /\ \A x \in S : x \in Nat
      BY <2>2
    <3>2. \A x \in S : x < e => x \in F
      BY <2>3, <3>1
    <3>3. QED
      BY <3>2 DEF Below
  <2>5. F \subseteq S /\ IsFiniteSet(S) /\ Cardinality(Below(S, e)) \in Nat
    BY <1>1, <2>1, <2>3, BelowFacts
  <2>6. IsFiniteSet(F) /\ Cardinality(F) \in Nat
    BY <2>5, FS_Subset, FS_CardinalityType
  <2>7. Cardinality(Below(S, e)) <= Cardinality(F)
    BY <2>4, <2>6, FS_Subset
  <2>8. Cardinality(F) <= n
    BY <1>3, <2>1
  <2>9. Cardinality(Below(S, e)) < n + 1
    BY <2>5, <2>6, <2>7, <2>8
  <2>10. e \in First(n + 1, S)
    BY <2>3, <2>9, InFirst
  <2>11. QED
    BY <2>1, <2>3, <2>10
<1>4. QED
  BY <1>1, <1>2, <1>3

LEMMA LastIsGreatest ==
  ASSUME NEW d \in Nat, NEW S, S \subseteq 1..d, S # {}
  PROVE  LastId(S) \in S /\ \A e \in S : e <= LastId(S)
<1>1. S \subseteq Nat /\ \A e \in S : e <= d
  OBVIOUS
<1>2. \E m \in S : \A e \in S : e <= m
  BY <1>1, GreatestNumber
<1>3. QED
  BY <1>2 DEF LastId

(***************************************************************************)
(* The inductive invariant of the audit pages: what was shown is not beyond*)
(* the cursor.                                                             *)
(***************************************************************************)
AuditPagesInv ==
  \A i \in DOMAIN pages : pages[i] \subseteq events /\ \A a \in pages[i] : a <= cursor

AuditInv ==
  /\ ALTypeOK
  /\ AuditPagesInv
  /\ PagesAreInOrder
  /\ OnlyLateEventsAreSkipped
  /\ NullMeansAll

\* An answer has all there is between the cursor and the next one; and all
\* there is beyond the cursor, if it says that there is no more.
LEMMA AskFacts ==
  ASSUME ALTypeOK
  PROVE  /\ Page(cursor) \subseteq Beyond(cursor)
         /\ NextCursor(cursor) \in cursor..drawn
         /\ \A e \in Page(cursor) : e <= NextCursor(cursor)
         /\ \A e \in Beyond(cursor) :
              e <= NextCursor(cursor) => e \in Page(cursor)
         /\ ~HasMore(cursor) => Page(cursor) = Beyond(cursor)
<1> DEFINE B == Beyond(cursor)
           F == FetchedEvents(cursor)
           P == Page(cursor)
<1>1. /\ drawn \in Nat /\ cursor \in Nat /\ cursor <= drawn
      /\ Limit \in Nat /\ Limit + 1 \in Nat
      /\ events \subseteq 1..drawn
  BY AuditAssumption DEF ALTypeOK, Ids
<1>2. B \subseteq 1..drawn /\ \A e : e \in B <=> e \in events /\ e > cursor
  BY <1>1 DEF Beyond
<1>3. F = First(Limit + 1, B) /\ P = First(Limit, F)
  BY DEF FetchedEvents, Page
<1>4. /\ HasMore(cursor) <=> Cardinality(F) > Limit
      /\ NextCursor(cursor) = IF P = {} THEN cursor ELSE LastId(P)
  BY DEF HasMore, NextCursor
<1> HIDE DEF B, F, P
<1>5. P \subseteq F /\ F \subseteq B
  BY <1>3, InFirst
<1>6. F \subseteq 1..drawn /\ P \subseteq 1..drawn
  BY <1>2, <1>5
<1>7. ASSUME NEW p \in P, NEW e \in B, e <= p PROVE e \in P
  <2>1. e \in F
    BY <1>1, <1>2, <1>3, <1>5, <1>7, FirstIsBeginning
  <2>2. QED
    BY <1>1, <1>3, <1>6, <1>7, <2>1, FirstIsBeginning
<1>8. ASSUME ~HasMore(cursor) PROVE P = B
  <2>1. IsFiniteSet(F) /\ Cardinality(F) \in Nat
    <3>1. 1 \in Int /\ drawn \in Int
      BY <1>1
    <3>2. IsFiniteSet(1..drawn)
      BY <3>1, FS_Interval
    <3>3. QED
      BY <1>6, <3>2, FS_Subset, FS_CardinalityType
  <2>2. Cardinality(F) <= Limit
    BY <1>1, <1>4, <1>8, <2>1
  <2>3. F = B
    BY <1>1, <1>2, <1>3, <2>2, FirstOfFew
  <2>4. P = F
    BY <1>1, <1>3, <1>6, <2>2, FirstOfFew
  <2>5. QED
    BY <2>3, <2>4
<1>9. CASE P = {}
  <2>1. NextCursor(cursor) = cursor
    BY <1>4, <1>9
  <2>2. QED
    BY <1>1, <1>2, <1>5, <1>8, <1>9, <2>1 DEF B, P
<1>10. CASE P # {}
  <2>1. /\ NextCursor(cursor) \in P
        /\ \A e \in P : e <= NextCursor(cursor)
    BY <1>1, <1>4, <1>6, <1>10, LastIsGreatest
  <2>2. NextCursor(cursor) \in B
    BY <1>5, <2>1
  <2>3. NextCursor(cursor) \in cursor..drawn
    <3>1. PICK c : c = NextCursor(cursor)
      OBVIOUS
    <3>2. c \in 1..drawn /\ c > cursor
      BY <1>2, <2>2, <3>1
    <3>3. c \in cursor..drawn
      BY <1>1, <3>2
    <3>4. QED
      BY <3>1, <3>3
  <2>4. QED
    BY <1>5, <1>7, <1>8, <2>1, <2>3 DEF B, P
<1>11. QED
  BY <1>9, <1>10

LEMMA AuditInit == ASSUME ALInit PROVE AuditInv
<1>1. pages = <<>> /\ events = {} /\ drawn = 0
  BY DEF ALInit
<1>2. ALTypeOK
  <2>1. failed \in BOOLEAN
    BY Zenon DEF ALInit
  <2>2. QED
    BY <2>1, AuditAssumption DEF ALInit, ALTypeOK, Ids
<1>3. QED
  BY <1>1, <1>2 DEF ALInit, AuditInv, AuditPagesInv, PagesAreInOrder,
     OnlyLateEventsAreSkipped, NullMeansAll

\* The writers only add events.
LEMMA WritersKeep ==
  ASSUME AuditInv, ALTypeOK',
         UNCHANGED <<cursor, phase, pages, owed, failed>>,
         events \subseteq events', late \subseteq late',
         \A e \in events' \ events : e <= cursor => e \in late'
  PROVE  AuditInv'
<1>1. Seen' = Seen
  BY DEF Seen
<1>2. AuditPagesInv' /\ PagesAreInOrder'
  BY DEF AuditInv, AuditPagesInv, PagesAreInOrder
<1>3. OnlyLateEventsAreSkipped'
  BY <1>1 DEF AuditInv, OnlyLateEventsAreSkipped
<1>4. NullMeansAll'
  BY <1>1 DEF AuditInv, NullMeansAll
<1>5. QED
  BY <1>2, <1>3, <1>4 DEF AuditInv

LEMMA AskKeeps ==
  ASSUME AuditInv, AskPage
  PROVE  AuditInv'
<1> DEFINE P == Page(cursor)
           B == Beyond(cursor)
           c == NextCursor(cursor)
<1>1. /\ drawn \in Nat /\ cursor \in Nat /\ cursor <= drawn
      /\ events \subseteq 1..drawn
      /\ pages \in Seq(SUBSET (1..drawn))
  BY DEF AuditInv, ALTypeOK, Ids
<1>2. /\ P \subseteq B
      /\ c \in cursor..drawn
      /\ \A e \in P : e <= c
      /\ \A e \in B : e <= c => e \in P
      /\ ~HasMore(cursor) => P = B
  BY AskFacts DEF AuditInv
<1>3. \A e : e \in B <=> e \in events /\ e > cursor
  BY DEF Beyond
<1>4. /\ pages' = IF P = {} THEN pages ELSE Append(pages, P)
      /\ cursor' = c
      /\ phase' = IF HasMore(cursor) THEN "reading" ELSE "finished"
      /\ UNCHANGED <<drawn, writing, events, owed, late, failed>>
  BY DEF AskPage
<1> HIDE DEF P, B, c
<1>5. P \subseteq events /\ P \subseteq 1..drawn
  BY <1>1, <1>2, <1>3
<1>6. \A i \in DOMAIN pages' :
        \/ i \in DOMAIN pages /\ pages'[i] = pages[i]
        \/ pages'[i] = P /\ i \notin DOMAIN pages /\ \A j \in DOMAIN pages : j < i
  BY <1>1, <1>4
<1>7. \A i \in DOMAIN pages : i \in DOMAIN pages' /\ pages'[i] = pages[i]
  BY <1>1, <1>4
<1>8. P # {} => \E i \in DOMAIN pages' : pages'[i] = P
  BY <1>1, <1>4
<1>9. ALTypeOK'
  <2>1. pages' \in Seq(SUBSET (1..drawn))
    <3>1. P \in SUBSET (1..drawn)
      BY <1>5
    <3>2. Append(pages, P) \in Seq(SUBSET (1..drawn))
      BY <1>1, <3>1
    <3>3. QED
      BY <1>1, <1>4, <3>2
  <2>2. cursor' \in 0..drawn /\ phase' \in {"idle", "reading", "finished"}
    BY <1>1, <1>2, <1>4
  <2>3. QED
    BY <1>4, <2>1, <2>2 DEF AuditInv, ALTypeOK, Ids
<1>10. AuditPagesInv'
  <2> SUFFICES ASSUME NEW i \in DOMAIN pages'
               PROVE  pages'[i] \subseteq events' /\ \A a \in pages'[i] : a <= cursor'
    BY DEF AuditPagesInv
  <2>1. CASE pages'[i] = P
    BY <1>2, <1>4, <1>5, <2>1
  <2>2. CASE i \in DOMAIN pages /\ pages'[i] = pages[i]
    <3>1. pages[i] \subseteq events /\ \A a \in pages[i] : a \in Nat /\ a <= cursor
      BY <1>1, <2>2 DEF AuditInv, AuditPagesInv
    <3>2. cursor' \in Nat /\ cursor <= cursor'
      BY <1>1, <1>2, <1>4
    <3>3. QED
      BY <1>1, <1>4, <2>2, <3>1, <3>2
  <2>3. QED
    BY <1>6, <2>1, <2>2
<1>11. PagesAreInOrder'
  <2> SUFFICES ASSUME NEW i \in DOMAIN pages', NEW j \in DOMAIN pages', i < j,
                      NEW a \in pages'[i], NEW b \in pages'[j]
               PROVE  a < b
    BY DEF PagesAreInOrder
  <2>1. i \in Nat /\ j \in Nat /\ DOMAIN pages \subseteq Nat
    BY <1>1, <1>4
  <2>2. i \in DOMAIN pages /\ pages'[i] = pages[i]
    <3>1. CASE j \in DOMAIN pages
      BY <1>1, <1>6, <2>1, <3>1
    <3>2. CASE j \notin DOMAIN pages
      BY <1>1, <1>4, <1>6, <2>1, <3>2
    <3>3. QED
      BY <3>1, <3>2
  <2>3. CASE j \in DOMAIN pages
    BY <1>7, <2>2, <2>3 DEF AuditInv, PagesAreInOrder
  <2>4. CASE pages'[j] = P
    <3>1. a \in Nat /\ a <= cursor
      BY <1>1, <2>2 DEF AuditInv, AuditPagesInv
    <3>2. b \in P
      BY <2>4
    <3>3. b \in Nat /\ b > cursor
      BY <1>1, <1>2, <1>3, <1>5, <3>2
    <3>4. QED
      BY <1>1, <3>1, <3>3
  <2>5. QED
    BY <1>6, <2>3, <2>4
<1>12. Seen \subseteq Seen' /\ P \subseteq Seen'
  <2>1. Seen \subseteq Seen'
    BY <1>7 DEF Seen
  <2>2. P \subseteq Seen'
    BY <1>8 DEF Seen
  <2>3. QED
    BY <2>1, <2>2
<1>13. OnlyLateEventsAreSkipped'
  <2> SUFFICES ASSUME NEW e \in events, e <= c
               PROVE  e \in Seen' \/ e \in late
    BY <1>4 DEF OnlyLateEventsAreSkipped
  <2>1. CASE e > cursor
    BY <1>2, <1>3, <1>12, <2>1
  <2>2. CASE ~(e > cursor)
    <3>1. e <= cursor
      BY <1>1, <2>2
    <3>2. QED
      BY <1>12, <3>1 DEF AuditInv, OnlyLateEventsAreSkipped
  <2>3. QED
    BY <2>1, <2>2
<1>14. NullMeansAll'
  <2> SUFFICES ASSUME phase' = "finished", NEW e \in owed
               PROVE  e \in Seen' \/ e \in late
    BY <1>4 DEF NullMeansAll
  <2>1. P = B
    BY <1>2, <1>4
  <2>2. e \in events
    BY DEF AuditInv, ALTypeOK
  <2>3. CASE e > cursor
    BY <1>3, <1>12, <2>1, <2>2, <2>3
  <2>4. CASE ~(e > cursor)
    <3>1. e <= cursor
      BY <1>1, <2>2, <2>4
    <3>2. QED
      BY <1>12, <2>2, <3>1 DEF AuditInv, OnlyLateEventsAreSkipped
  <2>5. QED
    BY <2>3, <2>4
<1>15. QED
  BY <1>9, <1>10, <1>11, <1>13, <1>14 DEF AuditInv

LEMMA AuditNext ==
  ASSUME AuditInv, [ALNext]_alVars
  PROVE  AuditInv'
<1> USE DEF Client
<1>1. /\ drawn \in Nat /\ cursor \in Nat /\ cursor <= drawn
      /\ writing \subseteq 1..drawn /\ events \subseteq 1..drawn
      /\ pages \in Seq(SUBSET (1..drawn))
  BY DEF AuditInv, ALTypeOK, Ids
<1>2. ASSUME Draw PROVE AuditInv'
  <2>1. /\ drawn' = drawn + 1 /\ drawn < MaxEvents /\ MaxEvents \in Nat
        /\ writing' = writing \cup {drawn + 1}
        /\ UNCHANGED <<events, cursor, phase, pages, owed, late, failed>>
    BY <1>2, AuditAssumption DEF Draw
  <2>2. 1..drawn \subseteq 1..drawn' /\ drawn' \in 0..MaxEvents /\ drawn + 1 \in 1..drawn'
    BY <1>1, <2>1
  <2>3. drawn + 1 \notin events /\ cursor \in 0..drawn'
    BY <1>1, <2>1
  <2>4. pages' \in Seq(SUBSET (1..drawn'))
    <3>1. \A i \in 1..Len(pages) : pages[i] \in SUBSET (1..drawn')
      BY <1>1, <2>2
    <3>2. QED
      BY <1>1, <2>1, <3>1
  <2>5. ALTypeOK'
    BY <1>1, <2>1, <2>2, <2>3, <2>4 DEF AuditInv, ALTypeOK, Ids
  <2>6. QED
    BY <2>1, <2>5, WritersKeep
<1>3. ASSUME NEW e \in writing, CommitEvent(e) PROVE AuditInv'
  <2>1. /\ writing' = writing \ {e} /\ events' = events \cup {e}
        /\ late' = IF e <= cursor THEN late \cup {e} ELSE late
        /\ UNCHANGED <<drawn, cursor, phase, pages, owed, failed>>
    BY <1>3 DEF CommitEvent
  <2>2. ALTypeOK'
    BY <1>3, <2>1 DEF AuditInv, ALTypeOK, Ids
  <2>3. QED
    BY <2>1, <2>2, WritersKeep
<1>4. ASSUME NEW e \in writing, NeverVisible(e) PROVE AuditInv'
  <2>1. ALTypeOK'
    BY <1>4 DEF NeverVisible, AuditInv, ALTypeOK, Ids
  <2>2. QED
    BY <1>4, <2>1, WritersKeep DEF NeverVisible
<1>5. ASSUME Begin PROVE AuditInv'
  <2>1. /\ phase' = "reading" /\ cursor' = 0 /\ pages' = <<>> /\ owed' = events
        /\ late' = {} /\ failed' = FALSE
        /\ UNCHANGED <<drawn, writing, events>>
    BY <1>5 DEF Begin
  <2>2. pages' \in Seq(SUBSET (1..drawn)) /\ cursor' \in 0..drawn
    BY <1>1, <2>1
  <2>3. failed' \in BOOLEAN
    BY <2>1, Zenon
  <2>4. ALTypeOK'
    BY <2>1, <2>2, <2>3 DEF AuditInv, ALTypeOK, Ids
  <2>5. AuditPagesInv' /\ PagesAreInOrder'
    BY <2>1 DEF AuditPagesInv, PagesAreInOrder
  <2>6. OnlyLateEventsAreSkipped'
    <3>1. \A e \in events : ~(e <= 0)
      BY <1>1
    <3>2. QED
      BY <2>1, <3>1 DEF OnlyLateEventsAreSkipped
  <2>7. QED
    BY <2>1, <2>4, <2>5, <2>6 DEF AuditInv, NullMeansAll
<1>6. ASSUME GoOn PROVE AuditInv'
  <2>1. /\ phase' = "reading" /\ owed' = events /\ failed' = FALSE
        /\ UNCHANGED <<drawn, writing, events, cursor, pages, late>>
    BY <1>6 DEF GoOn
  <2>2. failed' \in BOOLEAN
    BY <2>1, Zenon
  <2>3. ALTypeOK'
    BY <2>1, <2>2 DEF AuditInv, ALTypeOK, Ids
  <2>4. AuditPagesInv' /\ PagesAreInOrder' /\ OnlyLateEventsAreSkipped'
    BY <2>1 DEF AuditInv, AuditPagesInv, PagesAreInOrder,
                OnlyLateEventsAreSkipped, Seen
  <2>5. QED
    BY <2>1, <2>3, <2>4 DEF AuditInv, NullMeansAll
<1>7. ASSUME AskPageFails PROVE AuditInv'
  <2>1. /\ phase' = "finished" /\ failed' = TRUE
        /\ UNCHANGED <<drawn, writing, events, cursor, pages, owed, late>>
    BY <1>7 DEF AskPageFails
  <2>2. failed' \in BOOLEAN /\ failed'
    BY <2>1, Zenon
  <2>3. ALTypeOK'
    BY <2>1, <2>2 DEF AuditInv, ALTypeOK, Ids
  <2>4. AuditPagesInv' /\ PagesAreInOrder' /\ OnlyLateEventsAreSkipped'
    BY <2>1 DEF AuditInv, AuditPagesInv, PagesAreInOrder,
                OnlyLateEventsAreSkipped, Seen
  <2>5. QED
    BY <2>2, <2>3, <2>4 DEF AuditInv, NullMeansAll
<1>8. CASE UNCHANGED alVars
  <2>1. ALTypeOK'
    BY <1>8 DEF alVars, AuditInv, ALTypeOK, Ids
  <2>2. QED
    BY <1>8, <2>1, WritersKeep DEF alVars
<1>9. QED
  BY <1>2, <1>3, <1>4, <1>5, <1>6, <1>7, <1>8, AskKeeps DEF ALNext

LEMMA AuditInvAlways == ALSpec => []AuditInv
<1>1. ALInit => AuditInv
  BY AuditInit
<1>2. AuditInv /\ [ALNext]_alVars => AuditInv'
  BY AuditNext
<1>3. QED
  BY <1>1, <1>2, PTL DEF ALSpec

(***************************************************************************)
(* No event is shown twice, and none before one of an earlier page,        *)
(* whatever becomes visible between two pages (pg_store.py query_audit).   *)
(***************************************************************************)
THEOREM PagesAreInOrderAlways == ALSpec => []PagesAreInOrder
<1>1. ALSpec => []AuditInv
  BY AuditInvAlways
<1>2. AuditInv => PagesAreInOrder
  BY DEF AuditInv
<1>3. QED
  BY <1>1, <1>2, PTL

\* The pages have every event up to the cursor but those that became visible
\* when the client was past them (query_audit, admin_audit).
THEOREM OnlyLateEventsAreSkippedAlways == ALSpec => []OnlyLateEventsAreSkipped
<1>1. ALSpec => []AuditInv
  BY AuditInvAlways
<1>2. AuditInv => OnlyLateEventsAreSkipped
  BY DEF AuditInv
<1>3. QED
  BY <1>1, <1>2, PTL

\* When next_cursor is null the client has every event that was visible when
\* it began, or went on, but the late ones, unless a query failed
\* (query_audit, admin_audit).
THEOREM NullMeansAllAlways == ALSpec => []NullMeansAll
<1>1. ALSpec => []AuditInv
  BY AuditInvAlways
<1>2. AuditInv => NullMeansAll
  BY DEF AuditInv
<1>3. QED
  BY <1>1, <1>2, PTL

-----------------------------------------------------------------------------
(***************************************************************************)
(* The tables of identities.  What the loop over the rows makes of a table *)
(* has a closed form: under each name, the last row so far that carries it *)
(* (Led).  The closed form solves the equations of the loop, so they have  *)
(* a solution, and a least number where a solution differs from it cannot  *)
(* be.                                                                     *)
(***************************************************************************)
CarriersTo(s, kind, n, k) == {i \in 1..k : s[i].kind = kind /\ n \in Carried(s[i])}

LastOf(T) == CHOOSE i \in T : \A j \in T : j <= i

Led(start, s, kind, k) ==
  [n \in Names |->
     IF CarriersTo(s, kind, n, k) = {} THEN start[n]
     ELSE s[LastOf(CarriersTo(s, kind, n, k))]]

\* The equations of the loop over the rows.
Loops(f, start, s, kind) ==
  f = [k \in 0..Len(s) |->
         IF k = 0 THEN start
         ELSE IF s[k].kind = kind THEN Enter(f[k - 1], s[k]) ELSE f[k - 1]]

LEMMA LastOfFacts ==
  ASSUME NEW k \in Nat, NEW T, T \subseteq 1..k, T # {}
  PROVE  LastOf(T) \in T /\ \A j \in T : j <= LastOf(T)
<1>1. \E m \in T : \A j \in T : j <= m
  <2>1. T \subseteq Nat /\ \A j \in T : j <= k
    OBVIOUS
  <2>2. QED
    BY <2>1, GreatestNumber
<1>2. QED
  BY <1>1 DEF LastOf

\* The next row is the last to carry its names, and changes no other.
LEMMA NextCarrier ==
  ASSUME NEW s, NEW kind, NEW n, NEW k \in Nat \ {0}
  PROVE  /\ ~(s[k].kind = kind /\ n \in Carried(s[k])) =>
              CarriersTo(s, kind, n, k) = CarriersTo(s, kind, n, k - 1)
         /\ s[k].kind = kind /\ n \in Carried(s[k]) =>
              /\ CarriersTo(s, kind, n, k) # {}
              /\ LastOf(CarriersTo(s, kind, n, k)) = k
<1>1. \A i : i \in 1..k <=> i = k \/ i \in 1..(k - 1)
  OBVIOUS
<1>2. ASSUME ~(s[k].kind = kind /\ n \in Carried(s[k]))
      PROVE  CarriersTo(s, kind, n, k) = CarriersTo(s, kind, n, k - 1)
  BY <1>1, <1>2, Zenon DEF CarriersTo
<1>3. ASSUME s[k].kind = kind /\ n \in Carried(s[k])
      PROVE  /\ CarriersTo(s, kind, n, k) # {}
             /\ LastOf(CarriersTo(s, kind, n, k)) = k
  <2> DEFINE T == CarriersTo(s, kind, n, k)
  <2>1. k \in T /\ T \subseteq 1..k
    BY <1>1, <1>3, Zenon DEF CarriersTo
  <2> HIDE DEF T
  <2>2. LastOf(T) \in T /\ \A j \in T : j <= LastOf(T)
    BY <2>1, LastOfFacts
  <2>3. LastOf(T) = k
    <3>1. \A g : g \in 1..k /\ k <= g => g = k
      OBVIOUS
    <3>2. QED
      BY <2>1, <2>2, <3>1, Zenon
  <2>4. QED
    BY <2>1, <2>3 DEF T
<1>4. QED
  BY <1>2, <1>3

LEMMA LedStep ==
  ASSUME NEW start, start = [n \in Names |-> start[n]],
         NEW s, NEW kind
  PROVE  /\ Led(start, s, kind, 0) = start
         /\ \A k \in Nat \ {0} :
              Led(start, s, kind, k) =
                IF s[k].kind = kind THEN Enter(Led(start, s, kind, k - 1), s[k])
                ELSE Led(start, s, kind, k - 1)
<1>1. Led(start, s, kind, 0) = start
  <2>1. \A n \in Names : CarriersTo(s, kind, n, 0) = {}
    BY DEF CarriersTo
  <2>2. Led(start, s, kind, 0) = [n \in Names |-> start[n]]
    BY <2>1, Zenon DEF Led
  <2>3. QED
    BY <2>2
<1>2. ASSUME NEW k \in Nat \ {0}
      PROVE  Led(start, s, kind, k) =
               IF s[k].kind = kind THEN Enter(Led(start, s, kind, k - 1), s[k])
               ELSE Led(start, s, kind, k - 1)
  <2> DEFINE before == Led(start, s, kind, k - 1)
  <2>1. ASSUME NEW n \in Names
        PROVE  Led(start, s, kind, k)[n] =
                 IF s[k].kind = kind /\ n \in Carried(s[k]) THEN s[k] ELSE before[n]
    <3>1. CASE s[k].kind = kind /\ n \in Carried(s[k])
      <4>1. /\ CarriersTo(s, kind, n, k) # {}
            /\ LastOf(CarriersTo(s, kind, n, k)) = k
        BY <3>1, NextCarrier
      <4>2. QED
        BY <3>1, <4>1, Zenon DEF Led
    <3>2. CASE ~(s[k].kind = kind /\ n \in Carried(s[k]))
      <4>1. CarriersTo(s, kind, n, k) = CarriersTo(s, kind, n, k - 1)
        BY <3>2, NextCarrier
      <4>2. QED
        BY <3>2, <4>1, Zenon DEF Led
    <3>3. QED
      BY <3>1, <3>2, Zenon
  <2>2. /\ Led(start, s, kind, k) = [n \in Names |-> Led(start, s, kind, k)[n]]
        /\ before = [n \in Names |-> before[n]]
    BY DEF Led
  <2> HIDE DEF before
  <2>3. CASE s[k].kind = kind
    <3>1. Enter(before, s[k]) = [n \in Names |-> Led(start, s, kind, k)[n]]
      BY <2>1, <2>3 DEF Enter
    <3>2. QED
      BY <2>2, <2>3, <3>1 DEF before
  <2>4. CASE s[k].kind # kind
    <3>1. \A n \in Names : Led(start, s, kind, k)[n] = before[n]
      BY <2>1, <2>4
    <3>2. QED
      BY <2>2, <2>4, <3>1 DEF before
  <2>5. QED
    BY <2>3, <2>4
<1>3. QED
  BY <1>1, <1>2

LEMMA FilledIsLed ==
  ASSUME NEW start, start = [n \in Names |-> start[n]],
         NEW s, Len(s) \in Nat, NEW kind
  PROVE  Filled(start, s, kind) = Led(start, s, kind, Len(s))
<1> DEFINE N == Len(s)
           filled[k \in 0..Len(s)] ==
             IF k = 0 THEN start
             ELSE IF s[k].kind = kind THEN Enter(filled[k - 1], s[k]) ELSE filled[k - 1]
           led == [k \in 0..N |-> Led(start, s, kind, k)]
<1>0. /\ Led(start, s, kind, 0) = start
      /\ \A k \in Nat \ {0} :
           Led(start, s, kind, k) =
             IF s[k].kind = kind THEN Enter(Led(start, s, kind, k - 1), s[k])
             ELSE Led(start, s, kind, k - 1)
  BY LedStep
<1>1. Filled(start, s, kind) = filled[N]
  BY DEF Filled
<1>2. filled = CHOOSE f : Loops(f, start, s, kind)
  BY DEF Loops
<1>3. \A k \in 0..N : k # 0 => k \in Nat \ {0} /\ k - 1 \in 0..N
  OBVIOUS
<1>4. Loops(led, start, s, kind)
  <2>1. \A k \in 0..N :
          led[k] = IF k = 0 THEN start
                   ELSE IF s[k].kind = kind THEN Enter(led[k - 1], s[k]) ELSE led[k - 1]
    BY <1>0, <1>3
  <2>2. led = [k \in 0..N |-> led[k]]
    OBVIOUS
  <2> HIDE DEF led
  <2>3. QED
    BY <2>1, <2>2, Zenon DEF Loops
<1>5. Loops(filled, start, s, kind)
  BY <1>2, <1>4, Zenon
<1> HIDE DEF filled
<1>6. \A k \in 0..N :
        filled[k] = IF k = 0 THEN start
                    ELSE IF s[k].kind = kind THEN Enter(filled[k - 1], s[k]) ELSE filled[k - 1]
  BY <1>5, Zenon DEF Loops
<1> DEFINE Wrong == {k \in 0..N : filled[k] # Led(start, s, kind, k)}
<1>7. Wrong = {}
  <2>1. SUFFICES ASSUME Wrong # {} PROVE FALSE
    OBVIOUS
  <2>2. PICK k \in Wrong : \A j \in Wrong : k <= j
    <3>1. Wrong \subseteq Nat
      OBVIOUS
    <3> HIDE DEF Wrong
    <3>2. QED
      BY <2>1, <3>1, LeastNumber
  <2>3. k \in 0..N /\ filled[k] # Led(start, s, kind, k)
    OBVIOUS
  <2>4. k # 0
    BY <1>0, <1>6, <2>3
  <2>5. k - 1 \in 0..N /\ k - 1 \notin Wrong /\ k \in Nat \ {0}
    <3>1. k - 1 \in 0..N /\ k \in Nat \ {0} /\ ~(k <= k - 1)
      BY <2>3, <2>4
    <3>2. QED
      BY <2>2, <3>1
  <2>6. filled[k - 1] = Led(start, s, kind, k - 1)
    BY <2>5
  <2>7. filled[k] = IF s[k].kind = kind THEN Enter(filled[k - 1], s[k]) ELSE filled[k - 1]
    BY <1>6, <2>3, <2>4, Zenon
  <2>8. Led(start, s, kind, k) =
          IF s[k].kind = kind THEN Enter(Led(start, s, kind, k - 1), s[k])
          ELSE Led(start, s, kind, k - 1)
    BY <1>0, <2>5, Zenon
  <2>9. CASE s[k].kind = kind
    BY <2>3, <2>6, <2>7, <2>8, <2>9
  <2>10. CASE s[k].kind # kind
    BY <2>3, <2>6, <2>7, <2>8, <2>10
  <2>11. QED
    BY <2>9, <2>10
<1>8. N \in 0..N
  OBVIOUS
<1>9. QED
  BY <1>1, <1>7, <1>8

TablesInv == ITTypeOK /\ TablesAreExact

LEMMA LedType ==
  ASSUME NEW s \in Seq(Rows), NEW kind
  PROVE  /\ Empty = [n \in Names |-> Empty[n]]
         /\ Led(Empty, s, kind, Len(s)) \in [Names -> Rows \cup {Nobody}]
<1>1. Empty = [n \in Names |-> Empty[n]] /\ \A n \in Names : Empty[n] = Nobody
  BY DEF Empty
<1>2. ASSUME NEW n \in Names, CarriersTo(s, kind, n, Len(s)) # {}
      PROVE  s[LastOf(CarriersTo(s, kind, n, Len(s)))] \in Rows
  <2> DEFINE T == CarriersTo(s, kind, n, Len(s))
  <2>1. Len(s) \in Nat /\ T \subseteq 1..Len(s) /\ \A i \in 1..Len(s) : s[i] \in Rows
    BY DEF CarriersTo
  <2> HIDE DEF T
  <2>2. LastOf(T) \in T
    BY <1>2, <2>1, LastOfFacts DEF T
  <2>3. QED
    BY <2>1, <2>2 DEF T
<1>3. QED
  BY <1>1, <1>2 DEF Led

\* A store that was loaded from rows s has the tables of these rows.
LEMMA LoadKeeps ==
  ASSUME NEW s \in Seq(Rows), Len(s) <= MaxRows, Load(s), app' \in Apps
  PROVE  TablesInv'
<1>1. /\ rows' = s
      /\ users' = Led(Empty, s, "user", Len(s))
      /\ sps' = Led(Empty, s, "sp", Len(s))
  <2>1. Len(s) \in Nat /\ Empty = [n \in Names |-> Empty[n]]
    BY LedType
  <2>2. \A kind : Filled(Empty, s, kind) = Led(Empty, s, kind, Len(s))
    BY <2>1, FilledIsLed
  <2>3. QED
    BY <2>2 DEF Load, Table
<1>2. ITTypeOK'
  BY <1>1, LedType DEF ITTypeOK
<1>3. ASSUME NEW n \in Names, NEW kind
      PROVE  LastCarrier(kind, n)' = Led(Empty, s, kind, Len(s))[n]
  <2>1. Carriers(kind, n)' = CarriersTo(s, kind, n, Len(s))
    <3>1. DOMAIN s = 1..Len(s)
      OBVIOUS
    <3>2. QED
      BY <1>1, <3>1 DEF Carriers, CarriersTo
  <2>2. LastCarrier(kind, n)' =
          IF CarriersTo(s, kind, n, Len(s)) = {} THEN Nobody
          ELSE s[LastOf(CarriersTo(s, kind, n, Len(s)))]
    <3>1. LastCarrier(kind, n)' =
            IF Carriers(kind, n)' = {} THEN Nobody ELSE rows'[LastOf(Carriers(kind, n)')]
      BY DEF LastCarrier, LastOf
    <3>2. QED
      BY <1>1, <2>1, <3>1
  <2>3. Empty[n] = Nobody
    BY DEF Empty
  <2>4. QED
    BY <2>2, <2>3, Zenon DEF Led
<1>4. TablesAreExact'
  BY <1>1, <1>3 DEF TablesAreExact
<1>5. QED
  BY <1>2, <1>4 DEF TablesInv

LEMMA TablesInit == ASSUME ITInit PROVE TablesInv
<1>1. /\ rows \in Seq(Rows) /\ Len(rows) = 0 /\ DOMAIN rows = {}
      /\ users = Empty /\ sps = Empty /\ app \in Apps
  <2>1. <<>> \in Seq(Rows) /\ Len(<<>>) = 0 /\ DOMAIN <<>> = {}
    OBVIOUS
  <2>2. rows = <<>> /\ users = Empty /\ sps = Empty
    BY DEF ITInit
  <2>3. app \in Apps
    BY Zenon DEF ITInit, Apps
  <2>4. QED
    BY <2>1, <2>2, <2>3, Zenon
<1>2. Empty \in [Names -> Rows \cup {Nobody}] /\ \A n \in Names : Empty[n] = Nobody
  BY DEF Empty
<1>3. ITTypeOK
  BY <1>1, <1>2, TablesAssumption DEF ITTypeOK
<1>4. \A kind, n : LastCarrier(kind, n) = Nobody
  BY <1>1 DEF LastCarrier, Carriers
<1>5. QED
  BY <1>1, <1>2, <1>3, <1>4 DEF TablesInv, TablesAreExact

LEMMA TablesNext ==
  ASSUME TablesInv, [ITNext]_itVars
  PROVE  TablesInv'
<1>1. rows \in Seq(Rows) /\ Len(rows) \in Nat /\ Len(rows) <= MaxRows /\ MaxRows \in Nat
  BY TablesAssumption DEF TablesInv, ITTypeOK
<1>2. app \in Apps
  BY DEF TablesInv, ITTypeOK
<1>3. ASSUME Added PROVE TablesInv'
  <2>1. PICK r \in Rows : Load(Append(rows, r))
    BY <1>3 DEF Added
  <2>2. Append(rows, r) \in Seq(Rows) /\ Len(Append(rows, r)) <= MaxRows
    BY <1>1, <1>3 DEF Added
  <2>3. QED
    BY <1>2, <1>3, <2>1, <2>2, LoadKeeps DEF Added
<1>4. ASSUME Removed PROVE TablesInv'
  <2>1. PICK i \in DOMAIN rows : Load(RemoveAt(rows, i))
    BY <1>4 DEF Removed
  <2>2. i \in 1..Len(rows)
    BY <1>1
  <2>3. /\ SubSeq(rows, 1, i - 1) \in Seq(Rows)
        /\ Len(SubSeq(rows, 1, i - 1)) = i - 1
        /\ SubSeq(rows, i + 1, Len(rows)) \in Seq(Rows)
        /\ Len(SubSeq(rows, i + 1, Len(rows))) = Len(rows) - i
    BY <1>1, <2>2
  <2>4. RemoveAt(rows, i) \in Seq(Rows) /\ Len(RemoveAt(rows, i)) <= MaxRows
    BY <1>1, <2>2, <2>3 DEF RemoveAt
  <2>5. QED
    BY <1>2, <1>4, <2>1, <2>4, LoadKeeps DEF Removed
<1>5. ASSUME Reordered PROVE TablesInv'
  <2>1. PICK i, j \in DOMAIN rows : Load([rows EXCEPT ![i] = rows[j], ![j] = rows[i]])
    BY <1>5 DEF Reordered
  <2> DEFINE s == [rows EXCEPT ![i] = rows[j], ![j] = rows[i]]
  <2>2. s \in Seq(Rows) /\ Len(s) = Len(rows)
    BY <1>1, <2>1
  <2>3. app' \in Apps
    BY <1>2, <1>5 DEF Reordered
  <2> HIDE DEF s
  <2>4. QED
    BY <1>1, <2>1, <2>2, <2>3, LoadKeeps DEF s
<1>6. ASSUME AppLoaded PROVE TablesInv'
  BY <1>6 DEF AppLoaded, TablesInv, ITTypeOK, TablesAreExact, LastCarrier, Carriers
<1>7. CASE UNCHANGED itVars
  BY <1>7 DEF itVars, TablesInv, ITTypeOK, TablesAreExact, LastCarrier, Carriers
<1>8. QED
  BY <1>3, <1>4, <1>5, <1>6, <1>7 DEF ITNext

LEMMA TablesInvAlways == ITSpec => []TablesInv
<1>1. ITInit => TablesInv
  BY TablesInit
<1>2. TablesInv /\ [ITNext]_itVars => TablesInv'
  BY TablesNext
<1>3. QED
  BY <1>1, <1>2, PTL DEF ITSpec

\* An identity that is found was declared, in a row that carries the name.
LEMMA FoundIsDeclared ==
  ASSUME TablesInv, NEW f \in Found
  PROVE  f[1] \in Rows /\ f[2] \in Carried(f[1])
<1>1. PICK kind \in {"user", "sp"}, n \in Names :
        f = <<LastCarrier(kind, n), n>> /\ LastCarrier(kind, n) # Nobody
  BY DEF TablesInv, TablesAreExact, Found
<1> DEFINE T == Carriers(kind, n)
<1>2. T # {} /\ f = <<rows[LastOf(T)], n>>
  BY <1>1, Zenon DEF LastCarrier, LastOf
<1>3. /\ T \subseteq 1..Len(rows) /\ Len(rows) \in Nat
      /\ \A i \in 1..Len(rows) : rows[i] \in Rows
      /\ \A i \in T : n \in Carried(rows[i])
  BY DEF Carriers, TablesInv, ITTypeOK
<1> HIDE DEF T
<1>4. LastOf(T) \in T
  BY <1>2, <1>3, LastOfFacts
<1>5. QED
  BY <1>2, <1>3, <1>4

(***************************************************************************)
(* After any sequence of reloads, of any number of rows in any order, a    *)
(* name leads to the last row that carries it, and to nobody if no row does*)
(* (yaml_store.py _apply, pg_store.py _fetch_and_apply).                   *)
(***************************************************************************)
THEOREM TablesAreExactAlways == ITSpec => []TablesAreExact
<1>1. TablesInv => TablesAreExact
  BY DEF TablesInv
<1>2. QED
  BY <1>1, TablesInvAlways, PTL

\* The names of an identity are worth the same (tokens.py check_audience and
\* resolve_roles): a user has only one, and grants to a service principal go
\* by its key.
THEOREM NamesAreWorthTheSameAlways == ITSpec => []NamesAreWorthTheSame
<1>1. TablesInv => NamesAreWorthTheSame
  <2>1. SUFFICES ASSUME TablesInv, NEW f \in Found, NEW g \in Found, f[1] = g[1]
                 PROVE  /\ AudienceKey(f[1], f[2]) = AudienceKey(g[1], g[2])
                        /\ RolesKey(f[1], f[2]) = RolesKey(g[1], g[2])
    BY DEF NamesAreWorthTheSame, Admitted, AudienceRoles
  <2>2. /\ f[1] \in Rows /\ f[2] \in Carried(f[1])
        /\ g[1] \in Rows /\ g[2] \in Carried(g[1])
    BY <2>1, FoundIsDeclared
  <2>3. ASSUME NEW r \in Rows, NEW n \in Carried(r), r.kind # "sp"
        PROVE  n = r.name
    BY <2>3 DEF Rows, Carried, Canonical
  <2>4. CASE f[1].kind = "sp"
    BY <2>1, <2>4 DEF AudienceKey, RolesKey
  <2>5. CASE f[1].kind # "sp"
    BY <2>1, <2>2, <2>3, <2>5 DEF AudienceKey, RolesKey
  <2>6. QED
    BY <2>4, <2>5
<1>2. QED
  BY <1>1, TablesInvAlways, PTL

-----------------------------------------------------------------------------
(***************************************************************************)
(* The SELECTs have no ORDER BY, so a reload may bring the same rows in    *)
(* another order (pg_store.py _fetch_and_apply).  It then moves no name    *)
(* that a single row carries.                                              *)
(***************************************************************************)
Alone(kind, n) == \A i, j \in Carriers(kind, n) : rows[i] = rows[j]

OrderMattersOnlyToSharedNames ==
  [][ToSet(rows') = ToSet(rows) =>
       \A n \in Names : /\ Alone("user", n) => users'[n] = users[n]
                        /\ Alone("sp", n) => sps'[n] = sps[n]]_itVars

CarriersIn(s, kind, n) == CarriersTo(s, kind, n, Len(s))

Leads(s, kind, n) ==
  IF CarriersIn(s, kind, n) = {} THEN Nobody ELSE s[LastOf(CarriersIn(s, kind, n))]

LEMMA LeadsFacts ==
  ASSUME NEW s \in Seq(Rows), NEW kind, NEW n
  PROVE  /\ CarriersIn(s, kind, n) = {} => Leads(s, kind, n) = Nobody
         /\ CarriersIn(s, kind, n) # {} =>
              \E i \in CarriersIn(s, kind, n) : Leads(s, kind, n) = s[i]
<1> DEFINE T == CarriersIn(s, kind, n)
<1>1. Len(s) \in Nat /\ T \subseteq 1..Len(s)
  BY DEF CarriersIn, CarriersTo
<1> HIDE DEF T
<1>2. T # {} => LastOf(T) \in T
  BY <1>1, LastOfFacts
<1>3. QED
  BY <1>2 DEF Leads, T

LEMMA SameRowsLeadTheSame ==
  ASSUME NEW s \in Seq(Rows), NEW u \in Seq(Rows), ToSet(s) = ToSet(u),
         NEW kind, NEW n,
         \A i, j \in CarriersIn(s, kind, n) : s[i] = s[j]
  PROVE  Leads(s, kind, n) = Leads(u, kind, n)
<1> DEFINE Carries(x) == x.kind = kind /\ n \in Carried(x)
<1>1. ASSUME NEW v \in Seq(Rows)
      PROVE  \A x : x \in ToSet(v) /\ Carries(x) <=>
                      \E i \in CarriersIn(v, kind, n) : x = v[i]
  <2>1. DOMAIN v = 1..Len(v)
    OBVIOUS
  <2>2. QED
    BY <2>1, Zenon DEF ToSet, CarriersIn, CarriersTo
<1> HIDE DEF Carries
<1>2. CarriersIn(s, kind, n) = {} <=> CarriersIn(u, kind, n) = {}
  BY <1>1
<1>3. CASE CarriersIn(s, kind, n) = {}
  BY <1>2, <1>3, LeadsFacts
<1>4. CASE CarriersIn(s, kind, n) # {}
  <2>1. PICK i \in CarriersIn(s, kind, n) : Leads(s, kind, n) = s[i]
    BY <1>4, LeadsFacts
  <2>2. PICK j \in CarriersIn(u, kind, n) : Leads(u, kind, n) = u[j]
    BY <1>2, <1>4, LeadsFacts
  <2>3. PICK k \in CarriersIn(s, kind, n) : u[j] = s[k]
    BY <1>1
  <2>4. QED
    BY <2>1, <2>2, <2>3
<1>5. QED
  BY <1>3, <1>4

LEMMA LookUps ==
  ASSUME TablesInv, NEW n \in Names
  PROVE  /\ users[n] = Leads(rows, "user", n) /\ sps[n] = Leads(rows, "sp", n)
         /\ \A kind : Carriers(kind, n) = CarriersIn(rows, kind, n)
<1>1. \A kind : Carriers(kind, n) = CarriersIn(rows, kind, n)
  <2>1. DOMAIN rows = 1..Len(rows)
    BY DEF TablesInv, ITTypeOK
  <2>2. QED
    BY <2>1, Zenon DEF Carriers, CarriersIn, CarriersTo
<1>2. \A kind : LastCarrier(kind, n) =
        IF Carriers(kind, n) = {} THEN Nobody ELSE rows[LastOf(Carriers(kind, n))]
  BY DEF LastCarrier, LastOf
<1>3. \A kind : LastCarrier(kind, n) = Leads(rows, kind, n)
  BY <1>1, <1>2 DEF Leads
<1>4. QED
  BY <1>1, <1>3 DEF TablesInv, TablesAreExact

\* Rows that come in another order, with whatever else a reload may bring,
\* move no name that a single row carries (pg_store.py _fetch_and_apply).
THEOREM OrderMattersOnlyToSharedNamesAlways == ITSpec => OrderMattersOnlyToSharedNames
<1> DEFINE LooksUp == \A n \in Names :
                        /\ users[n] = Leads(rows, "user", n)
                        /\ sps[n] = Leads(rows, "sp", n)
           Kept == ToSet(rows') = ToSet(rows) =>
                     \A n \in Names : /\ Alone("user", n) => users'[n] = users[n]
                                      /\ Alone("sp", n) => sps'[n] = sps[n]
<1>1. TablesInv => LooksUp /\ rows \in Seq(Rows)
  BY LookUps DEF TablesInv, ITTypeOK
<1>2. ASSUME TablesInv, LooksUp, rows \in Seq(Rows), LooksUp', (rows \in Seq(Rows))'
      PROVE  Kept
  <2>1. SUFFICES ASSUME ToSet(rows') = ToSet(rows), NEW n \in Names, NEW kind,
                        Alone(kind, n)
                 PROVE  Leads(rows', kind, n) = Leads(rows, kind, n)
    BY <1>2, Zenon
  <2>2. \A i, j \in CarriersIn(rows, kind, n) : rows[i] = rows[j]
    BY <1>2, <2>1, LookUps DEF Alone
  <2>3. QED
    BY <1>2, <2>1, <2>2, SameRowsLeadTheSame
<1> HIDE DEF LooksUp
<1>3. TablesInv /\ LooksUp /\ LooksUp' /\ rows \in Seq(Rows) /\ (rows \in Seq(Rows))'
        => [Kept]_itVars
  BY <1>2
<1> HIDE DEF Kept
<1>4. QED
  BY <1>1, <1>3, TablesInvAlways, PTL DEF OrderMattersOnlyToSharedNames, Kept
=============================================================================
