-------------------------- MODULE OrgRegistryProofs --------------------------
(***************************************************************************)
(* Proofs about the registry of orgs, for any pods, slugs, numbers of admin*)
(* requests and of keys: its invariants, and that it implements OrgLife.   *)
(***************************************************************************)
EXTENDS OrgRegistry, TLAPS

-----------------------------------------------------------------------------
(***************************************************************************)
(* The inductive invariant.  First, what holds of the request in one slot. *)
(***************************************************************************)

\* The row of its key is there, or was.
Placed(x) == orgs[x.slug] = x.key \/ <<x.slug, x.key>> \in deleted

\* Nobody waits for an orphan; a request that is waited for has a pod.
WaitInv(x) ==
  IF x.orphan THEN x.phase \in Statements ELSE x.phase # "idle" => Up(x.pod)

\* A key is new when it is to be inserted, and placed from then on.
KeyInv(x) ==
  /\ x.phase \in {"insert", "config", "load"} => x.key \in 1..drawn
  /\ x.phase = "insert" => ~Placed(x)
  /\ x.phase \in {"config", "load"} => Placed(x)
  /\ x.phase = "load" => x.slug \in conf
  /\ x.phase = "pop" => <<x.slug, x.key>> \in deleted

(***************************************************************************)
(* A request that is about to change a dictionary knows, by "crossed", of  *)
(* another org that has got the slug, and of the end of the org it creates.*)
(***************************************************************************)
CrossInv(x) ==
  ~x.orphan =>
    /\ /\ x.phase \in {"config", "load", "pop"}
       /\ orgs[x.slug] \notin {NoKey, x.key}
       => <<x.pod, orgs[x.slug]>> \in crossed
    /\ x.phase \in {"config", "load"} /\ <<x.slug, x.key>> \in deleted
       => <<x.pod, x.key>> \in crossed

OpsInv == \A o \in Ops : WaitInv(op[o]) /\ KeyInv(op[o]) /\ CrossInv(op[o])

\* No key is created twice.
Creates(x) == x.phase \in {"insert", "config", "load"}

UniqueInv ==
  \A o, p \in Ops :
    Creates(op[o]) /\ Creates(op[p]) /\ op[o].key = op[p].key => o = p

\* A row that is there was not deleted.
RowsInv ==
  \A s \in Slugs :
    orgs[s] # NoKey => orgs[s] \in 1..drawn /\ <<s, orgs[s]>> \notin deleted

(***************************************************************************)
(* A pod that starts loads rows that are there or were deleted meanwhile:  *)
(* all those it has told of in a former life, none it has closed.          *)
(***************************************************************************)
StartInv ==
  /\ \A q \in Pods, s \in Slugs :
       pod[q].todo[s] # NoKey =>
         pod[q].todo[s] = orgs[s] \/ <<s, pod[q].todo[s]>> \in deleted
  /\ \A t \in told :
       /\ pod[t.pod].phase = "loading"
       /\ <<t.slug, t.key>> \notin deleted
       => t.key \in {cache[t.pod][t.slug], pod[t.pod].todo[t.slug]}
  /\ \A c \in closed :
       pod[c.pod].phase = "loading" => pod[c.pod].todo[c.slug] # c.key

\* A pod that is down has no dictionary, and one that starts fills an empty one.
FreshInv ==
  \A q \in Pods, s \in Slugs :
    /\ pod[q].phase = "down" => cache[q][s] = NoKey
    /\ pod[q].phase = "loading" => NoKey \in {cache[q][s], pod[q].todo[s]}

ClosedInv == \A c \in closed : <<c.slug, c.key>> \in deleted

IInv ==
  /\ TypeOK
  /\ OpsInv
  /\ UniqueInv
  /\ RowsInv
  /\ StartInv
  /\ FreshInv
  /\ ClosedInv
  /\ ToldKeysStayGood
  /\ ToldKeysWork
  /\ DeletedOrgsAreGone

-----------------------------------------------------------------------------
OpType == ActiveOps \cup {IdleOp}

LEMMA IdleFacts ==
  /\ IdleOp.phase = "idle" /\ IdleOp.key = NoKey
  /\ IdleOp.orphan = FALSE
  BY DEF IdleOp

LEMMA OpFields ==
  ASSUME NEW x \in OpType, x.phase # "idle"
  PROVE  /\ x \in ActiveOps
         /\ x.phase \in Phases /\ x.pod \in Pods /\ x.slug \in Slugs
         /\ x.key \in Keys \cup {NoKey}
         /\ x.orphan \in BOOLEAN
  BY DEF OpType, IdleOp, ActiveOps

(***************************************************************************)
(* Slot o gets a new request, moves on, or is free again.                  *)
(***************************************************************************)
LEMMA BeginFacts ==
  ASSUME op \in [Ops -> OpType], NEW o \in Ops, NEW q \in Pods, NEW s \in Slugs,
         NEW phase \in Phases \ {"idle"}, NEW k \in Keys \cup {NoKey},
         Begin(o, phase, q, s, k)
  PROVE  /\ op' \in [Ops -> OpType]
         /\ \A p \in Ops : p # o => op'[p] = op[p]
         /\ op'[o].phase = phase /\ op'[o].pod = q /\ op'[o].slug = s
         /\ op'[o].key = k
         /\ ~op'[o].orphan
  BY DEF Begin, OpType, ActiveOps

LEMMA GoesFacts ==
  ASSUME op \in [Ops -> OpType], NEW o \in Ops, ~At(o, "idle"),
         NEW phase \in Phases \ {"idle"}, Goes(o, phase)
  PROVE  /\ op' \in [Ops -> OpType]
         /\ \A p \in Ops : p # o => op'[p] = op[p]
         /\ op[o].orphan => op'[o] = IdleOp
         /\ ~op[o].orphan =>
              /\ op'[o].phase = phase /\ op'[o].pod = op[o].pod
              /\ op'[o].slug = op[o].slug /\ op'[o].key = op[o].key
              /\ ~op'[o].orphan
<1> DEFINE y == [op[o] EXCEPT !.phase = phase]
<1>1. op[o] \in ActiveOps
  BY OpFields DEF At
<1>2. /\ y \in ActiveOps /\ y.phase = phase /\ y.pod = op[o].pod
      /\ y.slug = op[o].slug /\ y.key = op[o].key
      /\ y.orphan = op[o].orphan
  BY <1>1 DEF ActiveOps
<1> HIDE DEF y
<1>3. op' = [op EXCEPT ![o] = IF op[o].orphan THEN IdleOp ELSE y]
  BY DEF Goes, y
<1>4. op'[o] = IF op[o].orphan THEN IdleOp ELSE y
  BY <1>3
<1>5. op' \in [Ops -> OpType] /\ \A p \in Ops : p # o => op'[p] = op[p]
  BY <1>2, <1>3 DEF OpType
<1>6. ~op[o].orphan => op'[o] = y /\ ~y.orphan
  BY <1>4, <1>2, Zenon
<1>7. op[o].orphan => op'[o] = IdleOp
  BY <1>4, Zenon
<1>8. QED
  BY <1>2, <1>5, <1>6, <1>7, Zenon

LEMMA EndsFacts ==
  ASSUME op \in [Ops -> OpType], NEW o \in Ops, Ends(o)
  PROVE  /\ op' \in [Ops -> OpType]
         /\ \A p \in Ops : p # o => op'[p] = op[p]
         /\ op'[o] = IdleOp
  BY DEF Ends, OpType

LEMMA BetweenFacts ==
  ASSUME op \in [Ops -> OpType], NEW s, NEW k
  PROVE  /\ Between(s) \subseteq Pods /\ Creating(k) \subseteq Pods
         /\ \A o \in Ops :
              /\ op[o].phase \in {"config", "load", "pop"} /\ op[o].slug = s
                   /\ ~op[o].orphan
                   => op[o].pod \in Between(s)
              /\ op[o].phase \in {"config", "load"} /\ op[o].key = k
                   /\ ~op[o].orphan
                   => op[o].pod \in Creating(k)
  BY OpFields DEF Between, Creating

-----------------------------------------------------------------------------
LEMMA InitIInv == Init => IInv
<1> SUFFICES ASSUME Init PROVE IInv
  OBVIOUS
<1>1. /\ orgs = [s \in Slugs |-> NoKey] /\ conf = {}
      /\ cache = [q \in Pods |-> [s \in Slugs |-> NoKey]]
      /\ pod = [q \in Pods |-> [phase |-> "down", todo |-> [s \in Slugs |-> NoKey]]]
      /\ op = [o \in Ops |-> IdleOp]
      /\ drawn = 0 /\ told = {} /\ deleted = {} /\ closed = {} /\ crossed = {}
  BY DEF Init, NoRows
<1>2. TypeOK
  BY <1>1, RegistryAssumption DEF TypeOK, Rows, Keys
<1>3. \A o \in Ops : op[o].phase = "idle" /\ ~op[o].orphan
  BY <1>1, IdleFacts
<1>4. OpsInv /\ UniqueInv
  BY <1>3 DEF OpsInv, UniqueInv, WaitInv, KeyInv, CrossInv, Creates
<1>5. RowsInv /\ StartInv /\ FreshInv /\ ClosedInv
  BY <1>1 DEF RowsInv, StartInv, FreshInv, ClosedInv
<1>6. ToldKeysStayGood /\ ToldKeysWork /\ DeletedOrgsAreGone
  BY <1>1 DEF ToldKeysStayGood, ToldKeysWork, DeletedOrgsAreGone
<1>7. QED
  BY <1>2, <1>4, <1>5, <1>6 DEF IInv

(***************************************************************************)
(* The types of all variables, with the entries spelled out.               *)
(***************************************************************************)
LEMMA Types ==
  ASSUME TypeOK
  PROVE  /\ orgs \in [Slugs -> Keys \cup {NoKey}]
         /\ cache \in [Pods -> [Slugs -> Keys \cup {NoKey}]]
         /\ pod \in [Pods -> [phase : {"down", "loading", "up"}, todo : Rows]]
         /\ op \in [Ops -> OpType]
         /\ drawn \in Nat /\ MaxKeys \in Nat /\ drawn <= MaxKeys
         /\ \A t \in told : t.slug \in Slugs /\ t.key \in Keys /\ t.pod \in Pods
         /\ \A c \in closed : c.slug \in Slugs /\ c.key \in Keys /\ c.pod \in Pods
         /\ NoKey \notin Keys /\ 1..drawn \subseteq Keys
  BY RegistryAssumption DEF TypeOK, Rows, Entries, Keys, OpType, NoKey

\* Keys stay unique if nothing is created that was not.
LEMMA UniqueStays ==
  ASSUME UniqueInv,
         \A p \in Ops : Creates(op'[p]) => Creates(op[p]) /\ op'[p].key = op[p].key
  PROVE  UniqueInv'
  BY DEF UniqueInv

LEMMA CreateIInv ==
  ASSUME IInv, NEW o \in Ops, NEW q \in Pods, NEW s \in Slugs, Create(o, q, s)
  PROVE  IInv'
<1>0. TypeOK
  BY DEF IInv
<1>1. /\ op[o].phase = "idle" /\ pod[q].phase = "up"
      /\ drawn < MaxKeys /\ drawn' = drawn + 1
      /\ UNCHANGED <<orgs, conf, cache, pod, told, deleted, closed, crossed>>
  BY DEF Create, At, Up
<1>2. drawn + 1 \in Keys /\ drawn + 1 \in 1..(drawn + 1) /\ 1..drawn \subseteq 1..(drawn + 1)
  BY <1>0, <1>1, Types DEF Keys
<1>3. /\ op' \in [Ops -> OpType]
      /\ \A p \in Ops : p # o => op'[p] = op[p]
      /\ op'[o].phase = "insert" /\ op'[o].pod = q /\ op'[o].slug = s
      /\ op'[o].key = drawn + 1
      /\ ~op'[o].orphan
  BY <1>0, <1>2, Types, BeginFacts DEF Create, Phases
<1>4. TypeOK'
  BY <1>0, <1>1, <1>2, <1>3, Types DEF TypeOK, OpType
<1>5. orgs[s] # drawn + 1 /\ <<s, drawn + 1>> \notin deleted
  BY <1>0, <1>2, Types DEF IInv, RowsInv, TypeOK, NoKey
<1>6. OpsInv'
  <2>1. WaitInv(op[o])' /\ KeyInv(op[o])' /\ CrossInv(op[o])'
    BY <1>1, <1>2, <1>3, <1>5 DEF WaitInv, KeyInv, CrossInv, Placed, Up
  <2>2. ASSUME NEW p \in Ops, p # o PROVE WaitInv(op[p])' /\ KeyInv(op[p])' /\ CrossInv(op[p])'
    BY <1>1, <1>2, <1>3, <2>2 DEF IInv, OpsInv, WaitInv, KeyInv, CrossInv, Placed, Up
  <2>3. QED
    BY <2>1, <2>2 DEF OpsInv
<1>7. UniqueInv'
  <2>1. ASSUME NEW p \in Ops, p # o, Creates(op[p]) PROVE op[p].key # drawn + 1
    <3>1. op[p].key \in 1..drawn /\ drawn \in Nat
      BY <2>1, <1>0, Types DEF IInv, OpsInv, KeyInv, Creates
    <3>2. QED
      BY <3>1
  <2>2. ASSUME NEW p \in Ops, NEW r \in Ops, Creates(op'[p]), Creates(op'[r]),
               op'[p].key = op'[r].key
        PROVE  p = r
    <3>1. CASE p # o /\ r # o
      BY <3>1, <2>2, <1>3 DEF IInv, UniqueInv
    <3>2. CASE p = o \/ r = o
      BY <3>2, <2>1, <2>2, <1>3
    <3>3. QED
      BY <3>1, <3>2
  <2>3. QED
    BY <2>2 DEF UniqueInv
<1>8. RowsInv' /\ StartInv' /\ FreshInv' /\ ClosedInv'
  BY <1>1, <1>2 DEF IInv, RowsInv, StartInv, FreshInv, ClosedInv
<1>9. ToldKeysStayGood' /\ ToldKeysWork' /\ DeletedOrgsAreGone'
  BY <1>1 DEF IInv, ToldKeysStayGood, ToldKeysWork, DeletedOrgsAreGone, Up
<1>10. QED
  BY <1>4, <1>6, <1>7, <1>8, <1>9 DEF IInv

LEMMA InsertIInv ==
  ASSUME IInv, NEW o \in Ops, Insert(o)
  PROVE  IInv'
<1> DEFINE s == op[o].slug
           k == op[o].key
<1>0. TypeOK
  BY DEF IInv
<1>1. /\ op[o].phase = "insert" /\ orgs[s] = NoKey
      /\ orgs' = [orgs EXCEPT ![s] = k]
      /\ crossed' = crossed \cup (Between(s) \X {k})
      /\ UNCHANGED <<conf, cache, pod, drawn, told, deleted, closed>>
      /\ Goes(o, "config")
  BY DEF Insert, At
<1>2. /\ s \in Slugs /\ k \in Keys /\ k \in 1..drawn /\ op[o].pod \in Pods
      /\ <<s, k>> \notin deleted
  BY <1>0, <1>1, Types, OpFields DEF IInv, OpsInv, KeyInv, Placed
<1>3. /\ op' \in [Ops -> OpType]
      /\ \A p \in Ops : p # o => op'[p] = op[p]
      /\ op[o].orphan => op'[o] = IdleOp
      /\ ~op[o].orphan =>
           /\ op'[o].phase = "config" /\ op'[o].pod = op[o].pod
           /\ op'[o].slug = s /\ op'[o].key = k
           /\ ~op'[o].orphan
  BY <1>0, <1>1, Types, GoesFacts DEF At, Phases
<1>4. /\ orgs'[s] = k /\ \A r \in Slugs : r # s => orgs'[r] = orgs[r]
      /\ orgs' \in Rows
  BY <1>0, <1>1, <1>2, Types DEF Rows
<1>5. /\ crossed \subseteq crossed' /\ crossed' \subseteq Pods \X Keys
      /\ \A p \in Ops : /\ op[p].phase \in {"config", "load", "pop"}
                        /\ op[p].slug = s /\ ~op[p].orphan
                        => <<op[p].pod, k>> \in crossed'
  BY <1>0, <1>1, <1>2, Types, BetweenFacts DEF TypeOK
<1>6. TypeOK'
  BY <1>0, <1>1, <1>3, <1>4, <1>5 DEF TypeOK, OpType
<1>7. OpsInv'
  <2>1. WaitInv(op[o])' /\ KeyInv(op[o])' /\ CrossInv(op[o])'
    <3>1. CASE op[o].orphan
      BY <3>1, <1>3, IdleFacts DEF WaitInv, KeyInv, CrossInv
    <3>2. CASE ~op[o].orphan
      BY <3>2, <1>1, <1>2, <1>3, <1>4 DEF IInv, OpsInv, WaitInv, KeyInv, CrossInv, Placed, Up
    <3>3. QED
      BY <3>1, <3>2
  <2>2. ASSUME NEW p \in Ops, p # o PROVE WaitInv(op[p])' /\ KeyInv(op[p])' /\ CrossInv(op[p])'
    <3>1. WaitInv(op[p])'
      BY <1>1, <1>3, <2>2 DEF IInv, OpsInv, WaitInv, Up
    <3>2. KeyInv(op[p])'
      <4>1. op[p].phase \in {"insert", "config", "load"} => op[p].key # k
        BY <1>1, <2>2 DEF IInv, UniqueInv, Creates
      <4>2. QED
        BY <4>1, <1>0, <1>1, <1>2, <1>3, <1>4, <2>2, Types, OpFields
           DEF IInv, OpsInv, KeyInv, Placed, NoKey
    <3>3. CrossInv(op[p])'
      BY <1>0, <1>1, <1>3, <1>4, <1>5, <2>2, Types, OpFields DEF IInv, OpsInv, CrossInv
    <3>4. QED
      BY <3>1, <3>2, <3>3
  <2>3. QED
    BY <2>1, <2>2 DEF OpsInv
<1>8. UniqueInv'
  BY <1>1, <1>3, IdleFacts, UniqueStays DEF IInv, Creates
<1>9. RowsInv' /\ FreshInv' /\ ClosedInv'
  BY <1>1, <1>2, <1>4 DEF IInv, RowsInv, FreshInv, ClosedInv
<1>10. StartInv'
  BY <1>0, <1>1, <1>4, Types DEF IInv, StartInv
<1>11. ToldKeysStayGood' /\ ToldKeysWork' /\ DeletedOrgsAreGone'
  BY <1>0, <1>1, <1>4, <1>5, Types
     DEF IInv, ToldKeysStayGood, ToldKeysWork, DeletedOrgsAreGone, Up
<1>12. QED
  BY <1>6, <1>7, <1>8, <1>9, <1>10, <1>11 DEF IInv

-----------------------------------------------------------------------------
(***************************************************************************)
(* Requests that end early leave nothing or an orphan.                     *)
(***************************************************************************)
Yields(x, y) ==
  \/ y = IdleOp
  \/ /\ y.phase \in Statements
     /\ y.phase = x.phase /\ y.slug = x.slug /\ y.key = x.key
     /\ y.orphan

LEMMA GivenUpFacts ==
  ASSUME NEW x \in OpType, NEW sent, x.phase # "idle"
  PROVE  GivenUp(x, sent) \in OpType /\ Yields(x, GivenUp(x, sent))
<1> DEFINE y == [x EXCEPT !.orphan = TRUE]
<1>1. x \in ActiveOps
  BY OpFields
<1>2. /\ y \in ActiveOps /\ y.phase = x.phase /\ y.slug = x.slug /\ y.key = x.key
      /\ y.orphan = TRUE
  BY <1>1 DEF ActiveOps
<1> HIDE DEF y
<1>3. CASE sent /\ x.phase \in Statements
  <2>1. GivenUp(x, sent) = y
    BY <1>3 DEF GivenUp, y
  <2>2. QED
    BY <2>1, <1>2, <1>3, Zenon DEF Yields, OpType
<1>4. CASE ~(sent /\ x.phase \in Statements)
  BY <1>4, Zenon DEF GivenUp, Yields, OpType
<1>5. QED
  BY <1>3, <1>4, Zenon

\* What holds of a request holds of what is left of it.
LEMMA YieldsOp ==
  ASSUME NEW x, NEW y, KeyInv(x), Yields(x, y)
  PROVE  /\ WaitInv(y) /\ KeyInv(y) /\ CrossInv(y)
         /\ Creates(y) => Creates(x) /\ y.key = x.key
<1>1. CASE y = IdleOp
  BY <1>1, IdleFacts DEF WaitInv, KeyInv, CrossInv, Creates
<1>2. CASE y # IdleOp
  BY <1>2 DEF Yields, WaitInv, KeyInv, CrossInv, Creates, Placed, Statements
<1>3. QED
  BY <1>1, <1>2

LEMMA QuietIInv ==
  ASSUME IInv,
         UNCHANGED <<orgs, conf, cache, pod, drawn, told, deleted, closed, crossed>>,
         op' \in [Ops -> OpType],
         \A p \in Ops : op'[p] = op[p] \/ Yields(op[p], op'[p])
  PROVE  IInv'
<1>1. TypeOK'
  BY DEF IInv, TypeOK, OpType
<1>2. ASSUME NEW p \in Ops
      PROVE  /\ WaitInv(op[p])' /\ KeyInv(op[p])' /\ CrossInv(op[p])'
             /\ Creates(op'[p]) => Creates(op[p]) /\ op'[p].key = op[p].key
  <2>1. /\ WaitInv(op'[p]) /\ KeyInv(op'[p]) /\ CrossInv(op'[p])
        /\ Creates(op'[p]) => Creates(op[p]) /\ op'[p].key = op[p].key
    BY YieldsOp DEF IInv, OpsInv
  <2>2. QED
    BY <2>1 DEF WaitInv, KeyInv, CrossInv, Placed, Up
<1>3. OpsInv' /\ UniqueInv'
  BY <1>2, UniqueStays DEF IInv, OpsInv
<1>4. RowsInv' /\ StartInv' /\ FreshInv' /\ ClosedInv'
  BY DEF IInv, RowsInv, StartInv, FreshInv, ClosedInv
<1>5. ToldKeysStayGood' /\ ToldKeysWork' /\ DeletedOrgsAreGone'
  BY DEF IInv, ToldKeysStayGood, ToldKeysWork, DeletedOrgsAreGone, Up
<1>6. QED
  BY <1>1, <1>3, <1>4, <1>5 DEF IInv

LEMMA EndIInv ==
  ASSUME IInv, NEW o \in Ops,
         InsertViolatesUnique(o) \/ DeleteNothing(o) \/ Vanish(o)
  PROVE  IInv'
<1>1. /\ Ends(o)
      /\ UNCHANGED <<orgs, conf, cache, pod, drawn, told, deleted, closed, crossed>>
  BY DEF InsertViolatesUnique, DeleteNothing, Vanish
<1>2. QED
  BY <1>1, Types, EndsFacts, QuietIInv DEF IInv, Yields

LEMMA FailIInv ==
  ASSUME IInv, NEW o \in Ops, Fail(o)
  PROVE  IInv'
<1>1. PICK sent \in BOOLEAN : op' = [op EXCEPT ![o] = GivenUp(op[o], sent)]
  BY DEF Fail
<1>2. op \in [Ops -> OpType] /\ op[o].phase # "idle"
  BY Types DEF IInv, Fail, At
<1>3. GivenUp(op[o], sent) \in OpType /\ Yields(op[o], GivenUp(op[o], sent))
  BY <1>2, GivenUpFacts
<1>4. /\ op' \in [Ops -> OpType]
      /\ \A p \in Ops : op'[p] = op[p] \/ Yields(op[p], op'[p])
  BY <1>1, <1>2, <1>3
<1>5. QED
  BY <1>4, QuietIInv DEF Fail

LEMMA DeleteIInv ==
  ASSUME IInv, NEW o \in Ops, NEW q \in Pods, NEW s \in Slugs, Delete(o, q, s)
  PROVE  IInv'
<1>0. TypeOK
  BY DEF IInv
<1>1. /\ op[o].phase = "idle" /\ pod[q].phase = "up"
      /\ UNCHANGED <<orgs, conf, cache, pod, drawn, told, deleted, closed, crossed>>
  BY DEF Delete, At, Up
<1>2. /\ op' \in [Ops -> OpType]
      /\ \A p \in Ops : p # o => op'[p] = op[p]
      /\ op'[o].phase = "delete" /\ op'[o].pod = q
      /\ ~op'[o].orphan
  BY <1>0, Types, BeginFacts DEF Delete, Phases
<1>3. TypeOK'
  BY <1>0, <1>1, <1>2 DEF TypeOK, OpType
<1>4. OpsInv'
  <2>1. WaitInv(op[o])' /\ KeyInv(op[o])' /\ CrossInv(op[o])'
    BY <1>1, <1>2 DEF WaitInv, KeyInv, CrossInv, Up
  <2>2. ASSUME NEW p \in Ops, p # o PROVE WaitInv(op[p])' /\ KeyInv(op[p])' /\ CrossInv(op[p])'
    BY <1>1, <1>2, <2>2 DEF IInv, OpsInv, WaitInv, KeyInv, CrossInv, Placed, Up
  <2>3. QED
    BY <2>1, <2>2 DEF OpsInv
<1>5. UniqueInv'
  BY <1>2, UniqueStays DEF IInv, Creates
<1>6. RowsInv' /\ StartInv' /\ FreshInv' /\ ClosedInv'
  BY <1>1 DEF IInv, RowsInv, StartInv, FreshInv, ClosedInv
<1>7. ToldKeysStayGood' /\ ToldKeysWork' /\ DeletedOrgsAreGone'
  BY <1>1 DEF IInv, ToldKeysStayGood, ToldKeysWork, DeletedOrgsAreGone, Up
<1>8. QED
  BY <1>3, <1>4, <1>5, <1>6, <1>7 DEF IInv

LEMMA InsertConfigIInv ==
  ASSUME IInv, NEW o \in Ops, InsertConfig(o)
  PROVE  IInv'
<1>0. TypeOK
  BY DEF IInv
<1>1. /\ op[o].phase = "config"
      /\ conf' = conf \cup {op[o].slug}
      /\ UNCHANGED <<orgs, cache, pod, drawn, told, deleted, closed, crossed>>
  BY DEF InsertConfig, At
<1>2. /\ op' \in [Ops -> OpType]
      /\ \A p \in Ops : p # o => op'[p] = op[p]
      /\ op[o].orphan => op'[o] = IdleOp
      /\ ~op[o].orphan =>
           /\ op'[o].phase = "load" /\ op'[o].pod = op[o].pod
           /\ op'[o].slug = op[o].slug /\ op'[o].key = op[o].key
           /\ ~op'[o].orphan
  BY <1>0, <1>1, Types, GoesFacts DEF InsertConfig, At, Phases
<1>3. TypeOK'
  BY <1>0, <1>1, <1>2, Types, OpFields DEF TypeOK, OpType
<1>4. OpsInv'
  <2>1. WaitInv(op[o])' /\ KeyInv(op[o])' /\ CrossInv(op[o])'
    <3>1. CASE op[o].orphan
      BY <3>1, <1>2, IdleFacts DEF WaitInv, KeyInv, CrossInv
    <3>2. CASE ~op[o].orphan
      BY <3>2, <1>1, <1>2 DEF IInv, OpsInv, WaitInv, KeyInv, CrossInv, Placed, Up
    <3>3. QED
      BY <3>1, <3>2
  <2>2. ASSUME NEW p \in Ops, p # o PROVE WaitInv(op[p])' /\ KeyInv(op[p])' /\ CrossInv(op[p])'
    BY <1>1, <1>2, <2>2 DEF IInv, OpsInv, WaitInv, KeyInv, CrossInv, Placed, Up
  <2>3. QED
    BY <2>1, <2>2 DEF OpsInv
<1>5. UniqueInv'
  BY <1>1, <1>2, IdleFacts, UniqueStays DEF IInv, Creates
<1>6. RowsInv' /\ StartInv' /\ FreshInv' /\ ClosedInv'
  BY <1>1 DEF IInv, RowsInv, StartInv, FreshInv, ClosedInv
<1>7. ToldKeysStayGood' /\ ToldKeysWork' /\ DeletedOrgsAreGone'
  BY <1>1 DEF IInv, ToldKeysStayGood, ToldKeysWork, DeletedOrgsAreGone, Up
<1>8. QED
  BY <1>3, <1>4, <1>5, <1>6, <1>7 DEF IInv

LEMMA LoadIInv ==
  ASSUME IInv, NEW o \in Ops, Load(o)
  PROVE  IInv'
<1> DEFINE s == op[o].slug
           k == op[o].key
           q == op[o].pod
<1>0. TypeOK
  BY DEF IInv
<1>1. /\ op[o].phase = "load"
      /\ cache' = [cache EXCEPT ![q][s] = k]
      /\ told' = told \cup {Entry(o)}
      /\ Ends(o)
      /\ UNCHANGED <<orgs, conf, pod, drawn, deleted, closed, crossed>>
  BY DEF Load, At
<1>2. /\ op' \in [Ops -> OpType]
      /\ \A p \in Ops : p # o => op'[p] = op[p]
      /\ op'[o] = IdleOp
  BY <1>0, <1>1, Types, EndsFacts
<1>3. /\ s \in Slugs /\ k \in Keys /\ q \in Pods
      /\ pod[q].phase = "up" /\ s \in conf
      /\ orgs[s] = k \/ <<s, k>> \in deleted
  BY <1>0, <1>1, Types, OpFields
     DEF IInv, OpsInv, WaitInv, KeyInv, Placed, Up, Statements
<1>4. /\ orgs[s] \notin {NoKey, k} => <<q, orgs[s]>> \in crossed
      /\ <<s, k>> \in deleted => <<q, k>> \in crossed
  BY <1>1 DEF IInv, OpsInv, WaitInv, CrossInv, Statements
<1>5. /\ cache' \in [Pods -> Rows]
      /\ cache'[q][s] = k
      /\ \A p \in Pods, t \in Slugs : p # q \/ t # s => cache'[p][t] = cache[p][t]
  BY <1>0, <1>1, <1>3, Types DEF Rows
<1>6. /\ Entry(o) \in Entries
      /\ Entry(o).slug = s /\ Entry(o).key = k /\ Entry(o).pod = q
  BY <1>3 DEF Entry, Entries
<1>7. TypeOK'
  BY <1>0, <1>1, <1>2, <1>5, <1>6 DEF TypeOK, OpType
<1>8. OpsInv'
  <2>1. WaitInv(op[o])' /\ KeyInv(op[o])' /\ CrossInv(op[o])'
    BY <1>2, IdleFacts DEF WaitInv, KeyInv, CrossInv
  <2>2. ASSUME NEW p \in Ops, p # o PROVE WaitInv(op[p])' /\ KeyInv(op[p])' /\ CrossInv(op[p])'
    BY <1>1, <1>2, <2>2 DEF IInv, OpsInv, WaitInv, KeyInv, CrossInv, Placed, Up
  <2>3. QED
    BY <2>1, <2>2 DEF OpsInv
<1>9. UniqueInv'
  BY <1>2, IdleFacts, UniqueStays DEF IInv, Creates
<1>10. RowsInv' /\ ClosedInv'
  BY <1>1 DEF IInv, RowsInv, ClosedInv
<1>11. ToldKeysStayGood'
  BY <1>1, <1>3, <1>6 DEF IInv, ToldKeysStayGood
<1>12. StartInv'
  <2>1. ASSUME NEW t \in told', pod[t.pod].phase = "loading", <<t.slug, t.key>> \notin deleted
        PROVE  t.key \in {cache'[t.pod][t.slug], pod[t.pod].todo[t.slug]}
    <3>1. t \in told /\ t.pod # q
      BY <2>1, <1>1, <1>3, <1>6
    <3>2. QED
      BY <3>1, <2>1, <1>0, <1>5, Types DEF IInv, StartInv
  <2>2. QED
    BY <2>1, <1>1 DEF IInv, StartInv
<1>13. ToldKeysWork'
  <2>1. ASSUME NEW t \in told', pod[t.pod].phase = "up",
               <<t.slug, t.key>> \notin deleted, <<t.pod, t.key>> \notin crossed
        PROVE  cache'[t.pod][t.slug] = t.key
    <3>1. CASE t = Entry(o)
      BY <3>1, <1>5, <1>6
    <3>2. CASE t \in told /\ t.pod = q /\ t.slug = s
      <4>1. orgs[s] = t.key /\ t.key # NoKey
        BY <3>2, <2>1, <1>0, Types DEF IInv, ToldKeysStayGood
      <4>2. QED
        BY <4>1, <3>2, <2>1, <1>4, <1>5
    <3>3. CASE t \in told /\ (t.pod # q \/ t.slug # s)
      BY <3>3, <2>1, <1>0, <1>5, Types DEF IInv, ToldKeysWork, Up
    <3>4. QED
      BY <3>1, <3>2, <3>3, <1>1
  <2>2. QED
    BY <2>1, <1>1 DEF ToldKeysWork, Up
<1>14. DeletedOrgsAreGone'
  <2>1. ASSUME NEW c \in closed, cache'[c.pod][c.slug] = c.key
        PROVE  <<c.pod, c.key>> \in crossed
    <3>1. CASE c.pod = q /\ c.slug = s
      BY <3>1, <2>1, <1>4, <1>5 DEF IInv, ClosedInv
    <3>2. CASE c.pod # q \/ c.slug # s
      BY <3>2, <2>1, <1>0, <1>5, Types DEF IInv, DeletedOrgsAreGone
    <3>3. QED
      BY <3>1, <3>2
  <2>2. QED
    BY <2>1, <1>1 DEF DeletedOrgsAreGone
<1>15. FreshInv'
  BY <1>0, <1>1, <1>3, <1>5, Types DEF IInv, FreshInv
<1>16. QED
  BY <1>7, <1>8, <1>9, <1>10, <1>11, <1>12, <1>13, <1>14, <1>15 DEF IInv

LEMMA DeleteRowIInv ==
  ASSUME IInv, NEW o \in Ops, DeleteRow(o)
  PROVE  IInv'
<1> DEFINE s == op[o].slug
           k == orgs[s]
           y == [op[o] EXCEPT !.phase = "pop", !.key = k]
<1>0. TypeOK
  BY DEF IInv
<1>1. /\ op[o].phase = "delete" /\ k # NoKey
      /\ orgs' = [orgs EXCEPT ![s] = NoKey]
      /\ deleted' = deleted \cup {<<s, k>>}
      /\ crossed' = crossed \cup (Creating(k) \X {k})
      /\ op' = [op EXCEPT ![o] = IF op[o].orphan THEN IdleOp ELSE y]
      /\ UNCHANGED <<conf, cache, pod, drawn, told, closed>>
  BY DEF DeleteRow, At
<1>2. s \in Slugs /\ op[o] \in ActiveOps /\ op \in [Ops -> OpType]
  BY <1>0, <1>1, Types, OpFields
<1>3. k \in Keys /\ k \in 1..drawn
  BY <1>0, <1>1, <1>2, Types DEF IInv, RowsInv
<1>4. /\ y \in ActiveOps /\ y.phase = "pop" /\ y.key = k
      /\ y.pod = op[o].pod /\ y.slug = s /\ y.orphan = op[o].orphan
  BY <1>2, <1>3 DEF ActiveOps, Phases
<1> HIDE DEF y
<1>5. /\ op' \in [Ops -> OpType]
      /\ \A p \in Ops : p # o => op'[p] = op[p]
      /\ op'[o] = IF op[o].orphan THEN IdleOp ELSE y
  BY <1>1, <1>2, <1>4 DEF OpType
<1>6. /\ orgs'[s] = NoKey /\ \A r \in Slugs : r # s => orgs'[r] = orgs[r]
      /\ orgs' \in Rows
  BY <1>0, <1>1, <1>2, Types DEF Rows
<1>7. /\ crossed \subseteq crossed' /\ crossed' \subseteq Pods \X Keys
      /\ \A p \in Ops : op[p].phase \in {"config", "load"} /\ op[p].key = k
                        /\ ~op[p].orphan
                        => <<op[p].pod, k>> \in crossed'
  BY <1>0, <1>1, <1>2, <1>3, BetweenFacts DEF TypeOK
<1>8. deleted' \subseteq Slugs \X (1..drawn) /\ deleted \subseteq deleted'
  BY <1>0, <1>1, <1>2, <1>3 DEF TypeOK
<1>9. TypeOK'
  BY <1>0, <1>1, <1>5, <1>6, <1>7, <1>8 DEF TypeOK, OpType
<1>10. OpsInv'
  <2>1. WaitInv(op[o])' /\ KeyInv(op[o])' /\ CrossInv(op[o])'
    <3>1. CASE op[o].orphan
      <4>1. op'[o] = IdleOp
        BY <3>1, <1>5, Zenon
      <4>2. QED
        BY <4>1, IdleFacts DEF WaitInv, KeyInv, CrossInv
    <3>2. CASE ~op[o].orphan
      <4>1. op'[o] = y /\ ~y.orphan
        BY <3>2, <1>4, <1>5, Zenon
      <4>2. Up(op[o].pod)
        BY <3>2, <1>1 DEF IInv, OpsInv, WaitInv
      <4>3. QED
        BY <4>1, <4>2, <1>1, <1>4, <1>6 DEF WaitInv, KeyInv, CrossInv, Up
    <3>3. QED
      BY <3>1, <3>2
  <2>2. ASSUME NEW p \in Ops, p # o PROVE WaitInv(op[p])' /\ KeyInv(op[p])' /\ CrossInv(op[p])'
    <3>1. WaitInv(op[p])'
      BY <1>1, <1>5, <2>2 DEF IInv, OpsInv, WaitInv, Up
    <3>2. KeyInv(op[p])'
      <4>1. op[p].phase # "idle" => op[p].slug \in Slugs
        BY <1>2, OpFields
      <4>2. KeyInv(op[p])
        BY DEF IInv, OpsInv
      <4>3. op'[p] = op[p]
        BY <1>5, <2>2
      <4>4. op[p].phase = "insert" => ~Placed(op[p])'
        BY <4>1, <4>2, <4>3, <1>0, <1>1, <1>6, Types DEF KeyInv, Placed
      <4>5. op[p].phase \in {"config", "load"} => Placed(op[p])'
        BY <4>1, <4>2, <4>3, <1>1, <1>6 DEF KeyInv, Placed
      <4>6. QED
        BY <4>2, <4>3, <4>4, <4>5, <1>1, <1>8 DEF KeyInv
    <3>3. CrossInv(op[p])'
      <4>1. op[p].phase # "idle" => op[p].slug \in Slugs
        BY <1>2, OpFields
      <4>2. CrossInv(op[p]) /\ op'[p] = op[p]
        BY <1>5, <2>2 DEF IInv, OpsInv
      <4>3. QED
        BY <4>1, <4>2, <1>1, <1>6, <1>7 DEF CrossInv
    <3>4. QED
      BY <3>1, <3>2, <3>3
  <2>3. QED
    BY <2>1, <2>2 DEF OpsInv
<1>11. UniqueInv'
  <2>1. ~Creates(op'[o])
    BY <1>4, <1>5, IdleFacts DEF Creates
  <2>2. QED
    BY <2>1, <1>5, UniqueStays DEF IInv
<1>12. RowsInv' /\ FreshInv' /\ ClosedInv'
  BY <1>1, <1>6, <1>8 DEF IInv, RowsInv, FreshInv, ClosedInv
<1>13. StartInv'
  BY <1>0, <1>1, <1>6, <1>8, Types DEF IInv, StartInv
<1>14. ToldKeysStayGood'
  <2>1. ASSUME NEW t \in told, <<t.slug, t.key>> \notin deleted'
        PROVE  orgs'[t.slug] = t.key /\ t.slug \in conf
    <3>1. orgs[t.slug] = t.key /\ t.slug \in conf /\ t.slug \in Slugs
      BY <2>1, <1>0, <1>8, Types DEF IInv, ToldKeysStayGood
    <3>2. t.slug # s
      BY <3>1, <2>1, <1>1
    <3>3. QED
      BY <3>1, <3>2, <1>6
  <2>2. QED
    BY <2>1, <1>1 DEF ToldKeysStayGood
<1>15. ToldKeysWork' /\ DeletedOrgsAreGone'
  BY <1>1, <1>7, <1>8 DEF IInv, ToldKeysWork, DeletedOrgsAreGone, Up
<1>16. QED
  BY <1>9, <1>10, <1>11, <1>12, <1>13, <1>14, <1>15 DEF IInv

LEMMA PopIInv ==
  ASSUME IInv, NEW o \in Ops, Pop(o)
  PROVE  IInv'
<1> DEFINE s == op[o].slug
           k == op[o].key
           q == op[o].pod
<1>0. TypeOK
  BY DEF IInv
<1>1. /\ op[o].phase = "pop"
      /\ cache' = [cache EXCEPT ![q][s] = NoKey]
      /\ closed' = closed \cup {Entry(o)}
      /\ Ends(o)
      /\ UNCHANGED <<orgs, conf, pod, drawn, told, deleted, crossed>>
  BY DEF Pop, At
<1>2. /\ op' \in [Ops -> OpType]
      /\ \A p \in Ops : p # o => op'[p] = op[p]
      /\ op'[o] = IdleOp
  BY <1>0, <1>1, Types, EndsFacts
<1>3. /\ s \in Slugs /\ q \in Pods /\ pod[q].phase = "up"
      /\ <<s, k>> \in deleted
      /\ orgs[s] # NoKey => orgs[s] = k \/ <<q, orgs[s]>> \in crossed
  BY <1>0, <1>1, Types, OpFields
     DEF IInv, OpsInv, WaitInv, KeyInv, CrossInv, Up, Statements
<1>4. k \in Keys
  <2>1. k \in 1..drawn
    BY <1>0, <1>3 DEF TypeOK
  <2>2. QED
    BY <2>1, <1>0, Types
<1>5. /\ cache' \in [Pods -> Rows]
      /\ cache'[q][s] = NoKey
      /\ \A p \in Pods, t \in Slugs : p # q \/ t # s => cache'[p][t] = cache[p][t]
  BY <1>0, <1>1, <1>3, Types DEF Rows
<1>6. /\ Entry(o) \in Entries
      /\ Entry(o).slug = s /\ Entry(o).key = k /\ Entry(o).pod = q
  BY <1>3, <1>4 DEF Entry, Entries
<1>7. TypeOK'
  BY <1>0, <1>1, <1>2, <1>5, <1>6 DEF TypeOK, OpType
<1>8. OpsInv'
  <2>1. WaitInv(op[o])' /\ KeyInv(op[o])' /\ CrossInv(op[o])'
    BY <1>2, IdleFacts DEF WaitInv, KeyInv, CrossInv
  <2>2. ASSUME NEW p \in Ops, p # o PROVE WaitInv(op[p])' /\ KeyInv(op[p])' /\ CrossInv(op[p])'
    BY <1>1, <1>2, <2>2 DEF IInv, OpsInv, WaitInv, KeyInv, CrossInv, Placed, Up
  <2>3. QED
    BY <2>1, <2>2 DEF OpsInv
<1>9. UniqueInv'
  BY <1>2, IdleFacts, UniqueStays DEF IInv, Creates
<1>10. RowsInv' /\ ToldKeysStayGood'
  BY <1>1 DEF IInv, RowsInv, ToldKeysStayGood
<1>11. ClosedInv'
  BY <1>1, <1>3, <1>6 DEF IInv, ClosedInv
<1>12. StartInv'
  <2>1. ASSUME NEW t \in told, pod[t.pod].phase = "loading", <<t.slug, t.key>> \notin deleted
        PROVE  t.key \in {cache'[t.pod][t.slug], pod[t.pod].todo[t.slug]}
    <3>1. t.pod # q
      BY <2>1, <1>3
    <3>2. QED
      BY <3>1, <2>1, <1>0, <1>5, Types DEF IInv, StartInv
  <2>2. ASSUME NEW c \in closed', pod[c.pod].phase = "loading"
        PROVE  pod[c.pod].todo[c.slug] # c.key
    BY <2>2, <1>1, <1>3, <1>6 DEF IInv, StartInv
  <2>3. QED
    BY <2>1, <2>2, <1>1 DEF IInv, StartInv
<1>13. ToldKeysWork'
  <2>1. ASSUME NEW t \in told, pod[t.pod].phase = "up",
               <<t.slug, t.key>> \notin deleted, <<t.pod, t.key>> \notin crossed
        PROVE  cache'[t.pod][t.slug] = t.key
    <3>1. orgs[t.slug] = t.key /\ t.key # NoKey
      BY <2>1, <1>0, Types DEF IInv, ToldKeysStayGood
    <3>2. t.pod # q \/ t.slug # s
      BY <3>1, <2>1, <1>3
    <3>3. QED
      BY <3>2, <2>1, <1>0, <1>5, Types DEF IInv, ToldKeysWork, Up
  <2>2. QED
    BY <2>1, <1>1 DEF ToldKeysWork, Up
<1>14. DeletedOrgsAreGone'
  <2>1. ASSUME NEW c \in closed', cache'[c.pod][c.slug] = c.key
        PROVE  <<c.pod, c.key>> \in crossed
    <3>1. c.pod \in Pods /\ c.slug \in Slugs /\ c.key # NoKey
      BY <1>0, <1>1, <1>3, <1>4, <1>6, Types
    <3>2. c.pod # q \/ c.slug # s
      BY <3>1, <2>1, <1>5
    <3>3. QED
      BY <3>1, <3>2, <2>1, <1>1, <1>5, <1>6 DEF IInv, DeletedOrgsAreGone
  <2>2. QED
    BY <2>1, <1>1 DEF DeletedOrgsAreGone
<1>15. FreshInv'
  BY <1>0, <1>1, <1>3, <1>5, Types DEF IInv, FreshInv
<1>16. QED
  BY <1>7, <1>8, <1>9, <1>10, <1>11, <1>12, <1>13, <1>14, <1>15 DEF IInv

-----------------------------------------------------------------------------
(***************************************************************************)
(* The life of a pod.                                                      *)
(***************************************************************************)
LEMMA CrashIInv ==
  ASSUME IInv, NEW q \in Pods, Crash(q)
  PROVE  IInv'
<1>0. TypeOK
  BY DEF IInv
<1>1. /\ pod' = [pod EXCEPT ![q] = [phase |-> "down", todo |-> NoRows]]
      /\ cache' = [cache EXCEPT ![q] = NoRows]
      /\ crossed' = {x \in crossed : x[1] # q}
      /\ UNCHANGED <<orgs, conf, drawn, told, deleted, closed>>
  BY DEF Crash
<1>2. PICK sent \in SUBSET OpsIn(q) :
        op' = [o \in Ops |-> IF o \in OpsIn(q) THEN GivenUp(op[o], o \in sent) ELSE op[o]]
  BY DEF Crash
<1>3. NoRows \in Rows /\ \A s \in Slugs : NoRows[s] = NoKey
  BY DEF NoRows, Rows
<1>4. /\ pod' \in [Pods -> [phase : {"down", "loading", "up"}, todo : Rows]]
      /\ cache' \in [Pods -> Rows]
      /\ pod'[q].phase = "down" /\ pod'[q].todo = NoRows /\ cache'[q] = NoRows
      /\ \A p \in Pods : p # q => pod'[p] = pod[p] /\ cache'[p] = cache[p]
  BY <1>0, <1>1, <1>3 DEF TypeOK
<1>5. /\ crossed' \subseteq Pods \X Keys
      /\ \A p, k : p # q => (<<p, k>> \in crossed' <=> <<p, k>> \in crossed)
  BY <1>0, <1>1 DEF TypeOK
<1>6. ASSUME NEW o \in Ops
      PROVE  op'[o] \in OpType /\ (op'[o] = op[o] \/ Yields(op[o], op'[o]))
  <2>1. CASE o \in OpsIn(q)
    <3>1. op[o] \in OpType /\ op[o].phase # "idle"
      BY <2>1, <1>0, Types DEF OpsIn, At
    <3>2. op'[o] = GivenUp(op[o], o \in sent)
      BY <2>1, <1>2
    <3>3. /\ GivenUp(op[o], o \in sent) \in OpType
          /\ Yields(op[o], GivenUp(op[o], o \in sent))
      BY <3>1, GivenUpFacts
    <3>4. QED
      BY <3>2, <3>3
  <2>2. CASE o \notin OpsIn(q)
    BY <2>2, <1>0, <1>2, Types
  <2>3. QED
    BY <2>1, <2>2
<1>7. ASSUME NEW o \in Ops, ~Yields(op[o], op'[o])
      PROVE  op'[o] = op[o] /\ (op[o].phase = "idle" \/ op[o].orphan \/ op[o].pod # q)
  <2>1. CASE o \in OpsIn(q)
    <3>1. op[o] \in OpType /\ op[o].phase # "idle"
      BY <2>1, <1>0, Types DEF OpsIn, At
    <3>2. op'[o] = GivenUp(op[o], o \in sent)
      BY <2>1, <1>2
    <3>3. QED
      BY <3>1, <3>2, <1>7, GivenUpFacts
  <2>2. CASE o \notin OpsIn(q)
    BY <2>2, <1>2 DEF OpsIn, At
  <2>3. QED
    BY <2>1, <2>2
<1>8. TypeOK'
  <2>1. op' \in [Ops -> OpType]
    BY <1>2, <1>6
  <2>2. QED
    BY <2>1, <1>0, <1>1, <1>4, <1>5 DEF TypeOK, OpType
<1>9. ASSUME NEW o \in Ops
      PROVE  /\ WaitInv(op[o])' /\ KeyInv(op[o])' /\ CrossInv(op[o])'
             /\ Creates(op'[o]) => Creates(op[o]) /\ op'[o].key = op[o].key
  <2>1. CASE Yields(op[o], op'[o])
    <3>1. /\ WaitInv(op'[o]) /\ KeyInv(op'[o]) /\ CrossInv(op'[o])
          /\ Creates(op'[o]) => Creates(op[o]) /\ op'[o].key = op[o].key
      BY <2>1, YieldsOp DEF IInv, OpsInv
    <3>2. op'[o].phase = "idle" \/ op'[o].orphan
      BY <2>1, IdleFacts DEF Yields
    <3>3. QED
      BY <3>1, <3>2, <1>1 DEF WaitInv, KeyInv, CrossInv, Placed
  <2>2. CASE ~Yields(op[o], op'[o])
    <3>1. /\ WaitInv(op[o]) /\ KeyInv(op[o]) /\ CrossInv(op[o])
          /\ op'[o] = op[o] /\ (op[o].phase = "idle" \/ op[o].orphan \/ op[o].pod # q)
          /\ op[o].phase # "idle" => op[o].pod \in Pods
      BY <2>2, <1>0, <1>7, Types, OpFields DEF IInv, OpsInv
    <3>2. WaitInv(op[o])' /\ KeyInv(op[o])'
      BY <3>1, <1>1, <1>4 DEF WaitInv, KeyInv, Placed, Up
    <3>3. CrossInv(op[o])'
      BY <3>1, <1>1, <1>5 DEF CrossInv
    <3>4. QED
      BY <3>1, <3>2, <3>3
  <2>3. QED
    BY <2>1, <2>2
<1>10. OpsInv' /\ UniqueInv'
  BY <1>9, UniqueStays DEF IInv, OpsInv
<1>11. RowsInv' /\ ClosedInv' /\ ToldKeysStayGood'
  BY <1>1 DEF IInv, RowsInv, ClosedInv, ToldKeysStayGood
<1>12. FreshInv'
  BY <1>0, <1>3, <1>4 DEF IInv, FreshInv
<1>13. StartInv'
  BY <1>0, <1>1, <1>3, <1>4, Types DEF IInv, StartInv
<1>14. ToldKeysWork'
  BY <1>0, <1>1, <1>4, <1>5, Types DEF IInv, ToldKeysWork, Up
<1>15. DeletedOrgsAreGone'
  BY <1>0, <1>1, <1>3, <1>4, <1>5, Types DEF IInv, DeletedOrgsAreGone
<1>16. QED
  BY <1>8, <1>10, <1>11, <1>12, <1>13, <1>14, <1>15 DEF IInv

\* The requests are untouched when a pod that is not up moves on.
LEMMA PodOps ==
  ASSUME IInv, NEW q \in Pods, pod[q].phase # "up",
         \A p \in Pods : p # q => pod'[p] = pod[p],
         UNCHANGED <<orgs, conf, op, drawn, deleted, crossed>>
  PROVE  OpsInv' /\ UniqueInv'
<1>1. ASSUME NEW o \in Ops PROVE WaitInv(op[o])' /\ KeyInv(op[o])' /\ CrossInv(op[o])'
  <2>1. op[o].phase # "idle" => op[o].pod \in Pods
    BY Types, OpFields DEF IInv
  <2>2. QED
    BY <2>1 DEF IInv, OpsInv, WaitInv, KeyInv, CrossInv, Placed, Up
<1>2. QED
  BY <1>1 DEF IInv, OpsInv, UniqueInv

LEMMA StartIInv ==
  ASSUME IInv, NEW q \in Pods, Start(q)
  PROVE  IInv'
<1>0. TypeOK
  BY DEF IInv
<1>1. /\ pod[q].phase = "down"
      /\ pod' = [pod EXCEPT ![q] = [phase |-> "loading", todo |-> orgs]]
      /\ UNCHANGED <<orgs, conf, cache, op, drawn, told, deleted, closed, crossed>>
  BY DEF Start
<1>2. /\ pod' \in [Pods -> [phase : {"down", "loading", "up"}, todo : Rows]]
      /\ pod'[q].phase = "loading" /\ pod'[q].todo = orgs
      /\ \A p \in Pods : p # q => pod'[p] = pod[p]
  BY <1>0, <1>1 DEF TypeOK
<1>3. TypeOK'
  BY <1>0, <1>1, <1>2 DEF TypeOK
<1>4. OpsInv' /\ UniqueInv'
  BY <1>1, <1>2, PodOps
<1>5. RowsInv' /\ ClosedInv' /\ ToldKeysStayGood' /\ DeletedOrgsAreGone'
  BY <1>1 DEF IInv, RowsInv, ClosedInv, ToldKeysStayGood, DeletedOrgsAreGone
<1>6. FreshInv'
  BY <1>1, <1>2 DEF IInv, FreshInv
<1>7. StartInv'
  <2>1. ASSUME NEW t \in told, pod'[t.pod].phase = "loading", <<t.slug, t.key>> \notin deleted
        PROVE  t.key \in {cache[t.pod][t.slug], pod'[t.pod].todo[t.slug]}
    BY <2>1, <1>0, <1>2, Types DEF IInv, StartInv, ToldKeysStayGood
  <2>2. ASSUME NEW c \in closed, pod'[c.pod].phase = "loading"
        PROVE  pod'[c.pod].todo[c.slug] # c.key
    <3>1. CASE c.pod = q
      <4>1. c.slug \in Slugs /\ c.key # NoKey /\ <<c.slug, c.key>> \in deleted
        BY <1>0, <2>2, Types DEF IInv, ClosedInv
      <4>2. orgs[c.slug] # c.key
        BY <4>1 DEF IInv, RowsInv
      <4>3. QED
        BY <3>1, <4>2, <1>2
    <3>2. CASE c.pod # q
      BY <3>2, <2>2, <1>0, <1>2, Types DEF IInv, StartInv
    <3>3. QED
      BY <3>1, <3>2
  <2>3. \A p \in Pods, s \in Slugs :
          pod'[p].todo[s] # NoKey =>
            pod'[p].todo[s] = orgs[s] \/ <<s, pod'[p].todo[s]>> \in deleted
    BY <1>2 DEF IInv, StartInv
  <2>4. QED
    BY <2>1, <2>2, <2>3, <1>1 DEF StartInv
<1>8. ToldKeysWork'
  BY <1>0, <1>1, <1>2, Types DEF IInv, ToldKeysWork, Up
<1>9. QED
  BY <1>3, <1>4, <1>5, <1>6, <1>7, <1>8 DEF IInv

LEMMA LoadRowIInv ==
  ASSUME IInv, NEW q \in Pods, NEW s \in Slugs, LoadRow(q, s)
  PROVE  IInv'
<1> DEFINE k == pod[q].todo[s]
<1>0. TypeOK
  BY DEF IInv
<1>1. /\ pod[q].phase = "loading" /\ k # NoKey
      /\ cache' = [cache EXCEPT ![q][s] = k]
      /\ pod' = [pod EXCEPT ![q].todo[s] = NoKey]
      /\ UNCHANGED <<orgs, conf, op, drawn, told, deleted, closed, crossed>>
  BY DEF LoadRow
<1>2. k \in Keys
  BY <1>0, <1>1, Types DEF Rows
<1>3. /\ cache' \in [Pods -> Rows]
      /\ cache'[q][s] = k
      /\ \A p \in Pods, t \in Slugs : p # q \/ t # s => cache'[p][t] = cache[p][t]
  BY <1>0, <1>1, <1>2, Types DEF Rows
<1>4. /\ pod' \in [Pods -> [phase : {"down", "loading", "up"}, todo : Rows]]
      /\ \A p \in Pods : p # q => pod'[p] = pod[p]
      /\ pod'[q].phase = "loading"
      /\ pod'[q].todo[s] = NoKey
      /\ \A t \in Slugs : t # s => pod'[q].todo[t] = pod[q].todo[t]
  BY <1>0, <1>1, Types DEF Rows
<1>5. cache[q][s] = NoKey /\ (k = orgs[s] \/ <<s, k>> \in deleted)
  BY <1>1 DEF IInv, FreshInv, StartInv
<1>6. TypeOK'
  BY <1>0, <1>1, <1>3, <1>4 DEF TypeOK
<1>7. OpsInv' /\ UniqueInv'
  BY <1>1, <1>4, PodOps
<1>8. RowsInv' /\ ClosedInv' /\ ToldKeysStayGood'
  BY <1>1 DEF IInv, RowsInv, ClosedInv, ToldKeysStayGood
<1>9. FreshInv'
  <2>1. ASSUME NEW p \in Pods, NEW t \in Slugs
        PROVE  /\ pod'[p].phase = "down" => cache'[p][t] = NoKey
               /\ pod'[p].phase = "loading" => NoKey \in {cache'[p][t], pod'[p].todo[t]}
    BY <1>1, <1>3, <1>4 DEF IInv, FreshInv
  <2>2. QED
    BY <2>1 DEF FreshInv
<1>10. StartInv'
  <2>1. ASSUME NEW t \in told, pod'[t.pod].phase = "loading", <<t.slug, t.key>> \notin deleted
        PROVE  t.key \in {cache'[t.pod][t.slug], pod'[t.pod].todo[t.slug]}
    <3>1. /\ t.pod \in Pods /\ t.slug \in Slugs /\ t.key # NoKey
          /\ pod[t.pod].phase = "loading"
      BY <2>1, <1>0, <1>1, <1>4, Types
    <3>2. t.key \in {cache[t.pod][t.slug], pod[t.pod].todo[t.slug]}
      BY <2>1, <3>1 DEF IInv, StartInv
    <3>3. CASE t.pod = q /\ t.slug = s
      BY <3>1, <3>2, <3>3, <1>3, <1>5
    <3>4. CASE t.pod # q \/ t.slug # s
      BY <3>1, <3>2, <3>4, <1>3, <1>4
    <3>5. QED
      BY <3>3, <3>4
  <2>2. ASSUME NEW c \in closed, pod'[c.pod].phase = "loading"
        PROVE  pod'[c.pod].todo[c.slug] # c.key
    BY <2>2, <1>0, <1>1, <1>4, Types DEF IInv, StartInv
  <2>3. \A p \in Pods, t \in Slugs :
          pod'[p].todo[t] # NoKey =>
            pod'[p].todo[t] = orgs[t] \/ <<t, pod'[p].todo[t]>> \in deleted
    BY <1>4 DEF IInv, StartInv
  <2>4. QED
    BY <2>1, <2>2, <2>3, <1>1 DEF StartInv
<1>11. ToldKeysWork'
  BY <1>0, <1>1, <1>3, <1>4, Types DEF IInv, ToldKeysWork, Up
<1>12. DeletedOrgsAreGone'
  <2>1. ASSUME NEW c \in closed, cache'[c.pod][c.slug] = c.key
        PROVE  <<c.pod, c.key>> \in crossed
    <3>1. c.pod # q \/ c.slug # s
      BY <2>1, <1>1, <1>3 DEF IInv, StartInv
    <3>2. QED
      BY <3>1, <2>1, <1>0, <1>3, Types DEF IInv, DeletedOrgsAreGone
  <2>2. QED
    BY <2>1, <1>1 DEF DeletedOrgsAreGone
<1>13. QED
  BY <1>6, <1>7, <1>8, <1>9, <1>10, <1>11, <1>12 DEF IInv

LEMMA ServeIInv ==
  ASSUME IInv, NEW q \in Pods, Serve(q)
  PROVE  IInv'
<1>0. TypeOK
  BY DEF IInv
<1>1. /\ pod[q].phase = "loading" /\ pod[q].todo = NoRows
      /\ pod' = [pod EXCEPT ![q].phase = "up"]
      /\ UNCHANGED <<orgs, conf, cache, op, drawn, told, deleted, closed, crossed>>
  BY DEF Serve
<1>2. /\ pod' \in [Pods -> [phase : {"down", "loading", "up"}, todo : Rows]]
      /\ pod'[q].phase = "up" /\ pod'[q].todo = pod[q].todo
      /\ \A p \in Pods : p # q => pod'[p] = pod[p]
  BY <1>0, <1>1, Types
<1>3. TypeOK'
  BY <1>0, <1>1, <1>2 DEF TypeOK
<1>4. OpsInv' /\ UniqueInv'
  BY <1>1, <1>2, PodOps
<1>5. RowsInv' /\ ClosedInv' /\ ToldKeysStayGood' /\ DeletedOrgsAreGone'
  BY <1>1 DEF IInv, RowsInv, ClosedInv, ToldKeysStayGood, DeletedOrgsAreGone
<1>6. FreshInv'
  BY <1>1, <1>2 DEF IInv, FreshInv
<1>7. StartInv'
  BY <1>0, <1>1, <1>2, Types DEF IInv, StartInv
<1>8. ToldKeysWork'
  <2>1. ASSUME NEW t \in told, pod'[t.pod].phase = "up",
               <<t.slug, t.key>> \notin deleted, <<t.pod, t.key>> \notin crossed
        PROVE  cache[t.pod][t.slug] = t.key
    <3>1. CASE t.pod = q
      <4>1. t.key # NoKey /\ pod[q].todo[t.slug] = NoKey
        BY <1>0, <1>1, Types DEF NoRows
      <4>2. QED
        BY <4>1, <3>1, <2>1, <1>1 DEF IInv, StartInv
    <3>2. CASE t.pod # q
      BY <3>2, <2>1, <1>0, <1>2, Types DEF IInv, ToldKeysWork, Up
    <3>3. QED
      BY <3>1, <3>2
  <2>2. QED
    BY <2>1, <1>1 DEF ToldKeysWork, Up
<1>9. QED
  BY <1>3, <1>4, <1>5, <1>6, <1>7, <1>8 DEF IInv

LEMMA NextIInv == IInv /\ [Next]_vars => IInv'
<1> SUFFICES ASSUME IInv, [Next]_vars PROVE IInv'
  OBVIOUS
<1>1. ASSUME NEW o \in Ops, NEW q \in Pods, NEW s \in Slugs, Create(o, q, s) \/ Delete(o, q, s)
      PROVE  IInv'
  BY <1>1, CreateIInv, DeleteIInv
<1>2. ASSUME NEW o \in Ops,
             \/ Insert(o) \/ InsertViolatesUnique(o) \/ InsertConfig(o) \/ Load(o)
             \/ DeleteRow(o) \/ DeleteNothing(o) \/ Pop(o)
             \/ Fail(o) \/ Vanish(o)
      PROVE  IInv'
  BY <1>2, InsertIInv, EndIInv, InsertConfigIInv, LoadIInv, DeleteRowIInv, PopIInv, FailIInv
<1>3. ASSUME NEW q \in Pods,
             Crash(q) \/ Start(q) \/ Serve(q) \/ \E s \in Slugs : LoadRow(q, s)
      PROVE  IInv'
  BY <1>3, CrashIInv, StartIInv, ServeIInv, LoadRowIInv
<1>4. CASE UNCHANGED vars
  <2>1. UNCHANGED <<orgs, conf, cache, pod, op, drawn, told, deleted, closed, crossed>>
    BY <1>4 DEF vars
  <2>2. op' \in [Ops -> OpType]
    BY <2>1, Types DEF IInv
  <2>3. QED
    BY <2>1, <2>2, QuietIInv
<1>5. QED
  BY <1>1, <1>2, <1>3, <1>4 DEF Next

LEMMA IInvAlways == Spec => []IInv
  BY InitIInv, NextIInv, PTL DEF Spec

-----------------------------------------------------------------------------
(***************************************************************************)
(* Every variable of the registry keeps to its type.                       *)
(***************************************************************************)
THEOREM TypeCorrect == Spec => []TypeOK
<1>1. IInv => TypeOK
  BY DEF IInv
<1>2. QED
  BY <1>1, IInvAlways, PTL

(***************************************************************************)
(* Until the org is deleted, the row of a key that was handed out is there *)
(* and so is its configuration row, whatever other requests do or fail to  *)
(* do and whichever pods crash (register).                                 *)
(***************************************************************************)
THEOREM ToldKeysStayGoodAlways == Spec => []ToldKeysStayGood
<1>1. IInv => ToldKeysStayGood
  BY DEF IInv
<1>2. QED
  BY <1>1, IInvAlways, PTL

(***************************************************************************)
(* The pod that handed out a key serves the org when it is up, until the   *)
(* org is deleted; save where another creation or deletion of that slug    *)
(* was under way in the same pod when the row appeared (register,          *)
(* _load_all).                                                             *)
(***************************************************************************)
THEOREM ToldKeysWorkAlways == Spec => []ToldKeysWork
<1>1. IInv => ToldKeysWork
  BY DEF IInv
<1>2. QED
  BY <1>1, IInvAlways, PTL

(***************************************************************************)
(* A pod that has answered "deleted" does not serve that org again; save   *)
(* where it was still creating it when the row went (deregister).          *)
(***************************************************************************)
THEOREM DeletedOrgsAreGoneAlways == Spec => []DeletedOrgsAreGone
<1>1. IInv => DeletedOrgsAreGone
  BY DEF IInv
<1>2. QED
  BY <1>1, IInvAlways, PTL

-----------------------------------------------------------------------------
(***************************************************************************)
(* Each step is, for each slug, a step of OrgLife or none.                 *)
(***************************************************************************)
LEMMA LifeStutters ==
  ASSUME NEW s \in Slugs, orgs'[s] = orgs[s],
         \A q \in Pods : cache'[q][s] = cache[q][s],
         \A k \in Keys : <<s, k>> \in deleted' <=> <<s, k>> \in deleted
  PROVE  UNCHANGED Life(s)!vars
<1>1. [q \in Pods |-> cache'[q][s]] = [q \in Pods |-> cache[q][s]]
  OBVIOUS
<1>2. {k \in Keys : <<s, k>> \in deleted'} = {k \in Keys : <<s, k>> \in deleted}
  OBVIOUS
<1>3. QED
  BY <1>1, <1>2 DEF Life!vars

LEMMA InsertLife ==
  ASSUME IInv, NEW o \in Ops, Insert(o), NEW s \in Slugs
  PROVE  Life(s)!Next \/ UNCHANGED Life(s)!vars
<1>0. TypeOK
  BY DEF IInv
<1>1. /\ orgs[op[o].slug] = NoKey
      /\ orgs' = [orgs EXCEPT ![op[o].slug] = op[o].key]
      /\ UNCHANGED <<cache, deleted>>
      /\ op[o].slug \in Slugs /\ op[o].key \in Keys
      /\ <<op[o].slug, op[o].key>> \notin deleted
  BY <1>0, Types, OpFields DEF IInv, OpsInv, KeyInv, Placed, Insert, At
<1>2. CASE s = op[o].slug
  <2>1. orgs'[s] = op[o].key
    BY <1>0, <1>1, <1>2, Types
  <2>2. Life(s)!Appear(op[o].key)
    BY <2>1, <1>1, <1>2 DEF Life!Appear
  <2>3. QED
    BY <2>2, <1>1 DEF Life!Next
<1>3. CASE s # op[o].slug
  BY <1>0, <1>1, <1>3, Types, LifeStutters
<1>4. QED
  BY <1>2, <1>3

LEMMA DeleteRowLife ==
  ASSUME IInv, NEW o \in Ops, DeleteRow(o), NEW s \in Slugs
  PROVE  Life(s)!Next \/ UNCHANGED Life(s)!vars
<1> DEFINE k == orgs[op[o].slug]
<1>0. TypeOK
  BY DEF IInv
<1>1. /\ k # NoKey
      /\ orgs' = [orgs EXCEPT ![op[o].slug] = NoKey]
      /\ deleted' = deleted \cup {<<op[o].slug, k>>}
      /\ UNCHANGED cache
      /\ op[o].slug \in Slugs /\ k \in Keys
  BY <1>0, Types, OpFields DEF DeleteRow, At
<1>2. CASE s = op[o].slug
  <2>1. orgs'[s] = NoKey
    BY <1>0, <1>1, <1>2, Types
  <2>2. {x \in Keys : <<s, x>> \in deleted'} = {x \in Keys : <<s, x>> \in deleted} \cup {orgs[s]}
    BY <1>1, <1>2
  <2>3. Life(s)!Disappear
    BY <2>1, <2>2, <1>1, <1>2 DEF Life!Disappear
  <2>4. QED
    BY <2>3 DEF Life!Next
<1>3. CASE s # op[o].slug
  <2>1. /\ orgs'[s] = orgs[s]
        /\ \A x \in Keys : <<s, x>> \in deleted' <=> <<s, x>> \in deleted
    BY <1>0, <1>1, <1>3, Types
  <2>2. QED
    BY <2>1, <1>1, LifeStutters
<1>4. QED
  BY <1>2, <1>3

\* A pod takes an org into its dictionary, or drops one.
LEMMA TakeLife ==
  ASSUME TypeOK, NEW q \in Pods, NEW r \in Slugs, NEW k \in Keys,
         orgs[r] = k \/ <<r, k>> \in deleted,
         cache'[q][r] = k,
         \A p \in Pods, t \in Slugs : p # q \/ t # r => cache'[p][t] = cache[p][t],
         UNCHANGED <<orgs, deleted>>, NEW s \in Slugs
  PROVE  Life(s)!Next \/ UNCHANGED Life(s)!vars
<1>1. CASE s = r
  <2>1. [p \in Pods |-> cache'[p][s]] = [[p \in Pods |-> cache[p][s]] EXCEPT ![q] = k]
    BY <1>1
  <2>2. k \in {x \in Keys : <<s, x>> \in deleted} \cup {orgs[s]}
    BY <1>1
  <2>3. Life(s)!Take(q, k)
    BY <2>1, <2>2 DEF Life!Take
  <2>4. QED
    BY <2>3 DEF Life!Next
<1>2. CASE s # r
  BY <1>2, LifeStutters
<1>3. QED
  BY <1>1, <1>2

LEMMA DropLife ==
  ASSUME TypeOK, NEW q \in Pods, NEW s \in Slugs,
         cache'[q][s] = NoKey,
         \A p \in Pods : p # q => cache'[p][s] = cache[p][s],
         UNCHANGED <<orgs, deleted>>
  PROVE  Life(s)!Next
<1>1. [p \in Pods |-> cache'[p][s]] = [[p \in Pods |-> cache[p][s]] EXCEPT ![q] = NoKey]
  OBVIOUS
<1>2. Life(s)!Drop(q)
  BY <1>1 DEF Life!Drop
<1>3. QED
  BY <1>2 DEF Life!Next

LEMMA LoadLife ==
  ASSUME IInv, NEW o \in Ops, Load(o), NEW s \in Slugs
  PROVE  Life(s)!Next \/ UNCHANGED Life(s)!vars
<1>0. TypeOK
  BY DEF IInv
<1>1. PICK q \in Pods, r \in Slugs, k \in Keys :
        q = op[o].pod /\ r = op[o].slug /\ k = op[o].key
  BY <1>0, Types, OpFields DEF IInv, OpsInv, KeyInv, Load, At
<1>2. /\ cache' = [cache EXCEPT ![q][r] = k]
      /\ UNCHANGED <<orgs, deleted>>
      /\ orgs[r] = k \/ <<r, k>> \in deleted
  BY <1>1 DEF Load, At, IInv, OpsInv, KeyInv, Placed
<1>3. /\ cache'[q][r] = k
      /\ \A p \in Pods, t \in Slugs : p # q \/ t # r => cache'[p][t] = cache[p][t]
  BY <1>0, <1>2, Types
<1>4. QED
  BY <1>0, <1>2, <1>3, TakeLife

LEMMA LoadRowLife ==
  ASSUME IInv, NEW q \in Pods, NEW r \in Slugs, LoadRow(q, r), NEW s \in Slugs
  PROVE  Life(s)!Next \/ UNCHANGED Life(s)!vars
<1>0. TypeOK
  BY DEF IInv
<1>1. PICK k \in Keys : k = pod[q].todo[r]
  BY <1>0, Types DEF Rows, LoadRow
<1>2. /\ cache' = [cache EXCEPT ![q][r] = k]
      /\ UNCHANGED <<orgs, deleted>>
      /\ orgs[r] = k \/ <<r, k>> \in deleted
  BY <1>1 DEF LoadRow, IInv, StartInv
<1>3. /\ cache'[q][r] = k
      /\ \A p \in Pods, t \in Slugs : p # q \/ t # r => cache'[p][t] = cache[p][t]
  BY <1>0, <1>2, Types
<1>4. QED
  BY <1>0, <1>2, <1>3, TakeLife

LEMMA PopLife ==
  ASSUME IInv, NEW o \in Ops, Pop(o), NEW s \in Slugs
  PROVE  Life(s)!Next \/ UNCHANGED Life(s)!vars
<1>0. TypeOK
  BY DEF IInv
<1>1. PICK q \in Pods, r \in Slugs : q = op[o].pod /\ r = op[o].slug
  BY <1>0, Types, OpFields DEF Pop, At
<1>2. /\ cache' = [cache EXCEPT ![q][r] = NoKey]
      /\ UNCHANGED <<orgs, deleted>>
  BY <1>1 DEF Pop
<1>3. /\ cache'[q][r] = NoKey
      /\ \A p \in Pods, t \in Slugs : p # q \/ t # r => cache'[p][t] = cache[p][t]
  BY <1>0, <1>2, Types
<1>4. CASE s = r
  BY <1>0, <1>2, <1>3, <1>4, DropLife
<1>5. CASE s # r
  BY <1>2, <1>3, <1>5, LifeStutters
<1>6. QED
  BY <1>4, <1>5

LEMMA CrashLife ==
  ASSUME IInv, NEW q \in Pods, Crash(q), NEW s \in Slugs
  PROVE  Life(s)!Next
<1>0. TypeOK
  BY DEF IInv
<1>1. cache' = [cache EXCEPT ![q] = NoRows] /\ UNCHANGED <<orgs, deleted>>
  BY DEF Crash
<1>2. cache'[q][s] = NoKey /\ \A p \in Pods : p # q => cache'[p][s] = cache[p][s]
  BY <1>0, <1>1, Types DEF NoRows
<1>3. QED
  BY <1>0, <1>1, <1>2, DropLife

LEMMA NextLife ==
  ASSUME IInv, [Next]_vars, NEW s \in Slugs
  PROVE  Life(s)!Next \/ UNCHANGED Life(s)!vars
<1>1. CASE UNCHANGED <<orgs, cache, deleted>>
  BY <1>1, LifeStutters
<1>2. ASSUME NEW o \in Ops, NEW q \in Pods, NEW r \in Slugs, Create(o, q, r) \/ Delete(o, q, r)
      PROVE  UNCHANGED <<orgs, cache, deleted>>
  BY <1>2 DEF Create, Delete
<1>3. ASSUME NEW o \in Ops,
             \/ InsertViolatesUnique(o) \/ InsertConfig(o) \/ DeleteNothing(o)
             \/ Fail(o) \/ Vanish(o)
      PROVE  UNCHANGED <<orgs, cache, deleted>>
  BY <1>3 DEF InsertViolatesUnique, InsertConfig, DeleteNothing, Fail, Vanish
<1>4. ASSUME NEW o \in Ops, Insert(o) \/ Load(o) \/ DeleteRow(o) \/ Pop(o)
      PROVE  Life(s)!Next \/ UNCHANGED Life(s)!vars
  BY <1>4, InsertLife, LoadLife, DeleteRowLife, PopLife
<1>5. ASSUME NEW q \in Pods, Start(q) \/ Serve(q)
      PROVE  UNCHANGED <<orgs, cache, deleted>>
  BY <1>5 DEF Start, Serve
<1>6. ASSUME NEW q \in Pods, Crash(q) \/ \E r \in Slugs : LoadRow(q, r)
      PROVE  Life(s)!Next \/ UNCHANGED Life(s)!vars
  BY <1>6, CrashLife, LoadRowLife
<1>7. CASE UNCHANGED vars
  BY <1>7, <1>1 DEF vars
<1>8. QED
  BY <1>1, <1>2, <1>3, <1>4, <1>5, <1>6, <1>7 DEF Next

(***************************************************************************)
(* The registry implements OrgLife for every slug: a pod serves only orgs  *)
(* whose rows are or were there, under their own slug, and no row comes    *)
(* back with a key of old (register, deregister, _load_all).               *)
(***************************************************************************)
THEOREM ImplementsOrgLifeAlways == Spec => ImplementsOrgLife
<1>1. Init => \A s \in Slugs : Life(s)!Init
  <2> SUFFICES ASSUME Init, NEW s \in Slugs PROVE Life(s)!Init
    OBVIOUS
  <2>1. /\ orgs[s] = NoKey /\ deleted = {}
        /\ [q \in Pods |-> cache[q][s]] = [q \in Pods |-> NoKey]
    BY DEF Init, NoRows
  <2>2. {k \in Keys : <<s, k>> \in deleted} = {}
    BY <2>1
  <2>3. QED
    BY <2>1, <2>2 DEF Life!Init
<1>2. IInv /\ [Next]_vars => [\A s \in Slugs : Life(s)!Next \/ UNCHANGED Life(s)!vars]_vars
  BY NextLife
<1>3. QED
  BY <1>1, <1>2, IInvAlways, PTL DEF Spec, ImplementsOrgLife
=============================================================================
