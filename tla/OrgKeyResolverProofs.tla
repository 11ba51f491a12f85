------------------------ MODULE OrgKeyResolverProofs ------------------------
(***************************************************************************)
(* Proofs about OrgKeyResolver, for any pods, requests and bound.          *)
(***************************************************************************)
EXTENDS OrgKeyResolver, TLAPS

Holding == {"selected", "storing", "stored", "orphan"}

(***************************************************************************)
(* A request only ever holds a key set that was generated, and one that    *)
(* was stored unless it is its own and on its way to the row.              *)
(***************************************************************************)
TaskInv(q) ==
  /\ q.phase \in {"storing", "orphan"} => q.keys # NoKeys
  /\ q.phase = "stored" => q.keys \in stored
  /\ q.phase = "selected" => q.keys \in stored \cup {NoKeys}

IInv ==
  /\ TypeOK
  /\ row \in stored \cup {NoKeys}
  /\ \A p \in Pods : cache[p] \in stored \cup {NoKeys}
  /\ \A t \in Tasks : TaskInv(task[t])
  /\ ShownWasStored

-----------------------------------------------------------------------------
LEMMA InitIInv == Init => IInv
<1> SUFFICES ASSUME Init PROVE IInv
  OBVIOUS
<1>1. contested \in BOOLEAN
  BY DEF Init
<1>2. QED
  BY <1>1, ResolverAssumption DEF Init, IInv, TypeOK, Idle, NoKeys, Phases, TaskInv, ShownWasStored

LEMMA TaskType ==
  ASSUME IInv, NEW t \in Tasks
  PROVE  /\ task[t].phase \in Phases
         /\ task[t].keys \in 0..minted
         /\ TaskInv(task[t])
         /\ PodOf[t] \in Pods
         /\ minted \in Nat
  BY ResolverAssumption DEF IInv, TypeOK

\* A step that moves one request on.
LEMMA GoesIInv ==
  ASSUME IInv, NEW t \in Tasks, NEW phase \in Phases, NEW keys \in 0..minted',
         Goes(t, phase, keys),
         minted' \in minted..MaxMinted, stored \subseteq stored', stored' \subseteq 1..minted',
         row' \in stored' \cup {NoKeys},
         cache' \in [Pods -> stored' \cup {NoKeys}],
         shown' \subseteq stored',
         phase \in {"storing", "orphan"} => keys # NoKeys,
         phase = "stored" => keys \in stored',
         phase = "selected" => keys \in stored' \cup {NoKeys},
         contested' \in BOOLEAN
  PROVE  IInv'
<1>1. /\ minted \in Nat /\ minted' \in Nat /\ minted <= minted' /\ minted' \in 0..MaxMinted
      /\ task \in [Tasks -> [phase : Phases, keys : 0..minted]]
  BY ResolverAssumption DEF IInv, TypeOK
<1>2. [phase |-> phase, keys |-> keys] \in [phase : Phases, keys : 0..minted']
  OBVIOUS
<1>3. task' \in [Tasks -> [phase : Phases, keys : 0..minted']]
  BY <1>1, <1>2 DEF Goes
<1>4. TypeOK'
  <2>1. NoKeys \in 0..minted' /\ stored' \subseteq 0..minted'
    BY <1>1 DEF NoKeys
  <2>2. QED
    BY <1>1, <1>3, <2>1 DEF TypeOK
<1>5. ASSUME NEW u \in Tasks PROVE TaskInv(task[u])'
  <2>1. CASE u = t
    BY <1>1, <2>1 DEF Goes, TaskInv
  <2>2. CASE u # t
    BY <1>1, <2>2 DEF Goes, TaskInv, IInv
  <2>3. QED
    BY <2>1, <2>2
<1>6. QED
  BY <1>4, <1>5 DEF IInv, ShownWasStored

\* A step that ends requests early.
LEMMA AbandonIInv ==
  ASSUME IInv, NEW qs \in SUBSET Tasks, NEW sent \in SUBSET Sending, Abandon(qs, sent),
         UNCHANGED <<row, minted, stored, shown>>,
         \A p \in Pods : cache'[p] \in {cache[p], NoKeys},
         cache' \in [Pods -> 0..minted],
         contested' \in BOOLEAN
  PROVE  IInv'
<1>1. ASSUME NEW t \in Tasks
      PROVE  task'[t] \in [phase : Phases, keys : 0..minted] /\ TaskInv(task'[t])
  <2>1. \/ task'[t] = task[t]
        \/ task'[t] = [task[t] EXCEPT !.phase = "orphan"] /\ t \in Sending
        \/ task'[t] = Idle
    BY DEF Abandon
  <2>2. CASE task'[t] = task[t]
    BY <2>2 DEF IInv, TypeOK
  <2>3. CASE task'[t] = [task[t] EXCEPT !.phase = "orphan"] /\ t \in Sending
    <3>1. task[t] \in [phase : Phases, keys : 0..minted] /\ "orphan" \in Phases
      BY DEF IInv, TypeOK, Phases
    <3>2. task'[t] \in [phase : Phases, keys : 0..minted]
      BY <2>3, <3>1
    <3>3. task'[t].phase = "orphan" /\ task'[t].keys = task[t].keys
      BY <2>3, <3>1
    <3>4. task[t].keys # NoKeys
      BY <2>3, TaskType DEF TaskInv, Sending
    <3>5. QED
      BY <3>2, <3>3, <3>4 DEF TaskInv
  <2>4. CASE task'[t] = Idle
    <3>1. minted \in Nat
      BY TaskType
    <3>2. Idle \in [phase : Phases, keys : 0..minted] /\ TaskInv(Idle)
      BY <3>1 DEF Idle, NoKeys, Phases, TaskInv
    <3>3. QED
      BY <2>4, <3>2
  <2>5. QED
    BY <2>1, <2>2, <2>3, <2>4
<1>2. task' \in [Tasks -> [phase : Phases, keys : 0..minted]]
  BY <1>1 DEF Abandon
<1>3. TypeOK'
  BY <1>2 DEF IInv, TypeOK
<1>4. (\A t \in Tasks : TaskInv(task[t]))'
  BY <1>1 DEF TaskInv
<1>5. QED
  BY <1>3, <1>4 DEF IInv, ShownWasStored

\* The three ways to an answer.
LEMMA AnswerIInv ==
  ASSUME IInv, NEW t \in Tasks, NEW k \in stored, Answer(t, k),
         UNCHANGED <<row, minted, stored>>,
         cache' = cache \/ cache' = [cache EXCEPT ![PodOf[t]] = k],
         contested' \in BOOLEAN
  PROVE  IInv'
<1>1. cache \in [Pods -> stored \cup {NoKeys}]
  BY DEF IInv, TypeOK
<1>2. cache' \in [Pods -> stored \cup {NoKeys}]
  BY <1>1
<1>3. shown' \subseteq stored
  BY DEF Answer, IInv, ShownWasStored
<1>4. "idle" \in Phases /\ NoKeys \in 0..minted /\ minted \in minted..MaxMinted
  BY ResolverAssumption DEF Phases, NoKeys, IInv, TypeOK
<1>5. QED
  BY <1>2, <1>3, <1>4, GoesIInv DEF Answer, IInv, TypeOK

LEMMA NextIInv == IInv /\ [Next]_vars => IInv'
<1> SUFFICES ASSUME IInv, [Next]_vars PROVE IInv'
  OBVIOUS
<1>0. /\ minted \in Nat /\ minted \in minted..MaxMinted /\ NoKeys \in 0..minted
      /\ cache \in [Pods -> stored \cup {NoKeys}]
      /\ row \in 0..minted
      /\ {"idle", "selecting", "selected", "storing", "stored"} \subseteq Phases
      /\ contested' \in BOOLEAN
  <2>1. contested' \in BOOLEAN
    BY DEF IInv, TypeOK, Next, vars
  <2>2. QED
    BY <2>1, ResolverAssumption DEF IInv, TypeOK, NoKeys, Phases
<1>1. ASSUME NEW t \in Tasks, CacheHit(t) PROVE IInv'
  <2>1. cache[PodOf[t]] \in stored
    BY <1>1, TaskType DEF CacheHit, IInv
  <2>2. QED
    BY <1>0, <1>1, <2>1, AnswerIInv DEF CacheHit
<1>2. ASSUME NEW t \in Tasks, CacheMiss(t) PROVE IInv'
  BY <1>0, <1>2, GoesIInv DEF CacheMiss, IInv, TypeOK, ShownWasStored
<1>3. ASSUME NEW t \in Tasks, Select(t) PROVE IInv'
  BY <1>0, <1>3, GoesIInv DEF Select, IInv, TypeOK, ShownWasStored
<1>4. ASSUME NEW t \in Tasks, Load(t) PROVE IInv'
  BY <1>0, <1>4, AnswerIInv, TaskType DEF Load, At, CacheAndAnswer, TaskInv
<1>5. ASSUME NEW t \in Tasks, Generate(t) PROVE IInv'
  <2>1. /\ Goes(t, "storing", minted + 1)
        /\ minted' = minted + 1
        /\ minted < MaxMinted
        /\ UNCHANGED <<row, cache, stored, shown>>
    BY <1>5 DEF Generate
  <2>2. /\ minted' \in minted..MaxMinted
        /\ minted + 1 \in 0..minted'
        /\ minted + 1 # NoKeys
        /\ stored' \subseteq 1..minted'
    BY <1>0, <2>1, ResolverAssumption DEF NoKeys, IInv, TypeOK
  <2>3. QED
    BY <1>0, <2>1, <2>2, GoesIInv DEF IInv, ShownWasStored
<1>6. ASSUME NEW t \in Tasks, Upsert(t) PROVE IInv'
  <2>1. /\ row' = task[t].keys
        /\ stored' = stored \cup {task[t].keys}
        /\ Goes(t, "idle", NoKeys) \/ Goes(t, "stored", task[t].keys)
        /\ UNCHANGED <<cache, minted, shown>>
    BY <1>6 DEF Upsert
  <2>2. task[t].keys \in 1..minted
    <3>1. task[t].keys \in 0..minted /\ TaskInv(task[t])
      BY TaskType
    <3>2. task[t].keys # 0
      BY <1>6, <3>1 DEF Upsert, TaskInv, NoKeys
    <3>3. QED
      BY <1>0, <3>1, <3>2
  <2>3. /\ stored' \subseteq 1..minted
        /\ cache' \in [Pods -> stored' \cup {NoKeys}]
        /\ shown' \subseteq stored'
    BY <1>0, <2>1, <2>2 DEF IInv, TypeOK, ShownWasStored
  <2>4. QED
    BY <1>0, <2>1, <2>2, <2>3, GoesIInv
<1>7. ASSUME NEW t \in Tasks, Remember(t) PROVE IInv'
  BY <1>0, <1>7, AnswerIInv, TaskType DEF Remember, At, CacheAndAnswer, TaskInv
<1>8. ASSUME NEW t \in Tasks, Fail(t) PROVE IInv'
  <2>1. PICK sent \in SUBSET Sending : Abandon({t}, sent)
    BY <1>8 DEF Fail
  <2>2. UNCHANGED <<row, cache, minted, stored, shown>>
    BY <1>8 DEF Fail
  <2>3. QED
    BY <1>0, <2>1, <2>2, AbandonIInv DEF IInv, TypeOK
<1>9. ASSUME NEW p \in Pods, PodRestarts(p) PROVE IInv'
  <2>1. PICK sent \in SUBSET Sending : Abandon({t \in Tasks : PodOf[t] = p}, sent)
    BY <1>9 DEF PodRestarts
  <2>2. /\ cache' = [cache EXCEPT ![p] = NoKeys]
        /\ UNCHANGED <<row, minted, stored, shown>>
    BY <1>9 DEF PodRestarts
  <2>3. /\ \A q \in Pods : cache'[q] \in {cache[q], NoKeys}
        /\ cache' \in [Pods -> 0..minted]
    BY <1>0, <2>2 DEF IInv, TypeOK
  <2>4. {t \in Tasks : PodOf[t] = p} \in SUBSET Tasks
    OBVIOUS
  <2>5. QED
    BY <1>0, <2>1, <2>2, <2>3, <2>4, AbandonIInv
<1>10. CASE UNCHANGED vars
  BY <1>10 DEF vars, IInv, TypeOK, TaskInv, ShownWasStored
<1>11. QED
  BY <1>1, <1>2, <1>3, <1>4, <1>5, <1>6, <1>7, <1>8, <1>9, <1>10 DEF Next, Step

LEMMA IInvAlways == Spec => []IInv
  BY InitIInv, NextIInv, PTL DEF Spec

(***************************************************************************)
(* Every reachable state is well typed: no request holds, and no row or    *)
(* cache has, a key set that was not generated (_load_or_create).          *)
(***************************************************************************)
THEOREM TypeCorrect == Spec => []TypeOK
<1>1. IInv => TypeOK
  BY DEF IInv
<1>2. QED
  BY <1>1, IInvAlways, PTL

(***************************************************************************)
(* A client never sees a key set that was not in the row before: failures, *)
(* races and restarts lose no key set that only a pod knew (_persist comes *)
(* before the return).                                                     *)
(***************************************************************************)
THEOREM ShownWasStoredAlways == Spec => []ShownWasStored
<1>1. IInv => ShownWasStored
  BY DEF IInv
<1>2. QED
  BY <1>1, IInvAlways, PTL

-----------------------------------------------------------------------------
(***************************************************************************)
(* Steps from a settled state.                                             *)
(***************************************************************************)
LEMMA GoesSettled ==
  ASSUME IInv, Settled, NEW t \in Tasks, NEW phase, NEW keys, Goes(t, phase, keys),
         row' = row, phase \in Holding => keys = row
  PROVE  Settled'
<1>1. task \in [Tasks -> [phase : Phases, keys : 0..minted]]
  BY DEF IInv, TypeOK
<1>2. ASSUME NEW u \in Tasks, task'[u].phase \in Holding PROVE task'[u].keys = row
  BY <1>1, <1>2 DEF Goes, Settled, Holding
<1>3. QED
  BY <1>2 DEF Settled, Holding

LEMMA AbandonSettled ==
  ASSUME IInv, Settled, NEW qs, NEW sent \in SUBSET Sending, Abandon(qs, sent), row' = row
  PROVE  Settled'
<1>1. task \in [Tasks -> [phase : Phases, keys : 0..minted]]
  BY DEF IInv, TypeOK
<1>2. ASSUME NEW u \in Tasks, task'[u].phase \in Holding PROVE task'[u].keys = row
  <2>1. \/ task'[u] = task[u]
        \/ task'[u] = [task[u] EXCEPT !.phase = "orphan"] /\ u \in Sending
        \/ task'[u] = Idle
    BY DEF Abandon
  <2>2. CASE task'[u] = [task[u] EXCEPT !.phase = "orphan"] /\ u \in Sending
    <3>1. task'[u].keys = task[u].keys
      BY <1>1, <2>2
    <3>2. QED
      BY <2>2, <3>1 DEF Settled, Sending
  <2>3. QED
    BY <1>2, <2>1, <2>2 DEF Settled, Holding, Idle
<1>3. QED
  BY <1>2 DEF Settled, Holding

LEMMA SettledStep ==
  ASSUME IInv, Settled, [Next]_vars
  PROVE  /\ Settled'
         /\ row' = row
         /\ \A p \in Pods : cache'[p] \in {cache[p], NoKeys, row}
         /\ \A k \in shown' : \/ k \in shown \cup {row}
                              \/ \E p \in Pods : k = cache[p] /\ k # NoKeys
<1> DEFINE Cached == \A p \in Pods : cache'[p] \in {cache[p], NoKeys, row}
           Seen   == \A k \in shown' : \/ k \in shown \cup {row}
                                       \/ \E p \in Pods : k = cache[p] /\ k # NoKeys
<1>0. /\ "idle" \notin Holding
      /\ "selecting" \notin Holding
      /\ {"selected", "storing", "stored"} \subseteq Holding
      /\ cache \in [Pods -> 0..minted]
  BY DEF Holding, IInv, TypeOK
<1>1. ASSUME NEW t \in Tasks, CacheHit(t) PROVE Settled' /\ row' = row /\ Cached /\ Seen
  BY <1>0, <1>1, GoesSettled, TaskType DEF CacheHit, Answer
<1>2. ASSUME NEW t \in Tasks, CacheMiss(t) PROVE Settled' /\ row' = row /\ Cached /\ Seen
  BY <1>0, <1>2, GoesSettled DEF CacheMiss
<1>3. ASSUME NEW t \in Tasks, Select(t) PROVE Settled' /\ row' = row /\ Cached /\ Seen
  BY <1>0, <1>3, GoesSettled DEF Select
<1>4. ASSUME NEW t \in Tasks, Load(t) \/ Remember(t)
      PROVE  Settled' /\ row' = row /\ Cached /\ Seen
  <2>1. task[t].keys = row
    BY <1>4 DEF Load, Remember, At, Settled
  <2>2. /\ Goes(t, "idle", NoKeys)
        /\ shown' = shown \cup {row}
        /\ cache' = [cache EXCEPT ![PodOf[t]] = row]
        /\ row' = row
    BY <1>4, <2>1 DEF Load, Remember, CacheAndAnswer, Answer
  <2>3. QED
    BY <1>0, <2>2, GoesSettled
<1>5. ASSUME NEW t \in Tasks, Generate(t) PROVE FALSE
  BY <1>5 DEF Generate, At, Settled
<1>6. ASSUME NEW t \in Tasks, Upsert(t) PROVE Settled' /\ row' = row /\ Cached /\ Seen
  <2>1. task[t].keys = row
    BY <1>6 DEF Upsert, Settled
  <2>2. /\ Goes(t, "idle", NoKeys) \/ Goes(t, "stored", row)
        /\ row' = row
        /\ UNCHANGED <<cache, shown>>
    BY <1>6, <2>1 DEF Upsert
  <2>3. QED
    BY <1>0, <2>2, GoesSettled
<1>7. ASSUME NEW t \in Tasks, Fail(t) PROVE Settled' /\ row' = row /\ Cached /\ Seen
  BY <1>0, <1>7, AbandonSettled DEF Fail
<1>8. ASSUME NEW p \in Pods, PodRestarts(p) PROVE Settled' /\ row' = row /\ Cached /\ Seen
  BY <1>0, <1>8, AbandonSettled DEF PodRestarts
<1>9. CASE UNCHANGED vars
  BY <1>9 DEF vars, Settled
<1>10. QED
  BY <1>1, <1>2, <1>3, <1>4, <1>5, <1>6, <1>7, <1>8, <1>9 DEF Next, Step

(***************************************************************************)
(* Once settled, always settled: the row keeps its key set and pods only   *)
(* take up that one, through any failures and restarts (_load_or_create).  *)
(***************************************************************************)
THEOREM SettledStaysAlways == Spec => SettledStays
<1>1. IInv /\ [Next]_vars
        => [Settled => /\ Settled'
                       /\ row' = row
                       /\ \A p \in Pods : cache'[p] \in {cache[p], NoKeys, row}]_vars
  BY SettledStep
<1>2. QED
  BY <1>1, IInvAlways, PTL DEF Spec, SettledStays

-----------------------------------------------------------------------------
(***************************************************************************)
(* First uses that do not overlap: before the first upsert nobody has seen *)
(* or kept anything, after it everything is settled.                       *)
(***************************************************************************)
Before ==
  /\ \A p \in Pods : cache[p] = NoKeys
  /\ shown = {}
  /\ \A t \in Tasks : /\ task[t].phase # "stored"
                      /\ task[t].phase = "selected" => task[t].keys = NoKeys

After ==
  /\ Settled
  /\ \A p \in Pods : cache[p] \in {NoKeys, row}
  /\ shown \subseteq {row}

SerialInv ==
  /\ IInv
  /\ OneCreator
  /\ row = NoKeys => Before
  /\ row # NoKeys => After

LEMMA InitSerialInv == Init => SerialInv
<1>1. Init => OneCreator /\ Before /\ row = NoKeys
  BY DEF Init, OneCreator, Creates, At, Idle, Before
<1>2. QED
  BY <1>1, InitIInv DEF SerialInv

LEMMA GoesBefore ==
  ASSUME IInv, Before, NEW t \in Tasks, NEW phase, NEW keys, Goes(t, phase, keys),
         UNCHANGED <<cache, shown>>, phase # "stored", phase = "selected" => keys = NoKeys
  PROVE  Before'
  BY DEF Goes, Before, IInv, TypeOK

LEMMA AbandonBefore ==
  ASSUME IInv, Before, NEW qs, NEW sent, Abandon(qs, sent), shown' = shown,
         \A p \in Pods : cache'[p] = NoKeys
  PROVE  Before'
<1>1. task \in [Tasks -> [phase : Phases, keys : 0..minted]]
  BY DEF IInv, TypeOK
<1>2. ASSUME NEW u \in Tasks
      PROVE  /\ task'[u].phase # "stored"
             /\ task'[u].phase = "selected" => task'[u].keys = NoKeys
  <2>1. \/ task'[u] = task[u]
        \/ task'[u] = [task[u] EXCEPT !.phase = "orphan"]
        \/ task'[u] = Idle
    BY DEF Abandon
  <2>2. QED
    BY <1>1, <2>1 DEF Before, Idle
<1>3. QED
  BY <1>2 DEF Before

\* A step of the time before the first upsert, other than that upsert.
LEMMA BeforeStep ==
  ASSUME IInv, OneCreator, Before, row = NoKeys, [Next]_vars
  PROVE  \/ Before' /\ row' = row
         \/ After' /\ row' # NoKeys
<1>1. ASSUME NEW t \in Tasks, CacheHit(t) PROVE FALSE
  BY <1>1, TaskType DEF CacheHit, Before
<1>2. ASSUME NEW t \in Tasks, CacheMiss(t) PROVE Before' /\ row' = row
  BY <1>2, GoesBefore DEF CacheMiss
<1>3. ASSUME NEW t \in Tasks, Select(t) PROVE Before' /\ row' = row
  BY <1>3, GoesBefore DEF Select
<1>4. ASSUME NEW t \in Tasks, Load(t) \/ Remember(t) PROVE FALSE
  BY <1>4 DEF Load, Remember, At, Before
<1>5. ASSUME NEW t \in Tasks, Generate(t) PROVE Before' /\ row' = row
  BY <1>5, GoesBefore DEF Generate
<1>6. ASSUME NEW t \in Tasks, Upsert(t) PROVE After' /\ row' # NoKeys
  <2>1. row' = task[t].keys /\ row' # NoKeys
    BY <1>6, TaskType DEF Upsert, TaskInv
  <2>2. task \in [Tasks -> [phase : Phases, keys : 0..minted]]
    BY DEF IInv, TypeOK
  <2>3. Goes(t, "idle", NoKeys) \/ Goes(t, "stored", task[t].keys)
    BY <1>6 DEF Upsert
  <2>4. ASSUME NEW u \in Tasks, task'[u].phase \in Holding PROVE task'[u].keys = row'
    <3>1. CASE u = t
      BY <2>1, <2>2, <2>3, <2>4, <3>1 DEF Goes, Holding
    <3>2. CASE u # t
      <4>1. Creates(t) /\ ~Creates(u)
        BY <1>6, <3>2 DEF Upsert, Creates, OneCreator
      <4>2. task[u].phase \notin Holding
        BY <4>1 DEF Creates, At, Before, Holding
      <4>3. QED
        BY <2>2, <2>3, <2>4, <3>2, <4>2 DEF Goes
    <3>3. QED
      BY <3>1, <3>2
  <2>5. Settled'
    BY <2>1, <2>4 DEF Settled, Holding
  <2>6. UNCHANGED <<cache, shown>>
    BY <1>6 DEF Upsert
  <2>7. QED
    BY <2>1, <2>5, <2>6 DEF After, Before
<1>7. ASSUME NEW t \in Tasks, Fail(t) PROVE Before' /\ row' = row
  BY <1>7, AbandonBefore DEF Fail, Before
<1>8. ASSUME NEW p \in Pods, PodRestarts(p) PROVE Before' /\ row' = row
  <2>1. \A q \in Pods : cache'[q] = NoKeys
    BY <1>8 DEF PodRestarts, Before, IInv, TypeOK
  <2>2. QED
    BY <1>8, <2>1, AbandonBefore DEF PodRestarts
<1>9. CASE UNCHANGED vars
  BY <1>9 DEF vars, Before
<1>10. QED
  BY <1>1, <1>2, <1>3, <1>4, <1>5, <1>6, <1>7, <1>8, <1>9 DEF Next, Step

LEMMA SerialNext == SerialInv /\ [Next]_vars /\ ~contested' => SerialInv'
<1> SUFFICES ASSUME SerialInv, [Next]_vars, ~contested' PROVE SerialInv'
  OBVIOUS
<1>1. IInv
  BY DEF SerialInv
<1>2. IInv'
  BY <1>1, NextIInv
<1>3. OneCreator'
  <2>1. CASE Next
    BY <2>1 DEF Next
  <2>2. CASE UNCHANGED vars
    BY <2>2 DEF SerialInv, vars, OneCreator, Creates, At
  <2>3. QED
    BY <2>1, <2>2
<1>4. CASE row = NoKeys
  <2>1. (Before' /\ row' = row) \/ (After' /\ row' # NoKeys)
    BY <1>1, <1>4, BeforeStep DEF SerialInv
  <2>2. QED
    BY <1>2, <1>3, <1>4, <2>1 DEF SerialInv
<1>5. CASE row # NoKeys
  <2>1. After
    BY <1>5 DEF SerialInv
  <2>2. After' /\ row' = row
    BY <1>1, <2>1, SettledStep DEF After
  <2>3. QED
    BY <1>2, <1>3, <1>5, <2>2 DEF SerialInv
<1>6. QED
  BY <1>4, <1>5

PromiseInv == IInv /\ (~contested => SerialInv)

LEMMA PromiseNext == PromiseInv /\ [Next]_vars => PromiseInv'
<1> SUFFICES ASSUME PromiseInv, [Next]_vars PROVE PromiseInv'
  OBVIOUS
<1>1. IInv'
  BY NextIInv DEF PromiseInv
<1>2. ~contested' => ~contested
  BY DEF Next, vars
<1>3. QED
  BY <1>1, <1>2, SerialNext DEF PromiseInv

\* Only an answer shows anything, and it shows a stored key set.
LEMMA ShownStep ==
  ASSUME IInv, [Next]_vars
  PROVE  \/ shown' = shown
         \/ \E t \in Tasks, k \in 1..MaxMinted : Answer(t, k)
<1>0. stored \subseteq 1..MaxMinted
  BY ResolverAssumption DEF IInv, TypeOK
<1>1. ASSUME NEW t \in Tasks, CacheHit(t) PROVE \E k \in 1..MaxMinted : Answer(t, k)
  <2>1. cache[PodOf[t]] \in stored
    BY <1>1, TaskType DEF CacheHit, IInv
  <2>2. QED
    BY <1>0, <1>1, <2>1 DEF CacheHit
<1>2. ASSUME NEW t \in Tasks, Load(t) \/ Remember(t)
      PROVE  \E k \in 1..MaxMinted : Answer(t, k)
  <2>1. task[t].keys \in stored
    BY <1>2, TaskType DEF Load, Remember, At, TaskInv
  <2>2. QED
    BY <1>0, <1>2, <2>1 DEF Load, Remember, CacheAndAnswer
<1>3. ASSUME NEW t \in Tasks,
             CacheMiss(t) \/ Select(t) \/ Generate(t) \/ Upsert(t) \/ Fail(t)
      PROVE  shown' = shown
  BY <1>3 DEF CacheMiss, Select, Generate, Upsert, Fail
<1>4. ASSUME NEW p \in Pods, PodRestarts(p) PROVE shown' = shown
  BY <1>4 DEF PodRestarts
<1>5. CASE UNCHANGED vars
  BY <1>5 DEF vars
<1>6. QED
  BY <1>1, <1>2, <1>3, <1>4, <1>5 DEF Next, Step

\* An answer starts no creation.
LEMMA AnswerCreates ==
  ASSUME IInv, OneCreator, NEW t \in Tasks, NEW k, Answer(t, k)
  PROVE  OneCreator'
<1>1. task \in [Tasks -> [phase : Phases, keys : 0..minted]]
  BY DEF IInv, TypeOK
<1>2. ASSUME NEW u \in Tasks, Creates(u)' PROVE Creates(u)
  BY <1>1, <1>2 DEF Answer, Goes, Creates, At
<1>3. QED
  BY <1>2 DEF OneCreator

(***************************************************************************)
(* Until two first uses overlap, hosted mode keeps its promise: the        *)
(* detailed look-up of keys implements a server with one key set per org   *)
(* and issuer, across pods, failures and restarts (_OrgKeyResolver).       *)
(***************************************************************************)
THEOREM KeepsPromiseAlways == Spec => KeepsPromise
<1>1. Init => Promise!Init
  BY DEF Init, Promise!Init
<1>2. PromiseInv /\ PromiseInv' /\ [Next]_vars => [Promise!Next]_(Promise!vars)
  <2> SUFFICES ASSUME PromiseInv, PromiseInv', [Next]_vars
               PROVE  [Promise!Next]_(Promise!vars)
    OBVIOUS
  <2>0. /\ contested \in BOOLEAN /\ contested' \in BOOLEAN
        /\ contested => contested'
    BY DEF PromiseInv, IInv, TypeOK, Next, vars
  <2>1. \/ shown' = shown
        \/ \E t \in Tasks, k \in 1..MaxMinted : Answer(t, k)
    BY ShownStep DEF PromiseInv
  <2>2. CASE shown' = shown
    BY <2>0, <2>2 DEF Promise!Next, Promise!Contest, Promise!vars
  <2>3. ASSUME NEW t \in Tasks, NEW k \in 1..MaxMinted, Answer(t, k), shown' # shown
        PROVE  Promise!Show(k)
    <3>1. shown' = shown \cup {k}
      BY <2>3 DEF Answer
    <3>2. CASE contested
      BY <2>0, <3>1, <3>2 DEF Promise!Show
    <3>3. CASE ~contested
      <4>1. OneCreator'
        BY <2>3, <3>3, AnswerCreates DEF PromiseInv, SerialInv
      <4>2. ~contested'
        BY <2>3, <3>3, <4>1 DEF Next, vars
      <4>3. SerialInv'
        BY <4>2 DEF PromiseInv
      <4>4. shown' \subseteq {row'}
        BY <3>1, <4>3 DEF SerialInv, Before, After
      <4>5. shown \subseteq {k}
        BY <3>1, <4>4
      <4>6. QED
        BY <3>1, <3>3, <4>2, <4>5, <2>0 DEF Promise!Show
    <3>4. QED
      BY <3>2, <3>3
  <2>4. QED
    BY <2>1, <2>2, <2>3 DEF Promise!Next
<1>3. PromiseInv /\ [Next]_vars => PromiseInv'
  BY PromiseNext
<1>4. Init => PromiseInv
  BY InitSerialInv DEF PromiseInv, SerialInv
<1>5. QED
  BY <1>1, <1>2, <1>3, <1>4, PTL DEF Spec, KeepsPromise, Promise!Spec
=============================================================================
