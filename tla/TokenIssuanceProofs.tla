------------------------- MODULE TokenIssuanceProofs -------------------------
(***************************************************************************)
(* Proofs about TokenIssuance, for any number of requests, configurations, *)
(* tokens, rotations and restarts.                                         *)
(*                                                                         *)
(* The argument.  Key numbers are never used twice, so a number that is    *)
(* both on a token and in the present store tells which slot, generation   *)
(* and process the token is of (EntryInv).  Hence what verifies was signed *)
(* with a signing key the issuer still has, and a chain of exchanges can   *)
(* be followed back one link at a time.                                    *)
(*                                                                         *)
(* A second invariant (HInv) carries what was in force during a request    *)
(* from one of its phases to the next, for the properties about faults,    *)
(* modes and late failures.                                                *)
(***************************************************************************)
EXTENDS TokenIssuance, KeyMaterialProofs

(***************************************************************************)
(* The key store: every key has its kid and a number in use, all different.*)
(***************************************************************************)
StoreInv ==
  /\ \A s \in Slots : /\ store.keys[s].kid = KidOf(Issuer, s, store.seq)
                      /\ store.keys[s].mat \in 1..minted
  /\ \A s, q \in Slots : store.keys[s].mat = store.keys[q].mat => s = q

EntryInv(e) ==
  /\ e.sig.mat <= minted
  /\ e.slot = "none" <=> e.sig.mat = 0
  /\ \A s \in Slots : e.sig.mat = store.keys[s].mat =>
        /\ e.slot = s
        /\ e.epoch = epoch
        /\ s = "signing" => e.gen = store.seq
  /\ e.event.expKind = "absent" => "exp" \in e.omit
  /\ e.event.expKind = "numeral" => e.extra.expKind = "numeral"

\* A request that is not decided asks something a client can ask.
RequestInv(q) ==
  q.phase \in {"body", "delayed"} => q.job \in JobType /\ q.job.subject <= Len(log)

\* A request that announces its token has one.
TokenInv(q) ==
  q.phase \in {"webhooks", "audit", "respond"} => q.tok \in 1..Len(log)

IInv ==
  /\ TypeOK
  /\ StoreInv
  /\ \A n \in DOMAIN log : EntryInv(log[n])
  /\ \A r \in Requests : RequestInv(reqs[r]) /\ TokenInv(reqs[r])
  /\ NoLaundering
  /\ SubjectsAreEarned

-----------------------------------------------------------------------------
(***************************************************************************)
(* The claims that are built are claims.                                   *)
(***************************************************************************)
LEMMA OwnIdType ==
  ASSUME NEW c \in ConfigType, NEW id \in Identities
  PROVE  OwnId(c, id) \in [IdClaims -> Identities \cup Tenants \cup {Absent}]
<1>1. c.ids[id] \in Records
  BY DEF ConfigType
<1>2. c.ids[id].tid \in Tenants
  BY <1>1 DEF Records
<1>3. QED
  BY <1>2 DEF OwnId

LEMMA ExtraType ==
  ASSUME NEW c \in ConfigType, NEW id \in Identities
  PROVE  c.ids[id].extra \in Claims
<1>1. c.ids[id] \in Records
  BY DEF ConfigType
<1>2. QED
  BY <1>1 DEF Records

LEMMA ThreadedType ==
  ASSUME NEW own \in [IdClaims -> Identities \cup Tenants \cup {Absent}],
         NEW other \in [IdClaims -> Identities \cup Tenants \cup {Absent}]
  PROVE  Threaded(own, other) \in [IdClaims -> Identities \cup Tenants \cup {Absent}]
  BY DEF Threaded

LEMMA OwnClaimsType ==
  ASSUME NEW c \in ConfigType, NEW id \in Identities, NEW exp \in Int
  PROVE  OwnClaims(c, id, exp) \in Claims
<1> DEFINE extra == c.ids[id].extra
           own   == Threaded(OwnId(c, id), extra.id)
<1>1. extra \in Claims
  BY ExtraType
<1>2. own \in [IdClaims -> Identities \cup Tenants \cup {Absent}]
  BY <1>1, OwnIdType, ThreadedType DEF Claims
<1>3. OwnClaims(c, id, exp) =
        [id |-> own, exp |-> IF extra.expKind # "absent" THEN extra.exp ELSE exp,
         expKind |-> IF extra.expKind # "absent" THEN extra.expKind ELSE "number"]
  BY DEF OwnClaims
<1> HIDE DEF extra, own
<1>4. QED
  BY <1>1, <1>2, <1>3 DEF Claims, ExpKinds

LEMMA OverriddenType ==
  ASSUME NEW c \in Claims, NEW set \in Overrides
  PROVE  Overridden(c, set) \in Claims
  BY DEF Overridden, Claims, Overrides, ExpKinds, Identities

LEMMA OmittedType ==
  ASSUME NEW c \in Claims, NEW names
  PROVE  Omitted(c, names) \in Claims
  BY DEF Omitted, Claims, ExpKinds

LEMMA EntryType ==
  ASSUME TypeOK, NEW n \in DOMAIN log
  PROVE  /\ n \in 1..Len(log)
         /\ log[n] \in Entries
         /\ log[n].claims \in Claims
<1>1. log \in Seq(Entries)
  BY DEF TypeOK
<1>2. n \in 1..Len(log) /\ log[n] \in Entries
  BY <1>1
<1>3. QED
  BY <1>2 DEF Entries

LEMMA BuiltType ==
  ASSUME TypeOK, NEW job \in JobType,
         Exchanging(job) => job.subject \in DOMAIN log
  PROVE  Built(job) \in Claims
<1> DEFINE own  == OwnClaims(config, job.id, now + job.ttl)
           base == IF Exchanging(job)
                     THEN [own EXCEPT !.id = Threaded(@, Subject(job).claims.id)]
                     ELSE own
<1>1. job.id \in Identities /\ job.ttl \in Int /\ job.set \in Overrides
  BY DEF JobType
<1>2. now + job.ttl \in Int
  BY <1>1 DEF TypeOK
<1>3. own \in Claims
  BY <1>1, <1>2, OwnClaimsType DEF TypeOK
<1>4. Exchanging(job) =>
        Subject(job).claims.id \in [IdClaims -> Identities \cup Tenants \cup {Absent}]
  BY EntryType DEF Subject, Claims
<1> HIDE DEF own
<1>5. Exchanging(job) =>
        Threaded(own.id, Subject(job).claims.id)
          \in [IdClaims -> Identities \cup Tenants \cup {Absent}]
  BY <1>3, <1>4, ThreadedType DEF Claims
<1>6. base \in Claims
  BY <1>3, <1>5 DEF Claims
<1> HIDE DEF base
<1>7. Overridden(base, job.set) \in Claims
  BY <1>1, <1>6, OverriddenType
<1>8. QED
  BY <1>6, <1>7, OmittedType DEF Built, base, own

\* Where an exp that is no number comes from.
LEMMA BuiltExp ==
  ASSUME NEW job \in JobType
  PROVE  /\ Built(job).expKind = "absent" => "exp" \in job.omit
         /\ Built(job).expKind = "numeral" => config.ids[job.id].extra.expKind = "numeral"
<1> DEFINE own  == OwnClaims(config, job.id, now + job.ttl)
           base == IF Exchanging(job)
                     THEN [own EXCEPT !.id = Threaded(@, Subject(job).claims.id)]
                     ELSE own
<1>1. /\ own.expKind # "absent"
      /\ own.expKind = "numeral" => config.ids[job.id].extra.expKind = "numeral"
  BY DEF OwnClaims
<1>2. base.expKind = own.expKind
  BY DEF OwnClaims
<1>3. Overridden(base, job.set).expKind \in {"text", base.expKind}
  BY DEF Overridden, OwnClaims
<1>4. Built(job).expKind # "absent" \/ "exp" \in job.omit
  BY <1>1, <1>2, <1>3 DEF Built, Omitted, Overridden, OwnClaims
<1>5. Built(job).expKind \in {"text", "absent", base.expKind}
  BY <1>3 DEF Built, Omitted, Overridden, OwnClaims
<1>6. QED
  BY <1>1, <1>2, <1>4, <1>5

LEMMA SignedClaimsType ==
  ASSUME TypeOK, NEW job \in JobType,
         Exchanging(job) => job.subject \in DOMAIN log
  PROVE  SignedClaims(job) \in Claims /\ SignedClaims(job).id = Built(job).id
<1>1. Built(job) \in Claims
  BY BuiltType
<1>2. now + fault.skew \in Int
  BY DEF TypeOK, FaultValues, FaultType, NoFault
<1>3. QED
  BY <1>1, <1>2 DEF SignedClaims, Claims, ExpKinds

LEMMA SlotForType ==
  ASSUME TypeOK, NEW job \in JobType
  PROVE  SlotFor(job) \in TokenSlots
  BY DEF SlotFor, TokenSlots, SigningSlots, AltSlot, SigningSlot

LEMMA SigForFacts ==
  ASSUME TypeOK, StoreInv, NEW slot \in TokenSlots
  PROVE  /\ SigFor(slot) \in [kid : Kids, mat : Nat]
         /\ SigFor(slot).mat <= minted
         /\ slot = "none" <=> SigFor(slot).mat = 0
         /\ slot # "none" => slot \in Slots /\ SigFor(slot).mat = store.keys[slot].mat
<1>1. /\ store \in Stores
      /\ minted \in Nat
      /\ Issuer \in Names
  BY IssuanceAssumption, NamesAssumption DEF TypeOK
<1>2. CASE slot = "none"
  BY <1>1, <1>2 DEF SigFor, Unsigned, Kids, Kid, Tags
<1>3. CASE slot # "none"
  <2>1. slot \in Slots
    BY <1>3 DEF TokenSlots, SigningSlots, Slots
  <2>2. store.keys[slot] \in Keys /\ store.keys[slot].mat \in 1..minted
    BY <1>1, <2>1 DEF Stores, StoreInv
  <2>3. QED
    BY <1>1, <1>3, <2>1, <2>2 DEF SigFor, SignedBy, Keys
<1>4. QED
  BY <1>2, <1>3

-----------------------------------------------------------------------------
(***************************************************************************)
(* A request that is not refused.                                          *)
(***************************************************************************)
LEMMA NotRefused ==
  ASSUME TypeOK, NEW q, q.job \in JobType, q.job.subject <= Len(log), Refusal(q) = 0
  PROVE  /\ q.job.grant = "password" <=> q.job.id \in Users
         /\ Exchanging(q.job) =>
              /\ q.job.subject \in DOMAIN log
              /\ Verifies(Subject(q.job).sig, JwksKeys(store))
              /\ Subject(q.job).claims.expKind = "number"
              /\ Subject(q.job).claims.exp >= now
<1>1. q.job.grant = "password" <=> q.job.id \in Users
  BY DEF Refusal, Authenticated
<1>2. ASSUME Exchanging(q.job)
      PROVE  /\ q.job.subject \in DOMAIN log
             /\ Verifies(Subject(q.job).sig, JwksKeys(store))
             /\ Subject(q.job).claims.expKind = "number"
             /\ Subject(q.job).claims.exp >= now
  <2>1. SubjectStatus(q.job) = 0
    BY <1>2 DEF Refusal
  <2>2. /\ q.job.subject # 0
        /\ Verifies(Subject(q.job).sig, JwksKeys(store))
        /\ Subject(q.job).claims.expKind \notin {"text", "numeral", "absent"}
        /\ ~(Subject(q.job).claims.exp < now)
    BY <2>1 DEF SubjectStatus
  <2>3. q.job.subject \in DOMAIN log
    <3>1. q.job.subject \in Nat /\ Len(log) \in Nat /\ DOMAIN log = 1..Len(log)
      BY DEF JobType, TypeOK
    <3>2. QED
      BY <2>2, <3>1
  <2>4. Subject(q.job).claims \in Claims
    BY <2>3, EntryType DEF Subject
  <2>5. now \in Int
    BY DEF TypeOK
  <2>6. QED
    BY <2>2, <2>3, <2>4, <2>5 DEF Claims, ExpKinds
<1>3. QED
  BY <1>1, <1>2

LEMMA NewEntryFacts ==
  ASSUME TypeOK, StoreInv, NEW q, q.job \in JobType, q.job.subject <= Len(log),
         Refusal(q) = 0
  PROVE  Entry(q) \in Entries /\ EntryInv(Entry(q))
<1> DEFINE job == q.job
<1>1. Exchanging(job) => job.subject \in DOMAIN log
  BY NotRefused
<1>2. Built(job) \in Claims /\ SignedClaims(job) \in Claims
  BY <1>1, BuiltType, SignedClaimsType
<1>3. SlotFor(job) \in TokenSlots
  BY SlotForType
<1>4. SigFor(SlotFor(job)) \in [kid : Kids, mat : Nat]
  BY <1>3, SigForFacts
<1>5. store.seq \in Nat /\ epoch \in Nat /\ now \in Nat
  BY DEF TypeOK, Stores
<1>6. /\ job.route \in {"token"} \cup BadRoutes
      /\ job.id \in Identities
      /\ job.subject \in Nat
      /\ job.set \in Overrides
      /\ job.omit \in SUBSET (IdClaims \cup {"exp"})
      /\ config.ids[job.id].extra \in Claims
  BY ExtraType DEF JobType, TypeOK
<1>7. "nothing" \in Overrides
  BY DEF Overrides
<1>8. AudienceAllowed([config EXCEPT !.issuerMode = "strict"], "strict", job.id, job.aud)
        \in BOOLEAN
  BY DEF AudienceAllowed
<1>9. Entry(q) \in Entries
  BY <1>2, <1>3, <1>4, <1>5, <1>6, <1>7, <1>8 DEF Entry, Entries
<1>10. EntryInv(Entry(q))
  <2>1. /\ Entry(q).slot = SlotFor(job)
        /\ Entry(q).sig = SigFor(SlotFor(job))
        /\ Entry(q).epoch = epoch
        /\ Entry(q).gen = store.seq
        /\ Entry(q).event = Built(job)
        /\ Entry(q).omit = job.omit
        /\ Entry(q).extra = config.ids[job.id].extra
    BY DEF Entry
  <2>2. \A s \in Slots : SigFor(SlotFor(job)).mat = store.keys[s].mat => SlotFor(job) = s
    <3>1. \A s \in Slots : store.keys[s].mat # 0
      BY DEF StoreInv
    <3>2. QED
      BY <1>3, <3>1, SigForFacts DEF StoreInv
  <2>3. /\ Entry(q).event.expKind = "absent" => "exp" \in Entry(q).omit
        /\ Entry(q).event.expKind = "numeral" => Entry(q).extra.expKind = "numeral"
    BY <2>1, BuiltExp
  <2>4. QED
    BY <1>3, <2>1, <2>2, <2>3, SigForFacts DEF EntryInv
<1>11. QED
  BY <1>9, <1>10

(***************************************************************************)
(* What verifies now was signed by this process with a signing key it has. *)
(***************************************************************************)
LEMMA VerifiedFacts ==
  ASSUME TypeOK, StoreInv, NEW e \in Entries, EntryInv(e), Verifies(e.sig, JwksKeys(store))
  PROVE  /\ e.slot \in SigningSlots
         /\ e.epoch = epoch
         /\ e.slot = "signing" => e.gen = store.seq
<1>1. PICK s \in Published : e.sig.mat = store.keys[s].mat
  BY VerifiesWithPublished, IssuanceAssumption DEF StoreInv, TypeOK
<1>2. s \in Slots
  BY DEF Published, Slots
<1>3. e.slot = s /\ e.epoch = epoch /\ (s = "signing" => e.gen = store.seq)
  BY <1>1, <1>2 DEF EntryInv
<1>4. e.slot \in TokenSlots
  BY DEF Entries
<1>5. QED
  BY <1>3, <1>4 DEF Published, TokenSlots, SigningSlots

(***************************************************************************)
(* Where the user's name in a token comes from.                            *)
(***************************************************************************)
LEMMA BuiltSubject ==
  ASSUME TypeOK, NEW q, q.job \in JobType, q.job.subject <= Len(log), Refusal(q) = 0,
         NEW u \in Users, Built(q.job).id["sub"] = u
  PROVE  \/ Exchanging(q.job) /\ Subject(q.job).claims.id["sub"] = u
         \/ /\ ~Exchanging(q.job)
            /\ q.job.id = u \/ (config.ids[q.job.id].overrides /\ q.job.set = u)
         \/ config.ids[q.job.id].extra.id["sub"] = u
<1> DEFINE job  == q.job
           extra == config.ids[job.id].extra
           own  == OwnClaims(config, job.id, now + job.ttl)
           base == IF Exchanging(job)
                     THEN [own EXCEPT !.id = Threaded(@, Subject(job).claims.id)]
                     ELSE own
           forge == job.grant = "client_credentials" /\ config.ids[job.id].overrides
<1>1. u # Absent /\ "sub" \in IdClaims
  BY IdentitiesAssumption DEF Identities, IdClaims
<1>2. own.id["sub"] = job.id \/ own.id["sub"] = extra.id["sub"]
  BY <1>1 DEF OwnClaims, OwnId, Threaded
<1>20. base.id = IF Exchanging(job) THEN Threaded(own.id, Subject(job).claims.id) ELSE own.id
  BY DEF OwnClaims
<1> HIDE DEF own
<1>3. CASE base.id["sub"] = u
  <2>1. CASE Exchanging(job)
    <3>1. job.id # u
      BY <2>1, NotRefused DEF Exchanging, Exchanges
    <3>2. Threaded(own.id, Subject(job).claims.id)["sub"] = u
      BY <1>3, <1>20, <2>1
    <3>3. QED
      BY <1>1, <1>2, <2>1, <3>1, <3>2 DEF Threaded
  <2>2. CASE ~Exchanging(job)
    BY <1>2, <1>3, <1>20, <2>2
  <2>3. QED
    BY <2>1, <2>2
<1>4. CASE base.id["sub"] # u
  <2>1. job.route = "token"
    BY <1>4 DEF Built, own
  <2>2. Omitted(IF forge THEN Overridden(base, job.set) ELSE base, job.omit).id["sub"] = u
    BY <2>1 DEF Built, own
  <2> HIDE DEF base, forge
  <2>3. (IF forge THEN Overridden(base, job.set) ELSE base).id["sub"] = u
    BY <1>1, <2>2 DEF Omitted
  <2>4. forge /\ Overridden(base, job.set).id["sub"] = u
    BY <1>4, <2>3
  <2>5. job.set = u
    BY <1>1, <1>4, <2>4 DEF Overridden
  <2>6. ~Exchanging(job) /\ config.ids[job.id].overrides
    BY <2>4 DEF forge, Exchanging, Exchanges
  <2>7. QED
    BY <2>5, <2>6
<1>5. QED
  BY <1>3, <1>4

-----------------------------------------------------------------------------
\* A request that has not begun.
LEMMA IdleType == Idle \in RequestType /\ Idle.phase = "idle" /\ Idle.tok = 0
  BY DEF Idle, RequestType, Phases, ModeValues, Modes, Statuses

(***************************************************************************)
(* The inductive invariant.                                                *)
(***************************************************************************)
LEMMA InitIInv == Init => IInv
<1> SUFFICES ASSUME Init PROVE IInv
  OBVIOUS
<1>0. store = NewStore(Issuer, 0) /\ Issuer \in Issuers /\ 0 \in Nat
  BY IssuanceAssumption DEF Init
<1>1. /\ store \in Stores
      /\ store.seq = 1
      /\ \A s \in Slots : /\ store.keys[s].kid = KidOf(Issuer, s, 1)
                          /\ store.keys[s].mat \in 1..SlotsPerStore
      /\ \A s, q \in Slots : store.keys[s].mat = store.keys[q].mat => s = q
  <2>1. \A n \in (0 + 1)..(0 + SlotsPerStore) : n \in 1..SlotsPerStore
    BY DEF SlotsPerStore
  <2>2. QED
    BY <1>0, <2>1, NewStoreFacts
<1>2. config \in ConfigType /\ fault \in FaultValues /\ {minted, epoch, now} \subseteq Nat
  BY IssuanceAssumption DEF Init, SlotsPerStore, FaultValues
<1>4. reqs \in [Requests -> RequestType]
  BY IdleType DEF Init
<1>5. log = <<>> /\ log \in Seq(Entries) /\ DOMAIN log = {} /\ rows = {}
  BY DEF Init
<1>6. TypeOK
  BY <1>1, <1>2, <1>4, <1>5 DEF TypeOK
<1>7. StoreInv
  BY <1>1 DEF StoreInv, Init
<1>8. \A r \in Requests : RequestInv(reqs[r]) /\ TokenInv(reqs[r])
  BY DEF Init, Idle, RequestInv, TokenInv
<1>9. NoLaundering /\ SubjectsAreEarned
  BY <1>5 DEF NoLaundering, SubjectsAreEarned
<1>10. QED
  BY <1>5, <1>6, <1>7, <1>8, <1>9 DEF IInv

\* The two properties speak of the log alone.
LEMMA SameLog ==
  ASSUME IInv, log' = log
  PROVE  NoLaundering' /\ SubjectsAreEarned'
<1>1. NoLaundering'
  BY DEF IInv, NoLaundering
<1>2. SubjectsAreEarned'
  <2>1. \A m, u : Vouches(m, u) <=> Vouches(m, u)'
    BY DEF Vouches
  <2>2. QED
    BY <2>1 DEF IInv, SubjectsAreEarned
<1>3. QED
  BY <1>1, <1>2

(***************************************************************************)
(* Steps of a request that issue no token.                                 *)
(***************************************************************************)
LEMMA RequestStep ==
  ASSUME IInv, UNCHANGED <<World, log>>, NEW r \in Requests, NEW q \in RequestType,
         reqs' = [reqs EXCEPT ![r] = q], RequestInv(q), TokenInv(q),
         rows' \subseteq Announcements
  PROVE  IInv'
<1>1. TypeOK'
  BY DEF IInv, TypeOK, World
<1>2. StoreInv' /\ (\A n \in DOMAIN log : EntryInv(log[n]))'
  BY DEF IInv, StoreInv, EntryInv, World
<1>3. (\A s \in Requests : RequestInv(reqs[s]) /\ TokenInv(reqs[s]))'
  <2>1. reqs \in [Requests -> RequestType]
    BY DEF IInv, TypeOK
  <2>2. QED
    BY <2>1 DEF IInv, RequestInv, TokenInv
<1>4. QED
  BY <1>1, <1>2, <1>3, SameLog DEF IInv

\* What the invariant says about one request and the token it announces.
LEMMA RequestFacts ==
  ASSUME IInv, NEW r \in Requests
  PROVE  /\ reqs[r] \in RequestType
         /\ RequestInv(reqs[r])
         /\ reqs[r].phase \in {"webhooks", "audit", "respond"} =>
              /\ reqs[r].tok \in DOMAIN log
              /\ log[reqs[r].tok].event \in Claims
<1>1. reqs[r] \in RequestType /\ log \in Seq(Entries)
  BY DEF IInv, TypeOK
<1>2. reqs[r].phase \in {"webhooks", "audit", "respond"} => reqs[r].tok \in DOMAIN log
  BY <1>1 DEF IInv, TokenInv
<1>3. QED
  BY <1>1, <1>2, EntryType DEF IInv, Entries

LEMMA OverType ==
  ASSUME NEW i \in RequestType, NEW p \in Phases, NEW t \in Nat,
         NEW n \in Statuses
  PROVE  /\ [i EXCEPT !.phase = p, !.status = n, !.tok = t] \in RequestType
         /\ [i EXCEPT !.phase = p, !.status = n] \in RequestType
         /\ [i EXCEPT !.phase = p, !.tok = t] \in RequestType
<1>1. [i EXCEPT !.phase = p, !.status = n, !.tok = t] \in RequestType
  BY DEF RequestType
<1>2. [i EXCEPT !.phase = p, !.status = n] \in RequestType
  BY DEF RequestType
<1>3. [i EXCEPT !.phase = p, !.tok = t] \in RequestType
  BY DEF RequestType
<1>4. QED
  BY <1>1, <1>2, <1>3

LEMMA ReplyIInv ==
  ASSUME IInv, NEW r \in Requests, NEW n \in Statuses, Reply(r, n),
         UNCHANGED <<World, log, rows>>
  PROVE  IInv'
<1> DEFINE q == [Idle EXCEPT !.phase = "done", !.status = n]
<1>1. q \in RequestType /\ q.phase = "done"
  <2>1. "done" \in Phases
    BY DEF Phases
  <2>2. q \in RequestType
    BY <2>1, OverType, IdleType
  <2>3. q.phase = "done"
    BY DEF Idle
  <2>4. QED
    BY <2>2, <2>3
<1>2. RequestInv(q) /\ TokenInv(q)
  BY <1>1 DEF RequestInv, TokenInv
<1>3. reqs' = [reqs EXCEPT ![r] = q]
  BY DEF Reply
<1> HIDE DEF q
<1>4. QED
  BY <1>1, <1>2, <1>3, RequestStep DEF IInv, TypeOK

LEMMA RefuseIInv == ASSUME IInv, NEW r \in Requests, Refuse(r) PROVE IInv'
<1>1. SubjectStatus(reqs[r].job) \in Statuses
  BY DEF SubjectStatus, Statuses
<1>2. Refusal(reqs[r]) \in Statuses
  BY <1>1 DEF Refusal, Statuses
<1>3. QED
  BY <1>2, ReplyIInv DEF Refuse

LEMMA FailBeforeDecidingIInv ==
  ASSUME IInv, NEW r \in Requests, FailBeforeDeciding(r) PROVE IInv'
  BY ReplyIInv DEF FailBeforeDeciding, Statuses

LEMMA SubmitIInv ==
  ASSUME IInv, NEW r \in Requests, NEW job \in Jobs, Submit(r, job) PROVE IInv'
<1> DEFINE q == [Idle EXCEPT !.phase = "body", !.job = job, !.mode = config.mode,
                             !.modesSeen = {ModesOf(config)},
                             !.faultsSeen = {fault}]
<1>1. /\ job \in JobType
      /\ job.subject <= Len(log)
      /\ config \in ConfigType
      /\ fault \in FaultValues
  BY IssuanceAssumption DEF Submit, IInv, TypeOK
<1>2. config.mode \in ModeValues /\ ModesOf(config) \in ModePairs
  BY <1>1 DEF ConfigType, ModesOf, ModePairs
<1>3. /\ {ModesOf(config)} \in SUBSET ModePairs
      /\ {fault} \in SUBSET FaultValues
      /\ "body" \in Phases
      /\ job \in JobType \cup {NoJob}
  BY <1>1, <1>2 DEF Phases
<1>4. q \in RequestType
  BY <1>2, <1>3, IdleType DEF RequestType
<1>5. q.phase = "body" /\ q.job = job
  BY DEF Idle
<1>6. RequestInv(q) /\ TokenInv(q)
  BY <1>1, <1>5 DEF RequestInv, TokenInv
<1>7. reqs' = [reqs EXCEPT ![r] = q] /\ UNCHANGED <<World, log, rows>>
  BY DEF Submit
<1> HIDE DEF q
<1>8. QED
  BY <1>4, <1>6, <1>7, RequestStep DEF IInv, TypeOK

LEMMA SleepIInv == ASSUME IInv, NEW r \in Requests, Sleep(r) PROVE IInv'
<1> DEFINE q == [reqs[r] EXCEPT !.phase = "delayed"]
<1>1. reqs[r].phase = "body" /\ reqs[r] \in RequestType /\ RequestInv(reqs[r])
  BY RequestFacts DEF Sleep, ReadyAt
<1>2. q \in RequestType /\ q.phase = "delayed" /\ q.job = reqs[r].job
  BY <1>1 DEF RequestType, Phases
<1>3. RequestInv(q) /\ TokenInv(q)
  BY <1>1, <1>2 DEF RequestInv, TokenInv
<1>4. reqs' = [reqs EXCEPT ![r] = q] /\ UNCHANGED <<World, log, rows>>
  BY DEF Sleep
<1> HIDE DEF q
<1>5. QED
  BY <1>2, <1>3, <1>4, RequestStep DEF IInv, TypeOK

LEMMA HookEndsIInv ==
  ASSUME IInv, NEW r \in Requests, NEW h \in Hooks, HookEnds(r, h) PROVE IInv'
<1> DEFINE next == IF reqs[r].waiting = {h} THEN "audit" ELSE reqs[r].phase
           q    == [reqs[r] EXCEPT !.waiting = @ \ {h}, !.phase = next]
<1>1. /\ reqs[r].phase = "webhooks"
      /\ reqs[r] \in RequestType
      /\ reqs[r].tok \in DOMAIN log
      /\ log[reqs[r].tok].event \in Claims
  BY RequestFacts DEF HookEnds
<1>2. next \in Phases /\ next \in {"webhooks", "audit"}
  BY <1>1 DEF Phases
<1> HIDE DEF next
<1>3. q \in RequestType /\ q.phase = next /\ q.tok = reqs[r].tok
  BY <1>1, <1>2 DEF RequestType
<1>4. reqs[r].tok \in 1..Len(log) /\ reqs[r].tok \in Nat
  BY <1>1, EntryType DEF IInv
<1>5. RequestInv(q) /\ TokenInv(q)
  BY <1>2, <1>3, <1>4 DEF RequestInv, TokenInv
<1>6. reqs' = [reqs EXCEPT ![r] = q] /\ UNCHANGED <<World, log, rows>>
  BY <1>1 DEF HookEnds, IInv, TypeOK, RequestType, next
<1> HIDE DEF q
<1>7. QED
  BY <1>3, <1>5, <1>6, RequestStep DEF IInv, TypeOK

LEMMA InsertRowIInv == ASSUME IInv, NEW r \in Requests, InsertRow(r) PROVE IInv'
<1> DEFINE q == [reqs[r] EXCEPT !.phase = "respond"]
<1>1. /\ reqs[r].phase = "audit"
      /\ reqs[r] \in RequestType
      /\ reqs[r].tok \in DOMAIN log
      /\ log[reqs[r].tok].event \in Claims
  BY RequestFacts DEF InsertRow
<1>2. q \in RequestType /\ q.phase = "respond" /\ q.tok = reqs[r].tok
  BY <1>1 DEF RequestType, Phases
<1>3. reqs[r].tok \in 1..Len(log) /\ reqs[r].tok \in Nat
  BY <1>1, EntryType DEF IInv
<1>4. RequestInv(q) /\ TokenInv(q)
  BY <1>2, <1>3 DEF RequestInv, TokenInv
<1>5. reqs' = [reqs EXCEPT ![r] = q] /\ UNCHANGED <<World, log>>
  BY DEF InsertRow
<1>6. rows' \subseteq Announcements
  BY <1>1, <1>3 DEF InsertRow, IInv, TypeOK, Announcements
<1> HIDE DEF q
<1>7. QED
  BY <1>2, <1>4, <1>5, <1>6, RequestStep DEF IInv, TypeOK

LEMMA RespondIInv == ASSUME IInv, NEW r \in Requests, Respond(r) PROVE IInv'
<1> DEFINE status == IF log[reqs[r].tok].event.expKind = "number" THEN 200 ELSE 500
           q == [Idle EXCEPT !.phase = "done", !.tok = reqs[r].tok, !.status = status]
<1>1. reqs[r].tok \in Nat /\ status \in Statuses /\ "done" \in Phases
  BY RequestFacts DEF RequestType, Statuses, Phases
<1>2. reqs' = [reqs EXCEPT ![r] = q] /\ UNCHANGED <<World, log, rows>>
  BY DEF Respond
<1>3. q.phase = "done"
  BY DEF Idle
<1> HIDE DEF status
<1>4. q \in RequestType
  BY <1>1, IdleType DEF RequestType
<1>5. RequestInv(q) /\ TokenInv(q)
  BY <1>3 DEF RequestInv, TokenInv
<1> HIDE DEF q
<1>6. QED
  BY <1>2, <1>4, <1>5, RequestStep DEF IInv, TypeOK

LEMMA AppendFacts ==
  ASSUME NEW S, NEW s \in Seq(S), NEW e \in S
  PROVE  /\ Append(s, e) \in Seq(S)
         /\ Len(Append(s, e)) = Len(s) + 1
         /\ DOMAIN Append(s, e) = 1..(Len(s) + 1)
         /\ Append(s, e)[Len(s) + 1] = e
         /\ \A m \in 1..Len(s) : Append(s, e)[m] = s[m]
  OBVIOUS

(***************************************************************************)
(* The step that issues a token: the new entry is the only one whose       *)
(* parent and subject are in question.                                     *)
(***************************************************************************)
LEMMA IssueNoLaundering ==
  ASSUME IInv, NEW q, q.job \in JobType, q.job.subject <= Len(log), Refusal(q) = 0,
         log' = Append(log, Entry(q))
  PROVE  NoLaundering'
<1> DEFINE e == Entry(q)
<1>0. PICK n \in Nat : n = Len(log) + 1
  BY DEF IInv, TypeOK
<1>1. log \in Seq(Entries) /\ Len(log) \in Nat /\ e \in Entries
  BY NewEntryFacts DEF IInv, TypeOK
<1>2. /\ DOMAIN log' = 1..n
      /\ log'[n] = e
      /\ \A m \in 1..Len(log) : log'[m] = log[m]
  BY <1>0, <1>1, AppendFacts
<1>3. \A m \in 1..Len(log) : log[m].parent \in Nat
  <2>1. \A x \in Entries : x.parent \in Nat
    BY DEF Entries
  <2>2. QED
    BY <1>1, <2>1
<1>4. e.epoch = epoch /\ e.gen = store.seq /\ e.at = now
  BY DEF Entry
<1>5. ASSUME e.parent # 0
      PROVE  /\ e.parent \in 1..Len(log)
             /\ log[e.parent].slot \in SigningSlots
             /\ log[e.parent].epoch = epoch
             /\ log[e.parent].slot = "signing" => log[e.parent].gen = store.seq
             /\ log[e.parent].claims.expKind = "number"
             /\ log[e.parent].claims.exp >= now
  <2>1. Exchanging(q.job) /\ e.parent = q.job.subject
    BY <1>5 DEF Entry
  <2>2. /\ e.parent \in DOMAIN log
        /\ Verifies(log[e.parent].sig, JwksKeys(store))
        /\ log[e.parent].claims.expKind = "number"
        /\ log[e.parent].claims.exp >= now
    BY <2>1, NotRefused DEF IInv, Subject
  <2>3. log[e.parent] \in Entries /\ EntryInv(log[e.parent])
    BY <2>2, EntryType DEF IInv
  <2>4. QED
    BY <1>1, <2>2, <2>3, VerifiedFacts DEF IInv
<1> HIDE DEF e
<1>6. ASSUME NEW m \in 1..n, log'[m].parent # 0
      PROVE  /\ log'[m].parent < m
             /\ log'[log'[m].parent].slot \in SigningSlots
             /\ log'[log'[m].parent].epoch = log'[m].epoch
             /\ log'[log'[m].parent].slot = "signing"
                  => log'[log'[m].parent].gen = log'[m].gen
             /\ log'[log'[m].parent].claims.expKind = "number"
             /\ log'[log'[m].parent].claims.exp >= log'[m].at
  <2>1. CASE m = n
    BY <1>0, <1>1, <1>2, <1>4, <1>5, <1>6, <2>1
  <2>2. CASE m # n
    <3>1. m \in 1..Len(log) /\ m \in DOMAIN log /\ log'[m] = log[m]
      BY <1>0, <1>1, <1>2, <2>2
    <3>2. log[m].parent < m /\ log[m].parent \in 1..Len(log)
      BY <1>3, <1>6, <3>1 DEF IInv, NoLaundering
    <3>3. QED
      BY <1>2, <1>6, <3>1, <3>2 DEF IInv, NoLaundering
  <2>3. QED
    BY <2>1, <2>2
<1>7. QED
  BY <1>2, <1>6 DEF NoLaundering

LEMMA IssueSubjectsAreEarned ==
  ASSUME IInv, NEW q, q.job \in JobType, q.job.subject <= Len(log), Refusal(q) = 0,
         log' = Append(log, Entry(q))
  PROVE  SubjectsAreEarned'
<1> DEFINE e == Entry(q)
<1>0. PICK n \in Nat : n = Len(log) + 1
  BY DEF IInv, TypeOK
<1>1. log \in Seq(Entries) /\ Len(log) \in Nat /\ e \in Entries
  BY NewEntryFacts DEF IInv, TypeOK
<1>2. /\ DOMAIN log' = 1..n
      /\ DOMAIN log = 1..Len(log)
      /\ log'[n] = e
      /\ \A m \in 1..Len(log) : log'[m] = log[m]
  BY <1>0, <1>1, AppendFacts
<1>3. \A m \in 1..Len(log), u \in Users : Vouches(m, u) => Vouches(m, u)'
  BY <1>2 DEF Vouches
<1>4. ASSUME NEW m \in 1..Len(log), NEW u \in Users, log[m].claims.id["sub"] = u
      PROVE  \E k \in 1..m : Vouches(k, u)' /\ (k = m \/ log'[k].slot \in SigningSlots)
  <2>1. PICK k \in 1..m : Vouches(k, u) /\ (k = m \/ log[k].slot \in SigningSlots)
    BY <1>2, <1>4 DEF IInv, SubjectsAreEarned
  <2>2. k \in 1..Len(log)
    BY <1>1
  <2>3. QED
    BY <1>2, <1>3, <2>1, <2>2
<1>5. ASSUME NEW u \in Users, e.claims.id["sub"] = u
      PROVE  \E k \in 1..n : Vouches(k, u)' /\ (k = n \/ log'[k].slot \in SigningSlots)
  <2>1. Exchanging(q.job) => q.job.subject \in DOMAIN log
    BY NotRefused DEF IInv
  <2>2. Built(q.job).id["sub"] = u
    BY <1>5, <2>1, SignedClaimsType DEF Entry, IInv
  <2>3. CASE Exchanging(q.job) /\ Subject(q.job).claims.id["sub"] = u
    <3> DEFINE p == q.job.subject
    <3>1. p \in 1..Len(log) /\ log[p].claims.id["sub"] = u
      BY <1>2, <2>1, <2>3 DEF Subject
    <3>2. log[p].slot \in SigningSlots
      BY <1>2, <2>3, <3>1, NotRefused, EntryType, VerifiedFacts DEF IInv, Subject
    <3> HIDE DEF p
    <3>3. PICK k \in 1..p : Vouches(k, u)' /\ (k = p \/ log'[k].slot \in SigningSlots)
      BY <1>4, <3>1
    <3>4. log'[k].slot \in SigningSlots
      BY <1>2, <3>1, <3>2, <3>3
    <3>5. k \in 1..n
      BY <1>0, <1>1, <3>1
    <3>6. QED
      BY <3>3, <3>4, <3>5
  <2>4. CASE ~Exchanging(q.job)
    <3>1. \/ q.job.id = u \/ (config.ids[q.job.id].overrides /\ q.job.set = u)
          \/ config.ids[q.job.id].extra.id["sub"] = u
      BY <2>2, <2>4, BuiltSubject DEF IInv
    <3>2. \/ e.parent = 0 /\ (e.by = u \/ e.forged = u)
          \/ e.extra.id["sub"] = u
      BY <2>4, <3>1 DEF Entry
    <3> HIDE DEF e
    <3>3. Vouches(n, u)'
      BY <1>2, <1>5, <3>2 DEF Vouches
    <3>4. n \in 1..n
      BY <1>0, <1>1
    <3>5. QED
      BY <3>3, <3>4
  <2>5. CASE config.ids[q.job.id].extra.id["sub"] = u
    <3>1. e.extra.id["sub"] = u
      BY <2>5 DEF Entry
    <3> HIDE DEF e
    <3>2. Vouches(n, u)'
      BY <1>2, <1>5, <3>1 DEF Vouches
    <3>3. n \in 1..n
      BY <1>0, <1>1
    <3>4. QED
      BY <3>2, <3>3
  <2>6. QED
    BY <2>2, <2>3, <2>4, <2>5, BuiltSubject DEF IInv
<1> HIDE DEF e
<1>6. ASSUME NEW m \in 1..n, NEW u \in Users, log'[m].claims.id["sub"] = u
      PROVE  \E k \in 1..m : Vouches(k, u)' /\ (k = m \/ log'[k].slot \in SigningSlots)
  <2>1. CASE m = n
    BY <1>2, <1>5, <1>6, <2>1
  <2>2. CASE m # n
    BY <1>0, <1>1, <1>2, <1>4, <1>6, <2>2
  <2>3. QED
    BY <2>1, <2>2
<1>7. QED
  BY <1>2, <1>6 DEF SubjectsAreEarned

LEMMA IssueIInv ==
  ASSUME IInv, NEW r \in Requests, Undecided(r), Issue(r) PROVE IInv'
<1> DEFINE q    == reqs[r]
           over == [Idle EXCEPT !.phase = "done", !.status = 200, !.tok = Len(log) + 1]
           on   == [q EXCEPT !.phase = AfterSigning, !.tok = Len(log) + 1,
                             !.waiting = config.hooks]
<1>1. /\ q \in RequestType
      /\ q.job \in JobType
      /\ q.job.subject <= Len(log)
      /\ Refusal(q) = 0
  BY RequestFacts DEF Undecided, RequestInv, Issue
<1>2. log' = Append(log, Entry(q)) /\ UNCHANGED <<World, rows>>
  BY DEF Issue
<1>3. /\ log \in Seq(Entries)
      /\ Len(log) \in Nat
      /\ Entry(q) \in Entries
      /\ EntryInv(Entry(q))
  BY <1>1, NewEntryFacts DEF IInv, TypeOK
<1>4. /\ log' \in Seq(Entries)
      /\ Len(log') = Len(log) + 1
      /\ \A n \in DOMAIN log' : log'[n] = Entry(q) \/ (n \in DOMAIN log /\ log'[n] = log[n])
  BY <1>2, <1>3
<1>5. NoLaundering' /\ SubjectsAreEarned'
  BY <1>1, <1>2, IssueNoLaundering, IssueSubjectsAreEarned
<1>6. StoreInv' /\ (\A n \in DOMAIN log : EntryInv(log[n]))'
  BY <1>2, <1>3, <1>4 DEF IInv, StoreInv, EntryInv, World
<1>7. /\ AfterSigning \in {"audit", "webhooks"}
      /\ AfterSigning \in Phases
      /\ config.hooks \in SUBSET Hooks
      /\ 200 \in Statuses /\ "done" \in Phases
      /\ Len(log) + 1 \in Nat
  BY <1>3 DEF AfterSigning, Phases, Statuses, IInv, TypeOK, ConfigType
<1>8. over \in RequestType /\ over.phase = "done"
  <2>1. over.phase = "done"
    BY DEF Idle
  <2>2. over \in RequestType
    <3>1. \A p \in Phases, m \in Statuses, t \in Nat :
            [Idle EXCEPT !.phase = p, !.status = m, !.tok = t] \in RequestType
      BY OverType, IdleType
    <3>2. QED
      BY <1>7, <3>1
  <2>3. QED
    BY <2>1, <2>2
<1>9. on \in RequestType /\ on.phase = AfterSigning /\ on.tok = Len(log) + 1
  BY <1>1, <1>7 DEF RequestType
<1>10. reqs' = [reqs EXCEPT ![r] = IF q.job.route = "token" THEN on ELSE over]
  BY DEF Issue
<1> HIDE DEF on, over
<1>11. reqs \in [Requests -> RequestType]
  BY DEF IInv, TypeOK
<1>12. reqs' \in [Requests -> RequestType]
  BY <1>8, <1>9, <1>10, <1>11
<1>13. TypeOK'
  BY <1>2, <1>4, <1>12 DEF IInv, TypeOK, World
<1>14. ASSUME NEW s \in Requests PROVE (RequestInv(reqs[s]) /\ TokenInv(reqs[s]))'
  <2>1. CASE s # r
    <3>1. reqs'[s] = reqs[s] /\ RequestInv(reqs[s]) /\ TokenInv(reqs[s])
      BY <1>10, <1>11, <2>1 DEF IInv
    <3>2. reqs[s].phase \in {"body", "delayed"} => reqs[s].job.subject \in Nat
      BY <3>1 DEF RequestInv, JobType
    <3>3. QED
      BY <1>3, <1>4, <3>1, <3>2 DEF RequestInv, TokenInv
  <2>2. CASE s = r
    BY <1>3, <1>4, <1>7, <1>8, <1>9, <1>10, <1>11, <2>2 DEF RequestInv, TokenInv
  <2>3. QED
    BY <2>1, <2>2
<1>15. QED
  BY <1>5, <1>6, <1>13, <1>14 DEF IInv

-----------------------------------------------------------------------------
(***************************************************************************)
(* Steps of the world: no token is issued, and no request moves on, though *)
(* a restart may end it.                                                   *)
(***************************************************************************)
LEMMA WorldStep ==
  ASSUME IInv, UNCHANGED <<log, rows>>,
         config' \in ConfigType, fault' \in FaultValues,
         store' \in Stores, {minted, epoch, now}' \subseteq Nat,
         StoreInv', \A n \in DOMAIN log : EntryInv(log[n])',
         reqs' \in [Requests -> RequestType],
         \A r \in Requests :
            \/ reqs'[r].phase = "lost"
            \/ /\ reqs'[r].phase = reqs[r].phase
               /\ reqs'[r].job = reqs[r].job
               /\ reqs'[r].tok = reqs[r].tok
  PROVE  IInv'
<1>1. TypeOK'
  BY DEF IInv, TypeOK
<1>2. (\A n \in DOMAIN log : EntryInv(log[n]))'
  BY DEF EntryInv
<1>3. (\A r \in Requests : RequestInv(reqs[r]) /\ TokenInv(reqs[r]))'
  BY DEF IInv, RequestInv, TokenInv
<1>4. QED
  BY <1>1, <1>2, <1>3, SameLog DEF IInv

LEMMA SeenFacts ==
  ASSUME TypeOK, NEW c \in ConfigType, NEW f \in FaultValues
  PROVE  /\ Seen(c, f) \in [Requests -> RequestType]
         /\ \A r \in Requests : /\ Seen(c, f)[r].phase = reqs[r].phase
                                /\ Seen(c, f)[r].job = reqs[r].job
                                /\ Seen(c, f)[r].tok = reqs[r].tok
<1>1. ModesOf(c) \in ModePairs
  BY DEF ConfigType, ModesOf, ModePairs
<1>2. ASSUME NEW r \in Requests
      PROVE  /\ Seen(c, f)[r] \in RequestType
             /\ Seen(c, f)[r].phase = reqs[r].phase
             /\ Seen(c, f)[r].job = reqs[r].job
             /\ Seen(c, f)[r].tok = reqs[r].tok
  <2> DEFINE modes  == reqs[r].modesSeen \cup {ModesOf(c)}
             faults == reqs[r].faultsSeen \cup {f}
  <2>1. reqs[r] \in RequestType
    BY DEF TypeOK
  <2>2. modes \in SUBSET ModePairs /\ faults \in SUBSET FaultValues
    BY <1>1, <2>1 DEF RequestType
  <2>3. \/ Seen(c, f)[r] = reqs[r]
        \/ Seen(c, f)[r] = [reqs[r] EXCEPT !.modesSeen = modes, !.faultsSeen = faults]
    BY <2>1 DEF Seen, RequestType
  <2> HIDE DEF modes, faults
  <2>4. QED
    BY <2>1, <2>2, <2>3 DEF RequestType
<1>3. QED
  BY <1>2 DEF Seen

LEMMA SameKeys ==
  ASSUME IInv, UNCHANGED <<store, minted, epoch, log>>
  PROVE  StoreInv' /\ \A n \in DOMAIN log : EntryInv(log[n])'
  BY DEF IInv, StoreInv, EntryInv

LEMMA ReloadIInv == ASSUME IInv, NEW c \in Configs, Reload(c) PROVE IInv'
<1>1. c \in ConfigType /\ fault \in FaultValues /\ TypeOK
  BY IssuanceAssumption DEF IInv, TypeOK
<1>2. QED
  BY <1>1, SeenFacts, SameKeys, WorldStep DEF Reload, IInv, TypeOK

LEMMA SetFaultIInv == ASSUME IInv, NEW f \in Faults, SetFault(f) PROVE IInv'
<1>1. config \in ConfigType /\ f \in FaultValues /\ TypeOK
  BY IssuanceAssumption DEF IInv, TypeOK, FaultValues
<1>2. QED
  BY <1>1, SeenFacts, SameKeys, WorldStep DEF SetFault, IInv, TypeOK

LEMMA ClearFaultIInv == ASSUME IInv, ClearFault PROVE IInv'
<1>1. config \in ConfigType /\ NoFault \in FaultValues /\ TypeOK
  BY DEF IInv, TypeOK, FaultValues
<1>2. QED
  BY <1>1, SeenFacts, SameKeys, WorldStep DEF ClearFault, IInv, TypeOK

LEMMA TickIInv == ASSUME IInv, Tick PROVE IInv'
  BY SameKeys, WorldStep DEF Tick, IInv, TypeOK

\* A token's key number is one of those in use.
LEMMA EntryMat ==
  ASSUME IInv, NEW n \in DOMAIN log
  PROVE  /\ EntryInv(log[n])
         /\ log[n].sig.mat \in Nat
         /\ log[n].sig.mat <= minted
<1>1. log[n] \in Entries /\ EntryInv(log[n])
  BY EntryType DEF IInv
<1>2. QED
  BY <1>1 DEF Entries, EntryInv

LEMMA RotateIInv == ASSUME IInv, Rotate PROVE IInv'
<1>1. store \in Stores /\ store.seq \in Nat /\ minted \in Nat /\ Issuer \in Issuers
  BY IssuanceAssumption DEF IInv, TypeOK, Stores
<1>2. /\ store' \in Stores
      /\ store'.seq = store.seq + 1
      /\ store'.keys["signing"].kid = KidOf(Issuer, "signing", store.seq + 1)
      /\ store'.keys["signing"].mat = minted + 1
      /\ \A s \in Slots \ {"signing"} : store'.keys[s] = store.keys[s]
      /\ minted' = minted + 1
      /\ UNCHANGED <<config, fault, epoch, now, reqs, log, rows>>
  BY <1>1, RotatedFacts DEF Rotate
<1>3. StoreInv'
  <2>1. ASSUME NEW s \in Slots
        PROVE  store'.keys[s].kid = KidOf(Issuer, s, store'.seq)
    BY <1>2, KidOfOtherSlots DEF IInv, StoreInv
  <2>2. ASSUME NEW s \in Slots
        PROVE  store'.keys[s].mat \in 1..minted'
    BY <1>1, <1>2 DEF IInv, StoreInv
  <2>3. ASSUME NEW s \in Slots, NEW q \in Slots, store'.keys[s].mat = store'.keys[q].mat
        PROVE  s = q
    BY <1>1, <1>2, <2>3 DEF IInv, StoreInv
  <2>4. QED
    BY <2>1, <2>2, <2>3 DEF StoreInv
<1>4. ASSUME NEW n \in DOMAIN log PROVE EntryInv(log[n])'
  BY <1>1, <1>2, EntryMat DEF EntryInv
<1>5. QED
  BY <1>1, <1>2, <1>3, <1>4, WorldStep DEF IInv, TypeOK

LEMMA RestartIInv == ASSUME IInv, Restart PROVE IInv'
<1>1. minted \in Nat /\ epoch \in Nat /\ Issuer \in Issuers
  BY IssuanceAssumption DEF IInv, TypeOK
<1>2. /\ store' \in Stores
      /\ store'.seq = 1
      /\ \A s \in Slots : /\ store'.keys[s].kid = KidOf(Issuer, s, 1)
                          /\ store'.keys[s].mat \in (minted + 1)..(minted + SlotsPerStore)
      /\ \A s, q \in Slots : store'.keys[s].mat = store'.keys[q].mat => s = q
      /\ minted' = minted + SlotsPerStore
      /\ epoch' = epoch + 1
      /\ config' \in Configs
      /\ fault' = NoFault
      /\ UNCHANGED <<now, log, rows>>
  BY <1>1, NewStoreFacts DEF Restart
<1>3. \A s \in Slots : store'.keys[s].mat \in Nat /\ store'.keys[s].mat > minted
  BY <1>1, <1>2 DEF SlotsPerStore
<1>4. StoreInv'
  BY <1>1, <1>2 DEF StoreInv, SlotsPerStore
<1>5. ASSUME NEW n \in DOMAIN log PROVE EntryInv(log[n])'
  BY <1>1, <1>2, <1>3, EntryMat DEF EntryInv, SlotsPerStore
<1>6. ASSUME NEW r \in Requests
      PROVE  /\ reqs'[r] \in RequestType
             /\ reqs'[r] = reqs[r] \/ reqs'[r].phase = "lost"
  <2>1. reqs[r] \in RequestType /\ reqs[r].tok \in Nat /\ "lost" \in Phases
    BY DEF IInv, TypeOK, RequestType, Phases
  <2>2. [Idle EXCEPT !.phase = "lost", !.tok = reqs[r].tok] \in RequestType
    BY <2>1, IdleType DEF RequestType
  <2>3. [Idle EXCEPT !.phase = "lost", !.tok = reqs[r].tok].phase = "lost"
    BY DEF Idle
  <2>4. QED
    BY <2>1, <2>2, <2>3 DEF Restart
<1>7. reqs' \in [Requests -> RequestType]
  BY <1>6 DEF Restart
<1>8. /\ config' \in ConfigType
      /\ fault' \in FaultValues
      /\ {minted, epoch, now}' \subseteq Nat
  BY <1>1, <1>2, IssuanceAssumption DEF IInv, TypeOK, SlotsPerStore, FaultValues
<1>9. QED
  BY <1>2, <1>4, <1>5, <1>6, <1>7, <1>8, WorldStep

-----------------------------------------------------------------------------
LEMMA NextIInv == IInv /\ [Next]_vars => IInv'
<1> SUFFICES ASSUME IInv, [Next]_vars PROVE IInv'
  OBVIOUS
<1>1. ASSUME NEW r \in Requests, Undecided(r), Decide(r) PROVE IInv'
  BY <1>1, RefuseIInv, IssueIInv DEF Decide
<1>2. ASSUME NEW r \in Requests, NEW job \in Jobs, Submit(r, job) PROVE IInv'
  BY <1>2, SubmitIInv
<1>3. ASSUME NEW r \in Requests, FailBeforeDeciding(r) PROVE IInv'
  BY <1>3, FailBeforeDecidingIInv
<1>4. ASSUME NEW r \in Requests, Sleep(r) PROVE IInv'
  BY <1>4, SleepIInv
<1>5. ASSUME NEW r \in Requests, Proceed(r) \/ ProceedBadRoute(r) \/ Wake(r) PROVE IInv'
  BY <1>1, <1>5 DEF Proceed, ProceedBadRoute, Wake, ReadyAt, Undecided
<1>6. ASSUME NEW r \in Requests, NEW h \in Hooks, HookEnds(r, h) PROVE IInv'
  BY <1>6, HookEndsIInv
<1>7. ASSUME NEW r \in Requests, InsertRow(r) PROVE IInv'
  BY <1>7, InsertRowIInv
<1>8. ASSUME NEW r \in Requests, Respond(r) PROVE IInv'
  BY <1>8, RespondIInv
<1>9. ASSUME NEW c \in Configs, Reload(c) PROVE IInv'
  BY <1>9, ReloadIInv
<1>10. ASSUME NEW f \in Faults, SetFault(f) PROVE IInv'
  BY <1>10, SetFaultIInv
<1>11. CASE ClearFault
  BY <1>11, ClearFaultIInv
<1>12. CASE Rotate
  BY <1>12, RotateIInv
<1>13. CASE Tick
  BY <1>13, TickIInv
<1>14. CASE Restart
  BY <1>14, RestartIInv
<1>15. CASE UNCHANGED vars
  <2>1. UNCHANGED <<config, fault, store, minted, epoch, now, reqs, log, rows>>
    BY <1>15 DEF vars
  <2>2. QED
    BY <2>1, SameKeys, WorldStep DEF IInv, TypeOK
<1>16. QED
  BY <1>2, <1>3, <1>4, <1>5, <1>6, <1>7, <1>8, <1>9, <1>10, <1>11, <1>12, <1>13,
     <1>14, <1>15 DEF Next

LEMMA IInvAlways == Spec => []IInv
<1>1. Init => IInv
  BY InitIInv
<1>2. IInv /\ [Next]_vars => IInv'
  BY NextIInv
<1>3. QED
  BY <1>1, <1>2, PTL DEF Spec

(***************************************************************************)
(* Every reachable state is well typed: requests carry what clients can    *)
(* ask, the log holds well-formed tokens, the audit rows and the webhook   *)
(* bodies are claims (token_handler.py, chaos.py, webhooks.py).            *)
(***************************************************************************)
THEOREM TypeCorrect == Spec => []TypeOK
<1>1. IInv => TypeOK
  BY DEF IInv
<1>2. QED
  BY <1>1, IInvAlways, PTL

(***************************************************************************)
(* No chain of exchanges, however long and however it interleaves with     *)
(* rotations, restarts, faults and reloads, launders a token: each link    *)
(* was signed by this process with a published signing key and unexpired   *)
(* when it was presented (token_handler.py handle_token, tokens.py         *)
(* verify_token).                                                          *)
(***************************************************************************)
THEOREM NoLaunderingAlways == Spec => []NoLaundering
<1>1. IInv => NoLaundering
  BY DEF IInv
<1>2. QED
  BY <1>1, IInvAlways, PTL

(***************************************************************************)
(* A user's name is in the sub claim of a token only if some token of its  *)
(* chain was made for that user's password or by a service principal with  *)
(* override_any_claim that asked for the name, at the head of the chain, or*)
(* for an identity with that name in its extra_claims (token_handler.py,   *)
(* the exchange grants; providers/entra_id.py).                            *)
(***************************************************************************)
THEOREM SubjectsAreEarnedAlways == Spec => []SubjectsAreEarned
<1>1. IInv => SubjectsAreEarned
  BY DEF IInv
<1>2. QED
  BY <1>1, IInvAlways, PTL

-----------------------------------------------------------------------------
(***************************************************************************)
(* What verifies after a step and was issued before it, verified before.   *)
(***************************************************************************)
LEMMA NextKeepsLog ==
  ASSUME IInv, [Next]_vars, NEW n \in DOMAIN log
  PROVE  log'[n] = log[n] /\ now' >= now
<1>1. log \in Seq(Entries) /\ now \in Nat /\ n \in 1..Len(log)
  BY EntryType DEF IInv, TypeOK
<1>2. ASSUME NEW r \in Requests, Undecided(r), Decide(r)
      PROVE  log'[n] = log[n] /\ now' = now
  <2>1. CASE Refuse(r)
    BY <2>1 DEF Refuse, World
  <2>2. CASE Issue(r)
    <3>1. Entry(reqs[r]) \in Entries
      BY <1>2, <2>2, RequestFacts, NewEntryFacts DEF Issue, IInv, Undecided, RequestInv
    <3>2. QED
      BY <1>1, <2>2, <3>1, AppendFacts DEF Issue, World
  <2>3. QED
    BY <1>2, <2>1, <2>2 DEF Decide
<1>3. ASSUME NEW r \in Requests, Proceed(r) \/ ProceedBadRoute(r) \/ Wake(r)
      PROVE  log'[n] = log[n] /\ now' = now
  BY <1>2, <1>3 DEF Proceed, ProceedBadRoute, Wake, ReadyAt, Undecided
<1>4. ASSUME NEW r \in Requests,
             \/ \E job \in Jobs : Submit(r, job)
             \/ FailBeforeDeciding(r) \/ Sleep(r)
             \/ \E h \in Hooks : HookEnds(r, h)
             \/ InsertRow(r) \/ Respond(r)
      PROVE  log'[n] = log[n] /\ now' = now
  BY <1>4 DEF Submit, FailBeforeDeciding, Sleep, HookEnds, InsertRow, Respond, World
<1>5. CASE \/ \E c \in Configs : Reload(c)
           \/ \E f \in Faults : SetFault(f)
           \/ ClearFault \/ Rotate \/ Restart \/ UNCHANGED vars
  <2>1. log' = log /\ now' = now
    BY <1>5 DEF Reload, SetFault, ClearFault, Rotate, Restart, vars
  <2>2. QED
    BY <1>1, <2>1
<1>6. CASE Tick
  BY <1>1, <1>6 DEF Tick
<1>7. QED
  BY <1>1, <1>3, <1>4, <1>5, <1>6 DEF Next

LEMMA NextStore ==
  ASSUME [Next]_vars
  PROVE  UNCHANGED store \/ Rotate \/ Restart
<1>1. ASSUME NEW r \in Requests, Decide(r) PROVE UNCHANGED store
  BY <1>1 DEF Decide, Refuse, Issue, World
<1>2. ASSUME NEW r \in Requests,
             \/ \E job \in Jobs : Submit(r, job)
             \/ FailBeforeDeciding(r) \/ Sleep(r) \/ Proceed(r) \/ ProceedBadRoute(r)
             \/ Wake(r)
             \/ \E h \in Hooks : HookEnds(r, h)
             \/ InsertRow(r) \/ Respond(r)
      PROVE  UNCHANGED store
  BY <1>1, <1>2 DEF Submit, FailBeforeDeciding, Sleep, Proceed, ProceedBadRoute, Wake,
                    HookEnds, InsertRow, Respond, World
<1>3. QED
  BY <1>2 DEF Next, Reload, SetFault, ClearFault, Tick, vars

LEMMA VerifiedBefore ==
  ASSUME IInv, IInv', [Next]_vars, NEW n \in DOMAIN log,
         Verifies(log[n].sig, JwksKeys(store'))
  PROVE  Verifies(log[n].sig, JwksKeys(store))
<1> DEFINE sig == log[n].sig
<1>1. /\ EntryInv(log[n])
      /\ sig \in [kid : Kids, mat : Nat]
      /\ sig.mat <= minted
      /\ log[n].slot \in TokenSlots
      /\ minted \in Nat
      /\ Issuer \in Issuers
      /\ store \in Stores
  BY EntryMat, EntryType, IssuanceAssumption DEF IInv, TypeOK, Entries
<1>2. PICK s \in Published : sig.kid = store'.keys[s].kid /\ sig.mat = store'.keys[s].mat
  <2>1. store' \in Stores /\ \A q \in Slots : store'.keys[q].kid = KidOf(Issuer, q, store'.seq)
    BY DEF IInv, TypeOK, StoreInv
  <2>2. QED
    BY <1>1, <2>1, VerifiesWithPublished
<1>3. s \in Slots
  BY DEF Published, Slots
<1>4. CASE UNCHANGED store
  BY <1>4
<1>5. CASE Rotate
  <2>1. /\ store'.keys["signing"].mat = minted + 1
        /\ \A q \in Slots \ {"signing"} : store'.keys[q] = store.keys[q]
    BY <1>1, <1>5, RotatedFacts DEF Rotate
  <2>2. s # "signing"
    BY <1>1, <1>2, <2>1
  <2>3. sig.kid = store.keys[s].kid /\ sig.mat = store.keys[s].mat
    BY <1>2, <1>3, <2>1, <2>2
  <2>4. s = "ecSigning"
    BY <1>1, <1>3, <2>2, <2>3 DEF EntryInv, Published, TokenSlots, SigningSlots
  <2>5. store.keys["ecSigning"] \in Keys
    BY <1>1 DEF Stores, Slots
  <2>6. sig = store.keys["ecSigning"]
    BY <1>1, <2>3, <2>4, <2>5 DEF Keys
  <2>7. QED
    BY <1>1, <2>6, VerifiesWithPublished DEF IInv, StoreInv
<1>6. CASE Restart
  <2>1. store'.keys[s].mat \in (minted + 1)..(minted + SlotsPerStore)
    BY <1>1, <1>3, <1>6, NewStoreFacts DEF Restart
  <2>2. QED
    BY <1>1, <1>2, <2>1 DEF SlotsPerStore
<1>7. QED
  BY <1>4, <1>5, <1>6, NextStore

(***************************************************************************)
(* A token once reported inactive is never reported active again           *)
(* (token_handler.py handle_introspect).                                   *)
(***************************************************************************)
THEOREM DeadStaysDeadAlways == Spec => DeadStaysDead
<1>1. IInv /\ IInv' /\ [Next]_vars
        => [\A n \in DOMAIN log :
              ~IntrospectsActive(log[n]) => ~IntrospectsActive(log[n])']_vars
  <2> SUFFICES ASSUME IInv, IInv', [Next]_vars, NEW n \in DOMAIN log,
                      IntrospectsActive(log[n])'
               PROVE  IntrospectsActive(log[n])
    OBVIOUS
  <2>1. log'[n] = log[n] /\ now' >= now
    BY NextKeepsLog
  <2>2. /\ Verifies(log[n].sig, JwksKeys(store'))
        /\ log[n].claims.expKind = "number"
        /\ log[n].claims.exp >= now'
    <3>1. (JwksKeys(store))' = JwksKeys(store')
      OBVIOUS
    <3>2. QED
      BY <2>1, <3>1 DEF IntrospectsActive
  <2>3. log[n].claims.exp >= now
    <3>1. log[n].claims.exp \in Int /\ now \in Int /\ now' \in Int
      BY EntryType DEF IInv, TypeOK, Claims
    <3>2. QED
      BY <2>1, <2>2, <3>1
  <2>4. QED
    BY <2>2, <2>3, VerifiedBefore DEF IntrospectsActive
<1>2. QED
  BY <1>1, IInvAlways, PTL DEF Spec, DeadStaysDead

-----------------------------------------------------------------------------
(***************************************************************************)
(* A second invariant, of what a request has seen.  Before it is decided,  *)
(* that includes the modes and the fault there are now, and the mode it has*)
(* captured; and from its decision on, what its token was made under.      *)
(***************************************************************************)
Decided(q) == q.phase \in {"webhooks", "audit", "respond"}

HistoryInv(q) ==
  /\ q.phase \in {"body", "delayed"} =>
       /\ q.tok = 0
       /\ fault \in q.faultsSeen
       /\ ModesOf(config) \in q.modesSeen
       /\ \E b \in q.modesSeen : b.mode = q.mode
  /\ Decided(q) =>
       /\ \E f \in q.faultsSeen : MadeUnder(f, log[q.tok])
       /\ \/ log[q.tok].listed
          \/ \E a, b \in q.modesSeen : EffectiveMode(a, b.mode) # "strict"
  /\ q.phase = "done" /\ q.status = 500 /\ q.tok # 0 =>
       q.tok \in DOMAIN log /\ log[q.tok].event.expKind # "number"

RowInv(row) ==
  /\ row.tok \in DOMAIN log
  /\ row.claims = log[row.tok].event
  /\ row.claims.expKind # "text"

HInv ==
  /\ \A r \in Requests : HistoryInv(reqs[r])
  /\ \A row \in rows : RowInv(row)

LEMMA InitHInv == Init => HInv
  BY DEF Init, Idle, HInv, HistoryInv, Decided

(***************************************************************************)
(* A step of request p: the others stay as they are, tokens stay too.      *)
(***************************************************************************)
LEMMA StepHInv ==
  ASSUME IInv, HInv, NEW p \in Requests, UNCHANGED <<config, fault>>,
         \A r \in Requests : r # p => reqs'[r] = reqs[r],
         \A n \in DOMAIN log : n \in DOMAIN log' /\ log'[n] = log[n],
         HistoryInv(reqs[p])',
         \A row \in rows' : row \in rows \/ RowInv(row)'
  PROVE  HInv'
<1>1. ASSUME NEW r \in Requests, r # p PROVE HistoryInv(reqs[r])'
  <2>1. reqs'[r] = reqs[r] /\ HistoryInv(reqs[r])
    BY <1>1 DEF HInv
  <2>2. Decided(reqs[r]) => log'[reqs[r].tok] = log[reqs[r].tok]
    BY RequestFacts DEF Decided
  <2>3. QED
    BY <2>1, <2>2 DEF HistoryInv, Decided
<1>2. ASSUME NEW row \in rows' PROVE RowInv(row)'
  BY <1>2 DEF HInv, RowInv
<1>3. QED
  BY <1>1, <1>2 DEF HInv

LEMMA ReplyHInv ==
  ASSUME IInv, HInv, NEW r \in Requests, NEW n, Reply(r, n), UNCHANGED <<World, log, rows>>
  PROVE  HInv'
<1> DEFINE q == [Idle EXCEPT !.phase = "done", !.status = n]
<1>1. q.phase = "done" /\ q.tok = 0
  BY DEF Idle
<1>2. reqs' = [reqs EXCEPT ![r] = q]
  BY DEF Reply
<1> HIDE DEF q
<1>3. reqs'[r] = q /\ \A s \in Requests : s # r => reqs'[s] = reqs[s]
  BY <1>2 DEF IInv, TypeOK
<1>4. HistoryInv(reqs[r])'
  BY <1>1, <1>3 DEF HistoryInv, Decided
<1>5. QED
  BY <1>3, <1>4, StepHInv DEF World

LEMMA SubmitHInv ==
  ASSUME IInv, HInv, NEW r \in Requests, NEW job \in Jobs, Submit(r, job)
  PROVE  HInv'
<1> DEFINE q == [Idle EXCEPT !.phase = "body", !.job = job, !.mode = config.mode,
                             !.modesSeen = {ModesOf(config)},
                             !.faultsSeen = {fault}]
<1>1. /\ q.phase = "body" /\ q.tok = 0 /\ q.mode = config.mode
      /\ q.modesSeen = {ModesOf(config)} /\ q.faultsSeen = {fault}
  BY DEF Idle
<1>2. reqs' = [reqs EXCEPT ![r] = q] /\ UNCHANGED <<World, log, rows>>
  BY DEF Submit
<1> HIDE DEF q
<1>3. reqs'[r] = q /\ \A s \in Requests : s # r => reqs'[s] = reqs[s]
  BY <1>2 DEF IInv, TypeOK
<1>4. ModesOf(config).mode = config.mode
  BY DEF ModesOf
<1>5. config' = config /\ fault' = fault
  BY <1>2 DEF World
<1>6. HistoryInv(reqs[r])'
  BY <1>1, <1>3, <1>4, <1>5 DEF HistoryInv, Decided, ModesOf
<1>7. QED
  BY <1>2, <1>3, <1>6, StepHInv DEF World

LEMMA SleepHInv ==
  ASSUME IInv, HInv, NEW r \in Requests, Sleep(r)
  PROVE  HInv'
<1> DEFINE q == [reqs[r] EXCEPT !.phase = "delayed"]
<1>1. reqs[r].phase = "body" /\ reqs[r] \in RequestType
  BY RequestFacts DEF Sleep, ReadyAt
<1>2. /\ q.phase = "delayed" /\ q.tok = reqs[r].tok /\ q.mode = reqs[r].mode
      /\ q.modesSeen = reqs[r].modesSeen /\ q.faultsSeen = reqs[r].faultsSeen
  BY <1>1 DEF RequestType
<1>3. reqs' = [reqs EXCEPT ![r] = q] /\ UNCHANGED <<World, log, rows>>
  BY DEF Sleep
<1> HIDE DEF q
<1>4. reqs'[r] = q /\ \A s \in Requests : s # r => reqs'[s] = reqs[s]
  BY <1>3 DEF IInv, TypeOK
<1>5. config' = config /\ fault' = fault
  BY <1>3 DEF World
<1>6. HistoryInv(reqs[r])'
  BY <1>1, <1>2, <1>4, <1>5 DEF HInv, HistoryInv, Decided, ModesOf
<1>7. QED
  BY <1>3, <1>4, <1>6, StepHInv DEF World

LEMMA HookEndsHInv ==
  ASSUME IInv, HInv, NEW r \in Requests, NEW h \in Hooks, HookEnds(r, h)
  PROVE  HInv'
<1> DEFINE next == IF reqs[r].waiting = {h} THEN "audit" ELSE reqs[r].phase
           q    == [reqs[r] EXCEPT !.waiting = @ \ {h}, !.phase = next]
<1>1. reqs[r].phase = "webhooks" /\ reqs[r] \in RequestType
  BY RequestFacts DEF HookEnds
<1>2. next \in {"webhooks", "audit"}
  BY <1>1
<1>3. reqs' = [reqs EXCEPT ![r] = q] /\ UNCHANGED <<World, log, rows>>
  BY <1>1 DEF HookEnds, IInv, TypeOK, RequestType
<1> HIDE DEF next
<1>4. /\ q.phase = next /\ q.tok = reqs[r].tok
      /\ q.modesSeen = reqs[r].modesSeen /\ q.faultsSeen = reqs[r].faultsSeen
  BY <1>1 DEF RequestType
<1> HIDE DEF q
<1>5. reqs'[r] = q /\ \A s \in Requests : s # r => reqs'[s] = reqs[s]
  BY <1>3 DEF IInv, TypeOK
<1>6. HistoryInv(reqs[r])'
  BY <1>1, <1>2, <1>3, <1>4, <1>5 DEF HInv, HistoryInv, Decided
<1>7. QED
  BY <1>3, <1>5, <1>6, StepHInv DEF World

LEMMA InsertRowHInv ==
  ASSUME IInv, HInv, NEW r \in Requests, InsertRow(r)
  PROVE  HInv'
<1> DEFINE q   == [reqs[r] EXCEPT !.phase = "respond"]
           row == [tok |-> reqs[r].tok, claims |-> log[reqs[r].tok].event]
<1>1. reqs[r].phase = "audit" /\ reqs[r] \in RequestType /\ reqs[r].tok \in DOMAIN log
  BY RequestFacts DEF InsertRow
<1>2. /\ q.phase = "respond" /\ q.tok = reqs[r].tok
      /\ q.modesSeen = reqs[r].modesSeen /\ q.faultsSeen = reqs[r].faultsSeen
  BY <1>1 DEF RequestType
<1>3. reqs' = [reqs EXCEPT ![r] = q] /\ UNCHANGED <<World, log>>
  BY DEF InsertRow
<1> HIDE DEF q
<1>4. reqs'[r] = q /\ \A s \in Requests : s # r => reqs'[s] = reqs[s]
  BY <1>3 DEF IInv, TypeOK
<1>5. HistoryInv(reqs[r])'
  BY <1>1, <1>2, <1>3, <1>4 DEF HInv, HistoryInv, Decided
<1>6. ASSUME NEW x \in rows' PROVE x \in rows \/ RowInv(x)'
  BY <1>1, <1>3, <1>6 DEF InsertRow, RowInv
<1>7. QED
  BY <1>3, <1>4, <1>5, <1>6, StepHInv DEF World

LEMMA RespondHInv ==
  ASSUME IInv, HInv, NEW r \in Requests, Respond(r)
  PROVE  HInv'
<1> DEFINE status == IF log[reqs[r].tok].event.expKind = "number" THEN 200 ELSE 500
           q == [Idle EXCEPT !.phase = "done", !.tok = reqs[r].tok, !.status = status]
<1>1. reqs[r].tok \in DOMAIN log
  BY RequestFacts DEF Respond
<1>2. reqs' = [reqs EXCEPT ![r] = q] /\ UNCHANGED <<World, log, rows>>
  BY DEF Respond
<1>3. q.phase = "done" /\ q.tok = reqs[r].tok /\ q.status = status
  BY DEF Idle
<1> HIDE DEF q
<1>4. reqs'[r] = q /\ \A s \in Requests : s # r => reqs'[s] = reqs[s]
  BY <1>2 DEF IInv, TypeOK
<1>5. HistoryInv(reqs[r])'
  BY <1>1, <1>2, <1>3, <1>4 DEF HistoryInv, Decided
<1>6. QED
  BY <1>2, <1>4, <1>5, StepHInv DEF World

(***************************************************************************)
(* A token of /token is made under the fault there is when it is decided.  *)
(***************************************************************************)
LEMMA MadeUnderFault ==
  ASSUME TypeOK, NEW q, q.job \in JobType, q.job.subject <= Len(log), Refusal(q) = 0,
         q.job.route = "token"
  PROVE  MadeUnder(fault, Entry(q))
<1> DEFINE e == Entry(q)
           b == Built(q.job)
<1>1. b \in Claims /\ now \in Nat
  BY NotRefused, BuiltType DEF TypeOK
<1>2. /\ e.slot = SlotFor(q.job) /\ e.event = b /\ e.at = now
      /\ e.claims = SignedClaims(q.job)
  BY DEF Entry
<1>3. /\ e.slot = "none" <=> fault.mode = "invalid_token"
      /\ e.slot \in {"alt", "ecAlt"} <=> fault.mode = "invalid_signature"
  BY <1>2 DEF SlotFor, AltSlot, SigningSlot
<1>4. SignedClaims(q.job) = IF fault.mode = "expired_token"
                              THEN [b EXCEPT !.exp = now + fault.skew, !.expKind = "number"] ELSE b
  BY DEF SignedClaims
<1> HIDE DEF e, b
<1>5. CASE fault.mode = "expired_token"
  <2>1. /\ e.claims.expKind = "number" /\ e.claims.exp = now + fault.skew
        /\ e.claims.id = b.id
    BY <1>1, <1>2, <1>4, <1>5 DEF Claims
  <2>2. QED
    BY <1>2, <1>3, <1>5, <2>1 DEF MadeUnder, e
<1>6. CASE fault.mode # "expired_token"
  BY <1>2, <1>3, <1>4, <1>6 DEF MadeUnder, e
<1>7. QED
  BY <1>5, <1>6

\* Its audience is one the strict rules allow, or the modes of that moment are not.
LEMMA ListedOrLax ==
  ASSUME TypeOK, NEW q, q.job \in JobType, Refusal(q) = 0
  PROVE  Entry(q).listed \/ EffectiveMode(config, q.mode) # "strict"
<1>1. AudienceAllowed(config, q.mode, q.job.id, q.job.aud)
  BY DEF Refusal
<1>2. config \in ConfigType
  BY DEF TypeOK
<1>3. CASE EffectiveMode(config, q.mode) = "strict"
  <2> DEFINE c == [config EXCEPT !.issuerMode = "strict"]
  <2>1. c.ids = config.ids /\ c.apps = config.apps
    BY <1>2 DEF ConfigType
  <2>2. Entry(q).listed = AudienceAllowed(c, "strict", q.job.id, q.job.aud)
    BY DEF Entry
  <2> HIDE DEF c
  <2>3. AudienceAllowed(c, "strict", q.job.id, q.job.aud)
    <3>1. EffectiveMode(c, "strict") = "strict"
      BY <1>2 DEF EffectiveMode, ConfigType, Modes, c
    <3>2. QED
      BY <1>1, <1>3, <2>1, <3>1 DEF AudienceAllowed
  <2>4. QED
    BY <2>2, <2>3
<1>4. QED
  BY <1>3

LEMMA IssueHInv ==
  ASSUME IInv, HInv, NEW r \in Requests, Undecided(r), Issue(r)
  PROVE  HInv'
<1> DEFINE q    == reqs[r]
           over == [Idle EXCEPT !.phase = "done", !.status = 200, !.tok = Len(log) + 1]
           on   == [q EXCEPT !.phase = AfterSigning, !.tok = Len(log) + 1,
                             !.waiting = config.hooks]
<1>0. TypeOK /\ StoreInv
  BY DEF IInv
<1>1. /\ q \in RequestType
      /\ q.job \in JobType
      /\ q.job.subject <= Len(log)
      /\ Refusal(q) = 0
  BY RequestFacts DEF Undecided, RequestInv, Issue
<1>2. log' = Append(log, Entry(q)) /\ UNCHANGED <<World, rows>>
  BY DEF Issue
<1>3. log \in Seq(Entries) /\ Entry(q) \in Entries
  BY <1>0, <1>1, NewEntryFacts DEF TypeOK
<1>4. /\ log'[Len(log) + 1] = Entry(q)
      /\ \A n \in DOMAIN log : n \in DOMAIN log' /\ log'[n] = log[n]
  BY <1>2, <1>3
<1>5. reqs' = [reqs EXCEPT ![r] = IF q.job.route = "token" THEN on ELSE over]
  BY DEF Issue
<1>6. over.phase = "done" /\ over.status = 200
  BY DEF Idle
<1>7. /\ on.phase \in {"audit", "webhooks"} /\ on.tok = Len(log) + 1
      /\ on.modesSeen = q.modesSeen /\ on.faultsSeen = q.faultsSeen
  BY <1>1 DEF AfterSigning, RequestType
<1> HIDE DEF on, over
<1>8. /\ reqs'[r] = IF q.job.route = "token" THEN on ELSE over
      /\ \A s \in Requests : s # r => reqs'[s] = reqs[s]
  BY <1>0, <1>5 DEF TypeOK
<1>9. HistoryInv(reqs[r])'
  <2>1. CASE q.job.route # "token"
    BY <1>6, <1>8, <2>1 DEF HistoryInv, Decided
  <2>2. CASE q.job.route = "token"
    <3>1. /\ fault \in q.faultsSeen
          /\ ModesOf(config) \in q.modesSeen
          /\ \E b \in q.modesSeen : b.mode = q.mode
      BY DEF HInv, HistoryInv, Undecided
    <3>2. \E f \in q.faultsSeen : MadeUnder(f, Entry(q))
      BY <1>0, <1>1, <2>2, <3>1, MadeUnderFault
    <3>3. Entry(q).listed \/ \E a, b \in q.modesSeen : EffectiveMode(a, b.mode) # "strict"
      <4>1. PICK b \in q.modesSeen : b.mode = q.mode
        BY <3>1
      <4>2. EffectiveMode(ModesOf(config), b.mode) = EffectiveMode(config, q.mode)
        BY <4>1 DEF EffectiveMode, ModesOf
      <4>3. QED
        BY <1>0, <1>1, <3>1, <4>1, <4>2, ListedOrLax
    <3>4. reqs'[r] = on /\ log'[on.tok] = Entry(q)
      BY <1>4, <1>7, <1>8, <2>2
    <3>5. QED
      BY <1>7, <3>2, <3>3, <3>4 DEF HistoryInv, Decided
  <2>3. QED
    BY <2>1, <2>2
<1>10. QED
  BY <1>2, <1>4, <1>8, <1>9, StepHInv DEF World

(***************************************************************************)
(* When a configuration or a fault comes into force, every request that is *)
(* not decided sees it.                                                    *)
(***************************************************************************)
LEMMA SeenHInv ==
  ASSUME IInv, HInv, reqs' = Seen(config', fault'), UNCHANGED <<log, rows>>
  PROVE  HInv'
<1>1. ASSUME NEW r \in Requests PROVE HistoryInv(reqs[r])'
  <2> DEFINE q == [reqs[r] EXCEPT !.modesSeen = @ \cup {ModesOf(config')},
                                  !.faultsSeen = @ \cup {fault'}]
  <2>1. reqs[r] \in RequestType /\ HistoryInv(reqs[r])
    BY DEF IInv, TypeOK, HInv
  <2>2. CASE Undecided(r)
    <3>1. reqs'[r] = q
      BY <2>2 DEF Seen
    <3>2. /\ q.phase = reqs[r].phase /\ q.tok = reqs[r].tok /\ q.mode = reqs[r].mode
          /\ q.modesSeen = reqs[r].modesSeen \cup {ModesOf(config')}
          /\ q.faultsSeen = reqs[r].faultsSeen \cup {fault'}
      BY <2>1 DEF RequestType
    <3> HIDE DEF q
    <3>3. (ModesOf(config))' = ModesOf(config')
      BY DEF ModesOf
    <3>4. QED
      BY <2>1, <2>2, <3>1, <3>2, <3>3 DEF HistoryInv, Decided, Undecided
  <2>3. CASE ~Undecided(r)
    <3>1. reqs'[r] = reqs[r]
      BY <2>3 DEF Seen
    <3>2. QED
      BY <2>1, <2>3, <3>1 DEF HistoryInv, Decided, Undecided
  <2>4. QED
    BY <2>2, <2>3
<1>2. QED
  BY <1>1 DEF HInv, RowInv

LEMMA RestartHInv ==
  ASSUME IInv, HInv, Restart
  PROVE  HInv'
<1>1. ASSUME NEW r \in Requests PROVE HistoryInv(reqs[r])'
  <2>1. CASE Active(r)
    <3>1. reqs'[r] = [Idle EXCEPT !.phase = "lost", !.tok = reqs[r].tok]
      BY <2>1 DEF Restart
    <3>2. reqs'[r].phase = "lost"
      BY <3>1 DEF Idle
    <3>3. QED
      BY <3>2 DEF HistoryInv, Decided
  <2>2. CASE ~Active(r)
    <3>1. reqs'[r] = reqs[r] /\ log' = log
      BY <2>2 DEF Restart
    <3>2. QED
      BY <2>2, <3>1 DEF HInv, HistoryInv, Decided, Active
  <2>3. QED
    BY <2>1, <2>2
<1>2. QED
  BY <1>1 DEF Restart, HInv, RowInv

LEMMA NextHInv == IInv /\ HInv /\ [Next]_vars => HInv'
<1> SUFFICES ASSUME IInv, HInv, [Next]_vars PROVE HInv'
  OBVIOUS
<1>1. ASSUME NEW r \in Requests, Undecided(r), Decide(r) PROVE HInv'
  BY <1>1, ReplyHInv, IssueHInv DEF Decide, Refuse
<1>2. ASSUME NEW r \in Requests, NEW job \in Jobs, Submit(r, job) PROVE HInv'
  BY <1>2, SubmitHInv
<1>3. ASSUME NEW r \in Requests, FailBeforeDeciding(r) PROVE HInv'
  BY <1>3, ReplyHInv DEF FailBeforeDeciding
<1>4. ASSUME NEW r \in Requests, Proceed(r) \/ ProceedBadRoute(r) \/ Wake(r) PROVE HInv'
  BY <1>1, <1>4 DEF Proceed, ProceedBadRoute, Wake, ReadyAt, Undecided
<1>5. ASSUME NEW r \in Requests, Sleep(r) \/ InsertRow(r) \/ Respond(r) PROVE HInv'
  BY <1>5, SleepHInv, InsertRowHInv, RespondHInv
<1>6. ASSUME NEW r \in Requests, NEW h \in Hooks, HookEnds(r, h) PROVE HInv'
  BY <1>6, HookEndsHInv
<1>7. CASE (\E c \in Configs : Reload(c)) \/ (\E f \in Faults : SetFault(f)) \/ ClearFault
  BY <1>7, SeenHInv DEF Reload, SetFault, ClearFault
<1>8. CASE UNCHANGED <<config, fault, reqs, log, rows>>
  BY <1>8 DEF HInv, HistoryInv, Decided, RowInv, ModesOf
<1>9. CASE Rotate \/ Tick \/ UNCHANGED vars
  BY <1>8, <1>9 DEF Rotate, Tick, vars
<1>10. QED
  BY <1>2, <1>3, <1>4, <1>5, <1>6, <1>7, <1>9, RestartHInv DEF Next

LEMMA HInvAlways == Spec => [](IInv /\ HInv)
<1>1. Init => IInv /\ HInv
  BY InitIInv, InitHInv
<1>2. IInv /\ HInv /\ [Next]_vars => (IInv /\ HInv)'
  BY NextIInv, NextHInv
<1>3. QED
  BY <1>1, <1>2, PTL DEF Spec

LEMMA ActiveRequest ==
  ASSUME IInv, HInv, NEW r \in Requests, Active(r), reqs[r].tok # 0
  PROVE  Decided(reqs[r]) /\ HistoryInv(reqs[r])
  BY DEF HInv, HistoryInv, Decided, Active

(***************************************************************************)
(* The token of a request is spoiled by a fault that was set during the    *)
(* request, or sound if at some time of it there was none (chaos.py,       *)
(* _corrupt_or_sign).                                                      *)
(***************************************************************************)
THEOREM CorruptionMatchesFaultsAlways == Spec => []CorruptionMatchesFaults
<1>1. IInv /\ HInv => CorruptionMatchesFaults
  BY ActiveRequest DEF CorruptionMatchesFaults, HistoryInv
<1>2. QED
  BY <1>1, HInvAlways, PTL

(***************************************************************************)
(* A token for an audience that is not listed was made under two modes of  *)
(* configurations in force during its request (routers/oidc.py _ctx,       *)
(* tokens.py check_audience).                                              *)
(***************************************************************************)
THEOREM ModePartsWereInForceAlways == Spec => []ModePartsWereInForce
<1>1. IInv /\ HInv => ModePartsWereInForce
  BY ActiveRequest DEF ModePartsWereInForce, HistoryInv
<1>2. QED
  BY <1>1, HInvAlways, PTL

(***************************************************************************)
(* No token that has an audit row is answered 500, unless the request asked*)
(* for its exp to be omitted or the extra_claims of the identity wrote exp *)
(* as a text (token_handler.py handle_token, store/pg_store.py,            *)
(* providers/entra_id.py).                                                 *)
(***************************************************************************)
THEOREM LateFailuresAreOfTwoKindsAlways == Spec => []LateFailuresAreOfTwoKinds
<1>1. IInv /\ HInv => LateFailuresAreOfTwoKinds
  <2> SUFFICES ASSUME IInv, HInv, NEW r \in Requests, NEW row \in rows,
                      reqs[r].phase = "done", reqs[r].status = 500,
                      reqs[r].tok = row.tok
               PROVE  \/ "exp" \in log[row.tok].omit
                      \/ log[row.tok].extra.expKind = "numeral"
    BY DEF LateFailuresAreOfTwoKinds
  <2>1. RowInv(row) /\ row.tok # 0 /\ log[row.tok].event \in Claims
    <3>1. RowInv(row)
      BY DEF HInv
    <3>2. row.tok \in 1..Len(log) /\ log[row.tok] \in Entries
      BY <3>1, EntryType DEF IInv, RowInv
    <3>3. QED
      BY <3>1, <3>2 DEF Entries
  <2>2. log[row.tok].event.expKind # "number"
    BY <2>1 DEF HInv, HistoryInv
  <2>3. log[row.tok].event.expKind \in {"absent", "numeral"}
    BY <2>1, <2>2 DEF RowInv, Claims, ExpKinds
  <2>4. EntryInv(log[row.tok])
    BY <2>1 DEF IInv, RowInv
  <2>5. QED
    BY <2>3, <2>4 DEF EntryInv
<1>2. QED
  BY <1>1, HInvAlways, PTL
=============================================================================
