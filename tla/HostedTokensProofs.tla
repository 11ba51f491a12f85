------------------------ MODULE HostedTokensProofs ------------------------
(***************************************************************************)
(* Proofs about HostedTokens, for any pods, orgs, requests and bounds.     *)
(***************************************************************************)
EXTENDS HostedTokens, TLAPS

(***************************************************************************)
(* Every org somebody holds on to has, or had, a row.                      *)
(***************************************************************************)
Known == gone \cup {row, NoOrg}

OriginInv ==
  /\ row \notin gone
  /\ \A q \in Pods : served[q] \in Known
  /\ \A q \in Pods, k \in Orgs : kept[q][k] # NoSet => k \in Known
  /\ \A r \in Requests : req[r].org \in Known
  /\ \A t \in tokens : t.by \in Known

(***************************************************************************)
(* A key set that is not stored yet is that of one request only.           *)
(***************************************************************************)
Unstored(r) == req[r].phase \in {"storing", "orphan"}

FreshInv ==
  \A r \in Requests : Unstored(r) =>
    /\ req[r].set # NoSet
    /\ req[r].set # jwks
    /\ \A q \in Pods, k \in Orgs : kept[q][k] # req[r].set
    /\ \A t \in tokens : t.set # req[r].set
    /\ \A u \in Requests \ {r} : req[u].set # req[r].set

PhaseInv ==
  \A r \in Requests : /\ req[r].phase = "stored" => req[r].set # NoSet
                      /\ req[r].phase = "body" => req[r].set = NoSet

\* Key sets are generated before they are anywhere.
MintedInv ==
  /\ \A r \in Requests : req[r].set \in 0..minted
  /\ \A t \in tokens : t.set \in 1..minted

(***************************************************************************)
(* A token is over if it was signed in time for an org that is gone now.   *)
(* Its key set is out of reach of every org that is there.                 *)
(***************************************************************************)
Over(t) == ~t.late /\ t.by \in gone

Unreached(m) ==
  /\ m # jwks
  /\ \A q \in Pods, k \in Orgs \ gone : kept[q][k] # m
  /\ \A r \in Requests : req[r].org \notin gone => req[r].set # m

OverInv == \A t \in tokens : Over(t) => Unreached(t.set)

SubjectInv == \A r \in Requests : req[r].kind = "exchange" => req[r].subject \in tokens

IInv ==
  /\ TypeOK
  /\ OriginInv
  /\ FreshInv
  /\ PhaseInv
  /\ MintedInv
  /\ OverInv
  /\ SubjectInv
  /\ IdentitiesStayInTheirOrg

-----------------------------------------------------------------------------
Requested == ActiveRequests \cup {Idle}

LEMMA IdleFields ==
  /\ Idle.phase = "idle" /\ Idle.org = NoOrg /\ Idle.set = NoSet
  /\ Idle.kind = "look" /\ Idle \in Requested
  BY DEF Idle, Requested

LEMMA RequestFields ==
  ASSUME NEW x \in Requested
  PROVE  /\ x.phase = "idle" => x = Idle
         /\ x.phase # "idle" => x \in ActiveRequests
         /\ x.set \in 0..MaxSets
         /\ x.kind \in Kinds
<1>1. CASE x = Idle
  BY <1>1, HostedAssumption DEF Idle, NoSet, Kinds
<1>2. CASE x \in ActiveRequests
  BY <1>2 DEF ActiveRequests, Phases
<1>3. QED
  BY <1>1, <1>2 DEF Requested

LEMMA InitIInv == Init => IInv
<1> SUFFICES ASSUME Init PROVE IInv
  OBVIOUS
<1>1. /\ row = NoOrg /\ served = [q \in Pods |-> NoOrg] /\ gone = {}
      /\ jwks = NoSet /\ kept = [q \in Pods |-> [k \in Orgs |-> NoSet]]
      /\ req = [r \in Requests |-> Idle] /\ minted = 0 /\ tokens = {}
  BY DEF Init, Life!Init
<1>2. TypeOK
  BY <1>1, IdleFields, HostedAssumption DEF TypeOK, NoSet, Requested
<1>3. OriginInv /\ FreshInv /\ PhaseInv /\ SubjectInv
  BY <1>1, IdleFields DEF OriginInv, Known, FreshInv, Unstored, PhaseInv, SubjectInv
<1>4. OverInv /\ IdentitiesStayInTheirOrg /\ MintedInv
  BY <1>1, IdleFields DEF OverInv, IdentitiesStayInTheirOrg, MintedInv, NoSet
<1>5. QED
  BY <1>2, <1>3, <1>4 DEF IInv

-----------------------------------------------------------------------------
(***************************************************************************)
(* Steps that generate, store and sign nothing: each request stays, or     *)
(* holds no key set or that of the row, or leaves its upsert behind; and   *)
(* contexts may lose their key sets.                                       *)
(***************************************************************************)
Moves(x, y) ==
  \/ y = x
  \/ /\ y.phase \notin {"storing", "orphan", "stored"}
     /\ y.set \in {NoSet, jwks}
     /\ y.phase = "body" => y.set = NoSet
  \/ /\ y.phase = "orphan" /\ x.phase = "storing"
     /\ y.set = x.set /\ y.org = x.org

LEMMA MovesIInv ==
  ASSUME IInv,
         UNCHANGED <<row, gone, jwks, minted, tokens>>,
         served' \in [Pods -> Orgs \cup {NoOrg}],
         \A q \in Pods : served'[q] \in Known,
         kept' \in [Pods -> [Orgs -> 0..minted]],
         \A q \in Pods, k \in Orgs : kept'[q][k] \in {kept[q][k], NoSet},
         req' \in [Requests -> Requested],
         \A r \in Requests : /\ Moves(req[r], req'[r])
                             /\ req'[r].org \in Known
                             /\ req'[r].kind = "exchange" => req'[r].subject \in tokens
  PROVE  IInv'
<1>0. tokens \subseteq Tokens /\ \A t \in tokens : t.set # NoSet
  BY DEF IInv, TypeOK, Tokens, NoSet
<1>1. TypeOK'
  BY DEF IInv, TypeOK, Requested
<1>2. OriginInv'
  BY DEF IInv, OriginInv, Known
<1>3. FreshInv'
  <2> SUFFICES ASSUME NEW r \in Requests, Unstored(r)'
               PROVE  /\ req'[r].set # NoSet
                      /\ req'[r].set # jwks
                      /\ \A q \in Pods, k \in Orgs : kept'[q][k] # req'[r].set
                      /\ \A t \in tokens : t.set # req'[r].set
                      /\ \A u \in Requests \ {r} : req'[u].set # req'[r].set
    BY DEF FreshInv
  <2>1. Unstored(r) /\ req'[r].set = req[r].set
    BY DEF Moves, Unstored
  <2>2. \A u \in Requests : req'[u].set \in {req[u].set, NoSet, jwks}
    BY DEF Moves
  <2>3. QED
    BY <2>1, <2>2 DEF IInv, FreshInv
<1>4. PhaseInv' /\ MintedInv'
  <2>1. PhaseInv'
    BY DEF IInv, PhaseInv, Moves
  <2>2. ASSUME NEW r \in Requests PROVE req'[r].set \in 0..minted
    <3>1. req'[r].set \in {req[r].set, NoSet, jwks}
      BY DEF Moves
    <3>2. QED
      BY <3>1, HostedAssumption DEF IInv, MintedInv, TypeOK, NoSet
  <2>3. QED
    BY <2>1, <2>2 DEF IInv, MintedInv
<1>5. OverInv'
  <2> SUFFICES ASSUME NEW t \in tokens, Over(t) PROVE Unreached(t.set)'
    BY DEF OverInv, Over
  <2>1. Unreached(t.set) /\ t.set # NoSet
    BY <1>0 DEF IInv, OverInv
  <2>2. \A q \in Pods, k \in Orgs \ gone : kept'[q][k] # t.set
    BY <2>1 DEF Unreached
  <2>3. ASSUME NEW r \in Requests, req'[r].org \notin gone PROVE req'[r].set # t.set
    BY <2>1, <2>3 DEF Unreached, Moves
  <2>4. QED
    BY <2>1, <2>2, <2>3 DEF Unreached
<1>6. SubjectInv' /\ IdentitiesStayInTheirOrg'
  BY DEF IInv, SubjectInv, IdentitiesStayInTheirOrg
<1>7. QED
  BY <1>1, <1>2, <1>3, <1>4, <1>5, <1>6 DEF IInv

\* One request moves on, and nothing else changes.
LEMMA OneMoves ==
  ASSUME IInv, NEW r \in Requests, NEW y \in Requested,
         req' = [req EXCEPT ![r] = y],
         UNCHANGED <<orgVars, jwks, kept, minted, tokens>>,
         Moves(req[r], y), y.org \in Known,
         y.kind = "exchange" => y.subject \in tokens
  PROVE  IInv'
<1>1. /\ req \in [Requests -> Requested]
      /\ kept \in [Pods -> [Orgs -> 0..minted]]
      /\ served \in [Pods -> Orgs \cup {NoOrg}]
  BY DEF IInv, TypeOK, Requested
<1>2. req' \in [Requests -> Requested]
  BY <1>1
<1>3. ASSUME NEW u \in Requests
      PROVE  /\ Moves(req[u], req'[u])
             /\ req'[u].org \in Known
             /\ req'[u].kind = "exchange" => req'[u].subject \in tokens
  <2>1. CASE u = r
    BY <1>1, <2>1
  <2>2. CASE u # r
    <3>1. req'[u] = req[u]
      BY <1>1, <2>2
    <3>2. QED
      BY <3>1 DEF Moves, IInv, OriginInv, SubjectInv
  <2>3. QED
    BY <2>1, <2>2
<1>4. /\ UNCHANGED <<row, gone, jwks, minted, tokens>>
      /\ served' = served /\ kept' = kept
      /\ \A q \in Pods : served'[q] \in Known
  BY DEF orgVars, IInv, OriginInv
<1>5. QED
  BY <1>1, <1>2, <1>3, <1>4, MovesIInv

\* What becomes of a request that is given up.
LEMMA GivenUpMoves ==
  ASSUME IInv, NEW r \in Requests, NEW sent \in BOOLEAN,
         NEW y, y = GivenUp(req[r], sent)
  PROVE  /\ y \in Requested
         /\ Moves(req[r], y)
         /\ y.org \in Known
         /\ y.kind = "look"
<1>1. CASE sent /\ req[r].phase = "storing"
  <2>1. req[r] \in ActiveRequests
    BY <1>1, RequestFields DEF IInv, TypeOK, Requested
  <2>2. y = [phase |-> "orphan", pod |-> req[r].pod, org |-> req[r].org, kind |-> "look",
             subject |-> NoToken, set |-> req[r].set]
    BY <1>1, <2>1 DEF GivenUp, ActiveRequests
  <2>3. y \in ActiveRequests
    BY <2>1, <2>2 DEF ActiveRequests, Phases, Kinds
  <2>4. req[r].org \in Known
    BY DEF IInv, OriginInv
  <2>5. /\ y.phase = "orphan" /\ y.org = req[r].org
        /\ y.set = req[r].set /\ y.kind = "look"
    BY <2>2
  <2>6. Moves(req[r], y)
    BY <1>1, <2>5 DEF Moves
  <2>7. QED
    BY <2>3, <2>4, <2>5, <2>6 DEF Requested
<1>2. CASE ~(sent /\ req[r].phase = "storing")
  <2>1. y = Idle
    BY <1>2 DEF GivenUp
  <2>2. QED
    BY <2>1, IdleFields DEF Moves, Known
<1>3. QED
  BY <1>1, <1>2

-----------------------------------------------------------------------------
(***************************************************************************)
(* A key set is generated, and stored.                                     *)
(***************************************************************************)
LEMMA GenerateIInv == ASSUME IInv, NEW r \in Requests, Generate(r) PROVE IInv'
<1> DEFINE m == minted + 1
           y == [req[r] EXCEPT !.phase = "storing", !.set = m]
<1>1. /\ req[r].phase = "selected" /\ minted < MaxSets /\ minted' = m
      /\ req' = [req EXCEPT ![r] = y]
      /\ UNCHANGED <<row, served, gone, jwks, kept, tokens>>
  BY DEF Generate, At, orgVars
<1>2. /\ req \in [Requests -> Requested] /\ minted \in Nat /\ MaxSets \in Nat
      /\ kept \in [Pods -> [Orgs -> 0..minted]] /\ jwks \in 0..minted
  BY HostedAssumption DEF IInv, TypeOK, Requested
<1>3. req[r] \in ActiveRequests
  BY <1>1, <1>2, RequestFields
<1>4. m \in 0..MaxSets /\ m # NoSet /\ minted' \in 0..MaxSets
  BY <1>1, <1>2 DEF NoSet
<1>5. /\ y \in ActiveRequests /\ y.phase = "storing" /\ y.set = m
      /\ y.org = req[r].org /\ y.kind = req[r].kind /\ y.subject = req[r].subject
  BY <1>3, <1>4 DEF ActiveRequests, Phases
<1> HIDE DEF y
<1>6. req' \in [Requests -> Requested] /\ req'[r] = y
  BY <1>1, <1>2, <1>5 DEF Requested
<1>7. \A u \in Requests \ {r} : req'[u] = req[u]
  BY <1>1, <1>2
<1>8. /\ \A u \in Requests \ {r} : req[u].set # m
      /\ \A t \in tokens : t.set # m
      /\ \A q \in Pods, k \in Orgs : kept[q][k] # m
      /\ jwks # m
      /\ 0..minted \subseteq 0..m /\ 1..minted \subseteq 1..m
  BY <1>2 DEF IInv, MintedInv
<1>9. TypeOK'
  BY <1>1, <1>2, <1>4, <1>6, <1>8 DEF IInv, TypeOK, Requested
<1>10. OriginInv' /\ SubjectInv' /\ IdentitiesStayInTheirOrg'
  BY <1>1, <1>5, <1>6, <1>7
     DEF IInv, OriginInv, Known, SubjectInv, IdentitiesStayInTheirOrg
<1>11. FreshInv'
  <2> SUFFICES ASSUME NEW u \in Requests, Unstored(u)'
               PROVE  /\ req'[u].set # NoSet
                      /\ req'[u].set # jwks
                      /\ \A q \in Pods, k \in Orgs : kept[q][k] # req'[u].set
                      /\ \A t \in tokens : t.set # req'[u].set
                      /\ \A v \in Requests \ {u} : req'[v].set # req'[u].set
    BY <1>1 DEF FreshInv
  <2>1. CASE u = r
    BY <1>4, <1>5, <1>6, <1>7, <1>8, <2>1
  <2>2. CASE u # r
    <3>1. req'[u] = req[u] /\ Unstored(u)
      BY <1>7, <2>2 DEF Unstored
    <3>2. \A v \in Requests \ {u} : req'[v].set \in {req[v].set, m}
      BY <1>5, <1>6, <1>7
    <3>3. QED
      BY <1>8, <2>2, <3>1, <3>2 DEF IInv, FreshInv
  <2>3. QED
    BY <2>1, <2>2
<1>12. PhaseInv' /\ MintedInv'
  BY <1>1, <1>4, <1>5, <1>6, <1>7, <1>8 DEF IInv, PhaseInv, MintedInv
<1>13. OverInv'
  <2> SUFFICES ASSUME NEW t \in tokens, Over(t) PROVE Unreached(t.set)'
    BY <1>1 DEF OverInv, Over
  <2>1. Unreached(t.set)
    BY DEF IInv, OverInv
  <2>2. ASSUME NEW u \in Requests, req'[u].org \notin gone PROVE req'[u].set # t.set
    BY <1>5, <1>6, <1>7, <1>8, <2>1, <2>2 DEF Unreached
  <2>3. QED
    BY <1>1, <2>1, <2>2 DEF Unreached
<1>14. QED
  BY <1>9, <1>10, <1>11, <1>12, <1>13 DEF IInv

LEMMA UpsertIInv == ASSUME IInv, NEW r \in Requests, Upsert(r) PROVE IInv'
<1> DEFINE m == req[r].set
           y == IF At(r, "orphan") THEN Idle ELSE [req[r] EXCEPT !.phase = "stored"]
<1>1. /\ Unstored(r) /\ jwks' = m
      /\ req' = [req EXCEPT ![r] = y]
      /\ UNCHANGED <<row, served, gone, kept, minted, tokens>>
  BY DEF Upsert, Unstored, orgVars
<1>2. req \in [Requests -> Requested]
  BY DEF IInv, TypeOK, Requested
<1>3. req[r] \in ActiveRequests
  BY <1>1, <1>2, RequestFields DEF Unstored
<1>4. /\ m # NoSet /\ m # jwks /\ m \in 0..minted
      /\ \A q \in Pods, k \in Orgs : kept[q][k] # m
      /\ \A t \in tokens : t.set # m
      /\ \A u \in Requests \ {r} : req[u].set # m
  BY <1>1 DEF IInv, FreshInv, MintedInv
<1>5. \/ y = Idle
      \/ /\ y \in ActiveRequests /\ y.phase = "stored" /\ y.set = m
         /\ y.org = req[r].org /\ y.kind = req[r].kind /\ y.subject = req[r].subject
  <2>1. CASE At(r, "orphan")
    BY <2>1
  <2>2. CASE ~At(r, "orphan")
    BY <1>3, <2>2 DEF ActiveRequests, Phases
  <2>3. QED
    BY <2>1, <2>2
<1> HIDE DEF m, y
<1>6. /\ y \in Requested /\ y.phase \in {"idle", "stored"}
      /\ y.set \in {NoSet, m}
      /\ y.phase = "stored" => y.set = m
      /\ y.org \in {NoOrg, req[r].org}
      /\ y.kind = "exchange" => req[r].kind = "exchange" /\ y.subject = req[r].subject
  BY <1>5, IdleFields DEF Requested
<1>7. req' \in [Requests -> Requested] /\ req'[r] = y
      /\ \A u \in Requests \ {r} : req'[u] = req[u]
  BY <1>1, <1>2, <1>6
<1>8. TypeOK'
  BY <1>1, <1>4, <1>7 DEF IInv, TypeOK, Requested
<1>9. OriginInv' /\ SubjectInv' /\ IdentitiesStayInTheirOrg'
  BY <1>1, <1>6, <1>7 DEF IInv, OriginInv, Known, SubjectInv, IdentitiesStayInTheirOrg
<1>10. FreshInv'
  <2> SUFFICES ASSUME NEW u \in Requests, Unstored(u)'
               PROVE  /\ req'[u].set # NoSet
                      /\ req'[u].set # m
                      /\ \A q \in Pods, k \in Orgs : kept[q][k] # req'[u].set
                      /\ \A t \in tokens : t.set # req'[u].set
                      /\ \A v \in Requests \ {u} : req'[v].set # req'[u].set
    BY <1>1 DEF FreshInv
  <2>1. u # r /\ req'[u] = req[u] /\ Unstored(u)
    BY <1>6, <1>7 DEF Unstored
  <2>2. \A v \in Requests \ {u} : req'[v].set \in {req[v].set, NoSet, m}
    BY <1>6, <1>7
  <2>3. QED
    BY <1>4, <2>1, <2>2 DEF IInv, FreshInv
<1>11. PhaseInv' /\ MintedInv'
  <2>1. PhaseInv'
    BY <1>4, <1>6, <1>7 DEF IInv, PhaseInv
  <2>2. \A u \in Requests : req'[u].set \in {req[u].set, NoSet, m}
    BY <1>6, <1>7
  <2>3. NoSet \in 0..minted
    BY HostedAssumption DEF IInv, TypeOK, NoSet
  <2>4. ASSUME NEW u \in Requests PROVE req'[u].set \in 0..minted
    <3>1. req[u].set \in 0..minted
      BY DEF IInv, MintedInv
    <3>2. QED
      BY <1>4, <2>2, <2>3, <3>1
  <2>5. QED
    BY <1>1, <2>1, <2>4 DEF IInv, MintedInv
<1>12. OverInv'
  <2> SUFFICES ASSUME NEW t \in tokens, Over(t) PROVE Unreached(t.set)'
    BY <1>1 DEF OverInv, Over
  <2>1. Unreached(t.set) /\ t.set # NoSet /\ t.set # m
    BY <1>4 DEF IInv, OverInv, MintedInv, NoSet
  <2>2. ASSUME NEW u \in Requests, req'[u].org \notin gone PROVE req'[u].set # t.set
    BY <1>6, <1>7, <2>1, <2>2 DEF Unreached
  <2>3. QED
    BY <1>1, <2>1, <2>2 DEF Unreached
<1>13. QED
  BY <1>8, <1>9, <1>10, <1>11, <1>12 DEF IInv

-----------------------------------------------------------------------------
(***************************************************************************)
(* A request ends with a key set somebody stored.                          *)
(***************************************************************************)
LEMMA FinishIInv ==
  ASSUME IInv, NEW r \in Requests, NEW x, NEW k \in 1..minted,
         x.pod \in Pods, x.org \in Orgs, x.org \in Known,
         x.kind = "exchange" => x.subject \in tokens,
         \A u \in Requests : Unstored(u) => req[u].set # k,
         x.org \notin gone => \A t \in tokens : Over(t) => t.set # k,
         Finish(r, x, k),
         UNCHANGED <<row, served, gone, jwks, minted>>
  PROVE  IInv'
<1>1. /\ req' = [req EXCEPT ![r] = Idle]
      /\ kept' = [kept EXCEPT ![x.pod][x.org] = k]
      /\ tokens' = tokens \cup Signed(x, k)
  BY DEF Finish
<1>2. /\ req \in [Requests -> Requested] /\ minted \in 0..MaxSets /\ MaxSets \in Nat
      /\ kept \in [Pods -> [Orgs -> 0..minted]] /\ tokens \subseteq Tokens
  BY HostedAssumption DEF IInv, TypeOK, Requested
<1>3. /\ req' \in [Requests -> Requested] /\ req'[r] = Idle
      /\ \A u \in Requests \ {r} : req'[u] = req[u]
  BY <1>1, <1>2, IdleFields
<1>4. k \in 0..minted /\ k \in 1..MaxSets /\ k # NoSet
  BY <1>2 DEF NoSet
<1>5. /\ kept' \in [Pods -> [Orgs -> 0..minted]]
      /\ \A q \in Pods, o \in Orgs :
           kept'[q][o] = IF q = x.pod /\ o = x.org THEN k ELSE kept[q][o]
  BY <1>1, <1>2, <1>4
<1>6. ASSUME NEW t \in Signed(x, k)
      PROVE  /\ t \in Tokens
             /\ t.by = x.org /\ t.set = k
             /\ x.org \in gone => t.late
             /\ t.claims = t.by \/ t.late
  <2>1. CASE x.kind = "issue"
    <3>1. t = [by |-> x.org, set |-> k, claims |-> x.org, late |-> x.org \in gone]
      BY <1>6, <2>1 DEF Signed
    <3>2. (x.org \in gone) \in BOOLEAN
      OBVIOUS
    <3>3. t \in Tokens
      BY <1>4, <3>1, <3>2, Zenon DEF Tokens
    <3>4. QED
      BY <3>1, <3>3
  <2>2. CASE x.kind = "exchange" /\ x.subject.set = k
    <3>1. t = [by |-> x.org, set |-> k, claims |-> x.subject.claims,
               late |-> x.org \in gone \/ x.subject.late]
      BY <1>6, <2>2 DEF Signed
    <3>2. x.subject \in tokens /\ x.subject \in Tokens
      BY <1>2, <2>2
    <3>3. x.subject.claims \in Orgs
      BY <3>2 DEF Tokens
    <3>4. t \in Tokens
      <4>1. (x.org \in gone \/ x.subject.late) \in BOOLEAN
        OBVIOUS
      <4>2. QED
        BY <1>4, <3>1, <3>3, <4>1, Zenon DEF Tokens
    <3>5. t.by = x.org /\ t.set = k /\ t.claims = x.subject.claims
      BY <3>1
    <3>6. t.late <=> x.org \in gone \/ x.subject.late
      BY <3>1
    <3>7. ASSUME x.org \notin gone, ~x.subject.late PROVE x.subject.claims = x.org
      <4>1. x.subject.by \notin gone
        BY <2>2, <3>2, <3>7 DEF Over
      <4>2. x.subject.by = row /\ x.org = row
        BY <1>2, <3>2, <3>7, <4>1, HostedAssumption
           DEF IInv, OriginInv, Known, Tokens
      <4>3. x.subject.claims = x.subject.by
        BY <3>2, <3>7 DEF IInv, IdentitiesStayInTheirOrg
      <4>4. QED
        BY <4>2, <4>3
    <3>8. QED
      BY <3>4, <3>5, <3>6, <3>7
  <2>3. QED
    BY <1>6, <2>1, <2>2 DEF Signed
<1>7. TypeOK'
  BY <1>1, <1>2, <1>3, <1>5, <1>6 DEF IInv, TypeOK, Requested
<1>8. OriginInv'
  BY <1>1, <1>3, <1>5, <1>6, IdleFields DEF IInv, OriginInv, Known
<1>9. FreshInv'
  <2> SUFFICES ASSUME NEW u \in Requests, Unstored(u)'
               PROVE  /\ req'[u].set # NoSet
                      /\ req'[u].set # jwks
                      /\ \A q \in Pods, o \in Orgs : kept'[q][o] # req'[u].set
                      /\ \A t \in tokens' : t.set # req'[u].set
                      /\ \A v \in Requests \ {u} : req'[v].set # req'[u].set
    BY DEF FreshInv
  <2>1. u # r /\ req'[u] = req[u] /\ Unstored(u) /\ req[u].set # k
    BY <1>3, IdleFields DEF Unstored
  <2>2. \A v \in Requests \ {u} : req'[v].set \in {req[v].set, NoSet}
    BY <1>3, IdleFields
  <2>3. \A t \in tokens' : t \in tokens \/ t.set = k
    BY <1>1, <1>6
  <2>4. QED
    BY <1>5, <2>1, <2>2, <2>3 DEF IInv, FreshInv
<1>10. PhaseInv' /\ MintedInv'
  <2>1. PhaseInv'
    BY <1>3, IdleFields DEF IInv, PhaseInv
  <2>2. \A u \in Requests : req'[u].set \in {req[u].set, NoSet}
    BY <1>3, IdleFields
  <2>3. NoSet \in 0..minted
    BY <1>2 DEF NoSet
  <2>4. \A t \in tokens' : t \in tokens \/ t.set = k
    BY <1>1, <1>6
  <2>5. QED
    BY <2>1, <2>2, <2>3, <2>4 DEF IInv, MintedInv
<1>11. OverInv'
  <2> SUFFICES ASSUME NEW t \in tokens', Over(t) PROVE Unreached(t.set)'
    BY DEF OverInv, Over
  <2>1. t \in tokens
    BY <1>1, <1>6 DEF Over
  <2>2. Unreached(t.set) /\ t.set # NoSet
    BY <2>1 DEF IInv, OverInv, MintedInv, NoSet
  <2>3. \A q \in Pods, o \in Orgs \ gone : kept'[q][o] # t.set
    BY <1>5, <2>1, <2>2 DEF Unreached
  <2>4. ASSUME NEW u \in Requests, req'[u].org \notin gone PROVE req'[u].set # t.set
    BY <1>3, <2>2, <2>4, IdleFields DEF Unreached
  <2>5. QED
    BY <2>2, <2>3, <2>4 DEF Unreached
<1>12. SubjectInv' /\ IdentitiesStayInTheirOrg'
  <2>1. SubjectInv'
    BY <1>1, <1>3, IdleFields DEF IInv, SubjectInv
  <2>2. IdentitiesStayInTheirOrg'
    BY <1>1, <1>6 DEF IInv, IdentitiesStayInTheirOrg
  <2>3. QED
    BY <2>1, <2>2
<1>13. QED
  BY <1>7, <1>8, <1>9, <1>10, <1>11, <1>12 DEF IInv

-----------------------------------------------------------------------------
(***************************************************************************)
(* The steps that end a request.                                           *)
(***************************************************************************)
LEMMA StoredFinish ==
  ASSUME IInv, NEW r \in Requests, req[r].phase \in {"selected", "stored"},
         req[r].set # NoSet, Finish(r, req[r], req[r].set),
         UNCHANGED <<row, served, gone, jwks, minted>>
  PROVE  IInv'
<1>1. req[r] \in Requested
  BY DEF IInv, TypeOK, Requested
<1>2. req[r].pod \in Pods /\ req[r].org \in Orgs
  BY <1>1, RequestFields DEF ActiveRequests
<1>3. req[r].set \in 1..minted
  BY HostedAssumption DEF IInv, MintedInv, TypeOK, NoSet
<1>4. \A u \in Requests : Unstored(u) => req[u].set # req[r].set
  BY DEF IInv, FreshInv, Unstored
<1>5. req[r].org \notin gone => \A t \in tokens : Over(t) => t.set # req[r].set
  BY DEF IInv, OverInv, Unreached
<1>6. /\ req[r].org \in Known
      /\ req[r].kind = "exchange" => req[r].subject \in tokens
  BY DEF IInv, OriginInv, SubjectInv
<1>7. QED
  BY <1>2, <1>3, <1>4, <1>5, <1>6, FinishIInv

\* A request whose form is decided differs in its job only.
LEMMA JobFields ==
  ASSUME IInv, NEW r \in Requests, At(r, "body"), NEW x \in Allowed(r)
  PROVE  /\ x \in ActiveRequests
         /\ x.pod = req[r].pod /\ x.org = req[r].org /\ x.set = req[r].set
         /\ x.phase = "body"
         /\ x.kind = "exchange" => x.subject \in tokens
<1>1. req[r] \in ActiveRequests
  BY RequestFields DEF IInv, TypeOK, Requested, At
<1>2. x \in Jobs(r)
  BY DEF Allowed
<1>3. CASE \E kind \in {"issue", "look"} :
             x = [req[r] EXCEPT !.kind = kind, !.subject = NoToken]
  BY <1>1, <1>3 DEF ActiveRequests, Kinds, At
<1>4. CASE \E t \in tokens : x = [req[r] EXCEPT !.kind = "exchange", !.subject = t]
  <2>1. PICK t \in tokens : x = [req[r] EXCEPT !.kind = "exchange", !.subject = t]
    BY <1>4
  <2>2. t \in Tokens
    BY DEF IInv, TypeOK
  <2>3. QED
    BY <1>1, <2>1, <2>2 DEF ActiveRequests, Kinds, At
<1>5. \/ \E kind \in {"issue", "look"} :
           x = [req[r] EXCEPT !.kind = kind, !.subject = NoToken]
      \/ \E t \in tokens : x = [req[r] EXCEPT !.kind = "exchange", !.subject = t]
  <2>1. CASE x \in {[req[r] EXCEPT !.kind = kind, !.subject = NoToken] :
                      kind \in {"issue", "look"}}
    BY <2>1
  <2>2. CASE x \in {[req[r] EXCEPT !.kind = "exchange", !.subject = t] : t \in tokens}
    BY <2>2
  <2>3. QED
    BY <1>2, <2>1, <2>2 DEF Jobs
<1>6. QED
  BY <1>3, <1>4, <1>5

LEMMA DecideIInv == ASSUME IInv, NEW r \in Requests, Decide(r) PROVE IInv'
<1>1. At(r, "body")
  BY DEF Decide
<1>2. PICK x \in Allowed(r) : CacheHit(r, x) \/ CacheMiss(r, x)
  BY DEF Decide
<1>3. /\ x \in ActiveRequests
      /\ x.pod = req[r].pod /\ x.org = req[r].org /\ x.set = req[r].set
      /\ x.phase = "body"
      /\ x.kind = "exchange" => x.subject \in tokens
  BY <1>1, <1>2, JobFields
<1>4. x.org \in Known /\ x.pod \in Pods /\ x.org \in Orgs
  BY <1>3 DEF IInv, OriginInv, ActiveRequests
<1>5. CASE CacheHit(r, x)
  <2> DEFINE k == kept[x.pod][x.org]
  <2>1. /\ k # NoSet /\ Finish(r, x, k)
        /\ UNCHANGED <<row, served, gone, jwks, minted>>
    BY <1>5 DEF CacheHit, orgVars
  <2>2. k \in 1..minted
    BY <1>4, <2>1, HostedAssumption DEF IInv, TypeOK, NoSet
  <2>3. \A u \in Requests : Unstored(u) => req[u].set # k
    BY <1>4 DEF IInv, FreshInv
  <2>4. x.org \notin gone => \A t \in tokens : Over(t) => t.set # k
    BY <1>4 DEF IInv, OverInv, Unreached
  <2> HIDE DEF k
  <2>5. QED
    BY <1>3, <1>4, <2>1, <2>2, <2>3, <2>4, FinishIInv
<1>6. CASE CacheMiss(r, x)
  <2> DEFINE y == [x EXCEPT !.phase = "selecting"]
  <2>1. /\ req' = [req EXCEPT ![r] = y]
        /\ UNCHANGED <<orgVars, jwks, kept, minted, tokens>>
    BY <1>6 DEF CacheMiss
  <2>2. /\ y \in ActiveRequests /\ y.phase = "selecting" /\ y.set = x.set
        /\ y.org = x.org /\ y.kind = x.kind /\ y.subject = x.subject
    BY <1>3 DEF ActiveRequests, Phases
  <2> HIDE DEF y
  <2>3. x.set = NoSet
    BY <1>1, <1>3 DEF IInv, PhaseInv, At
  <2>4. Moves(req[r], y)
    BY <2>2, <2>3 DEF Moves
  <2>5. QED
    BY <1>3, <1>4, <2>1, <2>2, <2>4, OneMoves DEF Requested
<1>7. QED
  BY <1>2, <1>5, <1>6

-----------------------------------------------------------------------------
(***************************************************************************)
(* The life of the orgs.                                                   *)
(***************************************************************************)
LEMMA AdministerIInv == ASSUME IInv, Administer PROVE IInv'
<1>0. /\ UNCHANGED <<jwks, kept, req, minted, tokens>>
      /\ kept \in [Pods -> [Orgs -> 0..minted]] /\ req \in [Requests -> Requested]
      /\ served \in [Pods -> Orgs \cup {NoOrg}]
  BY DEF Administer, IInv, TypeOK, Requested
<1>1. ASSUME NEW o \in Orgs, Life!Appear(o) PROVE IInv'
  <2>1. /\ row = NoOrg /\ o \notin gone /\ row' = o /\ UNCHANGED <<served, gone>>
    BY <1>1 DEF Life!Appear
  <2>2. TypeOK'
    BY <1>0, <2>1 DEF IInv, TypeOK
  <2>3. OriginInv'
    BY <1>0, <2>1 DEF IInv, OriginInv, Known
  <2>4. FreshInv' /\ PhaseInv' /\ MintedInv' /\ SubjectInv' /\ IdentitiesStayInTheirOrg'
    BY <1>0 DEF IInv, FreshInv, Unstored, PhaseInv, MintedInv, SubjectInv,
                IdentitiesStayInTheirOrg
  <2>5. OverInv'
    BY <1>0, <2>1 DEF IInv, OverInv, Over, Unreached
  <2>6. QED
    BY <2>2, <2>3, <2>4, <2>5 DEF IInv
<1>2. ASSUME UNCHANGED <<row, gone>>,
             served' \in [Pods -> Orgs \cup {NoOrg}],
             \A q \in Pods : served'[q] \in Known
      PROVE  IInv'
  <2>1. \A r \in Requests : /\ Moves(req[r], req'[r])
                            /\ req'[r].org \in Known
                            /\ req'[r].kind = "exchange" => req'[r].subject \in tokens
    BY <1>0 DEF Moves, IInv, OriginInv, SubjectInv
  <2>2. QED
    BY <1>0, <1>2, <2>1, MovesIInv
<1>3. ASSUME NEW q \in Pods, Life!Drop(q) PROVE IInv'
  <2>1. served' = [served EXCEPT ![q] = NoOrg] /\ UNCHANGED <<row, gone>>
    BY <1>3 DEF Life!Drop
  <2>2. /\ served' \in [Pods -> Orgs \cup {NoOrg}]
        /\ \A p \in Pods : served'[p] \in Known
    BY <1>0, <2>1 DEF IInv, OriginInv, Known
  <2>3. QED
    BY <1>2, <2>1, <2>2
<1>4. ASSUME NEW q \in Pods, NEW o \in Orgs, Life!Take(q, o) PROVE IInv'
  <2>1. /\ o \in gone \cup {row}
        /\ served' = [served EXCEPT ![q] = o]
        /\ UNCHANGED <<row, gone>>
    BY <1>4 DEF Life!Take
  <2>2. /\ served' \in [Pods -> Orgs \cup {NoOrg}]
        /\ \A p \in Pods : served'[p] \in Known
    BY <1>0, <2>1 DEF IInv, OriginInv, Known
  <2>3. QED
    BY <1>2, <2>1, <2>2
<1>5. QED
  BY <1>1, <1>3, <1>4 DEF Administer

LEMMA DeleteRowIInv == ASSUME IInv, DeleteRow PROVE IInv'
<1>1. /\ row # NoOrg /\ row' = NoOrg /\ gone' = gone \cup {row} /\ jwks' = NoSet
      /\ UNCHANGED <<served, kept, req, minted, tokens>>
  BY DEF DeleteRow, Life!Disappear
<1>2. TypeOK'
  BY <1>1, HostedAssumption DEF IInv, TypeOK, NoSet
<1>3. Known' = Known
  BY <1>1 DEF Known
<1>4. row' \notin gone'
  BY <1>1, HostedAssumption DEF IInv, TypeOK
<1>5. OriginInv'
  BY <1>1, <1>3, <1>4 DEF IInv, OriginInv
<1>6. FreshInv' /\ PhaseInv' /\ MintedInv' /\ SubjectInv' /\ IdentitiesStayInTheirOrg'
  BY <1>1 DEF IInv, FreshInv, Unstored, PhaseInv, MintedInv, SubjectInv,
              IdentitiesStayInTheirOrg
<1>7. OverInv'
  <2> SUFFICES ASSUME NEW t \in tokens PROVE Unreached(t.set)'
    BY <1>1 DEF OverInv
  <2>1. t.set # NoSet
    BY DEF IInv, MintedInv, NoSet
  <2>2. ASSUME NEW q \in Pods, NEW o \in Orgs, o \notin gone' PROVE kept[q][o] = NoSet
    BY <1>1, <2>2, HostedAssumption DEF IInv, OriginInv, Known
  <2>3. ASSUME NEW r \in Requests, req[r].org \notin gone' PROVE req[r].set = NoSet
    <3>1. req[r].org = NoOrg
      BY <1>1, <2>3 DEF IInv, OriginInv, Known
    <3>2. req[r] \in Requested
      BY DEF IInv, TypeOK, Requested
    <3>3. req[r] = Idle
      BY <3>1, <3>2, HostedAssumption DEF Requested, ActiveRequests
    <3>4. QED
      BY <3>3, IdleFields
  <2>4. QED
    BY <1>1, <2>1, <2>2, <2>3 DEF Unreached
<1>8. QED
  BY <1>2, <1>5, <1>6, <1>7 DEF IInv

LEMMA CrashIInv == ASSUME IInv, NEW q \in Pods, Crash(q) PROVE IInv'
<1>1. /\ served' = [served EXCEPT ![q] = NoOrg]
      /\ kept' = [kept EXCEPT ![q] = [k \in Orgs |-> NoSet]]
      /\ UNCHANGED <<row, gone, jwks, minted, tokens>>
  BY DEF Crash, Life!Drop
<1>2. PICK sent \in SUBSET RequestsIn(q) :
        req' = [r \in Requests |->
                  IF r \in RequestsIn(q) THEN GivenUp(req[r], r \in sent) ELSE req[r]]
  BY DEF Crash
<1>3. /\ kept \in [Pods -> [Orgs -> 0..minted]] /\ req \in [Requests -> Requested]
      /\ served \in [Pods -> Orgs \cup {NoOrg}] /\ NoSet \in 0..minted
  BY HostedAssumption DEF IInv, TypeOK, Requested, NoSet
<1>4. /\ kept' \in [Pods -> [Orgs -> 0..minted]]
      /\ \A p \in Pods, k \in Orgs : kept'[p][k] \in {kept[p][k], NoSet}
      /\ served' \in [Pods -> Orgs \cup {NoOrg}]
      /\ \A p \in Pods : served'[p] \in Known
  BY <1>1, <1>3 DEF IInv, OriginInv, Known
<1>5. ASSUME NEW r \in Requests
      PROVE  /\ req'[r] \in Requested
             /\ Moves(req[r], req'[r])
             /\ req'[r].org \in Known
             /\ req'[r].kind = "exchange" => req'[r].subject \in tokens
  <2>1. CASE r \in RequestsIn(q)
    <3>1. req'[r] = GivenUp(req[r], r \in sent) /\ (r \in sent) \in BOOLEAN
      BY <1>2, <2>1
    <3>2. QED
      BY <3>1, GivenUpMoves
  <2>2. CASE r \notin RequestsIn(q)
    <3>1. req'[r] = req[r]
      BY <1>2, <2>2
    <3>2. QED
      BY <1>3, <3>1 DEF Moves, IInv, OriginInv, SubjectInv
  <2>3. QED
    BY <2>1, <2>2
<1>6. req' \in [Requests -> Requested]
  BY <1>2, <1>5
<1>7. QED
  BY <1>1, <1>4, <1>5, <1>6, MovesIInv

-----------------------------------------------------------------------------
LEMMA NextIInv == IInv /\ [Next]_vars => IInv'
<1> SUFFICES ASSUME IInv, [Next]_vars PROVE IInv'
  OBVIOUS
<1>0. /\ req \in [Requests -> Requested] /\ served \in [Pods -> Orgs \cup {NoOrg}]
      /\ jwks \in 0..MaxSets
  BY HostedAssumption DEF IInv, TypeOK, Requested
<1>1. ASSUME NEW r \in Requests, NEW q \in Pods, Arrive(r, q) PROVE IInv'
  <2> DEFINE y == [Idle EXCEPT !.phase = "body", !.pod = q, !.org = served[q]]
  <2>1. /\ req' = [req EXCEPT ![r] = y]
        /\ UNCHANGED <<orgVars, jwks, kept, minted, tokens>>
    BY <1>1, Zenon DEF Arrive
  <2>6. served[q] \in Orgs /\ NoSet \in 0..MaxSets
    BY <1>0, <1>1, HostedAssumption DEF Arrive, NoSet
  <2>2. y \in ActiveRequests
    BY <2>6 DEF ActiveRequests, Phases, Kinds, Idle
  <2>3. /\ y.phase = "body" /\ y.set = NoSet /\ y.kind = "look" /\ y.org = served[q]
    BY DEF Idle
  <2> HIDE DEF y
  <2>4. Moves(req[r], y) /\ y.org \in Known
    BY <2>3 DEF Moves, IInv, OriginInv
  <2>5. QED
    BY <2>1, <2>2, <2>3, <2>4, OneMoves DEF Requested
<1>2. ASSUME NEW r \in Requests, Select(r) PROVE IInv'
  <2> DEFINE y == [req[r] EXCEPT !.phase = "selected", !.set = jwks]
  <2>1. /\ req' = [req EXCEPT ![r] = y] /\ req[r].phase = "selecting"
        /\ UNCHANGED <<orgVars, jwks, kept, minted, tokens>>
    BY <1>2 DEF Select, At
  <2>2. req[r] \in ActiveRequests
    BY <1>0, <2>1, RequestFields
  <2>3. /\ y \in ActiveRequests /\ y.phase = "selected" /\ y.set = jwks
        /\ y.kind = req[r].kind /\ y.subject = req[r].subject /\ y.org = req[r].org
    BY <1>0, <2>2 DEF ActiveRequests, Phases
  <2> HIDE DEF y
  <2>4. Moves(req[r], y) /\ y.org \in Known /\ (y.kind = "exchange" => y.subject \in tokens)
    BY <2>3 DEF Moves, IInv, OriginInv, SubjectInv
  <2>5. QED
    BY <2>1, <2>3, <2>4, OneMoves DEF Requested
<1>3. ASSUME NEW r \in Requests, Fail(r) PROVE IInv'
  <2>1. PICK sent \in BOOLEAN : req' = [req EXCEPT ![r] = GivenUp(req[r], sent)]
    BY <1>3 DEF Fail
  <2>2. UNCHANGED <<orgVars, jwks, kept, minted, tokens>>
    BY <1>3 DEF Fail
  <2>3. QED
    BY <2>1, <2>2, GivenUpMoves, OneMoves
<1>4. ASSUME NEW r \in Requests, Load(r) \/ Remember(r) PROVE IInv'
  <2>1. /\ req[r].phase \in {"selected", "stored"}
        /\ req[r].set # NoSet
        /\ Finish(r, req[r], req[r].set)
        /\ UNCHANGED <<row, served, gone, jwks, minted>>
    BY <1>4 DEF Load, Remember, At, orgVars, IInv, PhaseInv
  <2>2. QED
    BY <2>1, StoredFinish
<1>5. CASE UNCHANGED vars
  BY <1>5 DEF vars, orgVars, IInv, TypeOK, OriginInv, Known, FreshInv, Unstored, PhaseInv,
              MintedInv, OverInv, Over, Unreached, SubjectInv, IdentitiesStayInTheirOrg
<1>6. QED
  BY <1>1, <1>2, <1>3, <1>4, <1>5, AdministerIInv, DeleteRowIInv, CrashIInv, DecideIInv,
     GenerateIInv, UpsertIInv
     DEF Next

LEMMA IInvAlways == Spec => []IInv
  BY InitIInv, NextIInv, PTL DEF Spec

(***************************************************************************)
(* Every reachable state is well typed, for any pods, orgs and requests    *)
(* (hosted.py, _OrgKeyResolver).                                           *)
(***************************************************************************)
THEOREM TypeCorrect == Spec => []TypeOK
<1>1. IInv => TypeOK
  BY DEF IInv
<1>2. QED
  BY <1>1, IInvAlways, PTL

(***************************************************************************)
(* A token that was signed in time dies with its org, in every pod and     *)
(* whichever requests and statements outlive the org (_load_or_create,     *)
(* deregister).                                                            *)
(***************************************************************************)
THEOREM TokensEndWithTheirOrgAlways == Spec => []TokensEndWithTheirOrg
<1>1. IInv => TokensEndWithTheirOrg
  <2> SUFFICES ASSUME IInv, NEW q \in Pods, NEW k \in Orgs \ gone, NEW t \in tokens,
                      kept[q][k] = t.set, ~t.late
               PROVE  t.by = k
    BY DEF TokensEndWithTheirOrg
  <2>1. t.by \notin gone
    BY DEF IInv, OverInv, Over, Unreached
  <2>2. t.by = row
    BY <2>1, HostedAssumption DEF IInv, TypeOK, OriginInv, Known, Tokens
  <2>3. k = row
    BY HostedAssumption DEF IInv, OriginInv, Known, MintedInv, NoSet
  <2>4. QED
    BY <2>2, <2>3
<1>2. QED
  BY <1>1, IInvAlways, PTL

(***************************************************************************)
(* No chain of exchanges that are in time brings an identity of one org    *)
(* into another (hosted_token).                                            *)
(***************************************************************************)
THEOREM IdentitiesStayInTheirOrgAlways == Spec => []IdentitiesStayInTheirOrg
<1>1. IInv => IdentitiesStayInTheirOrg
  BY DEF IInv
<1>2. QED
  BY <1>1, IInvAlways, PTL
=============================================================================
