-------------------------- MODULE IssuerKeysProofs --------------------------
(***************************************************************************)
(* Proofs about IssuerKeys, for every set of issuers and every bound.      *)
(*                                                                         *)
(* The argument.  Whatever a request does to the dictionary is one of a    *)
(* few kinds of growth: some stores are new, some have a new RSA signing   *)
(* key, nothing else moves, and every key that is new has a number nobody  *)
(* has seen (Grows).  The inductive invariant says that a number on a token*)
(* or in a cached set determines the slot it came from, and that a kid in a*)
(* set of this process determines the number.                              *)
(*                                                                         *)
(* For /debug/decode there is OrderInv, that the insertion order has every *)
(* store once, and JoinedList, where each key is in the joined list.       *)
(***************************************************************************)
EXTENDS IssuerKeys, KeyMaterialProofs

(***************************************************************************)
(* The dictionary: every key has its kid and a number in use, no number    *)
(* appears twice, and the insertion order names every store.               *)
(***************************************************************************)
StoresInv ==
  /\ \A i \in DOMAIN stores, s \in Slots :
       /\ stores[i].keys[s].kid = KidOf(i, s, stores[i].seq)
       /\ stores[i].keys[s].mat \in 1..minted
  /\ \A i, j \in DOMAIN stores, s, r \in Slots :
       stores[i].keys[s].mat = stores[j].keys[r].mat => i = j /\ s = r
  /\ \A i \in DOMAIN stores : \E n \in DOMAIN order : order[n] = i

(***************************************************************************)
(* A token whose number some store holds came from that very slot and      *)
(* generation; and a token of this process carries the key of its slot,    *)
(* unless a rotation took the key away.                                    *)
(***************************************************************************)
TokenInv(t) ==
  /\ t.epoch <= epoch
  /\ t.sig.mat <= minted
  /\ t.slot = "none" <=> t.sig.mat = 0
  /\ \A i \in DOMAIN stores, s \in Slots :
       t.sig.mat = stores[i].keys[s].mat
         => /\ t.iss = i
            /\ t.slot = s
            /\ t.epoch = epoch
            /\ s = "signing" => t.gen = stores[i].seq
  /\ t.epoch = epoch =>
       /\ Known(t.iss)
       /\ t.gen <= stores[t.iss].seq
       /\ t.slot \in Slots \ {"signing"} => t.sig = stores[t.iss].keys[t.slot]
       /\ t.slot = "signing" /\ t.gen = stores[t.iss].seq
             => t.sig = stores[t.iss].keys["signing"]

(***************************************************************************)
(* A key set that left the JWKS route of issuer i.                         *)
(***************************************************************************)
KeySetInv(i, ks) ==
  /\ ks.epoch <= epoch
  /\ \A k \in ks.keys :
       /\ k.mat \in 1..minted
       /\ \A j \in DOMAIN stores, s \in Slots :
            k.mat = stores[j].keys[s].mat => i = j /\ s \in Published
       /\ \A t \in tokens :
            k.mat = t.sig.mat => t.iss = i /\ t.slot \in Published
       /\ ks.epoch = epoch =>
            /\ Known(i)
            /\ k.kid.stem = i /\ k.kid.tag = "seq" => k.kid.n <= stores[i].seq
            /\ \A s \in Published :
                 k.kid = stores[i].keys[s].kid => k = stores[i].keys[s]

IInv ==
  /\ TypeOK
  /\ StoresInv
  /\ \A t \in tokens : TokenInv(t)
  /\ \A i \in Issuers : KeySetInv(i, cached[i])
  /\ \A r \in replies : KeySetInv(r.iss, r.set)

-----------------------------------------------------------------------------
(***************************************************************************)
(* The growth of the dictionary in one step.                               *)
(***************************************************************************)
Kept(i, s) ==
  /\ i \in DOMAIN stores
  /\ stores'[i].keys[s] = stores[i].keys[s]
  /\ s = "signing" => stores'[i].seq = stores[i].seq

Fresh(i, s) ==
  /\ stores'[i].keys[s].mat \in (minted + 1)..minted'
  /\ i \in DOMAIN stores => s = "signing" /\ stores'[i].seq = stores[i].seq + 1

Grows ==
  /\ epoch' = epoch
  /\ minted' \in Nat
  /\ minted <= minted'
  /\ DOMAIN stores \subseteq DOMAIN stores'
  /\ DOMAIN stores' \subseteq Issuers
  /\ \A i \in DOMAIN stores' :
       /\ stores'[i] \in Stores
       /\ i \in DOMAIN stores => stores[i].seq <= stores'[i].seq
       /\ \A s \in Slots : Kept(i, s) \/ Fresh(i, s)
       /\ \A s \in Slots : stores'[i].keys[s].kid = KidOf(i, s, stores'[i].seq)
  /\ \A i, j \in DOMAIN stores', s, r \in Slots :
       Fresh(i, s) /\ Fresh(j, r) /\ stores'[i].keys[s].mat = stores'[j].keys[r].mat
         => i = j /\ s = r
  /\ order' \in Seq(Issuers)
  /\ \A i \in DOMAIN stores' : \E n \in DOMAIN order' : order'[n] = i

-----------------------------------------------------------------------------
(***************************************************************************)
(* Looking a store up, rotating one and rotating all are growth.           *)
(***************************************************************************)
LEMMA GotFacts ==
  ASSUME TypeOK, StoresInv, NEW i \in Issuers
  PROVE  /\ Got(i) \in Stores
         /\ MintedByGet(i) \in Nat
         /\ Known(i) => Got(i) = stores[i] /\ MintedByGet(i) = 0
         /\ ~Known(i) => /\ Got(i) = NewStore(i, minted)
                         /\ MintedByGet(i) = SlotsPerStore
         /\ \A s \in Slots : Got(i).keys[s].kid = KidOf(i, s, Got(i).seq)
         /\ \A s \in Slots : Got(i).keys[s].mat \in 1..(minted + MintedByGet(i))
         /\ \A s, r \in Slots :
              Got(i).keys[s].mat = Got(i).keys[r].mat => s = r
<1>1. CASE Known(i)
  BY <1>1 DEF Known, Got, MintedByGet, TypeOK, StoresInv
<1>2. CASE ~Known(i)
  <2>1. minted \in Nat
    BY DEF TypeOK
  <2>2. /\ NewStore(i, minted) \in Stores
        /\ NewStore(i, minted).seq = 1
        /\ \A s \in Slots :
             /\ NewStore(i, minted).keys[s].kid = KidOf(i, s, 1)
             /\ NewStore(i, minted).keys[s].mat
                   \in (minted + 1)..(minted + SlotsPerStore)
        /\ \A s, r \in Slots :
             NewStore(i, minted).keys[s].mat = NewStore(i, minted).keys[r].mat
               => s = r
    BY <2>1, NewStoreFacts
  <2>3. QED
    BY <1>2, <2>1, <2>2 DEF Known, Got, MintedByGet, SlotsPerStore
<1>3. QED
  BY <1>1, <1>2

LEMMA OrderGrows ==
  ASSUME TypeOK, StoresInv, NEW i \in Issuers, NEW st, NEW used, Put(i, st, used)
  PROVE  /\ order' \in Seq(Issuers)
         /\ DOMAIN stores' = DOMAIN stores \cup {i}
         /\ \A j \in DOMAIN stores' : \E n \in DOMAIN order' : order'[n] = j
<1>1. DOMAIN stores' = DOMAIN stores \cup {i}
  BY DEF Put
<1>2. CASE Known(i)
  BY <1>1, <1>2 DEF Put, Known, TypeOK, StoresInv
<1>3. CASE ~Known(i)
  <2>1. order' = Append(order, i) /\ order \in Seq(Issuers)
    BY <1>3 DEF Put, TypeOK
  <2>2. order' \in Seq(Issuers) /\ DOMAIN order' = 1..(Len(order) + 1)
    BY <2>1
  <2>3. order'[Len(order) + 1] = i /\ Len(order) + 1 \in DOMAIN order'
    BY <2>1, <2>2
  <2>4. \A n \in DOMAIN order : n \in DOMAIN order' /\ order'[n] = order[n]
    BY <2>1, <2>2
  <2>5. QED
    BY <1>1, <2>2, <2>3, <2>4 DEF StoresInv
<1>4. QED
  BY <1>2, <1>3

LEMMA GetGrows ==
  ASSUME TypeOK, StoresInv, NEW i \in Issuers, Get(i), epoch' = epoch
  PROVE  Grows /\ Known(i)' /\ stores'[i] = Got(i)
<1>1. /\ stores' = [j \in DOMAIN stores \cup {i} |-> IF j = i THEN Got(i) ELSE stores[j]]
      /\ minted' = minted + MintedByGet(i)
  BY DEF Get, Put
<1>2. /\ order' \in Seq(Issuers)
      /\ \A j \in DOMAIN stores' : \E n \in DOMAIN order' : order'[n] = j
  BY OrderGrows DEF Get
<1>3. minted \in Nat /\ minted' \in Nat /\ minted <= minted'
  BY <1>1, GotFacts DEF TypeOK
<1>4. DOMAIN stores \subseteq DOMAIN stores' /\ DOMAIN stores' \subseteq Issuers
  BY <1>1 DEF TypeOK
<1>5. stores'[i] = Got(i) /\ \A j \in DOMAIN stores : stores'[j] = stores[j]
  BY <1>1, GotFacts DEF Known
<1>6. \A j \in DOMAIN stores' :
        /\ stores'[j] \in Stores
        /\ \A s \in Slots : stores'[j].keys[s].kid = KidOf(j, s, stores'[j].seq)
        /\ j \in DOMAIN stores => stores[j].seq <= stores'[j].seq
        /\ \A s \in Slots : Kept(j, s) \/ Fresh(j, s)
  <2> SUFFICES ASSUME NEW j \in DOMAIN stores'
               PROVE  /\ stores'[j] \in Stores
                      /\ \A s \in Slots : stores'[j].keys[s].kid = KidOf(j, s, stores'[j].seq)
                      /\ j \in DOMAIN stores => stores[j].seq <= stores'[j].seq
                      /\ \A s \in Slots : Kept(j, s) \/ Fresh(j, s)
    OBVIOUS
  <2>1. CASE j \in DOMAIN stores
    BY <1>5, <2>1 DEF TypeOK, StoresInv, Kept, Stores
  <2>2. CASE j \notin DOMAIN stores
    <3>1. j = i /\ ~Known(i)
      BY <1>1, <2>2 DEF Known
    <3>2. \A s \in Slots : Got(i).keys[s].mat \in (minted + 1)..minted'
      BY <1>1, <1>3, <3>1, GotFacts, NewStoreFacts
    <3>3. QED
      BY <1>5, <2>2, <3>1, <3>2, GotFacts DEF Fresh
  <2>3. QED
    BY <2>1, <2>2
<1>7. \A j, k \in DOMAIN stores', s, r \in Slots :
        Fresh(j, s) /\ Fresh(k, r) /\ stores'[j].keys[s].mat = stores'[k].keys[r].mat
          => j = k /\ s = r
  <2>1. \A j \in DOMAIN stores', s \in Slots : Fresh(j, s) => j = i
    <3>1. \A j \in DOMAIN stores, s \in Slots : stores[j].keys[s].mat \in 1..minted
      BY DEF StoresInv
    <3>2. QED
      BY <1>1, <1>3, <1>5, <3>1 DEF Fresh
  <2>2. QED
    BY <1>5, <2>1, GotFacts
<1>8. QED
  BY <1>2, <1>3, <1>4, <1>5, <1>6, <1>7, <1>1 DEF Grows, Known

LEMMA RotateIssuerGrows ==
  ASSUME TypeOK, StoresInv, NEW i \in Issuers, RotateIssuer(i)
  PROVE  Grows
<1> DEFINE used == MintedByGet(i)
           new  == Rotated(i, Got(i), minted + used)
<1>1. /\ stores' = [j \in DOMAIN stores \cup {i} |-> IF j = i THEN new ELSE stores[j]]
      /\ minted' = minted + (used + 1)
      /\ epoch' = epoch
  BY DEF RotateIssuer, Put
<1>2. /\ order' \in Seq(Issuers)
      /\ \A j \in DOMAIN stores' : \E n \in DOMAIN order' : order'[n] = j
  BY OrderGrows DEF RotateIssuer
<1>3. minted \in Nat /\ used \in Nat /\ Got(i) \in Stores
  BY GotFacts DEF TypeOK
<1>4. /\ new \in Stores
      /\ new.seq = Got(i).seq + 1
      /\ new.keys["signing"].kid = KidOf(i, "signing", Got(i).seq + 1)
      /\ new.keys["signing"].mat = minted + used + 1
      /\ \A s \in Slots \ {"signing"} : new.keys[s] = Got(i).keys[s]
  BY <1>3, RotatedFacts
<1>5. \A s \in Slots : new.keys[s].kid = KidOf(i, s, new.seq)
  <2>1. \A s \in Slots \ {"signing"} :
          KidOf(i, s, Got(i).seq) = KidOf(i, s, Got(i).seq + 1)
    BY KidOfOtherSlots
  <2>2. QED
    BY <1>4, <2>1, GotFacts
<1>6. stores'[i] = new /\ \A j \in DOMAIN stores : j # i => stores'[j] = stores[j]
  BY <1>1
<1>7. \A j \in DOMAIN stores' :
        /\ stores'[j] \in Stores
        /\ \A s \in Slots : stores'[j].keys[s].kid = KidOf(j, s, stores'[j].seq)
        /\ j \in DOMAIN stores => stores[j].seq <= stores'[j].seq
        /\ \A s \in Slots : Kept(j, s) \/ Fresh(j, s)
  <2> SUFFICES ASSUME NEW j \in DOMAIN stores'
               PROVE  /\ stores'[j] \in Stores
                      /\ \A s \in Slots : stores'[j].keys[s].kid = KidOf(j, s, stores'[j].seq)
                      /\ j \in DOMAIN stores => stores[j].seq <= stores'[j].seq
                      /\ \A s \in Slots : Kept(j, s) \/ Fresh(j, s)
    OBVIOUS
  <2>1. CASE j # i
    BY <1>1, <1>6, <2>1 DEF TypeOK, StoresInv, Kept, Stores
  <2>2. CASE j = i /\ Known(i)
    BY <1>1, <1>3, <1>4, <1>5, <1>6, <2>2, GotFacts DEF Kept, Fresh, Stores, Known
  <2>3. CASE j = i /\ ~Known(i)
    <3>1. \A s \in Slots : new.keys[s].mat \in (minted + 1)..minted'
      BY <1>1, <1>3, <1>4, <2>3, GotFacts, NewStoreFacts
    <3>2. QED
      BY <1>4, <1>5, <1>6, <2>3, <3>1 DEF Fresh, Known
  <2>4. QED
    BY <2>1, <2>2, <2>3
<1>8. \A j, k \in DOMAIN stores', s, r \in Slots :
        Fresh(j, s) /\ Fresh(k, r) /\ stores'[j].keys[s].mat = stores'[k].keys[r].mat
          => j = k /\ s = r
  <2>1. \A j \in DOMAIN stores', s \in Slots : Fresh(j, s) => j = i
    <3>1. \A j \in DOMAIN stores, s \in Slots : stores[j].keys[s].mat \in 1..minted
      BY DEF StoresInv
    <3>2. QED
      BY <1>1, <1>3, <1>6, <3>1 DEF Fresh
  <2>2. \A s, r \in Slots : new.keys[s].mat = new.keys[r].mat => s = r
    BY <1>3, <1>4, GotFacts
  <2>3. QED
    BY <1>6, <2>1, <2>2
<1>9. minted' \in Nat /\ minted <= minted'
  BY <1>1, <1>3
<1>10. DOMAIN stores \subseteq DOMAIN stores' /\ DOMAIN stores' \subseteq Issuers
  BY <1>1 DEF TypeOK
<1> HIDE DEF new, used
<1>11. QED
  BY <1>1, <1>2, <1>7, <1>8, <1>9, <1>10 DEF Grows

LEMMA RotateAllGrows ==
  ASSUME TypeOK, StoresInv, RotateAll
  PROVE  Grows
<1> DEFINE new(i) == Rotated(i, stores[i], minted + Position(i) - 1)
<1>1. /\ stores' = [i \in DOMAIN stores |-> new(i)]
      /\ minted' = minted + Len(order)
      /\ epoch' = epoch
      /\ order' = order
  BY DEF RotateAll
<1>2. minted \in Nat /\ Len(order) \in Nat /\ DOMAIN order = 1..Len(order)
  BY DEF TypeOK
<1>3. \A i \in DOMAIN stores : Position(i) \in 1..Len(order) /\ order[Position(i)] = i
  BY <1>2 DEF Position, StoresInv
<1>4. ASSUME NEW i \in DOMAIN stores
      PROVE  /\ new(i) \in Stores
             /\ new(i).seq = stores[i].seq + 1
             /\ new(i).keys["signing"].kid = KidOf(i, "signing", stores[i].seq + 1)
             /\ new(i).keys["signing"].mat = minted + Position(i)
             /\ \A s \in Slots \ {"signing"} : new(i).keys[s] = stores[i].keys[s]
  <2>1. minted + Position(i) - 1 \in Nat /\ Position(i) \in Nat
    BY <1>2, <1>3
  <2>2. stores[i] \in Stores /\ i \in Issuers
    BY DEF TypeOK
  <2>3. /\ new(i) \in Stores
        /\ new(i).seq = stores[i].seq + 1
        /\ new(i).keys["signing"].kid = KidOf(i, "signing", stores[i].seq + 1)
        /\ new(i).keys["signing"].mat = minted + Position(i) - 1 + 1
        /\ \A s \in Slots \ {"signing"} : new(i).keys[s] = stores[i].keys[s]
    BY <2>1, <2>2, RotatedFacts
  <2> HIDE DEF new
  <2>4. minted + Position(i) - 1 + 1 = minted + Position(i)
    BY <1>2, <2>1
  <2>5. QED
    BY <2>3, <2>4
<1>5. ASSUME NEW i \in DOMAIN stores'
      PROVE  /\ stores'[i] \in Stores
             /\ stores[i].seq <= stores'[i].seq
             /\ \A s \in Slots : stores'[i].keys[s].kid = KidOf(i, s, stores'[i].seq)
             /\ Fresh(i, "signing")
             /\ \A s \in Slots \ {"signing"} : Kept(i, s)
  <2>1. i \in DOMAIN stores /\ stores'[i] = new(i) /\ stores[i] \in Stores
    BY <1>1 DEF TypeOK
  <2>2. \A s \in Slots : stores'[i].keys[s].kid = KidOf(i, s, stores'[i].seq)
    <3>1. \A s \in Slots \ {"signing"} :
            KidOf(i, s, stores[i].seq) = KidOf(i, s, stores[i].seq + 1)
      BY KidOfOtherSlots
    <3>2. QED
      BY <1>4, <2>1, <3>1 DEF StoresInv
  <2>3. QED
    BY <1>1, <1>2, <1>3, <1>4, <2>1, <2>2 DEF Kept, Fresh, Stores
<1>6. \A i, j \in DOMAIN stores', s, r \in Slots :
        Fresh(i, s) /\ Fresh(j, r) /\ stores'[i].keys[s].mat = stores'[j].keys[r].mat
          => i = j /\ s = r
  <2> SUFFICES ASSUME NEW i \in DOMAIN stores', NEW j \in DOMAIN stores',
                      NEW s \in Slots, NEW r \in Slots,
                      Fresh(i, s), Fresh(j, r),
                      stores'[i].keys[s].mat = stores'[j].keys[r].mat
               PROVE  i = j /\ s = r
    OBVIOUS
  <2>1. i \in DOMAIN stores /\ j \in DOMAIN stores /\ s = "signing" /\ r = "signing"
    BY <1>1 DEF Fresh
  <2>2. minted + Position(i) = minted + Position(j)
    BY <1>1, <1>4, <2>1
  <2>3. QED
    BY <1>2, <1>3, <2>1, <2>2
<1>7. QED
  BY <1>1, <1>2, <1>5, <1>6 DEF Grows, TypeOK, StoresInv

-----------------------------------------------------------------------------
(***************************************************************************)
(* Growth keeps the invariant of the dictionary, of a token and of a key   *)
(* set that was there before.                                              *)
(***************************************************************************)
LEMMA GrowsStoresInv ==
  ASSUME TypeOK, StoresInv, Grows
  PROVE  StoresInv'
<1>1. minted \in Nat /\ minted' \in Nat /\ minted <= minted'
  BY DEF TypeOK, Grows
<1>2. ASSUME NEW i \in DOMAIN stores', NEW s \in Slots
      PROVE  /\ stores'[i].keys[s].kid = KidOf(i, s, stores'[i].seq)
             /\ Kept(i, s) => stores'[i].keys[s].mat \in 1..minted
             /\ stores'[i].keys[s].mat \in 1..minted'
  BY <1>1 DEF Grows, StoresInv, Kept, Fresh
<1>3. ASSUME NEW i \in DOMAIN stores', NEW j \in DOMAIN stores',
             NEW s \in Slots, NEW r \in Slots,
             stores'[i].keys[s].mat = stores'[j].keys[r].mat
      PROVE  i = j /\ s = r
  <2>1. CASE Kept(i, s) /\ Kept(j, r)
    BY <1>3, <2>1 DEF Kept, StoresInv
  <2>2. CASE Fresh(i, s) /\ Fresh(j, r)
    BY <1>3, <2>2 DEF Grows
  <2>3. CASE Kept(i, s) /\ Fresh(j, r)
    BY <1>1, <1>2, <1>3, <2>3 DEF Fresh
  <2>4. CASE Fresh(i, s) /\ Kept(j, r)
    BY <1>1, <1>2, <1>3, <2>4 DEF Fresh
  <2>5. QED
    BY <2>1, <2>2, <2>3, <2>4 DEF Grows
<1>4. \A i \in DOMAIN stores' : \E n \in DOMAIN order' : order'[n] = i
  BY DEF Grows
<1>5. QED
  BY <1>2, <1>3, <1>4 DEF StoresInv

LEMMA GrowsTokenInv ==
  ASSUME TypeOK, StoresInv, Grows, NEW t \in Tokens, TokenInv(t)
  PROVE  TokenInv(t)'
<1>1. /\ minted \in Nat /\ minted' \in Nat /\ minted <= minted'
      /\ epoch' = epoch
      /\ t.sig.mat \in Nat /\ t.gen \in Nat
  BY DEF TypeOK, Grows, Tokens, Sigs
<1>2. ASSUME NEW i \in DOMAIN stores', NEW s \in Slots,
             t.sig.mat = stores'[i].keys[s].mat
      PROVE  /\ t.iss = i /\ t.slot = s /\ t.epoch = epoch'
             /\ s = "signing" => t.gen = stores'[i].seq
  <2>1. CASE Kept(i, s)
    BY <1>1, <1>2, <2>1 DEF Kept, TokenInv
  <2>2. CASE Fresh(i, s)
    BY <1>1, <1>2, <2>2 DEF Fresh, TokenInv
  <2>3. QED
    BY <2>1, <2>2 DEF Grows
<1>3. ASSUME t.epoch = epoch'
      PROVE  /\ Known(t.iss)'
             /\ t.gen <= stores'[t.iss].seq
             /\ t.slot \in Slots \ {"signing"} => t.sig = stores'[t.iss].keys[t.slot]
             /\ t.slot = "signing" /\ t.gen = stores'[t.iss].seq
                   => t.sig = stores'[t.iss].keys["signing"]
  <2> DEFINE i == t.iss
  <2>1. /\ i \in DOMAIN stores /\ i \in DOMAIN stores'
        /\ t.gen <= stores[i].seq
        /\ stores[i].seq <= stores'[i].seq
        /\ stores[i].seq \in Nat /\ stores'[i].seq \in Nat
    BY <1>1, <1>3 DEF TokenInv, Grows, Known, Stores, TypeOK
  <2>2. \A s \in Slots \ {"signing"} : stores'[i].keys[s] = stores[i].keys[s]
    BY <2>1 DEF Grows, Kept, Fresh
  <2>3. stores'[i].seq = stores[i].seq => stores'[i].keys["signing"] = stores[i].keys["signing"]
    <3>1. "signing" \in Slots
      BY DEF Slots
    <3>2. QED
      BY <2>1, <3>1 DEF Grows, Kept, Fresh
  <2>4. t.gen = stores'[i].seq => t.gen = stores[i].seq /\ stores'[i].seq = stores[i].seq
    BY <1>1, <2>1
  <2>5. QED
    BY <1>1, <1>3, <2>1, <2>2, <2>3, <2>4 DEF TokenInv, Known
<1>4. QED
  BY <1>1, <1>2, <1>3 DEF TokenInv

(***************************************************************************)
(* A token that a step adds carries no key, or one the dictionary has now. *)
(***************************************************************************)
AddedTokens ==
  \A t \in tokens' :
     \/ t \in tokens
     \/ t.sig.mat = 0
     \/ /\ t.slot \in Slots
        /\ t.iss \in DOMAIN stores'
        /\ t.sig.mat = stores'[t.iss].keys[t.slot].mat

LEMMA GrowsKeySetInv ==
  ASSUME TypeOK, StoresInv, Grows, AddedTokens,
         NEW i \in Issuers, NEW ks \in KeySets, KeySetInv(i, ks)
  PROVE  KeySetInv(i, ks)'
<1>1. /\ minted \in Nat /\ minted' \in Nat /\ minted <= minted'
      /\ epoch' = epoch
  BY DEF TypeOK, Grows
<1> SUFFICES ASSUME NEW k \in ks.keys
             PROVE  /\ k.mat \in 1..minted'
                    /\ \A j \in DOMAIN stores', s \in Slots :
                         k.mat = stores'[j].keys[s].mat => i = j /\ s \in Published
                    /\ \A t \in tokens' :
                         k.mat = t.sig.mat => t.iss = i /\ t.slot \in Published
                    /\ ks.epoch = epoch' =>
                         /\ Known(i)'
                         /\ k.kid.stem = i /\ k.kid.tag = "seq"
                               => k.kid.n <= stores'[i].seq
                         /\ \A s \in Published :
                              k.kid = stores'[i].keys[s].kid => k = stores'[i].keys[s]
  BY <1>1 DEF KeySetInv
<1>2. k.mat \in 1..minted /\ k \in Keys
  BY DEF KeySetInv, KeySets
<1>3. ASSUME NEW j \in DOMAIN stores', NEW s \in Slots, k.mat = stores'[j].keys[s].mat
      PROVE  i = j /\ s \in Published
  <2>1. CASE Kept(j, s)
    BY <1>3, <2>1 DEF Kept, KeySetInv
  <2>2. CASE Fresh(j, s)
    BY <1>1, <1>2, <1>3, <2>2 DEF Fresh
  <2>3. QED
    BY <2>1, <2>2 DEF Grows
<1>4. ASSUME NEW t \in tokens', k.mat = t.sig.mat
      PROVE  t.iss = i /\ t.slot \in Published
  BY <1>2, <1>3, <1>4 DEF AddedTokens, KeySetInv
<1>5. ASSUME ks.epoch = epoch'
      PROVE  /\ Known(i)'
             /\ k.kid.stem = i /\ k.kid.tag = "seq" => k.kid.n <= stores'[i].seq
             /\ \A s \in Published :
                  k.kid = stores'[i].keys[s].kid => k = stores'[i].keys[s]
  <2>1. /\ i \in DOMAIN stores /\ i \in DOMAIN stores'
        /\ stores[i].seq <= stores'[i].seq
        /\ stores[i].seq \in Nat /\ stores'[i].seq \in Nat
        /\ k.kid.n \in Nat
    BY <1>1, <1>2, <1>5 DEF KeySetInv, Grows, Known, Stores, TypeOK, Keys, Kids
  <2>2. k.kid.stem = i /\ k.kid.tag = "seq" => k.kid.n <= stores[i].seq
    BY <1>1, <1>5 DEF KeySetInv
  <2>3. ASSUME NEW s \in Published, k.kid = stores'[i].keys[s].kid
        PROVE  k = stores'[i].keys[s]
    <3>1. s \in Slots
      BY DEF Published, Slots
    <3>2. CASE Kept(i, s)
      BY <1>1, <1>5, <2>3, <3>2 DEF Kept, KeySetInv
    <3>3. CASE Fresh(i, s)
      <4>1. s = "signing" /\ stores'[i].seq = stores[i].seq + 1
        BY <2>1, <3>3 DEF Fresh
      <4>2. stores'[i].keys["signing"].kid = Kid(i, "seq", stores'[i].seq)
        BY <2>1, <3>1, <4>1 DEF Grows, KidOf
      <4>3. QED
        BY <2>1, <2>2, <2>3, <4>1, <4>2 DEF Kid
    <3>4. QED
      BY <2>1, <3>1, <3>2, <3>3 DEF Grows
  <2>4. QED
    BY <2>1, <2>2, <2>3 DEF Known
<1>6. QED
  BY <1>1, <1>2, <1>3, <1>4, <1>5

-----------------------------------------------------------------------------
(***************************************************************************)
(* What a step adds: a token just signed, and a key set just served.       *)
(***************************************************************************)


LEMMA IssuedTokenInv ==
  ASSUME TypeOK, StoresInv, NEW i \in Issuers, Get(i), epoch' = epoch,
         NEW slot \in TokenSlots, NEW sig \in Sigs,
         \/ slot = "none" /\ sig = Unsigned(i)
         \/ slot \in Slots /\ sig = SignedBy(Got(i).keys[slot]),
         NEW t,
         t = [iss |-> i, slot |-> slot, gen |-> Got(i).seq,
              epoch |-> epoch, sig |-> sig]
  PROVE  /\ t \in Tokens
         /\ TokenInv(t)'
         /\ \/ t.sig.mat = 0
            \/ /\ t.slot \in Slots
               /\ t.iss \in DOMAIN stores'
               /\ t.sig.mat = stores'[t.iss].keys[t.slot].mat
<1>1. Grows /\ i \in DOMAIN stores' /\ stores'[i] = Got(i)
  BY GetGrows DEF Known
<1>2. StoresInv'
  BY <1>1, GrowsStoresInv
<1>3. Got(i) \in Stores /\ Got(i).seq \in Nat /\ epoch \in Nat /\ minted' \in Nat
  BY <1>1, GotFacts DEF Stores, TypeOK, Grows
<1>4. t \in Tokens
  BY <1>3 DEF Tokens
<1>5. \A j \in DOMAIN stores', s \in Slots : stores'[j].keys[s].mat \in 1..minted'
  BY <1>2 DEF StoresInv
<1>6. CASE slot = "none"
  <2>1. sig.mat = 0
    BY <1>6 DEF Unsigned, Slots
  <2>2. TokenInv(t)'
    BY <1>1, <1>3, <1>5, <1>6, <2>1 DEF TokenInv, Known, Slots
  <2>3. QED
    BY <1>4, <2>1, <2>2
<1>7. CASE slot # "none"
  <2>1. slot \in Slots /\ sig.mat = stores'[i].keys[slot].mat /\ sig.kid = stores'[i].keys[slot].kid
    BY <1>1, <1>7 DEF SignedBy
  <2>2. sig = stores'[i].keys[slot]
    BY <1>1, <1>3, <2>1 DEF Sigs, Stores, Keys
  <2>3. \A j \in DOMAIN stores', s \in Slots :
          sig.mat = stores'[j].keys[s].mat => i = j /\ s = slot
    <3>1. \A k, j \in DOMAIN stores', r, s \in Slots :
            stores'[k].keys[r].mat = stores'[j].keys[s].mat => k = j /\ r = s
      BY <1>2 DEF StoresInv
    <3>2. i \in DOMAIN stores' /\ slot \in Slots /\ sig.mat = stores'[i].keys[slot].mat
      BY <1>1, <2>1
    <3>3. ASSUME NEW j \in DOMAIN stores', NEW s \in Slots,
                 sig.mat = stores'[j].keys[s].mat
          PROVE  i = j /\ s = slot
      <4>1. stores'[i].keys[slot].mat = stores'[j].keys[s].mat
        BY <3>2, <3>3
      <4>2. QED
        BY <3>1, <3>2, <4>1
    <3>4. QED
      BY <3>3
  <2>4. /\ t.epoch = epoch' /\ t.sig = sig /\ t.slot = slot /\ t.iss = i
        /\ t.gen = stores'[i].seq /\ sig.mat \in 1..minted'
    BY <1>1, <1>5, <2>1
  <2>5. t.epoch <= epoch' /\ t.sig.mat <= minted' /\ (t.slot = "none" <=> t.sig.mat = 0)
    BY <1>3, <1>7, <2>4
  <2>6. TokenInv(t)'
    BY <1>1, <1>3, <2>1, <2>2, <2>3, <2>4, <2>5 DEF TokenInv, Known
  <2>7. QED
    BY <1>1, <1>4, <2>1, <2>4, <2>6
<1>8. QED
  BY <1>6, <1>7

LEMMA ServedKeySetInv ==
  ASSUME IInv, NEW i \in Issuers, Get(i), epoch' = epoch, tokens' = tokens,
         NEW ks, ks = [epoch |-> epoch, keys |-> ToSet(JwksKeys(Got(i)))]
  PROVE  ks \in KeySets /\ KeySetInv(i, ks)'
<1>1. TypeOK /\ StoresInv
  BY DEF IInv
<1>2. Grows /\ i \in DOMAIN stores' /\ stores'[i] = Got(i)
  BY <1>1, GetGrows DEF Known
<1>3. StoresInv' /\ Got(i) \in Stores /\ epoch \in Nat
  BY <1>1, <1>2, GrowsStoresInv, GotFacts DEF TypeOK
<1>4. ASSUME NEW k \in ks.keys
      PROVE  k \in Keys /\ \E s \in Published : k = stores'[i].keys[s]
  <2>1. PICK n \in 1..4 : k = JwksKeys(Got(i))[n]
    BY <1>3, JwksKeysOfStore DEF ToSet
  <2>2. QED
    BY <1>2, <1>3, <2>1, JwksKeysOfStore DEF Published
<1>5. ks \in KeySets
  BY <1>3, <1>4 DEF KeySets
<1>6. ASSUME NEW k \in ks.keys
      PROVE  /\ k.mat \in 1..minted'
             /\ \A j \in DOMAIN stores', s \in Slots :
                  k.mat = stores'[j].keys[s].mat => i = j /\ s \in Published
             /\ \A t \in tokens' :
                  k.mat = t.sig.mat => t.iss = i /\ t.slot \in Published
             /\ k.kid.stem = i /\ k.kid.tag = "seq" => k.kid.n <= stores'[i].seq
             /\ \A s \in Published :
                  k.kid = stores'[i].keys[s].kid => k = stores'[i].keys[s]
  <2>1. PICK s \in Published : k = stores'[i].keys[s]
    BY <1>4
  <2>2. s \in Slots /\ \A r \in Published : r \in Slots
    BY DEF Published, Slots
  <2>3. \A t \in tokens' : k.mat = t.sig.mat => t.iss = i /\ t.slot = s
    <3>1. \A t \in tokens : t \in Tokens /\ TokenInv(t)
      BY DEF IInv, TypeOK
    <3>2. \A t \in tokens : TokenInv(t)'
      BY <1>1, <1>2, <3>1, GrowsTokenInv
    <3>3. QED
      BY <1>2, <2>1, <2>2, <3>2 DEF TokenInv
  <2>4. \A r \in Slots : stores'[i].keys[r].kid = KidOf(i, r, stores'[i].seq)
    BY <1>2, <1>3 DEF StoresInv
  <2>5. stores'[i].seq \in Nat \ {0}
    BY <1>2, <1>3 DEF Stores
  <2>6. k.kid.stem = i /\ k.kid.tag = "seq" => k.kid.n <= stores'[i].seq
    BY <2>1, <2>2, <2>4, <2>5, NamesAssumption DEF KidOf, Kid, Published
  <2>7. \A r \in Published : k.kid = stores'[i].keys[r].kid => r = s
    BY <2>1, <2>2, <2>4, NamesAssumption DEF KidOf, Kid, Published
  <2>8. QED
    BY <1>2, <1>3, <2>1, <2>2, <2>3, <2>6, <2>7 DEF StoresInv
<1>7. ks.epoch <= epoch' /\ Known(i)'
  BY <1>2, <1>3 DEF Known, Grows
<1>8. KeySetInv(i, ks)'
  BY <1>6, <1>7 DEF KeySetInv
<1>9. QED
  BY <1>5, <1>8

-----------------------------------------------------------------------------
(***************************************************************************)
(* The inductive invariant holds initially and every step keeps it.        *)
(***************************************************************************)
LEMMA InitIInv == Init => IInv
<1> SUFFICES ASSUME Init PROVE IInv
  OBVIOUS
<1>1. DOMAIN stores = {} /\ order = <<>> /\ minted = 0 /\ epoch = 0
      /\ tokens = {} /\ replies = {}
  BY DEF Init
<1>2. \A i \in Issuers : cached[i] = [epoch |-> 0, keys |-> {}]
  BY DEF Init
<1>3. TypeOK
  <2>1. cached \in [Issuers -> KeySets]
    BY DEF Init, KeySets
  <2>2. QED
    BY <1>1, <2>1 DEF TypeOK
<1>4. QED
  BY <1>1, <1>2, <1>3 DEF IInv, StoresInv, KeySetInv

\* Growth that adds good tokens and good replies, and may leave the cache.
LEMMA GrowsIInv ==
  ASSUME IInv, Grows, AddedTokens,
         tokens' \subseteq Tokens,
         \A t \in tokens' : t \in tokens \/ TokenInv(t)',
         replies' \subseteq [iss : Issuers, set : KeySets],
         \A r \in replies' : r \in replies \/ KeySetInv(r.iss, r.set)',
         cached' = cached
  PROVE  IInv'
<1>1. TypeOK /\ StoresInv
  BY DEF IInv
<1>2. TypeOK'
  BY <1>1 DEF TypeOK, Grows
<1>3. StoresInv'
  BY <1>1, GrowsStoresInv
<1>4. \A t \in tokens' : TokenInv(t)'
  <2>1. \A t \in tokens : t \in Tokens /\ TokenInv(t)
    BY DEF IInv, TypeOK
  <2>2. QED
    BY <1>1, <2>1, GrowsTokenInv
<1>5. \A i \in Issuers : KeySetInv(i, cached[i])'
  <2> SUFFICES ASSUME NEW i \in Issuers
               PROVE  KeySetInv(i, cached[i])'
    OBVIOUS
  <2>1. PICK ks \in KeySets : ks = cached[i]
    BY <1>1 DEF TypeOK
  <2>2. KeySetInv(i, ks)'
    BY <1>1, <2>1, GrowsKeySetInv DEF IInv
  <2>3. QED
    BY <2>1, <2>2
<1>6. \A r \in replies' : KeySetInv(r.iss, r.set)'
  <2>1. \A r \in replies : r.iss \in Issuers /\ r.set \in KeySets /\ KeySetInv(r.iss, r.set)
    BY DEF IInv, TypeOK
  <2>2. QED
    BY <1>1, <2>1, GrowsKeySetInv
<1>7. QED
  BY <1>2, <1>3, <1>4, <1>5, <1>6 DEF IInv

LEMMA IssueIInv ==
  ASSUME IInv, NEW i \in Issuers, NEW slot \in TokenSlots, NEW sig \in Sigs,
         Issue(i, slot, sig),
         \/ slot = "none" /\ sig = Unsigned(i)
         \/ slot \in Slots /\ sig = SignedBy(Got(i).keys[slot])
  PROVE  IInv'
<1>1. TypeOK /\ StoresInv /\ Get(i) /\ epoch' = epoch
  BY DEF IInv, Issue
<1>2. PICK t : t = [iss |-> i, slot |-> slot, gen |-> Got(i).seq,
                    epoch |-> epoch, sig |-> sig]
  OBVIOUS
<1>3. tokens' = tokens \cup {t}
  BY <1>2 DEF Issue
<1>4. /\ t \in Tokens
      /\ TokenInv(t)'
      /\ \/ t.sig.mat = 0
         \/ /\ t.slot \in Slots
            /\ t.iss \in DOMAIN stores'
            /\ t.sig.mat = stores'[t.iss].keys[t.slot].mat
  BY <1>1, <1>2, IssuedTokenInv
<1>5. Grows /\ AddedTokens
  BY <1>1, <1>3, <1>4, GetGrows DEF AddedTokens
<1>6. cached' = cached /\ replies' = replies
  BY DEF Issue
<1>7. QED
  BY <1>1, <1>3, <1>4, <1>5, <1>6, GrowsIInv DEF TypeOK

LEMMA SignedSigs ==
  ASSUME TypeOK, StoresInv, NEW i \in Issuers, NEW slot \in Slots
  PROVE  SignedBy(Got(i).keys[slot]) \in Sigs
  BY GotFacts DEF SignedBy, Sigs, Stores, Keys

LEMMA NextIInv == IInv /\ [Next]_vars => IInv'
<1> SUFFICES ASSUME IInv, [Next]_vars PROVE IInv'
  OBVIOUS
<1>1. TypeOK /\ StoresInv
  BY DEF IInv
<1>2. ASSUME NEW i \in Issuers, NEW alg \in Algs, SignToken(i, alg) PROVE IInv'
  <2>1. SigningSlot(alg) \in Slots /\ SigningSlot(alg) \in TokenSlots
    BY DEF SigningSlot, Slots, TokenSlots
  <2>2. QED
    BY <1>1, <1>2, <2>1, SignedSigs, IssueIInv DEF SignToken
<1>3. ASSUME NEW i \in Issuers, NEW alg \in Algs, SignTokenAlt(i, alg) PROVE IInv'
  <2>1. AltSlot(alg) \in Slots /\ AltSlot(alg) \in TokenSlots
    BY DEF AltSlot, Slots, TokenSlots
  <2>2. QED
    BY <1>1, <1>3, <2>1, SignedSigs, IssueIInv DEF SignTokenAlt
<1>4. ASSUME NEW i \in Issuers, MakeUnsignedToken(i) PROVE IInv'
  <2>1. "none" \in TokenSlots /\ Unsigned(i) \in Sigs
    BY NamesAssumption DEF TokenSlots, Unsigned, Sigs, Kid, Kids, Tags
  <2>2. QED
    BY <1>4, <2>1, IssueIInv DEF MakeUnsignedToken
<1>5. ASSUME NEW i \in Issuers, ServeJwks(i) PROVE IInv'
  <2>1. Get(i) /\ epoch' = epoch /\ tokens' = tokens /\ cached' = cached
    BY <1>5 DEF ServeJwks
  <2>2. PICK ks : ks = [epoch |-> epoch, keys |-> ToSet(JwksKeys(Got(i)))]
    OBVIOUS
  <2>3. ks \in KeySets /\ KeySetInv(i, ks)'
    BY <2>1, <2>2, ServedKeySetInv
  <2>4. replies' = replies \cup {[iss |-> i, set |-> ks]}
    BY <1>5, <2>2 DEF ServeJwks
  <2>5. /\ replies' \subseteq [iss : Issuers, set : KeySets]
        /\ \A r \in replies' : r \in replies \/ KeySetInv(r.iss, r.set)'
    BY <1>1, <2>3, <2>4 DEF TypeOK
  <2>6. Grows /\ AddedTokens
    BY <1>1, <2>1, GetGrows DEF AddedTokens
  <2>7. tokens' \subseteq Tokens
    BY <1>1, <2>1 DEF TypeOK
  <2>8. QED
    BY <2>1, <2>5, <2>6, <2>7, GrowsIInv
<1>6. ASSUME Grows, UNCHANGED <<tokens, replies, cached>> PROVE IInv'
  <2>1. AddedTokens
    BY <1>6 DEF AddedTokens
  <2>2. QED
    BY <1>1, <1>6, <2>1, GrowsIInv DEF TypeOK
<1>7. ASSUME NEW i \in Issuers, VerifyAtUnknownIssuer(i) PROVE IInv'
  BY <1>1, <1>6, <1>7, GetGrows DEF VerifyAtUnknownIssuer
<1>8. ASSUME NEW i \in Issuers, RotateIssuer(i) PROVE IInv'
  BY <1>1, <1>6, <1>8, RotateIssuerGrows DEF RotateIssuer
<1>9. ASSUME RotateAll PROVE IInv'
  BY <1>1, <1>6, <1>9, RotateAllGrows DEF RotateAll
<1>10. ASSUME NEW r \in replies, ReceiveJwks(r) PROVE IInv'
  <2>1. /\ UNCHANGED <<stores, order, minted, epoch, tokens>>
        /\ replies' \subseteq replies
        /\ r.iss \in Issuers /\ r.set \in KeySets
        /\ cached' = [cached EXCEPT ![r.iss] = r.set]
    BY <1>1, <1>10 DEF ReceiveJwks, TypeOK
  <2>2. \A i, ks : KeySetInv(i, ks) => KeySetInv(i, ks)'
    BY <2>1 DEF KeySetInv, Known
  <2>3. \A i \in Issuers : (cached'[i] = r.set /\ i = r.iss) \/ cached'[i] = cached[i]
    BY <1>1, <2>1 DEF TypeOK
  <2>4. \A i \in Issuers : KeySetInv(i, cached'[i])
    BY <2>3 DEF IInv
  <2>5. \A i \in Issuers : KeySetInv(i, cached[i])'
    BY <2>1, <2>4 DEF KeySetInv, Known
  <2>6. TypeOK'
    BY <1>1, <2>1 DEF TypeOK
  <2>7. StoresInv' /\ \A t \in tokens' : TokenInv(t)'
    BY <2>1 DEF IInv, StoresInv, TokenInv, Known
  <2>8. \A q \in replies' : KeySetInv(q.iss, q.set)'
    BY <2>1, <2>2 DEF IInv
  <2>9. QED
    BY <2>5, <2>6, <2>7, <2>8 DEF IInv
<1>11. ASSUME Restart PROVE IInv'
  <2>1. /\ epoch' = epoch + 1
        /\ epoch \in Nat
        /\ DOMAIN stores' = {}
        /\ order' = <<>>
        /\ UNCHANGED <<minted, tokens, replies, cached>>
    BY <1>1, <1>11 DEF Restart, TypeOK
  <2>2. TypeOK' /\ StoresInv'
    BY <1>1, <2>1 DEF TypeOK, StoresInv
  <2>3. ASSUME NEW t \in tokens PROVE TokenInv(t)'
    <3>1. t.epoch \in Nat /\ TokenInv(t)
      BY <1>1 DEF TypeOK, Tokens, IInv
    <3>2. QED
      BY <2>1, <3>1 DEF TokenInv
  <2>4. ASSUME NEW i \in Issuers, NEW ks \in KeySets, KeySetInv(i, ks)
        PROVE  KeySetInv(i, ks)'
    <3>1. ks.epoch \in Nat
      BY DEF KeySets
    <3>2. QED
      BY <2>1, <2>4, <3>1 DEF KeySetInv
  <2>5. \A i \in Issuers : KeySetInv(i, cached[i])'
    <3> SUFFICES ASSUME NEW i \in Issuers PROVE KeySetInv(i, cached[i])'
      OBVIOUS
    <3>1. PICK ks \in KeySets : ks = cached[i]
      BY <1>1 DEF TypeOK
    <3>2. KeySetInv(i, ks)'
      BY <2>4, <3>1 DEF IInv
    <3>3. QED
      BY <2>1, <3>1, <3>2
  <2>6. \A r \in replies : KeySetInv(r.iss, r.set)'
    BY <1>1, <2>4 DEF TypeOK, IInv
  <2>7. QED
    BY <2>1, <2>2, <2>3, <2>5, <2>6 DEF IInv
<1>12. CASE UNCHANGED vars
  BY <1>12 DEF vars, IInv, TypeOK, StoresInv, TokenInv, KeySetInv, Known
<1>13. QED
  BY <1>2, <1>3, <1>4, <1>5, <1>7, <1>8, <1>9, <1>10, <1>11, <1>12 DEF Next

LEMMA IInvAlways == Spec => []IInv
  BY InitIInv, NextIInv, PTL DEF Spec

-----------------------------------------------------------------------------
\* The dictionary, the tokens and the key sets always have their types
\* (keys.py _IssuerKeys, _stores).
THEOREM TypeCorrect == Spec => []TypeOK
  BY IInvAlways, PTL DEF IInv

LEMMA AcceptedIffCurrentStep == IInv => AcceptedIffCurrent
<1> SUFFICES ASSUME IInv, NEW t \in tokens, NEW i \in Issuers
             PROVE  Accepts(i, t) <=> Current(i, t)
  BY DEF AcceptedIffCurrent
<1>1. TypeOK /\ StoresInv /\ TokenInv(t) /\ t \in Tokens
  BY DEF IInv, TypeOK
<1>2. /\ Got(i) \in Stores
      /\ \A s \in Slots : Got(i).keys[s].kid = KidOf(i, s, Got(i).seq)
  BY <1>1, GotFacts
<1>3. ASSUME Accepts(i, t) PROVE Current(i, t)
  <2>1. PICK s \in Published : t.sig.mat = Got(i).keys[s].mat
    BY <1>2, <1>3, VerifiesWithPublished DEF Accepts
  <2>2. s \in Slots
    BY DEF Published, Slots
  <2>3. Known(i)
    <3>1. SUFFICES ASSUME ~Known(i) PROVE FALSE
      OBVIOUS
    <3>2. minted \in Nat /\ t.sig.mat \in Nat /\ t.sig.mat <= minted
      BY <1>1 DEF TypeOK, TokenInv, Tokens, Sigs
    <3>3. Got(i).keys[s].mat \in (minted + 1)..(minted + SlotsPerStore)
      BY <1>1, <2>2, <3>1, <3>2, GotFacts, NewStoreFacts
    <3>4. QED
      BY <2>1, <3>2, <3>3 DEF SlotsPerStore
  <2>4. t.iss = i /\ t.slot = s /\ t.epoch = epoch /\ (s = "signing" => t.gen = stores[i].seq)
    BY <1>1, <2>1, <2>2, <2>3, GotFacts DEF TokenInv, Known
  <2>5. t.slot \in TokenSlots
    BY <1>1 DEF Tokens
  <2>6. QED
    BY <2>3, <2>4, <2>5 DEF Current, Published, TokenSlots
<1>4. ASSUME Current(i, t) PROVE Accepts(i, t)
  <2>1. Known(i) /\ Got(i) = stores[i]
    BY <1>1, <1>4, GotFacts DEF Current
  <2>2. \E s \in {"signing", "ecSigning"} : t.sig = stores[i].keys[s]
    BY <1>1, <1>4 DEF Current, TokenInv, Slots
  <2>3. QED
    BY <1>2, <2>1, <2>2, VerifiesWithPublished DEF Accepts
<1>5. QED
  BY <1>3, <1>4

\* An issuer accepts exactly the tokens it signed in this process with the
\* signing keys it publishes now (keys.py, tokens.py verify_token), whatever
\* the issuer names are.
THEOREM AcceptedIffCurrentAlways == Spec => []AcceptedIffCurrent
  BY IInvAlways, AcceptedIffCurrentStep, PTL

LEMMA GatewayStep == IInv => GatewayTrustsOnlyItsIssuer /\ GatewayMissOrCorrect
<1> SUFFICES ASSUME IInv, NEW i \in Issuers, NEW t \in tokens, NEW k \in cached[i].keys
             PROVE  /\ k.mat = t.sig.mat => t.iss = i /\ t.slot \in {"signing", "ecSigning"}
                    /\ Current(i, t) /\ cached[i].epoch = epoch
                          => (k.kid = t.sig.kid => k.mat = t.sig.mat)
  BY DEF GatewayTrustsOnlyItsIssuer, GatewayTrusts, GatewayMissOrCorrect
<1>1. TokenInv(t) /\ t \in Tokens /\ KeySetInv(i, cached[i])
  BY DEF IInv, TypeOK
<1>2. k.mat = t.sig.mat => t.iss = i /\ t.slot \in {"signing", "ecSigning"}
  BY <1>1 DEF KeySetInv, Published, Tokens, TokenSlots
<1>3. ASSUME Current(i, t), cached[i].epoch = epoch, k.kid = t.sig.kid
      PROVE  k.mat = t.sig.mat
  <2>1. PICK s \in {"signing", "ecSigning"} : t.sig = stores[i].keys[s]
    BY <1>1, <1>3 DEF Current, TokenInv, Slots
  <2>2. s \in Published
    BY DEF Published
  <2>3. k = stores[i].keys[s]
    BY <1>1, <1>3, <2>1, <2>2 DEF KeySetInv
  <2>4. QED
    BY <2>1, <2>3
<1>4. QED
  BY <1>2, <1>3

\* A gateway with any JWKS response of an issuer, old or out of order, trusts
\* only tokens of that issuer's signing keys (token_handler.py handle_jwks).
THEOREM GatewayTrustsOnlyItsIssuerAlways == Spec => []GatewayTrustsOnlyItsIssuer
  BY IInvAlways, GatewayStep, PTL

\* Within one process a kid never comes to name another key, so a gateway
\* that refetches on an unknown kid never turns a good token down (keys.py
\* rotate).
THEOREM GatewayMissOrCorrectAlways == Spec => []GatewayMissOrCorrect
  BY IInvAlways, GatewayStep, PTL

\* What a step can do to the dictionary and the tokens.
LEMMA StepKinds ==
  ASSUME IInv, [Next]_vars
  PROVE  /\ tokens \subseteq tokens'
         /\ \/ epoch' # epoch
            \/ stores' = stores /\ epoch' = epoch
            \/ \E j \in Issuers : Get(j) /\ epoch' = epoch
            \/ \E j \in Issuers : RotateIssuer(j)
            \/ RotateAll
<1> DEFINE Kinds == /\ tokens \subseteq tokens'
                    /\ \/ epoch' # epoch
                       \/ stores' = stores /\ epoch' = epoch
                       \/ \E j \in Issuers : Get(j) /\ epoch' = epoch
                       \/ \E j \in Issuers : RotateIssuer(j)
                       \/ RotateAll
<1>1. ASSUME NEW j \in Issuers,
             \/ \E alg \in Algs : SignToken(j, alg) \/ SignTokenAlt(j, alg)
             \/ MakeUnsignedToken(j)
      PROVE  Kinds
  BY <1>1 DEF SignToken, SignTokenAlt, MakeUnsignedToken, Issue
<1>2. ASSUME NEW j \in Issuers, ServeJwks(j) PROVE Kinds
  BY <1>2 DEF ServeJwks
<1>3. ASSUME NEW j \in Issuers, VerifyAtUnknownIssuer(j) PROVE Kinds
  BY <1>3 DEF VerifyAtUnknownIssuer
<1>4. ASSUME NEW j \in Issuers, RotateIssuer(j) PROVE Kinds
  <2>1. tokens' = tokens
    BY <1>4 DEF RotateIssuer
  <2>2. QED
    BY <1>4, <2>1
<1>5. ASSUME RotateAll PROVE Kinds
  <2>1. tokens' = tokens
    BY <1>5 DEF RotateAll
  <2>2. QED
    BY <1>5, <2>1
<1>6. ASSUME Restart PROVE Kinds
  BY <1>6 DEF Restart, IInv, TypeOK
<1>7. ASSUME NEW r \in replies, ReceiveJwks(r) PROVE Kinds
  BY <1>7 DEF ReceiveJwks
<1>8. ASSUME UNCHANGED vars PROVE Kinds
  BY <1>8 DEF vars
<1> HIDE DEF Kinds
<1>9. ASSUME Next PROVE Kinds
  BY <1>1, <1>2, <1>3, <1>4, <1>5, <1>6, <1>7, <1>9 DEF Next
<1>10. QED
  BY <1>8, <1>9 DEF Kinds

LEMMA NewGenerationNewKey ==
  ASSUME StoresInv, Grows, NEW i \in DOMAIN stores, stores'[i].seq # stores[i].seq
  PROVE  stores'[i].keys["signing"] # stores[i].keys["signing"]
<1>1. "signing" \in Slots
  BY DEF Slots
<1>2. i \in DOMAIN stores'
  BY DEF Grows
<1>3. /\ stores'[i].keys["signing"].kid = KidOf(i, "signing", stores'[i].seq)
      /\ stores[i].keys["signing"].kid = KidOf(i, "signing", stores[i].seq)
  BY <1>1, <1>2 DEF StoresInv, Grows
<1>4. KidOf(i, "signing", stores'[i].seq).n # KidOf(i, "signing", stores[i].seq).n
  BY DEF KidOf, Kid
<1>5. QED
  BY <1>3, <1>4

LEMMA RevokesStep ==
  ASSUME IInv, AcceptedIffCurrent, AcceptedIffCurrent', [Next]_vars
  PROVE  \A t \in tokens : Accepts(t.iss, t) /\ ~Accepts(t.iss, t)' => Revokes(t)
<1> SUFFICES ASSUME NEW t \in tokens, Accepts(t.iss, t), ~Accepts(t.iss, t)'
             PROVE  Revokes(t)
  OBVIOUS
<1> DEFINE i == t.iss
<1>1. t \in Tokens /\ i \in Issuers
  BY DEF IInv, TypeOK, Tokens
<1>2. Current(i, t)
  BY <1>1 DEF AcceptedIffCurrent
<1>3. t \in tokens'
  BY StepKinds
<1>4. ~Current(i, t)'
  BY <1>1, <1>3 DEF AcceptedIffCurrent
<1>5. CASE epoch' # epoch
  BY <1>5 DEF Revokes
<1>6. CASE stores' = stores /\ epoch' = epoch
  BY <1>2, <1>4, <1>6 DEF Revokes, Current, Known
<1>7. ASSUME NEW j \in Issuers, Get(j), epoch' = epoch PROVE Revokes(t)
  <2>1. stores'[i] = stores[i] /\ i \in DOMAIN stores'
    BY <1>2, <1>7, GotFacts DEF Current, Known, Get, Put, IInv
  <2>2. QED
    BY <1>2, <1>4, <1>7, <2>1 DEF Current, Known
<1>8. ASSUME NEW j \in Issuers, RotateIssuer(j) PROVE Revokes(t)
  <2>1. CASE j # i
    <3>1. stores'[i] = stores[i] /\ i \in DOMAIN stores' /\ epoch' = epoch
      BY <1>2, <1>8, <2>1 DEF Current, Known, RotateIssuer, Put
    <3>2. QED
      BY <1>2, <1>4, <3>1 DEF Current, Known
  <2>2. CASE j = i
    <3>1. Grows /\ i \in DOMAIN stores' /\ epoch' = epoch
      BY <1>2, <1>8, RotateIssuerGrows DEF IInv, Current, Known, Grows
    <3>2. t.slot = "signing"
      BY <1>2, <1>4, <3>1 DEF Current, Known
    <3>3. stores'[i].seq # stores[i].seq
      BY <1>2, <1>4, <3>1, <3>2 DEF Current, Known
    <3>4. stores'[i].keys["signing"] # stores[i].keys["signing"]
      BY <1>2, <3>1, <3>3, NewGenerationNewKey DEF IInv, Current, Known
    <3>5. QED
      BY <1>8, <2>2, <3>2, <3>4 DEF Revokes
  <2>3. QED
    BY <2>1, <2>2
<1>9. ASSUME RotateAll PROVE Revokes(t)
  <2>1. Grows /\ i \in DOMAIN stores' /\ epoch' = epoch
    BY <1>2, <1>9, RotateAllGrows DEF IInv, Current, Known, Grows
  <2>2. t.slot = "signing" /\ stores'[i].seq # stores[i].seq
    BY <1>2, <1>4, <2>1 DEF Current, Known
  <2>3. stores'[i].keys["signing"] # stores[i].keys["signing"]
    BY <1>2, <2>1, <2>2, NewGenerationNewKey DEF IInv, Current, Known
  <2>4. QED
    BY <1>9, <2>2, <2>3 DEF Revokes
<1>10. QED
  BY <1>5, <1>6, <1>7, <1>8, <1>9, StepKinds

\* A token stops being accepted only by a rotation of its own issuer's RSA
\* key, if it is RS256, or when the process ends (keys.py rotate).
THEOREM OnlyOwnRotationRevokesAlways == Spec => OnlyOwnRotationRevokes
<1>1. IInv /\ AcceptedIffCurrent /\ AcceptedIffCurrent' /\ [Next]_vars
        => [\A t \in tokens :
              Accepts(t.iss, t) /\ ~Accepts(t.iss, t)' => Revokes(t)]_vars
  BY RevokesStep
<1>2. QED
  BY <1>1, IInvAlways, AcceptedIffCurrentAlways, PTL DEF Spec, OnlyOwnRotationRevokes

-----------------------------------------------------------------------------
(***************************************************************************)
(* The insertion order names every store once, and nothing else: what the  *)
(* joined list of /debug/decode depends on.                                *)
(***************************************************************************)
OrderInv ==
  /\ \A n \in DOMAIN order : order[n] \in DOMAIN stores
  /\ \A m, n \in DOMAIN order : order[m] = order[n] => m = n

LEMMA PutOrderInv ==
  ASSUME TypeOK, OrderInv, NEW i \in Issuers, NEW st, NEW used, Put(i, st, used)
  PROVE  OrderInv'
<1>1. DOMAIN stores' = DOMAIN stores \cup {i}
  BY DEF Put
<1>2. CASE Known(i)
  BY <1>1, <1>2 DEF Put, OrderInv
<1>3. CASE ~Known(i)
  <2>1. /\ order \in Seq(Issuers)
        /\ order' = Append(order, i)
        /\ DOMAIN order = 1..Len(order)
        /\ Len(order) \in Nat
    BY <1>3 DEF Put, TypeOK
  <2>2. /\ DOMAIN order' = DOMAIN order \cup {Len(order) + 1}
        /\ order'[Len(order) + 1] = i
        /\ \A n \in DOMAIN order : order'[n] = order[n]
    BY <2>1
  <2>3. \A n \in DOMAIN order : order[n] # i
    BY <1>3 DEF OrderInv, Known
  <2>4. QED
    BY <1>1, <2>2, <2>3 DEF OrderInv
<1>4. QED
  BY <1>2, <1>3

\* What a step can do to the insertion order.
LEMMA OrderKinds ==
  ASSUME IInv, [Next]_vars
  PROVE  \/ \E i \in Issuers : \E st, used : Put(i, st, used)
         \/ order' = order /\ DOMAIN stores' = DOMAIN stores
         \/ order' = <<>>
<1> DEFINE Kinds == \/ \E i \in Issuers : \E st, used : Put(i, st, used)
                    \/ order' = order /\ DOMAIN stores' = DOMAIN stores
                    \/ order' = <<>>
<1>1. ASSUME NEW i \in Issuers, Get(i) PROVE Kinds
  BY <1>1 DEF Get
<1>2. ASSUME NEW i \in Issuers,
             \/ \E alg \in Algs : SignToken(i, alg) \/ SignTokenAlt(i, alg)
             \/ MakeUnsignedToken(i)
             \/ ServeJwks(i)
             \/ VerifyAtUnknownIssuer(i)
      PROVE  Kinds
  <2>1. Get(i)
    BY <1>2 DEF SignToken, SignTokenAlt, MakeUnsignedToken, Issue, ServeJwks,
                VerifyAtUnknownIssuer
  <2>2. QED
    BY <1>1, <2>1
<1>3. ASSUME NEW i \in Issuers, RotateIssuer(i) PROVE Kinds
  BY <1>3 DEF RotateIssuer
<1>4. ASSUME NEW r \in replies, ReceiveJwks(r) PROVE Kinds
  BY <1>4 DEF ReceiveJwks
<1>5. ASSUME RotateAll PROVE Kinds
  BY <1>5 DEF RotateAll
<1>6. ASSUME Restart PROVE Kinds
  BY <1>6 DEF Restart
<1>7. ASSUME UNCHANGED vars PROVE Kinds
  BY <1>7 DEF vars
<1> HIDE DEF Kinds
<1>8. ASSUME Next PROVE Kinds
  BY <1>2, <1>3, <1>4, <1>5, <1>6, <1>8 DEF Next
<1>9. QED
  BY <1>7, <1>8 DEF Kinds

LEMMA OrderInvAlways == Spec => []OrderInv
<1>1. Init => OrderInv
  BY DEF Init, OrderInv
<1>2. IInv /\ OrderInv /\ [Next]_vars => OrderInv'
  <2> SUFFICES ASSUME IInv, OrderInv, [Next]_vars PROVE OrderInv'
    OBVIOUS
  <2>1. ASSUME NEW i \in Issuers, NEW st, NEW used, Put(i, st, used) PROVE OrderInv'
    BY <2>1, PutOrderInv DEF IInv
  <2>2. CASE order' = order /\ DOMAIN stores' = DOMAIN stores
    BY <2>2 DEF OrderInv
  <2>3. CASE order' = <<>>
    BY <2>3 DEF OrderInv
  <2>4. QED
    BY <2>1, <2>2, <2>3, OrderKinds
<1>3. QED
  BY <1>1, <1>2, IInvAlways, PTL DEF Spec

(***************************************************************************)
(* The joined list: its n-th key is the q-th of the p-th store, where n and*)
(* (p, q) determine each other, and lists of earlier stores come first.    *)
(***************************************************************************)
LEMMA JoinedList ==
  ASSUME TypeOK
  PROVE  /\ Len(order) \in Nat
         /\ DOMAIN AllJwksKeys = 1..(4 * Len(order))
         /\ \A p \in 1..Len(order), q \in 1..4 :
              /\ 4 * (p - 1) + q \in DOMAIN AllJwksKeys
              /\ AllJwksKeys[4 * (p - 1) + q] = JwksOf(order[p])[q]
         /\ \A n \in DOMAIN AllJwksKeys :
              \E p \in 1..Len(order), q \in 1..4 : n = 4 * (p - 1) + q
<1>1. PerStore = 4
  BY DEF PerStore, JwksSlots
<1>2. Len(order) \in Nat
  BY DEF TypeOK
<1> DEFINE key(n) == JwksOf(order[1 + ((n - 1) \div 4)])[1 + ((n - 1) % 4)]
<1>3. /\ DOMAIN AllJwksKeys = 1..(4 * Len(order))
      /\ \A n \in 1..(4 * Len(order)) : AllJwksKeys[n] = key(n)
  <2>1. AllJwksKeys = [n \in 1..(4 * Len(order)) |-> key(n)]
    BY <1>1 DEF AllJwksKeys
  <2> HIDE DEF key
  <2>2. QED
    BY <2>1
<1>4. ASSUME NEW n \in 1..(4 * Len(order))
      PROVE  \E p \in 1..Len(order), q \in 1..4 : n = 4 * (p - 1) + q
  <2>1. /\ 1 + ((n - 1) \div 4) \in 1..Len(order)
        /\ 1 + ((n - 1) % 4) \in 1..4
        /\ n = 4 * (1 + ((n - 1) \div 4) - 1) + (1 + ((n - 1) % 4))
    BY <1>2
  <2>2. QED
    BY <2>1
<1>5. \A p \in 1..Len(order), q \in 1..4 :
        /\ 4 * (p - 1) + q \in DOMAIN AllJwksKeys
        /\ AllJwksKeys[4 * (p - 1) + q] = JwksOf(order[p])[q]
  <2> SUFFICES ASSUME NEW p \in 1..Len(order), NEW q \in 1..4
               PROVE  /\ 4 * (p - 1) + q \in DOMAIN AllJwksKeys
                      /\ AllJwksKeys[4 * (p - 1) + q] = JwksOf(order[p])[q]
    OBVIOUS
  <2>1. PICK n : n = 4 * (p - 1) + q
    OBVIOUS
  <2>2. /\ n \in 1..(4 * Len(order))
        /\ 1 + ((n - 1) \div 4) = p
        /\ 1 + ((n - 1) % 4) = q
    BY <1>2, <2>1
  <2>3. key(n) = JwksOf(order[p])[q]
    BY <2>2, Zenon
  <2> HIDE DEF key
  <2>4. n \in DOMAIN AllJwksKeys /\ AllJwksKeys[n] = JwksOf(order[p])[q]
    BY <1>3, <2>2, <2>3
  <2>5. QED
    BY <2>1, <2>4, Zenon
<1>6. QED
  BY <1>2, <1>3, <1>4, <1>5

LEMMA StoresInOrder ==
  ASSUME TypeOK, OrderInv, NEW p \in 1..Len(order)
  PROVE  /\ order[p] \in DOMAIN stores
         /\ stores[order[p]] \in Stores
         /\ Position(order[p]) = p
         /\ DOMAIN JwksOf(order[p]) = 1..4
         /\ \A q \in 1..4 : JwksOf(order[p])[q] = stores[order[p]].keys[JwksSlots[q]]
         /\ \A q \in 1..4 : JwksSlots[q] \in Published /\ JwksSlots[q] \in Slots
<1>1. p \in DOMAIN order /\ order[p] \in DOMAIN stores /\ stores[order[p]] \in Stores
  BY DEF OrderInv, TypeOK
<1>2. Position(order[p]) = p
  BY <1>1 DEF Position, OrderInv
<1>3. /\ DOMAIN JwksOf(order[p]) = 1..4
      /\ \A q \in 1..4 : JwksOf(order[p])[q] = stores[order[p]].keys[JwksSlots[q]]
  BY DEF JwksOf, JwksKeys
<1>4. \A q \in 1..4 : JwksSlots[q] \in Published /\ JwksSlots[q] \in Slots
  BY DEF JwksSlots, Published, Slots
<1>5. QED
  BY <1>1, <1>2, <1>3, <1>4

\* A key that makes the joined list accept a token is its issuer's own, and
\* the first with its kid.
LEMMA DecodedIsCurrent ==
  ASSUME IInv, OrderInv, NEW t \in tokens, Verifies(t.sig, AllJwksKeys)
  PROVE  Current(t.iss, t) /\ ~Shadowed(t)
<1>1. TypeOK /\ TokenInv(t) /\ t \in Tokens
  BY DEF IInv, TypeOK
<1>2. PICK n \in DOMAIN AllJwksKeys :
        /\ AllJwksKeys[n].kid = t.sig.kid
        /\ \A m \in DOMAIN AllJwksKeys : m < n => AllJwksKeys[m].kid # t.sig.kid
        /\ AllJwksKeys[n].mat = t.sig.mat
  BY DEF Verifies
<1>3. PICK p \in 1..Len(order), q \in 1..4 : n = 4 * (p - 1) + q
  BY <1>1, JoinedList
<1>4. PICK s \in Published :
        /\ s \in Slots
        /\ order[p] \in DOMAIN stores
        /\ t.sig.mat = stores[order[p]].keys[s].mat
  <2>1. AllJwksKeys[n] = JwksOf(order[p])[q]
    BY <1>1, <1>3, JoinedList
  <2>2. QED
    BY <1>1, <1>2, <2>1, StoresInOrder
<1>5. /\ t.iss = order[p]
      /\ t.slot = s
      /\ t.epoch = epoch
      /\ s = "signing" => t.gen = stores[order[p]].seq
  BY <1>1, <1>4 DEF TokenInv
<1>6. Current(t.iss, t)
  <2>1. t.slot \in TokenSlots
    BY <1>1 DEF Tokens
  <2>2. QED
    BY <1>4, <1>5, <2>1 DEF Current, Known, Published, TokenSlots
<1>7. ~Shadowed(t)
  <2> SUFFICES ASSUME Shadowed(t) PROVE FALSE
    OBVIOUS
  <2>1. Position(t.iss) = p /\ p \in Nat /\ q \in Nat /\ Len(order) \in Nat
    <3>1. Position(order[p]) = p
      BY <1>1, <1>3, StoresInOrder
    <3>2. Len(order) \in Nat
      BY <1>1, JoinedList
    <3>3. p \in Nat /\ q \in Nat
      BY <1>3, <3>2
    <3>4. QED
      BY <1>5, <3>1, <3>2, <3>3
  <2>2. PICK m \in 1..(p - 1) : \E k \in ToSet(JwksOf(order[m])) : k.kid = t.sig.kid
    BY <2>1 DEF Shadowed
  <2>3. m \in 1..Len(order) /\ m \in Nat /\ m < p
    BY <2>1, <2>2, <1>3
  <2>4. PICK r \in 1..4 : JwksOf(order[m])[r].kid = t.sig.kid
    BY <1>1, <2>2, <2>3, StoresInOrder DEF ToSet
  <2>5. PICK l : l = 4 * (m - 1) + r
    OBVIOUS
  <2>6. l \in DOMAIN AllJwksKeys /\ AllJwksKeys[l] = JwksOf(order[m])[r]
    BY <1>1, <2>3, <2>5, JoinedList
  <2>7. l < n
    BY <1>3, <2>1, <2>3, <2>5
  <2>8. QED
    BY <1>2, <2>4, <2>6, <2>7
<1>8. QED
  BY <1>6, <1>7

\* The key of a current token that no earlier store shadows is found first.
LEMMA CurrentIsDecoded ==
  ASSUME IInv, OrderInv, NEW t \in tokens, Current(t.iss, t), ~Shadowed(t)
  PROVE  Verifies(t.sig, AllJwksKeys)
<1>1. TypeOK /\ StoresInv /\ TokenInv(t)
  BY DEF IInv
<1>2. Len(order) \in Nat /\ DOMAIN order = 1..Len(order)
  BY <1>1 DEF TypeOK
<1>3. PICK p \in 1..Len(order) : order[p] = t.iss
  BY <1>1, <1>2 DEF StoresInv, Current, Known
<1>4. Position(t.iss) = p /\ p \in Nat
  BY <1>1, <1>3, StoresInOrder
<1>5. PICK q \in 1..2 : t.sig = JwksOf(order[p])[q]
  <2>1. PICK s \in {"signing", "ecSigning"} : t.sig = stores[t.iss].keys[s]
    BY <1>1 DEF Current, TokenInv, Slots
  <2>2. /\ JwksOf(order[p])[1] = stores[t.iss].keys["signing"]
        /\ JwksOf(order[p])[2] = stores[t.iss].keys["ecSigning"]
    BY <1>3, <1>1, JwksKeysOfStore, StoresInOrder DEF JwksOf
  <2>3. QED
    BY <2>1, <2>2
<1>6. q \in 1..4 /\ q \in Nat
  OBVIOUS
<1>7. PICK n : n = 4 * (p - 1) + q
  OBVIOUS
<1>8. n \in DOMAIN AllJwksKeys /\ AllJwksKeys[n] = t.sig
  BY <1>1, <1>5, <1>6, <1>7, JoinedList
<1>9. ASSUME NEW m \in DOMAIN AllJwksKeys, m < n PROVE AllJwksKeys[m].kid # t.sig.kid
  <2>1. PICK p2 \in 1..Len(order), q2 \in 1..4 : m = 4 * (p2 - 1) + q2
    BY <1>1, JoinedList
  <2>2. AllJwksKeys[m] = JwksOf(order[p2])[q2]
    BY <1>1, <2>1, JoinedList
  <2>3. p2 \in Nat /\ q2 \in Nat
    OBVIOUS
  <2>4. p2 < p \/ (p2 = p /\ q2 < q)
    BY <1>4, <1>6, <1>7, <1>9, <2>1, <2>3
  <2>5. CASE p2 < p
    <3>1. p2 \in 1..(Position(t.iss) - 1)
      BY <1>4, <2>3, <2>5
    <3>2. JwksOf(order[p2])[q2] \in ToSet(JwksOf(order[p2]))
      BY <1>1, StoresInOrder DEF ToSet
    <3>3. QED
      BY <2>2, <3>1, <3>2 DEF Shadowed
  <2>6. CASE p2 = p /\ q2 < q
    <3>1. q2 = 1 /\ q = 2
      BY <2>6, <2>3, <1>6
    <3>2. /\ JwksOf(order[p])[1] = stores[t.iss].keys["signing"]
          /\ JwksOf(order[p])[2] = stores[t.iss].keys["ecSigning"]
      BY <1>3, <1>1, JwksKeysOfStore, StoresInOrder DEF JwksOf
    <3>3. stores[t.iss].keys["signing"].kid # stores[t.iss].keys["ecSigning"].kid
      <4>1. /\ stores[t.iss].keys["signing"].kid = KidOf(t.iss, "signing", stores[t.iss].seq)
            /\ stores[t.iss].keys["ecSigning"].kid = KidOf(t.iss, "ecSigning", stores[t.iss].seq)
        BY <1>1 DEF StoresInv, Slots, Current, Known
      <4>2. t.iss \in Issuers
        BY <1>1 DEF TypeOK, Current, Known
      <4>3. QED
        BY <4>1, <4>2, NamesAssumption DEF KidOf, Kid
    <3>4. QED
      BY <1>5, <2>2, <2>6, <3>1, <3>2, <3>3
  <2>7. QED
    BY <2>4, <2>5, <2>6
<1>10. QED
  BY <1>8, <1>9 DEF Verifies

\* /debug/decode, which joins the keys of all issuers, calls a token valid
\* exactly if its issuer stands by it and no store created earlier publishes
\* its kid (keys.py all_jwks_keys, tokens.py verify_token).
THEOREM DebugDecodeIsExactAlways == Spec => []DebugDecodeIsExact
<1>1. IInv /\ OrderInv => DebugDecodeIsExact
  BY DecodedIsCurrent, CurrentIsDecoded DEF DebugDecodeIsExact
<1>2. QED
  BY <1>1, IInvAlways, OrderInvAlways, PTL
=============================================================================
