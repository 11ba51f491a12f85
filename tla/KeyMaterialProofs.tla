-------------------------- MODULE KeyMaterialProofs --------------------------
(***************************************************************************)
(* Facts about the operators of KeyMaterial: which keys a new and a rotated*)
(* store have, and what verification against a published list amounts to.  *)
(***************************************************************************)
EXTENDS KeyMaterial, TLAPS

Published == {"signing", "ecSigning", "d1", "d2"}

(***************************************************************************)
(* The constants of the key material.                                      *)
(***************************************************************************)
LEMMA KidOfType ==
  ASSUME NEW i \in Issuers, NEW s \in Slots, NEW n \in Nat
  PROVE  KidOf(i, s, n) \in Kids
  BY NamesAssumption DEF KidOf, Kid, Kids, Slots, Tags

LEMMA NewStoreFacts ==
  ASSUME NEW i \in Issuers, NEW m \in Nat
  PROVE  /\ NewStore(i, m) \in Stores
         /\ NewStore(i, m).seq = 1
         /\ \A s \in Slots :
              /\ NewStore(i, m).keys[s].kid = KidOf(i, s, 1)
              /\ NewStore(i, m).keys[s].mat \in (m + 1)..(m + SlotsPerStore)
         /\ \A s, r \in Slots :
              NewStore(i, m).keys[s].mat = NewStore(i, m).keys[r].mat => s = r
<1>1. \A s \in Slots : MintOrder[s] \in 1..SlotsPerStore
  BY DEF Slots, MintOrder, SlotsPerStore
<1>2. \A s, r \in Slots : MintOrder[s] = MintOrder[r] => s = r
  BY DEF Slots, MintOrder
<1>3. \A s \in Slots : KidOf(i, s, 1) \in Kids
  BY KidOfType
<1>4. QED
  BY <1>1, <1>2, <1>3 DEF NewStore, Stores, Keys, SlotsPerStore

LEMMA RotatedFacts ==
  ASSUME NEW i \in Issuers, NEW st \in Stores, NEW m \in Nat
  PROVE  LET new == Rotated(i, st, m)
         IN /\ new \in Stores
            /\ new.seq = st.seq + 1
            /\ new.keys["signing"].kid = KidOf(i, "signing", st.seq + 1)
            /\ new.keys["signing"].mat = m + 1
            /\ \A s \in Slots \ {"signing"} : new.keys[s] = st.keys[s]
<1>1. KidOf(i, "signing", st.seq + 1) \in Kids
  BY KidOfType DEF Stores, Slots
<1>2. "signing" \in Slots
  BY DEF Slots
<1>3. QED
  BY <1>1, <1>2 DEF Rotated, Stores, Keys

\* Only the RSA signing key's kid depends on the generation.
LEMMA KidOfOtherSlots ==
  ASSUME NEW i, NEW s \in Slots \ {"signing"}, NEW m, NEW n
  PROVE  KidOf(i, s, m) = KidOf(i, s, n)
  BY DEF KidOf, Slots

LEMMA JwksKeysOfStore ==
  ASSUME NEW st \in Stores
  PROVE  /\ DOMAIN JwksKeys(st) = 1..4
         /\ JwksKeys(st)[1] = st.keys["signing"]
         /\ JwksKeys(st)[2] = st.keys["ecSigning"]
         /\ JwksKeys(st)[3] = st.keys["d1"]
         /\ JwksKeys(st)[4] = st.keys["d2"]
         /\ \A n \in 1..4 : JwksKeys(st)[n] \in Keys
  BY DEF JwksKeys, JwksSlots, Stores, Slots

(***************************************************************************)
(* What verification against one store comes down to: the four published   *)
(* kids differ, so no decoy stands in front of a signing key.              *)
(***************************************************************************)
LEMMA VerifiesWithPublished ==
  ASSUME NEW i \in Issuers, NEW st \in Stores, NEW sig,
         \A s \in Slots : st.keys[s].kid = KidOf(i, s, st.seq)
  PROVE  /\ Verifies(sig, JwksKeys(st))
              => \E s \in Published :
                    sig.kid = st.keys[s].kid /\ sig.mat = st.keys[s].mat
         /\ \A s \in {"signing", "ecSigning"} :
              sig = st.keys[s] => Verifies(sig, JwksKeys(st))
<1>1. Verifies(sig, JwksKeys(st))
        => \E s \in Published : sig.kid = st.keys[s].kid /\ sig.mat = st.keys[s].mat
  BY JwksKeysOfStore DEF Verifies, Published
<1>2. \A s, r \in Published : st.keys[s].kid = st.keys[r].kid => s = r
  BY NamesAssumption DEF KidOf, Kid, Published, Slots
<1>3. sig = st.keys["signing"] => Verifies(sig, JwksKeys(st))
  <2> SUFFICES ASSUME sig = st.keys["signing"] PROVE Verifies(sig, JwksKeys(st))
    OBVIOUS
  <2>2. /\ 1 \in DOMAIN JwksKeys(st)
        /\ JwksKeys(st)[1].kid = sig.kid
        /\ \A m \in DOMAIN JwksKeys(st) : m < 1 => JwksKeys(st)[m].kid # sig.kid
        /\ JwksKeys(st)[1].mat = sig.mat
    BY JwksKeysOfStore
  <2>3. QED
    BY <2>2 DEF Verifies
<1>4. sig = st.keys["ecSigning"] => Verifies(sig, JwksKeys(st))
  <2> SUFFICES ASSUME sig = st.keys["ecSigning"] PROVE Verifies(sig, JwksKeys(st))
    OBVIOUS
  <2>1. st.keys["signing"].kid # st.keys["ecSigning"].kid
    BY <1>2 DEF Published
  <2>2. /\ 2 \in DOMAIN JwksKeys(st)
        /\ JwksKeys(st)[2].kid = sig.kid
        /\ \A m \in DOMAIN JwksKeys(st) : m < 2 => JwksKeys(st)[m].kid # sig.kid
        /\ JwksKeys(st)[2].mat = sig.mat
    BY <2>1, JwksKeysOfStore
  <2>3. QED
    BY <2>2 DEF Verifies
<1>5. QED
  BY <1>1, <1>3, <1>4
=============================================================================
