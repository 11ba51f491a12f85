---------------------------- MODULE KeyMaterial ----------------------------
(***************************************************************************)
(* The key set of one issuer (keys.py, class _IssuerKeys) as a value, and  *)
(* the two operations a token goes through: being signed with one of the   *)
(* keys and being checked against a list of published keys.                *)
(*                                                                         *)
(* A generated private key is a natural number: generating a key takes a   *)
(* number that was never used before, so two keys are the same key exactly *)
(* if their numbers are equal.                                             *)
(*                                                                         *)
(* A kid is the text "mock-<issuer>-<suffix>".  No suffix holds a dash, so *)
(* the text splits in one way at its last dash, into the stem (an issuer   *)
(* name, possibly one that ends in "-ec") and the suffix; a kid is modelled*)
(* by that split.  EcName[i] is the name i followed by "-ec".              *)
(***************************************************************************)
EXTENDS Naturals, Sequences

CONSTANTS
  Issuers,   \* issuer path segments that requests use
  Names,     \* the stems a kid can have
  EcName     \* EcName[i] is the text i \o "-ec"

ASSUME NamesAssumption ==
  /\ Issuers \subseteq Names
  /\ EcName \in [Issuers -> Names]
  /\ \A i \in Issuers : EcName[i] # i
  /\ \A i, j \in Issuers : EcName[i] = EcName[j] => i = j

(***************************************************************************)
(* The six keys of an issuer, in the order the constructor generates them. *)
(***************************************************************************)
Slots == {"signing", "alt", "d1", "d2", "ecSigning", "ecAlt"}

SlotsPerStore == 6

MintOrder == [signing |-> 1, alt |-> 2, d1 |-> 3, d2 |-> 4,
              ecSigning |-> 5, ecAlt |-> 6]

Tags == {"seq", "alt", "d1", "d2", "none"}

Kid(stem, tag, n) == [stem |-> stem, tag |-> tag, n |-> n]

Kids == [stem : Names, tag : Tags, n : Nat]

(***************************************************************************)
(* The kid of a slot.  Only the RSA signing key counts its generations;    *)
(* the EC keys have the stem "<issuer>-ec".                                *)
(***************************************************************************)
KidOf(i, slot, seq) ==
  [signing   |-> Kid(i, "seq", seq),
   alt       |-> Kid(i, "alt", 0),
   d1        |-> Kid(i, "d1", 0),
   d2        |-> Kid(i, "d2", 0),
   ecSigning |-> Kid(EcName[i], "seq", 1),
   ecAlt     |-> Kid(EcName[i], "alt", 0)][slot]

Keys == [kid : Kids, mat : Nat]

(***************************************************************************)
(* The store of issuer i made of the numbers that follow "minted".         *)
(***************************************************************************)
NewStore(i, minted) ==
  [seq  |-> 1,
   keys |-> [s \in Slots |-> [kid |-> KidOf(i, s, 1),
                              mat |-> minted + MintOrder[s]]]]

Stores == [seq : Nat \ {0}, keys : [Slots -> Keys]]

\* Seeded fault: the generation is not counted up from the old one.
RotatedUntyped(i, store, minted) ==
  [seq  |-> 0,
   keys |-> [store.keys EXCEPT !["signing"] =
               [kid |-> KidOf(i, "signing", 0), mat |-> minted + 1]]]

\* Seeded fault: the new key keeps the kid of the old one.
RotatedSameKid(i, store, minted) ==
  [seq  |-> store.seq + 1,
   keys |-> [store.keys EXCEPT !["signing"] =
               [kid |-> @.kid, mat |-> minted + 1]]]

\* Seeded fault: rotation also replaces the EC signing key.
RotatedWithEc(i, store, minted) ==
  LET next == store.seq + 1
  IN [seq  |-> next,
      keys |-> [store.keys EXCEPT
                  !["signing"] = [kid |-> KidOf(i, "signing", next), mat |-> minted + 1],
                  !["ecSigning"] = [kid |-> @.kid, mat |-> minted + 1]]]

\* Seeded fault: rotation puts the standby key to use.
RotatedPromotingAlt(i, store, minted) ==
  [seq  |-> store.seq + 1,
   keys |-> [store.keys EXCEPT
               !["signing"] = store.keys["alt"],
               !["alt"] = [kid |-> @.kid, mat |-> minted + 1]]]

(***************************************************************************)
(* rotate(): the next generation of the RSA signing key and nothing else.  *)
(***************************************************************************)
Rotated(i, store, minted) ==
  LET next == store.seq + 1
  IN [seq  |-> next,
      keys |-> [store.keys EXCEPT !["signing"] =
                  [kid |-> KidOf(i, "signing", next), mat |-> minted + 1]]]

(***************************************************************************)
(* The published list: RSA signing key, EC signing key, then the decoys.   *)
(***************************************************************************)
JwksSlots == <<"signing", "ecSigning", "d1", "d2">>

\* Seeded fault: the key of /token/wrong-sig is published too.
JwksKeysWithAlt(store) ==
  [n \in 1..5 |-> store.keys[Append(JwksSlots, "alt")[n]]]

JwksKeys(store) == [n \in 1..4 |-> store.keys[JwksSlots[n]]]

SigningSlot(alg) == IF alg = "ES256" THEN "ecSigning" ELSE "signing"

AltSlot(alg) == IF alg = "ES256" THEN "ecAlt" ELSE "alt"

(***************************************************************************)
(* What a token's header and signature say about the key that made it.     *)
(* Tokens of alg "none" and the HS256 tokens of /token/wrong-alg carry no  *)
(* kid and are not signed by any generated key (number 0).                 *)
(***************************************************************************)
SignedBy(key) == [kid |-> key.kid, mat |-> key.mat]

Unsigned(i) == [kid |-> Kid(i, "none", 0), mat |-> 0]

(***************************************************************************)
(* verify_token: the library takes the FIRST key of the set whose kid is   *)
(* the token's, and checks the signature with that key alone.              *)
(***************************************************************************)
Verifies(sig, keys) ==
  \E n \in DOMAIN keys :
     /\ keys[n].kid = sig.kid
     /\ \A m \in DOMAIN keys : m < n => keys[m].kid # sig.kid
     /\ keys[n].mat = sig.mat
=============================================================================
