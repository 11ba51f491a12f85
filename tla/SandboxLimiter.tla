--------------------------- MODULE SandboxLimiter ---------------------------
(***************************************************************************)
(* The rate limit of the sandbox org (routers/hosted.py,                   *)
(* _sandbox_rate_check): per client address, the times of the requests     *)
(* accepted in the last minute.  The check has no await, so a request is   *)
(* one step.                                                               *)
(*                                                                         *)
(* A request is one of the routes that go through _resolve: discovery,     *)
(* JWKS, token, introspection and token/wrong-sig.  Userinfo and           *)
(* token/malformed never come here, so nothing is said of how many of them *)
(* an address may make.                                                    *)
(*                                                                         *)
(* The clock is time.time(), which an administrator or NTP may set back.   *)
(* A hit is named by its position in "accepted", which is history: the     *)
(* times of all the requests of an address that were let through.          *)
(***************************************************************************)
EXTENDS Naturals, Sequences, FiniteSets

CONSTANTS
  Addresses,
  Window,     \* _SANDBOX_RATE_WINDOW
  RateLimit,  \* _SANDBOX_RATE_LIMIT
  MaxTime,    \* bound: the clock
  MaxAccepts  \* bound: requests accepted per address

ASSUME LimiterAssumption ==
  /\ Window \in Nat \ {0}
  /\ RateLimit \in Nat \ {0}
  /\ MaxTime \in Nat
  /\ MaxAccepts \in Nat

VARIABLES
  now,       \* time.time()
  hits,      \* _sandbox_hits: the hits kept for each address
  accepted,  \* history
  steady     \* history: the clock was never set back

vars == <<now, hits, accepted, steady>>

Init ==
  /\ now = 0
  /\ hits = [a \in Addresses |-> {}]
  /\ accepted = [a \in Addresses |-> <<>>]
  /\ steady = TRUE

-----------------------------------------------------------------------------
\* Seeded fault: a hit counts until more than a window has passed.
FreshToTheEnd(a) == {k \in hits[a] : now <= accepted[a][k] + Window}

\* Seeded fault: the window ends early.
FreshTooShort(a) == {k \in hits[a] : now + 1 < accepted[a][k] + Window}

\* now - t < window, for the hits that are kept.
Fresh(a) == {k \in hits[a] : now < accepted[a][k] + Window}

\* Seeded fault: the new hit is added to the list as it was.
AcceptUnpruned(a) ==
  /\ Cardinality(Fresh(a)) < RateLimit
  /\ Len(accepted[a]) < MaxAccepts
  /\ accepted' = [accepted EXCEPT ![a] = Append(@, now)]
  /\ hits' = [hits EXCEPT ![a] = @ \cup {Len(accepted[a]) + 1}]
  /\ UNCHANGED <<now, steady>>

\* The hits that are out of the window are forgotten, the new one is kept.
Accept(a) ==
  /\ Cardinality(Fresh(a)) < RateLimit
  /\ Len(accepted[a]) < MaxAccepts
  /\ accepted' = [accepted EXCEPT ![a] = Append(@, now)]
  /\ hits' = [hits EXCEPT ![a] = Fresh(a) \cup {Len(accepted[a]) + 1}]
  /\ UNCHANGED <<now, steady>>

\* A 429 leaves everything as it is.
Refuse(a) == Cardinality(Fresh(a)) >= RateLimit /\ UNCHANGED vars

\* Time passes.
Tick ==
  /\ now < MaxTime
  /\ now' = now + 1
  /\ UNCHANGED <<hits, accepted, steady>>

\* The clock is set to an earlier time.
SetBack(t) ==
  /\ t < now
  /\ now' = t
  /\ steady' = FALSE
  /\ UNCHANGED <<hits, accepted>>

Next ==
  \/ \E a \in Addresses : Accept(a) \/ Refuse(a)
  \/ Tick
  \/ \E t \in 0..MaxTime : SetBack(t)

Spec == Init /\ [][Next]_vars

-----------------------------------------------------------------------------
\* At most RateLimit hits are kept per address, also when the clock is set back.
TypeOK ==
  /\ now \in 0..MaxTime
  /\ accepted \in [Addresses -> Seq(0..MaxTime)]
  /\ \A a \in Addresses : Len(accepted[a]) <= MaxAccepts
  /\ \A a \in Addresses : hits[a] \subseteq DOMAIN accepted[a]
  /\ \A a \in Addresses : Cardinality(hits[a]) <= RateLimit
  /\ steady \in BOOLEAN

(***************************************************************************)
(* In any window of time at most RateLimit requests of an address are let  *)
(* through the check, if the clock is not set back: a request and the      *)
(* RateLimit'th after it are a window apart (_sandbox_rate_check).         *)
(***************************************************************************)
AtMostTheLimit ==
  steady => \A a \in Addresses : \A k \in 1..Len(accepted[a]) :
              k + RateLimit <= Len(accepted[a])
                => accepted[a][k + RateLimit] >= accepted[a][k] + Window

(***************************************************************************)
(* If the clock is not set back, a request is refused exactly when the     *)
(* last RateLimit requests let through are all less than a window old:     *)
(* refused requests and those of other addresses do not count, and nothing *)
(* that does is forgotten.                                                 *)
(***************************************************************************)
Full(a) ==
  /\ Len(accepted[a]) >= RateLimit
  /\ now < accepted[a][Len(accepted[a]) - RateLimit + 1] + Window

RefusedExactlyWhenFull ==
  steady => \A a \in Addresses : Cardinality(Fresh(a)) >= RateLimit <=> Full(a)
=============================================================================
