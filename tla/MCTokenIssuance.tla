--------------------------- MODULE MCTokenIssuance ---------------------------
(***************************************************************************)
(* One issuer, a user of an Entra ID tenant (alice), a user of a Cognito   *)
(* tenant (carol), a service principal that stands between services        *)
(* (gateway), one that may override claims (forger), and two with          *)
(* extra_claims: carol's sub (badge), an exp written as a text (typo).     *)
(***************************************************************************)
EXTENDS TokenIssuance

MCIssuers == {"i"}

MCNames == {"i", "i-ec"}

MCEcName == [i \in MCIssuers |-> "i-ec"]

MCUsers == {"alice", "carol"}

MCServicePrincipals == {"gateway", "forger", "badge", "typo"}

MCTenants == {"t1", "t2"}

MCAuds == {"api"}

NoExtra == [id |-> [k \in IdClaims |-> Absent], exp |-> 0, expKind |-> "absent"]

CarolsSub ==
  [id |-> [k \in IdClaims |-> IF k = "sub" THEN "carol" ELSE Absent],
   exp |-> 0, expKind |-> "absent"]

WrittenExp == [id |-> [k \in IdClaims |-> Absent], exp |-> 0, expKind |-> "numeral"]

\* No identity lists an audience.
Known(tid, provider, alg, overrides, extra) ==
  [exists |-> TRUE, secret |-> "s", tid |-> tid, provider |-> provider, alg |-> alg,
   auds |-> {}, overrides |-> overrides, extra |-> extra]

MCIds ==
  [id \in MCUsers \cup MCServicePrincipals |->
     IF id = "alice" THEN Known("t1", "entra_id", "RS256", FALSE, NoExtra)
     ELSE IF id = "carol" THEN Known("t2", "cognito", "ES256", FALSE, NoExtra)
     ELSE IF id = "gateway" THEN Known("t1", "entra_id", "RS256", FALSE, NoExtra)
     ELSE IF id = "badge" THEN Known("t1", "cognito", "ES256", FALSE, CarolsSub)
     ELSE IF id = "typo" THEN Known("t1", "entra_id", "RS256", FALSE, WrittenExp)
     ELSE Known("t1", "entra_id", "RS256", TRUE, NoExtra)]

MCApps == [a \in MCAuds |-> [app |-> FALSE, grants |-> {}]]

Conf(mode, issuerMode, hooks) ==
  [mode |-> mode, issuerMode |-> issuerMode, ids |-> MCIds, apps |-> MCApps,
   hooks |-> hooks]

\* A plain configuration for the exchange chains.
PlainConfigs == {Conf("lax", "unset", {})}

\* The steps an operator takes to make everything strict: first the issuer
\* (whose mode was neither lax nor strict, which counts for none), then the
\* server, with no mode for the issuer.
StrictConfigs ==
  {Conf("lax", "other", {}), Conf("lax", "strict", {}),
   Conf("strict", "unset", {"h1", "h2"})}

MCFaults ==
  {[mode |-> "delay_ms", skew |-> 0], [mode |-> "expired_token", skew |-> 2]}

Ask(route, grant, id, ttl) ==
  [route |-> route, grant |-> grant, id |-> id, secret |-> "s", aud |-> "api",
   ttl |-> ttl, subject |-> 0, omit |-> {}, set |-> "nothing", fail |-> FALSE]

Presenting(grant, n) == [Ask("token", grant, "gateway", 1) EXCEPT !.subject = n]

ChainJobs ==
  {Ask("token", "password", "alice", 1), Ask("wrong-sig", "password", "alice", 1),
   [Ask("token", "client_credentials", "forger", 1) EXCEPT !.set = "alice"],
   [Ask("token", "client_credentials", "forger", 1) EXCEPT !.set = "exp"],
   [Ask("token", "password", "alice", 1) EXCEPT !.omit = {"sub"}],
   Ask("token", "client_credentials", "badge", 1),
   Presenting("token-exchange", 1), Presenting("jwt-bearer", 2)}

RequestJobs ==
  {Ask("token", "password", "alice", 1),
   [Ask("token", "other", "alice", 1) EXCEPT !.fail = TRUE],
   [Ask("token", "client_credentials", "forger", 1) EXCEPT !.set = "exp"],
   Ask("token", "client_credentials", "typo", 1),
   [Presenting("token-exchange", 1) EXCEPT !.omit = {"exp"}]}
=============================================================================
