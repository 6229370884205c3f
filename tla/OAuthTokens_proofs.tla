------------------------- MODULE OAuthTokens_proofs -------------------------
(***************************************************************************)
(* What TLC checks of OAuthTokens on a few tokens, for every set of them.  *)
(***************************************************************************)
EXTENDS OAuthTokens, TLAPS

(***************************************************************************)
(* The inductive invariant.  OneUsablePair is not inductive alone: that an *)
(* insert cannot give a family a second usable token follows from what the *)
(* one request that may insert has already revoked.                        *)
(***************************************************************************)

\* What exists was given an origin first, so a family just drawn is empty.
Born ==
    /\ \A t \in Token : tokens[t] # "new" => origin[tokenRow[t].family] # None
    /\ \A r \in Request : job[r].family # None => origin[job[r].family] # None

\* Whoever may still insert into a family is alone with that right.
OneIssuer ==
    \A r, q \in Request :
        pc[r] \in Issuing /\ pc[q] \in Issuing /\ job[r].family = job[q].family
        => r = q

\* ... and no refresh token is left with which to win it.
NoneToClaim ==
    \A r \in Request : pc[r] \in Issuing =>
        \A t \in Token : Usable(t) /\ tokenRow[t].kind = "refresh"
                          => tokenRow[t].family # job[r].family

\* From RotateRest, or a new family, to the insert nothing is usable at all.
Shut ==
    \A r \in Request : pc[r] \in {"tenant", "member", "access"} =>
        \A t \in Token : Usable(t) => tokenRow[t].family # job[r].family

\* A family belongs to one client, in its tokens and in the requests on it.
OneClient ==
    /\ \A t, u \in Token :
           tokens[t] # "new" /\ tokens[u] # "new"
           /\ tokenRow[t].family = tokenRow[u].family
           => tokenRow[t].client = tokenRow[u].client
    /\ \A r, q \in Request :
           job[r].family # None /\ job[r].family = job[q].family
           => job[r].client = job[q].client

\* The code a family came from is gone.
OriginSpent ==
    \A f \in Family : origin[f] \in Code => codes[origin[f]] = "gone"

FamilyInv ==
    /\ Born /\ OneIssuer /\ NoneToClaim /\ Shut
    /\ OneUsablePair
    /\ OneClient /\ OwnFamilyOnly

CodeInv == OriginSpent /\ CodeSpentOnce

IInv == TypeOK /\ FamilyInv /\ CodeInv

-----------------------------------------------------------------------------
(* Type correctness *)

LEMMA JobTyped ==
    ASSUME NEW c \in Client \cup {None}, NEW u \in User \cup {None}, NEW s \in Scope,
           NEW f \in Family \cup {None}, NEW t \in Token \cup {None}
    PROVE  /\ Job(c, u, s, f, t) \in Jobs
           /\ Job(c, u, s, f, t).client = c
           /\ Job(c, u, s, f, t).user = u
           /\ Job(c, u, s, f, t).scope = s
           /\ Job(c, u, s, f, t).family = f
           /\ Job(c, u, s, f, t).token = t
BY DEF Job, Jobs

LEMMA NoJobTyped == NoJob \in Jobs /\ NoJob.family = None
BY JobTyped DEF NoJob, Scope

LEMMA InitTyped == Init => TypeOK
<1> SUFFICES ASSUME Init PROVE TypeOK
  OBVIOUS
<1>1. TablesOK
  BY DEF Init, TablesOK, Scope
<1>2. RequestsOK
  BY NoJobTyped DEF Init, RequestsOK, PC, Issuing
<1>3. QED
  BY <1>1, <1>2 DEF TypeOK

(* How a request's own state moves keeps its type, whatever the action. *)
LEMMA EndTyped ==
    ASSUME RequestsOK, NEW r \in Request, End(r)
    PROVE  RequestsOK'
BY NoJobTyped DEF RequestsOK, End, PC, Issuing

LEMMA GotoTyped ==
    ASSUME RequestsOK, NEW r \in Request, NEW label \in PC, Goto(r, label),
           pc[r] # "idle",
           label \in {"consent", "code"} => pc[r] = "consent",
           label \in Issuing \cup {"kill"} => pc[r] \in Issuing,
           label # "lookup"
    PROVE  RequestsOK'
BY DEF RequestsOK, Goto, PC, Issuing

LEMMA BeginTyped ==
    ASSUME RequestsOK, NEW r \in Request, NEW label \in PC,
           NEW c \in Client, NEW u \in User \cup {None}, NEW s \in Scope,
           NEW f \in Family \cup {None}, NEW t \in Token \cup {None},
           Begin(r, label, Job(c, u, s, f, t)),
           label \in {"consent", "code"} => u \in User,
           label \in Issuing \cup {"kill"} => f \in Family,
           label = "lookup" => t \in Token
    PROVE  RequestsOK'
BY JobTyped DEF RequestsOK, Begin, PC, Issuing

LEMMA RevokedTyped ==
    ASSUME TablesOK, NEW S \in SUBSET Token, tokens' = Revoked(S)
    PROVE  /\ tokens' \in [Token -> {"new", "live", "expired", "revoked", "gone"}]
           /\ \A t \in Token : tokens'[t] = "new" <=> tokens[t] = "new"
BY DEF TablesOK, Revoked

LEMMA StepTyped == TypeOK /\ [Next]_vars => TypeOK'
<1> SUFFICES ASSUME TablesOK, RequestsOK, [Next]_vars PROVE TablesOK' /\ RequestsOK'
  BY DEF TypeOK
<1> USE NoneIsNoValue DEF tenantVars, codeVars, tokenVars, reqVars
<1> DEFINE Typed == TablesOK /\ RequestsOK
<1>1. ASSUME NEW r \in Request, Authorization(r) PROVE Typed'
  <2>1. ASSUME NEW u \in User, NEW c \in Client, NEW s \in Scope,
               Authorize(r, u, c, s) \/ Consent(r, u, c, s)
        PROVE Typed'
    <3>1. TablesOK'
      BY <2>1 DEF Authorize, Consent, TablesOK
    <3>2. RequestsOK'
      BY <2>1, BeginTyped DEF Authorize, Consent, PC, Issuing
    <3>3. QED
      BY <3>1, <3>2
  <2>2. CASE StoreConsent(r)
    <3>1. TablesOK'
      BY <2>2 DEF StoreConsent, TablesOK, RequestsOK, Jobs
    <3>2. RequestsOK'
      BY <2>2, GotoTyped DEF StoreConsent, PC, Issuing
    <3>3. QED
      BY <3>1, <3>2
  <2>3. CASE IssueCode(r)
    <3>1. TablesOK'
      BY <2>3 DEF IssueCode, TablesOK, RequestsOK, Jobs, Codes
    <3>2. RequestsOK'
      BY <2>3, EndTyped DEF IssueCode
    <3>3. QED
      BY <3>1, <3>2
  <2>4. QED
    BY <1>1, <2>1, <2>2, <2>3 DEF Authorization
<1>2. ASSUME NEW r \in Request, TokenRequest(r) PROVE Typed'
  <2>1. ASSUME NEW c \in Client, NEW k \in Code, NEW matches \in BOOLEAN,
               GrantCode(r, c, k, matches)
        PROVE Typed'
    <3>1. codeRow[k] \in Codes
      BY <2>1 DEF GrantCode, TablesOK
    <3>2. TablesOK'
      BY <2>1 DEF GrantCode, NewFamily, TablesOK
    <3>3. CASE codeRow[k].client = c /\ matches
      <4>1. PICK f \in Family :
                Begin(r, "access", Job(c, codeRow[k].user, codeRow[k].scope, f, None))
        BY <2>1, <3>3 DEF GrantCode, NewFamily
      <4>2. RequestsOK'
        BY <4>1, <3>1, BeginTyped DEF Codes, PC, Issuing
      <4>3. QED
        BY <3>2, <4>2
    <3>4. CASE ~(codeRow[k].client = c /\ matches)
      BY <2>1, <3>2, <3>4 DEF GrantCode, RequestsOK
    <3>5. QED
      BY <3>3, <3>4
  <2>2. ASSUME NEW c \in Client, ClientCredentials(r, c) PROVE Typed'
    <3>1. TablesOK'
      BY <2>2 DEF ClientCredentials, NewFamily, TablesOK
    <3>2. RequestsOK'
      BY <2>2, BeginTyped DEF ClientCredentials, NewFamily, Scope, PC, Issuing
    <3>3. QED
      BY <3>1, <3>2
  <2>3. ASSUME NEW c \in Client, NEW t \in Token, RefreshClaim(r, c, t)
        PROVE Typed'
    <3>1. tokenRow[t] \in Tokens
      BY <2>3 DEF RefreshClaim, Usable, TablesOK
    <3>2. TablesOK'
      BY <2>3, RevokedTyped DEF RefreshClaim, TablesOK
    <3>3. RequestsOK'
      BY <2>3, <3>1, BeginTyped
      DEF RefreshClaim, RefreshJob, Tokens, Scope, PC, Issuing
    <3>4. QED
      BY <3>2, <3>3
  <2>4. ASSUME NEW c \in Client, NEW t \in Token, RefreshMiss(r, c, t)
        PROVE Typed'
    <3>1. TablesOK'
      BY <2>4 DEF RefreshMiss, TablesOK
    <3>2. RequestsOK'
      BY <2>4, BeginTyped DEF RefreshMiss, Scope, PC, Issuing
    <3>3. QED
      BY <3>1, <3>2
  <2>5. CASE RefreshLookup(r)
    <3>1. TablesOK'
      BY <2>5 DEF RefreshLookup, TablesOK
    <3>2. CASE End(r)
      BY <3>1, <3>2, EndTyped
    <3>3. CASE ~End(r)
      <4>1. /\ pc' = [pc EXCEPT ![r] = "kill"]
            /\ job' = [job EXCEPT ![r] = ReplayJob(r)]
            /\ out' = out
            /\ IsRefreshOf(job[r].token, job[r].client)
        BY <2>5, <3>3 DEF RefreshLookup
      <4>2. /\ job[r].token \in Token /\ job[r].client \in Client
            /\ tokenRow[job[r].token] \in Tokens
        BY <2>5, <4>1 DEF RefreshLookup, IsRefreshOf, RequestsOK, TablesOK
      <4>3. /\ ReplayJob(r) \in Jobs
            /\ ReplayJob(r).client \in Client
            /\ ReplayJob(r).family \in Family
        BY <4>2, JobTyped DEF ReplayJob, Tokens, Scope
      <4>4. RequestsOK'
        BY <4>1, <4>3 DEF RequestsOK, PC, Issuing
      <4>5. QED
        BY <3>1, <4>4
    <3>4. QED
      BY <3>2, <3>3
  <2>6. CASE KillFamily(r)
    <3>1. TablesOK'
      BY <2>6, RevokedTyped DEF KillFamily, FamilyTokens, TablesOK, RequestsOK
    <3>2. QED
      BY <2>6, <3>1, EndTyped DEF KillFamily
  <2>7. CASE RotateRest(r)
    <3>1. TablesOK'
      BY <2>7, RevokedTyped DEF RotateRest, FamilyTokens, TablesOK
    <3>2. QED
      BY <2>7, <3>1, GotoTyped DEF RotateRest, PC, Issuing
  <2>8. CASE CheckTenant(r)
    <3>1. TablesOK'
      BY <2>8 DEF CheckTenant, TablesOK
    <3>2. QED
      BY <2>8, <3>1, GotoTyped, EndTyped DEF CheckTenant, PC, Issuing
  <2>9. CASE CheckMember(r)
    <3>1. TablesOK'
      BY <2>9 DEF CheckMember, TablesOK
    <3>2. QED
      BY <2>9, <3>1, GotoTyped, EndTyped DEF CheckMember, PC, Issuing
  <2>10. CASE InsertAccess(r)
    <3>1. TablesOK'
      BY <2>10 DEF InsertAccess, Insert, TablesOK, RequestsOK, Jobs, Tokens, Issuing
    <3>2. RequestsOK'
      BY <2>10 DEF InsertAccess, Insert, RequestsOK, PC, Issuing
    <3>3. QED
      BY <3>1, <3>2
  <2>11. CASE InsertRefresh(r)
    <3>1. TablesOK'
      BY <2>11 DEF InsertRefresh, Insert, TablesOK, RequestsOK, Jobs, Tokens, Issuing
    <3>2. RequestsOK'
      BY <2>11 DEF InsertRefresh, Insert, RequestsOK, PC, Issuing
    <3>3. QED
      BY <3>1, <3>2
  <2>12. CASE Respond(r)
    <3>1. TablesOK'
      BY <2>12 DEF Respond, TablesOK, RequestsOK
    <3>2. QED
      BY <2>12, <3>1, EndTyped DEF Respond
  <2>13. QED
    BY <1>2, <2>1, <2>2, <2>3, <2>4, <2>5, <2>6, <2>7, <2>8, <2>9, <2>10,
       <2>11, <2>12 DEF TokenRequest
<1>3. ASSUME NEW r \in Request, Fail(r) PROVE Typed'
  <2>1. TablesOK'
    BY <1>3 DEF Fail, TablesOK
  <2>2. QED
    BY <1>3, <2>1, EndTyped DEF Fail
<1>4. ASSUME Environment PROVE Typed'
  <2>1. RequestsOK'
    BY <1>4 DEF Environment, Revoke, SetMember, SetSuspended, DeleteClient, ExpireCode,
                ExpireToken, Purge, RequestsOK
  <2>2. ASSUME NEW c \in Client, NEW t \in Token, Revoke(c, t) PROVE TablesOK'
    BY <2>2, RevokedTyped DEF Revoke, FamilyTokens, TablesOK
  <2>3. ASSUME NEW u \in User, SetMember(u) PROVE TablesOK'
    BY <2>3 DEF SetMember, TablesOK
  <2>4. ASSUME SetSuspended PROVE TablesOK'
    BY <2>4 DEF SetSuspended, TablesOK
  <2>5. ASSUME NEW c \in Client, DeleteClient(c) PROVE TablesOK'
    BY <2>5 DEF DeleteClient, TablesOK
  <2>6. ASSUME NEW k \in Code, ExpireCode(k) PROVE TablesOK'
    BY <2>6 DEF ExpireCode, TablesOK
  <2>7. ASSUME NEW t \in Token, ExpireToken(t) PROVE TablesOK'
    BY <2>7 DEF ExpireToken, TablesOK
  <2>8. ASSUME Purge PROVE TablesOK'
    BY <2>8 DEF Purge, TablesOK
  <2>9. QED
    BY <1>4, <2>1, <2>2, <2>3, <2>4, <2>5, <2>6, <2>7, <2>8 DEF Environment
<1>5. ASSUME UNCHANGED vars PROVE Typed'
  BY <1>5 DEF vars, TablesOK, RequestsOK
<1>6. QED
  BY <1>1, <1>2, <1>3, <1>4, <1>5 DEF Next

(* Every variable keeps its type. *)
THEOREM TypeCorrect == Spec => []TypeOK
BY InitTyped, StepTyped, PTL DEF Spec

-----------------------------------------------------------------------------
(* The families *)

\* No token is inserted, and none becomes usable.
Fading ==
    /\ tokenRow' = tokenRow
    /\ \A t \in Token : /\ tokens'[t] = "new" <=> tokens[t] = "new"
                        /\ Usable(t)' => Usable(t)

\* No request gains a family, or the right to insert into one.
Calm ==
    \A r \in Request :
        \/ pc'[r] \notin Issuing /\ job'[r].family = None
        \/ /\ job'[r] = job[r]
           /\ \/ pc'[r] = pc[r] \/ pc'[r] \notin Issuing
              \/ pc[r] \in {"tenant", "member"} /\ pc'[r] \in {"member", "access"}

LEMMA RevokedFades ==
    ASSUME TypeOK, NEW S, tokens' = Revoked(S), tokenRow' = tokenRow
    PROVE  Fading
BY DEF TypeOK, TablesOK, Revoked, Fading, Usable

(* Most actions only take usability and requests away. *)
LEMMA QuietStep ==
    ASSUME TypeOK, TypeOK', FamilyInv, Fading, Calm, origin' = origin
    PROVE  FamilyInv'
<1> USE NoneIsNoValue DEF FamilyInv, Fading, Calm
<1>1. Born'
  BY DEF Born
<1>2. OneIssuer'
  BY DEF OneIssuer, Issuing, TypeOK, RequestsOK
<1>3. NoneToClaim'
  BY DEF NoneToClaim, Issuing
<1>4. Shut'
  BY DEF Shut, Issuing
<1>5. OneUsablePair'
  BY DEF OneUsablePair
<1>6. OneClient'
  BY DEF OneClient
<1>7. OwnFamilyOnly'
  BY DEF OwnFamilyOnly, FamilyTokens, TypeOK, TablesOK, Tokens
<1>8. QED
  BY <1>1, <1>2, <1>3, <1>4, <1>5, <1>6, <1>7

(* A family just drawn has no token and no other request. *)
LEMMA NewFamilyStep ==
    ASSUME TypeOK, TypeOK', FamilyInv, NEW r \in Request, NEW source, source # None,
           NEW c \in Client, NEW u \in User \cup {None}, NEW s \in Scope,
           NewFamily(r, source, c, u, s), UNCHANGED tokenVars
    PROVE  FamilyInv'
<1> USE NoneIsNoValue DEF FamilyInv, tokenVars
<1>1. PICK f \in Family :
          /\ origin[f] = None
          /\ origin' = [origin EXCEPT ![f] = source]
          /\ Begin(r, "access", Job(c, u, s, f, None))
  BY DEF NewFamily
<1>2. /\ pc' = [pc EXCEPT ![r] = "access"]
      /\ job'[r].family = f /\ job'[r].client = c
      /\ \A q \in Request \ {r} : job'[q] = job[q]
      /\ \A g \in Family : origin'[g] = IF g = f THEN source ELSE origin[g]
  BY <1>1, JobTyped DEF Begin, TypeOK, RequestsOK, TablesOK
<1>3. /\ \A t \in Token : tokens[t] # "new" => tokenRow[t].family # f
      /\ \A q \in Request : job[q].family # f
  BY <1>1 DEF Born, TypeOK, TablesOK, Tokens
<1>4. Born'
  BY <1>2, <1>3 DEF Born, TypeOK, TablesOK, RequestsOK, Tokens, Jobs
<1>5. OneIssuer'
  BY <1>2, <1>3 DEF OneIssuer, TypeOK, RequestsOK
<1>6. NoneToClaim'
  BY <1>2, <1>3 DEF NoneToClaim, Usable, TypeOK, RequestsOK
<1>7. Shut'
  BY <1>2, <1>3 DEF Shut, Usable, TypeOK, RequestsOK
<1>8. OneUsablePair'
  BY DEF OneUsablePair, Usable
<1>9. OneClient'
  BY <1>2, <1>3 DEF OneClient
<1>10. OwnFamilyOnly'
  BY <1>2, <1>3 DEF OwnFamilyOnly, FamilyTokens
<1>11. QED
  BY <1>4, <1>5, <1>6, <1>7, <1>8, <1>9, <1>10

(* The winner of the claim takes the family's only usable refresh token, so
   nobody else could have been issuing, nor can become an issuer. *)
LEMMA RefreshClaimStep ==
    ASSUME TypeOK, TypeOK', FamilyInv, NEW r \in Request, NEW c \in Client,
           NEW t \in Token, RefreshClaim(r, c, t)
    PROVE  FamilyInv'
<1> USE NoneIsNoValue DEF FamilyInv, tokenVars
<1>1. /\ tokenRow[t] \in Tokens /\ tokenRow[t].kind = "refresh"
      /\ tokenRow[t].client = c /\ Usable(t)
      /\ tokenRow' = tokenRow /\ origin' = origin /\ pc[r] = "idle"
  BY DEF RefreshClaim, IsRefreshOf, Usable, Begin, TypeOK, TablesOK
<1>2. /\ pc' = [pc EXCEPT ![r] = "rotate"]
      /\ job'[r].family = tokenRow[t].family /\ job'[r].client = c
      /\ \A q \in Request \ {r} : job'[q] = job[q]
  BY <1>1, JobTyped
  DEF RefreshClaim, RefreshJob, Begin, Tokens, Scope, TypeOK, RequestsOK
<1>3. Fading /\ ~Usable(t)'
  BY <1>1, RevokedFades DEF RefreshClaim, Revoked, Usable
<1>4. \A x \in Token : Usable(x)' /\ tokenRow[x].kind = "refresh"
                        => tokenRow[x].family # tokenRow[t].family
  BY <1>1, <1>3 DEF OneUsablePair, Fading
<1>5. \A q \in Request : pc[q] \in Issuing => job[q].family # tokenRow[t].family
  BY <1>1 DEF NoneToClaim
<1>6. Born'
  BY <1>1, <1>2, <1>3 DEF Born, Fading, Usable
<1>7. OneIssuer'
  BY <1>2, <1>5 DEF OneIssuer, TypeOK, RequestsOK
<1>8. NoneToClaim'
  BY <1>1, <1>2, <1>3, <1>4 DEF NoneToClaim, Fading, TypeOK, RequestsOK
<1>9. Shut'
  BY <1>1, <1>2, <1>3 DEF Shut, Fading, TypeOK, RequestsOK
<1>10. OneUsablePair'
  BY <1>1, <1>3 DEF OneUsablePair, Fading
<1>11. OneClient'
  <2>1. \A q \in Request : job[q].family = tokenRow[t].family => job[q].client = c
    BY <1>1 DEF OwnFamilyOnly, FamilyTokens, Usable
  <2>2. QED
    BY <1>1, <1>2, <1>3, <2>1 DEF OneClient, Fading
<1>12. OwnFamilyOnly'
  <2>1. \A x \in FamilyTokens(tokenRow[t].family) : tokenRow[x].client = c
    BY <1>1 DEF OneClient, FamilyTokens, Usable
  <2>2. QED
    BY <1>1, <1>2, <1>3, <2>1 DEF OwnFamilyOnly, FamilyTokens, Fading
<1>13. QED
  BY <1>6, <1>7, <1>8, <1>9, <1>10, <1>11, <1>12

(* A replay lookup that finds a row takes up the row's family, and its own client. *)
LEMMA ReplayFoundStep ==
    ASSUME TypeOK, TypeOK', FamilyInv, NEW r \in Request, RefreshLookup(r), ~End(r)
    PROVE  FamilyInv'
<1> USE NoneIsNoValue DEF FamilyInv, tokenVars, codeVars
<1> DEFINE t == job[r].token
<1>1. /\ tokens' = tokens /\ tokenRow' = tokenRow /\ origin' = origin
      /\ pc' = [pc EXCEPT ![r] = "kill"]
      /\ job' = [job EXCEPT ![r] = ReplayJob(r)]
      /\ tokens[t] = "revoked" /\ tokenRow[t].client = job[r].client
      /\ t \in Token /\ job[r].client \in Client
  BY DEF RefreshLookup, IsRefreshOf, TypeOK, RequestsOK
<1>2. tokenRow[t] \in Tokens
  BY <1>1 DEF TypeOK, TablesOK
<1>3. /\ job'[r].family = tokenRow[t].family /\ job'[r].client = tokenRow[t].client
      /\ \A q \in Request \ {r} : job'[q] = job[q]
  BY <1>1, <1>2, JobTyped DEF ReplayJob, Tokens, Scope, TypeOK, RequestsOK
<1>4. Born'
  BY <1>1, <1>3 DEF Born
<1>5. OneIssuer'
  BY <1>1, <1>3 DEF OneIssuer, Issuing, TypeOK, RequestsOK
<1>6. NoneToClaim'
  BY <1>1, <1>3 DEF NoneToClaim, Usable, Issuing, TypeOK, RequestsOK
<1>7. Shut'
  BY <1>1, <1>3 DEF Shut, Usable, TypeOK, RequestsOK
<1>8. OneUsablePair'
  BY <1>1 DEF OneUsablePair, Usable
<1>9. OneClient'
  <2>1. \A q \in Request : job[q].family = tokenRow[t].family
                            => job[q].client = tokenRow[t].client
    BY <1>1 DEF OwnFamilyOnly, FamilyTokens
  <2>2. QED
    BY <1>1, <1>3, <2>1 DEF OneClient
<1>10. OwnFamilyOnly'
  BY <1>1, <1>3 DEF OwnFamilyOnly, OneClient, FamilyTokens
<1>11. QED
  BY <1>4, <1>5, <1>6, <1>7, <1>8, <1>9, <1>10

(* RotateRest leaves the family without a usable token. *)
LEMMA RotateRestStep ==
    ASSUME TypeOK, TypeOK', FamilyInv, NEW r \in Request, RotateRest(r)
    PROVE  FamilyInv'
<1> USE NoneIsNoValue DEF FamilyInv
<1>1. /\ tokens' = Revoked(FamilyTokens(job[r].family))
      /\ tokenRow' = tokenRow /\ origin' = origin /\ job' = job
      /\ pc[r] = "rotate" /\ pc' = [pc EXCEPT ![r] = "tenant"]
  BY DEF RotateRest, Goto
<1>2. Fading
  BY <1>1, RevokedFades
<1>3. \A t \in Token : tokenRow[t].family = job[r].family => ~Usable(t)'
  BY <1>1 DEF Revoked, FamilyTokens, Usable, TypeOK, TablesOK
<1>4. Born'
  BY <1>1, <1>2 DEF Born, Fading
<1>5. OneIssuer'
  BY <1>1 DEF OneIssuer, Issuing, TypeOK, RequestsOK
<1>6. NoneToClaim'
  BY <1>1, <1>2 DEF NoneToClaim, Fading, Issuing, TypeOK, RequestsOK
<1>7. Shut'
  BY <1>1, <1>2, <1>3 DEF Shut, Fading, TypeOK, RequestsOK
<1>8. OneUsablePair'
  BY <1>1, <1>2 DEF OneUsablePair, Fading
<1>9. OneClient'
  BY <1>1, <1>2 DEF OneClient, Fading
<1>10. OwnFamilyOnly'
  BY <1>1, <1>2 DEF OwnFamilyOnly, FamilyTokens, Fading
<1>11. QED
  BY <1>4, <1>5, <1>6, <1>7, <1>8, <1>9, <1>10

(* An insert gives its family the only usable token of its kind. *)
LEMMA InsertStep ==
    ASSUME TypeOK, TypeOK', FamilyInv, NEW r \in Request,
           NEW kind \in {"access", "refresh"}, NEW label \in {"refresh", "respond"},
           Insert(r, kind, label), origin' = origin,
           \/ kind = "access" /\ pc[r] = "access"
           \/ kind = "refresh" /\ pc[r] = "refresh" /\ label = "respond"
    PROVE  FamilyInv'
<1> USE NoneIsNoValue DEF FamilyInv
<1>1. PICK t \in Token :
          /\ tokens[t] = "new"
          /\ tokens' = [tokens EXCEPT ![t] = "live"]
          /\ tokenRow' = [tokenRow EXCEPT ![t] =
                 [kind |-> kind, family |-> job[r].family, client |-> job[r].client,
                  user |-> job[r].user]]
          /\ pc' = [pc EXCEPT ![r] = label]
          /\ job' = job
  BY DEF Insert
<1>2. /\ job[r].family \in Family
      /\ tokens'[t] = "live" /\ tokenRow'[t].kind = kind
      /\ tokenRow'[t].family = job[r].family /\ tokenRow'[t].client = job[r].client
      /\ \A x \in Token \ {t} : tokens'[x] = tokens[x] /\ tokenRow'[x] = tokenRow[x]
      /\ \A q \in Request \ {r} : pc'[q] = pc[q]
      /\ pc'[r] = label
  BY <1>1 DEF TypeOK, TablesOK, RequestsOK, Issuing
<1>3. \A q \in Request \ {r} : pc[q] \in Issuing => job[q].family # job[r].family
  BY <1>2 DEF OneIssuer, Issuing
<1>4. \A x \in Token : Usable(x) /\ tokenRow[x].family = job[r].family
                       => tokenRow[x].kind # kind
  BY DEF Shut, NoneToClaim, Issuing
<1>5. Born'
  BY <1>1, <1>2 DEF Born
<1>6. OneIssuer'
  BY <1>1, <1>2 DEF OneIssuer, Issuing
<1>7. NoneToClaim'
  BY <1>1, <1>2, <1>3 DEF NoneToClaim, Shut, Usable, Issuing
<1>8. Shut'
  BY <1>1, <1>2, <1>3 DEF Shut, Usable, Issuing
<1>9. OneUsablePair'
  BY <1>1, <1>2, <1>4 DEF OneUsablePair, Usable, TypeOK, TablesOK, Tokens
<1>10. OneClient'
  BY <1>1, <1>2 DEF OneClient, OwnFamilyOnly, FamilyTokens
<1>11. OwnFamilyOnly'
  BY <1>1, <1>2 DEF OneClient, OwnFamilyOnly, FamilyTokens
<1>12. QED
  BY <1>5, <1>6, <1>7, <1>8, <1>9, <1>10, <1>11

\* What a step is to the families.
Quiet == Fading /\ Calm /\ origin' = origin

Draws(r) ==
    \E source \in Code \cup Client, c \in Client, u \in User \cup {None}, s \in Scope :
        NewFamily(r, source, c, u, s) /\ UNCHANGED tokenVars

Adds(r) ==
    /\ origin' = origin
    /\ \/ pc[r] = "access" /\ \E label \in {"refresh", "respond"} : Insert(r, "access", label)
       \/ pc[r] = "refresh" /\ Insert(r, "refresh", "respond")

Kind(r) ==
    \/ Draws(r)
    \/ \E c \in Client, t \in Token : RefreshClaim(r, c, t)
    \/ RefreshLookup(r) /\ ~End(r)
    \/ RotateRest(r)
    \/ Adds(r)

LEMMA StepKinds ==
    ASSUME TypeOK, [Next]_vars PROVE Quiet \/ \E r \in Request : Kind(r)
<1> DEFINE Goal == Quiet \/ \E r \in Request : Kind(r)
<1> USE DEF tenantVars, codeVars, tokenVars, reqVars
<1>1. ASSUME NEW r \in Request, Authorization(r) PROVE Goal
  <2>1. Fading /\ origin' = origin
    BY <1>1 DEF Authorization, Authorize, Consent, StoreConsent, IssueCode, Fading, Usable
  <2>2. ASSUME NEW u \in User, NEW c \in Client, NEW s \in Scope,
               Authorize(r, u, c, s) \/ Consent(r, u, c, s)
        PROVE Calm
    BY <2>2, JobTyped, NoneIsNoValue
    DEF Authorize, Consent, Begin, Calm, Issuing, TypeOK, RequestsOK
  <2>3. CASE StoreConsent(r)
    BY <2>1, <2>3 DEF Quiet, StoreConsent, Goto, Calm, Issuing, TypeOK, RequestsOK
  <2>4. CASE IssueCode(r)
    BY <2>1, <2>4, NoJobTyped
    DEF Quiet, IssueCode, End, Calm, Issuing, TypeOK, RequestsOK
  <2>5. QED
    BY <1>1, <2>1, <2>2, <2>3, <2>4 DEF Quiet, Authorization
<1>2. ASSUME NEW r \in Request, TokenRequest(r) PROVE Goal
  <2>1. ASSUME NEW c \in Client, NEW k \in Code, NEW matches \in BOOLEAN,
               GrantCode(r, c, k, matches)
        PROVE Goal
    <3>1. codeRow[k] \in Codes /\ k # None
      BY <2>1, NoneIsNoValue DEF GrantCode, TypeOK, TablesOK
    <3>2. CASE codeRow[k].client = c /\ matches
      BY <2>1, <3>1, <3>2 DEF GrantCode, Codes, Kind, Draws
    <3>3. CASE ~(codeRow[k].client = c /\ matches)
      BY <2>1, <3>3 DEF Quiet, GrantCode, Fading, Calm, Usable
    <3>4. QED
      BY <3>2, <3>3
  <2>2. ASSUME NEW c \in Client, ClientCredentials(r, c) PROVE Goal
    <3>1. c # None
      BY NoneIsNoValue
    <3>2. QED
      BY <2>2, <3>1 DEF ClientCredentials, Scope, Kind, Draws
  <2>3. ASSUME NEW c \in Client, NEW t \in Token, RefreshClaim(r, c, t)
        PROVE Goal
    BY <2>3 DEF Kind
  <2>4. ASSUME NEW c \in Client, NEW t \in Token, RefreshMiss(r, c, t)
        PROVE Goal
    <3>1. Calm
      <4>1. Job(c, None, "basic", None, t).family = None
        BY JobTyped DEF Scope
      <4>2. pc'[r] = "lookup" /\ job'[r] = Job(c, None, "basic", None, t)
            /\ \A q \in Request \ {r} : pc'[q] = pc[q] /\ job'[q] = job[q]
        BY <2>4 DEF RefreshMiss, Begin, TypeOK, RequestsOK
      <4> QED BY <4>1, <4>2 DEF Calm, Issuing
    <3>2. QED
      BY <2>4, <3>1 DEF Quiet, RefreshMiss, Fading, Usable
  <2>5. CASE RefreshLookup(r)
    <3>1. CASE End(r)
      BY <2>5, <3>1, NoJobTyped
      DEF Quiet, RefreshLookup, End, Fading, Calm, Usable, Issuing, TypeOK, RequestsOK
    <3>2. QED
      BY <2>5, <3>1 DEF Kind
  <2>6. CASE KillFamily(r)
    <3>1. Calm
      BY <2>6, NoJobTyped DEF KillFamily, End, Calm, Issuing, TypeOK, RequestsOK
    <3>2. QED
      BY <2>6, <3>1, RevokedFades DEF Quiet, KillFamily
  <2>7. CASE RotateRest(r)
    BY <2>7 DEF Kind
  <2>8. CASE CheckTenant(r)
    <3>1. Calm
      BY <2>8, NoJobTyped DEF CheckTenant, Goto, End, Calm, Issuing, TypeOK, RequestsOK
    <3>2. QED
      BY <2>8, <3>1 DEF Quiet, CheckTenant, Fading, Usable
  <2>9. CASE CheckMember(r)
    <3>1. Calm
      BY <2>9, NoJobTyped DEF CheckMember, Goto, End, Calm, Issuing, TypeOK, RequestsOK
    <3>2. QED
      BY <2>9, <3>1 DEF Quiet, CheckMember, Fading, Usable
  <2>10. CASE InsertAccess(r)
    BY <2>10 DEF InsertAccess, Kind, Adds
  <2>11. CASE InsertRefresh(r)
    BY <2>11 DEF InsertRefresh, Kind, Adds
  <2>12. CASE Respond(r)
    BY <2>12, NoJobTyped
    DEF Quiet, Respond, End, Fading, Calm, Usable, Issuing, TypeOK, RequestsOK
  <2>13. QED
    BY <1>2, <2>1, <2>2, <2>3, <2>4, <2>5, <2>6, <2>7, <2>8, <2>9, <2>10,
       <2>11, <2>12 DEF TokenRequest
<1>3. ASSUME NEW r \in Request, Fail(r) PROVE Goal
  BY <1>3, NoJobTyped
  DEF Quiet, Fail, End, Fading, Calm, Usable, Issuing, TypeOK, RequestsOK
<1>4. CASE Environment
  <2>1. Calm /\ origin' = origin /\ tokenRow' = tokenRow
    BY <1>4 DEF Environment, Revoke, SetMember, SetSuspended, DeleteClient, ExpireCode,
                ExpireToken, Purge, Calm
  <2>2. ASSUME NEW c \in Client, NEW t \in Token, Revoke(c, t) PROVE Fading
    BY <2>1, <2>2, RevokedFades DEF Revoke
  <2>3. ASSUME NEW c \in Client, DeleteClient(c) PROVE Fading
    BY <2>1, <2>3 DEF DeleteClient, Fading, Usable
  <2>4. ASSUME NEW t \in Token, ExpireToken(t) PROVE Fading
    BY <2>1, <2>4 DEF ExpireToken, Fading, Usable, TypeOK, TablesOK
  <2>5. ASSUME Purge PROVE Fading
    BY <2>1, <2>5 DEF Purge, Fading, Usable
  <2>6. ASSUME tokens' = tokens PROVE Fading
    BY <2>1, <2>6 DEF Fading, Usable
  <2>7. Fading
    BY <1>4, <2>2, <2>3, <2>4, <2>5, <2>6
    DEF Environment, SetMember, SetSuspended, ExpireCode
  <2>8. QED
    BY <2>1, <2>7 DEF Quiet
<1>5. CASE UNCHANGED vars
  BY <1>5 DEF vars, Quiet, Fading, Calm, Usable
<1>6. QED
  BY <1>1, <1>2, <1>3, <1>4, <1>5 DEF Next

LEMMA FamilyStep == TypeOK /\ TypeOK' /\ FamilyInv /\ [Next]_vars => FamilyInv'
<1> SUFFICES ASSUME TypeOK, TypeOK', FamilyInv, [Next]_vars PROVE FamilyInv'
  OBVIOUS
<1>1. ASSUME NEW r \in Request, Draws(r) PROVE FamilyInv'
  BY <1>1, NewFamilyStep, NoneIsNoValue DEF Draws
<1>2. ASSUME NEW r \in Request, Adds(r) PROVE FamilyInv'
  BY <1>2, InsertStep DEF Adds
<1> QED
  BY <1>1, <1>2, StepKinds, QuietStep, RefreshClaimStep, ReplayFoundStep, RotateRestStep
  DEF Quiet, Kind

(* Once a code is gone it stays gone, and a family's origin is never rewritten. *)
LEMMA CodeStep == TypeOK /\ CodeInv /\ [Next]_vars => CodeInv'
<1> SUFFICES ASSUME TypeOK, CodeInv, [Next]_vars PROVE CodeInv'
  OBVIOUS
<1> USE NoneIsNoValue, OriginsDiffer DEF CodeInv, OriginSpent, CodeSpentOnce
<1> USE DEF tenantVars, codeVars, tokenVars, reqVars
<1>1. ASSUME origin' = origin, \A k \in Code : codes[k] = "gone" => codes'[k] = "gone"
      PROVE CodeInv'
  BY <1>1
<1>2. ASSUME NEW r \in Request, Authorization(r) PROVE CodeInv'
  <2>1. CASE IssueCode(r)
    BY <1>1, <2>1 DEF IssueCode, TypeOK, TablesOK
  <2>2. CASE UNCHANGED <<codes, origin>>
    BY <1>1, <2>2
  <2>3. QED
    BY <1>2, <2>1, <2>2 DEF Authorization, Authorize, Consent, StoreConsent
<1>3. ASSUME NEW r \in Request, TokenRequest(r) PROVE CodeInv'
  <2>1. ASSUME NEW c \in Client, NEW k \in Code, NEW matches \in BOOLEAN,
               GrantCode(r, c, k, matches)
        PROVE CodeInv'
    <3>1. \A g \in Family : origin[g] # k
      BY <2>1 DEF GrantCode
    <3>2. QED
      BY <2>1, <3>1 DEF GrantCode, NewFamily, TypeOK, TablesOK
  <2>2. ASSUME NEW c \in Client, ClientCredentials(r, c) PROVE CodeInv'
    BY <2>2 DEF ClientCredentials, NewFamily, TypeOK, TablesOK
  <2>3. CASE UNCHANGED <<codes, origin>>
    BY <1>1, <2>3
  <2>4. QED
    BY <1>3, <2>1, <2>2, <2>3
    DEF TokenRequest, RefreshClaim, RefreshMiss, RefreshLookup, KillFamily, RotateRest,
        CheckTenant, CheckMember, InsertAccess, InsertRefresh, Respond
<1>4. ASSUME NEW r \in Request, Fail(r) PROVE CodeInv'
  BY <1>1, <1>4 DEF Fail
<1>5. CASE Environment
  <2>1. origin' = origin
    BY <1>5 DEF Environment, Revoke, SetMember, SetSuspended, DeleteClient, ExpireCode,
                ExpireToken, Purge
  <2>2. ASSUME NEW c \in Client, DeleteClient(c) PROVE CodeInv'
    BY <1>1, <2>1, <2>2 DEF DeleteClient
  <2>3. ASSUME NEW k \in Code, ExpireCode(k) PROVE CodeInv'
    BY <1>1, <2>1, <2>3 DEF ExpireCode, TypeOK, TablesOK
  <2>4. ASSUME codes' = codes PROVE CodeInv'
    BY <1>1, <2>1, <2>4
  <2>5. QED
    BY <1>5, <2>2, <2>3, <2>4
    DEF Environment, Revoke, SetMember, SetSuspended, ExpireToken, Purge
<1>6. CASE UNCHANGED vars
  BY <1>1, <1>6 DEF vars
<1>7. QED
  BY <1>2, <1>3, <1>4, <1>5, <1>6 DEF Next

LEMMA Inductive == Spec => []IInv
<1>1. Init => IInv
  <2> SUFFICES ASSUME Init PROVE IInv
    OBVIOUS
  <2>1. TypeOK
    BY InitTyped
  <2>2. FamilyInv
    BY NoJobTyped, NoneIsNoValue
    DEF Init, FamilyInv, Born, OneIssuer, NoneToClaim, Shut, OneUsablePair, OneClient,
        OwnFamilyOnly, FamilyTokens, Usable, Issuing
  <2>3. CodeInv
    BY NoneIsNoValue DEF Init, CodeInv, OriginSpent, CodeSpentOnce
  <2>4. QED
    BY <2>1, <2>2, <2>3 DEF IInv
<1>2. IInv /\ [Next]_vars => IInv'
  BY StepTyped, FamilyStep, CodeStep DEF IInv
<1>3. QED
  BY <1>1, <1>2, PTL DEF Spec

(* However many requests present the same code or refresh token at once, for
   any number of clients, users and requests: one family per code, *)
THEOREM CodesSpentOnce == Spec => []CodeSpentOnce
BY Inductive, PTL DEF IInv, CodeInv

(* one usable refresh token and one usable access token per family, *)
THEOREM OneUsablePairAlways == Spec => []OneUsablePair
BY Inductive, PTL DEF IInv, FamilyInv

(* nothing usable in a family whose refresh is about to be refused, *)
THEOREM RefusedIsShut == Spec => []ShutWhileChecked
<1>1. IInv => ShutWhileChecked
  BY DEF IInv, FamilyInv, Shut, ShutWhileChecked, FamilyTokens
<1>2. QED
  BY <1>1, Inductive, PTL

(* and no request that works on another client's family. *)
THEOREM OwnFamilyAlways == Spec => []OwnFamilyOnly
BY Inductive, PTL DEF IInv, FamilyInv

-----------------------------------------------------------------------------
(* Consent.  Whatever can become a token of a user, an open code or a      *)
(* request on its way, stands on the user's consent as the token will.     *)

\* A deleted client takes its consents along; nobody can ask in its name again.
Allowed(u, c) == c \in clients => consents[<<u, c>>] # "none"

CodesBacked ==
    \A k \in Code : codes[k] = "open" => Allowed(codeRow[k].user, codeRow[k].client)

Asks(r) == pc[r] = "code" \/ (pc[r] \in Issuing /\ job[r].user # None)

RequestsBacked == \A r \in Request : Asks(r) => Allowed(job[r].user, job[r].client)

Backed == CodesBacked /\ RequestsBacked /\ ConsentBehindToken

\* A consent is replaced by another one, and goes only with its client.
LEMMA AllowedStays ==
    ASSUME TypeOK, [Next]_vars, NEW u \in User, NEW c \in Client, Allowed(u, c)
    PROVE  Allowed(u, c)'
<1> USE DEF Allowed, tenantVars, codeVars, tokenVars, reqVars
<1>1. CASE clients' = clients /\ consents' = consents
  BY <1>1
<1>2. ASSUME NEW r \in Request, StoreConsent(r) PROVE Allowed(u, c)'
  <2>1. job[r].user \in User /\ job[r].client \in Client /\ job[r].scope \in Scope
    BY <1>2 DEF StoreConsent, TypeOK, RequestsOK, Jobs
  <2> QED BY <1>2, <2>1 DEF StoreConsent, Scope, TypeOK, TablesOK
<1>3. ASSUME NEW d \in Client, DeleteClient(d) PROVE Allowed(u, c)'
  BY <1>3 DEF DeleteClient
<1>4. ASSUME NEW r \in Request, Authorization(r) PROVE Allowed(u, c)'
  BY <1>1, <1>2, <1>4 DEF Authorization, Authorize, Consent, IssueCode
<1>5. ASSUME NEW r \in Request, TokenRequest(r) \/ Fail(r)
      PROVE clients' = clients /\ consents' = consents
  BY <1>5 DEF TokenRequest, GrantCode, ClientCredentials, RefreshClaim, RefreshMiss,
      RefreshLookup, KillFamily, RotateRest, CheckTenant, CheckMember, InsertAccess,
      InsertRefresh, Respond, Fail
<1>6. CASE Environment
  BY <1>1, <1>3, <1>6 DEF Environment, Revoke, SetMember, SetSuspended, ExpireCode,
      ExpireToken, Purge
<1> QED BY <1>1, <1>4, <1>5, <1>6 DEF Next, vars

\* An open code was open before or comes from a request that asked for it.
LEMMA CodesStayBacked ==
    ASSUME TypeOK, Backed, [Next]_vars PROVE CodesBacked'
<1> SUFFICES ASSUME NEW k \in Code, codes'[k] = "open"
             PROVE  Allowed(codeRow[k].user, codeRow[k].client)'
  BY DEF CodesBacked
<1> USE DEF tenantVars, codeVars, tokenVars, reqVars
<1>1. CASE codes[k] = "open" /\ codeRow'[k] = codeRow[k]
  <2>1. codeRow[k].user \in User /\ codeRow[k].client \in Client
    BY <1>1 DEF TypeOK, TablesOK, Codes
  <2>2. Allowed(codeRow[k].user, codeRow[k].client)
    BY <1>1 DEF Backed, CodesBacked
  <2>3. \A u \in User, c \in Client : Allowed(u, c) => Allowed(u, c)'
    BY AllowedStays
  <2> QED BY <1>1, <2>1, <2>2, <2>3 DEF Allowed
<1>2. ASSUME NEW r \in Request, IssueCode(r)
      PROVE  Allowed(codeRow[k].user, codeRow[k].client)'
  <2>1. CASE codes[k] = "open"
    BY <1>1, <1>2, <2>1 DEF IssueCode, TypeOK, TablesOK
  <2>2. CASE codes[k] # "open"
    <3>1. codeRow'[k].user = job[r].user /\ codeRow'[k].client = job[r].client
      BY <1>2, <2>2 DEF IssueCode, TypeOK, TablesOK
    <3>2. Allowed(job[r].user, job[r].client)
      BY <1>2 DEF IssueCode, Backed, RequestsBacked, Asks
    <3> QED BY <1>2, <3>1, <3>2 DEF IssueCode, Allowed
  <2> QED BY <2>1, <2>2
<1>3. CASE codeRow' = codeRow /\ (codes'[k] = "open" => codes[k] = "open")
  BY <1>1, <1>3
<1>4. ASSUME NEW r \in Request, Authorization(r)
      PROVE  Allowed(codeRow[k].user, codeRow[k].client)'
  BY <1>2, <1>3, <1>4 DEF Authorization, Authorize, Consent, StoreConsent
<1>5. ASSUME NEW r \in Request, TokenRequest(r) \/ Fail(r)
      PROVE  codeRow' = codeRow /\ (codes'[k] = "open" => codes[k] = "open")
  <2>1. ASSUME NEW c \in Client, NEW m \in Code, NEW matches \in BOOLEAN,
               GrantCode(r, c, m, matches)
        PROVE  codeRow' = codeRow /\ (codes'[k] = "open" => codes[k] = "open")
    BY <2>1 DEF GrantCode, TypeOK, TablesOK
  <2> QED BY <1>5, <2>1 DEF TokenRequest, ClientCredentials, RefreshClaim, RefreshMiss,
      RefreshLookup, KillFamily, RotateRest, CheckTenant, CheckMember, InsertAccess,
      InsertRefresh, Respond, Fail
<1>6. CASE Environment
  BY <1>3, <1>6 DEF Environment, Revoke, SetMember, SetSuspended, DeleteClient,
      ExpireCode, ExpireToken, Purge, TypeOK, TablesOK
<1> QED BY <1>3, <1>4, <1>5, <1>6 DEF Next, vars

(* A request asks because it did before, because it is the portal user's own
   and the consent covers it or was just stored, or for a code or a token. *)
LEMMA AskedBefore ==
    ASSUME TypeOK, [Next]_vars, NEW r \in Request, Asks(r)'
    PROVE  \/ Asks(r) /\ job'[r] = job[r]
           \/ /\ job'[r].user \in User /\ job'[r].client \in Client
              /\ consents'[<<job'[r].user, job'[r].client>>] # "none"
           \/ \E k \in Code :
                  /\ codes[k] = "open"
                  /\ job'[r].user = codeRow[k].user /\ job'[r].client = codeRow[k].client
           \/ \E t \in Token :
                  /\ Usable(t) /\ tokenRow[t].user # None
                  /\ job'[r].user = tokenRow[t].user
                  /\ job'[r].client = tokenRow[t].client
<1> DEFINE Goal ==
      \/ Asks(r) /\ job'[r] = job[r]
      \/ /\ job'[r].user \in User /\ job'[r].client \in Client
         /\ consents'[<<job'[r].user, job'[r].client>>] # "none"
      \/ \E k \in Code :
             /\ codes[k] = "open"
             /\ job'[r].user = codeRow[k].user /\ job'[r].client = codeRow[k].client
      \/ \E t \in Token :
             /\ Usable(t) /\ tokenRow[t].user # None
             /\ job'[r].user = tokenRow[t].user /\ job'[r].client = tokenRow[t].client
<1> USE NoneIsNoValue DEF tenantVars, codeVars, tokenVars, reqVars
<1>1. CASE pc'[r] = pc[r] /\ job'[r] = job[r]
  BY <1>1 DEF Asks
<1>2. ASSUME NEW q \in Request, q # r, Authorization(q) \/ TokenRequest(q) \/ Fail(q)
      PROVE  Goal
  BY <1>1, <1>2 DEF Authorization, Authorize, Consent, StoreConsent, IssueCode,
      TokenRequest, GrantCode, ClientCredentials, NewFamily, RefreshClaim, RefreshMiss,
      RefreshLookup, KillFamily, RotateRest, CheckTenant, CheckMember, InsertAccess,
      InsertRefresh, Insert, Respond, Fail, Begin, Goto, End, TypeOK, RequestsOK
<1>3. CASE Authorization(r)
  <2>1. ASSUME NEW u \in User, NEW c \in Client, NEW s \in Scope, Authorize(r, u, c, s)
        PROVE  Goal
    <3>1. job'[r].user = u /\ job'[r].client = c
      BY <2>1, JobTyped DEF Authorize, Begin, TypeOK, RequestsOK
    <3>2. consents'[<<u, c>>] # "none"
      BY <2>1 DEF Authorize, Covers, Scope
    <3> QED BY <3>1, <3>2
  <2>2. ASSUME NEW u \in User, NEW c \in Client, NEW s \in Scope, Consent(r, u, c, s)
        PROVE  FALSE
    BY <2>2 DEF Consent, Begin, Asks, Issuing, TypeOK, RequestsOK
  <2>3. CASE StoreConsent(r)
    <3>1. job[r].user \in User /\ job[r].client \in Client /\ job[r].scope \in Scope
      BY <2>3 DEF StoreConsent, TypeOK, RequestsOK, Jobs
    <3> QED BY <2>3, <3>1 DEF StoreConsent, Goto, Scope, TypeOK, TablesOK
  <2>4. CASE IssueCode(r)
    BY <2>4 DEF IssueCode, End, Asks, Issuing, TypeOK, RequestsOK
  <2> QED BY <1>3, <2>1, <2>2, <2>3, <2>4 DEF Authorization
<1>4. CASE TokenRequest(r) \/ Fail(r)
  <2>1. ASSUME NEW c \in Client, NEW k \in Code, NEW matches \in BOOLEAN,
               GrantCode(r, c, k, matches)
        PROVE  Goal
    <3>1. CASE codeRow[k].client = c /\ matches
      <4>1. codeRow[k].user \in User /\ codeRow[k].scope \in Scope /\ codes[k] = "open"
        BY <2>1 DEF GrantCode, TypeOK, TablesOK, Codes
      <4>2. PICK f \in Family : Begin(r, "access",
                                      Job(c, codeRow[k].user, codeRow[k].scope, f, None))
        BY <2>1, <3>1 DEF GrantCode, NewFamily
      <4>3. job'[r].user = codeRow[k].user /\ job'[r].client = c
        BY <4>1, <4>2, JobTyped DEF Begin, TypeOK, RequestsOK
      <4> QED BY <3>1, <4>1, <4>3
    <3>2. CASE ~(codeRow[k].client = c /\ matches)
      BY <1>1, <2>1, <3>2 DEF GrantCode
    <3> QED BY <3>1, <3>2
  <2>2. ASSUME NEW c \in Client, ClientCredentials(r, c) PROVE FALSE
    <3>1. PICK f \in Family : Begin(r, "access", Job(c, None, "basic", f, None))
      BY <2>2 DEF ClientCredentials, NewFamily
    <3>2. job'[r].user = None /\ pc'[r] = "access"
      BY <3>1, JobTyped DEF Begin, Scope, TypeOK, RequestsOK
    <3> QED BY <3>2 DEF Asks
  <2>3. ASSUME NEW c \in Client, NEW t \in Token, RefreshClaim(r, c, t) PROVE Goal
    <3>1. /\ tokenRow[t].user \in User \cup {None} /\ tokenRow[t].family \in Family
          /\ tokenRow[t].client = c /\ Usable(t)
      BY <2>3 DEF RefreshClaim, IsRefreshOf, Usable, TypeOK, TablesOK, Tokens
    <3>2. job'[r].user = tokenRow[t].user /\ job'[r].client = c /\ pc'[r] = "rotate"
      BY <2>3, <3>1, JobTyped
      DEF RefreshClaim, RefreshJob, Begin, Scope, TypeOK, RequestsOK
    <3> QED BY <3>1, <3>2 DEF Asks
  <2>4. ASSUME NEW c \in Client, NEW t \in Token, RefreshMiss(r, c, t) PROVE FALSE
    BY <2>4 DEF RefreshMiss, Begin, Asks, Issuing, TypeOK, RequestsOK
  <2>5. CASE RefreshLookup(r) \/ KillFamily(r) \/ Respond(r) \/ Fail(r)
    BY <2>5 DEF RefreshLookup, KillFamily, Respond, Fail, End, Asks, Issuing, TypeOK,
        RequestsOK
  <2>6. CASE RotateRest(r) \/ CheckTenant(r) \/ CheckMember(r)
             \/ InsertAccess(r) \/ InsertRefresh(r)
    <3>1. CASE End(r)
      BY <3>1 DEF End, Asks, Issuing, TypeOK, RequestsOK
    <3>2. pc[r] \in Issuing /\ (End(r) \/ job' = job)
      BY <2>6 DEF RotateRest, CheckTenant, CheckMember, InsertAccess, InsertRefresh,
          Insert, Goto, Issuing
    <3>3. CASE job' = job /\ pc'[r] # "code"
      BY <3>2, <3>3 DEF Asks
    <3>4. CASE pc'[r] = "code"
      BY <2>6, <3>4 DEF RotateRest, CheckTenant, CheckMember, InsertAccess,
          InsertRefresh, Insert, Goto, End, TypeOK, RequestsOK
    <3> QED BY <3>1, <3>2, <3>3, <3>4
  <2> QED
    BY <1>4, <2>1, <2>2, <2>3, <2>4, <2>5, <2>6 DEF TokenRequest
<1>5. CASE Environment
  BY <1>1, <1>5 DEF Environment, Revoke, SetMember, SetSuspended, DeleteClient,
      ExpireCode, ExpireToken, Purge
<1> QED BY <1>1, <1>2, <1>3, <1>4, <1>5 DEF Next, vars

LEMMA RequestsStayBacked ==
    ASSUME TypeOK, TypeOK', Backed, [Next]_vars PROVE RequestsBacked'
<1> SUFFICES ASSUME NEW r \in Request, Asks(r)'
             PROVE  Allowed(job[r].user, job[r].client)'
  BY DEF RequestsBacked
<1>1. job'[r].user \in User /\ job'[r].client \in Client
  BY DEF Asks, TypeOK, RequestsOK, Jobs, Issuing
<1>2. Allowed(job'[r].user, job'[r].client) => Allowed(job[r].user, job[r].client)'
  BY <1>1, AllowedStays DEF Allowed
<1>3. CASE Allowed(job'[r].user, job'[r].client)
  BY <1>2, <1>3
<1>4. CASE consents'[<<job'[r].user, job'[r].client>>] # "none"
  BY <1>4 DEF Allowed
<1> QED
  BY <1>3, <1>4, AskedBefore
  DEF Backed, RequestsBacked, CodesBacked, ConsentBehindToken, Allowed

\* A token is inserted by a request that asks, and keeps what its row says.
LEMMA TokensStayBacked ==
    ASSUME TypeOK, TypeOK', Backed, [Next]_vars PROVE ConsentBehindToken'
<1> SUFFICES ASSUME NEW t \in Token, Usable(t)', tokenRow'[t].user # None
             PROVE  Allowed(tokenRow[t].user, tokenRow[t].client)'
  BY DEF ConsentBehindToken, Allowed
<1>1. tokenRow'[t].user \in User /\ tokenRow'[t].client \in Client
  BY DEF Usable, TypeOK, TablesOK, Tokens
<1>2. ASSUME Allowed(tokenRow'[t].user, tokenRow'[t].client)
      PROVE  Allowed(tokenRow[t].user, tokenRow[t].client)'
  BY <1>1, <1>2, AllowedStays DEF Allowed
<1>3. CASE Usable(t) /\ tokenRow'[t] = tokenRow[t]
  BY <1>2, <1>3 DEF Backed, ConsentBehindToken, Allowed
<1>4. ASSUME NEW r \in Request, Adds(r)
      PROVE  Allowed(tokenRow[t].user, tokenRow[t].client)'
  <2>1. CASE tokens[t] # "new"
    BY <1>3, <1>4, <2>1 DEF Adds, Insert, Usable, TypeOK, TablesOK
  <2>2. CASE tokens[t] = "new"
    <3>1. /\ tokenRow'[t].user = job[r].user /\ tokenRow'[t].client = job[r].client
          /\ pc[r] \in Issuing
      BY <1>4, <2>2 DEF Adds, Insert, Usable, Issuing, TypeOK, TablesOK
    <3> QED BY <1>2, <3>1 DEF Backed, RequestsBacked, Asks
  <2> QED BY <2>1, <2>2
<1>5. CASE Fading
  BY <1>3, <1>5 DEF Fading
<1>6. ASSUME NEW r \in Request, Kind(r), ~Adds(r) PROVE Fading
  <2>1. CASE tokens' = tokens /\ tokenRow' = tokenRow
    BY <2>1 DEF Fading, Usable
  <2>2. CASE tokenRow' = tokenRow /\ \E S : tokens' = Revoked(S)
    BY <2>2, RevokedFades
  <2> QED
    BY <1>6, <2>1, <2>2 DEF Kind, Draws, RefreshClaim, RefreshLookup, RotateRest, tokenVars
<1> QED BY <1>4, <1>5, <1>6, StepKinds DEF Quiet

(* No token of a user works for a client that the user has not consented to,
   however authorizations, refreshes and deletions of clients interleave. *)
THEOREM ConsentAlwaysBehind == Spec => []ConsentBehindToken
<1>1. Init => Backed
  BY NoJobTyped, NoneIsNoValue
  DEF Init, Backed, CodesBacked, RequestsBacked, ConsentBehindToken, Asks, Usable, Issuing
<1>2. TypeOK /\ TypeOK' /\ Backed /\ [Next]_vars => Backed'
  BY CodesStayBacked, RequestsStayBacked, TokensStayBacked DEF Backed
<1>3. Backed => ConsentBehindToken
  BY DEF Backed
<1> QED BY TypeCorrect, <1>1, <1>2, <1>3, PTL DEF Spec

-----------------------------------------------------------------------------
(* The refinement.  Each step of the provider is, for each family, a step  *)
(* of its life or nothing.                                                 *)

Phase(f) == IF origin[f] = None THEN "new" ELSE IF FamilyOpen(f) THEN "open" ELSE "closed"
Spent(f) == {t \in RefreshTokens(f) : ~Usable(t)}

Opens(f) ==
    /\ Phase(f) = "new" /\ Phase(f)' = "open"
    /\ CurrentRefresh(f)' = None /\ Spent(f)' = {}
Hands(f) ==
    /\ Phase(f) = "open" /\ Phase(f)' = "open"
    /\ CurrentRefresh(f) = None /\ CurrentRefresh(f)' \in Token \ Spent(f)
    /\ Spent(f)' = Spent(f)
Spends(f) ==
    /\ Phase(f) = "open" /\ Phase(f)' \in {"open", "closed"}
    /\ CurrentRefresh(f) # None /\ CurrentRefresh(f)' = None
    /\ Spent(f)' = Spent(f) \cup {CurrentRefresh(f)}
Closes(f) ==
    /\ Phase(f) = "open" /\ Phase(f)' = "closed"
    /\ CurrentRefresh(f) = None /\ CurrentRefresh(f)' = None /\ Spent(f)' = Spent(f)
Stays(f) ==
    /\ Phase(f)' = Phase(f)
    /\ CurrentRefresh(f)' = CurrentRefresh(f) /\ Spent(f)' = Spent(f)

Lives(f) == Stays(f) \/ Opens(f) \/ Hands(f) \/ Spends(f) \/ Closes(f)

\* The one usable refresh token, if there is one.
Current ==
    IInv => \A f \in Family :
        /\ \A t \in RefreshTokens(f) : Usable(t) => CurrentRefresh(f) = t
        /\ (\A t \in RefreshTokens(f) : ~Usable(t)) => CurrentRefresh(f) = None

LEMMA CurrentIs == Current
<1> SUFFICES ASSUME IInv, NEW f \in Family
             PROVE  /\ \A t \in RefreshTokens(f) : Usable(t) => CurrentRefresh(f) = t
                    /\ (\A t \in RefreshTokens(f) : ~Usable(t)) => CurrentRefresh(f) = None
  BY DEF Current
<1>1. ASSUME NEW t \in RefreshTokens(f), Usable(t) PROVE CurrentRefresh(f) = t
  <2>1. \A u \in RefreshTokens(f) : Usable(u) => u = t
    BY <1>1 DEF IInv, FamilyInv, OneUsablePair, RefreshTokens, FamilyTokens
  <2>2. CurrentRefresh(f) \in RefreshTokens(f) /\ Usable(CurrentRefresh(f))
    BY <1>1 DEF CurrentRefresh
  <2> QED BY <2>1, <2>2
<1> QED BY <1>1 DEF CurrentRefresh

LEMMA CurrentIsNext == Current'
BY CurrentIs, PTL

\* A step that inserts nothing and gives no closed family a request that may.
LEMMA FadingLives ==
    ASSUME IInv, IInv', Fading, origin' = origin, NEW f \in Family,
           FamilyOpen(f)' => FamilyOpen(f)
    PROVE  Lives(f)
<1> DEFINE R == RefreshTokens(f)
<1>1. FamilyTokens(f)' = FamilyTokens(f) /\ RefreshTokens(f)' = R
  BY DEF Fading, RefreshTokens, FamilyTokens
<1>2. \A t \in R : t \in Token /\ t # None /\ t \in FamilyTokens(f) /\ (Usable(t)' => Usable(t))
  BY NoneIsNoValue DEF Fading, RefreshTokens, FamilyTokens
<1>3. \A t, u \in R : Usable(t) /\ Usable(u) => t = u
  BY DEF IInv, FamilyInv, OneUsablePair, RefreshTokens, FamilyTokens
<1>4. /\ \A t \in R : Usable(t) => CurrentRefresh(f) = t
      /\ (\A t \in R : ~Usable(t)) => CurrentRefresh(f) = None
  BY CurrentIs DEF Current
<1>5. /\ \A t \in R : Usable(t)' => CurrentRefresh(f)' = t
      /\ (\A t \in R : ~Usable(t)') => CurrentRefresh(f)' = None
  BY <1>1, CurrentIsNext DEF Current
<1>6. Spent(f) = {t \in R : ~Usable(t)} /\ Spent(f)' = {t \in R : ~Usable(t)'}
  BY <1>1 DEF Spent
<1>7. origin[f] # None => /\ Phase(f) = IF FamilyOpen(f) THEN "open" ELSE "closed"
                          /\ Phase(f)' = IF FamilyOpen(f)' THEN "open" ELSE "closed"
  BY DEF Phase
<1> HIDE DEF R
<1>8. CASE \E t \in R : Usable(t)
  <2>1. PICK t \in R : Usable(t)
    BY <1>8
  <2>2. FamilyOpen(f) /\ origin[f] # None
    BY <1>2, <2>1 DEF FamilyOpen, FamilyTokens, IInv, FamilyInv, Born
  <2>3. CASE Usable(t)'
    <3>1. FamilyOpen(f)'
      BY <1>1, <1>2, <2>1, <2>3 DEF FamilyOpen
    <3>2. Spent(f)' = Spent(f)
      BY <1>2, <1>3, <1>6, <2>1, <2>3
    <3> QED BY <1>4, <1>5, <1>7, <2>1, <2>2, <2>3, <3>1, <3>2 DEF Lives, Stays
  <2>4. CASE ~Usable(t)'
    <3>1. \A u \in R : ~Usable(u)'
      BY <1>2, <1>3, <2>1, <2>4
    <3>2. Spent(f)' = Spent(f) \cup {t}
      BY <1>3, <1>6, <2>1, <3>1
    <3> QED BY <1>2, <1>4, <1>5, <1>7, <2>1, <2>2, <3>1, <3>2 DEF Lives, Spends
  <2> QED BY <2>3, <2>4
<1>9. CASE \A t \in R : ~Usable(t)
  <2>1. \A t \in R : ~Usable(t)'
    BY <1>2, <1>9
  <2>2. /\ CurrentRefresh(f) = None /\ CurrentRefresh(f)' = None
        /\ Spent(f)' = Spent(f)
    BY <1>4, <1>5, <1>6, <1>9, <2>1
  <2>3. CASE origin[f] = None
    <3>1. Phase(f)' = Phase(f)
      BY <2>3 DEF Phase
    <3> QED BY <2>2, <3>1 DEF Lives, Stays
  <2> QED BY <1>7, <2>2, <2>3 DEF Lives, Stays, Closes
<1> QED BY <1>8, <1>9

LEMMA QuietKeepsClosed ==
    ASSUME Fading, Calm, NEW f \in Family, FamilyOpen(f)' PROVE FamilyOpen(f)
<1>1. ASSUME NEW r \in Request, job'[r].family = f, pc'[r] \in Issuing PROVE FamilyOpen(f)
  <2>1. f # None
    BY NoneIsNoValue
  <2>2. job[r].family = f /\ pc[r] \in Issuing
    BY <1>1, <2>1 DEF Calm, Issuing
  <2> QED BY <2>2 DEF FamilyOpen
<1>2. ASSUME NEW t \in FamilyTokens(f)', Usable(t)' PROVE FamilyOpen(f)
  BY <1>2 DEF Fading, FamilyTokens, FamilyOpen
<1> QED BY <1>1, <1>2 DEF FamilyOpen

\* Nothing of the family changes, nor who may insert into it.
LEMMA SameLives ==
    ASSUME IInv, IInv', NEW f \in Family,
           origin'[f] = origin[f],
           FamilyTokens(f)' = FamilyTokens(f),
           \A t \in FamilyTokens(f) : tokens'[t] = tokens[t] /\ tokenRow'[t] = tokenRow[t],
           (\E r \in Request : job'[r].family = f /\ pc'[r] \in Issuing)
             <=> (\E r \in Request : job[r].family = f /\ pc[r] \in Issuing)
    PROVE  Lives(f)
<1>1. FamilyOpen(f)' <=> FamilyOpen(f)
  BY DEF FamilyOpen, Usable
<1>2. Phase(f)' = Phase(f)
  BY <1>1 DEF Phase
<1>3. RefreshTokens(f)' = RefreshTokens(f)
      /\ \A t \in RefreshTokens(f) : Usable(t)' <=> Usable(t)
  BY DEF RefreshTokens, Usable
<1>4. Spent(f)' = Spent(f)
  BY <1>3 DEF Spent
<1>5. CurrentRefresh(f)' = CurrentRefresh(f)
  BY <1>3, CurrentIs, CurrentIsNext DEF Current
<1> QED BY <1>2, <1>4, <1>5 DEF Lives, Stays

LEMMA DrawLives ==
    ASSUME IInv, IInv', NEW r \in Request, Draws(r), NEW g \in Family PROVE Lives(g)
<1> USE NoneIsNoValue
<1>1. PICK source \in Code \cup Client, c \in Client, u \in User \cup {None}, s \in Scope,
           f \in Family :
          /\ origin[f] = None /\ origin' = [origin EXCEPT ![f] = source]
          /\ Begin(r, "access", Job(c, u, s, f, None)) /\ UNCHANGED tokenVars
  BY DEF Draws, NewFamily
<1>2. /\ pc[r] = "idle" /\ pc'[r] = "access" /\ job'[r].family = f
      /\ \A q \in Request \ {r} : job'[q] = job[q] /\ pc'[q] = pc[q]
      /\ origin'[f] = source /\ \A h \in Family \ {f} : origin'[h] = origin[h]
  BY <1>1, JobTyped DEF Begin, IInv, TypeOK, RequestsOK, TablesOK
<1>3. tokens' = tokens /\ tokenRow' = tokenRow /\ FamilyTokens(g)' = FamilyTokens(g)
  BY <1>1 DEF tokenVars, FamilyTokens
<1>4. CASE g = f
  <2>1. FamilyTokens(f) = {}
    BY <1>1 DEF IInv, FamilyInv, Born, FamilyTokens
  <2>2. Phase(f) = "new"
    BY <1>1 DEF Phase
  <2>3. FamilyOpen(f)'
    BY <1>2 DEF FamilyOpen, Issuing
  <2>4. Phase(f)' = "open"
    BY <1>2, <2>3 DEF Phase
  <2>5. RefreshTokens(f)' = {}
    BY <1>3, <1>4, <2>1 DEF RefreshTokens
  <2>6. CurrentRefresh(f)' = None /\ Spent(f)' = {}
    BY <2>5, CurrentIsNext DEF Current, Spent
  <2> QED BY <1>4, <2>2, <2>4, <2>6 DEF Lives, Opens
<1>5. CASE g # f
  <2>1. (\E q \in Request : job'[q].family = g /\ pc'[q] \in Issuing)
          <=> (\E q \in Request : job[q].family = g /\ pc[q] \in Issuing)
    BY <1>2, <1>5 DEF Issuing
  <2> QED BY <1>2, <1>3, <1>5, <2>1, SameLives
<1> QED BY <1>4, <1>5

LEMMA AddLives ==
    ASSUME IInv, IInv', NEW r \in Request, Adds(r), NEW g \in Family PROVE Lives(g)
<1> USE NoneIsNoValue
<1>1. PICK kind \in {"access", "refresh"}, label \in {"refresh", "respond"} :
          /\ Insert(r, kind, label) /\ pc[r] = kind /\ origin' = origin
          /\ kind = "refresh" => label = "respond"
  BY DEF Adds
<1>2. PICK t \in Token :
          /\ tokens[t] = "new"
          /\ tokens' = [tokens EXCEPT ![t] = "live"]
          /\ tokenRow' = [tokenRow EXCEPT ![t] =
                 [kind |-> kind, family |-> job[r].family, client |-> job[r].client,
                  user |-> job[r].user]]
          /\ pc' = [pc EXCEPT ![r] = label] /\ job' = job
  BY <1>1 DEF Insert
<1>3. /\ job[r].family \in Family
      /\ tokens'[t] = "live" /\ tokenRow'[t].kind = kind /\ tokenRow'[t].family = job[r].family
      /\ \A x \in Token \ {t} : tokens'[x] = tokens[x] /\ tokenRow'[x] = tokenRow[x]
      /\ pc'[r] = label /\ \A q \in Request \ {r} : pc'[q] = pc[q]
  BY <1>1, <1>2 DEF IInv, TypeOK, TablesOK, RequestsOK, Issuing
<1>4. CASE g # job[r].family
  <2>1. FamilyTokens(g)' = FamilyTokens(g) /\ t \notin FamilyTokens(g)
    BY <1>2, <1>3, <1>4 DEF FamilyTokens
  <2>2. \A x \in FamilyTokens(g) : tokens'[x] = tokens[x] /\ tokenRow'[x] = tokenRow[x]
    BY <1>3, <2>1 DEF FamilyTokens
  <2>3. (\E q \in Request : job'[q].family = g /\ pc'[q] \in Issuing)
          <=> (\E q \in Request : job[q].family = g /\ pc[q] \in Issuing)
    BY <1>2, <1>3, <1>4
  <2> QED BY <1>1, <2>1, <2>2, <2>3, SameLives
<1>5. CASE g = job[r].family
  <2>1. FamilyOpen(g) /\ FamilyOpen(g)'
    BY <1>1, <1>2, <1>3, <1>5 DEF FamilyOpen, FamilyTokens, Usable, Issuing
  <2>2. origin[g] # None /\ Phase(g) = "open" /\ Phase(g)' = "open"
    BY <1>1, <1>5, <2>1 DEF IInv, FamilyInv, Born, Phase
  <2>3. \A x \in RefreshTokens(g) : ~Usable(x)
    BY <1>1, <1>5
    DEF IInv, FamilyInv, Shut, NoneToClaim, RefreshTokens, FamilyTokens, Issuing
  <2>4. CurrentRefresh(g) = None
    BY <2>3, CurrentIs DEF Current
  <2>5. t \notin RefreshTokens(g)
        /\ RefreshTokens(g)' = RefreshTokens(g) \cup (IF kind = "refresh" THEN {t} ELSE {})
    BY <1>2, <1>3, <1>5 DEF RefreshTokens, FamilyTokens
  <2>6. \A x \in RefreshTokens(g) : ~Usable(x)'
    BY <1>3, <2>3, <2>5 DEF Usable, RefreshTokens, FamilyTokens
  <2>7. Usable(t)'
    BY <1>3 DEF Usable
  <2>8. Spent(g)' = Spent(g)
    BY <2>3, <2>5, <2>6, <2>7 DEF Spent
  <2>9. CASE kind = "access"
    <3>1. CurrentRefresh(g)' = None
      BY <2>5, <2>6, <2>9, CurrentIsNext DEF Current
    <3> QED BY <2>2, <2>4, <2>8, <3>1 DEF Lives, Stays
  <2>10. CASE kind = "refresh"
    <3>1. CurrentRefresh(g)' = t
      BY <2>5, <2>7, <2>10, CurrentIsNext DEF Current
    <3>2. t \in Token \ Spent(g)
      BY <2>5 DEF Spent
    <3> QED BY <2>2, <2>4, <2>8, <3>1, <3>2 DEF Lives, Hands
  <2> QED BY <2>9, <2>10
<1> QED BY <1>4, <1>5

LEMMA OtherKindsLive ==
    ASSUME IInv, IInv', NEW r \in Request, NEW f \in Family,
           \/ \E c \in Client, t \in Token : RefreshClaim(r, c, t)
           \/ RefreshLookup(r) /\ ~End(r)
           \/ RotateRest(r)
    PROVE  Lives(f)
<1> USE NoneIsNoValue
<1>1. ASSUME NEW c \in Client, NEW t \in Token, RefreshClaim(r, c, t) PROVE Lives(f)
  <2>1. Fading /\ origin' = origin
    BY <1>1, RevokedFades DEF RefreshClaim, IInv
  <2>2. /\ Usable(t) /\ t \in FamilyTokens(tokenRow[t].family) /\ tokenRow[t] \in Tokens
        /\ job'[r].family = tokenRow[t].family /\ pc[r] = "idle"
        /\ \A q \in Request \ {r} : job'[q] = job[q] /\ pc'[q] = pc[q]
    BY <1>1, JobTyped
    DEF RefreshClaim, RefreshJob, Begin, Usable, FamilyTokens, Tokens, Scope, IInv, TypeOK,
        TablesOK, RequestsOK
  <2>3. FamilyOpen(f)' => FamilyOpen(f)
    <3>1. ASSUME NEW q \in Request, job'[q].family = f, pc'[q] \in Issuing PROVE FamilyOpen(f)
      BY <2>2, <3>1 DEF FamilyOpen
    <3>2. ASSUME NEW x \in FamilyTokens(f)', Usable(x)' PROVE FamilyOpen(f)
      BY <2>1, <3>2 DEF Fading, FamilyTokens, FamilyOpen
    <3> QED BY <3>1, <3>2 DEF FamilyOpen
  <2> QED BY <2>1, <2>3, FadingLives
<1>2. CASE RefreshLookup(r) /\ ~End(r)
  <2>1. Fading /\ origin' = origin
    BY <1>2 DEF RefreshLookup, Fading, Usable, tokenVars
  <2>2. pc'[r] = "kill" /\ \A q \in Request \ {r} : job'[q] = job[q] /\ pc'[q] = pc[q]
    BY <1>2 DEF RefreshLookup, IInv, TypeOK, RequestsOK
  <2>3. FamilyOpen(f)' => FamilyOpen(f)
    BY <2>1, <2>2 DEF Fading, FamilyTokens, FamilyOpen, Issuing
  <2> QED BY <2>1, <2>3, FadingLives
<1>3. CASE RotateRest(r)
  <2>1. Fading /\ origin' = origin
    BY <1>3, RevokedFades DEF RotateRest, IInv
  <2>2. pc[r] = "rotate" /\ job' = job /\ \A q \in Request \ {r} : pc'[q] = pc[q]
    BY <1>3 DEF RotateRest, Goto, IInv, TypeOK, RequestsOK
  <2>3. FamilyOpen(f)' => FamilyOpen(f)
    BY <2>1, <2>2 DEF Fading, FamilyTokens, FamilyOpen, Issuing
  <2> QED BY <2>1, <2>3, FadingLives
<1> QED BY <1>1, <1>2, <1>3

LEMMA StepLives ==
    ASSUME IInv, IInv', [Next]_vars, NEW f \in Family PROVE Lives(f)
<1>1. CASE Quiet
  BY <1>1, QuietKeepsClosed, FadingLives DEF Quiet
<1>2. ASSUME NEW r \in Request, Kind(r) PROVE Lives(f)
  BY <1>2, DrawLives, AddLives, OtherKindsLive DEF Kind
<1> QED BY <1>1, <1>2, StepKinds DEF IInv

\* Whatever the requests do, each family is opened once, has one current
\* refresh token at a time, takes no spent one back and stays closed.
THEOREM Implements == Spec => RefinesLineage
<1>1. Init => Lineage!Init
  <2> SUFFICES ASSUME Init PROVE Lineage!Init
    OBVIOUS
  <2>1. \A f \in Family : RefreshTokens(f) = {} /\ origin[f] = None
    BY DEF Init, RefreshTokens, FamilyTokens
  <2>2. \A f \in Family : CurrentRefresh(f) = None
    BY <2>1 DEF CurrentRefresh
  <2> QED BY <2>1, <2>2 DEF Lineage!Init
<1>2. IInv /\ IInv' /\ [Next]_vars => Lineage!Next
  <2> SUFFICES ASSUME IInv, IInv', [Next]_vars PROVE Lineage!Next
    OBVIOUS
  <2> SUFFICES ASSUME NEW f \in Family PROVE Lineage!Next!(f)
    BY DEF Lineage!Next
  <2> QED
    BY StepLives
    DEF Lives, Stays, Opens, Hands, Spends, Closes, Phase, Spent,
        Lineage!Same, Lineage!Open, Lineage!Hand, Lineage!Spend, Lineage!Close
<1> QED BY Inductive, <1>1, <1>2, PTL DEF RefinesLineage, Lineage!Spec, Spec

\* What the life of a family keeps: a family that is not open has no token that
\* can be exchanged, and no token is both spent and current.
LifeInv(f) ==
    /\ Phase(f) \in {"new", "open", "closed"}
    /\ Phase(f) = "new" => Spent(f) = {}
    /\ Phase(f) # "open" => CurrentRefresh(f) = None
    /\ CurrentRefresh(f) \notin Spent(f)
    /\ Spent(f) \subseteq Token

LEMMA LifeKept ==
    ASSUME NEW f \in Family, LifeInv(f), Lives(f) PROVE LifeInv(f)'
<1>1. Spent(f)' \subseteq Token /\ None \notin Token /\ Phase(f)' \in {"new", "open", "closed"}
  BY NoneIsNoValue DEF Spent, RefreshTokens, FamilyTokens, Phase
<1> QED BY <1>1 DEF LifeInv, Lives, Stays, Opens, Hands, Spends, Closes

\* Once a family is closed nobody can exchange a token of it again, and a token
\* that has been exchanged, revoked or has expired is never the current one again,
\* whatever the requests of its holders, thieves and administrators do at once.
THEOREM ClosedForGood ==
    Spec => [][\A f \in Family :
                  /\ Phase(f) = "closed" => Phase(f)' = "closed" /\ CurrentRefresh(f)' = None
                  /\ \A t \in Spent(f) : t \in Spent(f)' /\ CurrentRefresh(f)' # t]_vars
<1> DEFINE Stay == \A f \in Family :
                  /\ Phase(f) = "closed" => Phase(f)' = "closed" /\ CurrentRefresh(f)' = None
                  /\ \A t \in Spent(f) : t \in Spent(f)' /\ CurrentRefresh(f)' # t
           LInv == \A f \in Family : LifeInv(f)
<1>1. Init => LInv
  <2> SUFFICES ASSUME Init, NEW f \in Family PROVE LifeInv(f)
    OBVIOUS
  <2>1. RefreshTokens(f) = {} /\ origin[f] = None
    BY DEF Init, RefreshTokens, FamilyTokens
  <2> QED BY <2>1 DEF LifeInv, CurrentRefresh, Spent, Phase
<1>2. IInv /\ IInv' /\ LInv /\ [Next]_vars => LInv'
  BY StepLives, LifeKept
<1>3. IInv /\ IInv' /\ LInv /\ LInv' /\ [Next]_vars => [Stay]_vars
  <2> SUFFICES ASSUME IInv, IInv', LInv, LInv', [Next]_vars, NEW f \in Family
               PROVE  /\ Phase(f) = "closed" => Phase(f)' = "closed" /\ CurrentRefresh(f)' = None
                      /\ \A t \in Spent(f) : t \in Spent(f)' /\ CurrentRefresh(f)' # t
    OBVIOUS
  <2>1. LifeInv(f) /\ LifeInv(f)' /\ Lives(f)
    BY StepLives
  <2>2. Spent(f) \subseteq Spent(f)'
    BY <2>1 DEF LifeInv, Lives, Stays, Opens, Hands, Spends, Closes
  <2>3. Phase(f) = "closed" => Phase(f)' = "closed"
    BY <2>1 DEF Lives, Stays, Opens, Hands, Spends, Closes
  <2> QED BY <2>1, <2>2, <2>3 DEF LifeInv
<1> QED BY Inductive, <1>1, <1>2, <1>3, PTL DEF Spec

-----------------------------------------------------------------------------
(* A replay *)

LEMMA OnlyInsertsAdd ==
    ASSUME TypeOK, [Next]_vars PROVE Fading \/ \E r \in Request : Adds(r)
<1>1. ASSUME NEW r \in Request, Draws(r) PROVE Fading
  BY <1>1 DEF Draws, Fading, Usable, tokenVars
<1>2. ASSUME NEW r \in Request, NEW c \in Client, NEW t \in Token, RefreshClaim(r, c, t)
      PROVE Fading
  BY <1>2, RevokedFades DEF RefreshClaim
<1>3. ASSUME NEW r \in Request, RefreshLookup(r) PROVE Fading
  BY <1>3 DEF RefreshLookup, Fading, Usable, tokenVars
<1>4. ASSUME NEW r \in Request, RotateRest(r) PROVE Fading
  BY <1>4, RevokedFades DEF RotateRest
<1> QED BY StepKinds, <1>1, <1>2, <1>3, <1>4 DEF Quiet, Kind

LEMMA OnlyKillsMark ==
    ASSUME [Next]_vars PROVE replayed' = replayed \/ \E r \in Request : KillFamily(r)
<1>1. ASSUME NEW r \in Request, Authorization(r) PROVE replayed' = replayed
  BY <1>1 DEF Authorization, Authorize, Consent, StoreConsent, IssueCode
<1>2. ASSUME NEW r \in Request, TokenRequest(r), ~KillFamily(r) PROVE replayed' = replayed
  BY <1>2 DEF TokenRequest, GrantCode, ClientCredentials, RefreshClaim, RefreshMiss,
              RefreshLookup, RotateRest, CheckTenant, CheckMember, InsertAccess,
              InsertRefresh, Respond
<1>3. ASSUME NEW r \in Request, Fail(r) PROVE replayed' = replayed
  BY <1>3 DEF Fail
<1>4. CASE Environment
  BY <1>4 DEF Environment, Revoke, SetMember, SetSuspended, DeleteClient, ExpireCode,
              ExpireToken, Purge
<1>5. CASE UNCHANGED vars
  BY <1>5 DEF vars
<1> QED BY <1>1, <1>2, <1>3, <1>4, <1>5 DEF Next

LEMMA KilledTokens ==
    ASSUME TypeOK, NEW r \in Request, KillFamily(r)
    PROVE  /\ Fading
           /\ \A t \in Token : tokenRow'[t].family = job[r].family => ~Usable(t)'
<1>1. tokens' = Revoked(FamilyTokens(job[r].family)) /\ tokenRow' = tokenRow
  BY DEF KillFamily
<1>2. Fading
  BY <1>1, RevokedFades
<1>3. \A t \in Token : tokenRow[t].family = job[r].family => ~Usable(t)'
  BY <1>1 DEF Revoked, FamilyTokens, Usable, TypeOK, TablesOK
<1> QED BY <1>1, <1>2, <1>3

\* What the comment in grantRefresh says of a replay is broken in one way only:
\* by a request that has won its claim, or drawn its family, before the replay
\* was noticed, and inserts a token after the family was revoked.
THEOREM ReplayBrokenByInsert ==
    Spec => [][ReplayRevokesFamily /\ ~ReplayRevokesFamily' =>
                  \E r \in Request : Adds(r) /\ job[r].family \in replayed]_vars
<1>1. ASSUME IInv, [Next]_vars, ReplayRevokesFamily, ~ReplayRevokesFamily'
      PROVE  \E r \in Request : Adds(r) /\ job[r].family \in replayed
  <2>1. PICK t \in Token : Usable(t)' /\ tokenRow'[t].family \in replayed'
    BY <1>1 DEF ReplayRevokesFamily
  <2>2. TypeOK
    BY <1>1 DEF IInv
  <2>3. replayed' = replayed
    <3> SUFFICES ASSUME NEW r \in Request, KillFamily(r) PROVE FALSE
      BY <1>1, OnlyKillsMark
    <3>1. Usable(t) /\ tokenRow[t].family \in replayed
      BY <2>1, <2>2, KilledTokens DEF Fading, KillFamily
    <3> QED BY <1>1, <3>1 DEF ReplayRevokesFamily
  <2>4. ~Fading
    BY <1>1, <2>1, <2>3 DEF Fading, ReplayRevokesFamily
  <2>5. PICK r \in Request : Adds(r)
    BY <1>1, <2>2, <2>4, OnlyInsertsAdd
  <2>6. PICK x \in Token :
            \E kind \in {"access", "refresh"} :
                /\ tokens' = [tokens EXCEPT ![x] = "live"]
                /\ tokenRow' = [tokenRow EXCEPT ![x] =
                       [kind |-> kind, family |-> job[r].family,
                        client |-> job[r].client, user |-> job[r].user]]
    BY <2>5 DEF Adds, Insert
  <2>7. /\ tokenRow'[x].family = job[r].family
        /\ \A y \in Token \ {x} : tokens'[y] = tokens[y] /\ tokenRow'[y] = tokenRow[y]
    BY <2>2, <2>6 DEF TypeOK, TablesOK
  <2>8. t = x
    BY <1>1, <2>1, <2>3, <2>7 DEF ReplayRevokesFamily, Usable
  <2> QED BY <2>1, <2>3, <2>5, <2>7, <2>8
<1>2. IInv /\ [Next]_vars =>
          [ReplayRevokesFamily /\ ~ReplayRevokesFamily' =>
              \E r \in Request : Adds(r) /\ job[r].family \in replayed]_vars
  BY <1>1
<1> QED BY Inductive, <1>2, PTL DEF Spec

\* A replay that meets no such request does what the comment says, for good:
\* the family is closed, and by ClosedForGood stays so.
THEOREM QuietReplayCloses ==
    Spec => [][\A r \in Request, f \in Family :
                  /\ KillFamily(r) /\ job[r].family = f
                  /\ \A q \in Request : pc[q] \in Issuing => job[q].family # f
                  => Phase(f)' = "closed"]_vars
<1>1. ASSUME IInv, NEW r \in Request, NEW f \in Family, KillFamily(r), job[r].family = f,
             \A q \in Request : pc[q] \in Issuing => job[q].family # f
      PROVE  Phase(f)' = "closed"
  <2>1. origin'[f] # None
    BY <1>1, NoneIsNoValue DEF KillFamily, IInv, FamilyInv, Born
  <2>2. \A q \in Request : ~(job'[q].family = f /\ pc'[q] \in Issuing)
    BY <1>1 DEF KillFamily, End, Issuing, IInv, TypeOK, RequestsOK
  <2>3. \A t \in FamilyTokens(f)' : ~Usable(t)'
    BY <1>1, KilledTokens DEF FamilyTokens, IInv
  <2>4. ~FamilyOpen(f)'
    BY <2>2, <2>3 DEF FamilyOpen
  <2> QED BY <2>1, <2>4 DEF Phase
<1>2. IInv /\ [Next]_vars =>
          [\A r \in Request, f \in Family :
              /\ KillFamily(r) /\ job[r].family = f
              /\ \A q \in Request : pc[q] \in Issuing => job[q].family # f
              => Phase(f)' = "closed"]_vars
  BY <1>1
<1> QED BY Inductive, <1>2, PTL DEF Spec
=============================================================================
