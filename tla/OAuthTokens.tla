---------------------------- MODULE OAuthTokens ----------------------------
(***************************************************************************)
(* The OIDC provider's grants (internal/core/oidc/provider.go over the     *)
(* tables of 00014_oidc.sql), for the clients of one tenant: authorization *)
(* codes, access and refresh tokens, and the refresh-rotation family they  *)
(* belong to.                                                              *)
(*                                                                         *)
(* No handler opens a transaction: every SQL statement commits alone, so   *)
(* each is one action, and req[r].pc says which statement of its handler   *)
(* the HTTP request r executes next.  A request that changes nothing       *)
(* before it is refused is a stuttering step and is left out.              *)
(*                                                                         *)
(* Token, Code and Family are the random values still to be drawn; a       *)
(* finite set of them bounds the number of grants in a TLC run.            *)
(***************************************************************************)

CONSTANTS Client, Confidential, User, Code, Token, Family, Request, None

ASSUME ConfidentialAreClients == Confidential \subseteq Client
ASSUME NoneIsNoValue ==
    None \notin Client \cup User \cup Code \cup Token \cup Family
ASSUME OriginsDiffer == Code \cap Client = {}

VARIABLES
    clients,    \* rows of oauth_clients
    members,    \* users with a membership in the clients' tenant
    suspended,  \* tenants.suspended
    consents,   \* oauth_consents: the scope a user remembers granting a client
    codes,      \* oauth_codes: is the row there ...
    codeRow,    \* ... and what it says, from the insert on
    tokens,     \* oauth_tokens: likewise
    tokenRow,
    known,      \* tokens that left the server in a response
    origin,     \* what each family came from: a code, or a client's own grant
    replayed,   \* families the server has revoked because of a replay
    pc,         \* the next statement of each request
    job,        \* what its handler holds in local variables
    out         \* the tokens it has inserted

tenantVars == <<clients, members, suspended>>
codeVars == <<codes, codeRow>>
tokenVars == <<tokens, tokenRow>>
reqVars == <<pc, job, out>>
vars == <<tenantVars, consents, codeVars, tokenVars, known, origin, replayed, reqVars>>

\* Scopes matter here only by whether they contain offline_access.
Scope == {"basic", "offline"}

\* scopeSubset of what is wanted in what was granted.
Covers(granted, wanted) == granted = wanted \/ granted = "offline"

Codes == [client: Client, user: User, scope: Scope]
Tokens == [kind: {"access", "refresh"}, family: Family, client: Client,
           user: User \cup {None}]
Jobs == [client: Client \cup {None}, user: User \cup {None}, scope: Scope,
         family: Family \cup {None}, token: Token \cup {None}]

Job(c, u, s, f, t) ==
    [client |-> c, user |-> u, scope |-> s, family |-> f, token |-> t]
NoJob == Job(None, None, "basic", None, None)

(* A request at one of these statements has the rest of its family to revoke
   or a token to insert into it. *)
Issuing == {"rotate", "tenant", "member", "access", "refresh"}
PC == {"idle", "consent", "code", "lookup", "kill", "respond"} \cup Issuing

TablesOK ==
    /\ clients \subseteq Client
    /\ members \subseteq User
    /\ suspended \in BOOLEAN
    /\ consents \in [User \X Client -> Scope \cup {"none"}]
    /\ codes \in [Code -> {"new", "open", "gone"}]
    /\ codeRow \in [Code -> Codes \cup {None}]
    /\ tokens \in [Token -> {"new", "live", "expired", "revoked", "gone"}]
    /\ tokenRow \in [Token -> Tokens \cup {None}]
    /\ \A k \in Code : codes[k] # "new" => codeRow[k] \in Codes
    /\ \A t \in Token : tokens[t] # "new" => tokenRow[t] \in Tokens
    /\ known \subseteq Token
    /\ origin \in [Family -> Code \cup Client \cup {None}]
    /\ replayed \subseteq Family

RequestsOK ==
    /\ pc \in [Request -> PC]
    /\ job \in [Request -> Jobs]
    /\ out \in [Request -> SUBSET Token]
    /\ \A r \in Request :
        /\ pc[r] # "idle" => job[r].client \in Client
        /\ pc[r] \in {"consent", "code"} => job[r].user \in User
        /\ pc[r] \in Issuing \cup {"kill"} => job[r].family \in Family
        /\ pc[r] = "lookup" => job[r].token \in Token

TypeOK == TablesOK /\ RequestsOK

Init ==
    /\ clients = Client
    /\ members = User
    /\ suspended = FALSE
    /\ consents = [p \in User \X Client |-> "none"]
    /\ codes = [k \in Code |-> "new"]
    /\ codeRow = [k \in Code |-> None]
    /\ tokens = [t \in Token |-> "new"]
    /\ tokenRow = [t \in Token |-> None]
    /\ known = {}
    /\ origin = [f \in Family |-> None]
    /\ replayed = {}
    /\ pc = [r \in Request |-> "idle"]
    /\ job = [r \in Request |-> NoJob]
    /\ out = [r \in Request |-> {}]

-----------------------------------------------------------------------------
(* Rows and requests *)

Usable(t) == tokens[t] = "live"

\* UPDATE oauth_tokens SET revoked_at = now() WHERE ... AND revoked_at IS NULL
Revoked(S) ==
    [t \in Token |-> IF t \in S /\ tokens[t] \in {"live", "expired"}
                     THEN "revoked" ELSE tokens[t]]

FamilyTokens(f) == {t \in Token : tokens[t] # "new" /\ tokenRow[t].family = f}

Begin(r, label, j) ==
    /\ pc[r] = "idle"
    /\ pc' = [pc EXCEPT ![r] = label]
    /\ job' = [job EXCEPT ![r] = j]
    /\ UNCHANGED out

Goto(r, label) == pc' = [pc EXCEPT ![r] = label] /\ UNCHANGED <<job, out>>

End(r) ==
    /\ pc' = [pc EXCEPT ![r] = "idle"]
    /\ job' = [job EXCEPT ![r] = NoJob]
    /\ out' = [out EXCEPT ![r] = {}]

-----------------------------------------------------------------------------
(* Authorize and Consent: from a portal session to a code.  The session    *)
(* is any member's own one: an impersonated session, or a user who is not  *)
(* a member, is answered access_denied and nothing changes.                *)

Authorize(r, u, c, s) ==
    /\ c \in clients /\ u \in members
    /\ Covers(consents[<<u, c>>], s)
    /\ Begin(r, "code", Job(c, u, s, None, None))
    /\ UNCHANGED <<tenantVars, consents, codeVars, tokenVars, known, origin, replayed>>

\* The user approves on the consent page; the upsert is the next statement.
Consent(r, u, c, s) ==
    /\ c \in clients /\ u \in members
    /\ Begin(r, "consent", Job(c, u, s, None, None))
    /\ UNCHANGED <<tenantVars, consents, codeVars, tokenVars, known, origin, replayed>>

\* Mutant: the code is issued and the upsert forgotten.
StoreConsentSkipped(r) ==
    /\ pc[r] = "consent"
    /\ Goto(r, "code")
    /\ UNCHANGED <<tenantVars, consents, codeVars, tokenVars, known, origin, replayed>>

StoreConsent(r) ==
    /\ pc[r] = "consent"
    /\ consents' = [consents EXCEPT ![<<job[r].user, job[r].client>>] = job[r].scope]
    /\ Goto(r, "code")
    /\ UNCHANGED <<tenantVars, codeVars, tokenVars, known, origin, replayed>>

IssueCode(r) ==
    /\ pc[r] = "code"
    /\ \E k \in Code :
        /\ codes[k] = "new"
        /\ codes' = [codes EXCEPT ![k] = "open"]
        /\ codeRow' = [codeRow EXCEPT ![k] =
               [client |-> job[r].client, user |-> job[r].user, scope |-> job[r].scope]]
    /\ End(r)
    /\ UNCHANGED <<tenantVars, consents, tokenVars, known, origin, replayed>>

-----------------------------------------------------------------------------
(* The token endpoint *)

\* Mutant: the tokens are inserted without a family.
NewFamilyUndrawn(r, source, c, u, s) ==
    /\ Begin(r, "access", Job(c, u, s, None, None))
    /\ UNCHANGED origin

\* respondTokensFamily without a family: gen_random_uuid() draws one.
NewFamily(r, source, c, u, s) ==
    \E f \in Family :
        /\ origin[f] = None
        /\ origin' = [origin EXCEPT ![f] = source]
        /\ Begin(r, "access", Job(c, u, s, f, None))

\* Mutant: SELECT instead of DELETE .. RETURNING.
GrantCodeKept(r, c, k, matches) ==
    /\ c \in clients /\ codes[k] = "open"
    /\ codeRow[k].client = c /\ matches
    /\ NewFamily(r, k, c, codeRow[k].user, codeRow[k].scope)
    /\ UNCHANGED <<tenantVars, consents, codeVars, tokenVars, known, replayed>>

(* The code is deleted first and compared afterwards: a call by another
   client, or with the wrong redirect_uri or verifier (~matches), burns it. *)
GrantCode(r, c, k, matches) ==
    /\ pc[r] = "idle" /\ c \in clients /\ codes[k] = "open"
    /\ codes' = [codes EXCEPT ![k] = "gone"]
    /\ IF codeRow[k].client = c /\ matches
       THEN NewFamily(r, k, c, codeRow[k].user, codeRow[k].scope)
       ELSE UNCHANGED <<reqVars, origin>>
    /\ UNCHANGED <<tenantVars, consents, codeRow, tokenVars, known, replayed>>

ClientCredentials(r, c) ==
    /\ c \in clients \cap Confidential
    /\ NewFamily(r, c, c, None, "basic")
    /\ UNCHANGED <<tenantVars, consents, codeVars, tokenVars, known, replayed>>

\* WHERE token_hash = $1 AND kind = 'refresh' AND client_id = $2
IsRefreshOf(t, c) ==
    /\ tokens[t] \in {"live", "expired", "revoked"}
    /\ tokenRow[t].kind = "refresh" /\ tokenRow[t].client = c

RefreshJob(c, t) == Job(c, tokenRow[t].user, "offline", tokenRow[t].family, None)

\* Mutant: the claim forgets "AND revoked_at IS NULL".
RefreshClaimRevokedToo(r, c, t) ==
    /\ c \in clients /\ t \in known /\ IsRefreshOf(t, c) /\ tokens[t] # "expired"
    /\ tokens' = Revoked({t})
    /\ Begin(r, "rotate", RefreshJob(c, t))
    /\ UNCHANGED <<tenantVars, consents, codeVars, tokenRow, known, origin, replayed>>

\* Mutant: SELECT, to be revoked with the rest of the family afterwards.
RefreshClaimBySelect(r, c, t) ==
    /\ c \in clients /\ t \in known /\ IsRefreshOf(t, c) /\ Usable(t)
    /\ Begin(r, "rotate", RefreshJob(c, t))
    /\ UNCHANGED <<tenantVars, consents, codeVars, tokenVars, known, origin, replayed>>

\* The UPDATE .. RETURNING that one request can win.
RefreshClaim(r, c, t) ==
    /\ c \in clients /\ t \in known /\ IsRefreshOf(t, c) /\ Usable(t)
    /\ tokens' = Revoked({t})
    /\ Begin(r, "rotate", RefreshJob(c, t))
    /\ UNCHANGED <<tenantVars, consents, codeVars, tokenRow, known, origin, replayed>>

\* The same UPDATE matched no row.
RefreshMiss(r, c, t) ==
    /\ c \in clients /\ t \in known /\ ~(IsRefreshOf(t, c) /\ Usable(t))
    /\ Begin(r, "lookup", Job(c, None, "basic", None, t))
    /\ UNCHANGED <<tenantVars, consents, codeVars, tokenVars, known, origin, replayed>>

ReplayJob(r) ==
    Job(job[r].client, None, "basic", tokenRow[job[r].token].family, job[r].token)

\* Mutant: the replay lookup forgets the client_id filter.
RefreshLookupAnyClient(r) ==
    /\ pc[r] = "lookup"
    /\ IF tokens[job[r].token] = "revoked" /\ tokenRow[job[r].token].kind = "refresh"
       THEN /\ pc' = [pc EXCEPT ![r] = "kill"]
            /\ job' = [job EXCEPT ![r] = ReplayJob(r)]
            /\ UNCHANGED out
       ELSE End(r)
    /\ UNCHANGED <<tenantVars, consents, codeVars, tokenVars, known, origin, replayed>>

\* Is it a revoked refresh token of this client: a replay?
RefreshLookup(r) ==
    /\ pc[r] = "lookup"
    /\ IF IsRefreshOf(job[r].token, job[r].client) /\ tokens[job[r].token] = "revoked"
       THEN /\ pc' = [pc EXCEPT ![r] = "kill"]
            /\ job' = [job EXCEPT ![r] = ReplayJob(r)]
            /\ UNCHANGED out
       ELSE End(r)
    /\ UNCHANGED <<tenantVars, consents, codeVars, tokenVars, known, origin, replayed>>

(* Revoke the family and answer "refresh token reused - family revoked"; the
   UPDATE's error is dropped, so after a failure there (Fail) the caller is
   told the same. *)
KillFamily(r) ==
    /\ pc[r] = "kill"
    /\ tokens' = Revoked(FamilyTokens(job[r].family))
    /\ replayed' = replayed \cup {job[r].family}
    /\ End(r)
    /\ UNCHANGED <<tenantVars, consents, codeVars, tokenRow, known, origin>>

\* Mutant: the rotation leaves the family's other tokens alone.
RotateRestSkipped(r) ==
    /\ pc[r] = "rotate"
    /\ Goto(r, "tenant")
    /\ UNCHANGED <<tenantVars, consents, codeVars, tokenVars, known, origin, replayed>>

\* Rotation: what is left of the family (the access token) is revoked too.
RotateRest(r) ==
    /\ pc[r] = "rotate"
    /\ tokens' = Revoked(FamilyTokens(job[r].family))
    /\ Goto(r, "tenant")
    /\ UNCHANGED <<tenantVars, consents, codeVars, tokenRow, known, origin, replayed>>

\* active(): tenant_state, then auth_is_member.
CheckTenant(r) ==
    /\ pc[r] = "tenant"
    /\ IF suspended THEN End(r) ELSE Goto(r, "member")
    /\ UNCHANGED <<tenantVars, consents, codeVars, tokenVars, known, origin, replayed>>

CheckMember(r) ==
    /\ pc[r] = "member"
    /\ IF job[r].user \in members THEN Goto(r, "access") ELSE End(r)
    /\ UNCHANGED <<tenantVars, consents, codeVars, tokenVars, known, origin, replayed>>

Insert(r, kind, label) ==
    \E t \in Token :
        /\ tokens[t] = "new"
        /\ tokens' = [tokens EXCEPT ![t] = "live"]
        /\ tokenRow' = [tokenRow EXCEPT ![t] =
               [kind |-> kind, family |-> job[r].family, client |-> job[r].client,
                user |-> job[r].user]]
        /\ out' = [out EXCEPT ![r] = @ \cup {t}]
        /\ pc' = [pc EXCEPT ![r] = label]
        /\ UNCHANGED job

InsertAccess(r) ==
    /\ pc[r] = "access"
    /\ Insert(r, "access", IF job[r].user # None /\ job[r].scope = "offline"
                           THEN "refresh" ELSE "respond")
    /\ UNCHANGED <<tenantVars, consents, codeVars, known, origin, replayed>>

InsertRefresh(r) ==
    /\ pc[r] = "refresh"
    /\ Insert(r, "refresh", "respond")
    /\ UNCHANGED <<tenantVars, consents, codeVars, known, origin, replayed>>

\* The id_token is built from reads alone and the answer is written.
Respond(r) ==
    /\ pc[r] = "respond"
    /\ known' = known \cup out[r]
    /\ End(r)
    /\ UNCHANGED <<tenantVars, consents, codeVars, tokenVars, origin, replayed>>

(* A statement fails, the caller hangs up and its context is cancelled, or
   the process dies: the handler stops, what it committed stays, and nobody
   receives the tokens it inserted. *)
Fail(r) ==
    /\ pc[r] # "idle"
    /\ End(r)
    /\ UNCHANGED <<tenantVars, consents, codeVars, tokenVars, known, origin, replayed>>

\* RFC 7009 revocation: one UPDATE over the token's family.
Revoke(c, t) ==
    /\ c \in clients /\ t \in known /\ tokens[t] # "gone"
    /\ tokens' = Revoked({x \in FamilyTokens(tokenRow[t].family) :
                             tokenRow[x].client = c})
    /\ UNCHANGED <<tenantVars, consents, codeVars, tokenRow, known, origin, replayed,
                   reqVars>>

-----------------------------------------------------------------------------
(* What other parts of the system do to this state *)

SetMember(u) ==
    /\ members' = IF u \in members THEN members \ {u} ELSE members \cup {u}
    /\ UNCHANGED <<clients, suspended, consents, codeVars, tokenVars, known, origin,
                   replayed, reqVars>>

SetSuspended ==
    /\ suspended' = ~suspended
    /\ UNCHANGED <<clients, members, consents, codeVars, tokenVars, known, origin,
                   replayed, reqVars>>

\* DELETE of the client row and its trigger oauth_client_cleanup.
DeleteClient(c) ==
    /\ c \in clients
    /\ clients' = clients \ {c}
    /\ tokens' = [t \in Token |-> IF tokens[t] # "new" /\ tokenRow[t].client = c
                                  THEN "gone" ELSE tokens[t]]
    /\ codes' = [k \in Code |-> IF codes[k] # "new" /\ codeRow[k].client = c
                                THEN "gone" ELSE codes[k]]
    /\ consents' = [p \in User \X Client |-> IF p[2] = c THEN "none" ELSE consents[p]]
    /\ UNCHANGED <<members, suspended, codeRow, tokenRow, known, origin, replayed,
                   reqVars>>

(* Time.  Nothing tells an expired code from a deleted one.  A token expires
   or is revoked, and keeps its row, which a replay lookup can find, until a
   purge finds that it has been expired for a day; that a revoked token has
   also expired shows in nothing else. *)
ExpireCode(k) ==
    /\ codes[k] = "open"
    /\ codes' = [codes EXCEPT ![k] = "gone"]
    /\ UNCHANGED <<tenantVars, consents, codeRow, tokenVars, known, origin, replayed,
                   reqVars>>

ExpireToken(t) ==
    /\ tokens[t] = "live"
    /\ tokens' = [tokens EXCEPT ![t] = "expired"]
    /\ UNCHANGED <<tenantVars, consents, codeVars, tokenRow, known, origin, replayed,
                   reqVars>>

Purge ==
    /\ \E S \in SUBSET {t \in Token : tokens[t] \in {"expired", "revoked"}} :
        tokens' = [t \in Token |-> IF t \in S THEN "gone" ELSE tokens[t]]
    /\ UNCHANGED <<tenantVars, consents, codeVars, tokenRow, known, origin, replayed,
                   reqVars>>

-----------------------------------------------------------------------------
Authorization(r) ==
    \/ \E u \in User, c \in Client, s \in Scope :
        Authorize(r, u, c, s) \/ Consent(r, u, c, s)
    \/ StoreConsent(r) \/ IssueCode(r)

TokenRequest(r) ==
    \/ \E c \in Client, k \in Code, matches \in BOOLEAN : GrantCode(r, c, k, matches)
    \/ \E c \in Client : ClientCredentials(r, c)
    \/ \E c \in Client, t \in Token : RefreshClaim(r, c, t) \/ RefreshMiss(r, c, t)
    \/ RefreshLookup(r) \/ KillFamily(r)
    \/ RotateRest(r) \/ CheckTenant(r) \/ CheckMember(r)
    \/ InsertAccess(r) \/ InsertRefresh(r) \/ Respond(r)

Environment ==
    \/ \E c \in Client, t \in Token : Revoke(c, t)
    \/ \E u \in User : SetMember(u)
    \/ SetSuspended
    \/ \E c \in Client : DeleteClient(c)
    \/ \E k \in Code : ExpireCode(k)
    \/ \E t \in Token : ExpireToken(t)
    \/ Purge

Next ==
    \/ \E r \in Request : Authorization(r) \/ TokenRequest(r) \/ Fail(r)
    \/ Environment

Spec == Init /\ [][Next]_vars

-----------------------------------------------------------------------------
(* Properties *)

(* An authorization code starts at most one family: "one time", however many
   token requests carry it at once (grantCode, provider.go:458). *)
CodeSpentOnce ==
    \A f, g \in Family : origin[f] = origin[g] /\ origin[f] \in Code => f = g

(* A family never has two usable refresh tokens, nor two usable access
   tokens, whoever presents its tokens and however requests interleave: the
   promise of the single UPDATE in grantRefresh (provider.go:485-491). *)
OneUsablePair ==
    \A t, u \in Token :
        /\ Usable(t) /\ Usable(u)
        /\ tokenRow[t].family = tokenRow[u].family /\ tokenRow[t].kind = tokenRow[u].kind
        => t = u

(* When a refresh is refused because the member left or the tenant is
   suspended, nothing of the family is usable any more: it is closed before
   the check is made (provider.go:525-526). *)
ShutWhileChecked ==
    \A r \in Request : pc[r] \in {"tenant", "member"} =>
        \A t \in FamilyTokens(job[r].family) : ~Usable(t)

(* A token request works only on families of the client that authenticated
   it, the replay lookup included (provider.go:491, 506, 701). *)
OwnFamilyOnly ==
    \A r \in Request : \A t \in FamilyTokens(job[r].family) :
        tokenRow[t].client = job[r].client

(* A user's usable token for a registered client stands on a consent the user
   gave that client (Authorize and Consent, provider.go:248-253, 352-358). *)
ConsentBehindToken ==
    \A t \in Token :
        Usable(t) /\ tokenRow[t].user # None /\ tokenRow[t].client \in clients
        => consents[<<tokenRow[t].user, tokenRow[t].client>>] # "none"

(* What the comment at provider.go:499-501 and the schema (00014_oidc.sql:53)
   say of a replay: every token of the family is revoked. *)
ReplayRevokesFamily ==
    \A t \in Token : Usable(t) => tokenRow[t].family \notin replayed

-----------------------------------------------------------------------------
(* The detailed provider implements the abstract life of a refresh family. *)

FamilyOpen(f) ==
    \/ \E r \in Request : job[r].family = f /\ pc[r] \in Issuing
    \/ \E t \in FamilyTokens(f) : Usable(t)

RefreshTokens(f) == {t \in FamilyTokens(f) : tokenRow[t].kind = "refresh"}

CurrentRefresh(f) ==
    IF \E t \in RefreshTokens(f) : Usable(t)
    THEN CHOOSE t \in RefreshTokens(f) : Usable(t)
    ELSE None

Lineage == INSTANCE RefreshLineage WITH
    phase <- [f \in Family |-> IF origin[f] = None THEN "new"
                               ELSE IF FamilyOpen(f) THEN "open" ELSE "closed"],
    current <- [f \in Family |-> CurrentRefresh(f)],
    spent <- [f \in Family |-> {t \in RefreshTokens(f) : ~Usable(t)}]

(* Every behaviour of the provider is a behaviour of RefreshLineage: a closed
   family never opens again, and a spent refresh token is never current again. *)
RefinesLineage == Lineage!Spec

=============================================================================
