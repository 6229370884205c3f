# nexus-mini: a TLA+ model

nexus-mini is the core of a multi-tenant platform: a Go API server over one
PostgreSQL database, with as many server processes as a deployment starts, and
two Next.js front ends, the portal of the tenants and the panel of the
platform. What is hard in the server is what happens *between* SQL statements:
handlers that are transactions at READ COMMITTED, or no transaction at all;
caches that each process fills by itself; notifications that may be lost;
processes that start, fail and are upgraded while others serve. What is hard in
the front ends is what happens between a request and its answer: answers that
overtake each other, a session that another tab or another person changes, a
screen that is made of two answers. This directory models those parts in TLA+,
checks them with TLC on small instances and proves their safety
properties with TLAPS for every size.

Paths of Go and SQL files below are relative to `src/backend/`, those of pages
to `src/`. `PROJECT.json` lists, for every definition, the lines it stands for.

Running it: `tlc -workers 2 -config X.cfg M.tla` for a row of the table of
runs, `tlapm M_proofs.tla` for a proof module.

## 1. Inventory

| component | source | state it keeps | operations | in the model |
|---|---|---|---|---|
| OIDC provider | `internal/core/oidc/provider.go`, `00014_oidc.sql` | `oauth_clients`, `oauth_codes`, `oauth_tokens`, `oauth_consents` | authorize, consent, token (code, refresh, client credentials), revoke, introspect, purge | `OAuthTokens`, `RefreshLineage` |
| Audit log | `internal/core/audit/audit.go`, `00005`, `00006`, `00018` | `audit_log`: a hash chain per tenant | append, verify | `AuditChain`, `AuditLog` |
| Members and roles | `internal/core/handlers/rbac.go`, `rbac/seed.go` | `memberships`, `roles`, `membership_roles`, `role_permissions` | add, set roles, remove; create role, set grants | `Members` |
| Tenant state | `handlers/admin.go`, `tenantstate/tenantstate.go`, `auth/auth.go` (`RequireTenant`) | `tenants.suspended_at`, `read_only`, `deletion_scheduled_at`; a 30 s cache per process | set state, schedule / cancel / sweep deletion, the gate of each request | `TenantLifecycle` |
| Event bus | `internal/core/bus/bus.go` | LISTEN/NOTIFY, no state | publish, deliver, lose | in `TenantLifecycle` |
| App store | `appstore/appstore.go`, `rbac/seed.go`, `handlers/store.go` | `permissions`, `apps`, `app_installations`, default grants | Sync at start, Install, enable / disable, default grants | `AppStore` |
| Portal pages | `frontend/app/(portal)/*`, `frontend/lib/use-resource.ts`, `frontend/components/states.tsx` | per tab: rows, an error, a dialog, requests in flight | load, search, edit, save, delete, retry | `Pages` |
| Module pages | `backend/apps/*/ui/pages` | the same | the same | `Pages` |
| Panel pages | `admin/app/(panel)/*` | the same | the same | `Pages` |
| Portal shell, login, sign-up, setup | `frontend/components/shell.tsx`, `usermenu.tsx`, `password-gate.tsx`, `middleware.ts`, `app/login`, `signup`, `setup`, `org/new` | per tab: a screen, what the last load learned; shared by the tabs: a cookie | load (me, select, menu), switch, sign in and out, change a password, found a tenant | `Portal` |
| Panel shell and login | `admin/components/shell.tsx`, `admin/app/login` | the same | load (me), sign in and out | `Portal` |
| Sessions and login | `auth/auth.go`, `handlers/auth.go`, `profile.go`, `00008`, `00012`, `00017` | `sessions`, `handover_tokens`, lockout columns of `users` | login, lockout, handover, impersonation, change of password | as the server behind `Portal`, one step each; the gate of a request in `TenantLifecycle` |
| Signup, first run | `handlers/auth.go`, `handlers/setup.go`, `core/migrate.go`, `00015`, `00019` | `users`, `tenants`, `users.platform_admin` | sign up, set up | their results, in `Portal` |
| Signing keys, grants cache, SSO client, registry client, organisation and devices handlers, module SDK, passwords, configuration, CLI, public pages, dictionaries | see `PROJECT.json` | | | section 7 |

How they meet. Every request passes `Resolve` (the session), `RequireTenant`
(the tenant's state, through its cache), the app gate (another cache) and
`Require` (grants, a third cache). Handlers change tables, in a transaction of
`TenantDB.Tx` or statement by statement, then call `Invalidate` on a cache,
which publishes on the bus, then append to the audit log in a transaction of
its own. The OIDC provider reads memberships and the tenant's state on every
use of a token. `Sync` runs in every process before it serves. The shell of a
front end asks who the user is and what the menu shows, and mounts a page in
it; a page sends requests in the name of whatever session the cookie has by
then; a page that changed what the shell shows has it load again.

What makes each correct, and what is hard about it:

- **OIDC.** A code starts one family; a family has one usable pair of tokens; a
  closed family never opens again; a client touches only its own. Hard: no
  handler has a transaction, and requests carrying the same token interleave
  with revocation, expiry, purge, deletion of the client and each other.
- **Audit.** The chain verifies at every moment, times follow ids, tampering
  shows. Hard: appends in parallel, an advisory lock, ids from a sequence,
  transactions that roll back after drawing one.
- **Members.** A tenant keeps an admin, nobody gains a role that the giver does
  not hold, a role set replaces the old one. Hard: READ COMMITTED, where a
  statement sees what others committed before it started and no later.
- **Tenant state.** A suspended tenant lets nothing through, soon; a scheduled
  deletion happens. Hard: a query that straddles the invalidation, lost
  notifications, a process that dies between its statements.
- **App store.** A new permission reaches the tenants that have its app, once,
  and no start undoes an administrator's edits. Hard: several processes of
  several releases in `Sync` at once, failing anywhere, against installs.
- **Pages.** The rows are never older than rows already shown, a confirmed
  change is kept and shown, a failure does not look like an empty list, a page
  comes to rest. Hard: a dozen pages that load in six ways, answers out of
  order, writes refused after they were applied, bodies made from rows that
  are no longer the newest.
- **Shells.** What the shell names is the session its pages write with; the
  reason it gives for a refusal is true; it neither spins nor loops. Hard: a
  load of three requests whose first answer is shown after the last, two tabs
  with one cookie, a session that ends at any moment.

## 2. The order of the work

The most important behaviour first: the server's protocols, where a mistake is
lost data or a right that nobody gave (`OAuthTokens` over `RefreshLineage`,
`AuditChain` over `AuditLog`, `Members`, `TenantLifecycle` with the bus,
`AppStore`), then what users see of them (`Pages`, one machine for all pages,
and `Portal`, which composes the shells, the tabs of a browser and the session
at the server). Each module got its types, its invariants and a run, then the
proofs of section 6, which are modules of their own. The abstract
specifications are the two that a component promises to others: the life of a
refresh family and the list that an audit log is.

## 3. The modules

In every module a statement that commits alone is one action; `pc` says which
statement a request executes next; a request that changes nothing before it is
refused is a stutter and left out; a caller that hangs up, a statement that
fails and a process that dies are one action that stops the handler where it
is. Mutants, each marked `\* Mutant:`, stand before the definition they are a
plausible bug of; no specification uses them.

### OAuthTokens, RefreshLineage

State: the four tables, `members` and `suspended` of the tenant, and per
request its statement (`pc`), its local variables (`job`) and the tokens it has
inserted (`out`); `known` are the tokens that left the server. `origin` and
`replayed` are history.

- `Authorize`, `Consent`, `StoreConsent`, `IssueCode`: from a portal session to
  a code, with or without a remembered consent.
- `GrantCode`: `DELETE .. RETURNING` first and the comparison afterwards, so a
  wrong client or verifier burns the code. It has no check of the membership: a
  member removed while the code lives still gets tokens and an id_token, which
  each use of the access token then refuses.
- `RefreshClaim` / `RefreshMiss`, `RefreshLookup`, `KillFamily`: the `UPDATE` that
  one request can win, and what the others do. `KillFamily` drops its error.
- `RotateRest`, `CheckTenant`, `CheckMember`, `InsertAccess`, `InsertRefresh`,
  `Respond`: the rest of a rotation. The other grants start at `InsertAccess`.
- `Revoke`, `DeleteClient` (with its trigger), `ExpireCode`, `ExpireToken`,
  `Purge`, `SetMember`, `SetSuspended`: what may happen between any two.

Scopes matter only by whether they contain `offline_access`. A client deleted
while a request of its own is in flight leaves tokens without a client, which
nothing can use; `ConsentBehindToken` therefore speaks of registered clients.

`RefreshLineage` is what rotation promises without statements: a family opens
once, has one current refresh token, never takes back a spent one, and stays
closed. `RefinesLineage` maps `OAuthTokens` to it.

### AuditChain, AuditLog

`audit_append` statement by statement: `Lock` (the advisory lock of the
tenant), `ReadPrev`, `ReadClock`, `Insert` (an id of the identity sequence,
which is not given back), `Commit`, or `Abort` anywhere. `rows` is what each id
says, `visible` which are committed. The hash is the tuple of what is hashed,
so that different contents have different hashes, which is SHA-256's assumption
and not something shown here. `Fits` is the loop body of `audit_verify`.
`TamperEvident` speaks of whatever rows are left: ids have holes, because an
append that rolls back does not give its id back, so only links and hashes show
what is missing. `AuditLog` is a list per tenant that only grows at its end;
`RefinesLog` maps the table to it. What a handler changed and the entry about it are two
transactions: a crash in between loses the entry, which the code accepts.

### Members

`AddMember`, `SetMemberRoles` and `RemoveMember`, each one transaction at READ
COMMITTED. `held` and `members` are committed; `del` and `ins` are the rows of
a transaction that others do not see; `DeleteRoles` / `DeletedRoles` split a
`DELETE` into the snapshot it takes and the rows it finds after waiting.
Statements that meet a row of an open transaction wait. A role row that was
deleted and inserted again is another row to a statement that saw the first one
(`Forget`). `met` are the open
changes of members that have met another open change, `clash` those that met
one of the same member: history for `AdminKept` and `ChangeReplaces`, which say
what such a meeting can break and that nothing else can. A member added without
roles gets the role `user`, as in the code; an empty set given to an existing
member leaves none.

Left out: the grants cache (`mine` is what the actor holds when the request
starts), roles that a tenant defines itself, and a second membership of a user
that was removed. `Managing` has the manager role as in a tenant that gave it
`core.members.manage`; by default only admins have it.

### TenantLifecycle

One tenant. `Update` writes the row (state, schedule, cancel), then
`InvalidateLocal`, `Publish` and, when it closes the tenant, `Revoke` follow as
steps of their own. A request is `Arrive`, then `GetCached`, or `GetMissed`,
`Query` and `Store`. `Deliver` and `Lose` are the bus, `Restart` is a process
that dies, `Sweep` is the hourly deletion. Time is counted in ticks; `settled`
is history: for how long each method has had the same verdict.

A query's answer is stored before the deadline of its request
(`middleware.Timeout` cancels the query's context; the few instructions after
it are not modelled as slower than a tick). Notifications to one process are
coalesced. `CancelDeletion` lifts a suspension that had another reason: the
code does, no document speaks of it, the model does the same. A session that
selects the tenant again after `Revoke` is served from a stale entry for as
long as the lag, although `admin.go:209` says that one need not wait for the
30 s cache.

### AppStore

`Sync` of each process: for a permission, `SyncInsert` (the upsert, which waits
for another transaction inserting the same code), `SyncSelect` (the tenants)
and `SyncCommit` (the grants, visible with the commit); `SyncUpgrade` raises the
versions of an app whose permissions are there; `Serve` ends it; `Stop` is a
failure, a kill or a stop at any point, after which the process may start with
any release (`Start`). `CreateTenant`, `Install`, `SetStatus` and `SetGrant` are
requests to a serving process. `GrantOnInstall` is the `ON CONFLICT` that never
narrows "all".

`newest`, `steady` and `hand` are history: the newest release started, what is
enabled since the newest release installed it, what was last set by hand. The
restriction to the newest release in `steady` is needed: an old process that
installs an app while a newer one has already put the app's new permission into
the catalogue grants only what it knows, and nothing repairs that until the
next `Install`.

`Install` is one transaction and here one step: its effects appear at its
commit. `Order` stands for the result of `ResolveOrder`. Left out: the gate, the
texts of the catalogue, apps that are not compiled in, the tables of releases
and events (only the history page reads them), permissions withdrawn by a
release (`Sync` never deletes one).

### Pages

One page in one tab, and one row at the server. Every page of the front ends is
a record of choices: when its effect runs again (`again`), whether a cleanup
drops late answers (`guarded`), whether it empties itself first (`blanks`), what
a failure does (`failed`, `alert`, `clears`) and which writes it sends, each with
where its body comes from, after which answers the page loads again and whether
a refusal is the page's own error. The definition of each page, `MembersPage` to
`ConsentPage`, is that record, read from its source; the actions are the React
machine they share, so the run checks all 19 pages.

- `RunEffect`, `Read`, `Succeeds` / `Fails` / `Drops`, `Load`: a GET leaves, the
  server answers with the row as it is then or fails, the answer comes back in
  any order. `Rendered` says whether the state that changed makes the effect
  run again, which it does on pages that depend on `t`, a new function in each
  render (`lib/i18n.tsx:558`). A GET carries the text it asks with: the effect the
  text on the screen, the reload after a write the one of the render that sent
  the write (`Put.key`). `SignedOut` is a 401: `useResource` goes on loading while
  the browser leaves for the login page.
- `Press`, `Order`, `OpenForm`, `SubmitForm`, `CloseForm`, `TypeDraft`, `SavePage`,
  `Type`, `Retry`, `Dismiss`: the user. A body is made of the rows on the screen
  (the grants of a role, the roles of a member), of the copy of a row that a
  dialog took (`"form"`), of the empty form with which the same dialog creates a
  row (`"new"`), of the page's inputs, or names the row only: a command from the
  table (`"row"`) or from inside an open dialog (`"inside"`, the deletion of a
  tenant). The dialogs are modal: nothing behind an open one can be used, and
  the answer to a write sent from a dialog closes whichever is open by then.
  The dialog that creates a role can here be opened at any time; the page draws it
  only once it has its roles.
- `Arrive`, `Confirmed`, `Refused`: a write is applied or not, and answered or not;
  a write whose answer was lost is `Refused` after it was applied.
  `OthersWrite` is another administrator.

A row is the set of this user's edits in it, a count of other people's, and the
number of writes so far. `seen`, `acked`, `used` and `rush` are history: `rush`
says what overlapped: a user's act with a load or a write, two GETs, or a change
of the text with a request that carries the old one. The
properties say with it what the user has to wait for. Effects run only when
the screen is drawn (`Flushed` in the acts): React runs them before the next
event. What other people changed can be overwritten by any page whose body is
the whole row; no property promises otherwise, since nothing in the code does.

### Portal

Tabs of one browser, one cookie, the session at the server. A tab is a document
with a screen, the loads of its shell in flight, the data its shell shows, and
the other requests its page has out.

- `LoadMe`, `LoadSelect`, `LoadMenu` are the three requests of `load`
  (`shell.tsx:79-116`), each one step with its outcomes: 401 (`Unauthorized`, the
  login page), a failure, a refusal, an answer. What the first learned is
  carried in the load and shown by `SetData` after the last. `PanelLoad` is the
  panel's one request; `Probe` and `Status` are those of the login, landing and
  setup pages.
- `Open`, `Refresh`, `Switch`, `SignOut`, `ChangePassword`, `Login`, `Signup`, `NewOrg`,
  `Setup`, `Handover`: the user, with the middleware in `Opened`.
- `Expire`, `Suspend`, `Reopen`, `RemoveMember`: others. `Refusal` is `RequireTenant` in
  its order, `Active` the lookup of a session.

`cause` is why the server refused the menu, which the shell is not told; `stale`
are the tabs whose session was changed from elsewhere since they last asked:
both are history. In a load that overlaps another one of the same tab, `LoadMe`
does not take the tab out of `stale`: the other load may still know the older
session.

## 4. What TLC checks

| run | module, cfg | distinct states | shows |
|---|---|---|---|
| `oauth` | `MCOAuthTokens` | 446,691 | invariants of codes, consents and rotation; refines `RefreshLineage` |
| `oauth_replay` | `OAuthReplay.cfg` | violated | `ReplayRevokesFamily` fails |
| `audit` | `MCAuditChain` | 663,825 | the chain, its times, tampering; refines `AuditLog` |
| `members` | `MCMembers` | 2,892,861 | what holds however requests overlap, and which overlaps alone can break what a change promises |
| `last_admin` | `LastAdmin.cfg` | violated | `AdminAlwaysLeft` fails |
| `roles_union` | `RolesUnion.cfg` | violated | `RolesReplaced` fails |
| `tenant` | `MCTenantLifecycle` | 528,928 | `LagBounded`: how stale a verdict can be; liveness: closing takes hold, a deletion happens |
| `deletion_reopened` | `DeletionReopened.cfg` | violated | `ScheduledIsClosed` fails |
| `appstore` | `MCAppStore` | 645,518 | catalogue, grants, edits and versions stay in step |
| `app_missed_upgrade` | `AppMissedUpgrade.cfg` | violated | `EnabledIsGranted` fails |
| `pages` | `MCPages` | 1,616,493 | what the screen and the row say to each other, on each of 19 pages; `WorkRunsOut`: no page loads because it has loaded; liveness: it comes to rest |
| `portal` | `MCPortal` | 790,955 | what the shells name, the reasons they give, no screen that spins; `NoLoop`: only the user or somebody else gives a tab more to do; liveness: a tab comes to rest |

### Bounds, and why they are enough

- `oauth`: two clients (one confidential), one user, one code, four tokens, two
  families, two requests. Two requests are what every race here needs: a winner
  and a loser of a claim, a rotation and a replay. Four tokens are a pair and
  the pair that replaces it, or a pair for each of two families. TLC does not go
  on from states without a client, from a suspended tenant that also lacks its
  member, or where a request waits for a token and none is left (`Bound`).
- `audit`: two tenants, two events, three calls, four ids, two times. Three
  calls let one wait while another commits and a third aborts; four ids give a
  chain of three with a hole.
- `members`: three people (a founder), two requests, the role sets {manager} and
  {admin}. Deadlock is not checked: a tenant that has lost its last admin, which
  `last_admin` shows to be possible, can have nobody left to make a request.
- `tenant`: two processes, one session, two requests in one process, one admin's
  call in either process; an entry lives 2 ticks, a request 1, a deletion waits
  2. The second request is the one that stores a stale answer for the first.
- `appstore`: two processes, one tenant, apps a and b (b depends on a),
  releases 1 and 2; release 2 brings a core permission and a new one of a.
  Hand edits only of permissions with a default for the role (`Bound`).
  `app_missed_upgrade` narrows to one process that is only upgraded (`Upgrades`),
  so that its counterexample owes nothing to mixed releases.

- `pages`: two GETs, two writes, two edits, two writes at the server; one change of
  the search of the devices page, two of the address in the dialog that adds a
  member. Two of each is what overtaking, a retry, and a second act on rows that
  a first one made old need. The search has a text before its first change (the
  empty one, whose rows the page loads when it is opened), the address has none. Deadlock is not checked: a user
  who has made all edits stops.
- `portal`: two users (one an administrator of the platform), two tenants, two
  tabs, two loads of a shell at once, four acts of the user and of others
  together. Four acts are, for example, a login, a switch in one tab, a
  sign-out in the other, and the act that meets the consequences. Deadlock is
  not checked: after the last act everything has come to rest.

### Fairness

- `TenantLifecycle`: time passes (`WF(Tick)`), and the sweep is done once due
  (`WF(Sweep)`): its goroutine runs every hour and tries again after an error.
  Nothing is assumed of requests, admins, the bus or restarts, so
  `ClosedTakesHold` holds although every notification may be lost, and says what
  never happens again, not that a request is answered.
- `Pages`: React runs an effect that is due, the server or the network answers
  each request, if only with a failure, and the client handles each answer (one
  `WF` per effect and per request). Nothing makes the user do anything.
- `Portal`: the requests of each tab are answered or fail (`WF(Requests(x))`).
  Again nothing is assumed of users and administrators.

### Findings

1. **A replay does not revoke the family for good** (`oauth_replay`,
   `provider.go:508`). The winner of a rotation inserts its tokens after the
   loser's `UPDATE` has revoked the family; they stay usable.
2. **A tenant can lose its last admin** (`last_admin`, `handlers/rbac.go:697`).
   Two transactions each take a different admin away; each sees the other one.
3. **Two role sets become their union** (`roles_union`, `handlers/rbac.go:57`).
   A `DELETE` that waited does not see the rows inserted meanwhile.
4. **A tenant whose deletion is scheduled can be reopened and is deleted all the
   same** (`deletion_reopened`, `handlers/admin.go:193`).
5. **A tenant that had an app disabled during an upgrade never gets its new
   permissions** (`app_missed_upgrade`, `appstore.go:101`), not even in the admin
   role, until the app is installed again.

`PROJECT.json` quotes, for each, the line of the repository that says otherwise.

Each run shows one way in which the promise is broken. Theorems of section 6 say,
for every size of the system, which steps alone can break it:

| finding | broken only by | theorem |
|---|---|---|
| 1 | a request that may still insert into the family adds a token after the family was revoked; a replay that meets none closes the family for good | `ReplayBrokenByInsert`, `QuietReplayCloses`, `ClosedForGood` |
| 2 | a change of a member that was open at once with another one | `AdminsStay` |
| 3 | a change that was open at once with another one of the same member | `ChangesReplace` |
| 4 | `SetTenantState` lifting the suspension of a tenant with a deletion | `ReopenedBySetState` |
| 5 | a Sync raising a version, or an app enabled again after it was disabled | `MissedByUpgradeOrEnable` |

They are what a repair has to look at: after a change to the steps of the second
column the promise needs an argument, everything else keeps it.

## 5. Seen while modelling, without a run

What the code does and a reader would not expect, where no line of the
repository promises the opposite, or where only the model's assumptions and not
its properties are concerned:

- `frontend/app/(portal)/settings/page.tsx:42-51` and the panel's profile page
  have `t` among the dependencies of the effect that loads: each answer is set as
  state, each render makes a new `t` (`lib/i18n.tsx:558-565`), and the effect runs
  again. The settings page asks forever and overwrites what is being typed with
  the row. `Settles` excludes pages with `again = "render"` for this reason, and
  `OwnEditsKept` pages whose state is the form. The members, roles and SSO client
  pages load through a callback with `t` in it and ask as often.
- An administrator in the name of a user with a temporary password gets the
  password gate (`shell.tsx:82`), whose request the server refuses
  (`handlers/profile.go:44`) although `handlers/auth.go:280-283` exempts
  impersonation: only signing out is left. `Portal` reaches this screen.
- Two moves of departments at once can make a cycle
  (`apps/organisation/departments.go:44-70, 116`, READ COMMITTED); `flatten`
  (`departments/page.tsx:72-87`) draws from the roots and shows neither any more.
- The roles page sets an empty list when a load fails; once its error is
  dismissed the list looks empty (`NoSilentEmpty` leaves that page out). The
  members and SSO client pages never clear a load error.
- The reload after a write of the devices page asks with the text of the render in
  which the write was sent (`devices/ui/pages/page.tsx:208-211, 222-226`): submit
  a device, close its dialog, type a search and get its rows; then the write's
  answer loads the rows of the earlier text, and they stay under the new one.
  The lookup of an address (`members/page.tsx:231-244`) is not guarded either: the
  answer about an earlier address may come last, or after the address was emptied.
  `AnswersTyped` leaves these out by what it says of `rush`, and covers every other way
  of typing, also while an answer is on its way.
- After another tab has switched, picking the tenant that the shell names does
  nothing (`shell.tsx:490`), although the session is in the other one.
- A member removed during a load is told that the platform closed the tenant
  (`shell.tsx:98-108`, `cause = "left"` in `BlockedIsClosed`).
- The setup page takes a status that cannot be had for "already set up"; the
  page of a user without a tenant leaves a tenant behind when it was made but
  could not be selected.
- Two processes that start for the first time at once both keep a signing key: the
  comment at `oidc/keys.go:24-25` has one of them win by the duplicate `kid`, but
  a `kid` is random (`keys.go:58-61`), so both inserts succeed. Each process signs
  with its own key and publishes only that one (`provider.go:93-101`), until a
  restart after which all load the newest.
- Where writes of one user overlap, a table can rest on old rows: a write that was
  applied but whose answer was lost is not followed by a load, and what it
  brought back stays unseen. `RestingIsCurrent` therefore asks the user to wait for
  the answer to a write, and on pages that keep their rows while they load for the
  rows as well. On the pages that load after every render a load is nearly always
  under way, so `OwnEditsKept` and `RestingIsCurrent` say next to nothing of them:
  there a second click on the grants of a role, or on the roles of a member, before
  the reload takes the first one back (`roles/page.tsx:82`, `members/page.tsx:103`).
- Windows the code accepts: a membership is read before the tokens are inserted
  (`provider.go:527`), grants are checked, possibly from a cache, before the
  `DELETE` (`handlers/rbac.go:51, 604`), ids of rolled-back audit entries leave
  holes, `SelectTenant` does not look at the tenant's state (`handlers/auth.go:401`);
  the next request does.

## 6. What is proved

All theorems are about the specifications TLC runs, for every value of the
constants. The only assumptions are the named `ASSUME`s of the modules: that
`None` is no value, that model sets which must not meet do not, that bounds are
numbers, in `AppStore` that an app is part of its own install order, in `Pages`
that a page is one of the 19, and in `Portal` that tenants are numbers, in the
order of their names.

- **OAuthTokens_proofs**: `TypeCorrect`, `CodesSpentOnce`, `OneUsablePairAlways`,
  `RefusedIsShut`, `OwnFamilyAlways`. `OneUsablePair` is not inductive: an insert
  could add a second usable token. The strengthening says that at most one
  request may insert into a family (`OneIssuer`), that while it may no refresh
  token is left with which another could win that right (`NoneToClaim`), that
  from `RotateRest` to the first insert nothing of the family is usable (`Shut`),
  and that a family just drawn is empty (`Born`). `CodesSpentOnce` rests on
  `OriginSpent`: the code a family came from is gone.
  `ConsentAlwaysBehind`: what can become a user's token, an open code or a request
  past the consent page, stands on the consent already (`Backed`).
  `Implements`: the provider refines `RefreshLineage`. `StepKinds` says that a step
  either takes usability away, or draws a family, or inserts a token; each of
  these is, for each family, a step of its life or nothing (`StepLives`), which
  needs that no other token of the family is usable at an insert. What such a life
  keeps (`LifeInv`) then holds of the provider: `ClosedForGood`.
  `ReplayBrokenByInsert` and `QuietReplayCloses` say what is left of the promise of
  a replay: only an insert can break it (`OnlyInsertsAdd`), and where nobody may
  insert, the kill closes the family.
- **AuditChain_proofs**: `ChainAlwaysVerifies`, `TimeAlwaysFollowsOrder`,
  `AuditTypeCorrect`. A commit keeps the chain whole because the call holds the
  tenant's lock since before it read (`Held`), so what it read is still the tip
  (`TipRead`), no time in the chain is later than its own (`TimeRead`), and its id
  is after all of them (`Pending`).
  `TamperShows`: no two rows of a chain share a hash (`Distinct`), so the row that
  another one links to is the only one it can (`RemovalFound`), and no two follow
  the same one (`OneSuccessor`, `RehashFound`). It has the hypothesis
  `GenesisIsNoHash`, that no row hashes to the 64 zeros a chain starts with; it is
  part of the theorem's statement; that different contents have different hashes
  is how the model has them. What it says is no more than: of the rows left of a
  tenant, a missing one before another, or a changed event or time of one, shows;
  rows missing at the end do not. `Implements`: the table refines `AuditLog`; a
  commit takes the next position of its tenant's list and moves no other row.
  `TrailOnlyGrows` is what follows for the reader of the log: its n-th entry is its
  n-th entry for good.
- **TenantLifecycle_proofs**: `LagAlwaysBounded`, `TenantTypeCorrect`. An entry
  that lets through what the tenant no longer does is younger than the closing
  plus a request's time (`CacheLag`); what a query has seen and not yet stored is
  no older than its request (`SeenLag`). Together: nobody is let through on a
  state left `Ttl + Timeout - 1` ticks ago or earlier. `ReopenedBySetState`: the
  sweep removes the row, time only counts, and of the admin's calls one alone
  leaves a deletion without a suspension.
- **AppStore_proofs**: `TypeCorrect`, `SteadyGranted`, `HandKept`, `VersionKnown`.
  What a Sync is done with is in the catalogue and what it inserts is of its
  release (`Progress`), nothing in the catalogue is newer than the newest release
  (`KnownIsOld`), so a serving process of the newest release knows every
  permission and nobody is inserting one (`NewestKnowsAll`); hence whatever is
  steady when a permission's tenants are selected has been found
  (`SteadyIsFound`). `TypeOK` carries the lock: no two processes insert one code.
  `MissedByUpgradeOrEnable`: the admin role only gains (`AdminGrows`), and an install
  grants what it installs (`InstallCovers`), so what is left are the steps that
  raise a version or enable an app without granting.

- **Members_proofs**: `TypeCorrect`, `RolesHaveMembers`, `NobodyRises`,
  `AddChangesNobody`, `AdminsStay`, `ChangesReplace`. The invariant says of each request what
  its checks found and what its rows hold until the commit (`Route`, `Entitled`,
  `Found`, `Covers`), and of two requests what they cannot do together (`Apart`):
  dropping a membership and inserting a role of it exclude each other, through the
  foreign key, and so do two adds of one member, through the primary key. For
  the last two (`CInv`): a change that has met none of its own member (`clash`) finds
  what its earlier statements saw and did still so (`Phase`, by `RowsStay`); and
  where it has met none at all (`met`), the admin its check has seen is still there
  when it commits (`Guarded`), since an add only enlarges the table (`AddEnlarges`).
- **Pages_proofs**: `TypeCorrect`, `NeverOlder`, `FailureTold`, `AnswersAreOfTyped`,
  `EditsStay`, `RestsCurrent`, `WorkEnds`, `WorkMeasures`. An
  answer that will be shown was read no earlier than what is shown now, because
  there is only one of them: at most one request is current (`OneCurrent`), the
  current one was read no earlier than anything shown (`CurrentIsNew`), and nothing is
  newer than the row (`ReadBefore`). The next two rest on lemmas about all 19
  pages (`PagesTell`, `PagesTimed`): which of them empties its rows, which sets
  no error, and that a page with a search neither guards nor keeps rows.
  `AnswersAreOfTyped` speaks of the two pages with a text and has the three exceptions
  of section 5: two GETs that meet, a text changed while a write is under way, an
  address emptied while its lookup is; that the reload after a write asks with
  the text on the screen, otherwise, is `PutsOfTyped`. `EditsStay` and `RestsCurrent`
  are about users who wait for the answer to a write and, on pages that do not
  empty their rows, for every load. For these
  two: while acts do not overlap, there is one write at most (`OnePut`), and the body
  of a write, the copy in a dialog, the rows on their way and those on the screen all
  hold every change that was confirmed (`BodiesFull`, `DialogFull`, `AnswersFull`,
  `ScreenFull`), unless the page is about to ask again. Pages that only send
  commands need none of this: commands add (`StepAdding`). `WorkEnds` is the safety
  half of `Settles`, for the 13 pages whose effect does not run after every render:
  the work of a page is a set for each of its classes, from the
  most urgent (a render) to the least, and each step of the machine takes
  something out of the first class it touches; by `WorkMeasures` the sets are empty exactly at
  rest. What fairness adds is only that the steps are taken.
- **Portal_proofs**: `TypeCorrect`, `NamesSession`, `BlockedForCause`, `NeverSpins`,
  `RequestsRunOut`, `AheadMeasures`. The invariant is `Good(x)`, of each tab: loads run in shells only (`InShell`), a load
  past its first request knows the session unless the tab is stale (`Knows`),
  a load that asks for the menu has passed the gate (`PastGate`), and a shell that
  shows nothing waits for something (`Awake`). Two loads of a shell may select a
  tenant at once; they select the same one, the first of the user's (`LoadKnows`,
  which is where the order of tenants is needed). `Frame` does the other tabs.
  The last two are the safety half of `ComesToRest`: what is still ahead of a tab is
  a finite set, empty exactly when it waits for nothing, and every answer takes
  from it and adds nothing.

Only model-checked: liveness (`ClosedTakesHold`, `ScheduledIsDeleted`, `Settles`,
`ComesToRest`), which is out of the prover's reach. Of the last two the measure that
falls with every step is proved, as said above. Every other property of the passing
runs is a theorem.

## 7. What is not modelled

- **Signing keys** (`oidc/keys.go`): two statements as a process starts, see
  section 5.
- **Grants cache** (`rbac/rbac.go`) and the app gate: the cache of `TenantLifecycle`
  with other contents. What is proved of that one, a lag of an entry's life and
  a request's time, is what can be said of these.
- **Passwords and the lockout**: a login is one step that succeeds; attempts
  before it leave nothing that another component reads.
- **SSO client** and **registry client**: protocols whose other side is not in
  the repository.
- **First run** beyond the wizard: `ensureAdminFromEnv`, the armed token and the
  migrations, which run before a process serves.
- **Organisation and devices handlers**: one statement, or one transaction that
  walks a tree; their pages are in `Pages`.
- **CreateRole, SetGrants**: the delete-then-insert of `Members` on another table.
- **Module SDK, configuration, HTTP helpers, CLI, scripts** (`sync-modules.mjs`,
  `audit.mjs`): pure functions and tools.
- **Of the front ends**: the public pages and the dictionaries, which are text; the
  address to return to after a login; the read-only banner; the form with which an administrator changes the own password.

Of what is modelled, left out on purpose: the text of tokens, hashes, JSON and
pages; PKCE and redirect matching beyond "it does not match"; audit entries of
other handlers; rate limits; row-level security, which is the database's own.
PostgreSQL is taken at its documented semantics: READ COMMITTED snapshots per
statement, row locks held to the end of a transaction, unique keys and foreign
keys that wait for the transaction that will decide them, `NOTIFY` delivered at
most once to those that listen. React is taken at its own: effects after the
render that made them due and before the next event of the user.
