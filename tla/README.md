# Verification of FamiFinances

TLA+ models of the FamiFinances API (NestJS over MongoDB) and of the session
client in its mobile app; TLC configurations that check them on small instances;
and proofs, checked by TLAPS, of what the models promise for every value of their
constants.

The API runs every request as one asynchronous handler. It uses no database
transaction and no lock: what one handler read can have changed when it writes,
a handler can stop after any of its awaited calls, and the only things that
serialize requests are single-document updates and unique indexes. That is what
the models are about.

## 1. Inventory

Paths are under `src/apps/api/src` unless they start with `mobile/`
(`src/apps/mobile/src`).

| Component | State it keeps | Operations | What is hard | What makes it correct |
|---|---|---|---|---|
| Refresh sessions: `auth/auth.service.ts`, `sessions/` | `refreshSessions` documents: owner, chain, revoked, expiry | login, refresh, logout, the session side of a reset | two refreshes of one token; a reset beside a sign-in; a stop between create and claim; TTL removal | one usable token per chain; an ended chain stays ended; a reset ends older sessions |
| One-time codes: `one-time-codes/`, `auth/auth.service.ts` | a code per account and type: hash, attempts, consumed, expiry | issue, verify, resend, verify e-mail, reset | the attempt cap read before the increment; issue beside verify | the guesses stay near the allowed number; a code that is over is not accepted; an address is verified only by a mailed code |
| Sign-in lockout: `accounts/account.repository.ts` | failed attempts and lock time of an account | register a failure, clear | read, increment, save: lost updates | the lock comes after the configured number of failures |
| Idempotent creates: `idempotency/` | a record per (member, key): payload, pending or completed, result | run around create of a movement or a transfer | concurrent duplicates; failures at each await; crash; purge | a key applies at most once; every answer under it is about the one resource it created; a key is never stuck |
| Families: `families/`, `memberships/`, `invitations/` | families, one membership per account, invite codes, membership events | create, invite, join, remove, leave | guards that read a membership the handler acts on later; orphan clean-up; two writes per change | one family per account; a family keeps its owner; a code admits one; the log tells who is in |
| Movements: `movements/` | movements with type, account, category, soft deletion; movement events | create, update, delete, list, get | partial updates validated against an earlier read; archive beside a create; a deletion beside an edit | category of the movement's kind; deletion is final; the trail tells every change |
| Transfers: `transfers/` | transfers between two accounts, soft deletion, events | create, update, delete | as movements; `from` and `to` changed by different edits | `from` and `to` are two accounts; no money made or lost |
| Financial accounts: `financial-accounts/` | accounts, opening balance, archived | create, update, archive, unarchive, derive balance | a balance is summed from aggregates read at different moments | a transfer neither makes nor loses money in a list; an archived account is read-only |
| Categories: `categories/` | system and family categories, archived | seed, create, rename, archive | seed at start; archive beside a movement | system categories never change; an archived one is read-only |
| Budgets: `budgets/` | allocations per category and month | set, remove, report | thresholds, the bounds of months | the lines agree with the month's expense |
| Templates and defaults: `capture/` | capture templates by name, last used defaults | create, update, delete | name checked free before the insert; partial edits | names of a family apart; category of the template's kind |
| Reminders: `reminders/` | reminders of a member | create, update, delete | cap counted before the insert; edits written back whole | cap; the selector belongs to the cadence |
| Dashboard, history, CSV: `dashboard/`, `history/`, `export/` | none | read only | reads that are no snapshot; paging over a changing list | totals agree; the mark of the last change is not older than a change; a row has its names |
| Mobile session client: `mobile/features/auth/` | the token pair in secure storage, the session state, the rotation in flight | refresh on 401, bootstrap, sign in, sign out | rotation in flight beside 401s, sign-out and loss of answers | never presents a token it has replaced; what it shows matches what it stores; it leaves the loading gate |
| Mail, HTTP plumbing, token signing and hashing, contracts, mobile screens | none of their own | I/O, wiring, types | - | - |

Interactions: movements and transfers create through `IdempotencyService.run`;
their validations read accounts and categories; balances, dashboard, history,
budgets and export aggregate movements and transfers; every family-scoped
handler starts with `FamilyScopeGuard`, which reads the caller's membership
once; the mobile client drives the refresh sessions of the API; a reset spends a
one-time code, changes the password, clears the lockout and ends all sessions.

## 2. Plan

Written, in the order of the plan: 1 `SessionChains` (abstract) and
`RefreshSessions`; 2 `KeyedCreates` (abstract) and `IdempotentCreate`; 3 `Households` (abstract)
and `Families`; 4 `Movements`; 5 `Transfers`;
6 `Credentials` (codes and lockout); 7 `MobileSession`; 8 `Catalog` (accounts,
categories, templates); 9 `Reminders`; 10 `Reports` (balances, dashboard, budgets, history, exports, defaults).
Each of them is proved about: `RefreshSessionsProofs`, `IdempotentCreateProofs`, `FamiliesProofs`,
`MovementsProofs`, `TransfersProofs`, `MobileSessionProofs`, `ReportsProofs`, and `ServicesProofs` for
`Credentials`, `Catalog` and `Reminders` (section 15).

The three abstract specifications say what a component promises, without requests, calls or
failures: `SessionChains` for sessions, `KeyedCreates` for `Idempotency-Key`, `Households` for
memberships. Each is the target of a refinement that a run checks and a theorem proves, and
`SessionChains` of two: the API implements it, and the API the app is modelled with keeps to it.

Two MC modules put components together. `MCSignIn` extends `RefreshSessions` and
`MobileSession`, the two sides of a session. `MCServices` extends the five services that share no
state (`Transfers`, `Credentials`, `Catalog`, `Reminders`, `Reports`). What is proved of the parts is
proved to hold in both compositions.

Not written, and the next to write: the guard of one request against a removal, for handlers that do not change
memberships; the CSV writer.

Runs: one passing run per component or group of components, on the smallest
instance in which every actor the hazard needs is there, and a run of its own
only where the code disagrees with what the repository says of it. Theorems: the
inductive invariant of a component, its safety and action properties, the
refinements, and what the compositions inherit.

## 3. How the models are written

* A request in flight is an element of `Requests`; `at[r]` is the database call
  it awaits next and the other request variables are the handler's locals.
  Every awaited call that other requests can tell apart from its neighbours is
  one action, named after what the code does there. An early return or a throw
  is `Leave`. Reads and writes between two awaits are one step, as in Node.
* A MongoDB operation on one document is atomic. `updateMany` over a chain or
  an account is modelled as atomic too, although MongoDB applies it document by
  document. That is an assumption of `RefreshSessions`.
* `Fail`, `Reject` and `Crash` stop a request before its next call. A call that took
  effect and whose answer was lost is the step followed by the failure. Where
  the code catches the error and goes on, both outcomes of the call are
  modelled (`RejectOwner`).
* A history variable (`known`, `ended`, `admitted`, `had`, `applied`, ...) is
  written and never read by a guard: it is what properties compare the state
  with. `raced`, `cut`, `respelled` and `abandoned` record that something happened to an
  account, movement, transfer or slot after which a promise is not made; the steps
  themselves are always possible.
* Deadlock is not checked: ids, codes, tokens and requests are finite, clients
  owe no further request, and so every instance can come to rest.
* The five newest modules name their requests for what they are (`Calls`, `Editors`,
  `Phones`, `Tasks`) and keep the locals of one in a record (`call[r]`, `editor[e]`,
  `task[k]`), so that modules can be extended side by side. In `Catalog` and
  `Reminders` a request arrives with its first database call: nothing happens between
  its arrival and that call that anybody could tell.
* Operators named `...Unchecked`, `...KeepsOld` and the like, marked "Mutant of" in
  their comment, are faulty versions of the action below them. No action uses
  them; a property is worth its run only if it fails when the action is
  replaced by one of them.

## 4. Refresh sessions

`SessionChains` is what the API promises: `Open` at a sign-in, `HandOver` at a
rotation, `End` for good. `RefreshSessions` is the code: `LoginRead`/`LoginIssue`
(login), `RefreshFind`, `RefreshAccount`, `RefreshCreate`, `RefreshClaim`,
`RefreshRevokeChain` (refresh), `LogoutFind`/`LogoutRevoke`, `ResetPassword`/
`ResetRevokeAll` (confirmPasswordReset after its code was accepted), and the
environment: `Fail`, `Expire`, `RemoveExpired` (TTL), `DisableAccount`. A token
names its document, and a chain is named by its first token. `status` is the
document (absent, active, revoked, removed); `known` is what clients hold;
`password[a]` counts password changes, and `checked`/`proof` say which one a
sign-in and a session go back to; `answered[a]` is the last one whose reset was
answered, and `overtaken` has the chains whose sign-in issued its session after such
an answer from a password read before.

* `ChainInv` has `EndedChainUnusable` (no client has a usable token of a chain that was revoked
  as a whole) and `OneUsableTokenPerChain` among its conjuncts.
* `ResetEndsOtherSessions`: after an answered reset, no usable token of the account
  goes back to an older password, whatever rotations, sign-outs, resets and failures it
  interleaved with, except in the chains in `overtaken`. The exception is exactly the
  finding of `ResetRace`, so the two together say what a reset ends and what it misses.

| Run | Instance | Shows |
|---|---|---|
| `RefreshRefines` | 1 account, 3 tokens, 2 requests, 1 reset; failures, expiry, disabling | `ChainInv`, `ResetEndsOtherSessions`, refinement of `SessionChains` (`ImplementsChains`) |
| `SignIn` (section 10) | the same without failures, expiry and disabling | under weak fairness an ended chain ends up with no active document, the loser's replacement included (`EndedChainDrains`) |
| `ResetRace` (violation) | 2 tokens, 2 requests | a sign-in that read the old password before a reset issues its session after it |

Two requests and three tokens are the smallest instance in which two refreshes
of one token race and one of them leaves a replacement; the proofs cover the
rest. Fairness: a handler the server has accepted runs on (the event loop
starves no promise); clients, expiry and the operator owe nothing. `EndedChainDrains`
is checked without failures, because a request that dies between create and claim leaves
its replacement active; nobody holds that token.

## 5. Idempotent creates

A slot is an entry of the unique index (member, key). `Arrive`, then `Reserve`;
the winner goes through `Validate`, `Insert`, `Audit`, `Complete`; the others
through `Lookup` and `Reload`. `Reject` is a throwing call: inside the try block
of `run` it leads to `Release`. `Crash`, `Purge` (TTL), `Edit` and `Delete` are the
environment. `IdLeft` bounds the creates accepted by the ids left. `replies` has the answers
about a resource, with what they `shown`: the resource as it was created, as edited since (both
201), or that it is gone (404).

`RepliesNameTheCreate`: an answer under a key, first or replayed, is about the one resource
created under it, from the payload the request brought, with its event in the log; and it
shows something else than what was created only if a member edited or deleted the resource.

The original answer is not among what is shown to hold, because the code does not give it.
`specs/016-offline-capture` promises that a replay returns the original response as it was
(FR-002, spec.md:116; contracts/idempotency.md:28; data-model.md:49, "byte-identical"), and so does
the comment at idempotency.service.ts:17. `run` keeps the id of the resource only and reloads
it (line 72): after an edit a replay is a 201 with other content, after a deletion a
404. `CreateOnce` reaches both, without any race or failure. The disagreement has no run of
its own; the property says exactly how far an answer can be from the original.

`KeyedCreates` is the promise: `Make` a create under a key that has none, `Record` its event,
`Confirm` it to a client once its event is in the log, `Forget` the key when it is no
longer retained. Under the refinement (`Abstract`) the creates under a key are the documents inserted
under it with the payload they were made from, and those confirmed are the answers
given; a step that makes a second create under a key, or confirms one that is not the
first, is no step of it. So it contains `AtMostOnce`. A 404 confirms nothing.

| Run | Instance | Shows |
|---|---|---|
| `CreateOnce` | 1 key, 2 payloads, 2 resources, 3 requests; crashes, edits, deletions; every call outside the insert's tail may reject | `OnceInv`, `RepliesNameTheCreate`, refinement of `KeyedCreates` (`ImplementsKeyedCreates`), and under weak fairness `PendingSettles` |
| `CreateRetryAfterLateFailure` (violation) | the audit append or `complete` rejects | the catch releases a key whose resource exists, and a retry creates another |

Three requests let two contenders meet a third that retries. The two late
rejections are excluded from `CreateOnce` (constant `Rejecting`) because they are the
disagreement the other run shows. Fairness is again that an accepted request runs on.

## 6. Families

`CreateFind` ... `LogCreated` is createFamily, `InviteGuard`/`IssueInvite` the invite,
`JoinFind` ... `LogJoined` joinFamily, `RemoveGuard` ... `LogRemoved` removeMember,
`LeaveGuard` ... `LogLeft` leaveFamily; the guards' single reading is the first
action of each. `entries` and `exits` count the audit events; their times and
authors are left out.

`Households` is the promise: an account comes by its one membership by `Found` and `Enthrone`, or by `Redeem`
and `Enter`; a code is offered by a family that has its owner, redeemed once, for one guest; only a plain
member departs. Under the refinement (`Abstract`) a founding is a createFamily about to insert the owner, and the
guest of a code is the account of the joinFamily that has redeemed it and is about to
insert the member. The accounts in `raced` are `unruly`: of them the promise allows that an
owner departs, which is the finding of `FamiliesOverlap`. `FamiliesInv` has `CodesAdmitOne` (a code
admits one person, to the family it was issued for) and `EntrantsApart` (no two requests are about to enter with one code)
among its conjuncts.

| Run | Instance | Shows |
|---|---|---|
| `FamiliesSafety` | 3 accounts, 2 families, 1 code, 2 requests; failures anywhere | `FamiliesInv`, `FamilyKeepsOwner`, refinement of `Households` (`ImplementsHouseholds`), `LogTellsMembership`, `NoOrphans` |
| `FamiliesOverlap` (violation) | 2 accounts | two departures of one account overlap, and the second deletes an owner's membership |

Three accounts give an owner and two who contend for one code; two families let
an account that left one found another. `FamilyKeepsOwner` and the two log
properties except an account two departures of which were in flight at once
(`raced`); `LogTellsMembership` and `NoOrphans` also one about which a request
stopped midway (`cut`). Both exceptions are needed: the first is the finding,
the second the price of two writes without a transaction.

## 7. Movements

`BeginCreate`, `BeginUpdate`, `BeginDelete`, then per handler `FindForUpdate`/`FindForDelete`,
`ValidateAccount`, `ValidateCategory`, `Insert`/`Update`/`MarkDeleted`, `AppendEvent`;
`Archive`/`Unarchive` of accounts and categories happen beside them. A dto is a
function on the fields it gives, and `want` is it over the document read. Amount,
date and note are one `detail`. An update that matches nothing because the movement was
deleted meanwhile still answers with the document read and appends its event, as
the code does.

| Run | Instance | Shows |
|---|---|---|
| `MovementHistory` | 1 account, a category of each kind, 1 movement, 2 requests at once, 3 in all; failures | `MovementsInv`, `KindsMatch`, `TrailTellsAll`, `DeletedIsFinal` |
| `MovementKindRace` (violation) | the same | two edits, each valid, store a category of the other kind |

Three requests are a create and two that race on what it made. `KindsMatch` excepts a
movement two requests worked on at once (`raced`); `TrailTellsAll` holds for
those too and excepts one a request on which stopped midway (`cut`). Two racing
deletions append two deleted events, although a comment (movements.service.ts:132)
says a repeated deletion adds none; the model takes those steps.

## 8. Transfers

`BeginCreate`, `BeginUpdate`, `BeginDelete`, `FindForUpdate`/`FindForDelete`, one `Validate`
per account, then `Insert`/`Update`/`MarkDeleted` and `AppendEvent`, as in `Movements` (`HasWritten` also drops the
locals a handler has no more use for), with
the accounts archived and unarchived beside them. The comparison of the two accounts
happens in the step before the first account is read, because nothing is awaited between.

What is compared are strings (`SameText`). The ids of a dto come as the client spells them,
those of the document read are printed in one way, and `new Types.ObjectId`, through which all of
them go to the database, takes hex digits of either case. So a create, or an edit
that gives an account, may spell one account in two ways (`apart`) and be let through
with it at both ends: it is then in `odd`, and the transfer it writes in `respelled`, until a
request that is not odd writes it. Such a transfer can be edited only by giving an account:
an edit of its detail alone compares the stored id with itself and is answered 400.

`Transfers` is one part of the run `Services` (section 14), with two accounts, one
transfer, two requests at once, three in all, and failures: `TransfersInv` (in `ServicesInv`),
`EndsDiffer`, `TrailTellsAll` and `DeletedIsFinal`. Two accounts are enough for the ends to be swapped or made
equal by two edits. `EndsDiffer` excepts a transfer two requests worked on at once
(`raced`): one may set `from` to B while the other sets `to` to B, each compared with what
it read; and one in `respelled`. Both exceptions are needed. Without the first, two racing edits
violate the property; without the second, one create does, with no other request in
sight. So the code does not keep FR-003 (specs/007-transfers/spec.md:160), "origin == destination
MUST be rejected", and `EndsDiffer` says in which two ways only.

## 9. Credentials

One e-mail address: addresses share nothing. `Register`, `ResendVerification`,
`RequestPasswordReset`, `VerifyEmail`, `ConfirmPasswordReset` and `Login` begin a handler with
its first read; `InsertAccount`, `DeleteUnconsumed`, `StoreCode`, `MailCode` are the rest of an issue,
`FindActive`, `CountAttempt`, `MarkConsumed` that of a verification, `UpdatePassword`,
`MarkEmailVerified`, `ClearFailedLogin` what follows an accepted code, `ReadFailedLogin` and
`SaveFailedLogin` the two halves of `registerFailedLogin`. `CallFails`, `ExpireCode` and `LockPasses` are the
environment. A submitted value is a code that was mailed or a wrong one, so that
guessing right by chance is left out. The password itself and the sessions are in
`RefreshSessions`.

* `RetiredCodesFail`: a code that was used, expired or replaced before a call arrived is
  not accepted from it. Only two issues that overlap (`crossed`) can leave two codes
  standing; then the older is good again after the newer was used.
* `AttemptsBounded`: the cap holds up to the calls in flight, no better and no worse: each
  may compare one more value on the count it had read.
* `VerifiedProvesInbox`: an address is verified only by a mailed code that came back.
* `LockoutCounts`: the counter tells the wrong passwords since the last lock or clear
  and the lock comes with the last allowed one, unless a save wrote over a counter
  it had not read (`lost`), which concurrent wrong sign-ins do.

## 10. The mobile session

`MobileSession` is the app: `kept` is the secure store, each half apart; `session` the
`SessionState`; `screen` the route; `rotation` is `inFlightRotation` with the stage its promise
is at; a task is an asynchronous function, at the await `task[k].at`, for the
operation `op`. `Fetch`, `Renew`, `Wipe`, `Denied` are `authFetch`; `RotationAnswered` and `RotationSaves`
`rotateOnce`; `ReadTokens` and `Resolve` `bootstrapSession` with its callers; `LoginAnswered` and
`EstablishSession` a sign-in; `SignOut...` `revokeSession`, which does not go through `rotateOnce`; `Submit...`
and `Press...` the handlers of the screens; `Redirect` and `Route` the layouts and
`nextRoute`. The API answers a request in one step (`Rotate`, `EndChain`, `IssuePair`); its own
concurrency is in `RefreshSessions`. What joins the two is `SessionChains`: `ApiKeepsPromise` says that
every answer of the API the app is modelled with is one of its steps, as `ImplementsChains` says
it of the handlers, so the app is not checked against an API that promises more or less
than the code does. The environment loses answers, refuses (throttling, 5xx),
lets access tokens expire, revokes elsewhere, and kills the app between any two
steps.

Assumptions: the secure store answers its calls in the order they are made, so
that reading the refresh token and calling `rotateOnce` are one step; and when
`MaxPairs` pairs have been issued the API refuses further ones, as a throttled or
failing API does.

| Run | Instance | Shows |
|---|---|---|
| `SignIn` | API side: 1 account, 3 tokens, 2 requests, 1 reset; app side: 2 tasks, 3 pairs, 2 acts, all troubles | `MobileInv`, `NoSelfTheft`, `PairsMatch`, `SessionMatchesStore`, `ApiKeepsPromise`, `LoadingEnds`, and `EndedChainDrains` of the API |
| `SignUpVerifies` (violation) | the app alone | the code entered after a sign-up is answered 401 |
| `RotationOffline` (violation) | the app alone | a rotation that fails on the network is reported as an expired session, tokens kept |

In a behaviour of `SignIn` one side moves and the other rests (`part`), because the
modules share no state. Two tasks are the smallest number that overlap: a load
and a sign-out, or two requests that meet one rotation. Three pairs are a sign-in and
two rotations. The exceptions of the properties are states the model reaches:
`strayed`, a pair that got lost or the rotation sign-out makes on its own; `crowded`,
two writers of the store or a kill within a write; `together`, two tasks at once.
Fairness: a task and the rotation run on, since a promise settles and a request is
answered or fails; nobody owes an act, and the side that rests owes nothing.
`LoadingEnds` needs no more: with or without answers, every load ends. That is an
assumption about the platform too: a call of the secure store is taken never to reject, and
a request never to hang.

Read beside the model and not checked: `onResend` (verify-email.tsx:42) reports "A new
code has been sent" whatever status the API answers, because `resendVerification`
does not look at it, while its comment says that "a failure must not read as
success".

## 11. Accounts, categories and templates

`Catalog` keeps the financial accounts and categories (`record`) and the templates.
`CreateRecord` is the insert of either; `SeedDefault` an upsert of the seed, by any
server that starts; `FindRecord` the read with which an edit, an archiving or an
unarchiving begins, and `ChangeRecord` its write, which filters by id alone. `BeginTemplate`,
`LookTemplate`, `NameFree`, `ValidateAccount`, `ValidateCategory`, `InsertTemplate`, `WriteTemplate` and
`DeleteTemplate` are the template service, call by call. The name and other fields of an
account are one text; two names differ in their word or only in case.

* `ReadOnlyStays`: a system category never changes once seeded, and an archived
  document only by being unarchived, unless two requests worked on it at once
  (`contested`): an edit that found it active is written all the same.
* `TemplateNamesApart`: no two templates have one spelling (the index); up to case
  they are apart unless two requests that name one overlapped (`rushed`). A comment
  (movement-template.schema.ts:19) promises uniqueness up to case, "enforced in
  the service", and calls the index a backstop: it is one for equal spelling only.
* `TemplateKindsMatch`: partial edits, each validated over the template read, keep the
  kinds together unless two of one template overlapped (`muddled`).

## 12. Reminders

One member. `BeginReminder` (validate, count) and `InsertReminder`, `BeginUpdateReminder` (read,
effective configuration, validation) and `UpdateReminder`, `DeleteReminder`. The schedule and the
purpose of a reminder are validated apart, so an edit gives one or the other;
an edit of the time of day or of `enabled` gives neither and writes both back as read. The
purpose `budget` behaves like `capture`.

* `RemindersCapped`: the cap can be passed, by the requests in flight besides one.
* `RemindersCoherent`: the selector is the one of the cadence, also after racing edits;
  it holds because every edit writes the whole configuration back. The price is that
  an edit undoes a concurrent one of other fields.

## 13. Reports

Nothing here is stored: `Reports` has the documents in the form the aggregates see
(`wallet`, `shut`, `entries`, `planned`) and one request that is being answered (`query`), with the reads
it still waits for (`pending`) and what the others returned (`got`). `Awaited` says which reads the
code awaits before which; those under one `Promise.all` come in any order. The other
actions are single-document writes of other requests, whose own control is in the
modules above; a transfer from an account to itself, which those can store, is among them. The parts of the dashboard are awaited side by side and share nothing,
so each is asked for alone (`list`, `marks`, `budget`).

Dates are numbers of days, computed by `DayNumber`; `Utc` is `Date.UTC` with its rolling months.
`Years` are the years that are asked about and `Days` the days on which something is
recorded, each a calendar date of one of them. The years are 100 and later (`ReportsAssumption`):
`Date.UTC` takes a year of one or two digits for one of the last century.
`updatedAt` is stamped when a write is applied; in the code mongoose stamps it when the
call is made, a moment earlier. Movements are all of the member who asks; filters
by account, category and note, which only narrow the set, are left out; an export of
transfers reads rows and names as one of movements does. The reads behind the capture defaults
(`AskDefaults`) are modelled with the rest and carry no property: what they suggest
may be out of date, and nothing rests on it.

* `TransfersConserve`: in a list of all accounts a transfer recorded, edited or deleted
  between the reads neither makes nor loses money.
* `LastUpdatedCovers`: the dashboard's mark is not older than a change made before it
  was asked for.
* `BooksReconcile`: the aggregates agree with each other: accounts with months, months
  with history, budget lines with the month's expense; `CalendarHolds`, its part about dates,
  says for every date which month it belongs to (the run looks at 2023 and 2024, the
  proof at all years). It is evaluated while nothing is asked, which loses no state of the books.
* `HistoryTells`: an export has a name for the account of every row, and a page says there
  is more exactly when there is, unless a write came into the request.

Two readings the code invites are not claimed, because it does not keep them: a net
worth on the dashboard is that of the active accounts, so a transfer to an
archived one lowers it; and pages asked one after the other may skip or repeat a
movement when others write.

## 14. The run of the services

| Run | Instance | Shows |
|---|---|---|
| `Services` | below; one service at work in each behaviour | all properties of sections 8, 9, 11, 12 and 13, and `ServicesInv`: the inductive invariants of the five, `TransfersInv`, `CredentialsInv`, `CatalogInv`, `RemindersInv` and `ReportsInv` |

| Part | Bounds | Why |
|---|---|---|
| transfers | 2 accounts, 1 transfer, 2 requests at once, 3 in all; edits of one account, of both, or of the detail (`Amended`), each id in either spelling | a create and two that race on what it made; edits that make the ends equal, and one that gives no account |
| credentials | 2 calls at once, 4 in all, `MaxAttempts` 1, `MaxFailed` 2 | a registration, an issue, and two verifications, or two sign-ins that race; the smallest cap and a counter that has to count |
| catalog | 1 account, 1 custom and 1 system category, 2 templates, 1 word in 2 cases, 2 requests at once, 3 in all; edits of the name, of the kind or of the category (`Tried`) | two templates that could have one name; two edits of one, or an edit and an archiving |
| reminders | 3 reminders, cap 1, 2 requests at once, 3 in all | two creates that pass the cap and an edit |
| reports | 2 accounts, 1 category, 1 amount, 2 entries, 2 writes during or before a request, a page of 1, two days around a new year | a write before the request and one between its reads; a page with something beyond it |

The parts share no variable, so a behaviour of one of them alone is a behaviour of
the module; ids with the same name in several parts are permuted together, which
is sound because no part sees another's.

## 15. Proofs

All proofs are for any sets of accounts, tokens, keys, requests, ids (finite where a
cardinality is spoken of).

**Refresh sessions** (`RefreshSessionsProofs`, from `SessionAssumption`: the null
values lie outside their sets). `ChainInv` is inductive and gives
`EndedChainUnusable` and `OneUsableTokenPerChain`. Neither is inductive alone:
a rotation inserts its replacement before it claims the presented token, so a
chain can have several active documents. `ReplacementsOK` says that all but one of them
are the replacement of one request each, unknown to clients, and active as
long as the token that request presented is. `SessionsImplementChains` then
maps every step to a step of `SessionChains` or to none. `ResetEndsTheOthers` needs more (`ResetInv`):
a replacement goes back to the same password as the token it replaces (`ProofsOK`), and, from `ChainInv`, an
active replacement whose presented token was revoked does not reach a client, so that the
one `updateMany` of a reset leaves nothing behind that a rotation in flight could hand out.

**Idempotent creates** (`IdempotentCreateProofs`). `OnceInv` is inductive when neither
the audit append nor `complete` rejects (`CleanFailures`, a hypothesis of the
theorems; crashes are allowed anywhere). `HolderOK` says that one request at a
time holds a reservation and what it has made under it; `RecordOK`, that a free
slot has nothing created under it. From it `KeysImplementCreates` maps every step to a step of
`KeyedCreates` or to none: the insert is `Make` (or `MakeUnkeyed`), the audit append
`Record`, each answer with 201 `Confirm`, the purge `Forget`, everything else, an edit, a deletion or a replay that finds the resource gone, a stutter. `RepliesTellTheCreate`
follows because a resource once edited or deleted stays so.

Two theorems have no hypothesis, and say what is left of the promise where the run
`CreateRetryAfterLateFailure` breaks it. `ReservationInv` is inductive under every failure: `SoleHolder`, one request
holds a key at a time, and `CompletedOK`, a completed record names a resource made under the key from its payload, with its
event in the log. It gives `AnswersAgree`: the answers given under a key, as long as its record is retained, are all about one
resource, made from the one payload, whose event is in the log. So a late failure can create twice, but it
never makes two clients, or two tries of one, believe different things.

**Families** (`FamiliesProofs`, from `FamiliesAssumption`: null values lie outside their sets,
requests are finitely many). `FamiliesInv` is inductive; its parts are proved one after the other.
`FamilyInv` contains `FamilyKeepsOwner`. A membership is deleted by its account alone.
`RequestOK` says that between the guard and the delete the membership read is
still there, because taking it away is what another departure of the same
account does, and then the account is in `raced` (`RequestsApart`). `CodeInv` adds
what `CodesAdmitOne` rests on: a code that can still be redeemed has admitted nobody.
`LogInv` gives `LogTellsMembership`, which says nothing while a request is in flight: for every account and
family the events written and those still to be written by requests (`Pending`,
a cardinality) balance with the membership, and a membership changes in the
same step as the number of requests that owe an event. `OrphanInv` gives `NoOrphans`: a family without its
owner's membership has a request that will give it one or delete it.
`FamiliesImplementHouseholds` maps every step to a step of `Households` or to none. What it adds to the
invariant is `EntrantsApart`: a code has one guest at a time, because redeeming it and
finding it open are one `findOneAndUpdate`. A departure maps to `Depart`, which asks for a plain member:
that is where `RequestOK` is needed, since the delete itself asks for nothing.

**Movements** (`MovementsProofs`, from `MovementsAssumption`). `MovementsInv` is inductive.
Its part `MovementInv` contains `KindsMatch`: a patch is written over the document stored by then,
which is the document it was validated against unless the movement is in
`raced`. `TrailInv` gives `TrailTellsAll`, also for movements that raced: what a movement has been
and the trail does not tell is the document some request holds and is about to
append (`Reporting`), and a request that stops there puts the movement in `cut`.
`DeletionIsFinal` is the action property from the same invariant.

**Transfers** (`TransfersProofs`, from `TransfersAssumption`). `TransfersInv` is inductive by
the same two arguments and gives `EndsDiffer` and `TrailTellsAll`; `DeletionIsFinal` follows from it. What a request is about to
store has two accounts unless the request is in `odd`; storing it puts the transfer in `respelled` or takes it out.

**Codes and lockout** (`ServicesProofs`, from `CredentialsAssumption`: the limits are positive
and calls in flight are finitely many). `CredentialsInv` is inductive and gives
`RetiredCodesFail`, `AttemptsBounded`, `VerifiedProvesInbox` and `LockoutCounts`. `HeldOK` says what
a call in flight was told about the code it holds. `IssuesApart` says that, until
two issues of one purpose overlap, the code standing is the newest and none stands
between the sweep of an issue and its store; without it a code that was followed by
another could still be standing. `CountsBounded` counts the comparisons that calls
have been let in for together with those made.

**Reminders** (`ServicesProofs`, from `RemindersAssumption`: a positive cap, finitely many
ids and requests). `RemindersInv` is inductive and gives `RemindersCoherent`, because what
a request is about to write is coherent too, and `RemindersCapped`, because the cap
holds of the reminders and the inserts to come together.

**Accounts, categories and templates** (`ServicesProofs`, from `CatalogAssumption`: null values lie outside
their sets, the edits tried are patches). `CatalogInv` is inductive and gives `TemplateNamesApart` and
`TemplateKindsMatch`; `ArchivedIsReadOnly` is the action property `ReadOnlyStays`, both its part about system
categories and its part about archived documents. `EditorOK` keeps, for a request in flight, what its last check found:
that a document is active or archived as the request needs it, unless the document is in `contested`; that the
form to be written is the stored one with the patch over it, unless the template is in `muddled`; and that
no other template has its name, unless `rushed`. `EditorsApart` says that two requests with one target, or two that
name a template, are what those three record.

**The mobile session** (`MobileSessionProofs`, from `MobileAssumption`: one pair and one task at least). `MobileInv`
together with `NoSelfTheft` is inductive, for any number of tasks, pairs and acts and any troubles. `RotationAwaited`
ties the rotation in flight to those who wait for it; `FreshInUse`
says that what the app is about to present or to save has not been replaced, which is why
the shared rotation presents each token once; `WritersApart` says where each writer of
the store has got to while none overlapped, which gives `PairsMatch`; `SessionKnown` is
what a task that runs alone knows of the store, which gives `SessionMatchesStore`.
`ApiAsPromised` is the refinement of the app's API (`ApiKeepsPromise`); it rests on `ChainsOK`, that a chain is named by its first pair
and has at most one live pair, and on the fact that the ids of new pairs are new.

**Both sides of a session** (`MobileSessionProofs`). A behaviour of `MCSignIn` moves one side and leaves the other at
its start, which satisfies its invariant too; so both invariants hold throughout (`SignInInvariant`), and
`OnePromise` puts the two refinements of `SessionChains` side by side.

**Reports** (`ReportsProofs`, from `ReportsAssumption`: finitely many accounts and categories, positive amounts,
finitely many years from 100 on, days that are dates of those years, a page of at least one row). The module has four parts.

1. Sums. `SumFunctionOnSet` of the community modules folds over a set in an order nobody
   chooses. From the library's theorem that the finite subsets of a set are well founded, `SubsetInduction` and `SetInduction` give
   induction for a set of subsets, and with it: the recursion has one solution (`IterExists`, `IterUnique`), any
   element may be taken first (`SumTakes`), sums split, subtract and compare, and summing by key and then over
   the keys is summing all (`SumByKey`).
2. The calendar. `YearStarts` and `MonthSpan` give the lengths of years and months, `BoundsApart` that months do
   not overlap, `CalendarParts` that every date lies in its own month alone.
3. The books. With 1 and 2, `BooksReconcile` holds of any entries of the right types
   (`BooksAgree`), and the transfers of any moment add up to nothing over the accounts (`TransfersCancel`).
4. A request. Every step is a request that comes in, one of its reads, its answer, or a write (`ReportsStepKinds`); `ReportsInv` is
   inductive over these four. `ListHeld` keeps that the transfers read cancel out; `MarksHeld` that a change known when the marks were asked for is
   covered by a mark read or by a document still to be looked at, because writes only
   make documents newer; `ExportHeld` that the accounts of the rows exist when their names are read, because none is
   removed; `PageHeld` that what was read is what would be read, until something is written. `HistoryTells` then needs that the
   matching entries have the places 0, 1, 2, ... in the order of a page, no two the same (`PlacesApart`, `PlaceTaken`).

**The five services together** (`ServicesProofs`). `ServicesAreApart`: a behaviour of `MCServices` is a behaviour of each of
the five specifications, since a service that rests only stutters. With it `ServicesInvariant` gives `ServicesInv`, the
conjunction of their inductive invariants, which the run `Services` checks.

Every safety and action property and every refinement of the passing runs has its theorem. Left to
TLC are the liveness properties `EndedChainDrains`, `PendingSettles` and `LoadingEnds`: TLAPS has no
rules here for fairness and ENABLED. The theorems of `IdempotentCreateProofs` about creating once have the hypothesis
`CleanFailures`, which is what its passing run has and what the violation run drops; those about reservations
and answers have none. No theorem has any other hypothesis than the named assumptions about constants.

## 16. What is not modelled

* Content that no property tells apart: names, notes, e-mails, error texts, the
  amounts of movements outside `Reports`, timestamps other than "has expired" and the
  order of writes.
* Reads that only list or get a document (their filters are those of the handlers
  that are modelled), the CSV writer, and the authors' e-mails of an export.
* The membership a request was let in with, for handlers that do not change
  memberships: it is read once per request, and nothing promises more.
* A `null` in a patch: `@IsOptional` lets it pass. A null account is validated as the one stored and the
  update stores a fresh id (transfers.service.ts:143); a null `type` of a movement or template
  is validated as the one stored and stored as null (movements.service.ts:165,
  capture-templates.service.ts:140). The models know fields that are given or absent.
* The spelling of ids outside `Transfers`. `netForAccount` (movement-balance.service.ts:16,
  transfer-balance.service.ts:17) looks the sum up by the id as the client spells it, so an
  account asked for in upper case shows its opening balance; `Reports` has the list of all accounts,
  whose ids come from the database.
* MongoDB replication, and the document-by-document execution of `updateMany`.
* A session that login inserted and whose answer was lost: like a replacement
  left by a failed rotation, it is active and in nobody's hands.
* The password-reset screens of the app, which keep no session state; mail, HTTP wiring,
  JWT and argon2, contracts (section 1).
