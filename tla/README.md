# SothForge API in TLA+

This directory specifies the parts of the SothForge API whose correctness depends on the order in which things happen. It holds TLA+ modules translated from the source, TLC instances of them, and theorems about them that TLAPS checks. Paths below are relative to the repository (`src/...` there).

1. [The system](#1-the-system)
2. [How the models relate to the code](#2-how-the-models-relate-to-the-code)
3. [The modules](#3-the-modules)
4. [The runs](#4-the-runs)
5. [What is proved](#5-what-is-proved)
6. [Disagreements between code and documents](#6-disagreements-between-code-and-documents)
7. [What is not modelled](#7-what-is-not-modelled)
8. [Plan](#8-plan)

## 1. The system

The API is one NestJS service over PostgreSQL (through Prisma) and Redis. A handler keeps nothing between requests: whatever two requests share is a row in PostgreSQL or a key in Redis. A request is a chain of awaits:

    JwtAuthGuard -> a resource guard reads the caller's membership
                 -> RolesGuard compares its role with @Roles (no await)
                 -> the service reads the rows it decides on
                 -> one transaction writes, with its audit record
                 -> (projects) Redis is told

At each arrow another request may run, the process may die or a statement may fail. What was read before an await is used after it without being read again; there is no locking read, no version column, and the isolation level is the default, READ COMMITTED.

| component | state | operations that change it | what must hold |
|---|---|---|---|
| organizations and members (`src/src/organizations`) | `Organization`, `OrganizationMember` | create, update and remove an organization; add, promote, remove a member; leave; transfer the ownership | one OWNER; no row in a removed organization; only an OWNER hands on ownership |
| roles and access (`src/src/auth/guards`, `src/src/common/authorization`) | none: reads membership rows | none | the role that was required is the role that was held |
| authentication and sessions (`src/src/auth`) | `Session`, `User.lastLogin` | login, refresh, logout, logout-all | a refresh token is exchanged once; replays are noticed; what was closed stays closed |
| projects and their cached list (`src/src/projects`) | `Project`; `projects:{organizationId}` in Redis | create, update, remove; filling, dropping and expiry of the list | lists that were true once, outdated only for a known reason and not for long |
| boards (`src/src/boards`) | `Board` | create, update, remove | no task without its board |
| tasks (`src/src/tasks`) | `Task` | create, update, remove, assign, unassign, status, priority; the paged listing writes nothing | assignees belong; the log tells what happened; a reader of all pages sees each task |
| labels (`src/src/labels`) | `Label`, `TaskLabel` | create, update, remove, assign, unassign | names unique in an organization; labels on tasks of their own organization |
| comments (`src/src/comments`) | `Comment` | create, update, remove | edited by their author, deleted by who may |
| users (`src/src/users`, registration in `src/src/auth`) | `User` | register, update the profile, change the password | unique names and addresses; a password proves who asks |
| audit log (`src/src/audit`) | `AuditLog` | one record inside the transaction of each change | records appear with their change or not at all, and stay |
| redis (`src/src/redis`) | keys with a TTL | get, set, setWithTtl, delete | |
| error filter, request ids (`src/src/common`) | none | none | a failed request ends |
| rate limiting, configuration, start-up | the throttler's counters (library) | none in this repository | |

Components meet in the rows. Every guard reads `OrganizationMember`. Removing an organization removes, by foreign keys, its members, projects, boards, tasks and labels, and clears `AuditLog.organizationId`. A project's write drops the list that a project's read fills. Removing a member touches nothing else: his tasks stay assigned to him, his comments stay his.

What makes it hard is listed line by line under `hazards` in `PROJECT.json`. In short: decisions on rows read before an await (ownership, roles, assignees, previous status, a token's revocation, a free name, a password's hash, the two roles a deletion of a comment rests on); two requests that both pass one check; PostgreSQL and Redis updated one after the other; answers lost after the commit; rows that cascade away under a request; pages that shift between two reads; records written first and made true later in the same transaction.

## 2. How the models relate to the code

**Steps.** One action is the code between two awaits that other requests can notice. A guard followed by RolesGuard and by a service's refusals before its first await is one action. A guard that reads a task and then a membership is one action too: the path from a task to its organization never changes, and a task that goes in between is found gone by the transaction.

**Transactions are one step.** Each transaction of the code writes rows it selects by key, keeps their locks until it commits, and never reads a value it decides on: two transactions that touch a common row run one after the other. One kind is different. The removals of an organization, a project and a task add the audit record *before* the `delete` that locks the row, so others may write the row, and date a record later, in between. The removal of a task is therefore two steps, `RecordRemoval` and `RemoveTask`, and its record counts from the commit on; what is proved of the log of tasks is about the order of commits, and a record may be dated after the `TASK_DELETED` of its task. The other two removals stay one step: what is stated of their records is how many there are and that they agree with the rows, and depends on no order between the record and the delete. Labels, comments and users are written by single statements, which are steps of the same kind. When the row is gone `update` and `delete` raise P2025, a duplicate or dangling key raises an error, and Postgres may abort a transaction, for instance because two transfers lock the same rows in opposite order. In every such case nothing of it remains, the audit record included, and the request is refused (`Fail`, `Gone`). `Fail` is always possible once a request has begun: it is also the statement that fails, the process that dies and the answer that is lost. ProjectsCache alone can switch failures off, to show that its violation needs none.

**Requests.** A model has a finite set `Request`; each is used at most once, so every behaviour is finite and stops with all requests answered. That is why the configurations say `CHECK_DEADLOCK FALSE`: the service is then idle, not stuck. A request that ends forgets what it read, which changes nothing and keeps instances small.

**Names.** Ids that the database or a random generator makes are named by the request that makes them: `Old` and user ids name rows present at the start. Token hashes, passwords, titles and dates do not appear; a token is its session.

**Time.** Only sessions and cache entries depend on time. `now` in Sessions moves in steps up to `MaxTime`; `new Date()` is the time of the statement it is part of. A cached list with a TTL may expire at any moment.

**History variables** (`origin`, `parent`, `swept`, `inFlight`, `lists`, `seen` and `acked` of ProjectsCache, `excuse`, `met`, `editors`, `past`, `during`, the last four of Listing) record what the properties compare with. No guard of an action reads one. `alone` of `MembershipAlone` and `SessionsAlone` is another: it is true until a request takes a step while another is running. A property that begins with `alone =>` speaks of requests that come one at a time, and is checked in the same run as those that overlap.

**Mutants.** Definitions under a comment that begins with `Mutant` are not part of a model. Each is a plausible bug in the definition it stands next to; with it in that place some property fails. They show that no property holds by the shape of the model.

## 3. The modules

| module | models | lines of code it follows |
|---|---|---|
| `Access` | roles, what `@Roles` requires of the organization endpoints, RolesGuard | `organizations.controller.ts`, `roles.guard.ts` |
| `Membership` | every endpoint that changes an organization or a member, with its audit record | `organizations.service.ts` 25-487, `organization.guard.ts` |
| `MembershipAlone` | `Membership` with a history of whether requests overlap, and what holds when they do not | |
| `Ownership` | abstract: a table of roles and its six kinds of change | what `Membership` implements |
| `Sessions` | login, refresh, logout, logout-all | `auth.service.ts` 95-265 |
| `SessionsAlone` | the same history over `Sessions` | |
| `ProjectsCache` | `findAll` through Redis, and the writes that drop the list | `projects.service.ts`, `redis.service.ts` |
| `Tasks` | every endpoint that changes a task, over `Ownership` for the members | `tasks.service.ts`, `task.guard.ts`, `boards.service.ts` 65-81 |
| `Labels` | every endpoint that changes a label or puts it on a task | `labels.service.ts`, `label.guard.ts`, the label's path in `authorization.service.ts` |
| `LabelBook` | abstract: labels entered, renamed, struck, put on tasks | what `Labels` implements |
| `Listing` | a client that reads `findAll` page after page, over `Labels` | `tasks.service.ts` 76-165, `task-query.dto.ts` |
| `Comments` | every endpoint that changes a comment, over `Ownership` for the members | `comments.service.ts`, `comment.guard.ts` |
| `Accounts` | registration, profile, password change, the lookup of login | `users.service.ts`, `auth.service.ts` 26-110 |
| `MembershipProofs`, `OwnershipProofs`, `SessionsProofs`, `ProjectsCacheProofs`, `TasksProofs`, `LabelsProofs`, `CommentsProofs`, `AccountsProofs` | theorems | |
| `MCMembership`, `MCSessions`, `MCProjectsCache`, `MCTasks`, `MCListing`, `MCComments`, `MCAccounts` | instances and symmetries for TLC | |

**Membership.** `orgState`, `members` and `audit` are the tables; `pc`, `args`, `membership` (the row on the request object) and `seen` (the row the service read) belong to a request. `Guard` is OrganizationGuard with RolesGuard and the early refusals; `Check` is the service's read; `CreateOrganization` to `LeaveOrganization` are the transactions. `TransferOwnership` writes two rows and asks neither whether the caller is still OWNER. A row keeps the id it was created with, so a member who left and came back has another.

**Ownership** is the specification of which role changes are allowed at all. With `Strict`, no change touches an OWNER other than a handover by the OWNER; that is what requests do one at a time. Without, decisions may be out of date. `Membership` implements it without `Strict` under the mapping `role[o][u] = members[o][u].role` (`ImplementsTable`), and takes none but strict steps as long as requests come one at a time (`StrictTableAlone`). `Tasks` and `Comments` use it in place of `Membership` for the members who come and go; that they may is what `ImplementsTable` says.

**Sessions.** `RefreshFind` reads the session by token and decides from `revokedAt` and `expiresAt`; `RefreshRotate` is the transaction that revokes by id and creates; `RefreshSweep` the revocation of everything when a used token came back. `LogoutAll` is one statement. `answer` is the moment before the client has the new token: `Fail` there is a lost answer, after which the client still holds the old one. A client can present only tokens it was given (`Delivered`).

**ProjectsCache.** `Get`, `Load`, `Store` are the three awaits of `findAll`; `Create`, `Update`, `Remove` commit and `Invalidate` drops the list; `Fail` between them leaves the list. `RemoveOrganization` removes projects and leaves the list to its TTL. `lists[o]` is the history of what the list should have been.

**Tasks.** `Begin` is the guard, `Validate` is `validateAssignee`, `Find` the service's `findFirst`; then the transactions. `SetField` is shared by `updateStatus` and `updatePriority`, which differ in the column only: it writes unconditionally, and records the change if the row read *before* the transaction had another value. A removal adds its record (`RecordRemoval`, which leaves the request at `delete`) and then deletes the row (`RemoveTask`). `audit` is what was inserted, by `createdAt`; each record names the request whose transaction inserts it, and is a row of the log if that request has ended well (`Committed`, `Told`). `met` is the history of who has been a member of a request's organization since its guard. `ChangeMembers` takes any step of `Ownership`; `RemoveBoards` removes a board, or several as a project does. `MaxMoves` bounds both.

**Labels.** No method of the service opens a transaction. `Begin` is the guard, `Find` the service's `findUnique`, `Check` the lookup that follows (`ensureNameIsAvailable`, or whether the label is on the task), then one statement writes. Which lookups a request makes, and in which order, differs by endpoint. What decides in the end are the unique key of organization and name (`NameIsFree`), the primary key and the foreign keys of `TaskLabel`. `RemoveTasks` and `RemoveOrganization` are the rows that cascade away meanwhile.

**LabelBook** says what a client is promised: one entry at a time, under the conditions the lookups mean to ensure, at the moment of the write. `Labels` implements it with the same four tables.

**Listing** extends `Labels` with a client that filters tasks by a label, sorts by one column and turns the pages. `FindMany` and `Count` are the two queries that `Promise.all` sends together, in either order and with other requests in between. `Orders` are all the orders Postgres may give to rows with equal values. Labels stand for whatever else makes a task begin or stop to match: a status, an assignee, its creation or removal.

**Comments.** `Begin` reads the caller's membership (`held`), `Find` the comment with its author and, for a deletion, the author's membership; the write is by id. `MayRemove` is the service's three refusals. Of the text only its writer is kept. `past` is, for a deletion, the tables of roles there have been since its guard; `Allowed` asks for two of them, the caller's and the author's, that permit it.

**Accounts.** `Begin` takes the lookup and bcrypt's answer about the row that was read; between that and the write lies the time bcrypt takes, in which names, addresses and passwords change. `Update` looks nothing up: the unique keys refuse (`Keyed`, P2002), there as in `Register`, and that names stay unique is therefore no property of this module. `Login` stops where `Sessions` begins.

## 4. The runs

Each run checks one question on a small instance. TLC takes from a second to about three minutes for each with two workers.

| run | instance | what it shows |
|---|---|---|
| `membership_overlap` | 3 users, 1 organization, 3 requests that overlap or come one at a time | `TypeOK`; `NoOrphanMembership`; `DeletionRecordedOnce`; `AuditNeverContradictsRows`; `ChainOfCustody`; `AuditSurvives`; `ImplementsTable`; `OwnershipDriftIsStale`: the number of OWNERs leaves one only by a commit that rests on a row changed since it was read. One at a time: `DeparturesRecordedAlone`, `StrictTableAlone` |
| `membership_ownerless` | 2 users, 2 requests | violates `AtLeastOneOwner` (section 6) |
| `sessions_overlap` | 2 users, 4 requests that overlap or come one at a time, lifetime 2, time to 2, failures and lost answers | `TypeOK`; `RotationConsumesParent`; `SweepLeavesOnlyInFlight`; `OneUserPerStep`. One at a time: `SingleUseAlone`, `OneLivePerLoginAlone` |
| `sessions_replay` | 1 user, 4 overlapping requests, lifetime 1, fair | `ReplayEndsSessions`: sessions live when a replay was noticed end, unless the request that noticed it fails |
| `sessions_double_use` | 1 user, 3 requests | violates `SingleUse` (section 6) |
| `cache_overlap` | 2 organizations, 1 old project, 3 overlapping requests, failures, fair | `TypeOK`; `ListsWereTrue`; `StaleIsExplained`; `AuditTellsProjects`; `StaleEnds` |
| `cache_stale_read` | 1 organization, 3 requests, no failures | violates `ReadsAreFresh` (section 6) |
| `tasks_overlap` | 2 users, 1 organization, 1 board, 1 old task, 3 overlapping requests, two statuses, two priorities, 1 change around them | `TypeOK`; `TasksHaveBoards`; `AuditFramesTask`; `AssignmentsTold`; `AssigneesWereMembers`; `DeletionClosesLog`; `LogDriftIsStale` |
| `tasks_assignee_left` | 2 users, 2 requests, 1 change | violates `AssigneesBelong` (section 6) |
| `labels_listing` | 2 organizations, 2 names, 3 tasks, 1 old label, 2 overlapping requests; pages of 1 and 2; sort columns with and without ties | `TypeOK`; `LabelsInOrder`; `ImplementsBook`; and of a client that turns the pages, `SlipsExplained` and `QuietWalkIsExact` |
| `comments` | 2 users, 2 organizations, 1 task, 1 old comment, 2 overlapping requests, 2 changes around them | `TypeOK`; `CommentsHaveTasks`; `AuthorsWereEditors`; `RemovalsAuthorized` |
| `accounts` | 2 old users, 3 names, addresses and passwords, 3 overlapping requests | `TypeOK`; `ProvenByPassword` |

**Why the bounds are enough to be interesting.** Every violation listed needs two requests that overlap and, for two OWNERs at once, three users; three requests allow a third to meet the state two have left, for example a member who is removed and enrolled again under a transfer that still holds his old row. Requests that overlap in `membership_overlap` are for the endpoints whose effects on rows can meet: creating and renaming an organization are there too, one at a time. Sessions need four: a login, two refreshes of one token and a logout-all, or a login, a rotation, its replay and another user. A lifetime of two lets a session be rotated before it expires and expire while a rotation is on its way. Two organizations in the cache show that lists do not mix. One change around the tasks suffices because it may fall between the check and the transaction of a request, and it may be the removal of the organization; comments have two, for one deletion may lose both roles it rests on. Two label requests meet on one name and on one task, and the old label lets a rename meet a creation. Three accounts requests let an address be given up and taken by another under a login.

With three tasks a page of two is once full and once not, a page of one always full, and with no task there is no second page: the edges of the page computation. `MCListing` lets a client begin his walk in any state with at most assignments on their way, and then only `OnlyTasksMatter`: tasks are removed and labels put on and taken off during a walk, which is all that changes what matches. Where no walk begins, all of `Labels` goes on.

**Symmetry** of users, requests, names and the like is used in runs without liveness only; there they are interchangeable in every definition. In `labels_listing` tasks are, because the instance has every sort column along with each permutation of it.

**Fairness.** `FairSpec` of Sessions and ProjectsCache says that a started request takes its next step: Node resumes a handler when its statement returns, and Prisma and Redis answer or fail. It never says that a request arrives, or that it does not fail. ProjectsCache adds that an entry with a TTL expires, which Redis promises; `StaleEnds` needs it even though requests go on, since a failed drop is never tried again. Tasks, Labels, Comments and Accounts promise nothing that must eventually happen: a request there writes once or not at all, and nothing waits for it.

## 5. What is proved

For any sets of users, organizations and requests, and any initial state that `Init` allows, TLAPS proves:

| theorem | states |
|---|---|
| `MembershipProofs!TypeCorrect`, `NoOrphans`, `DriftIsStale`, `Implements` | `TypeOK`, `NoOrphanMembership`, `OwnershipDriftIsStale`, `ImplementsTable` |
| `MembershipProofs!LogSurvives`, `AuditTellsRows`, `Custody`, `DeletionsAreRecorded` | `AuditSurvives`, `AuditNeverContradictsRows`, `ChainOfCustody`, `DeletionRecordedOnce` |
| `MembershipProofs!ImplementsStrictly`, `DeparturesAreRecordedAlone`, `OneOwnerAlone` | of requests one at a time: `StrictTableAlone`, `DeparturesRecordedAlone`, `ExactlyOneOwnerAlone` |
| `OwnershipProofs!StrictKeepsOneOwner` | with `Strict`, `AExactlyOneOwner` |
| `SessionsProofs!TypeCorrect`, `ParentsConsumed`, `SweepsHold`, `UsersApart` | `TypeOK`, `RotationConsumesParent`, `SweepLeavesOnlyInFlight`, `OneUserPerStep` |
| `SessionsProofs!ExchangedOnceAlone`, `OneLiveAlone` | of requests one at a time: `SingleUseAlone`, `OneLivePerLoginAlone` |
| `ProjectsCacheProofs!TypeCorrect`, `ListsTrue`, `StaleExplained`, `LogTellsProjects` | `TypeOK`, `ListsWereTrue`, `StaleIsExplained`, `AuditTellsProjects` |
| `TasksProofs!TypeCorrect`, `HaveBoards`, `AssigneesWere` | `TypeOK`, `TasksHaveBoards`, `AssigneesWereMembers` |
| `TasksProofs!AuditFrames`, `DeletionCloses`, `AssignmentsAreTold`, `DriftIsStale` | `AuditFramesTask`, `DeletionClosesLog`, `AssignmentsTold`, `LogDriftIsStale` |
| `LabelsProofs!TypeCorrect`, `InOrder`, `Implements` | `TypeOK`, `LabelsInOrder`, `ImplementsBook` |
| `LabelsProofs!SlipsAreExplained`, `QuietWalksAreExact` | of `Listing`: `SlipsExplained`, `QuietWalkIsExact` |
| `CommentsProofs!TypeCorrect`, `HaveTasks`, `AuthorsWere`, `RemovalsOnTwoReads` | `TypeOK`, `CommentsHaveTasks`, `AuthorsWereEditors`, `RemovalsAuthorized` |
| `AccountsProofs!TypeCorrect`, `Proven` | `TypeOK`, `ProvenByPassword` |

The only assumptions are the ones each component's module names (`MembershipAssumption` to `AccountsAssumption`): the special values are not ids, rows from the beginning are not named like requests, every task and board has an organization, statuses, priorities and users are told apart, bounds are natural numbers, there are finitely many tasks and pages have 1 to 100 rows, as `task-query.dto.ts` demands. TLC evaluates them in every run. `OneLiveAlone` is stated for finitely many requests, because `OneLivePerLoginAlone` counts ancestors up to their number.

**Membership.** `TypeOK` is not inductive: that an audit record names a real actor, row and roles rests on what the request checked before. `ChecksPassed(r)` says what is left of those checks at the commit. They are facts about rows that were read, and stay true while other requests change the rows. With `NoOrphanMembership` they make up `IInv`. For `DriftIsStale`, `FreshCommit` takes each endpoint whose rows are still what was read (`~Stale`): the checks then speak of the rows as they are, the target of a change is no OWNER, a handover comes from the only one, and the rest is a counting argument on "exactly one".

**Sessions.** `ConsumedParent` says of each session that its parent exists, is revoked and belongs to the same user; `RequestOK`, that a session a request is going to create is not there yet and that the one it works on is; `SweptOK`, that whoever holds a swept session's token and is about to rotate was on his way when the sweep happened. A revocation changes no other column and never undoes one (`RevokeEffect`).

**ProjectsCache.** `HistoryOK` ties the last entry of the history to the rows, `RequestOK` says that a list loaded or served is in the history of its organization, `EntryOK` the same of the cached one, and why it may be outdated. The history only grows (`HistoryGrows`, `WasListStays`), so every other request's list stays in it when one commits.

**The refinement of Ownership.** `Implements` takes the transactions one by one, each to one change of the table (`CreateIsFound` to `DepartureIsStrike`). A role is `NONE` exactly where there is no row (`RolesOfRows`), so writing one row changes one role; the rest is what is left of the request's checks at its commit: a role asked for is not OWNER, the target of a transfer is not the caller. `StrictKeepsOneOwner` is the other half: an organization that is not live has no members, nobody but its OWNER hands over, and no other change concerns an OWNER (`CommonerSettles`). What joins the two is `ImplementsStrictly`: the lemmas that take a transaction to a change of the table do so for the strict table too when the rows are still what was read (`UpToDate`), and `AloneInv` says that they are, for the one request that runs.

**The log.** Whose row a record is about is told by the id of the row, so `IdsInv` comes first: no two rows have one id, an id that is gone stays gone, and whatever a request remembers was a row of its organization and user. On it rest three invariants. `RowsTold` ties each row to the last record about it, at the step where the row changes and at every step where it does not. `CustodyInv` adds to the chain of transfers that whoever is OWNER now, and whoever acts on a row that was OWNER's when it was read, has the right by the log; without the second half a transfer on an old row would break the chain. `DeletionsTold` says which record a removed organization has left. For tasks, `LogInv` speaks of what is inserted, committed or not: only the record of a removal waits for its transaction to end, and each removal has one (`RemovalsAhead`); a task whose removal is committed is gone for good (`RemovalsFinal`); nothing is inserted about a task before its creation (`CreationsFirst`); and the last assignment inserted is the row's (`AssignmentsInserted`). What is committed follows. Once a task is gone no transaction on it can commit, since every one of them needs the row (`DeletionCloses`). For projects `LogOK` says the same, and who made a record. `LogDriftIsStale` is not an invariant: a field's records make a chain up to the row, and a commit that continues the chain with what it read breaks it only if the row no longer has that value.

**One at a time.** `AloneInv` and `SoloInv` say that at most one request runs and that what it has read is still so. Then every exchange is of a token not exchanged before, so sessions have at most one child each (`OnlyChildren`). That two live sessions never go back to one login is a fact about chains of any length. It is proved without induction over the chain: `Line(s)` is the least set that has `s` and the parent of each of its members, two lines of childless sessions do not meet (`LinesApart`), and the ancestors that the property counts, a function iterated over the naturals, are inside the line. That last step needs one induction, on a set of naturals (`NatSets`, from the well-foundedness of `<`), which the provers do take; it is inductions that name an operator which they do not.


**Tasks, Labels, Comments.** Their invariants have one idea in common. A request decides on a row, loses it and writes by id; what protects it is that an id, once gone, is never given to another row. `RequestOK` says so: a row that a request found was created by a request that has ended, so if the row is there at the write it is the one that was found, in the organization that was found. In `Tasks` it adds that the assignee looked up is among those the request has `met`; in `Labels`, that a label found for a task is still of the task's organization, which with the keys of the schema gives both `LabelsInOrder` and, write by write, the book; in `Comments`, that a role that was read is in one of the tables of `past`, the caller's no later than the author's, and that the last of them is the one there is (`PastGrows`, `LaterTables`), so that a deletion's two reads are two moments of its own run.

**Accounts.** What bcrypt confirmed is a fact about the past: `RequestOK` ties it to `during`, which only grows while the request runs.

**Listing.** No sequence is walked. A task's `Place` is the number of tasks that match and come no later; in any order `findMany` may give, a row's number is its place, if the column tells tasks apart (`RowsInPlace`, by a bijection). Tasks that stop to match move the others up, tasks that begin to move them down (`PlaceGrows`). So as long as none began, what has been shown lies where the pages have been (`OnceOK`), and as long as none stopped, what lies there has been shown (`NoneMissedOK`). The rest is that `Skip` starts each page where the last ended and that the last page by `TotalPages` reaches the last row (`LastPage`), given a count that is not older than the rows or not torn from them.

Only model-checked: the liveness properties `ReplayEndsSessions` and `StaleEnds`, since fairness is out of the prover's reach. Every other property of a run that passes is proved. The runs and the theorems are still about different things where a run narrows its model: `MembershipOverlap.cfg` lets only some endpoints overlap and `MCListing` only some steps during a walk, while the theorems are about all of them.

## 6. Disagreements between code and documents

| run | what happens | what is said |
|---|---|---|
| `membership_ownerless` | A member is made OWNER after his own departure has passed the guard (or while he is being removed or regraded); the transaction deletes by key, and nobody is OWNER. | `docs/business-rules.md:15` "Una organización debe tener al menos un `OWNER`." |
| `sessions_double_use` | Two refreshes with one token read the session before either has revoked it; both get a new session and neither is noticed. | `README.md:16` "Detección de reutilización de refresh tokens"; `test/integration/auth/auth.controller.spec.ts:192` |
| `cache_stale_read` | A read loads the rows, a write commits and drops the list, the read stores what it loaded: up to 60 seconds of a list without that write. | `docs/redis.md:147-149` |
| `tasks_assignee_left` | Removing a member leaves the tasks assigned to him. | `docs/business-rules.md:53` "El usuario asignado debe pertenecer a la misma organización que la tarea." |

Two more disagree with a document, and show in what a property excepts or asks rather than in a run of their own:

- Of two overlapping changes of a task's status one can go unrecorded: the request that has read the status it asks for records nothing, but replaces whatever was written meanwhile. A change can also be recorded with a previous status the task no longer had. `LogDriftIsStale` says that nothing else parts the log from the row. `docs/erd.md:354` says "Los cambios relevantes sobre organizaciones, miembros, proyectos y tareas generan registros de auditoría.", and `docs/domain-model.md:87` asks it of tasks.
- Once its author has left the organization, nobody can delete a comment but with its task: `comments.service.ts:116` refuses even the OWNER, and the guard refuses the author. `RemovalsAuthorized` therefore asks for an author who was a member. `docs/permissions.md:30` lists "gestionar comentarios" for the Owner, and `docs/business-rules.md:98` gives him "control completo sobre sus recursos".

Weaker effects, which show in the same way:

- A rotation that overlaps logout-all survives it (`SweepLeavesOnlyInFlight`).
- By `createdAt`, records of a task may come after that of its removal: they were inserted between the removal's record and its `delete`, and committed before it (`DeletionClosesLog`).
- A client that reads all pages may miss a task that matched all the time, or see one twice: because tasks began or stopped to match between pages or between the two queries of one page, or because the sort column does not tell tasks apart, there being no second one (`SlipsExplained`). `CRITERIOS_ACEPTACION.txt:112-113` wants paging to work and results to be consistent with the filters, which each page is; they do not speak of pages that are read one after the other while tasks change.
- Of two password changes checked against one old password the later wins (`ProvenByPassword` says how old the password may be).
- A request of a caller who has been demoted or removed since its guard still commits; what is stated of it is only that the one OWNER is not disturbed otherwise (`OwnershipDriftIsStale`).
- A change of password leaves the user's sessions open.

## 7. What is not modelled

- Reads that answer a GET have no effect. Two are modelled all the same: `GET /projects`, which fills the cache, and the paged `GET /tasks`. Of the filters of the latter one is kept, since all of them say which tasks match.
- `parseDuration`: a computation on a constant of the configuration. `Sessions` is proved for any lifetime, zero included.
- Creating and renaming boards, and the columns of projects and tasks that no rule depends on.
- Password hashing, JWTs, token bytes, validation, Swagger, logging, the wording of errors, colours and avatars: data without control, or libraries.
- The Prisma client under `src/src/generated`, about 21,300 of the repository's 27,500 lines of TypeScript: generated from `schema.prisma`, which is modelled where actions meet its keys and cascades. It is why most lines have no definition that stands for them.
- Rate limiting: the counters live in a library; a refused request has no effect, which every model allows.
- Configuration and start-up: read once.

## 8. Plan

Done: the core (`Access`, `Membership`, `Ownership`), `Sessions`, `ProjectsCache`, `Tasks`, `Labels` with its book and its listing, `Comments`, `Accounts`, and theorems about each.

Left, in this order:

1. That the strict refinement gives `OneOwnerAlone`: today it is proved from `AloneInv`, beside `StrictKeepsOneOwner` and not from it, since `StrictTableAlone` is about steps.
2. `RolesOfRows` from `Tasks` and `Comments` to `Membership`: that each of their own steps and a step of the members make up one of a module with both.
3. `Tasks` over two organizations, with boards in both, if an endpoint that moves tasks appears.
4. Sessions and accounts in one module, if a change of password ever closes sessions.
