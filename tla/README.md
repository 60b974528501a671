# Classora: specifications, model checking and proofs

Classora is a multi-tenant application for training centres: a NestJS API
(`src/apps/api`), a React client (`src/apps/web`), one PostgreSQL database for
the platform (the *control* database, through Prisma) and one for each tenant
(through `pg`). This directory models the parts whose correctness depends on the
order in which things happen - transactions that overlap, pages that show what
others have changed since, answers that are lost, processes that are killed -,
checks them with TLC on small instances and proves their main safety properties
with TLAPS for all instances.

1. [The system](#1-the-system)
2. [How the models are built](#2-how-the-models-are-built)
3. [The modelled components](#3-the-modelled-components)
4. [Runs, bounds and fairness](#4-runs-bounds-and-fairness)
5. [Proofs](#5-proofs)
6. [Where code and documents disagree, and other observations](#6-where-code-and-documents-disagree-and-other-observations)
7. [What is not modelled, and the plan](#7-what-is-not-modelled-and-the-plan)

## 1. The system

### How the parts interact

A request reaches the API with a bearer token and a host name. Guards resolve
the tenant (control database), its membership and its permission; the
*connection interceptor* then asks the *tenant connection manager* for the
tenant's `pg.Pool`, which the request holds until its response has ended. The
domain services take clients from that pool and run their commands as
transactions: `BEGIN`, some row locks, checks, writes, an audit row, `COMMIT`.

There is one Node process, so memory shared between requests (the pool cache) is
only interleaved at an `await`. Everything else that requests share is in
PostgreSQL, at the default isolation level READ COMMITTED: each *statement* sees
what was committed when it started, and a transaction keeps the row locks it
takes until it ends. Mutual exclusion comes from `FOR UPDATE`, `FOR SHARE`,
unique indexes, triggers and advisory locks, and it is in the choice and order
of these that the system's correctness lies.

Services call one another inside a transaction (CRM conversion creates a student
and enrols it; finalising attendance creates makeup entitlements; most commands
plan notification messages), and after it (messages are delivered once the
command has committed, while its connection is still held). The pages of the
client work on copies of what they last fetched.

### Components

| Component | State | What is hard | Modules |
|---|---|---|---|
| Tenant connection manager (`tenant/`) | map tenant → pool, lease counters, promise chain, shutdown flag | callbacks interleaved at awaits, requests torn down while waiting, eviction, shutdown | `TenantPools` |
| Billing (`billing/`) | invoices, payments, allocations, refunds, reversals, credit notes, sequences, prices, discounts | sums read before a lock is obtained, retries with idempotency keys, batches over several invoices, terms that change while an invoice is drawn up | `BillingLedger`, `BillingTransactions`, `Sums`, `Drafting` |
| Team membership (`team/`, `db:create-owner`) | memberships, accounts, invitations | checks before the transaction, two locking protocols on the same rows, long-lived invitations | `TeamMembership` |
| Enrollments and classes (`enrollments/`, `classes/`) | enrollments, class status and capacity | places counted by several commands at once, rows changed between check and write | `Enrollments` |
| Attendance and makeups (`attendance/`) | sheets, records, entitlements, bookings | a cancellation while a sheet is initialised, corrections after the fact, sessions moved under bookings | `Makeups`, `MakeupRights` |
| Scheduling (`schedules/`) | patterns, exclusions, sessions | generation against what staff edited, moved and cancelled | `Calendar` |
| Teacher compensation (`compensation/`) | agreements, periods, items, adjustments | two computations of the same work, overlapping periods, replaced agreements, work completed during finalisation | `Compensation` |
| Academic structure (`branches/`, `rooms/`, `courses/`, `teachers/`) | records with a status, and what refers to them | records disabled and moved while classes are saved, lessons moved while one is completed | `Academy` |
| Students and families (`students/`) | a student's guardians with their marks | three statements per command, a mark that is handed over | `Families` |
| Data transfer (`data-transfer/`) | import batches and rows | confirmation long after validation, row locks over many records, validator and services written twice | `Imports`, `ImportRows` |
| Communication (`communication/`) | templates, messages, attempts | shared mailboxes, delivery that needs a second connection, failed statements, crashes | `Notices`, `Delivery` |
| CRM (`crm/`) | leads, trial bookings, conversions | lead and booking locked in both orders, conversion over students and enrollments | `Crm`, `LeadStatuses` |
| Portal access (`portal/`) | accesses, invitations | acceptance against revocation, guard and answer at different moments | `Portal` |
| Progress (`progress/`) | assessments, results, revisions, reports | criteria and maxima changed after grading, replacements | `Progress` |
| Provisioning and migrations (`database/`) | control registry, tenant databases | no transaction spans the databases, processes that are killed | `TenantDatabases` |
| Audit (`audit/`) and other lists | append-only rows in two databases | paging while rows are inserted and committed late | `Listings`, `Reading` |
| Reports and dashboard (`reports/`) | none: they tell the past from dated rows | rows dated by the beginning of their transaction | `Timeline`, `LedgerHistory`, `EnrollmentHistory`, `Pipeline` |
| Web client (`src/apps/web`) | copies of fetched records, open dialogs, idempotency keys | stale copies, lost answers, repeated clicks | `LeadPage`, `CashDesk`, `Workbench` |
| Authentication, tenant resolution, authorization matrix, HTTP shell, operations scripts | - | - | not modelled (section 7) |

`PROJECT.json` lists the same components with their source files and, under
`hazards`, each place where something hard to test can go wrong, with the
properties that cover it.

## 2. How the models are built

- **One module per component**, modules `MC…` with the instances TLC checks, and
  modules `…Proofs` with the theorems. Components that share no state are put
  into one run side by side: a variable `part` says which of them moves.
- **An action is what nobody can get between.** In the pool manager that is the
  code between two awaits. In a transaction it is one statement; statements are
  merged where the transaction cannot be observed, refused or made to wait
  between them, and each module's header says which it merges and why. A command
  that holds one lock from its first statement to its commit, over everything it
  decides on, is one action.
- **Row locks follow from how far a transaction has come** where possible; they
  are operators over the control state, so that a lock cannot be forgotten at
  the end of a transaction unless the code forgets to end it.
- **READ COMMITTED is modelled at the statements where it matters.** A
  `SELECT …, (SELECT sum …) FOR UPDATE` takes its snapshot in one step and its
  lock in a later one; an `UPDATE … WHERE` finds its rows in one step and
  re-evaluates its condition on the locked rows in a later one.
- **A refusal without effect is a stuttering step.** `Rollback` and its like
  stand for a refusal, an error of any statement, a deadlock broken by
  PostgreSQL, a lost connection and the end of the process.
- **Data is reduced to what properties tell apart**: rows are identities from
  finite sets, amounts are small numbers, times are slots or instants; names and
  payloads are absent.
- Each component's safety properties are put together in one formula (`…Safe`,
  `…Hold`, `…Stand`), which the runs check and the theorems state; its conjuncts
  are named and commented in the module, and named below.
- Operators introduced by a comment *Fault:* or *Mutation:* are plausible bugs of
  the definition that follows them. No specification uses them; each must break a
  property when it takes the place of that definition (`PROJECT.json` lists one
  for every property of a run).

## 3. The modelled components

### 3.1 TenantPools: the cache of tenant pools

Models `tenant-connection-manager.service.ts` with the ways a request uses it
(`tenant-connection.interceptor.ts`, the portal guard and invitation check).
`pools`, `activeRequests` and `age` are the `Map` of entries; `operations`,
`awaiting` and `evicted` the promise chain of `runExclusive` and how far the
operation at its head has come; `shutdown` and `barrier` the shutdown;
`status` and `database` the `pg.Pool` objects (external); `tenant`, `held` and
`cancelled` a request in the interceptor.

`GetConnection` queues an operation, which runs to its first await: `Reuse`,
`RejectShutdown`, `RejectFull`, `Create`, or `Evict` and, once the victim's
`end()` has resolved, `Create`. `SweepIdle`/`SweepDone` are the timer,
`CloseAll`/`CloseEntries` the halves of `closeAll`, `Cancel` and `Teardown` the
interceptor's teardown before and after its pool arrives. `end()` resolves when
no client is out, and is taken not to reject; a request whose observable is
unsubscribed gives its pool back although its handler may still run.

`PoolsSafe`: never more than `MAX_POOLS` live pools, closing ones included
(`LivePoolsBounded`); the pool a request holds stays open, cached and its own
tenant's until shutdown (`LeaseSafe`); the counter is the number of holders
(`LeasesCounted`); an open pool is in the map (`NoPoolLeaked`). Liveness:
`GetConnectionSettles`, `ShutdownClosesPools`.

### 3.2 Billing

`BillingLedger` is the abstract specification: the tables of `billing.service.ts`
and each command as one indivisible step. `BillingTransactions` has the same
tables and takes the commands apart into the statements that run on
`Connections`: `request` and `pc` are the command of a connection and how far it
is, `sums` what its statement's snapshot returned, `done` the invoices of its
batch already locked. Paid, credited and outstanding amounts are derived, as in
the queries; nothing stores a balance. `recordPayment`, `allocatePayment`,
`createCreditNote`, `issueCreditNote` and `command('VOID')` are several steps
(sums before the lock); commands that lock one row and read after it are one.

`LedgerSafe` (types, `RefundsWithinPayment`, `NumbersGapless`), `PostedIsFinal`
(no committed row is overwritten), `TransactionsSafe` (`KeysAppliedOnce`,
`LocksExclusive`), `NoLockCycle`, and the refinement `PaymentsSerialize`: a step
of the transactions that moves money is one the serial ledger takes on the same
tables, and nothing is collected or credited on a void invoice
(`VoidTakesNothing`). `BalancesHold` (`NetDueCoversPaid`, `VoidIsUnpaid`) holds
of the serial ledger only: credit notes and voids check sums that are stale and
checked by nothing again (section 6).

`Drafting` models the terms of an enrollment (price, discounts, grants) and the
invoices drawn up from them by several clerks: terms never change once an
invoice is issued, nor between an invoice and its snapshots (`TermsFrozen`,
`PricesLocked`), and no total falls below zero.

`LedgerHistory` (over `Timeline`) runs the same ledger with rows stamped by the
beginning of their writer, and asks what as-of views and reports tell later:
`HistoryAgrees` (the two texts of the current sums agree; the figures of one
report add up) and `HistoryStands` (a settled instant's view and a settled
period's report never change).

### 3.3 TeamMembership

Models `team.service.ts` and `create-owner.ts` for one tenant: team commands
check their actor, then take the tenant's advisory lock, read their target, count
the other owners and write; invitations are issued, resent and accepted by
transactions that take no advisory lock. `overwritten` is a history variable: an
acceptance rewrote the role of an active owner.

`TeamSafe`: `OwnerUnlessOverwritten`, `AcceptedOrRevoked`. `MembershipsAreGranted`:
a membership changes only under the lock, by a valid invitation, or by the
operator. `RequestsEnd`: every request ends. `AlwaysAnOwner`, which ADR 0004
states without the exception, is violated (section 6).

### 3.4 Enrollments and their register

`Enrollments` models `enrollments.service.ts` with the updates it races with (a
class's limit and status, a student's status): create, transition, transfer and
re-enrol, each first locking its source, then student and class FOR SHARE, then
the class FOR UPDATE to count its places. `AdmissionsHold`: whoever takes a place
does so within the limit of that moment (`SeatsRespectCapacity`; the limit itself
may be lowered below the occupancy), and starts ACTIVE only while student and
class are active (`AdmittedWhileActive`). `EnrollmentsSafe`: `OneOperational`,
`SourcesClosed`.

`EnrollmentHistory` has the enrollment events, stamped by the beginning of their
transactions, and the reports over them: `RegisterSafe` (`PeriodsAddUp`,
`EnrollmentReportsStand`).

### 3.5 Makeups and Calendar

`Makeups` has attendance sheets, records, the entitlement an excused absence
gives and its bookings, with the cancellation and the move of sessions.
`cancelMakeup` locks neither session nor sheet, and `initializeInTransaction`,
which four commands call, reads the bookings of a session without a lock and
writes their records in later statements. So each of the four is two steps:
`BeginInitialize` locks the session and remembers the bookings (`found`), and
`Initialize`, `BookMakeup`, `RebookMakeup` or `Finalize` writes a record for each of
them, still booked or not, with what else it does; `Abandon` is its rollback. No
other command at this session comes in between, a `cancelMakeup` may.
`MakeupsSafe`: who is booked is on the register (`BookedAttends`), an entitlement is
BOOKED when it has a booking unless a cancelled session freed it
(`BookedUnlessFreed`), a locked sheet is marked (`LockedIsMarked`) and keeps its
records (`LockedKeepsRecords`), destinations are not overbooked, by records of
cancelled bookings neither (`MakeupsFit`), an absence is made up twice only when one
of the two bookings was cancelled (`MadeUpTwiceOnlyOnceCancelled`; section 6 has the
two ways), and an absence reported as excused gave a right that was not revoked
(`ExcusedEntitles`).
`MadeUpOnce` is the refinement of `MakeupRights`: the right of an absence is
open, taken by one booking, or spent, whatever happens to sessions and sheets.

`Calendar` has weekly patterns, exclusions and sessions. All its commands take
the tenant's advisory lock, so each is one step; what is hard is what they find.
`CalendarSafe`: no class, teacher or room is booked twice
(`NoDoubleBookingUnlessMoved`, but for one way, section 6), an occurrence is
generated once (`GeneratedOnce`), a moved session has one replacement
(`ReplacedOnce`), generation never brings back what staff have edited
(`GenerationRespectsEdits`), and the sessions and hours a report has told of a
date are still told of it later (`ReportedStands`).

### 3.6 Compensation, Academy, Families

`Compensation`: agreements, periods, generation, adjustments and finalisation with
the triggers and checks of their tables, under the tenant's compensation lock. That
lock does not keep attendance from completing sessions, so `finalize` is in steps:
`BeginFinalize` compares the items with the sessions completed by then, `CheckRest`
reads the unresolved work, the classes and the totals, `FinalizePeriod` is the
UPDATE, and `AbandonFinalize` the rollback.
`CompensationSafe`: completed work is claimed once over all periods
(`ClaimedOnce`), stored totals are those of the rows (`StatementsAddUp`), what
`generate` finds in TypeScript is what `finalize` checks in SQL
(`GenerationMeetsCheck`), and a draft can be generated unless its work is claimed,
an hourly amount rounds to nothing, or a fixed class is in it
(`GeneratesUnlessFixed`, section 6). `PayStands`: finalising covers the work its
check of the items saw (`FinalizingCoversWork`; what is completed after it is
missed, section 6), `FinalizedIsFrozen`, `CoverageOnlyShrinks`.

`Academy`: branches, rooms, courses, levels and teachers are enabled, disabled,
moved and reassigned while classes are created, edited and completed against
them; lessons are generated, cancelled, moved to another day (`MoveLesson`, under
the schedule lock only) and rescheduled. `ClassRoomInBranch`, `ClassTakesOnEnabled`,
and `CompletedWithoutLater`: a class is completed only without a later lesson, but
for one moved to a later day after the completion has looked.

`Families`: the links of a student to guardians, each command three statements.
`OnePrimary`, `UnaskedIsKept` (a flag the caller does not give is not written
back from a stale read) and `PrimaryIsHandedOver`.

### 3.7 Imports

`Imports`: a batch is uploaded, mapped, validated, and confirmed row by row under
locks while staff and other batches write. `SeatsKept`, `ValidIsWritable` (the
validator and the writing services agree), `NoDeadlockOverClasses`,
`AllOrNothing`, `HistoryIsFinal`. `ImportRows` compares the validator of a row
with the services it is written with, over the directory of branches, rooms,
courses, levels, teachers and classes as it is edited: `ClassesJudgedAsWritten`,
`RowsJudgedAsWritten`.

### 3.8 Communication

`Notices` plans who is told of an event and inserts the messages: a message names
everyone it is about (`EveryoneNamed`), money is told to billing contacts
(`MoneyIsPrivate`), a mailbox is mailed once of one thing (`MailboxOnce`) with the
students of all guardians who share it (`OneMailNamesGuardiansStudents`), and a
channel that is off is silent (`SilentWhenOff`). `Delivery` sends what was
committed, over the clients of the tenant's pool. A fault may come at every await:
`Crash`, a connect or statement that fails and is rolled back (`Rollback`, `Refuse`),
a COMMIT that took effect without an answer (`RecordUnheard`, `CommitUnheard`); the
caller swallows them. `AcceptedOnce` counts: the adapter has taken a message as often
as a fault lost the record of it, and once more if it is SENT or being recorded.
`PendingOnlyAfterFault`: what stays PENDING had its attempt ended by a fault.
`SentIsFinal`, and `EndsUnlessStarved` (every command ends unless all clients are
held by commands that wait for one more).

### 3.9 Crm, Portal, Progress

`Crm`: booking, converting and losing lock the lead first; cancelling and the
outcome lock the booking and then its lead; a command is its first lock with the
checks under it, and the rest. `BookedLeadHasTrial`, `CancelledFreesPlace`,
`WonIsEnrolled`, `ConversionEndsTrial`, `DoneIsFinal`. `Pipeline` has the leads'
dated events and what two reports tell of them: `BranchesTellPipeline`,
`PipelineStands`.

`Portal`: invitations, acceptance (with and without an account), changes of an
access, the guard and the answers. `OneWayIn`, `AccessByInvitation`,
`ConsumedOnce`, `BillsOnlyToContacts`.

`Progress`: assessments, criteria, results, corrections, reports.
`PublishedWithinMax`, `RubricComplete`, `RevisionsExplain`, `OneReportPerPeriod`,
`OneSuccessor`, `SnapshotIsFixed`, and `FiguresExplained`: the figures reported
of a student change only with the status of an assessment or with a revision on
record.

### 3.10 TenantDatabases

Provisioning with its cleanup, `migrate-all` under its advisory lock, the tenant
migrations by themselves and `create-owner`, as processes that overlap, fail at
every call and are killed. `PublishedIsReady` (a tenant is published with a
migrated database and an owner), `PassedAreMigrated`, `UnregisteredUntouched` (a
database no tenant has is changed or dropped by its maker only).

### 3.11 Listings

Lists read in pages by cursor while rows are inserted, committed late and
renamed implement `Reading`: no row twice, the rows that were there come in
order, and none is missing at the end (`ReadingKept`, `OneFilter`). Of messages and
leads only those alone in their millisecond are owed (section 6). A page may be
empty: the rows it was to show can have been renamed away.

### 3.12 LeadPage, CashDesk, Workbench

Pages of the client in several browsers over one record of the server: what they
offer follows from a copy, the answer to a click can be lost and the click
repeated. `Workbench` is three pages: the lifecycle of an enrollment with the
other class the student may be enrolled in, the import wizard, and the register of
a session; a dialog keeps the action it was opened with. `LeadPageSafe` (`OfferedIsAccepted`, `ConvertedOnce`,
`StudentsHaveVisits`, `DefaultKeepsStudent`), `CashDeskSafe` (`SavedOnce`: a payment
is recorded once, a refund once for each payment it was sent for, as its key is
unique for that payment only; `ToldIsInLedger`), `WorkbenchSafe` (`OfferedIsDone`, `DoneOnce`,
`WrittenWasValidated`, `CorrectionsChain`).

## 4. Runs, bounds and fairness

Every passing run is exhaustive. `part` chooses the component (or the kind of
requests) of a behaviour; the other components keep one initial state.

| Run | Distinct states | Checks |
|---|---|---|
| `connections` | 286 584 | pools, delivery, recipients; with liveness |
| `billing` | 251 247 | serial ledger, payments and documents on two connections, history, drafting |
| `team` | 190 142 | team commands; invitations; every request ends |
| `enrollments` | 298 969 | places and statuses; the register's reports |
| `lessons` | 263 172 | makeups, calendar, lists |
| `operations` | 529 645 | pay, academy, families, imports, tenant databases |
| `people` | 604 516 | CRM, portal, progress |
| `front_office` | 251 068 | pages of the client, CRM history, import rows |
| `billing_credit_backed`, `billing_correction_race`, `team_always_an_owner`, `fixed_pay` | - | expected violations, section 6 |

**Bounds** are constants of the `.cfg` files and named conjuncts of the `MC…`
modules. They are chosen so that each hazard has room:

- *Two connections* (clerks, editors, operators, browsers) everywhere: every
  race known here is between two commands; a third adds waiting.
- *Pools*: three tenants over a cache of two, so that something must be evicted
  and that a choice of victim exists; three pool objects, because one may still be
  closing; the third tenant comes on one request only.
- *Billing*: invoices of totals 2 and 1, two payments, notes and keys: enough for
  a partial and a full payment, a batch over both, a retry, and an overpayment by
  two that each fit. The transactions are checked twice, with the requests of
  collection and with those of documents, since both at once are too many; the
  serial ledger takes all requests. History: instants up to `MaxTime` = 4.
- *Team*: three people, three roles of which two manage, two invitations.
- *Enrollments*: two students, two classes of one place or without a limit, three
  rows: one place wanted twice, and a transfer or re-enrolment of one of them.
- *Lessons*: three sessions (a full class, one nobody attends, one not planned
  yet), two pupils, two bookings; a calendar with one pattern over two dates, a
  second class that shares its teacher and room, and four sessions, the fourth
  only after one was moved and with no other cancelled (`ShortCalendar`): three were
  not enough to find the double booking of section 6, four are. Lists of five rows in pages of two.
- *Operations*: two lessons, two agreements (one replaced), overlapping periods,
  an adjustment that makes a sum negative, an hourly rate under which the short
  lesson is worth nothing and the long one something; one disabled record at a time
  (`OneDisabled`); two import batches over four files, classes of one and two
  places, one record made by hand (`OneByHand`); two migrations, two operators.
- *People*: two leads with one trial between them, or one lead with two; two
  invitations; one assessment of either mode, two criteria, three reports.
- *Front office*: two people, with as many entries and openings as an answer
  that is lost, its repetition and a second, different entry need (`ShortShift`).
- *Delivery*: two faults (`MaxFaults`), of any kind: one that loses the record of a
  message sent, and one that ends the retry of it.

`SYMMETRY` is used by the runs that check invariants and action properties only;
`connections` and `team`, which check liveness, have none. `CHECK_DEADLOCK FALSE`
stands where the modelled system may stop: ids, clicks and times are finite, so a
behaviour ends when all are used (`billing`, `lessons`, `operations`, `people`,
`front_office`), and a tenant's commands end for good when all clients of the
pool wait for one more (`connections`, `EndsUnlessStarved`).

**Fairness** is assumed where the code's scheduling justifies it, and nowhere
else. `TenantPools`: weak fairness of the promise chain (the event loop runs a
ready continuation), of `closeAll`'s continuation, and of the end of each pool
that nobody uses (the driver closes idle clients); requests need not return
their pools, ticks and timers need not come. `TeamMembership`: strong fairness of
each connection's step, because PostgreSQL serves the waiters of a lock in turn
and may break a deadlock; new requests need not come. `Delivery`: weak fairness
of each command and attempt that has begun; faults, commands and retries need
not come.

## 5. Proofs

TLAPS checks the following for all values of the constants, under the named
assumptions (`…Assumption`: finiteness where the code counts, typed forms, model
values that are no members of the sets). Every proof is down to its leaves.

| Module | About | Properties of runs it states | Theorems, lemmas |
|---|---|---|---|
| `ConnectionProofs` | pools, delivery, notices | `PoolsStaySafe` (with `PoolsBounded`, `LeasesSafe`, `CountsExact`, `NothingLeaked`), `DeliveriesStaySafe`, `NoticesStaySafe`, `EveryoneIsTold` | 12, 69 |
| `BillingProofs`, `Sums` | serial and concurrent ledger, its history, drafting | `LedgerStaysSafe`, `TransactionsStaySafe`, `DeadlockFreedom`, `AppendOnly`, `CollectionsSerialize` (refinement), `BalancesStay`, `SerialAppendOnly`, `PastIsSettled`, `ReportsStayAgreed`, `DraftingStaysSafe` | 13, 195 |
| `EnrollmentProofs` | enrollments, the register, import rows | `EnrollmentsStaySafe`, `AdmissionsStayWithin`, `RegisterStaysSafe`, `RowsStayJudged` | 12, 67 |
| `LessonProofs` | makeups, calendar, lists | `MakeupsStaySafe`, `AbsencesMadeUpOnce` (refinement), `CalendarStaysSafe`, `ListingsStaySafe` (refinement) | 8, 101 |
| `OperationsProofs` | pay, academy, imports, tenant databases | `CompensationStaysSafe`, `PayStays`, `AcademyStaysSafe`, `ImportsStaySafe`, `DatabasesStaySafe` | 9, 153 |
| `PeopleProofs` | portal, families, CRM, progress | `PortalStaysSafe`, `FamiliesStaySafe`, `CrmStaysSafe`, `ProgressStaysSafe` | 7, 108 |
| `OfficeProofs` | team, pages of the client, CRM history | `TeamStaysSafe`, `Granted`, `CashDeskStaysSafe`, `WorkbenchStaysSafe`, `LeadPageStaysSafe`, `PipelineStaysSafe` | 10, 88 |

In all 71 theorems and 781 lemmas. Every invariant and every action property of a
passing run is stated by a theorem, and so are the three refinements; the four
liveness properties are not. `BillingProofs` extends `MCBilling`, because
`BalancesHold` and `HistoryAgrees` name the part of the run they speak of; the
constants of `MCBilling` stay arbitrary there, so those theorems too are about any
invoices, payments and requests.

### The arguments

**Pools** (`IInv`). The bound on live pools is not inductive by itself: the
eviction has taken its victim from the map before the victim has ended. `RoomOK`
says what each stage of the operation at the head of the chain has established,
`LiveOK` that everything live is in the map or being awaited, and `QueueOK` that
the operations are one for each request that waits, in the order they came.

**Billing**. `OnlyWaiting`, `SumsTyped` and `HeldPaymentsKept` state what a
transaction may still rely on although it read it earlier; `LocksExclusive` and
`LockedInOrder` that a row has one holder and that batches lock by rank. From the
order follows `NoLockCycle`: in a circle of waiters the ranks of the locks would
have to increase all the way round. `Numbering` gives gapless numbers because the
counter's row is locked to the end. Sums of amounts over a finite set are defined
by a fold; `Sums` proves what is needed of them (they are natural numbers,
adding to one summand adds to the sum, a larger function has a larger sum) from
the definition over the set without one element, by a counterexample set of least
cardinality - the induction theorems of the library take an operator and cannot
be used. `PaymentsSerialize` is proved step by step: the transaction's last step,
under its locks, is the serial command on the same tables.

**Team**. `OtherOwnerRemains` says what the count under the advisory lock has
shown and that only the holder can take it away; the exception
`OwnerUnlessOverwritten` is there because acceptances do not ask for that lock.

**Enrollments**. `Reliance` lists what a command has checked of its source,
student and class, and `OneHolder`/`OneOwner` make it last. Capacity is a
statement about cardinalities: the class row is held FOR UPDATE from the count to
the insert, so the occupants of a class grow by at most the one row inserted.

**Makeups** (`MInv`). Four clauses carry the rest: a booking holds its record
(`BookedAttends`), an absence has one live booking (`LiveOnce`), a used one has
spent the right (`UsedIsSpent`), and what a command has read of the bookings of a
session is of a session that is still to come (`FoundIsScheduled`). A cancelled
booking that is written all the same must not overbook: the records there would be
if a command wrote what it has found, now, fit the class too (`InitializedFit`, a
strengthening of `MakeupsFit`). Each command then changes the records of one session
and one booking, and the refinement `MadeUpOnce` follows by reading off the right
before and after: records do not count in it.

**Calendar** (`CalInv`). Sessions as generated were not moved in
(`GeneratedUnmoved`), active patterns of one class stay apart (`PatternsApart`),
and every command puts at most a few rows, each of which fits what it looked at.
The attempt to prove the former statement (no double booking but of a moved
session itself) failed at generation, and the failed step was a real behaviour
that three sessions are too few to show: a conflict is overlooked behind *any*
session of the pattern that was moved in. The property and the bound were
corrected.

**Compensation** (`CInv`). Agreements of one teacher and scope never overlap
(`NoOverlap`, kept by the guards of creation and replacement), so the first
agreement found and the one the trigger derives are the same
(`GenerationMeetsCheck`); sessions are claimed once over all statements because
generation runs under the lock and looks at all (`OneClaim`). Between the steps of a
finalisation the lock keeps agreements, items and totals as its checks saw them
(`FinalizingSound`); only sessions and classes are completed meanwhile.

**Portal** (`IInv`). An access was created from an invitation for the same subject and address, and
what a request carried from the guard to its answer is what the guard saw
(`Carried`).

**Serial ledger and its history** (`SerialInv`, `HistoryInv`). What a command adds to
an invoice is within what is outstanding, what it returns within what was
allocated; so no invoice is paid and credited beyond its total and a void one
holds nothing. The history adds that every posted row has a stamp, and that no
stamp and no beginning of a transaction is after the clock. A settled instant is
past every open transaction's beginning, so what is posted later is stamped after
it and `PastIsSettled` follows table by table; `ReportsStayAgreed` splits the sums
of a period by month, branch and bucket (`SumIgnore`, `SumParts`) and reads the
projection of now as the current tables.

**Drafting** (`DraftingInv`). The row of an enrollment is owned by whoever changes
its terms or shared by those who draw up invoices from it (`RowsApart`), and terms
change only before anything is invoiced; what a clerk has read still stands
(`AtWork`).

**Register** (`RegisterInv`). No event is stamped after the clock and all are of
enrollments on record, of which one per student and class is operational. A
completion is told by its earliest event, and an event written later never
precedes a settled instant.

**Reports of lessons and progress**. `ReportedStands` rests on what commands leave
alone: sessions that are over are never rewritten. `ExcusedEntitles` needs
`GivenLater`: no right exists before its sheet is locked. For `FiguresExplained`
each command is shown to keep the figures, to change an assessment's status, or
to leave a revision.

**Delivery** (`DeliveryInv`). Commands and attempts never hold more than the pool's
clients (`ClientsCounted`), an attempt is of a committed message
(`AttemptsOfCommitted`), of those past the adapter one holds the row (`RowsHeld`),
a message was accepted once for each lost record and once if it is SENT or being
recorded (`AcceptedCounted`), and one that is PENDING has an attempt at work or had it
ended by a fault (`PendingTried`).

**Notices** (`NoticesInv`). Every message sent is a row its event planned for the
family as it is (`Justified`), so a statement about messages is one about plans.
The families are constants of a behaviour; their assumption says that students and
guardians are different people and that mailboxes are not people.

**Crm** (`CrmInv`). Every trial has a place of its student, later ones later places
(`TrialsPlaced`, `SourcesEarlier`), a lead has one trial booked at most, and one if
it says so (`BookedOnce`), two commands do not hold one lead or one trial first
(`CommandsApart`), and a command past its first lock remembers rows nobody else can change (`Remembered`). The last
booking of a lead exists by well-foundedness.

**Families** (`FamilyInv`). A link is held by one editor at most (`LinksHeldOnce`), and
what an editor will write is what was asked or what is there (`WritesAsAsked`).

**Progress** (`ProgressInv`). Results fit the criteria there are (`ResultsFit`),
revisions lead to the result as it is (`RevisionsFollow`), and reports replace earlier
ones, each replaced by one at most (`ReportsFollow`).

**Imports** (`ImportsInv`). The rows of a batch are those of its file (`RowsMatch`),
two confirmations share no batch, key or class (`ConfirmationsApart`), what each has
seen of its batch still holds (`ConfirmsAll`), records come of completed batches
(`MadeByCompleted`), and places are counted under the class row (`SeatsKept`). `ValidIsWritable` compares two
counts: the validator's over a file, the services' over the rows written so far.
`ImportRows` needs only that a code finds one record; that a level or a teacher has
as many rows as ids is a fact about cardinalities.

**Academy** (`AcademyInv`). A row is in two commands' locks only if both share it
(`LocksHold`), and what a command has checked of its records stands until it
commits (`AllChecked`); of the lessons of a class about to be completed, that the
later ones are some that lay earlier when it looked.

**Tenant databases** (`DatabaseInv`). The owners of registered tenants are on record (`OwnersKnown`), and a
process finds what its step relies on (`RunsWell`); the migrations of a database only grow, so a
published one stays ready.

**Pages of the client**. `CashDeskInv`: the rows of the payment in an open dialog
carry that dialog's key. `WorkbenchInv`: one clause for each kind of record, with
what its history tells. `LeadPageStaysSafe`: pages show the past (`PagesInv`), in
which there were no more bookings and students than now, and the server checks
every command again (`ServerInv`).

**CRM history** (`PipelineInv`). A booking is seen only by transactions that began
after it, so no trial is dated as over before it was booked: the two reports, of
which one asks when a trial was booked, count the same.

**Lists** (`RowsKept`, `ReaderKept`). Rows are in one order, and the rank of a row -
how many are ahead of it - is one-to-one onto `0 .. n - 1`: this is what sorting and
`LIMIT` mean (`OrderedSeq`, `FirstOfCount`). A page merged from the first `limit + 1`
rows of each table is the first `limit` of all (`MergedPage`). What was shown is not
after the position of its table, and what is owed is beyond it; from these, each
step of `Listings` is a step of `Reading`.

### Only model-checked

Liveness (`GetConnectionSettles`, `ShutdownClosesPools`, `RequestsEnd`,
`EndsUnlessStarved`), which needs fairness and ENABLED: TLAPS has no rule for it
here. The four violations of section 6 are counterexamples of TLC. What a recursive
or folded definition computes for every input cannot be proved by induction here;
what is needed of sums and of ranks is proved by a counterexample of least
cardinality instead (`Sums`, and the order of rows in `LessonProofs`).

## 6. Where code and documents disagree, and other observations

Four runs end in a violation of a statement that a document of the repository
makes; `PROJECT.json` quotes each.

1. **`billing_credit_backed`** (`billing.service.ts:746`). `allocatePayment` ignores refunds of
   unallocated money: pay 2, refund 2, allocate 2, and the invoice counts as paid.
2. **`billing_correction_race`** (`billing.service.ts:427`; in the same way `:902`).
   The sums in `SELECT … FOR UPDATE` are of the statement's snapshot, older than
   the lock it waits for. `recordPayment` is saved by its trigger, which sums
   again; credit notes and voids have none.
3. **`team_always_an_owner`** (`team.service.ts:230`). An old invitation accepted
   by a member who has become the only owner gives them the invited role.
4. **`fixed_pay`** (`compensation.service.ts:126`). The item of a fixed class names
   no agreement; its trigger refuses it, and the period cannot be generated.

Further observations, met while modelling. The models do what the code does in
each of them, and the properties state what holds nevertheless.

*Billing.* An invoice's total is computed before its snapshot rows, by other
reads and with another idea of today (UTC in JavaScript, `CURRENT_DATE` in SQL). A grant above
its offer's maximum is accepted and then blocks every invoice of its enrollment.
A draft keeps the price it was drawn up with. `effective_at` is the beginning of
the transaction: a void that waited for the issue is dated before it, and the
invoice reads as issued for ever, though `local-08-billing.md:28` calls VOID
terminal. The overview sums outstanding amounts over void and draft invoices and
counts reversed payments as collected; the financial summary counts credit notes
of invoices voided later, and a payment may be dated back into a period already
reported.

*Scheduling and attendance.* Generation skips the conflict check of an occurrence
once any session of the pattern has been moved to that date and time
(`schedules.service.ts:697`); an occurrence moved onto a later date of its own
pattern is generated there again; a pattern whose time changes leaves its old
sessions beside the new. The COMPLETED branch of `changeSessionStatus` is dead.
Cancelling a session frees every BOOKED entitlement that ever had a booking
called off there (`schedules.service.ts:1001`), also one booked elsewhere since.
`cancelMakeup` locks neither session nor sheet: when it commits between the unlocked
read of the bookings (`attendance.service.ts:971`) and the insert of their records
(`:980`), a record of the cancelled booking stays, as UNMARKED for a guest, as MAKEUP
for a student of the class. It can be marked as attended although the right was given
back, takes a place, and keeps the student from being booked there again; a reschedule
of that session fails on `attendance_records_makeup_booking_match_fkey`. A correction through MAKEUP gives an absence a second
right (`attendance.service.ts:1104`). `bookMakeup` marks a right expired and rolls that back with the
exception it throws. Makeup guests of a cancelled session are not told: their
records are deleted before the recipients are planned.

*Compensation.* A session completed without a teacher stays MISSING_TEACHER for
good. Replacing an ENDED agreement extends it. A session completed between the check
of the items (`compensation.service.ts:148`) and the UPDATE (`:213`) is left out of
the finalised period, though `local-09-teacher-compensation.md:47-51` has finalisation
check the draft against the sessions; it cannot be paid there any more. An hourly amount
under half a dong rounds to 0, which `CHECK (amount_vnd > 0)`
(`20260930000000_local_09_teacher_compensation/migration.sql:117`) refuses: the period
cannot be generated at all.

*Communication.* A student without guardian who shares a guardian's mailbox is
mailed first, and the one mail that survives names this student only. A statement or
COMMIT that fails after the adapter took a message leaves it PENDING, with the error
swallowed (`communication.service.ts:277`), and a retry sends it again. Three
commands that deliver at once hold all three clients of a pool and wait for a
fourth for ever.

*CRM.* `qualify` takes a lead back from TRIAL_BOOKED, after which it can be won
with the booking open, whose outcome is then refused. The outcome LOST keeps the
trial enrollment that `lost` withdraws. `lost` locks lead then bookings, the
other commands booking then lead; PostgreSQL breaks the deadlock. A trial
enrollment activated by hand makes conversion into its class fail.

*Portal.* The branch for an existing access in `acceptForUser` cannot be reached;
an acceptance that races a registration fails on a raw unique violation;
changing the address in a profile does not end an access.

*Progress.* A rubric with a graded result can neither be published nor corrected
(`progress.service.ts:114,117`, against `docs/product/progress-assessment.md:75`). The
guard that a correction must change the result never fires: the two snapshots it
compares differ in their columns and in `updatedAt` (`:95-96`, `:121`), so a correction
to the same result is accepted and leaves a revision. Replacing
criteria after grading fails on a raw foreign key.

*Academy and imports.* `replaceBranches` does not look at classes; a room's new
branch is read without a lock; a reschedule checks neither class nor resources.
`complete` looks for later lessons under the lock of the class only
(`classes.service.ts:92`): one moved to a later day (`schedules.service.ts:845`)
before its UPDATE is missed, and the class is completed with a lesson to come.
A lesson generated by a command that began before its class was completed lands
after the completion. A failed batch is reported as one to validate again, which
validation refuses; a deadlock that would pass on a retry fails a batch for good.

*Lists.* The cursors of messages and leads carry `created_at` in milliseconds
while the column has microseconds: rows of the same millisecond as a page's last
row are skipped (`communication.service.ts:417`). The audit log is exact.

*Reports.* An enrollment dated back reads by its present status before its first
event (`academic.ts:28`); stamps of overlapping transactions may be inverted, so
that the latest event is not the status; the CRM report and the branch summary
may then disagree about a won lead. The queries of one report are different
snapshots.

*Client.* The idempotency key of the payment dialog lives as long as the page
(`BillingPage.tsx:139`, refunds `:160`): a second, identical payment is silently
taken for the first, a different one is refused until the page is left. A refund's
key is unique for its payment (`billing.service.ts:787`): one whose answer was lost,
saved again with an amended payment id, is recorded a second time. The
dialogs that book a trial or convert start with "create", which makes a student twice. A click
on a stale "qualify" takes a booked lead back. A batch mapped and validated again
by another browser is confirmed by one that previewed the former mapping. A
transfer the server would take from PENDING or TRIAL is not offered. A lead's form
saves every field as it was loaded.

*Operations.* A killed provisioning leaves a database without a tenant; the loser
of a race is told the database exists "without a tenant record"
(`create-tenant.ts:147`). Tenant migrations by themselves, and those of a new
tenant, run without the advisory lock. `backup-tenants.sh` prunes the newest remote backups
(against `docs/operations/backup-restore.md:46`); `deploy-prod.sh` checks before
it takes its lock.

## 7. What is not modelled, and the plan

- *Authentication and tenant resolution*, *authorization matrix*: stateless checks
  per request; the models assume an authorised actor, and model the check itself
  where it is stale when used (team commands, the portal guard).
- *HTTP shell, operations scripts*: configuration, formatting and I/O; what they
  show that matters is under Observations.
- *Reports* other than those of enrollments, the CRM, billing, sessions, excused
  absences and progress figures: single queries whose figures nothing else relies on.
- Database errors in the middle of a command are rollbacks; a lost connection
  while committing, when the outcome is unknown to the server, is modelled for
  the client (a lost answer) and not within the server.

What would extend this next: the liveness of the pools and of the team's requests
as theorems, which needs a prover for ENABLED; the remaining reports; and the
outcome of a commit that is lost to the server.
