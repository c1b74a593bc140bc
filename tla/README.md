# InvoiceDock in TLA+

InvoiceDock (`src/app`) collects Chinese tax invoices from uploads and
mailboxes, verifies each one with a tax provider or, failing that, by comparing
OCR with an LLM, keeps the ledger and reconciles it with expenses. It is one
Uvicorn process on SQLite. Its difficulty is not in any single function but in
what overlaps: request handlers on an event loop, background tasks and mailbox
scans on threads, a commit in the middle of almost everything, and no work queue
that survives a restart.

This directory models the parts that keep state, checks them with TLC and proves
with TLAPS, for every value of the constants, almost every safety property that
the runs check on a small instance.

    tlc -config ledger.cfg MCInvoiceLedger      # any run of the table below
    tlapm MailSyncProofs.tla                    # any module <component>Proofs

## How the program runs, and what an action is

* **Handlers** of `main.py` are `async def` functions on one event loop. They
  await the form first; what follows the last await runs to its end with no other
  handler in between. Such a handler is one action. Where something is *read
  before* the await and used after it (the administration of users, the change
  of password) the handler is two actions: `Arrive`, and what it decides.
* **Threads** (background tasks of a response, the APScheduler scan, "collect now")
  interleave with handlers and with each other at every commit, lock and outside
  call. They are modelled step by step, one action from one such point to the
  next.
* **A handler that commits several times** (`invoices_batch_delete`, through
  `record_audit`) lets threads in between its commits, handlers not.
* **SQLite** has one writer, immediate foreign keys and a rowcount check by the
  ORM: an UPDATE of a deleted row raises, a DELETE of one only warns. A session
  keeps the rows it read (`expire_on_commit=False`) and writes only the columns
  that changed. All of this is in the modules that depend on it.
* **A crash or restart** loses the threads and their locals and nothing else.

## Components

| Component | State | Operations | Meets | What is hard | What makes it correct |
|---|---|---|---|---|---|
| Processing slots (`quota_service.processing_slot`) | a global semaphore, a bounded table of user semaphores | enter, two bounded waits, release | every call of `process_invoice` | eviction of a gate in use, refusal between the two gates | limits hold, no permit is lost, every wait ends |
| Invoice ledger (`main.py`, `verifier.process_invoice`) | `invoices`, files | upload, reprocess, save, delete, batch delete, the background task | slots, ingestion, mail filters | a task that works for minutes on a row others edit or delete; the duplicate graph | duplicates name a row that exists, are rooted in an original, statuses say what the evidence was |
| Verification evidence (`verifier._process_invoice`) | the row, the day's cache, daily counters | identify, cache, two providers, OCR, LLM, conclude | settings, quota, cache | reservations that commit alone, midnight, tenants with the same invoice, edits before a rerun | charged exactly once, no answer about another invoice |
| Ingestion (`ingestion.ingest_bytes`) | `invoices`, `uploads/`, `resource_usage` | check, reserve, write, commit, clean up | uploads, mail | failing disk or database, crash, midnight, concurrent deletion | unique content, storage limit, counter covers what was stored, no row without file |
| Mail collection (`mail_service.sync_mailbox`) | cursor, `processed_emails`, rows | search, fetch, import, process, filter, record | ingestion, ledger | two syncs at once, failed fetches, filters that delete | no message is passed unread, one copy stays, confirmed invoices survive |
| Accounts and sessions (`main.py`, `security.py`) | `users`, signed cookies | register, sign in four ways, administer, change password | invitations | stale actors across an await | an admin remains, an ended session stays ended |
| Invitations (`invite_service.py`) | `invite_codes` | create, validate and use, expire, disable | registration | the use is committed before the form is validated; the creator is a foreign key | never more than `max_uses`, a created code exists |
| Projects and expenses (`main.py`) | `projects`, `expense_items`, links | create, edit, delete, reconcile, reopen, assign | ledger, mail filters | one link kept by six handlers | reconciled exactly while linked, one expense per invoice, one tenant |
| Mailbox administration (`main.py`) | `mailboxes` | create, test, toggle, delete, collect now | mail | a mailbox paused or deleted during its own sync | the scan goes on, the cursor covers its records |
| Throttling and captcha (`security.py`, `captcha_service.py`) | two bounded tables in memory, two fields of a cookie | count, sweep, evict, reset, draw, solve | password sign-in, limited forms | a table at its limit, expiry, a cookie that is dropped, an address that changes | the window is exact, wrong passwords meet a picture in time |
| Settings (`settings_service.py`, `notification_service.py`) | `app_settings`, `user_integration_settings`, the environment | show masked, save, clear, read with precedence | verification, notifications | a page that is old when it comes back, two commits of one form | showing and saving are inverse, secrets are typed ones, no half configuration |
| Passkeys, OAuth state | challenges, short-lived rows | put, take | sign-in | protocol of a library | not modelled |
| Extraction, OCR, provider clients | none | parse, call | verification | free text, networks | as nondeterministic results |
| Titles, notifications, export, print, network checks | lists, none | pure functions and output | ledger | none that changes state | not modelled |
| Database set-up, lifespan, logs | schema, `audit_logs`, `job_logs` | migrate, bootstrap, append | all | what a restart resumes (nothing) | in `Init` and the crash actions |

## Modules

`ProcessingSlots` — the two semaphores. `pc[j]` is where job `j` is in
`processing_slot`, `gate[j]` the semaphore object it looked up (the object, not
the table entry: an evicted gate lives on in the jobs that hold it), `userGates`
and `order` the table and its insertion order. A wait that times out saw the
counter at zero. The finally clause is two actions, `ReleaseGlobal` and
`ReleaseUser`, because it is two lock operations: a job that is "leaving" has given
back the global permit, or was refused one, and still holds its user's.
`BoundedWork` is what callers rely on, without semaphores: a submitted job is
started when there is room, or refused when active jobs fill the global limit or
other jobs of its user, which count until they have left, fill his.
`ImplementsBoundedWork` is the refinement.

`InvoiceLedger` — `row[i]` is the status, the class of the verification
method, whether `verified_at` is set, the number (standing for the fields of the
business key) and `duplicate_of`. `tasks[r]` are the background tasks of one
response, which run in turn; `snap[r]` is the row as the running task's session
read it. `Flush` writes back the columns that changed. `Verdicts` lists what the
sources of evidence may make of a row; Verification is the detail behind it.
A task ends in `FinishProcessing`, in the error handler (`FailProcessing`, which
commits "failed" over whatever fields the run had already set), or in
`DatabaseFails`: the handler of `verifier.py:859` does not roll back, so an error
of the last flush or commit is raised again by its own commit, and `get_integrations`
at `verifier.py:653` is outside of the `try` although "processing" is committed.
`env`, chosen once, says which operations occur in a behaviour, so that one run
covers several deployments without exploring all of their mixtures.

`Verification` — one run of `_process_invoice`, with the reservation, the
call and the result as separate actions. `cand` is the fingerprint the cache is
asked for, `answer` names the document a stored tax answer is about; `calls` and
`runs` are history variables. A row has a whole fingerprint or none, and OCR
reads it rightly or not at all: misreading is the other modules' business. Each run
finds one of `Configs`, read when it starts and used to its end. `Abandon` is the
error that the handler cannot commit either.

`Ingestion` — `pc` and `job` of each caller inside `_ingest_bytes_locked`;
`disk` and `rows` change in different steps. Every clean-up may fail as well: the
release of a reservation is a commit to the database that has just failed, the
unlink needs the disk, and `mkdir` (`ingestion.py:91`) is outside of the `try`.
Two deletions are beside it: `Remove` and `Unlink` are the single one, which commits
first; `BatchUnlink`, `BatchCommit` and `BatchFails` the batch, which unlinks first,
`doomed` being the file gone whose row still stands. `accepted` is history: what was
stored, by the day of its reservation.

`MailSync` — the locals of `sync_mailbox` per thread. `queue` is the set of
UIDs the search has left; they are taken in the order of the UIDs, which is the order
in which `_latest_uid_values` returns them. A message carries one document or none; `ingest_bytes` and `process_invoice` are one step each here.
`ImportFails` is an exception out of the processing or a filter, which the loop
catches (`mail_service.py:360`): the message is recorded, the document stays.
`kept` marks what the filters let pass, `proved` the numbers a provider confirmed.
`box` is the mailbox row and `later` the mail of the mailbox that the same
scan, in the same database session, takes next: an error that kills the session
keeps the scan from it.

`Accounts` — a cookie is its user and the row fields the marker digests.
Salted hashes are numbers, so setting the same password twice gives two.
`parked[r]` is a request at `await request.form()`, with the actor row it read.
The invitation is part of this module because a registration uses it up; the
table holds one code, entered without a creator, or none yet.

`SignIn` — `login_submit` as four outcomes over `table` (the limiter's
ordered dictionary), `fails` (the failure counts) and the two fields of each
browser's cookie. The server keeps no copy of the cookie, so `OldCookie` may bring an
earlier one back. An ordered dictionary is what each key holds (`entry`) and which
keys have been used since (`since`): the key to evict is the one that all the
others have been used since. A list of times is a set of numbered times. A password
is right or wrong, an answer to the picture is right, wrong or missing. `calls` and
`guesses` are histories kept beside the tables, by key, which the properties compare
them with. Some names are longer than elsewhere (`SignInSpec`, `SignInTypeOK`),
because the proofs extend this module and `Accounts` together.

`Settings` — `env`, the rows `global` and `own`, and `tab`, a page that is
held open with what it showed. Keys are secrets, texts and switches; `Masked`,
`Saved` and `Cleared` are the conversions between rows and pages. The inputs of
`kingdee_tenant_id` and `piaozone_sign_method` show a default in the place of a
blank and are not among the keys.

`Reconciliation` — the links between the three tables. A deletion of
invoices that fails half-way is an arbitrary subset of the selection.

The proofs about a module are in `<module>Proofs`; those about `SignIn` are in
`AccountsProofs`, beside the sessions that a sign-in starts. The `MC` modules give the
constants their values; nothing else is in them.
Definitions introduced by a comment "Mutant" are not part of a specification:
each is a plausible bug of the definition next to it, kept to show that the
property which should notice it does.

## Runs

| Run | Question | Bounds, and why they are enough |
|---|---|---|
| `slots` | Do the gates keep their limits, lose no permit, decide every wait, and implement `BoundedWork`? | 3 jobs of one user over a limit of 2, one of another, one without owner, 3 global permits: both gates are full, and both are waited for, at the same time. The table holds every user here; eviction is covered by the proofs. |
| `ledger` | Duplicates, statuses and files under uploads, reprocessing, saves, deletions, batch deletion, refusals, database errors, restarts | six environments. Four without database errors and restarts: one request at a time; batch deletion over two owners; parallel uploads with deletion of up to four copies; two tasks on one row. Two with them: one request at a time, and batch deletion. Two rows under overlapping reprocessing are covered by the proofs only. All documents carry one number, so every pair of an owner's rows can match. |
| `ledger_live` | Is queued work settled, do tasks end? | two rows, one slot for two requests, so that one waits for the other. Four environments: overlapping requests with reprocessing, overlapping requests with saves, and one request at a time with both, in all of which the first half of `Settles` makes its claim; overlapping requests with deletions, refusals, database errors and restarts for the second half |
| `ingestion` | Limits, uniqueness, no orphan | two callers, two contents of size 1 and 2 under a limit of 2, a daily limit of 1, two days: storage and quota both run out, across midnight. Three names, so that a third file meets what the first two left. Every step that can fail does, at any time |
| `mail` | Cursor, filters, collection | three messages (or fewer, and for each one less a failed fetch, connection or import, a crash, a deletion, a pause, a deleted mailbox or other mail) with an image and two PDFs of one invoice, two syncs, a fetch limit of two: searches overflow, syncs overlap, copies arrive in every order |
| `verification` | Charges and cache | two runs at a time or in turn over four documents, three of them the same printed invoice in three hands, under two configurations, both providers or OCR and LLM alone; two provider calls, one extraction and one LLM call a day; two of midnight, crash, save |
| `accounts` | Admins and sessions | the bootstrap admin and two accounts, two requests at their await, three passwords, two cookies: a request can go stale behind another, and one cookie behind the next |
| `sign_in` | The limiter and the picture code | one browser at two addresses, one name and another limited form: four keys over a table of three, and three failure keys over a table of two, so that both evict; a clock of two ticks in which windows, codes and sweeps run out; any cookie the browser may have held comes back. Two failures ask for the picture, as in the code |
| `settings` | Masks, precedence, pages | a secret, a text and the two switches that matter; two environments, an admin, a member and one page held open, which is older than any number of saves behind it |
| `reconciliation` | Links | two expenses, an invoice and a project of one tenant, an invoice and a project of another, an admin |
| `ledger_batch_file` | Does every row keep its file? No | one batch deletion |
| `invite_created` | Is a created invitation stored? No | one request |

The last two show what the code does against its documentation or tests:

* `main.py:1726-1733` unlinks the file of each selected invoice before its
  row is deleted. When an original precedes its selected duplicate the foreign
  key refuses the deletion, the request fails, and the row stays without a file.
* `main.py:2518` stores the admin's user name as the creator of an invitation;
  the column refers to account ids, which are UUIDs, and `db.py:25` enforces
  the reference: the request ends in an error. The test creates its code in a
  database that does not enforce it.

### Fairness

Safety needs none. Liveness is claimed in three places. `SlotDecided` uses weak
fairness of a job's wait and of leaving: `acquire` has a timeout, and every
outside call of the body has one. `Settles` uses strong fairness of the thread that
works through one response's tasks: a task that waits for a slot finds one now
and then, taken by others in between, and `acquire` either takes it within its
time or refuses the job, and a refusal, as any other outcome, is a step of the task;
weak fairness would let it wait for ever. `DatabaseFails` is no part of it, so no claim rests
on an error coming to the rescue; nothing else is fair there.
`Collected` uses weak fairness of the scheduler's scan, which an interval
job repeats for ever, and of the steps of a sync, whose network calls time out.
`Settles` and `Collected` say "again and again"; within the bounds, where mail and
uploads come to an end, that is "in the end".
That the scan gets to the mailbox behind holds because each
way of killing the shared session can happen only so often within the bounds:
a mailbox that failed in every scan would keep the others waiting.
Users, deliveries, midnight, faults and "collect now" are never fair.

### What the properties leave out

Some properties name circumstances in which they make no claim. Each is a
limit of the code, met while modelling, and not of the model:

* Two tasks on one row (reprocess pressed twice) mix their columns: the status of
  one run with the method or the duplicate link of the other
  (`StatusHasItsEvidence`).
* Reprocessing an original whose copy is flagged makes each the other's
  duplicate, and no original remains; an edit of a number can do the same
  (`DuplicatesHaveOriginal`). A batch deletion can release or cut a duplicate
  that a task has just linked.
* A restart resumes nothing; a deleted row ends the other tasks of its request
  (`verifier.py:859`); a refused row waits for the user (`Settles`,
  `ProcessingHasWorker`).
* A database error in the last commit of a task, or while it reads its
  configuration, leaves the row "processing" with nobody at work and drops the rest
  of the request: the error handler neither rolls back nor commits elsewhere
  (`ProcessingHasWorker`, the first half of `Settles`).
* A crash during a file write or before an unlink leaves a stray file, and so does an
  unlink that fails. A batch deletion that is refused, cannot commit or crashes
  leaves a row without its file (`FilesMatchRows`, `FilesInPlace`).
* A reservation released after midnight lowers the other day. One whose release
  cannot commit, whose file cannot be removed first, or whose directory cannot be
  made stays charged although nothing is stored (`CounterCoversAccepted`).
* The mail cursor passes failed fetches and what exceeds the fetch limit
  (`CursorCovered`, `Collected`). A crash, or an exception while a document is
  processed or filtered, leaves it unfiltered, and perhaps beside its copy
  (`NothingUnfiltered`, `OneCopy`). Two
  syncs at once can drop all copies of an invoice, or, when there are three, keep
  two PDFs: the newcomer replaces a picture that is itself about to be dropped as a
  duplicate of the other PDF (`ConfirmedSurvives`, `OneCopy`).
* OIDC may demote the last admin (`AdminRemains`); a password left on an
  account by an early release can bring an ended cookie back through two stale
  requests (`EndedStaysEnded`, `Legacy`).
* An invoice removed by the mail filters leaves its expense "reconciled" without
  an invoice (`SettledByInvoice`); an admin may link across tenants, so the tenant
  part of `WithinTenant` ends with the first change an admin makes.
* A crash between the two commits of a member's page (`main.py:2102`) leaves his new
  tax switch beside the old values of the rest: `StoredWhole` asks whether rows are
  there, not whether they are of one page.
* A full limiter or failure table forgets its least recently used key
  (`SlidingWindow`, `CaptchaGate`), and a restart empties both, as the docstring at
  `security.py:135` accepts.

Other limits and differences that the work on the modules brought up, without a
run of their own:

* `main.py:1690` (and `mail_service.py:172`) turn a duplicate whose original
  is deleted into "verified" whenever `verified_at` is set, but OCR+LLM and a
  manual save set it too; `docs/ARCHITECTURE.md:71` reserves the status for a
  provider's answer.
* `mail_service.py:318` deduplicates a duplicate without asking how it was
  verified: an unconfirmed PDF replaces a confirmed picture, although `README.md:78`
  keeps only verified documents.
* `verifier.py:701` asks the cache for the fields in the row. After an edit
  these may be another invoice's of the same owner, whose answer the row inherits
  (`AnswersUnsavedDocument` makes its claim for rows that were not edited).
* A member's own configuration wins over the environment
  (`settings_service.py:161`), as its docstring says; `docs/ARCHITECTURE.md:64` puts
  the environment first.
* The admin's form stores every effective value that is not a secret, those of the
  environment included (`settings_service.py:208`), although the docstring of
  `env_values` says that they are never written.
* A page with a blank secret, shown before somebody set one, wipes it when it comes
  back; and a member's first "own configuration" stores blanks, because the inputs
  are disabled until it exists.
* `record_login_failure` makes room for one entry and may add two: its table
  grows past `_FAIL_MAX_BUCKETS` (`security.py:194` says it is kept below).
  The bound is therefore not claimed.

`CHECK_DEADLOCK FALSE` stands where a behaviour may stop within its bounds: all
messages delivered and all invoices uploaded, nobody obliged to act.

## Proofs

Every theorem is about the specification of the component's own module and assumes what its
constants are assumed to be there, and nothing else: any sets of jobs, callers,
syncs, tasks, invoices, owners and keys, any limits, any printed numbers and
contents. Finiteness is assumed only where something is counted (`Jobs` and `Users` of
the slots, `Tasks` of the verification). What the modules bound for TLC (ids,
hashes, versions, days, runs) is a constant too, so a theorem holds for each
value of the bound. `UserLimitTheorem` and the refinement state their one
further hypothesis, the size of the gate table.

| Component | Theorem | Property |
|---|---|---|
| Slots | `SlotsTypes`, `SlotsSafety`, `GlobalLimitTheorem` | `TypeOK`, `PermitsConserved`, `GlobalLimitHolds` |
| | `UserLimitTheorem`, `ImplementsBoundedWorkTheorem` | `UserLimitHolds`, `ImplementsBoundedWork`, given `MaxGates >= Cardinality(Users)` |
| Ledger | `LedgerTypes`, `NoResurrectionTheorem`, `WorkerTheorem` | `TypeOK`, `NoResurrection`, `ProcessingHasWorker` |
| | `EvidenceTheorem`, `OriginalTheorem` | `StatusHasItsEvidence`, `DuplicatesHaveOriginal` |
| Verification | `VerificationTypes`, `CacheTheorem`, `AnswersTheorem` | `TypeOK`, `CacheHoldsItsInvoice`, `AnswersUnsavedDocument` |
| | `CallsTheorem`, `ChargesTheorem` | `CallsCharged`, `ChargedExactly` |
| Ingestion | `IngestionTypes`, `UniqueContentTheorem`, `FilesTheorem` | `TypeOK`, `UniqueContent`, `FilesMatchRows` |
| | `StorageTheorem`, `CounterTheorem` | `StorageWithinLimit`, `CounterCoversAccepted` |
| Mail | `MailTypes`, `UnfilteredTheorem`, `CursorTheorem` | `TypeOK`, `NothingUnfiltered`, `CursorCovered` |
| | `CopiesTheorem`, `ConfirmedTheorem` | `OneCopy`, `ConfirmedSurvives` |
| Accounts | `AccountsTypes`, `AdminTheorem`, `EndedTheorem` | `TypeOK`, `AdminRemains`, `EndedStaysEnded` |
| Sign-in | `SignInTypes`, `SlidingWindowTheorem`, `CaptchaGateTheorem` | `SignInTypeOK`, `SlidingWindow`, `CaptchaGate` |
| Reconciliation | `ReconciliationTypes`, `SettledTheorem`, `TenantTheorem` | `TypeOK`, `SettledByInvoice`, `WithinTenant` |
| Settings | `SettingsTypes`, `RoundTripTheorem` | `TypeOK`, `RoundTrip` |
| | `SecretsTheorem`, `WholeTheorem` | `SecretsTyped`, `StoredWhole` |

A theorem states the property as the run checks it, with the exceptions of "What the
properties leave out": `ProcessingHasWorker`, for one, until a restart or a database
error.

Hardly any of these properties is inductive. The invariants are built in layers, each
proved with the help of those before it; a layer has a lemma for the first
state, a lemma per action or per kind of step, and a temporal lemma.

**Slots.** `SlotsInv` is the type invariant, `PermitsConserved`, and `GateShape`: an
idle job refers to no gate, a job without owner never does, an owned job inside
does. `PermitsConserved` alone is not inductive: a new gate is made full, so the
step needs that nobody holds it, which is what the choice among unreferenced gates
gives; and a release must find in `gate[j]` the gate whose permit the job took, or
none. The bound per user needs more, `TableNames`: a job's gate is the one the
table names for its user, so that all of a user's jobs share one counter, and the
table has as many gates as the order has entries. It is preserved as long as nothing
is evicted, which `FreshUserNeverEvicts` derives from the assumption by counting.
Without the assumption the bound is false: the eviction at `quota_service.py:57`
forgets a gate in use, and TLC finds the violation with a table of one gate and two
users. The refinement takes the same invariant: a wait that times out saw a counter
at zero, and what a counter at zero says of the jobs is `PermitsConserved`: a user's
permits are with jobs of his that work, wait for the global gate or have yet to leave.

**Ledger.** `LedgerInv` says that every id in a row or a queue has been given out
already; hence a deleted row can only be missed, never written again
(`NoResurrection`). `EvidenceInv` adds who may be at work: requests that do not
overlap leave one response with tasks, and a row has one task unless overlapping
requests ask for it again. With that the running task's snapshot agrees with the
stored row in the columns it will not write (`DualInv`, `RelationInv`), and a
write-back cannot mix two runs. `OriginalTheorem` rests on `GroundsInv`: a row that
waits for its task has no number another row could match, a duplicate has its
original's number, and every non-empty set of rows has one whose link leaves the set
(`NoCircle`). The last is acyclicity said without recursion: a link is only ever
made from a row at work to a finished one.

**Verification.** `AnswerInHand`: what waits for the final commit with `store` set is
the provider's answer about the document in hand; from it `CacheHoldsItsInvoice`.
`HonestInv`: until the first manual save every row, every session row and every
fingerprint the cache is asked for carries the document's own fingerprint or
none; with the theorem about the cache this makes an inherited answer one about the
same printed invoice. `CallsCharged` is inductive given the types; each step moves
one task in or out of the calls under way, which are counted. The charged
extractions of an owner are the cardinality of a set of pairs of day and number, as
the bytes are in the ingestion. `ExtractsInv` says that a run is good for one: charged
extractions and runs that have not extracted yet (`Unread`) are together at most the
runs; every way to an extraction takes its run out of `Unread` in the same step.

**Ingestion.** Four layers: `LockInv` (one caller inside, who knows what it ingests),
`NamesInv` (a name is fresh until its file is written and nobody else's until its
row is committed; while a caller is inside nobody stores its content), `StorageInv` (what
the check found sufficient stays so up to the commit), `CounterInv` (while a
reservation is held its owner counts nothing on a later day, so a release after
midnight finds nothing to take; a step that keeps a charge, `ChargeKept`, only
loosens the bound). The bytes of an owner are the cardinality of a set
of pairs, which makes their sum a matter of finite sets.

**Mail.** `MailInv` is types, rows and who works on them. `CursorInv` has to speak of
the syncs at work and not of the saved cursor alone: up to every UID that a sync has
counted, the messages are recorded, in its queue or in its hand (`Covered`).
`CopyInv` follows the filters: the copy a document duplicates is the only other row
that shows its number, and what a replacement is about to remove is every other
copy. `ProvedInv` follows a confirmed number through the same steps. The last two
need `SoleSync`: until two syncs overlap, one is at work.

**Accounts.** `RowsInv` is types and that accounts are not removed. `AdminTheorem` needs
only `AdminKept`: a row may change if it stays an active admin's or is not the last
one, which the handlers ask at the moment of the change, however old the actor row
is that they read before the await. `EndedTheorem` is an action property;
`Evolves` lists what one step may make of a row (nothing, a higher version, a hash
that no cookie has seen, a binding), and `HistoryInv` says that no cookie and no
parked request comes from the future of its account.

**Sign-in.** `Limiter` compares the table with the history: what is left of an entry
in its window is exactly what its key has passed (`h[k] = Fresh(t, k)`), and an entry
does not expire before its last time does, so that the sweep takes only what has
run out. An eviction takes a key out of both, and is excused because `Ordered`
makes the oldest key one that every other has been used after: among any
entries there is one that the rest have followed, acyclicity said of subsets as in
`NoCircle`. `Counts` says of the failure table that a key's count is at least its
guesses in the window, and outlasts them: a guess without a picture code is looked at
only while the count is below the threshold, and a count that starts again has no guess
left in its window. It needs that the two keys of a sign-in differ, which the
prefixes of the keys give. Both are invariants by themselves; each step is a
composition of lemmas about one call, one failure, one sweep or one removal.

**Reconciliation.** `LinksInv` is the conjunction of the three properties: each
handler mends every link it breaks in the same step. `FreeMends` and `BindMends` say
what the two operators that move links do to any table.

**Settings.** `RoundTrip` is a fact about states, not steps: it follows from the keys
the rows have. `SettingsInv` adds what rows and old pages may contain; a page held
open is a page that was once shown, and nothing more is needed for any number of
saves behind it.

### What stays with TLC

* Liveness (`SlotDecided`, `Settles`, `Collected`) and everything else that needs
  ENABLED.
* The two runs that expect a violation.

## Not modelled

Free text and layout (OCR, regular expressions, MIME, PDF, XLSX), cryptography and
the protocols of libraries (WebAuthn, OIDC), address checks, the sending of
notifications, templates other than the inputs of one page, and column migrations
of `db.py`: they are pure, generated or change none of the state above.
Passkeys sign in like a password but outside of the limiter; their ceremonies belong
to the library. The OAuth state store is a put and a take of a short-lived row.
A role is constant in `Settings`, because a change of role ends the session;
a member promoted to admin keeps his own rows, which go on overriding the common
values in his verifications. Logs are left out except for the commit inside
`record_audit`. Several processes on one database are outside of what
`docs/ARCHITECTURE.md` supports.

## Plan

Done: the modules above, one run each (two for the ledger and its liveness), and the
theorems above. Left, in order of what they would add:

1. Proofs that read better: fewer facts in the leaves of the ledger and the mail
   modules, whose steps per action have the most cases.
2. Breadth: `OAuth state` and `Title warnings`, should they come to keep more state.
