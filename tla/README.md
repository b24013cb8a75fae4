# Verification of the Smart Attendance Platform

This directory specifies the platform's server side in TLA+, model-checks it with TLC
and proves its main properties with TLAPS.  Paths below are relative to `src/`; `core/`
abbreviates `services/core-backend/modules/` and `fv/` `services/face-verification/`.

The platform records who attended a lecture.  A lecturer schedules a session and
activates it; each student proves to be in the room (a geofence reading) and to be
themselves (a face comparison), and is *checked in* when every step the session asks
for has passed.  While the lecture runs the lecturer may launch QR batches, which a
checked-in student scans to show that they stayed.  When the session closes, by the
lecturer or by the server, every student of the roster gets a final attendance:
present, late, left early or absent.  Lecturers may waive location for the session,
set a student's attendance by hand, or review a failed attempt.  Around this core,
students are notified, their reference faces enrolled, accounts provisioned, courses
and enrolments administered, and attendance reported.

## 1. Inventory

| Component | Code | State it keeps | Operations | Modelled in |
|---|---|---|---|---|
| Lecturer sessions | `core/attendance_sessions/lecturer_sessions` | `sessions` row, `session_students` | create, activate, close, close overdue, cancel | `SessionLifecycle` |
| Auto-close scheduler | `.../lecturer_sessions/auto_close.py` | none | scan for overdue sessions, close each | `SessionLifecycle`, `SessionLocking` |
| Finalization | `core/attendance_verification/finalization` | `attendance_records` (automatic) | decide and upsert for the roster | `SessionLifecycle`, `AttendanceRules` |
| Check-in | `core/attendance_verification/check_in` | check-in columns of `verification_attempts` | try check-in, reconcile before a close | `VerificationSteps`, `AttendanceState` |
| Geofence | `core/attendance_verification/geofence` | `verification_attempts`, location readings | submit a reading, start without location | `VerificationSteps` |
| Face step | `core/attendance_verification/face`, `fv/services` | face readings, attempt failure | first read, inference, locked recording; check-in after a pass | `VerificationSteps` |
| Session overrides | `core/attendance_verification/session_overrides` | `session_verification_overrides` | waive location, reopen attempts | `LecturerDecisions` |
| Manual attendance, manual review | `core/attendance_verification/manual_*` | `attendance_records` (manual), `manual_reviews` | set a status, approve, reject | `LecturerDecisions` |
| QR sessions | `core/attendance_sessions/qr_session` | `qr_token_batches`, `qr_validation_attempts`, Redis | launch, deactivate, void, scan; rotate, cache and stream dynamic codes; progress | `QrBatches`, `QrCodes`, `StudentViews` |
| Active sessions | `core/attendance_sessions/active_sessions` | none | what a student is shown and offered | `StudentViews` |
| Push delivery | `core/notification/push` | `delivery_attempts`, leases | claim, send, poll receipts, retry | `PushDelivery`, `DeliveryLifecycle` |
| Producer, reminders, devices, preferences | `core/notification`, `core/contracts/announce.py` | `notifications`, `device_tokens`, `notification_preferences` | announce, remind, register, revoke, choose | `NotificationOutbox` |
| Reference faces, readiness | `fv/services`, `fv/scripts`, `core/academic/admin_reference_faces` | `face_profiles` | upload, import, check readiness | `FaceProfiles` |
| Identity | `core/identity` | `identity.users`, the users of Keycloak | provision, suspend, reactivate, sign in | `Accounts` |
| Academic data, correction requests | `core/academic` | offerings, assignments, enrolments, timetable, requests | create, edit, assign, enrol, drop, submit, decide | `AcademicData` |
| Course pages and reports | `core/academic/*courses`, `*reports` | none | count attendance | `AcademicReports` |
| Student notifications, classrooms, dashboard, policy, audit log, lifespan | `core/...` | single rows | reads, single-row edits | no |
| Apps, deployment, load tests | `apps`, `deployment`, `testing` | - | - | no |

### How they interact

Core Backend and Face Verification are two services over one PostgreSQL database at
READ COMMITTED; Redis holds the metadata of the current dynamic QR batch, Keycloak the
identities, Expo's push service delivers notifications.  Within Core Backend the
components call each other inside one transaction: a geofence pass tries the check-in,
a close deactivates the batches, reconciles the attempts, finalizes the records and
announces the result.  Across the services Core Backend forwards a capture or an
upload, waits, and goes on with a transaction of its own.  Everything else they share is
rows, and the locks on them.

### What is hard

- Requests read something before they hold their locks: the clock (every service), the
  snapshot of the statement that waits (geofence waiver, face context), the
  classification of a QR code, the reference face, the actor of a status change.
- `closed_at` is the start of the closing transaction, not its commit.
- A face pass and its check-in are two transactions of two services; an account is two
  systems without a common transaction; a push is a request outside any transaction.
- Three ways to end a session race with each other and with manual decisions.
- Transactions take the same rows in different orders: reviews and closes can deadlock.
- Workers die, leases run out under live workers, answers and receipts get lost, caches
  outlive what they hold, a commit may succeed and its acknowledgement not arrive.
- The same question is answered by several queries: what a student may do, which batches
  count, how many classes were attended.

### What makes each component correct

Sessions: one final decision per roster, none after a cancellation, and always one in
the end.  Check-in: never without evidence, never outside the window, never changed.
Finalization: agrees with the evidence in the database, on a roster that does not move,
and never touches a manual record.  Geofence and face: limits hold under concurrency,
failures are final unless the waiver takes them back.  QR: one batch at a time, no scan
on a withdrawn one, no code accepted that was not current, no code shown long after the
end.  Screens: nobody is invited to a step that refuses them.  Push: attempts counted
before the network, bounded, and every delivery settled.  Outbox: nobody told twice,
nobody forgotten.  Reference faces: never replaced unnoticed, readiness about the stored
reference.  Accounts: usable, no silent orphans, an administrator left.  Academic data:
one lecturer, one decision, and counts that agree.

## 2. Modules

| Module | What it models |
|---|---|
| `AttendanceRules` | The pure decisions: check-in windows at creation and activation, required steps, evidence, check-in time, lateness, last geofence retry, final attendance. |
| `AttendanceState` | The rows of one session as variables, the types, the initial state, the requests in flight, `TryCheckIn`. |
| `SessionLifecycle` | Create, activate, close, automatic close, cancel; `Finalize`, the path both closes share. |
| `VerificationSteps` | Geofence readings, start without location, the stages of face verification, check-in. |
| `LecturerDecisions` | The waiver, manual records, reviews. |
| `QrBatches` | Launch, void, deactivate, scan. |
| `AttendanceSystem` | The composition, its fairness, and the properties. |
| `AttendanceLedger` | The abstract specification: what the platform promises of the records. |
| `StudentViews` | Lists, attendance state, QR progress, participation and who is notified of a batch, as operators over `AttendanceSystem`, and their properties. |
| `SessionLocking` | The row locks of every kind of transaction, one at a time, with waits, the deadlock detector and the auto-close loop over several sessions. |
| `QrCodes` | One dynamic batch: codes as windows, metadata through Redis, streams, the two looks of a scan. |
| `PushDelivery` | The queue and its workers: claims, leases, requests, receipts, retries, token deactivation. |
| `DeliveryLifecycle` | The abstract specification of a delivery: the state machine at the head of `push/state.py`. |
| `NotificationOutbox` | Announcements, reminders, devices and preferences in front of the queue; extends `PushDelivery`. |
| `FaceProfiles` | Uploads, script imports, readiness checks, restarts and Core Backend's timeout. |
| `Accounts` | Provisioning in Keycloak and the database with its compensations, account status, sign-in. |
| `AcademicData` | Offerings, assignments, enrolments, timetable, sessions as far as reports read them, correction requests; uses `AttendanceRules`. |
| `AcademicReports` | What each report and course page counts. |
| `AttendanceSystemProofs`, `SessionLockingProofs`, `QrCodesProofs`, `PushDeliveryProofs`, `NotificationOutboxProofs`, `FaceProfilesProofs`, `AccountsProofs`, `AcademicDataProofs` | The theorems.  The first extends `StudentViews`, the last `AcademicReports`: they prove the properties of those modules too. |
| `MC...` | Values for the small instances. |

Definitions marked "Faulty variant" belong to no specification: each is a
plausible mistake next to the definition it would replace, kept to confirm that the
property it breaks can fail.

### The attendance core

One session is modelled: no operation writes a row that two sessions share, and none
reads two sessions but the scheduler's scan, which is in `SessionLocking`.  The clock is
the variable `now`; both services and the database read the same one.

A transaction that takes the locks it needs before it reads is one
action.  A request that reads before its locks is split there, and what it read travels
in the record of the call (`calls`, `lecturerCalls`, `scans`):

- every verification request fixes `current_time` on arrival (`Begin`, field `at`);
- the close fixes `closed_at = now()` when its transaction starts (`CloseBegin`) and
  commits when it has the session's lock (`CloseCommit`).  The automatic close and the
  cancellation do not wait in a way the model tells apart: the first uses `SKIP LOCKED`,
  the second writes no time that anything here reads;
- `lock_attendance_session` of the geofence reads the waiver in the statement that waits
  for the session's lock.  The waiver locks the session without updating it, so the
  waiting statement is not re-evaluated and reports its old snapshot; it may also start
  late.  `WaiverRead` is therefore the waiver at the request or at the commit;
- face verification reads the context, runs the inference without a transaction
  (`FaceBegin`), then locks the attempt, not the session, with a statement whose
  snapshot of the session is fixed before it waits (`FaceLockStatement`), and records
  (`FaceRecord`).  The attempt's own columns are current by then;
- a QR launch reads the clock before the session's lock (`LaunchBegin`,
  `LaunchCommit`), a scan classifies the code before its transaction (`ScanBegin`) and
  looks again under the session's shared lock (`ScanVerdict`).

Manual records, reviews and voids hold the session's lock while they read what matters
and are single actions.  `Abandon`, `LecturerGivesUp` and `ScanLost` let any request end
without effect at any point: a refusal, a rollback, a timeout between the services or a
crash of the process that served it.  After a face pass this is the lost check-in.  An
HTTP check-in that reads an old waiver is one of the refusals: it requires more, never
less.

A request that is certain to be refused (no session yet, session over, window not open)
is not started in the model; this removes stuttering and nothing else.  Two identical
requests that arrive at one instant are one element of `calls`; once either moves to
another stage they are two again, so concurrent captures are covered.

`StudentViews` adds no action.  A screen is computed by several statements; a view is
what they show when nothing commits in between.  Its properties compare each view with
the guards and decisions in the other modules that it speaks of.  Three statements decide or
count who is asked for a batch: the student's (`StudentBatches`, from which progress and the
final decision are counted), the lecturer's table (`Participation`) and the notification of
the launch (`Notified`).  They are written apart in the code and here.  `ScreensMatchDecision`
compares the first two with the decision after the close.  `AskedWhenTold` compares the first
with the third, at every step: a student is asked for a batch by the launch that notifies
them, or by a check-in written after the launch on evidence given before it, and never by
anything else.  The second case is a student whom nobody told; it is the price of dating a
check-in by its evidence, and the property says that it stays at that.

### Locks

In `SessionLocking` a transaction is its kind, its session and the position of its next
lock in the order its statements take them (`Locks`).  `TakeLock` grants one, `GiveUp`
is a refusal, a victim of the deadlock detector or a session passed over by `SKIP
LOCKED`, `Commit` writes what later guards read.  `AttendanceState` is coarser, and
this module says when that is sound: `RosterStable` is the reason why a close may be one
action.  Each session has one student; circles through several attempts of one
session would need two transactions that each lock several attempts, and only closes and
waivers do, one at a time behind the session's exclusive lock.  Sessions in `poisoned`
raise in every finalization; fewer of them than a scan takes are assumed, since as many
would fill every scan.

### QR codes

A lookup (`get_current_dynamic_qr_session`) is three steps, the cache, the database, the
fill, each judged by the time the request began.  Any cache call may fail.  The HMAC of a
code is its sequence number.  `Launch` and `Withdraw` leave a cache call behind
(`cacheCalls`) which is made after the commit, at any time up to `MaxDelay`; so does
`EndSession`, which stands for closes and cancellations and deletes the key of a batch they
deactivate.  A scan reads the clock when it arrives and again for the lookup of the metadata, a few
queries later; the two are one instant here (`Arrive`).  The comment
in `cache.py` speaks of the 60-second cap of the TTL; the window it gives is the cap *and*
two slow requests, the one that filled the cache from before the withdrawal and the one
that believed it, and `CodesShown` states this bound.

### Notifications

`PushDelivery` keeps of the three time columns whether they have run out (`due`); `Elapse`
lets any backoff, lease or receipt delay end at any time, so a lease may end under a live
worker: the worker that claims the delivery then *overtakes* it.  Every answer is a
statement of its own that looks at the id alone, as in the repository class.  `stray` counts
claims that nobody finished in time.  A claim takes any batch of at most `BatchSize`, for
sending and for receipts alike.  `NotificationOutbox` extends the module with whoever
fills the queue, and runs its workers beside them (`Deliver`): they deactivate tokens that
announcements read.  `OutboxSpec` implements `Spec` (`QueueContract`), so the safety shown of
the workers holds behind the outbox.  An announcement runs in a savepoint of the
transaction that causes it: where the savepoint fails, the transaction commits and nobody
is told (`CommitAnnouncement`).  Reminders go to sessions whose start is still to come;
`phase` stands for the start as for the activation, either leaves nobody to remind.

### Reference faces, accounts, academic data

`FaceProfiles`: an import goes through its folder number by number; each student's
transaction reads the row, analyses the photograph and writes by id.  Uploads run
behind the lock of the service process, which a restart forgets; scripts do not.  An upload
that finds the lock held is rejected and writes nothing (`UploadRejected`).  A
folder is a function to the number of files with a registration number.

`Accounts`: one action per request to Keycloak (user, role, password, compensation), each
of which may succeed, fail, or take effect and lose its answer; then the insert, whose commit
may be acknowledged or not.  A role lookup answered 200 with a body that is no JSON raises an
error nobody handles (`RoleUnreadable`).  An account's status is changed by an actor authenticated
before the transaction.  `crossed` notes that an administrator was suspended while
changing another's status.

`AcademicData`: one action per transaction; an assignment or edit is split where it holds
the offering's row and has read the assignments (`changing`), a decision where it
holds the request (`deciding`).  `AcademicReports` defines a figure per query as
counts of rows of the joins; rates are kept as the pairs they divide.

## 3. Runs

Deadlock is not checked: requests, clocks, calls and faults are bounded, and where nobody
asks for anything more the system really stops.

| Run | Instance | Shows |
|---|---|---|
| `face` (`MCAttendanceSystem`) | 1 student, on the roster or not, two requests in flight, limits of 2, start 1, end 3, clock 0..4, a policy window of 2; requests that leave the window to the policy or name part or all of it, with and without the face step | Records agree with the evidence (up to the exception below), check-ins are earned and final, limits and failures stand, only a reading that met the waiver locks anyone out after it, a close leaves nobody behind, the ledger is implemented, whoever is invited to check in can, and with fairness the roster of an activated session is decided. |
| `qr` (`MCAttendanceSystem`) | 1 student, 2 batches, two requests in flight, start 0, end 2, clock 0..2, check-in open to the end | Records agree with the scans asked for, batches do not overlap, scans land on open batches, the student's and the lecturer's screens count as the decision does, nobody is asked for a batch unannounced but by a late check-in earned before it. |
| `locking` | 2 sessions, one student's, one lecturer's transaction and one scheduler at a time, scans of 2, any one session failing every time | Every circle of waits is a review and a close (a second lecturer's waiver is left to the theorem), students' requests are in none; a close decides by a roster that does not move, everything that can be closed is. |
| `qr_codes` | 1 batch of two codes, a screen that reconnects or two scans of one student, any cache call failing, delays of 1, a cap of 1, clock 0..5 | Streams show each code once and end; no code is shown later than the bound; accepted codes were current and the batch open; two scans leave one row and both hear of it. |
| `push` | 1 delivery, 1 token, 2 workers, 2 attempts, 2 faults | Pushes within attempts, attempts bounded, the documented state machine implemented, every delivery settled. |
| `outbox` (`MCNotificationOutbox`) | 2 users sharing a device, 2 types, 2 schedulers, 1 worker that claims one delivery at a time; reminders off until asked for | Nobody told twice, the queue fed as `PushDelivery` expects, whoever wants a reminder gets it. |
| `face_profiles` | An active, an inactive and an unknown number, 2 uploads, 1 script, 1 readiness check, folders with one or two files per number, 1 restart | Readiness is about the stored reference and reports are true while imports come through the service; a reference is overwritten only by a script beside another import. |
| `accounts` | 3 calls with overlapping addresses and numbers, 2 administrators, 2 changes of status, 2 faults | Accounts can be used, identities left behind are reported, an administrator stays. |
| `academic` | 2 offerings, 2 lecturers, 2 students, 1 timetable entry, 2 sessions of different weeks, 1 request, 2 changes by hand | One lecturer per offering, one decision per request, all figures agree. |
| `face_race`, `waiver_race` (`MCAttendanceSystem`), `push_race` (`MCPushDelivery`) | one request in flight; 1 fault | Violations, see below. |

Each run is `MC<module>` with the configuration of the run's name.  The type invariants
are left to the theorems; TLC checked each on these instances before it was proved.

### Bounds

`MaxTime` bounds the clocks.  Four to six instants order a schedule, a threshold, a
close and a late commit in every way, coincidences included, which is what the
comparisons tell apart.  `MaxCalls` bounds requests in flight: every race of the core
is between one or two waiting requests and one transaction that does not wait.  One
student is enough in the core because students meet only in the rows of the session, which
the lecturer's actions already change in every order; the theorems are for any
number.  Two batches are the least that can overlap.  Limits of 2 give a first, a last and a
refused attempt.  `ManualStatuses` bounds what lecturers choose; no step reads the status
of a manual record.  In `locking` two sessions are the least of which one can starve the other,
and a circle of waits needs two transactions on one session; deadlocks of reviews with closes do
occur.  In `outbox` users only
ask for reminders: what opting out changes is the plan of a transaction, which a token that
moves changes too, and nobody who has opted out for good is owed one.  In `push` two faults allow a lost answer after a crash, or a lease that outlives two
workers' patience.  In `accounts` two faults allow the failure of a step and of its
compensation.  In `academic`, `MaxActs` bounds administrators' changes and evidence or marks
recorded by hand together; submissions are bounded by `Requests`, creations by `Sessions`.
Symmetry is used where a config names it, and only in runs without liveness: no action and no
property singles out an element of these sets.

### Fairness

- `AttendanceSystem`: `WF(Tick)`, time passes, and `WF(AutoClose)`: `run` in
  `auto_close.py:48` scans every interval until it is stopped, survives a failed cycle and
  a failed session, and `SKIP LOCKED` makes it try again while the session is locked.
  Nothing is assumed of lecturers, students or a request once begun.  The bounded clock
  reaches beyond `SchedEnd + Grace`, so the bound does not stand in for the guarantee.
- `SessionLocking`: the same loop, and transactions under way go on: statements end, locks
  are granted, deadlocks are found.  Nobody is bound to send a request.
- `QrCodes`: what serves a screen or a scan goes on, cache calls are made or fail, time passes.
- `PushDelivery`: the loop of each worker goes on, after a restart if need be, and
  backoffs, leases and receipt delays end.  Faults are finitely many.
- `NotificationOutbox`: a scan that can be made is made by some scheduler (weak), and one
  insert of infinitely many commits (strong: a cycle may fail again and again, not for
  ever).  Each scheduler's loop gives more than this; one process that goes on is enough.
  Nothing is assumed of announcements, which may all fail, or of the queue's workers.

### Findings

`face_race`: `lock_verification_context` takes its snapshot of the session before it
waits for the attempt's lock, which a close holds while it reconciles.  The verification
then records a pass dated before `closed_at`, and the check-in that follows succeeds in a
closed session, where the close has recorded the student absent.  The comment in
`check_in/service.py:189` says that bounding the evidence at `closed_at` makes the decision
independent of the order of commits.  `RecordsMatchEvidence` makes exactly this
exception (`OvertakenByFace`) and holds otherwise.  The student's progress, computed from
the attempt as it is now, shows a check-in beside the absence in the same case, so
`ScreensMatchDecision` makes the same exception; the `qr` instance does not ask for the face
and cannot show it, the attempt to prove the property did.

`waiver_race`: a reading that waited for the waiver's lock goes on with the waiver it read
before, and can fail the attempt.  Reopening happens once, when the waiver is granted, so
this student stays locked out for location although it is waived and no longer asked for
(`session_overrides/domain.py:24`), unless a lecturer decides by hand.

`push_race`: a worker whose lease ran out writes its answer by the delivery's id, over the
outcome another worker has recorded.  A failed delivery, which `push/state.py:7` calls
terminal, is queued again.  `LifecycleKept` promises nothing of a delivery so overtaken,
and the other properties hold for it too.

Smaller divergences are stated in the properties as the exceptions they are:

- `ReferenceKept`: "normal enrollment never overwrites" a generated reference
  (`fv/services/reference_enrollment_service.py:59`), but for a script beside another
  import, which may have read the row while it still said failed.
- `NothingLeftBehind`: the answers of `identity/admin_users/exception.py:20` and of its route
  say that a partial identity was cleaned up.  One whose creation timed out is unknown to the
  caller, and one interrupted by a restart, or by a role lookup whose body cannot be read
  (`keycloak_admin/client.py:93`, answered as an internal error that promises nothing), is
  nobody's.
- `AccountsUsable`: a commit that succeeded without an acknowledgement is
  compensated for like a failed one: the row remains, its Keycloak user does not.

Observations no property is about: a generated reference is never replaced, although
the README of `fv` offers to "create or replace"; the docstring of
`derive_readiness_status` denies the readiness column its query reads; students who
dropped a course stay on its lecturer's at-risk list.

## 4. Theorems

`AttendanceSystemProofs`, for every roster, schedule, policy, set of creation
requests, limit and bound the assumptions allow:

| Theorem | Property | Argument |
|---|---|---|
| `TypeCorrect` | `TypeOK` | Inductive with `WindowSet`: a session that exists has a complete window.  Needed because an activation computes with stored fields, which the type alone lets be empty. |
| `CheckInIsFinal` | `CheckInStands` | From `AttemptMoves`: a step moves an attempt only if it is absent or in progress, or by the waiver. |
| `FailureIsFinal` | `FailureStands` | `AttemptMoves`, and `RecordsWhole`: a record without a source is empty. |
| `LimitsRespected` | `AttemptLimits` | Inductive as `LimitsHold`, which adds the *reason* of an attempt out of face captures: without it the waiver could reopen one. |
| `BatchesDoNotOverlap` | `OneLiveBatch` | Inductive with `BatchesSound`: an active batch has a lifetime and is not void.  A launch finds every other active batch expired by the very clock value it stores. |
| `ScansOnOpenBatches` | `ScansLandOpen` | From `BatchesSound` and the second look of the scan. |
| `CloseLeavesNobodyBehind` | `NobodyLeftBehind` | What the reconciliation leaves in progress lacks a step by `closed_at`. |
| `LedgerImplemented` | `LedgerKept` | Step simulation: close and automatic close map to `Close` with the verdicts finalization computes; everything else to its namesake or a stutter. |
| `CheckInsRestOnEvidence` | `CheckInsEarned` | Inductive as `AllEarned` with `EvidenceInWindow`: what has been given, and what a face request that may still record would give (`FaceLetIn`), lies in the window of a started session.  The property alone says nothing of evidence before the check-in that counts it.  `EvidenceStep` says once what a step may do to an attempt and its evidence. |
| `DecisionsMatchEvidence` | `RecordsMatchEvidence` | Inductive with `EvidenceInWindow`, `AllEarned`, `RowsSound` (columns that say the same thing agree) and `Latecomers`: what a close leaves in progress can become complete by the closing time only where the face is asked for, which is where the exception comes from.  `DecisionDeserved` is the close itself; `SettledWrites` says that nothing the decision used changes after it. |
| `OffersAreKept` | `OfferKept` | `StepLeft`: an open attempt that used all its readings has just passed, unless location is waived; with `LimitsHold` an open step has a try left. |
| `LockoutsAreRaces` | `LockoutsMeetTheWaiver` | `HandsSound` (a waiver belongs to a started session, a review leaves a manual record) and `RecordsBelong`: in an active session nobody has an automatic record, so whoever the waiver does not reopen was decided by hand.  `ReadingsFail`: only a reading fails an attempt for location. |
| `OrderMattersForFacesOnly` | `OrderIndependence` | From `RecordsMatchEvidence`, whose exception needs a face step: without one the comment of `reconcile_before_close` holds as it stands. |
| `RecordsFollowTheSession` | | `RecordsBelong` is inductive in `AttendanceLedger` alone; the system has it because it implements the ledger. |
| `RecordsStand` | | From the same invariant, step by step of the ledger: a close rewrites no record, since before it there are only manual ones. |
| `EvidenceOnlyHelps` | | A lemma about `DecideFinalAttendance` for all sets: its cases compared in the order absent, left early, late, present. |
| `ActivatedInSession` | | A lemma about `ActivationWindow` for all schedules and policies, of a window no field of which the request named.  Of a window partly named it does not hold: named fields are kept unclamped. |
| `ScreensAgree` | `ScreensMatchDecision` | From `RecordsMatchEvidence`: after the close the batches shown are those the decision asked for, and a finite set of them is complete exactly when as many are passed as there are.  The lecturer's table sums over students what the screens sum over batches: `TableGaps`, a batch has a gap exactly when a checked-in student lacks it. |
| `AsksAreAnnounced` | `AskedWhenTold` | `LaunchedStays`: no step takes back a launch, its time or a voiding.  `DatedByEvidence`: a new check-in carries the time of its last evidence, from `AllEarned`, so what came before it was given before the batch. |

The invariants of `CheckInsRestOnEvidence`, `DecisionsMatchEvidence`, `OffersAreKept`,
`ScreensAgree` and `AsksAreAnnounced` were checked by TLC on the instances of `face` and `qr`
before they were proved.

`SessionLockingProofs`, for any number of sessions, requests and schedulers:

| Theorem | Property | Argument |
|---|---|---|
| `RosterDoesNotMove` | `RosterStable` | Inductive as `LockingInv`: transactions on one session hold no conflicting locks (`Compatible`), and what a close has read is still there (`ReadStands`).  Whoever commits holds the session or the attempt, which the close has for itself. |
| `CirclesAreReviews` | `DeadlocksArePairs` | `StuckBetween` lists where a transaction can stand that holds a lock and waits.  Who waits holds no record, so nobody in a circle waits for one (`InTheWay`); whoever waits for an attempt waits for a review, a review for one who has the session alone, and by `Compatible` that is the first one again. |
| `StudentsNeverInCircles` | | `StudentsNeverVictims`, a corollary: neither of the two is a student's. |
| `TypeCorrect` | | `LockingTypeOK`, a conjunct of `LockingInv`. |

`QrCodesProofs`, for any screens and scans and every interval, validity, cap and delay, from
`IInv`, which dates everything that may still say the batch is open:

| Theorem | Property | Argument |
|---|---|---|
| `TypeCorrect` | `TypeOK` | With `CodeOfInstant`: the code of an instant of the batch's life is the one whose window holds the instant.  Its arithmetic is `DivisionBounds`. |
| `OneRowPerStudent` | `AcceptedOnce` | A row is added only where none is (`AddsRow`), under the lock of the session. |
| `AcceptedCodesAreCurrent` | `AcceptedWasCurrent` | `ScanSound`: a scan that was classified arrived in the window of its code; the second look finds the batch open. |
| `RetriesHearAccepted` | `RetriesAccepted` | A refusal of a student with a row needs metadata of a closed batch: `OfBatch`, what is cached was the row's at some time, and a withdrawal is never undone. |
| `CodesShownAreCurrent` | `CodesShown` | `CacheSound`, `CallsSound` and `LookupSound`: after the withdrawal at `shutAt`, an open entry is filled by a request begun no later than `shutAt`, within `MaxDelay`, and lives `MaxTtl`; a request that believed it began before its end and takes `MaxDelay` more.  `ScreenSound` keeps the sequence growing: who asks again does so no earlier than the end of the code shown. |

`PushDeliveryProofs`, for any deliveries, devices, finite set of workers, limits and faults,
from `PushInv`, which says of every worker and delivery:

| Theorem | Property | Argument |
|---|---|---|
| `PushesWithinAttempts` | `PushesAreAttempts` | `Tally`: pushes and holders who have not sent yet are together no more than the attempts, since each claim counted one.  A count over workers, hence the finite set. |
| `AttemptsStayBounded` | `AttemptsBounded` | `Counted`: a holder's claim lags behind the row only by claims counted as stray, so the limit it compares with its own number bounds the row's. |
| `LifecycleImplemented` | `LifecycleKept` | `Alone`: a delivery that was never overtaken has one holder, and its status is the one the holder's stage expects; every statement is then a step of the machine (`Legal`). |
| `TerminalUnlessOvertaken` | | From `Legal`: `TerminalIsFinal`, which a run refutes, holds of every delivery that was not taken from a live worker. |
| `TypeCorrect` | | A conjunct of `PushInv`. |

`NotificationOutboxProofs`, for any events, users, devices, schedulers, workers and preferences,
from `OutboxInv`, which includes `PushInv`:

| Theorem | Property | Argument |
|---|---|---|
| `NobodyToldTwice` | `ToldOnce` | `PlansFresh`: an announcement about to be made has told nobody; a reminder inserts only where there is no notice, on its unique key. |
| `ContractKept` | `QueueContract` | Step simulation: each step of the outbox is one of `PushDelivery`'s or leaves its variables alone.  `QueuedWithNotice`: a delivery is never queued without its notice, so the insert of a notice finds the delivery absent. |
| `DeliveredAsAnnounced` | `PushesAreAttempts` | By `ContractKept` and `PushesWithinAttempts`.  The workers are part of `OutboxNext`, so this is about pushes that do happen. |
| `PushedWhatWasTold` | | `QueuedWithNotice` and `ToldOnce`: a delivery in any status but `none` has its notification, once. |
| `OutboxTypes` | | A conjunct of `OutboxInv`. |

`FaceProfilesProofs`, for any students, folders, uploads, scripts, checks and restarts:

| Theorem | Property | Argument |
|---|---|---|
| `TypeCorrect` | `TypeOK` | Inductive with `AtPhotograph`: an import at work has a photograph left, a student's.  The first of a finite set of names is there by well-foundedness (`FirstOfNumbers`). |
| `ReferencesAreKept` | `ReferenceKept` | `OneUpload`, `RowsSeen` and `OneInserts`: one upload at a time, a row seen absent is inserted by one import, a row seen failed is not absent again.  Where no script has run, `SeenStays`: it is still failed when it is saved. |
| `ReadinessIsCurrent` | `ReadinessHonest` | `ChecksCurrent`, under the same condition: a check in progress compares with the stored reference. |
| `ReportsStayTrue` | `ReportTrue` | `CountedTruly`: what an upload has counted *so far* is true of the rows; the report is only the end of it, and the property alone would not survive a step. |

`AccountsProofs`, for any administrators (at least one), calls, changes and faults, from
`AccountsInv`:

| Theorem | Property | Argument |
|---|---|---|
| `EveryAccountUsable` | `AccountsUsable` | `Progress`: the step of a call says what Keycloak and the database hold of it. |
| `NoOrphanUnreported` | `NothingLeftBehind` | `Progress`, at the end of a call. |
| `AnAdministratorStays` | `SomeoneAdministers` | `Acting`: who is changing a status is active and is not its target, until two have crossed. |
| `TypeCorrect` | | A conjunct of `AccountsInv`. |

`AcademicDataProofs`, for any offerings, lecturers, students, requests and sessions:

| Theorem | Property | Argument |
|---|---|---|
| `EveryOfferingOneLecturer` | `OneLecturer` | Whoever holds an offering's row has seen every assignment of it, and deletes what it has seen. |
| `RequestsDecidedOnce` | `DecidedOnce` | Whoever holds a request's row has seen its present status. |
| `TypeCorrect` | `TypeOK` | `OfferingInv`, `RequestInv` and `SessionInv` together. |
| `PagesAlwaysAgree` | `PagesAgree` | `Accounted`: only students of the roster have records, a status set by hand is never taken away, and a closed session has a record for each of the roster.  The lecturer's rows about one student and course are in bijection with the student's sessions (`RowsOfCourse`, `PairedCount`); the statuses partition the roster (`LineAddsUp`). |
| `EveryClassCountedOnce` | `ClassesCountedOnce` | `CountInv`: an offering has one lecturer at every instant and the offering of a session stays (`OneTeacher`).  The rows of a figure are partitioned by lecturer and by course, and counts over the parts add up (`SumOfParts`); a rate that is below a threshold over all rows is so over the rows of one course (`BelowSomewhere`, a pigeonhole over weighted sums, `WeightedParts`); who is at risk for the institution is listed by a lecturer (`StudentsListed`); a week's trend counts the rows of the week (`WeekInTrend`). |

`SumOfParts` and the lemmas before it are inductions over a finite set, for which the
library's theorems cannot be instantiated.  They are proved by smallest counterexample
instead: strict inclusion is well-founded on the subsets of a finite set, a set that
violates the equation has a smallest such subset (`SmallestSubset`), and one element
less contradicts it.  `AddsUp` is the recursive function the sum is, and `SumEquation` its
one unfolding.  The thresholds are percentages (`CountAssumption`), as the schema of an
offering's policy has them.

The proofs rest on the named assumptions of the modules (`NoTimeAssumption`,
`ScheduleAssumption`, `BatchAssumption`, `StudentAssumption`, `LimitAssumption`, `PolicyAssumption`,
`RequestAssumption`, `ChoiceAssumption`, `LockingAssumption`, `QrCodesAssumption`,
`NoMetaAssumption`, `PushAssumption`, `OutboxAssumption`, `NumbersAssumption`,
`StudentsAssumption`, `ImportsAssumption`, `MaxRestartsAssumption`, `AccountsAssumption`,
`MaxFaultsAssumption`,
`AcademicAssumption`, `CountAssumption`, `TrendAssumption`), which TLC evaluates in the runs.  They say that
parameters are of their type, that sets which are counted are finite, and that the values
standing for "nothing" are not values of anything.  Where a theorem only concerns a step,
the invariant is what restricts it to reachable ones.

Only model-checked:

- the liveness properties `RosterDecided`, `OverdueClosed`, `StreamsEnd`, `Settles` and
  `Reminded`: liveness under fairness and ENABLED are out of the prover's reach;
- the three findings, which are counterexamples.  Where each ends is a theorem:
  `OrderMattersForFacesOnly`, `LockoutsAreRaces`, `TerminalUnlessOvertaken`.

## 5. Not modelled

- Pages and read marks of a student's inbox, classrooms, the dashboard, the administration
  of the policy, courses without their offerings, the audit log: single rows, and reads
  nothing else depends on.
- Wording and, but for a batch's launch, recipients of announcements, validation of tokens
  and fields, formats and rounding of rates, attendance by faculty, today's and upcoming
  sessions, the lecturer's timetable.
- The geometry of the geofence (four outcomes), the face engine (a match or not), images,
  liveness payloads, similarity scores, model versions.
- The signature keys' cache and the claims of a token; the roles of provisioned users.
- Screens whose statements see different states, clocks that differ between services.
- Clients, deployment, process start and stop (a crash is a lost request or a worker that
  forgets), load tests.

## 6. Plan

Done: the core, the locks, QR codes, notifications, screens, reference faces, accounts,
academic data and reports are modelled, and every safety property the passing runs check
is a theorem.  What would add most next:

1. A second attempt per session in `SessionLocking`: a close and a waiver that lock several
   attempts one after the other, beside reviews of each.
2. The composition of `QrCodes` with `QrBatches`, so that the codes shown are those of the
   batches a decision asks for.
3. The remaining reads of the not modelled components, where one depends on another.
