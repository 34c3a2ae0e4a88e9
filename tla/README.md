# TLA+ model of BCN Quiz

BCN Quiz is a NestJS backend (`be`) over PostgreSQL (Prisma), Redis and an
S3-compatible object store, with a Next.js frontend (`fe`).  Learners answer the
quizzes of a topic in a timed session, collect topics into courses, submit a
project, and are granted a certificate by an admin.  Nothing in the backend is
kept in memory between requests except the event streams and the loads of the
token cache: the state is the database, and every handler is a chain of awaited
statements that interleaves with every other one.  Only a few of these chains run
inside a transaction, fewer take a lock, and most guards are evaluated on a row
that was read some statements earlier.  That is what this project models.

Paths are relative to `src/`.  Contents:

1. Inventory: the parts, how they meet, where the difficulties are
2. Plan and conventions
3. `AttemptSessions` - the sessions of a topic
4. `TopicProgress` - the learner's progress on a topic
5. `CertificateRequests` - evaluations, requests and certificates of a course
6. `ProjectSubmissions` - a submission, its objects, its credit
7. `Leaderboard` - ranks, and what is sent about them
8. `NotificationCenter` - reminders, pushes, the bell
9. `Authentication` - tabs, cookies, refresh, sign-out
10. `ContentAdmin` - quizzes, topics, courses and their objects
11. `QuizPage` - choices, their saves, the submission
12. What is proved, what is only model-checked
13. Not modelled

## 1. Inventory

| Component | State it keeps | Operations | What is hard | Modelled in |
|---|---|---|---|---|
| Quiz sessions (`be/src/attempt/attempt.service.ts` 1-480, 1402-1419) | `attempt_sessions`: status, answers, expiresAt | start, resume, list, abandon, save, submit | every handler reads a row and later writes it by id; the answers object is written whole; crashes between statements; time | `AttemptSessions` |
| Session cleanup job (`attempt-session-cleanup.service.ts`) | the same rows | one conditional update every five minutes | races with submissions, learners who never return | `AttemptSessions` |
| Single-quiz attempts, topic progress (`attempt.service.ts` 36-131, 546-643, 1530-1631; `course-progress.service.ts` 97-239, 693-762) | `quiz_attempts`, `topic_progresses`: totals, sticky isCompleted, completedAt | attempt, submit, sync on read, heal, recount after a deletion, reopen | absolute values written from an earlier read, one writer outside the lock, a sticky flag against a concurrent reopen | `TopicProgress` |
| Course progress (`course-progress.service.ts` 60-590) | `user_course_progresses` | evaluate (reads, heal, compute, upsert, sync) | an evaluation is a dozen statements, two overlap with different views | `CertificateRequests`, in part |
| Certificate requests (`course-progress.service.ts` 592-658, `be/src/certificate/certificate-request.service.ts`) | `certificate_requests`, `certificates` | created and held by evaluations; resubmit, approve, reject, revoke, reinstate | decisions and evaluations overlap; status read before the claim | `CertificateRequests` |
| Certificates (`certificate.service.ts`) | reads of `certificates` | list, verify | none | the row only |
| Leaderboard (`be/src/leaderboard`, `attempt.service.ts` 424-454) | `topic_leaderboard_results`, `isCounted` | written by submit; ranked reads | two first submissions overlap; lock order; time read under the lock | `FirstSubmitCounts`, `Leaderboard` |
| Leaderboard notifications (`be/src/notification/notification.service.ts` 23-97) | `notifications`, dedupKey | captureBoundary, recordOfficial | ranks before and after one insert, two locks, rollbacks | `Leaderboard` |
| Notification scheduler (`notification-scheduler.service.ts`) | `notifications` | daily reminders, weekly digests | a cap counted before the inserts; the week that a summary is of | `NotificationCenter`, `Leaderboard` |
| Realtime (`notification-realtime.service.ts`, `notification.service.ts` 99-172) | in-memory map of streams | subscribe, publish, list, count, mark | streams that close while a push is under way; a crash closes all | `NotificationCenter` |
| Bell (`fe/src/components/notification-center.tsx`) | items, unread count, seen ids | refresh, merge pushes, mark | answers and events overtake each other | `NotificationCenter` |
| Project submissions (`be/src/course/course.service.ts` 629-1160) | `project_submissions`, `project_files`, objects | upload, submit, update, delete, review | objects and rows are not in one transaction; a status read before the write | `ProjectSubmissions` |
| Course, topic and quiz administration (`course.service.ts`, `be/src/topic`, `be/src/quiz`) | `courses`, `course_topics`, `topics`, `quizzes`, images | create, update, delete, list topics, requirement, batch creation | checks on rows read earlier; objects removed before or after the write; learners re-evaluated after it | `ContentAdmin`; effects on learners in `TopicProgress`, `CertificateRequests` |
| Object storage (`be/src/common/storage`) | MinIO | signed uploads, check, delete | deletes fail silently | as used by the two above |
| Authentication (`be/src/auth`), token cache in Redis | cookies, Profiles sessions, cache | sign-in, callback, refresh, logout, getOrLoad | rotation of refresh tokens, lost answers, loads that overlap a logout | `Authentication` |
| API client and session (`fe/src/lib/api.ts`, auth provider) | lock and time of the last refresh, what each tab knows | api, refresh, reload | several tabs share one jar of cookies | `Authentication` |
| Quiz page (`fe/src/app/(app)/topics/[id]`) | choices, one save loop per question, the failed save, the session | choose, save, retry, submit, restart, reload | saves of several questions overlap and fail; a loop of a session that was given up; a submission while saves run | `QuizPage`; what it keeps from overlapping is `MayIssue` of `AttemptSessions` |
| Profiles client, HTTP plumbing, imports, other pages, CI, seeds | none that outlives a request | | | not modelled |

### How the components meet

* `submitSession` is the hub.  Its transaction takes the advisory locks
  `user:topic` and `leaderboard:topic:date`, claims the session row, stores the
  attempts, updates the topic's progress, inserts the leaderboard row, and computes
  the notifications of the rank changes.  After the commit, outside any transaction, it
  evaluates every course of the topic, publishes the notifications and posts a
  timeline event; each of these may fail alone.  The modules cut it by what it
  writes: the session and the official row (`AttemptSessions`), the progress row
  (`TopicProgress`), the ranks (`Leaderboard`), the evaluation
  (`CertificateRequests`), the publication (`NotificationCenter`).
* An evaluation (`evaluateCourseProgress`) runs after submissions, attempts,
  project reviews and curriculum changes, on reads of the progress pages, and at
  the start of each certificate decision.  It is the only code that creates
  certificate requests or moves them between PENDING and ON_HOLD.
* Admin actions on quizzes reopen the topic for everyone with two update
  statements; courses are re-evaluated lazily.
* Objects are uploaded by the browser under signed keys before a request names
  them, and removed by the backend outside of any transaction.
* The cron jobs touch the same rows as the handlers.

### Where the difficulties are

Concurrency: every handler.  Failure: a process may die between any two
statements; only transactions roll back.  Ordering: submission times against
commit order, evaluations against the changes they observe, pushes against
refreshes.  Timeouts and retries: a refresh of the tokens is given up after ten
seconds, and any request when its connection is lost, while the handler may
still run.  `PROJECT.json` lists each hazard at its line
with the properties that cover it.  Some have none: the code does not guard against them, and the
property nearest to them excepts them by name.  These are clients that overlap (two starts; a save
behind a submission's read), uploads named by several requests, and, in the administration of
content, overlapping changes, refused or failed updates after a removal, defaults and
cascades.  Their notes name the property and the exception.

## 2. Plan and conventions

The modules were written in the order of the sections 3, 5, 4, 6, 7, 8, 9, 10, 11:
from what decides a learner's result outwards.  What stays with TLC is named at
the end of section 12, what is left out in section 13.

* One module per component, with its bounds as CONSTANTS and their assumptions by
  name; an `MC` module with the small sets a cfg needs; a `Proofs` module where
  there are theorems (`BrowserTabProofs` holds those of `NotificationCenter` and
  `QuizPage`, as it extends both: hence `PageInit`, `PageNext`, `pageVars`); two abstract specifications (`FirstSubmitCounts`,
  `CertificateLifecycle`) that the detailed modules implement.
* A request in flight is a record: the statement it is at (`pc` or `at`) and what
  it has read.  A handler is cut where it writes or where a read matters later;
  statements between two such points only read, and are one step.  Outcomes
  that leave no trace (not found, forbidden) are left out.
* A crash, a failing statement and a rolled back transaction are the action `Fail`
  (or a named outcome) at any step of any handler.
* History variables record what the code does not (`acked`, `excused`,
  `overlapped`, `reused`, `disturbed`, `reached`, `lost`, `gone`, ...).  Where a
  promise is kept only with an exception, the property names the exception, so
  that it says what the code guarantees and not more.
* Each constant called `Max...` other than the limits of the code (`MaxFiles`,
  `MaxReminders`) bounds a counter in the guards.  Symmetry is used only in
  runs without a liveness property, over sets that no action or property orders.

The runs, all of whose bounds are in their cfg:

| Run | Module | Properties | Distinct states |
|---|---|---|---|
| `SerialClient` | AttemptSessions | AtMostOneInProgress, AckedAnswersKept, GradedAnswersAreTheAcked | 579 128 |
| `OfficialResult` | AttemptSessions | StatusAgreesWithLedger, ResubmissionNeedsStaleExpiry, FirstSubmissionCounts, OverdueIsExpired | 374 198 |
| `LostAnswer` | AttemptSessions | AckedAnswersKept: violated | |
| `Completion` | TopicProgress | TotalsMatchAttempts, CompletionsStayHealable, CompletionSettles | 1 142 592 |
| `Decisions` | CertificateRequests | FollowsTheTable, ApprovalIsEarned, SettledStays, StandingSettles | 789 391 |
| `SilentReinstatement` | CertificateRequests | ReinstatementIsReasoned: violated | |
| `Submissions` | ProjectSubmissions | OnceNamedFilesAreStored, FileCountHolds, NothingIsLeftBehind, ApprovalsStand, CreditSettles | 318 784 |
| `Boards` | Leaderboard | NoSilentDrop, ToldTheRank, SummaryIsFinal | 500 164 |
| `Bell` | NotificationCenter | ReminderCap, NothingMissed, BellStaysRight, BellSettles | 1 752 805 |
| `SignIn` | Authentication | ReplayNeedsLostAnswer, RotationsHaveReasons, SignedOutTokensAreForgotten, SignOutIsReal, TabsSettle | 474 669 |
| `Content` | ContentAdmin | ChecksHold, CodesFit, NamedObjectsAreStored, NothingIsLeftBehind, ProgressFollowsContent | 487 839 |
| `Autosave` | QuizPage | SavedIsSaved, GradedAsShown, LostIsLost, SavesSettle | 1 093 128 |

Each property of a passing run has a mutant in its module, an operator whose
comment says what bug it plants in the code; it violates the property.  The two violated runs are the
findings of `PROJECT.json`, each with the line that promises otherwise.

## 3. AttemptSessions

One topic, any number of learners.  `sessions` are the rows of
`attempt_sessions`, `ledger` the submissions committed per learner in commit
order, `official` the leaderboard row with `isCounted = true`, `lock` the
advisory lock `user:topic`, `newer` the order of `updatedAt` (which is all that
`orderBy updatedAt` looks at), `now` one clock for server and database, and
`requests` the handlers in flight.

| Code (`attempt.service.ts`) | Actions |
|---|---|
| `startTopicSession` 40-113 | `StartRead`, then `ExpireWrite` if the session found is overdue, then `StartCreate`, or `StartCreateFails` for the catch block |
| `resumeTopicSession` 115-149 | `ResumeRead`, `ExpireWrite` |
| `getMySessions` 793-852 | `ListRead`, one `ExpireWrite` per overdue row of the page, in any order (`Promise.all`) |
| `abandonSession` 151-190 | `AbandonRead`, `ExpireWrite` (the same update by id) |
| `saveSessionProgress` 192-261 | `SaveRead`, `ExpireWrite` or `SaveWrite` |
| `submitSession` 263-474 | `SubmitRead`, `ExpireWrite` if overdue, `SubmitLock` (transaction, advisory lock, clock), then `SubmitCommit` or `SubmitRefused` (claim lost) |
| `expireStaleSessions` (cron) | `ExpireStaleSessions` |
| `updateTopic` (window) | `UpdateSchedule` |
| a failing statement, a crash, a rollback | `Fail`, at any step of any request |

For the topic row, which the handlers read separately from the session,
`UpdateSchedule` may set any window at any moment.  The transaction of
`submitSession` is one step from the claim on: its rows become visible together
at the commit, and other submissions of the learner are kept out by the lock.
The claim itself (`Claimable`) is re-evaluated by PostgreSQL on the row as it is
at that moment, which is what the step does.

Abstracted: a submission is its session, its time and the answers graded.  The
score and the coverage are in `Leaderboard` and `TopicProgress`.  The unique
index on (userId, topicId, isCounted) is the guard "no official row yet" of
`Counted`.  A leaderboard row from before `isCounted` existed is not an
initial state: migration `20261105180000` fills the column in.

`Client` says what clients keep from overlapping.  `"free"`: nothing (several
tabs, scripts).  `"perQuiz"`: the quiz page, which keeps one save per question in
flight but saves different questions in parallel (`page.tsx` 141-168).
`"serial"`: no two handlers of a learner run at once on the server.  That is
stronger than a page that waits for each answer, because a page whose connection
is lost goes on while the handler may still run.

**Properties.**  `OfficialResult`, with free clients: SUBMITTED means the attempts
are committed, and the converse fails only after a stale EXPIRED write
(`StatusAgreesWithLedger`); the claim lets one of several concurrent
submissions through, a second one needs such a write
(`ResubmissionNeedsStaleExpiry`); the results refine `FirstSubmitCounts`, in
which submissions are recorded in the order of their times and the first one is
official for ever (`FirstSubmissionCounts`); an overdue session does not stay in
progress (`OverdueIsExpired`).  `SerialClient`: one session in progress, no acknowledged
answer lost, and what is graded is what was acknowledged; one submission per session
(`OneSubmissionPerSession`) is proved, and not checked as well, since
`ResubmissionNeedsStaleExpiry` says more for all clients.  `LostAnswer`, with the page's own client, violates
`AckedAnswersKept`: two saves of different questions read the same answers
object, and the second write drops the first answer, which was acknowledged.

**Observed with free clients**, by the same mechanism: an `EXPIRED` write by id lands
on a row submitted meanwhile, whose claim then succeeds again, so that
a session is submitted twice (this is `unsubmitted`; `OneSubmissionPerSession`
is therefore proved of serial clients only); and two starts read "no session" and both
insert, as no index makes a session in progress unique.

**Bounds.**  `OfficialResult`: two sessions, two requests in flight, three ticks,
so that the times of three submissions may differ; start, list, abandon and
submit, which are the operations that read or write a status.  `SerialClient`: all
operations of one learner, two questions, two windows, two lifetimes; since handlers of a
learner do not overlap, one slot is all that one learner uses.  `MaxSubmits` 2: the
second submission of a session or of a learner is the interesting one.  Learners
share only the cron job and the topic's window.

**Fairness.**  `OfficialResult` alone: `WF_vars(ExpireStaleSessions)`.  The job is
started by `@Cron(EVERY_5_MINUTES)` independently of requests, and its update stays
enabled while an overdue session is in progress.  Nothing is assumed of clients,
nor of handlers, which may die.

**Proofs.**  `AttemptSessionsProofs`, for free clients: `SessionSafety` and
`StatusesAgree` by `SafetyInv`, which adds to the properties that a
request past its first read holds a learner and a session
(`RequestsAreBound`; without it the claim could name an absent row).  The two
properties support each other: the claim only accepts IN_PROGRESS or EXPIRED, and
a submitted row in one of these states is in `unsubmitted`.
`SessionsAreTyped` is the type invariant, on which all of them rest, with what the
handlers know (`RequestsAreBound`) and hold: a learner's lock is held exactly by that
learner's request between the lock and its commit (`LockIsHeldAtClaim`).
`FirstSubmissionIsOfficial` is the refinement, by `OrderInv`: a request at "claim"
holds its learner's lock, so its time, read under the lock, is not before any
committed one.

The same module proves of `Client = "serial"`, for any number of learners: `SerialClientsHaveOneSession`, `SerialClientsSubmitOnce`,
`SerialClientsLoseNoAnswer`, `SerialClientsAreGradedAsSaved`, one for each
property of the run.  The invariant `SerialInv` says that each learner has one request
in flight (`Alone`) and that what it has read still holds (`Serves`): the
rows it is to expire may be expired, there is no session in progress when it is to create one,
and the answers it is to write or grade are those of the row.  A step of
another learner's handler touches other rows, and the cleanup job only expires
(`Undisturbed`, `ServesStays`).  Then a save writes over what is acknowledged, and
no stale write can reach a submitted row, so `unsubmitted` stays empty and
`ResubmissionNeedsStaleExpiry` gives that a session is submitted once.

## 4. TopicProgress

One learner and one topic: `progress` is the row of `topic_progresses`, `latest` the
latest attempt per quiz (the DISTINCT ON of the coverage query), `place` and
`created` the quizzes, which admins add, delete and move, `lock` the advisory
lock `user:topic`.  `progress.basis` and `progress.by` are history: the quizzes a
completion counted, and whether a submission or a read wrote it.

| Code | Actions |
|---|---|
| `submitAttempt` (`attempt.service.ts` 546-643): no lock | `SubmitAttempt`, `Insert`, `Cover`, `Commit`, evaluation |
| `submitSession` 295-454: under the lock | `SubmitSession`, `Lock`, `Cover`, `Commit`, evaluation |
| `updateTopicProgress` 1530-1604 | `Cover` (coverage of the attempts so far), `Updated` (absolute values from the row read) |
| healing of an evaluation (`course-progress.service.ts` 693-762) | `View`, `HealRead`, `Clear` |
| `getMyTopicProgress` with `syncUserTopicCoverage` | `Sync`, `SyncCover`, `SyncWrite` |
| `createQuizzes` (`quiz.service.ts` 448-647), and `createQuiz` 395-446 as its case of one quiz | `CreateQuiz` (the date), `InsertQuizzes` (the transaction), `Clear` (`reopenTopicProgressAndCourses`) |
| `deleteQuiz` with `reevaluateTopicCoverageForAllUsers` | `DeleteQuiz`, `Recount` |
| `updateQuiz` with another topic | `MoveQuiz` (nothing is reopened) |
| failures and crashes | `Fail` |

**Properties** (`Completion`: two handlers, two quizzes, three attempts, changes or
failures: the clock starts at 1 and ends at `MaxEvents` 4).  `TotalsMatchAttempts`: the totals, written as absolute values from an
earlier read, count every committed attempt once; they may miss some only if
`submitAttempt`, which takes no lock, overlapped another submission.
`CompletionsStayHealable`: a completion that a submission wrote, and that did not count
some quiz of the topic, is older than that quiz, by which healing finds it, or the
creation of the quiz has yet to reopen the topic; this is why `submittedAt` must be read
before the coverage.  Two kinds of quizzes are exempt: those moved in from another
topic (`movedIn`), and those in `slipped` (below).  `CompletionSettles`: once
nothing changes, the flag agrees with the coverage.

**Observed.**  Quizzes are dated (`quiz.service.ts` 568, 579; for `createQuiz` by the
default of the column) before the transaction that makes them visible commits (597-601).  A
submission in between completes the topic without the quiz and with a later date, so healing
never finds it; only the reopening that follows the transaction clears it.  When the process dies
before that reopening, or the reopening comes before the submission commits, the completion
stays until the learner opens the topic.  `slipped` is exactly this: the quizzes whose
reopening is over or lost while a completion stands without them, or one is about to.
Without any one of its parts TLC finds the property violated.  A sync or a recount that read the quizzes before a new one was
inserted dates its completion at the write, so healing never notices: hence
`by = "submit"` in the property; only the next opening of the topic repairs it.
Healing selects completions by their date and clears them without looking at the
date again, so it may clear a newer one.  A quiz that is moved in reopens nothing.

**Bounds.**  Two quizzes and the share 1/2 (4/5 in the code) let one quiz suffice and
another undo it; the share is a constant of the proofs.  Number of right answers and
accuracy are written together with the total and left out.

**Fairness.**  Handlers in flight go on unless they fail, and the learner keeps opening
the topic (`Sync`): nothing else recomputes a flag.

**Proofs** (`TopicProgressProofs`): `TotalsAreRight` and `CompletionsHeal`, for
any finite set of quizzes and any share.  `IInv`: what a handler has read is still true of
the tables, or betrayed by a date (`Counts`: every quiz is counted or newer, or its reopening
is still to come, or it is exempt), or known to overlap; sessions hold the lock while they work (`Excludes`).  `AgreementLasts` is
the safety half of `CompletionSettles`.  A topic is settled when the flag agrees with the
coverage and is not stale, and each handler in flight counted the quizzes that are there and
is about to write the coverage as it is, with a date that no quiz exceeds (`Current`).  Then
only an attempt or a change of the quizzes ends it (`SettledStays` of the proof module).
Clearing is the delicate write, as it clears whatever it finds: it may be on its way only
while the coverage is not reached.  TLC finds the same on the bounds of `Completion`, and
finds it violated by a recount that dates its completion too early.  No run repeats this.

## 5. CertificateRequests

One learner and one course.  What the learner stands on: `course` (its topics and
whether it asks for a project), `completed` (topics with `isCompleted`),
`outdated` (completed topics with a quiz newer than `completedAt`, which is all
that healing compares) and `projectApproved`.  What follows from it:
`progress` (the row of `user_course_progresses`, completed or not), `request` (the
status of the row of `certificate_requests`) and `certificate` (absent, valid or
revoked, and the topics in its metadata).  `handlers` are the handlers in flight
with what they have read.  An evaluation is a chain of single statements and each
of them is an action:

| Code | Actions |
|---|---|
| `evaluateCourseProgress` (`course-progress.service.ts` 241-302) | `View` or `ReadCourse`, `HealRead`, `HealClear` if something is stale, `ReadTopics`, `ReadProject` if the course has one, `UpsertProgress`, then `syncCertificateRequest`: `Sync`, and `Adopt`, or `Create` and `Resume`, or `Hold` |
| the submission that completes a topic, then `evaluateCoursesByTopic` | `FinishTopic`, evaluation |
| `updateCourse`, `updateCourseTopics`, `createTopicForCourse`, `upsertProjectRequirement`, then `reevaluateAllUsersForCourse` | `ChangeCourse`, evaluation |
| `reviewProjectSubmission` | `ReviewProject`, evaluation |
| `createQuiz`, then `reopenTopicProgressAndCourses` | `AddQuiz`, `ReopenHold`, `ReopenClear` |
| `listMine` (`healMissingRequests`) | `ListMine`, `Sync` and what follows |
| `resubmit` | `Resubmit`, evaluation, `ResubmitClaim` |
| `review`: reject | `Reject` |
| `review`: approve | `Approve`, evaluation, `Detail` (the second read of the course in `eligibility`), `Decide` (status and checks), `Claim` (the transaction) |
| `revoke` | `Revoke` |
| a failing statement, a crash, a rollback | `Fail`, at any step of any handler |

`Insert` is `createMany` with `skipDuplicates` under the unique index on
(userId, courseId); `Shift` is an `updateMany` with the expected status in its
`where`.  The transactions of `revoke` and of the approval are one step: the
claim locks the row of the request, and the step stands at the moment of the
recount.  The two reads of healing are one step: completions that end between
them give what a read just before would.  The batch evaluation of the course list
runs the same statements over several courses.  `reject` and `revoke` read the
request for its ids only.  How completions come about is `TopicProgress`;
a topic finished between the date of a quiz and its commit, which healing does not see, is here
a topic finished between `AddQuiz` and `ReopenHold`.  An
initial state has no request and either no certificate or one issued on completion
before requests existed.

`Admins` says whether decisions overlap: `"one"` admin who waits for each answer,
or `"many"`.  `excused` is a history bit of a decision in flight: the course
changed under it in a way that the transaction's recount of the topics cannot
see (another kind of change, a change after which the number is the same, or a
change before the second read).

**Properties.**  `Decisions`: every step is a move of the documented table,
`CertificateLifecycle` (`FollowsTheTable`), so that a request is approved exactly while the
certificate is valid and revoked exactly while it is not (`CertificateMatchesRequest`, which
the moves of the table keep, and which is proved on the way); who is approved has completed the course as it is, unless
excused (`ApprovalIsEarned`); after the last change the request waits for an admin
exactly if the learner has completed the course, and the stored progress agrees
(`StandingSettles`), and once this is so and nothing in flight rests on an older reading, no
step of a handler undoes it (`SettledStays`).  A revoked certificate should come back only
with a written reason and with its topics (`ReinstatementIsReasoned`): proved for one admin,
and violated by two in `SilentReinstatement`.  A passes the checks on a PENDING request; B
approves it and revokes it; A's claim accepts REVOKED, and reinstates without a reason
and with A's topics.

**Observed.**  An approval can be early: the evaluation finds the learner complete, a
topic is added before `eligibility` reads the course again, the recount agrees
with that second read, and the certificate lists a topic that nobody finished
(excused in `ApprovalIsEarned`).

**Bounds.**  Two handlers: each race above is between two, or between one at rest
and the steps of another that begins and ends in between.  One topic: the course has it or not (a
course may lose all its topics, and then counts as complete), or has it and asks for a
project, so the number of topics and the project can change under a decision; a change
that leaves the number as it is needs two topics and is covered by the proofs.
`MaxChanges` bounds curriculum changes, quizzes, project reviews
and failures together: two allow a change and a failure, or a change and its
reversal.  Decisions, evaluations and listings are not bounded.

**Fairness.**  For `StandingSettles`: the steps of each handler in flight, which runs on
unless it fails, and `View`, a learner who keeps opening the course's page, because an
evaluation is what moves a request and the reopening of a topic leaves it to the
next read.  Failures and changes are bounded, so "after the last change" is
reached.

**Proofs** (`CertificateRequestsProofs`), for every set of topics, curricula, number
of handlers and bound: `RequestsAreTyped`; `RequestsAreSafe` and `RequestsFollowTheTable` by `TableInv`:
a handler about to insert a request while there is none inserts the one the
certificate calls for; its read of the certificate stays true because only a
request can make a certificate.  `ApprovalsAreEarned` by `EarnedInv`: `Knows` is
what an unexcused decision knows at each of its steps, `OwnKnows` how it learns it,
`OthersKnow` that no other handler takes it away: a change excuses the decision or
makes its recount fail.  `ReinstatementsAreReasoned`, if `Admins = "one"`, by
`ReasonInv`: one decision at a time, so a claim finds the request REVOKED only if
that is what it was decided on.  `TheSettledStaySo` is the safety half of
`StandingSettles`: while the topics, the completions and the project stand still, whatever
evaluations, decisions and listings do, the answer once right stays right.  `Current` says
of each handler, at each of its steps, what it carries into its next write; each step of one
handler writes what is true already (`WritesAreTrue`), and so leaves the others current.

## 6. ProjectSubmissions

One learner's submission for one course: `row` with its files, the `objects` they
name in the bucket, and `credited`, what the course progress counts.

| Code (`course.service.ts`) | Actions |
|---|---|
| upload under a signed key (`fe/src/lib/api.ts` 175-218) | `Upload` |
| `submitProject` 708-797 | `SubmitProject` (checks that the objects are there), `SubmitWrite` (created, or the loser of the unique index), `Cleanup`, evaluation |
| `updateProjectSubmission` 819-999 | `UpdateSubmission`, `UpdateWrite` (transaction), `Cleanup` |
| `deleteProjectSubmission` 1001-1053 | `DeleteSubmission`, `DeleteWrite`, `Cleanup` |
| `reviewProjectSubmission` 1112-1160 | `Review`, `ReviewWrite`, evaluation |
| `getMyCourseProgress`: the project's part of an evaluation | `View`, `Evaluate`, `UpsertProgress` |
| `deleteMinioFiles` 1620-1630 | `Cleanup`: each object is deleted or, silently, not |
| failures | `Fail` (a request that failed deletes nothing: the deletion in the catch blocks, 783-788 and 982-989, is modelled for the loser of the index, and left out for other failures, where it matters only if the write was committed and its acknowledgement lost) |

**Properties** (`Submissions`: two handlers, two keys that a request may name again,
four changes or failures).  `OnceNamedFilesAreStored`: a file of the submission
is in the bucket unless two requests named its key.  `FileCountHolds`: the limit
is exceeded only if two of the learner's writes overlapped, as each counts the files it
read.  `NothingIsLeftBehind`: an object that was named is deleted, or on its way to be,
once neither the submission nor a request names it, unless something failed, or an
update added it after a deletion had read the files; overlapping writes and
keys named twice leave nothing behind.  `ApprovalsStand`: an approved submission is changed only by a review or by a
request that read it before.  `CreditSettles`: the credit comes to agree with the
status, although neither deletion nor update evaluates.

**Observed.**  A replacement whose answer is lost and that the page sends again
(`courses/[id]/page.tsx` 171) names keys twice; the repeated request finds its own new
files as replaced ones and deletes the objects just stored (`course.service.ts`
990).  The loser of two equal `submitProject` calls deletes the winner's objects.
`reused` is this exception.

**Fairness.**  Handlers go on unless they fail, and the learner opens the
course's page (`View`).

**Proofs** (`ProjectSubmissionsProofs`), for any finite set of keys, number of
handlers and limit: `SubmissionsAreSound`, `FileCountsHold`, `ApprovalsAreKept`,
`ReplacedFilesGo`.
`StoreInv`: a key named once is exclusive to its request while that is in flight; afterwards one file has
it, and no deletion of it is on its way while the submission has that file.
`Counted`: a request counts on the files it read, or two writes overlapped.
`Judged`: whoever can still change an approved submission read it before.
`Tidy`: only a request in flight holds keys, at the steps where it may name or delete
them, so a key that leaves the row, or a request that ends, leaves it to a cleanup
(`HandsOver`).

## 7. Leaderboard

The boards of official results: `results` (rows with `isCounted`), `notes`
(notifications by dedupKey), the transactions in flight with what they captured,
and the weekly job.  `reached` is history: who has stood within a cut.

| Code | Actions |
|---|---|
| `submitSession` 366-374: lock `user:topic`, clock, lock `leaderboard:topic:date` | `LockAndClock`, `LockBoard` with `captureBoundary` |
| 429-462: createMany, `recordOfficial` | `Insert`: the row, the ranks after it, the notes of drops and of the result |
| end of the transaction | `Commit`, or `Fail` |
| `weeklyProgress`, `weeklySummary` (`notification-scheduler.service.ts` 120-170) | `RunWeekly`, `WriteWeekly` |
| `rankedQuery`, `weeklyRankedQuery` | `Daily`, `Weekly`: `ROW_NUMBER()` over the sort keys |

**Properties** (`Boards`: two overlapping submissions of three users on two topics
over the end of a two-day week, both jobs any number of times).  `NoSilentDrop`:
whoever loses a watched place is told.  `ToldTheRank`: the rank told with a result is
the one it has when it appears.  `SummaryIsFinal`: the rank in a weekly summary
is the user's rank in that week for ever.

**Bounds.**  Three users, so that one result may push two others; the cuts 1 and 2
stand for 3 and 10; the score stands for score and duration, compared one after the
other.  Which submission is official is `AttemptSessions`.

**Proofs** (`LeaderboardProofs`), for any users, topics, scores, cuts and number
of submissions: `DropsAreTold`, `RanksAreTold`, `SummariesStand`.  The locks
exclude (`LocksExclude`), so what was captured and ranked under the lock is still so
at the commit (`Current`); one more row moves everyone by at most one place
(`RanksGrowByOne`), so comparing with the old rank finds every crossing of a cut; and a
summary is of a week no submission in flight can still touch (`Settled`): the job
runs on Monday for the week before, and the model assumes that no submission of
that week is still uncommitted then, as a transaction is cut off after seconds (the
guard of `RunWeekly`).

## 8. NotificationCenter

The notifications of one user: `rows`, the daily job, publications in flight, one
event `stream` with the events on their way, and one tab with its refreshes, its
`bell` and the ids it has `seen`.

| Code | Actions |
|---|---|
| `runDailyReminders` (`notification-scheduler.service.ts` 36-118) | `RunDaily` (reads, cap, choice), `WriteReminders` |
| `publishCreated` (`notification.service.ts` 99-124) | `CountUnread`, `Push`; `PushFails` |
| rows of a submission | `Announce`; `Complete` is the completion that ends reminders |
| `subscribe`, teardown, process crash | `Connect`, `Disconnect`, `Crash` |
| `list`, `unreadCount`, `markRead` | `Read`, `MarkWrite` |
| the bell (`notification-center.tsx`) | `Refresh`/`Focus`/`OnOpen`, `Receive`, `Apply`, `FetchFails`, `Mark`, `MarkDone` |

**Properties** (`Bell`).  `ReminderCap`: no more reminders a day than allowed,
however often the job runs and whatever is completed meanwhile.  `NothingMissed`: an open
stream with nothing pending has missed no row, through lost connections and
crashes, unless a publication or a refresh failed: what was lost with a stream is read again
when the next one opens.  `BellStaysRight`: a bell that shows what the database holds, with nothing
on its way that knows less (`UpToDate`), is not made wrong by any answer, event or lost
connection, in whatever order they come.  `BellSettles`: after the last change the bell
comes to show what the database holds.

**Bounds.**  Two topics and a cap of one (two in the code), one event, two publications
and two refreshes at once, three changes.  The two requests of a refresh are
answered in either order, and what it shows is put together when both are; a focus
refreshes only when no refresh is in flight, which loses none of the overtakings, as the
stream's opening starts a second one; the page of twenty rows is not modelled, nor is the
refresh after a mark that failed (`notification-center.tsx` 121-129), whose effect is that of
the refreshes of `Focus` and `OnOpen`.

**Fairness.**  Only that the server does not stop while a job, a publication or a request is
unfinished (`Serving`), and the tab does not stop while it can reconnect, take an event or an
answer, or be focused again (`Showing`): the loop of `EventSource` and the user.  Which of
these comes first is open, so an event may wait for ever while refreshes go on.

**Proofs** (`BrowserTabProofs`, its first half): `RemindersAreCapped` by `CapInv` (what the job
is about to write fits the cap together with what is there) and `NothingIsMissed` by
`MissInv` (a row the tab has not met is in a publication, in an event, or in a refresh
that has yet to read or to answer), for any topics, cap and number of
publications and refreshes; `NothingIsMadeUp` is the type invariant, which also says
that the tab shows only rows of the database.  `RightBellsStayRight`:
whatever the tab can still receive carries the rows or the count of the database as they are,
so it shows what is shown already, and what is read or counted meanwhile is the same again.

## 9. Authentication

One browser: the cookies all tabs share (`jar`), what each tab knows (`tabs`), the
requests in flight (`calls`), the refresh of each tab, the token cache with its
loads, a sign-out in flight, and the sessions of Profiles.  Profiles is external: it
hands out a new refresh token at each use, ends a session when an old one comes back,
and ends it when any of its tokens is revoked.

| Code | Actions |
|---|---|
| `AuthProvider` on mount and when the tab is seen; `api`; `BearerAuthGuard`; `me` | `Reload`, `Serve` (with `Guard`, `Handle`, `Resumed`) |
| `refresh`, `callRefresh` under `navigator.locks` (`fe/src/lib/api.ts` 57-99) | `Renew`: `Enter` (`Skip`, when another tab has renewed, or `CallRefresh`), `Rotate`, `Settle`; `RotateFails`, `GiveUp` |
| a refresh whose tab gave up or left | `Orphan` |
| `getOrLoad`, `validateToken` | `Validate`, with `Forget` for the time to live |
| `logout` | `Logout`, `SigningOut` (`Delete`, `Revoke`, `LoggedOut`), `LogoutLost` |
| `startLogin`, `finishLogin` | `Login`, `Callback` |
| Max-Age, a clock set back and caught up | `Expire`, `StepBack`, `CatchUp` |

**Properties** (`SignIn`).  `ReplayNeedsLostAnswer`: an old refresh token reaches
Profiles, which ends the session, only after the answer that brought the newer one was
lost.  `RotationsHaveReasons`: tabs do not renew what one of them has renewed.
`SignedOutTokensAreForgotten`: a token signed out while nobody was loading it is not
vouched for by the cache again.  `SignOutIsReal`: a tab that knew the user shows a
sign-in page only when the session is gone, or Profiles failed and the failure was answered
as a refusal (by the guard, or by `throwUpstreamAuthError`), or the clock was set back.  `TabsSettle`: every tab comes to show whether the user is signed in.

**Observed.**  The guard answers every failure of Profiles as a refused token
(`auth.guard.ts` 61), so an outage costs a rotation or a sign-out.  The refresh does so
for some: `throwUpstreamAuthError` (`auth.service.ts` 480-500) answers 503 or 502 when there is no
response or one of 500 and above, but 401 to every other status, 408 and 429 among them, and
to what is no `AxiosError`.  `callRefresh` (`fe/src/lib/api.ts` 74) takes 401 as denied,
though the comment at 69 counts 429 as transient, and `auth-provider.tsx` 66 shows the sign-in
page, though the comment at 64 says that the session is then really gone.  `RotateFails` has
both outcomes, "transient" and "mistaken", and the property names the second.  Two tabs that
start a sign-in overwrite each other's flow cookies.  A refresh in flight over a sign-out and
a new sign-in sets the old session's cookies back.  A clock set back lets a tab believe that
the token was renewed in the future.  The `Math.min` on the time of the last refresh
never changes the comparison.

**Bounds.**  Two tabs, each with a request in flight, and any two events.  A clock is set
back only when no call is in flight; a token is forgotten by the cache only when its
session has ended (an earlier one is loaded again with the same answer); a request
never outlives a fresh access token; two refreshes in the same millisecond are told
apart, which decides nothing.

**Fairness.**  Requests are answered or fail; the locks of the browser are handed out in
order, hence strong fairness for `Enter`; entries of the cache expire, clocks catch up, and the
user comes back to the tab (`Reload`).

**Proofs** (`AuthenticationProofs`), for any number of tabs, requests and events:
`NoNeedlessReplay`: one tab at a time asks or holds an answer (`OneInTurn`), and
while no answer is lost the token it asks with and the one in the jar are the newest of
their session, or the session is dead, or an answer with a newer one is on its way
(`TokensAreCurrent`).  `SignOutsAreKept` by `GoneInv`: the access and the refresh token
of a jar are of one session (`Pairs`), so that the session of a signed-out token is
never live again and no load can find it so.
`RefreshesHaveReasons` by `TokenInv`, what is known of
the tokens in the jar, in requests and in loads, and `ReasonsSuffice`: the tokens handed
out, those that a refresh may still bring (`Coming`: the newest token of a live session
is under way, or is in the jar while a request has seen its access token fail) and a
sign-in under way are never more than the reasons.  The name of no tab is not a tab
(`NoneIsNoTab`).  `SignOutsAreReal` by `RefusalInv`: only a token of an ended session is
refused; a request sent again bears a token of the session it remembers; and one that
waits for a refused refresh was sent for the session of the refused token, or for one
that is gone.

## 10. ContentAdmin

What administrators do to quizzes (topic, code, image), topics (slug, window,
image), courses (weights, project, requirement with its file, image) and the links
between them; the bucket; and, per course, what its learners' progress was last
computed from.  A field a request leaves out is `Keep`.

| Code | Actions |
|---|---|
| `createQuiz`, `createQuizzes` (`quiz.service.ts` 395-647) | `CreateQuizzes` (checks, codes), `WriteQuizzes` |
| `updateQuiz`, `deleteQuiz` 649-738 | `UpdateQuiz`, `WriteQuiz`; `DeleteQuiz`, `WriteQuizDeletion`; `Remove` of the old image |
| `createTopic` (`topic.service.ts` 422-465) | `CreateTopic`, `OrderTopic`, `WriteTopic` |
| `updateTopic`, `deleteTopic` 467-552 | `UpdateTopic`, `Remove`, `WriteTopicUpdate`; `DeleteTopic`, `WriteTopicDeletion`, `Remove`, `Evaluate` |
| `createCourse`, `updateCourse`, `deleteCourse` (`course.service.ts` 289-469) | `CreateCourse`, `WriteCourse`; `UpdateCourse`, `Remove`, `DecideCourse`, `WriteCourseUpdate`, `Evaluate`; `DeleteCourse`, `WriteCourseDeletion` |
| `updateCourseTopics` 488-511 | `UpdateCourseTopics`, `Detach`, `Attach`, `Evaluate` |
| `upsertProjectRequirement` 566-647 | `UpsertRequirement`, `WriteRequirement`, `EnableProject`, `Remove`, `Evaluate` |
| failures | `Fail`; a removal may fail silently |

**Properties** (`Content`).  `ChecksHold`: what a handler checks before its write
holds after it, unless a request on the same row or course crossed.  `CodesFit`: codes
that a handler found free are not refused by the index.  `NamedObjectsAreStored`,
`NothingIsLeftBehind`: rows name stored objects, replaced ones are removed.
`ProgressFollowsContent`: learners' progress is computed from the content as it is.
Each names its exceptions as words of `disturbed`, listed in the module: they are
what the code does not guarantee.

**Observed** (the exceptions that are not overlaps or failures).  `updateCourse` and
`updateTopic` remove the old image before the write; in `updateCourse` the weights may
then be refused, and the course names a dead image ("rejected").  Setting `hasProject` without
weights resets custom weights to 50/50 and, as the comparison is with the default,
evaluates nobody ("reset").  `updateCourseTopics` does not compare slugs
("attached").  A topic or course that drops its image leaves the object ("cleared");
deleting a topic or course leaves the images of its quizzes and the
requirement's file ("cascade"); two rows that name one key share its fate ("shared").
Two admins who each set one bound of a window validate it against the bound the other
replaces ("race").  Two lists set at once give their union, or the index refuses one.  A batch
with a generated code before an explicit equal one is refused, though another
allocation would fit.

**Bounds.**  One course with a project and a topic with a quiz, a topic outside; one
free topic, two free quizzes; inputs chosen so that each check can pass, fail and be
overtaken (`MCContentAdmin`); three requests, two at once, one failure.
Re-evaluation is one step here (its steps are in `CertificateRequests`), as are the early
reads of `updateTopic` and `updateCourse`.  Course slugs (a unique index), texts,
options and names are left out; `createTopicForCourse` has no route.  A new row takes an
identifier that no request in flight knows (`Unknown`), as the database's ids are
random.  An initial database is one that administrators may have made (`Sound`), with no
key in two columns.

**Proofs** (`ContentAdminProofs`), for any rows, keys, requests in flight, failures and
inputs that the DTOs allow (`InputsAreValid`), from any sound database
(`SeedsAreSound`).  `ContentIsTyped`: the tables keep their foreign keys and the index
of links, and every request carries what its handler checked (`Shape`).  The five
invariants of the run rest on two more: while no two requests on a row overlapped,
the row is as its handler read it (`Unraced`, `Fresh`); while none on a topic or course
did, the codes, links and slugs around it are as found (`Uncrowded`, `Settled`).
`HandlersCheckEnough` and `CheckedCodesFit` follow: what was checked at the read holds at
the write.  `NamedObjectsStay` by `KeysAreSafe`: without sharing each key is in one
column, and a key about to be removed is named only by the row whose update
removes it first.  `ReplacedObjectsGo` by `KeysAreRemoved`: a key that no row names any more
is the one that a request is about to remove.  `ProgressIsKeptUp` by `ProgressIsDue`: a
course whose progress is out of date is on the list of a request.

## 11. QuizPage

The page on which a learner takes a quiz, with the server behind it: the session
rows (`sessions`, status and answers), the `page` (session, choices shown and to be sent, the failed
save, whether the session is lost, the result), one save loop per session and
question in `flight`, saves at the server that no page waits for (`strays`), and the
request to submit, restart or enter (`ask`).

| Code | Actions |
|---|---|
| `choose`, keys (`topics/[id]/page.tsx` 179-201) | `Choose`, which starts the loop of the question (`Post`) unless it runs |
| `save` 143-168 | `Hear`: what the loop does with an answer; it sends again when the choice changed, and ignores what belongs to an earlier session (`OwnLoop`) |
| `saveSessionProgress` (`attempt.service.ts` 192-261) | `SaveRead`, `SaveWrite` (merges with the answers read); `StrayRead`, `StrayWrite` when the page is gone |
| the retry of a failed save 170-177 | `Retry` |
| `submit` 206-215, `submitSession` | `Submit`, `SubmitRead`, `SubmitClaim`, `HearSubmit` |
| `restartFresh`, `begin`, `startFresh` 56-83, 116-121 | `Restart`, `Abandon`, `Begin`, `Enter` |
| `load` 85-114 after the page is closed | `Reload`, `Enter` |
| lost connections and failing statements | `SaveFails`, `AskFails` |
| the cleanup job, another tab, the end of the topic's window | `Close`, `TopicEnds` |
| `expireSessionIfNeeded` 1402-1419 of a request that read the session before its submission | `ExpireLate` |

**Properties** (`Autosave`).  When the page says saved, the row holds what the page shows
(`SavedIsSaved`), and a learner who submits then is graded on it
(`GradedAsShown`), but for the words of `disturbed`; the page gives a session up
only when the server takes no more of it (`LostIsLost`), which is why a loop must know
its session; saves under way and the failure that the page remembers come to an end
(`SavesSettle`).

**Observed** (the words of `disturbed`).  The page remembers one failed save: of two that
fail while the network is away, the second takes the place of the first, is retried, and
its success clears the failure, after which the page says that all is saved while the
first answer, shown as chosen, is not stored ("forgotten"; the text at
`topics/[id]/page.tsx` 313 asks the learner to wait for just that label).  Saves of two questions that overlap at the
server take back each other's answer ("overlap", the mechanism of `LostAnswer`).  A save
that the page heard fail may write after a newer one of its question, what the page does
not show or what it shows again by the time that it hears of the newer one ("late").  Nothing holds a submission back while saves run, and keys choose while it
runs: hence `sure` in `GradedAsShown`.  A reload drops the running loops with the choices that
they were still to send.

**Bounds.**  Two questions, so that one save may fail or overlap while another runs; two
sessions, the second after a restart, so that loops of the first may still run; two
answers, chosen two times in all, so that the choice may change while its save is in flight;
one fault of the network or the server (or one expiry that is written after a submission),
beside which saves are also refused when a session or the topic ends, and saves overlap
without any.  The times of sessions are in `AttemptSessions`; here they end at any moment.
A session that the start handler refuses or resumes is `Enter`; flags, navigation and texts
are left out.

**Fairness.**  The requests of a loop are answered or fail and the page hears it
(`WF_pageVars(Loop)`); the timer of the retry fires (`WF_pageVars(Retry)`).

**Proofs** (`BrowserTabProofs`, its second half), for any questions, choices, sessions
and bounds.  The inductive invariant has four parts:

* `PageTypeOK` and `Grounded` (`PageIsTyped`): what the page waits for or tells of, a
  submission, a failed save, a lost session, a result, belongs to a session that it shows.
* `LifeInv`: the page shows a session that exists; a loop that runs for another session,
  a loop that was refused for good, and a page that enters, knows its session lost or shows
  its result, have a session that is over; and none is ever brought back (`OverIsForGood`).
  `LostSessionsAreOver` follows, and so does what the next part rests on: no loop of the
  past runs for the session that `Enter` shows.
* `SaveInv`, per question of the session shown: while a loop runs or the failed save is
  remembered, what is to be sent is what is shown (`Held`); when neither is so, the row
  holds what is shown, and after a write the row holds what the loop sent (`Kept`).
  `Kept` speaks only of an undisturbed session that is not lost.  `SavedAnswersAreSaved`
  follows.
* `GradeInv`: a submission made while the label said saved finds nothing waiting until it
  is answered, and what the server read to grade is what is shown.  `SavedAnswersAreGraded`
  follows.

The first attempt at `SaveInv` failed, for a good reason: "late" excused only a write of an
answer that the page does not show.  TLC then found, with four choices of one question, a
save given up that wrote between the write of a newer save and its being heard, after which
the learner chose the older answer and then the newer one again: the page hears success of what it
shows, and the row holds the older answer.  `Late` names this case now.


## 12. What is proved, what is only model-checked

Every theorem holds for all values of the constants that satisfy the module's
assumptions: bounds are naturals, the no-value constants are no values, sets that
are counted are finite (`KeysAreFinite`, `QuizzesAreFinite`, `TopicsAreNumbered`),
and the client assumption where a theorem states one.

| Property | Theorem |
|---|---|
| `ResubmissionNeedsStaleExpiry` | `AttemptSessionsProofs!SessionSafety` |
| `FirstSubmissionCounts` | `AttemptSessionsProofs!FirstSubmissionIsOfficial` |
| `StatusAgreesWithLedger` | `AttemptSessionsProofs!StatusesAgree` |
| `AtMostOneInProgress` | `AttemptSessionsProofs!SerialClientsHaveOneSession` |
| `OneSubmissionPerSession` (no run) | `AttemptSessionsProofs!SerialClientsSubmitOnce` |
| `AckedAnswersKept` | `AttemptSessionsProofs!SerialClientsLoseNoAnswer` |
| `GradedAnswersAreTheAcked` | `AttemptSessionsProofs!SerialClientsAreGradedAsSaved` |
| `CertificateMatchesRequest` (no run) | `CertificateRequestsProofs!RequestsAreSafe` |
| `FollowsTheTable` | `CertificateRequestsProofs!RequestsFollowTheTable` |
| `ApprovalIsEarned` | `CertificateRequestsProofs!ApprovalsAreEarned` |
| `SettledStays` | `CertificateRequestsProofs!TheSettledStaySo` |
| `ReinstatementIsReasoned` | `CertificateRequestsProofs!ReinstatementsAreReasoned` |
| `TotalsMatchAttempts` | `TopicProgressProofs!TotalsAreRight` |
| `CompletionsStayHealable` | `TopicProgressProofs!CompletionsHeal` |
| `OnceNamedFilesAreStored` | `ProjectSubmissionsProofs!SubmissionsAreSound` |
| `FileCountHolds` | `ProjectSubmissionsProofs!FileCountsHold` |
| `ApprovalsStand` | `ProjectSubmissionsProofs!ApprovalsAreKept` |
| `NothingIsLeftBehind` (ProjectSubmissions) | `ProjectSubmissionsProofs!ReplacedFilesGo` |
| `NoSilentDrop` | `LeaderboardProofs!DropsAreTold` |
| `ToldTheRank` | `LeaderboardProofs!RanksAreTold` |
| `SummaryIsFinal` | `LeaderboardProofs!SummariesStand` |
| `ReminderCap` | `BrowserTabProofs!RemindersAreCapped` |
| `NothingMissed` | `BrowserTabProofs!NothingIsMissed` |
| `BellStaysRight` | `BrowserTabProofs!RightBellsStayRight` |
| `ReplayNeedsLostAnswer` | `AuthenticationProofs!NoNeedlessReplay` |
| `SignedOutTokensAreForgotten` | `AuthenticationProofs!SignOutsAreKept` |
| `RotationsHaveReasons` | `AuthenticationProofs!RefreshesHaveReasons` |
| `SignOutIsReal` | `AuthenticationProofs!SignOutsAreReal` |
| `ChecksHold` | `ContentAdminProofs!HandlersCheckEnough` |
| `CodesFit` | `ContentAdminProofs!CheckedCodesFit` |
| `NamedObjectsAreStored` | `ContentAdminProofs!NamedObjectsStay` |
| `NothingIsLeftBehind` (ContentAdmin) | `ContentAdminProofs!ReplacedObjectsGo` |
| `ProgressFollowsContent` | `ContentAdminProofs!ProgressIsKeptUp` |
| `SavedIsSaved` | `BrowserTabProofs!SavedAnswersAreSaved` |
| `GradedAsShown` | `BrowserTabProofs!SavedAnswersAreGraded` |
| `LostIsLost` | `BrowserTabProofs!LostSessionsAreOver` |

The type invariants are proved and no run spends its time on them:
`AttemptSessionsProofs!SessionsAreTyped`, `CertificateRequestsProofs!RequestsAreTyped`,
`ContentAdminProofs!ContentIsTyped`, `BrowserTabProofs!PageIsTyped`, and `BrowserTabProofs!NothingIsMadeUp`, which
says more than shape: what the bell shows, counts and has met is in the table.

Only model-checked: every liveness property (`OverdueIsExpired`, `StandingSettles`,
`CompletionSettles`, `CreditSettles`, `BellSettles`, `TabsSettle`, `SavesSettle`), which the
prover cannot handle; of `StandingSettles`, `CompletionSettles` and `BellSettles` the half
that says "and stays so" is proved (`TheSettledStaySo`, `AgreementLasts`,
`RightBellsStayRight`).  Invariants that the proofs
rest on were checked with TLC on small instances before they were proved.

## 13. Not modelled

* The composition of `QuizPage` with `AttemptSessions`: the page has a server of its own,
  in which sessions end at any moment; the times of sessions, other learners and other
  tabs are in `AttemptSessions`.
* `Client = "serial"` speaks of handlers; a page that loses a connection and goes on overlaps
  its own handler and is a free client.
* The composition of `TopicProgress` and `CertificateRequests`: the latter takes
  completions as given, with the same healing.
* Percentages, accuracy, pages, exports, names, texts, codes of certificates:
  computed from what is modelled and read by nothing that is.
* The queue before an advisory lock against the time limit of an interactive
  transaction: a transaction that times out is a `Fail`.
* Browsers without `navigator.locks`, uploads and downloads through `api`, RolesGuard (a
  stateless comparison).
* The Profiles client's best-effort events (deduplicated on the other side), HTTP
  plumbing, configuration, logging, migrations and seeds, imports of sheets,
  rendering, CI, and the internals of PostgreSQL, Redis and MinIO.
