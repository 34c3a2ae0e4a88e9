---------------------------- MODULE TopicProgress ----------------------------
(***************************************************************************)
(* The progress row of one learner on one topic (topic_progresses), the    *)
(* attempts it is computed from, and the quizzes of the topic, which       *)
(* admins add, delete and move meanwhile.                                  *)
(*                                                                         *)
(* The row is written with absolute values computed from an earlier read.  *)
(* submitSession does so under the advisory lock user:topic, submitAttempt *)
(* under none; reads of the page, the deletion of a quiz and the healing   *)
(* of a course evaluation write it as well.                                *)
(***************************************************************************)
EXTENDS Naturals, FiniteSets, Functions

CONSTANTS
    Quizzes,    \* identifiers of quizzes
    Requests,   \* request slots: how many handlers may be in flight at once
    Ops,        \* the endpoints in use
    Places,     \* where the quizzes may be at first
    PassNum, PassDen, \* the share of quizzes that completes the topic, 4/5 in the code
    MaxEvents,  \* bound on attempts, changes of quizzes and failures together
    None

ASSUME QuizzesAreFinite == IsFiniteSet(Quizzes)
ASSUME ShareIsAFraction == PassNum \in Nat \ {0} /\ PassDen \in Nat \ {0}
ASSUME PlacesAreInitial == Places \subseteq [Quizzes -> {"none", "here", "elsewhere"}]
ASSUME EventsAreBounded == MaxEvents \in Nat
ASSUME NoneIsNoRequest == None \notin Requests

VARIABLES
    clock,     \* time; every event that records a time has one of its own
    place,     \* per quiz: not yet made, here, in another topic, deleted
    created,   \* per quiz, its createdAt
    latest,    \* per quiz, the latest attempt by submittedAt: when, and whether right
    progress,  \* the row
    requests,  \* per slot, the handler in flight
    lock,      \* the holder of the advisory lock user:topic
    recorded,  \* history: how many attempts were committed
    overlapped,\* history: an unlocked transaction overlapped another one
    movedIn,   \* history: quizzes that came from another topic
    slipped    \* history: quizzes that a submission overtook and no reopening undoes

content == <<place, created, movedIn>>
vars == <<clock, content, latest, progress, requests, lock, recorded, overlapped, slipped>>

-----------------------------------------------------------------------------

NoRow == [exists |-> FALSE, total |-> 0, completed |-> FALSE, completedAt |-> 0,
          basis |-> {}, by |-> "none"]
NoAttempt == [at |-> 0, right |-> FALSE]
Blank == [q \in Quizzes |-> "none"]
Idle == [pc |-> "idle", locked |-> FALSE, at |-> 0, results |-> Blank,
         old |-> NoRow, counted |-> {}, covers |-> FALSE, making |-> {}]

Here == {q \in Quizzes : place[q] = "here"}
Attempted(results) == {q \in Quizzes : results[q] # "none"}

\* The share of the counted quizzes whose latest attempt is right.
Passes(right, counted) ==
    counted # {} /\ Cardinality(right) * PassDen >= PassNum * Cardinality(counted)

\* DISTINCT ON (quizId) ORDER BY submittedAt DESC, after these attempts.
Latest(results, at) ==
    [q \in Quizzes |-> IF results[q] # "none" /\ latest[q].at < at
                       THEN [at |-> at, right |-> results[q] = "right"] ELSE latest[q]]

RightHere(lat) == {q \in Here : lat[q].right}
Covered == Passes(RightHere(latest), Here)

At(r, step) == requests[r].pc = step
Set(r, req) == requests' = [requests EXCEPT ![r] = req]
Goto(r, step) == Set(r, [requests[r] EXCEPT !.pc = step])
Finish(r) == Set(r, Idle)

\* An event, with a time of its own.
Event ==
    /\ clock < MaxEvents
    /\ clock' = clock + 1

Issue(r, op) == op \in Ops /\ At(r, "idle")

Init ==
    /\ clock = 1
    /\ place \in Places
    /\ created = [q \in Quizzes |-> 1]
    /\ latest = [q \in Quizzes |-> NoAttempt]
    /\ progress = NoRow
    /\ requests = [r \in Requests |-> Idle]
    /\ lock = None
    /\ recorded = 0
    /\ overlapped = FALSE
    /\ movedIn = {}
    /\ slipped = {}

-----------------------------------------------------------------------------
(* Attempts                                                                 *)

\* submitAttempt: one quiz, its time read before the transaction.
SubmitAttempt(r) ==
    /\ Issue(r, "attempt")
    /\ Event
    /\ \E q \in Here, result \in {"right", "wrong"} :
         Set(r, [Idle EXCEPT !.pc = "insert", !.at = clock + 1, !.results[q] = result])
    /\ UNCHANGED <<content, latest, progress, lock, recorded, overlapped, slipped>>

\* submitSession: grades every quiz of the topic; unanswered ones are wrong.
SubmitSession(r) ==
    /\ Issue(r, "session")
    /\ clock < MaxEvents
    /\ \E right \in SUBSET Here :
         Set(r, [Idle EXCEPT !.pc = "lock",
                   !.results = [q \in Quizzes |-> IF q \in right THEN "right"
                                                  ELSE IF q \in Here THEN "wrong" ELSE "none"]])
    /\ UNCHANGED <<clock, content, latest, progress, lock, recorded, overlapped, slipped>>

\* Mutant: submissions are not serialized.
LockAnyway(r) ==
    /\ At(r, "lock")
    /\ clock' = clock + 1
    /\ Set(r, [requests[r] EXCEPT !.pc = "insert", !.at = clock + 1, !.locked = TRUE])
    /\ lock' = r
    /\ UNCHANGED <<content, latest, progress, recorded, overlapped, slipped>>

\* The advisory lock, then the clock of the database.
Lock(r) ==
    /\ At(r, "lock")
    /\ lock = None
    /\ clock' = clock + 1
    /\ Set(r, [requests[r] EXCEPT !.pc = "insert", !.at = clock + 1, !.locked = TRUE])
    /\ lock' = r
    /\ UNCHANGED <<content, latest, progress, recorded, overlapped, slipped>>

Release(r) == lock' = IF lock = r THEN None ELSE lock

\* The attempts are inserted (they refer to quizzes that must still exist),
\* the row and the number of quizzes are read.
Insert(r) ==
    /\ At(r, "insert")
    /\ \/ /\ \A q \in Attempted(requests[r].results) : place[q] \in {"here", "elsewhere"}
          /\ Set(r, [requests[r] EXCEPT !.pc = "cover", !.old = progress, !.counted = Here])
          /\ UNCHANGED lock
       \/ /\ \E q \in Attempted(requests[r].results) : place[q] = "gone"
          /\ Finish(r)
          /\ Release(r)
    /\ UNCHANGED <<clock, content, latest, progress, recorded, overlapped, slipped>>

\* isTopicCoverageComplete: its second query sees the own attempts.
Cover(r) ==
    /\ At(r, "cover")
    /\ LET req == requests[r] IN
       Set(r, [req EXCEPT !.pc = "write",
                 !.covers = Passes(RightHere(Latest(req.results, req.at)), req.counted)])
    /\ UNCHANGED <<clock, content, latest, progress, lock, recorded, overlapped, slipped>>

\* Mutant: a completion is dated at its commit, not at its submission.
CompletionAtCommit(req) ==
    [exists |-> TRUE,
     total |-> req.old.total + Cardinality(Attempted(req.results)),
     completed |-> req.old.completed \/ req.covers,
     completedAt |-> IF req.old.completed \/ ~req.covers THEN req.old.completedAt ELSE clock,
     basis |-> IF req.old.completed \/ ~req.covers THEN req.old.basis ELSE req.counted,
     by |-> IF req.old.completed \/ ~req.covers THEN req.old.by ELSE "submit"]

\* The row updateTopicProgress writes: all of it from what was read.
Updated(req) ==
    [exists |-> TRUE,
     total |-> req.old.total + Cardinality(Attempted(req.results)),
     completed |-> req.old.completed \/ req.covers,
     completedAt |-> IF req.old.completed \/ ~req.covers THEN req.old.completedAt ELSE req.at,
     basis |-> IF req.old.completed \/ ~req.covers THEN req.old.basis ELSE req.counted,
     by |-> IF req.old.completed \/ ~req.covers THEN req.old.by ELSE "submit"]

InTransaction(r) == requests[r].pc \in {"cover", "write"}

\* The write of the row and the commit; a second first row fails on the unique
\* index, and the transaction with it.  The course evaluations come next.
Commit(r) ==
    /\ At(r, "write")
    /\ Release(r)
    /\ \/ /\ requests[r].old.exists = progress.exists
          /\ progress' = Updated(requests[r])
          /\ latest' = Latest(requests[r].results, requests[r].at)
          /\ recorded' = recorded + Cardinality(Attempted(requests[r].results))
          /\ overlapped' = (\/ overlapped
                            \/ \E s \in Requests \ {r} :
                                 InTransaction(s) /\ ~(requests[r].locked /\ requests[s].locked))
          /\ Set(r, [Idle EXCEPT !.pc = "heal"])
       \/ /\ requests[r].old.exists # progress.exists
          /\ Finish(r)
          /\ UNCHANGED <<latest, progress, recorded, overlapped>>
    /\ UNCHANGED <<clock, content, slipped>>

-----------------------------------------------------------------------------
(* Completion                                                               *)

Stale == progress.completed /\ \E q \in Here : created[q] > progress.completedAt

Uncompleted ==
    [progress EXCEPT !.completed = FALSE, !.completedAt = 0, !.basis = {}, !.by = "none"]

\* A course of the topic is read or evaluated; only one that finds something
\* stale leaves a trace.
View(r) ==
    /\ Issue(r, "view")
    /\ Stale
    /\ Goto(r, "clear")
    /\ UNCHANGED <<clock, content, latest, progress, lock, recorded, overlapped, slipped>>

\* The evaluations after a commit.
HealRead(r) ==
    /\ At(r, "heal")
    /\ IF Stale THEN Goto(r, "clear") ELSE Finish(r)
    /\ UNCHANGED <<clock, content, latest, progress, lock, recorded, overlapped, slipped>>

\* Computed without the quiz, and dated so that healing does not see it.
Misses(counted, at, q) == q \notin counted /\ created[q] <= at

Betrays(row, q) ==
    row.completed /\ row.by = "submit" /\ Misses(row.basis, row.completedAt, q)

\* What a submission in flight is about to write stands without the quiz.
Overtakes(r, q) ==
    /\ InTransaction(r)
    /\ Misses(requests[r].counted, requests[r].at, q) \/ Betrays(requests[r].old, q)

\* The reopening of a topic is over, or never comes: of the quizzes it was for,
\* those slip through that a completion is left without, or may yet be.
EndReopening(r) ==
    slipped' = slipped \cup
        {q \in requests[r].making :
            /\ At(r, "clear")
            /\ Betrays(progress', q) \/ \E s \in Requests : Overtakes(s, q)}

\* updateMany where isCompleted: by healing, and by the reopening of the topic.
Clear(r) ==
    /\ At(r, "clear")
    /\ progress' = Uncompleted
    /\ EndReopening(r)
    /\ Finish(r)
    /\ UNCHANGED <<clock, content, latest, lock, recorded, overlapped>>

\* getMyTopicProgress starts by syncing the flag with the coverage.
Sync(r) ==
    /\ Issue(r, "sync")
    /\ progress.exists
    /\ Set(r, [Idle EXCEPT !.pc = "syncCover", !.old = progress, !.counted = Here])
    /\ UNCHANGED <<clock, content, latest, progress, lock, recorded, overlapped, slipped>>

SyncCover(r) ==
    /\ At(r, "syncCover")
    /\ LET covers == Passes(RightHere(latest), requests[r].counted) IN
       IF covers = requests[r].old.completed THEN Finish(r)
       ELSE Set(r, [requests[r] EXCEPT !.pc = "syncWrite", !.covers = covers])
    /\ UNCHANGED <<clock, content, latest, progress, lock, recorded, overlapped, slipped>>

\* Mutant: the flag is only ever raised.
RaiseOnly(r) ==
    IF requests[r].covers
    THEN [progress EXCEPT !.completed = TRUE, !.completedAt = clock,
                          !.basis = requests[r].counted, !.by = "sync"]
    ELSE progress

\* The update is by id: whatever the flag has become since it was read.
\* A deletion dates its completions at its start, a sync at its write.
Synced(r) ==
    IF requests[r].covers
    THEN [progress EXCEPT !.completed = TRUE,
                          !.completedAt = IF requests[r].at > 0 THEN requests[r].at ELSE clock,
                          !.basis = requests[r].counted, !.by = "sync"]
    ELSE Uncompleted

SyncWrite(r) ==
    /\ At(r, "syncWrite")
    /\ progress' = Synced(r)
    /\ Finish(r)
    /\ UNCHANGED <<clock, content, latest, lock, recorded, overlapped, slipped>>

-----------------------------------------------------------------------------
(* The quizzes of the topic                                                 *)

\* createQuiz, createQuizzes: the date of the quizzes is read first.
CreateQuiz(r) ==
    /\ Issue(r, "create")
    /\ Event
    /\ \E Q \in SUBSET {q \in Quizzes : place[q] = "none"} :
         /\ Q # {}
         /\ Set(r, [Idle EXCEPT !.pc = "create", !.at = clock + 1, !.making = Q])
    /\ UNCHANGED <<content, latest, progress, lock, recorded, overlapped, slipped>>

\* Their transaction commits later, or fails on the unique index; then
\* reopenTopicProgressAndCourses.
InsertQuizzes(r) ==
    /\ At(r, "create")
    /\ LET Q == requests[r].making IN
       \/ /\ \A q \in Q : place[q] = "none"
          /\ place' = [q \in Quizzes |-> IF q \in Q THEN "here" ELSE place[q]]
          /\ created' = [q \in Quizzes |-> IF q \in Q THEN requests[r].at ELSE created[q]]
          /\ Goto(r, "clear")
       \/ /\ \E q \in Q : place[q] # "none"
          /\ Finish(r)
          /\ UNCHANGED <<place, created>>
    /\ UNCHANGED <<clock, latest, progress, lock, recorded, overlapped, movedIn, slipped>>

\* deleteQuiz: its attempts go with it, which waits for transactions that refer
\* to it.
DeleteQuiz(r) ==
    /\ Issue(r, "delete")
    /\ Event
    /\ \E q \in Here :
         /\ \A s \in Requests : InTransaction(s) => requests[s].results[q] = "none"
         /\ place' = [place EXCEPT ![q] = "gone"]
         /\ latest' = [latest EXCEPT ![q] = NoAttempt]
    /\ Goto(r, "recount")
    /\ UNCHANGED <<created, progress, lock, recorded, overlapped, movedIn, slipped>>

\* reevaluateTopicCoverageForAllUsers, for this learner.
Recount(r) ==
    /\ At(r, "recount")
    /\ IF progress.exists
       THEN Set(r, [requests[r] EXCEPT !.pc = "syncCover", !.old = progress,
                                       !.counted = Here, !.at = clock])
       ELSE Finish(r)
    /\ UNCHANGED <<clock, content, latest, progress, lock, recorded, overlapped, slipped>>

\* updateQuiz with another topicId: nothing is reopened or evaluated.
MoveQuiz ==
    /\ "move" \in Ops
    /\ Event
    /\ \E q \in Quizzes :
         \/ /\ place[q] = "here"
            /\ place' = [place EXCEPT ![q] = "elsewhere"]
            /\ UNCHANGED movedIn
         \/ /\ place[q] = "elsewhere"
            /\ place' = [place EXCEPT ![q] = "here"]
            /\ movedIn' = movedIn \cup {q}
    /\ UNCHANGED <<created, latest, progress, requests, lock, recorded, overlapped, slipped>>

\* A statement or the transaction of a handler fails, or its process dies.
Fail(r) ==
    /\ "fail" \in Ops
    /\ ~At(r, "idle")
    /\ Event
    /\ Finish(r)
    /\ Release(r)
    /\ UNCHANGED <<content, latest, progress, recorded, overlapped>>
    /\ EndReopening(r)

-----------------------------------------------------------------------------

Arrive(r) ==
    \/ SubmitAttempt(r) \/ SubmitSession(r) \/ View(r) \/ Sync(r)
    \/ CreateQuiz(r) \/ DeleteQuiz(r)

Continue(r) ==
    \/ Lock(r) \/ Insert(r) \/ Cover(r) \/ Commit(r) \/ HealRead(r) \/ Clear(r)
    \/ SyncCover(r) \/ SyncWrite(r) \/ Recount(r) \/ InsertQuizzes(r)

Next ==
    \/ \E r \in Requests : Arrive(r) \/ Continue(r) \/ Fail(r)
    \/ MoveQuiz

Spec == Init /\ [][Next]_vars

\* A handler runs on unless it fails; the learner keeps opening the topic.
FairSpec ==
    /\ Spec
    /\ \A r \in Requests : WF_vars(Continue(r)) /\ WF_vars(Sync(r))

-----------------------------------------------------------------------------
(* Properties                                                               *)

ProgressRows ==
    [exists : BOOLEAN, total : Nat, completed : BOOLEAN, completedAt : Nat,
     basis : SUBSET Quizzes, by : {"none", "submit", "sync"}]

RequestRecords ==
    [pc : {"idle", "lock", "insert", "cover", "write", "heal", "clear",
           "syncCover", "syncWrite", "recount", "create"},
     locked : BOOLEAN, at : Nat, results : [Quizzes -> {"none", "right", "wrong"}],
     old : ProgressRows, counted : SUBSET Quizzes, covers : BOOLEAN,
     making : SUBSET Quizzes]

\* The shape of the rows and of the handlers in flight; a completion is dated
\* exactly while it lasts, so healing always has a date to compare.
TypeOK ==
    /\ clock \in Nat
    /\ place \in [Quizzes -> {"none", "here", "elsewhere", "gone"}]
    /\ created \in [Quizzes -> Nat]
    /\ latest \in [Quizzes -> [at : Nat, right : BOOLEAN]]
    /\ progress \in ProgressRows
    /\ progress.completed <=> progress.completedAt > 0
    /\ requests \in [Requests -> RequestRecords]
    /\ lock \in Requests \cup {None}
    /\ recorded \in Nat
    /\ overlapped \in BOOLEAN
    /\ movedIn \subseteq Quizzes
    /\ slipped \subseteq Quizzes

\* The totals of the row are the attempts on record: none is counted twice, and
\* none is missing unless submitAttempt, which takes no lock, overlapped another
\* submission.  Failed transactions count for nothing.
TotalsMatchAttempts ==
    /\ progress.total <= recorded
    /\ ~overlapped => progress.total = recorded

\* The creation of the quiz has yet to reopen the topic.
Reopening(q) == \E r \in Requests : At(r, "clear") /\ q \in requests[r].making

\* A topic that a submission completed without one of its quizzes is told by it:
\* the quiz is newer than the completion, by which the healing of the next
\* evaluation finds it, or the reopening of its creation is still to come.  Only a
\* quiz moved in from another topic escapes, and one that was dated before the
\* submission and committed after its count, whose reopening is lost or comes
\* before the submission's own commit.
CompletionsStayHealable ==
    \A q \in Here \ (movedIn \cup slipped) : Betrays(progress, q) => Reopening(q)

\* Once attempts and changes stop, the learner who opens the topic is shown
\* completed exactly if enough of its quizzes are answered right, whatever the
\* stale writes in between did.
CompletionSettles == <>[](progress.exists => progress.completed = Covered)

=============================================================================
