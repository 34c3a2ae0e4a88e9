-------------------------- MODULE AttemptSessions --------------------------
(***************************************************************************)
(* The quiz sessions of one topic: the rows of attempt_sessions, the       *)
(* requests that read and write them, the cleanup job, and the leaderboard *)
(* row a submission leaves behind.                                         *)
(*                                                                         *)
(* Every handler of attempt.service.ts reads a session row, decides, and   *)
(* writes it back in a later statement with no version check.  A request   *)
(* is therefore a record: the step it is at and the values it read.  The   *)
(* statements between two writes only read, and are one step.              *)
(***************************************************************************)
EXTENDS Naturals, Sequences, FiniteSets

CONSTANTS
    Users,      \* learners
    Sessions,   \* identifiers of session rows
    Requests,   \* request slots: how many handlers may be in flight at once
    Quizzes,    \* the questions of the topic
    Choices,    \* the labels a learner may pick
    Schedules,  \* the (startsAt, endsAt) windows an admin may set
    Ttls,       \* the lifetimes a start may ask for
    Ops,        \* the endpoints in use
    Client,     \* how clients overlap their requests, see MayIssue
    MaxNow,     \* bound on time
    MaxSubmits, \* bound on the submissions of a learner before a new one starts
    None

NoEnd == MaxNow + 1  \* stands for endsAt = null: later than every time reached
Times == 0..NoEnd
Answers == [Quizzes -> Choices \cup {None}]
Blank == [q \in Quizzes |-> None]
Statuses == {"ABSENT", "IN_PROGRESS", "SUBMITTED", "EXPIRED"}
Submissions == [session : Sessions, at : Times, answers : Answers]

ASSUME BoundsAreNaturals == MaxNow \in Nat /\ MaxSubmits \in Nat
ASSUME TtlsArePositive == Ttls \subseteq Nat \ {0}
ASSUME SchedulesAreWindows == Schedules \subseteq [startsAt : Times, endsAt : Times]
ASSUME NoneIsNoValue ==
    None \notin Users \cup Sessions \cup Requests \cup Choices \cup Submissions

VARIABLES
    now,         \* the clock, of the server and of the database alike
    schedule,    \* the topic's startsAt and endsAt
    sessions,    \* the session rows, "ABSENT" for an identifier not yet used
    newer,       \* the pairs of rows whose first was updated after the second
    requests,    \* per slot, the handler in flight
    lock,        \* per learner, the holder of the advisory lock user:topic
    ledger,      \* per learner, the committed submissions
    official,    \* per learner, the row with isCounted = true
    acked,       \* history: the answers each session's saves were told are saved
    unsubmitted  \* history: SUBMITTED rows that were set back to EXPIRED

vars == <<now, schedule, sessions, newer, requests, lock, ledger, official,
          acked, unsubmitted>>

-----------------------------------------------------------------------------

NoRow == [status |-> "ABSENT", owner |-> None, answers |-> Blank, expiresAt |-> 0]

Idle == [pc |-> "idle", user |-> None, session |-> None, todo |-> {},
         next |-> "idle", answers |-> Blank, upd |-> Blank, endsAt |-> 0,
         ttl |-> 1, at |-> 0]

Rows == {s \in Sessions : sessions[s].status # "ABSENT"}
Owned(u, allowed) ==
    {s \in Sessions : sessions[s].owner = u /\ sessions[s].status \in allowed}
Live(u) == Owned(u, {"IN_PROGRESS"})

Overdue(s) == sessions[s].expiresAt <= now

\* findFirst with orderBy updatedAt desc picks s among the rows of C.
IsNewest(s, C) == s \in C /\ \A t \in C \ {s} : <<s, t>> \in newer

\* The rows of S were updated just now (one statement: their order stays).
Touch(S) ==
    newer' = {p \in newer : p[2] \in S => p[1] \in S} \cup (S \X (Rows \ S))

\* Mutant: the spread order of mergedAnswers is swapped, the old answer wins.
MergeOldWins(old, upd) ==
    [q \in Quizzes |-> IF old[q] = None THEN upd[q] ELSE old[q]]

Merge(old, upd) ==
    [q \in Quizzes |-> IF upd[q] = None THEN old[q] ELSE upd[q]]

\* assertTopicWindow: "submit" is refused only before the start, the other
\* modes also from endsAt on.
WindowOpen(mode) ==
    /\ schedule.startsAt <= now
    /\ mode = "submit" \/ now < schedule.endsAt

\* A session never outlives its topic.
SessionExpiry(ttl, endsAt) == IF now + ttl <= endsAt THEN now + ttl ELSE endsAt

\* What the clients keep from overlapping:
\*   "serial"   a learner waits for each answer before the next request,
\*   "perQuiz"  the quiz page: two saves of one question never overlap,
\*   "free"     several tabs, scripts: anything.
MayIssue(u, s, upd) ==
    CASE Client = "serial" -> \A r \in Requests : requests[r].user # u
      [] Client = "perQuiz" ->
            \A r \in Requests : \A q \in Quizzes :
                ~ /\ requests[r].pc = "write"
                  /\ requests[r].session = s
                  /\ requests[r].upd[q] # None
                  /\ upd[q] # None
      [] Client = "free" -> TRUE

Issue(r, op, u, s, upd) ==
    /\ op \in Ops
    /\ requests[r].pc = "idle"
    /\ MayIssue(u, s, upd)

Answer(r) == requests' = [requests EXCEPT ![r] = Idle]

\* The handler goes on to the update of expireSessionIfNeeded on the rows of S,
\* then to the step next.
ThenExpire(req, S, next) == [req EXCEPT !.pc = "expire", !.todo = S, !.next = next]

-----------------------------------------------------------------------------

Init ==
    /\ now = 0
    /\ schedule \in Schedules
    /\ sessions = [s \in Sessions |-> NoRow]
    /\ newer = {}
    /\ requests = [r \in Requests |-> Idle]
    /\ lock = [u \in Users |-> None]
    /\ ledger = [u \in Users |-> <<>>]
    /\ official = [u \in Users |-> None]
    /\ acked = [s \in Sessions |-> Blank]
    /\ unsubmitted = {}

Tick ==
    /\ now < MaxNow
    /\ now' = now + 1
    /\ UNCHANGED <<schedule, sessions, newer, requests, lock, ledger, official,
                   acked, unsubmitted>>

\* PATCH /topic/:id with a new window.  Any window may result: two updates that
\* each set one bound validate it against a bound the other one replaces.
UpdateSchedule ==
    /\ schedule' \in Schedules
    /\ UNCHANGED <<now, sessions, newer, requests, lock, ledger, official, acked,
                   unsubmitted>>

\* Mutants: the where clause loses its status; its comparison is reversed.
StaleAnyStatus(s) == s \in Rows /\ Overdue(s)
StaleStillRunning(s) == sessions[s].status = "IN_PROGRESS" /\ ~Overdue(s)

Stale(s) == sessions[s].status = "IN_PROGRESS" /\ Overdue(s)

\* The cron job: one conditional update of every overdue row in progress.
ExpireStaleSessions ==
    LET stale == {s \in Sessions : Stale(s)}
    IN  /\ stale # {}
        /\ sessions' = [s \in Sessions |->
                          IF s \in stale THEN [sessions[s] EXCEPT !.status = "EXPIRED"]
                          ELSE sessions[s]]
        /\ Touch(stale)
        /\ UNCHANGED <<now, schedule, requests, lock, ledger, official, acked,
                       unsubmitted>>

-----------------------------------------------------------------------------
(* The shared update of expireSessionIfNeeded and of abandonSession: it     *)
(* names the row by its id alone, whatever has become of its status.        *)

ExpireWrite(r) ==
    /\ requests[r].pc = "expire"
    /\ \E s \in requests[r].todo :
        LET left == requests[r].todo \ {s}
        IN  /\ sessions' = [sessions EXCEPT ![s].status = "EXPIRED"]
            /\ unsubmitted' = IF sessions[s].status = "SUBMITTED"
                              THEN unsubmitted \cup {s} ELSE unsubmitted
            /\ Touch({s})
            /\ \/ left # {} /\ requests' = [requests EXCEPT ![r].todo = left]
               \/ left = {} /\ requests[r].next = "idle" /\ Answer(r)
               \/ /\ left = {} /\ requests[r].next # "idle"
                  /\ requests' = [requests EXCEPT ![r].pc = requests[r].next,
                                                  ![r].todo = {}]
    /\ UNCHANGED <<now, schedule, lock, ledger, official, acked>>

-----------------------------------------------------------------------------
(* startTopicSession                                                        *)

\* Mutant: an overdue session is skipped, not expired, before the insert.
StartReadSkipsOverdue(r, u, ttl) ==
    /\ Issue(r, "start", u, None, Blank)
    /\ WindowOpen("start")
    /\ \A s \in Live(u) : Overdue(s)
    /\ requests' = [requests EXCEPT ![r] =
          [Idle EXCEPT !.pc = "create", !.user = u, !.endsAt = schedule.endsAt,
                       !.ttl = ttl]]
    /\ UNCHANGED <<now, schedule, sessions, newer, lock, ledger, official, acked,
                   unsubmitted>>

StartRead(r, u, ttl) ==
    /\ Issue(r, "start", u, None, Blank)
    /\ WindowOpen("start")
    /\ LET req == [Idle EXCEPT !.user = u, !.endsAt = schedule.endsAt, !.ttl = ttl]
       IN  \/ /\ Live(u) = {}
              /\ requests' = [requests EXCEPT ![r] = [req EXCEPT !.pc = "create"]]
           \/ \E s \in Live(u) :
                /\ IsNewest(s, Live(u)) /\ Overdue(s)
                /\ requests' = [requests EXCEPT ![r] = ThenExpire(req, {s}, "create")]
    /\ UNCHANGED <<now, schedule, sessions, newer, lock, ledger, official, acked,
                   unsubmitted>>

\* No index makes (userId, topicId, IN_PROGRESS) unique: the insert succeeds
\* whatever other starts did meanwhile.
StartCreate(r) ==
    /\ requests[r].pc = "create"
    /\ \E s \in Sessions \ Rows :
        /\ sessions' = [sessions EXCEPT ![s] =
              [status |-> "IN_PROGRESS", owner |-> requests[r].user, answers |-> Blank,
               expiresAt |-> SessionExpiry(requests[r].ttl, requests[r].endsAt)]]
        /\ Touch({s})
    /\ Answer(r)
    /\ UNCHANGED <<now, schedule, lock, ledger, official, acked, unsubmitted>>

\* The insert failed (a database error): the catch block looks for a session
\* some other start created, and expires it when it is overdue.
StartCreateFails(r) ==
    /\ requests[r].pc = "create"
    /\ LET raced == Live(requests[r].user)
       IN  \/ /\ ~ \E s \in raced : IsNewest(s, raced) /\ Overdue(s)
              /\ Answer(r)
           \/ \E s \in raced :
                /\ IsNewest(s, raced) /\ Overdue(s)
                /\ requests' = [requests EXCEPT ![r] = ThenExpire(@, {s}, "idle")]
    /\ UNCHANGED <<now, schedule, sessions, newer, lock, ledger, official, acked,
                   unsubmitted>>

-----------------------------------------------------------------------------
(* resumeTopicSession, getMySessions, abandonSession.  The outcomes that    *)
(* only read (no row, a row still running, a refusal) leave no trace.       *)

ResumeRead(r, u) ==
    /\ Issue(r, "resume", u, None, Blank)
    /\ WindowOpen("start")
    /\ LET open == Owned(u, {"IN_PROGRESS", "EXPIRED"})
       IN  \E s \in open :
             /\ IsNewest(s, open) /\ Overdue(s)
             /\ requests' = [requests EXCEPT ![r] =
                               ThenExpire([Idle EXCEPT !.user = u], {s}, "idle")]
    /\ UNCHANGED <<now, schedule, sessions, newer, lock, ledger, official, acked,
                   unsubmitted>>

\* A page of the list: consecutive rows of the learner, newest first.
Pages(u) ==
    LET mine == Owned(u, Statuses)
    IN  {P \in SUBSET mine :
           \A a, b \in P : \A c \in mine :
             <<a, c>> \in newer /\ <<c, b>> \in newer => c \in P}

ListRead(r, u) ==
    /\ Issue(r, "list", u, None, Blank)
    /\ \E P \in Pages(u) :
        LET stale == {s \in P : sessions[s].status = "IN_PROGRESS" /\ Overdue(s)}
        IN  /\ stale # {}
            /\ requests' = [requests EXCEPT ![r] =
                              ThenExpire([Idle EXCEPT !.user = u], stale, "idle")]
    /\ UNCHANGED <<now, schedule, sessions, newer, lock, ledger, official, acked,
                   unsubmitted>>

AbandonRead(r, u, s) ==
    /\ Issue(r, "abandon", u, s, Blank)
    /\ s \in Live(u)
    /\ requests' = [requests EXCEPT ![r] =
                      ThenExpire([Idle EXCEPT !.user = u, !.session = s], {s}, "idle")]
    /\ UNCHANGED <<now, schedule, sessions, newer, lock, ledger, official, acked,
                   unsubmitted>>

-----------------------------------------------------------------------------
(* saveSessionProgress: the answers written are those read, merged with the *)
(* ones of the request.                                                     *)

SaveRead(r, u, s, upd) ==
    /\ Issue(r, "save", u, s, upd)
    /\ s \in Live(u)
    /\ LET req == [Idle EXCEPT !.user = u, !.session = s, !.upd = upd,
                               !.answers = sessions[s].answers]
       IN  \/ /\ Overdue(s)
              /\ requests' = [requests EXCEPT ![r] = ThenExpire(req, {s}, "idle")]
           \/ /\ ~Overdue(s)
              /\ WindowOpen("mutate")
              /\ requests' = [requests EXCEPT ![r] = [req EXCEPT !.pc = "write"]]
    /\ UNCHANGED <<now, schedule, sessions, newer, lock, ledger, official, acked,
                   unsubmitted>>

SaveWrite(r) ==
    /\ requests[r].pc = "write"
    /\ LET s == requests[r].session
       IN  /\ sessions' = [sessions EXCEPT ![s].answers =
                             Merge(requests[r].answers, requests[r].upd)]
           /\ acked' = [acked EXCEPT ![s] =
                 [q \in Quizzes |-> IF requests[r].upd[q] # None
                                    THEN requests[r].upd[q] ELSE acked[s][q]]]
           /\ Touch({s})
    /\ Answer(r)
    /\ UNCHANGED <<now, schedule, lock, ledger, official, unsubmitted>>

-----------------------------------------------------------------------------
(* submitSession: read and grade; in a transaction, take the advisory lock  *)
(* and read the clock, then claim the row and write the results.            *)

\* Mutant: what was saved before the expiry is thrown away.
GradedAnswersIfInTime(s) == IF Overdue(s) THEN Blank ELSE sessions[s].answers

\* Answers saved before the expiry are still valid.
GradedAnswers(s) == sessions[s].answers

SubmitRead(r, u, s) ==
    /\ Issue(r, "submit", u, s, Blank)
    /\ s \in Owned(u, {"IN_PROGRESS", "EXPIRED"})
    /\ WindowOpen("submit")
    /\ Len(ledger[u]) < MaxSubmits
    /\ LET req == [Idle EXCEPT !.user = u, !.session = s,
                               !.answers = GradedAnswers(s)]
       IN  requests' = [requests EXCEPT ![r] =
                          IF Overdue(s) THEN ThenExpire(req, {s}, "lock")
                          ELSE [req EXCEPT !.pc = "lock"]]
    /\ UNCHANGED <<now, schedule, sessions, newer, lock, ledger, official, acked,
                   unsubmitted>>

\* Mutant: the clock is read without the advisory lock.
SubmitLockUnserialized(r) ==
    /\ requests[r].pc = "lock"
    /\ requests' = [requests EXCEPT ![r].pc = "claim", ![r].at = now]
    /\ UNCHANGED <<now, schedule, sessions, newer, lock, ledger, official, acked,
                   unsubmitted>>

SubmitLock(r) ==
    /\ requests[r].pc = "lock"
    /\ lock[requests[r].user] = None
    /\ lock' = [lock EXCEPT ![requests[r].user] = r]
    /\ requests' = [requests EXCEPT ![r].pc = "claim", ![r].at = now]
    /\ UNCHANGED <<now, schedule, sessions, newer, ledger, official, acked,
                   unsubmitted>>

\* Mutant: the claim names the row by its id alone.
ClaimableAlways(s) == s \in Rows

Claimable(s) == sessions[s].status \in {"IN_PROGRESS", "EXPIRED"}

\* createMany with skipDuplicates under the unique index (userId, topicId,
\* isCounted): a no-op when the learner already has a counted row.
Counted(u, e) == IF official[u] = None THEN e ELSE official[u]

\* The transaction waits for the lock leaderboard:topic:date, claims the row
\* and commits the attempts, the row and the counted result together.
SubmitCommit(r) ==
    /\ requests[r].pc = "claim"
    /\ Claimable(requests[r].session)
    /\ LET u == requests[r].user
           s == requests[r].session
           e == [session |-> s, at |-> requests[r].at, answers |-> requests[r].answers]
       IN  /\ sessions' = [sessions EXCEPT ![s].status = "SUBMITTED"]
           /\ ledger' = [ledger EXCEPT ![u] = Append(@, e)]
           /\ official' = [official EXCEPT ![u] = Counted(u, e)]
           /\ Touch({s})
           /\ lock' = [lock EXCEPT ![u] = None]
    /\ Answer(r)
    /\ UNCHANGED <<now, schedule, acked, unsubmitted>>

SubmitRefused(r) ==
    /\ requests[r].pc = "claim"
    /\ ~Claimable(requests[r].session)
    /\ lock' = [lock EXCEPT ![requests[r].user] = None]
    /\ Answer(r)
    /\ UNCHANGED <<now, schedule, sessions, newer, ledger, official, acked,
                   unsubmitted>>

-----------------------------------------------------------------------------

\* A handler dies between two statements: the process stops, a statement or the
\* transaction fails or times out.  The transaction rolls back with its locks.
Fail(r) ==
    /\ requests[r].pc # "idle"
    /\ lock' = [u \in Users |-> IF lock[u] = r THEN None ELSE lock[u]]
    /\ Answer(r)
    /\ UNCHANGED <<now, schedule, sessions, newer, ledger, official, acked,
                   unsubmitted>>

Arrive(r) ==
    \E u \in Users :
        \/ \E ttl \in Ttls : StartRead(r, u, ttl)
        \/ ResumeRead(r, u)
        \/ ListRead(r, u)
        \/ \E s \in Sessions :
            \/ AbandonRead(r, u, s)
            \/ \E upd \in Answers : SaveRead(r, u, s, upd)
            \/ SubmitRead(r, u, s)

Continue(r) ==
    \/ ExpireWrite(r)
    \/ StartCreate(r)
    \/ StartCreateFails(r)
    \/ SaveWrite(r)
    \/ SubmitLock(r)
    \/ SubmitCommit(r)
    \/ SubmitRefused(r)

Next ==
    \/ Tick
    \/ UpdateSchedule
    \/ ExpireStaleSessions
    \/ \E r \in Requests : Arrive(r) \/ Continue(r) \/ Fail(r)

Spec == Init /\ [][Next]_vars

\* The cron job keeps running; clients and handlers owe nothing.
FairSpec == Spec /\ WF_vars(ExpireStaleSessions)

-----------------------------------------------------------------------------
(* Properties                                                               *)

RowRecords == [status : Statuses, owner : Users \cup {None}, answers : Answers,
               expiresAt : Times]

RequestRecords ==
    [pc : {"idle", "expire", "create", "write", "lock", "claim"},
     user : Users \cup {None}, session : Sessions \cup {None},
     todo : SUBSET Sessions, next : {"idle", "create", "lock"},
     answers : Answers, upd : Answers, endsAt : Times, ttl : Nat, at : Times]

\* The shape of every variable: rows, requests in flight, locks and results.
TypeOK ==
    /\ now \in 0..MaxNow
    /\ schedule \in Schedules
    /\ sessions \in [Sessions -> RowRecords]
    /\ newer \subseteq Sessions \X Sessions
    /\ requests \in [Requests -> RequestRecords]
    /\ lock \in [Users -> Requests \cup {None}]
    /\ ledger \in [Users -> Seq(Submissions)]
    /\ official \in [Users -> Submissions \cup {None}]
    /\ acked \in [Sessions -> Answers]
    /\ unsubmitted \subseteq Sessions

Recorded(s) ==
    \E u \in Users : \E i \in 1..Len(ledger[u]) : ledger[u][i].session = s

\* A row says SUBMITTED only when its attempts were committed, and a row whose
\* attempts were committed says anything else only because a stale EXPIRED
\* write of expireSessionIfNeeded or abandonSession landed on it.
StatusAgreesWithLedger ==
    \A s \in Sessions :
        /\ sessions[s].status = "SUBMITTED" => Recorded(s)
        /\ Recorded(s) =>
              \/ sessions[s].status = "SUBMITTED"
              \/ sessions[s].status = "EXPIRED" /\ s \in unsubmitted

\* The claim of submitSession lets one of several concurrent submissions of a
\* session through; a session is submitted again only after such a stale write.
ResubmissionNeedsStaleExpiry ==
    \A u \in Users : \A i, j \in 1..Len(ledger[u]) :
        i < j /\ ledger[u][i].session = ledger[u][j].session
            => ledger[u][i].session \in unsubmitted

\* The advisory lock and the unique index make the leaderboard row the first
\* submission of the learner, by submission time, whatever overlaps it.
Promise == INSTANCE FirstSubmitCounts WITH Entries <- Submissions
FirstSubmissionCounts == Promise!Spec

\* TOPIC_LEADERBOARD_IMPLEMENTATION.md: the atomic claim prevents a session from
\* being submitted twice.
OneSubmissionPerSession ==
    \A u \in Users : \A i, j \in 1..Len(ledger[u]) :
        i < j => ledger[u][i].session # ledger[u][j].session

\* startTopicSession: of two starts the later one returns the session of the
\* first, so a learner has one session in progress.
AtMostOneInProgress ==
    \A u \in Users : \A s, t \in Live(u) : s = t

\* saveSessionProgress and the quiz page: an answer whose save was acknowledged
\* stays on the server until a later save of the same question replaces it.
AckedAnswersKept == \A s \in Sessions : sessions[s].answers = acked[s]

\* submitSession grades the answers the learner was told are saved: neither a
\* save that finished before nor the expiry of the session takes one away.
GradedAnswersAreTheAcked ==
    \A u \in Users : \A i \in 1..Len(ledger[u]) :
        ledger[u][i].answers = acked[ledger[u][i].session]

\* attempt-session-cleanup.service.ts: an overdue session does not stay in
\* progress, whether or not its learner ever comes back.
OverdueIsExpired ==
    \A s \in Sessions :
        (sessions[s].status = "IN_PROGRESS" /\ Overdue(s))
            ~> (sessions[s].status # "IN_PROGRESS")

=============================================================================
