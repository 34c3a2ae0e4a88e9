------------------------ MODULE CertificateRequests ------------------------
(***************************************************************************)
(* The certificate of one learner for one course: the evaluations that     *)
(* follow the course and move the request, the decisions of the admins,    *)
(* and the changes of the course that both of them observe late.           *)
(*                                                                         *)
(* An evaluation (evaluateCourseProgress) is a chain of statements, each   *)
(* of them on its own; a decision starts with an evaluation and ends in a  *)
(* transaction.  A handler in flight keeps what it has read.               *)
(***************************************************************************)
EXTENDS Naturals, FiniteSets

CONSTANTS
    Topics,     \* the topics that exist
    Handlers,   \* slots: how many handlers may be in flight at once
    Courses,    \* the curricula an admin may set: [topics, hasProject]
    Ops,        \* the operations in use
    Admins,     \* "one": decisions do not overlap; "many": they may
    MaxChanges  \* bound on course changes and failures

ASSUME TopicsAreFinite == IsFiniteSet(Topics)
Curricula == [topics : SUBSET Topics, hasProject : BOOLEAN]

ASSUME CoursesAreCurricula == Courses \subseteq Curricula
ASSUME ChangesAreBounded == MaxChanges \in Nat

VARIABLES
    course,           \* its topics and whether it asks for a project
    completed,        \* topics with TopicProgress.isCompleted
    outdated,         \* completed topics with a quiz newer than completedAt
    projectApproved,  \* some project submission of the learner is APPROVED
    progress,         \* UserCourseProgress: "NONE" (no row), "OPEN", "COMPLETED"
    request,          \* CertificateRequest.status, "NONE" for no row
    certificate,      \* the certificate row: its state and the topics it lists
    handlers,         \* per slot, the handler in flight
    changes           \* how many course changes and failures there were

standing == <<course, completed, outdated, projectApproved>>
records == <<progress, request, certificate>>
vars == <<standing, records, handlers, changes>>

Statuses == {"NONE", "PENDING", "ON_HOLD", "APPROVED", "REJECTED", "REVOKED"}

\* A handler that does nothing.  "then" is where the evaluation returns to,
\* "excused" is history: the standing changed in a way approve cannot see.
Idle == [pc |-> "idle", then |-> "idle", view |-> [topics |-> {}, hasProject |-> FALSE],
         clear |-> {}, complete |-> FALSE, snapshot |-> {}, note |-> FALSE,
         reinstating |-> FALSE, excused |-> FALSE]

NoCertificate == [state |-> "none", topics |-> {}]
OldCertificate == [state |-> "live", topics |-> {}]

-----------------------------------------------------------------------------

Init ==
    /\ course \in Courses
    /\ outdated = {}
    /\ request = "NONE"
    /\ \/ /\ certificate = NoCertificate
          /\ completed = {} /\ projectApproved = FALSE /\ progress = "NONE"
       \* issued on completion, by a version without approval
       \/ /\ certificate = OldCertificate
          /\ completed = course.topics /\ projectApproved = course.hasProject
          /\ progress = "COMPLETED"
    /\ handlers = [h \in Handlers |-> Idle]
    /\ changes = 0

Begin(h, op) == op \in Ops /\ handlers[h].pc = "idle"

At(h, step) == handlers[h].pc = step

Goto(h, step) == handlers' = [handlers EXCEPT ![h].pc = step]

Finish(h) == handlers' = [handlers EXCEPT ![h] = Idle]

\* Where an evaluation starts: it reads the course.
Evaluation == [Idle EXCEPT !.pc = "heal", !.view = course]

Deciding(h) == handlers[h].then = "detail"

MayDecide == Admins = "many" \/ \A h \in Handlers : ~Deciding(h)

MayChange == changes < MaxChanges /\ changes' = changes + 1

\* A change of the standing excuses the decisions under way in H.
Excuse(H) ==
    [i \in Handlers |-> IF i \in H /\ Deciding(i)
                        THEN [handlers[i] EXCEPT !.excused = TRUE] ELSE handlers[i]]

-----------------------------------------------------------------------------
(* Changes of the standing.  The handler goes on to evaluate the learner.   *)

\* The submission that completes a topic, then evaluateCoursesByTopic.
FinishTopic(h, t) ==
    /\ Begin(h, "finish")
    /\ t \notin completed
    /\ completed' = completed \cup {t}
    /\ Goto(h, IF t \in course.topics THEN "course" ELSE "idle")
    /\ UNCHANGED <<course, outdated, projectApproved, records, changes>>

\* reevaluateAllUsersForCourse leaves learners without a progress row alone.
Reevaluation == [Idle EXCEPT !.pc = IF progress = "NONE" THEN "idle" ELSE "course"]

\* The decisions whose recount cannot see that the course now has these topics.
Unseen(topics) ==
    {i \in Handlers : ~ /\ handlers[i].pc \in {"decide", "claim"}
                        /\ Cardinality(topics) # Cardinality(handlers[i].snapshot)}

\* updateCourseTopics and createTopicForCourse set the topics, updateCourse and
\* upsertProjectRequirement set hasProject.
ChangeCourse(h) ==
    /\ Begin(h, "course")
    /\ MayChange
    /\ \E c \in Courses \ {course} :
        /\ \/ /\ c.hasProject = course.hasProject
              /\ handlers' = [Excuse(Unseen(c.topics)) EXCEPT ![h] = Reevaluation]
           \/ /\ c.topics = course.topics
              /\ handlers' = [Excuse(Handlers) EXCEPT ![h] = Reevaluation]
        /\ course' = c
    /\ UNCHANGED <<completed, outdated, projectApproved, records>>

\* reviewProjectSubmission; a later review may take an approval back.
ReviewProject(h) ==
    /\ Begin(h, "project")
    /\ MayChange
    /\ projectApproved' = ~projectApproved
    /\ handlers' = [Excuse(IF projectApproved THEN Handlers ELSE {}) EXCEPT ![h].pc = "course"]
    /\ UNCHANGED <<course, completed, outdated, records>>

\* createQuiz: the insert, then the two statements of
\* reopenTopicProgressAndCourses; the courses are evaluated on a later read.
AddQuiz(h, t) ==
    /\ Begin(h, "quiz")
    /\ MayChange
    /\ outdated' = outdated \cup ({t} \cap completed)
    /\ handlers' = [Excuse(IF t \in completed THEN Handlers ELSE {}) EXCEPT
                       ![h] = [Idle EXCEPT !.pc = "reopen", !.clear = {t}]]
    /\ UNCHANGED <<course, completed, projectApproved, records>>

ReopenHold(h) ==
    /\ At(h, "reopen")
    /\ request' = IF request = "PENDING" /\ handlers[h].clear \subseteq course.topics \cap completed
                  THEN "ON_HOLD" ELSE request
    /\ Goto(h, "reopenClear")
    /\ UNCHANGED <<standing, progress, certificate, changes>>

\* The updates of the reopening and of the healing clear what was chosen before,
\* whenever it was completed.
Clear(topics) ==
    /\ completed' = completed \ topics
    /\ outdated' = outdated \ topics
    /\ UNCHANGED <<course, projectApproved, records, changes>>

ReopenClear(h) ==
    /\ At(h, "reopenClear")
    /\ Clear(handlers[h].clear)
    /\ handlers' = [Excuse(Handlers) EXCEPT ![h] = Idle]

-----------------------------------------------------------------------------
(* evaluateCourseProgress, statement by statement.                          *)

\* GET of a progress page, submitProject, ...: an evaluation and nothing else.
View(h) ==
    /\ Begin(h, "view")
    /\ handlers' = [handlers EXCEPT ![h] = Evaluation]
    /\ UNCHANGED <<standing, records, changes>>

ReadCourse(h) ==
    /\ At(h, "course")
    /\ handlers' = [handlers EXCEPT ![h].pc = "heal", ![h].view = course]
    /\ UNCHANGED <<standing, records, changes>>

\* Mutant: completions are never healed.
NothingToHeal(topics) == {}

ToHeal(topics) == topics \cap outdated

HealRead(h) ==
    /\ At(h, "heal")
    /\ LET stale == ToHeal(handlers[h].view.topics)
       IN  handlers' = [handlers EXCEPT ![h].pc = IF stale = {} THEN "topics" ELSE "healClear",
                                        ![h].clear = stale]
    /\ UNCHANGED <<standing, records, changes>>

HealClear(h) ==
    /\ At(h, "healClear")
    /\ Clear(handlers[h].clear)
    /\ handlers' = [Excuse(Handlers \ {h}) EXCEPT ![h].pc = "topics", ![h].clear = {}]

ReadTopics(h) ==
    /\ At(h, "topics")
    /\ LET view == handlers[h].view
       IN  handlers' = [handlers EXCEPT
                ![h].pc = IF view.hasProject THEN "project" ELSE "upsert",
                ![h].complete = view.topics \subseteq completed,
                ![h].view = Idle.view]
    /\ UNCHANGED <<standing, records, changes>>

ReadProject(h) ==
    /\ At(h, "project")
    /\ handlers' = [handlers EXCEPT ![h].pc = "upsert",
                                    ![h].complete = @ /\ projectApproved]
    /\ UNCHANGED <<standing, records, changes>>

UpsertProgress(h) ==
    /\ At(h, "upsert")
    /\ progress' = IF handlers[h].complete THEN "COMPLETED" ELSE "OPEN"
    /\ Goto(h, "sync")
    /\ UNCHANGED <<standing, request, certificate, changes>>

\* syncCertificateRequest
Sync(h) ==
    /\ At(h, "sync")
    /\ Goto(h, IF certificate.state = "live" THEN "adopt"
               ELSE IF handlers[h].complete THEN "create" ELSE "hold")
    /\ UNCHANGED <<standing, records, changes>>

\* Mutant: resubmit does not ask what the evaluation came to.
ReturnAnyway(h) ==
    LET back == handlers[h].then
    IN  handlers' = [handlers EXCEPT ![h] = IF back = "idle" THEN Idle ELSE [@ EXCEPT !.pc = back]]

\* The end of an evaluation: back to the handler that asked for it.
Return(h) ==
    LET back == handlers[h].then
        over == \/ back = "idle"
                \/ back = "resubmit" /\ ~handlers[h].complete
    IN  handlers' = [handlers EXCEPT ![h] = IF over THEN Idle ELSE [@ EXCEPT !.pc = back]]

\* createMany with skipDuplicates: nothing happens to a request that exists.
Insert(status) == request' = IF request = "NONE" THEN status ELSE request

Adopt(h) ==
    /\ At(h, "adopt")
    /\ Insert("APPROVED")
    /\ Return(h)
    /\ UNCHANGED <<standing, progress, certificate, changes>>

Create(h) ==
    /\ At(h, "create")
    /\ Insert("PENDING")
    /\ Goto(h, "resume")
    /\ UNCHANGED <<standing, progress, certificate, changes>>

\* Mutant: the update names the request by its id alone.
ShiftAny(from, to) == request' = to

\* updateMany: from -> to if the request has the status from at this moment.
Shift(from, to) == request' = IF request = from THEN to ELSE request

Resume(h) ==
    /\ At(h, "resume")
    /\ Shift("ON_HOLD", "PENDING")
    /\ Return(h)
    /\ UNCHANGED <<standing, progress, certificate, changes>>

Hold(h) ==
    /\ At(h, "hold")
    /\ Shift("PENDING", "ON_HOLD")
    /\ Return(h)
    /\ UNCHANGED <<standing, progress, certificate, changes>>

-----------------------------------------------------------------------------
(* The learner: listMine, resubmit                                          *)

\* healMissingRequests goes by the progress that is stored.
ListMine(h) ==
    /\ Begin(h, "list")
    /\ request = "NONE"
    /\ progress = "COMPLETED" \/ certificate.state = "live"
    /\ handlers' = [handlers EXCEPT ![h].pc = "sync", ![h].complete = (progress = "COMPLETED")]
    /\ UNCHANGED <<standing, records, changes>>

Resubmit(h) ==
    /\ Begin(h, "resubmit")
    /\ request = "REJECTED"
    /\ handlers' = [handlers EXCEPT ![h] = [Evaluation EXCEPT !.then = "resubmit"]]
    /\ UNCHANGED <<standing, records, changes>>

ResubmitClaim(h) ==
    /\ At(h, "resubmit")
    /\ Shift("REJECTED", "PENDING")
    /\ Finish(h)
    /\ UNCHANGED <<standing, progress, certificate, changes>>

-----------------------------------------------------------------------------
(* The admin: review (approve, reject), revoke                              *)

Reject(h) ==
    /\ Begin(h, "reject")
    /\ MayDecide
    /\ request = "PENDING" /\ request' = "REJECTED"
    /\ UNCHANGED <<standing, progress, certificate, handlers, changes>>

Revoke(h) ==
    /\ Begin(h, "revoke")
    /\ MayDecide
    /\ request = "APPROVED" /\ request' = "REVOKED"
    /\ certificate' = [certificate EXCEPT !.state = IF @ = "none" THEN "none" ELSE "revoked"]
    /\ UNCHANGED <<standing, progress, handlers, changes>>

\* eligibility: an evaluation, then a second read of the course.
Approve(h, note) ==
    /\ Begin(h, "approve")
    /\ MayDecide
    /\ request # "NONE"
    /\ handlers' = [handlers EXCEPT ![h] = [Evaluation EXCEPT !.then = "detail", !.note = note]]
    /\ UNCHANGED <<standing, records, changes>>

Detail(h) ==
    /\ At(h, "detail")
    /\ handlers' = [handlers EXCEPT ![h].pc = "decide", ![h].snapshot = course.topics]
    /\ UNCHANGED <<standing, records, changes>>

Decidable == {"PENDING", "REVOKED"}

MayApprove(h) ==
    /\ request \in Decidable
    /\ IF request = "REVOKED" THEN handlers[h].note ELSE handlers[h].complete

Decide(h) ==
    /\ At(h, "decide")
    /\ \/ /\ MayApprove(h)
          /\ handlers' = [handlers EXCEPT ![h].pc = "claim",
                                          ![h].reinstating = (request = "REVOKED")]
       \/ ~MayApprove(h) /\ Finish(h)
    /\ UNCHANGED <<standing, records, changes>>

\* Mutant: the topics are not counted again.
NoRecount(h) == request \in Decidable

Claimable(h) ==
    /\ request \in Decidable
    /\ \/ handlers[h].reinstating
       \/ Cardinality(course.topics) = Cardinality(handlers[h].snapshot)

\* The transaction.  The claim asks for either status, whichever was decided on.
Claim(h) ==
    /\ At(h, "claim")
    /\ \/ /\ Claimable(h)
          /\ request' = "APPROVED"
          /\ certificate' = [state |-> "live",
                             topics |-> IF handlers[h].reinstating /\ certificate.state # "none"
                                        THEN certificate.topics ELSE handlers[h].snapshot]
       \/ ~Claimable(h) /\ UNCHANGED <<request, certificate>>
    /\ Finish(h)
    /\ UNCHANGED <<standing, progress, changes>>

\* A statement or the transaction of a handler fails, or its process dies.
Fail(h) ==
    /\ "fail" \in Ops
    /\ handlers[h].pc # "idle"
    /\ MayChange
    /\ Finish(h)
    /\ UNCHANGED <<standing, records>>

-----------------------------------------------------------------------------

Arrive(h) ==
    \/ \E t \in Topics : FinishTopic(h, t) \/ AddQuiz(h, t)
    \/ ChangeCourse(h) \/ ReviewProject(h) \/ View(h) \/ ListMine(h)
    \/ Resubmit(h) \/ Reject(h) \/ Revoke(h)
    \/ \E note \in BOOLEAN : Approve(h, note)

Continue(h) ==
    \/ ReopenHold(h) \/ ReopenClear(h)
    \/ ReadCourse(h) \/ HealRead(h) \/ HealClear(h) \/ ReadTopics(h) \/ ReadProject(h)
    \/ UpsertProgress(h) \/ Sync(h) \/ Adopt(h) \/ Create(h) \/ Resume(h) \/ Hold(h)
    \/ ResubmitClaim(h) \/ Detail(h) \/ Decide(h) \/ Claim(h)

Next == \E h \in Handlers : Arrive(h) \/ Continue(h) \/ Fail(h)

Spec == Init /\ [][Next]_vars

\* A handler runs on unless it fails; the learner keeps opening the course.
FairSpec ==
    /\ Spec
    /\ \A h \in Handlers : WF_vars(Continue(h)) /\ WF_vars(View(h))

-----------------------------------------------------------------------------
(* Properties                                                               *)

Steps == {"idle", "reopen", "reopenClear", "course", "heal", "healClear", "topics",
          "project", "upsert", "sync", "adopt", "create", "resume", "hold",
          "resubmit", "detail", "decide", "claim"}

HandlerRecords ==
    [pc : Steps, then : {"idle", "resubmit", "detail"}, view : Curricula,
     clear : SUBSET Topics, complete : BOOLEAN, snapshot : SUBSET Topics,
     note : BOOLEAN, reinstating : BOOLEAN, excused : BOOLEAN]

\* The shape of the rows and of the handlers in flight.
TypeOK ==
    /\ course \in Courses
    /\ completed \subseteq Topics
    /\ outdated \subseteq completed
    /\ projectApproved \in BOOLEAN
    /\ progress \in {"NONE", "OPEN", "COMPLETED"}
    /\ request \in Statuses
    /\ certificate \in [state : {"none", "live", "revoked"}, topics : SUBSET Topics]
    /\ handlers \in [Handlers -> HandlerRecords]
    /\ changes \in 0..MaxChanges

\* A request is APPROVED exactly while its certificate is valid and REVOKED
\* exactly while it is not, whatever evaluations and decisions overlap; only a
\* certificate from before approval existed has no request yet.  The moves of the
\* table below keep this.
CertificateMatchesRequest ==
    /\ request # "NONE" => (certificate.state = "live" <=> request = "APPROVED")
    /\ certificate.state = "revoked" <=> request = "REVOKED"

\* Every step of every handler is a move of the documented table.
Table == INSTANCE CertificateLifecycle WITH certificate <- certificate.state
FollowsTheTable == Table!Spec

Complete ==
    /\ course.topics \subseteq completed \ outdated
    /\ course.hasProject => projectApproved

\* A learner whose request is approved has completed the course as it is at that
\* moment, unless the course changed during the review in a way that the
\* recount of the topics cannot see.
ApprovalIsEarned ==
    [][\A h \in Handlers :
         At(h, "claim") /\ handlers'[h] = Idle /\ request = "PENDING" /\ request' = "APPROVED"
             => Complete \/ handlers[h].excused]_vars

\* A revoked certificate comes back only by a decision with a written reason,
\* and lists the topics it listed when it was issued.
ReinstatementIsReasoned ==
    [][certificate.state = "revoked" /\ certificate'.state = "live" =>
         /\ certificate'.topics = certificate.topics
         /\ \E h \in Handlers : At(h, "claim") /\ handlers'[h] = Idle /\ handlers[h].note]_vars

\* What the rows tell of the learner is true: the request waits for an admin
\* exactly when the course is completed, and the stored progress says so.
Told ==
    /\ request = "PENDING" => Complete
    /\ request \in {"NONE", "ON_HOLD"} => ~Complete
    /\ progress = "COMPLETED" <=> Complete

\* Once the course stops changing, evaluations that overlapped the changes no
\* longer show.
StandingSettles == <>[]Told

\* What the handler in a slot has read is how the learner stands, and what it
\* still has to write is due.
Current(h) ==
    LET d == handlers[h]
        Passed == course.topics \subseteq completed \ outdated
    IN  /\ d.pc \in {"heal", "healClear", "topics"} => d.view = course
        /\ d.pc = "healClear" => course.topics \cap outdated \subseteq d.clear
        /\ d.pc = "topics" => course.topics \cap outdated = {}
        /\ d.pc = "project" => course.hasProject /\ (d.complete <=> Passed)
        /\ d.pc \in {"upsert", "sync", "adopt", "create", "resume", "hold"} =>
              (d.complete <=> Complete)
        /\ d.pc \in {"create", "resume", "resubmit"} => Complete
        /\ d.pc = "hold" => ~Complete
        /\ d.pc = "reopen" /\ d.clear \subseteq course.topics \cap completed => ~Complete

Settled == Told /\ \A h \in Handlers : Current(h)

\* Rows that tell the truth, with nothing in flight that read otherwise, are not
\* put out of line again but by a change of the standing: not by an evaluation,
\* a listing or a decision, begun before or after, completed or given up.
SettledStays == [][Settled /\ UNCHANGED standing => Settled']_vars

=============================================================================
