---------------------- MODULE CertificateRequestsProofs ----------------------
(***************************************************************************)
(* Proofs about CertificateRequests, for any topics, any number of         *)
(* handlers in flight and any curricula.                                   *)
(***************************************************************************)
EXTENDS CertificateRequests, TLAPS

\* A slot without a handler holds nothing, and only a decision gets to decide.
Clean(h) ==
    /\ At(h, "idle") => handlers[h] = Idle
    /\ handlers[h].pc \in {"course", "reopen", "reopenClear", "resubmit"} => ~Deciding(h)
    /\ handlers[h].pc \in {"detail", "decide", "claim"} => Deciding(h)

SlotsAreClean == \A h \in Handlers : Clean(h)

\* A handler about to insert a request inserts the one the certificate calls for.
InsertsAreDue ==
    \A h \in Handlers :
        request = "NONE" =>
            /\ At(h, "adopt") => certificate.state = "live"
            /\ At(h, "create") => certificate.state = "none"

TableInv == TypeOK /\ CertificateMatchesRequest /\ InsertsAreDue

\* What an unexcused decision knows of the learner's standing, step by step.
Knows(h) ==
    LET d == handlers[h]
        Passed == course.topics \subseteq completed \ outdated
    IN  /\ d.pc \in {"heal", "healClear", "topics"} => d.view = course
        /\ d.pc = "healClear" => course.topics \cap outdated \subseteq d.clear
        /\ d.pc = "topics" => course.topics \cap outdated = {}
        /\ d.pc = "project" /\ d.complete => Passed
        /\ d.pc \in {"upsert", "sync", "adopt", "create", "resume", "hold", "detail"} /\ d.complete
              => Complete
        /\ d.pc \in {"decide", "claim"} /\ d.complete
              => \/ Complete /\ course.topics = d.snapshot
                 \/ Cardinality(course.topics) # Cardinality(d.snapshot)

DecisionsKnow == \A h \in Handlers : Deciding(h) /\ ~handlers[h].excused => Knows(h)

\* What is claimed was decided: for a complete learner, or as a reinstatement.
ClaimsAreDecided ==
    \A h \in Handlers : At(h, "claim") =>
        IF handlers[h].reinstating THEN request \in {"APPROVED", "REVOKED"}
                                   ELSE handlers[h].complete

EarnedInv == TableInv /\ SlotsAreClean /\ DecisionsKnow /\ ClaimsAreDecided

\* With one decision at a time, a claim still finds the status it was decided on.
OneDecision ==
    \A h, i \in Handlers : Deciding(h) /\ Deciding(i) => h = i

ClaimsKeepTheirStatus ==
    \A h \in Handlers : At(h, "claim") =>
        /\ request = "REVOKED" => handlers[h].reinstating
        /\ handlers[h].reinstating => handlers[h].note

ReasonInv == TableInv /\ SlotsAreClean /\ OneDecision /\ ClaimsKeepTheirStatus

-----------------------------------------------------------------------------

LEMMA IdleIsHandler == Idle \in HandlerRecords
  BY DEF Idle, HandlerRecords, Steps, Curricula

LEMMA InitType == Init => TypeOK
  <1> SUFFICES ASSUME Init PROVE TypeOK
    OBVIOUS
  <1>1. course \in Curricula
    BY CoursesAreCurricula DEF Init
  <1>2. handlers \in [Handlers -> HandlerRecords]
    BY IdleIsHandler DEF Init
  <1>3. /\ completed \subseteq Topics /\ outdated \subseteq completed
        /\ projectApproved \in BOOLEAN
    BY <1>1 DEF Init, Curricula
  <1>4. certificate \in [state : {"none", "live", "revoked"}, topics : SUBSET Topics]
    BY DEF Init, NoCertificate, OldCertificate
  <1>5. QED
    BY <1>2, <1>3, <1>4, ChangesAreBounded DEF Init, TypeOK, Statuses

\* What an update of a slot may put into it.
LEMMA HandlerUpdates ==
  ASSUME NEW d \in HandlerRecords
  PROVE  /\ [d EXCEPT !.excused = TRUE] \in HandlerRecords
         /\ \A p \in Steps :
              /\ [d EXCEPT !.pc = p] \in HandlerRecords
              /\ \A T \in SUBSET Topics :
                   /\ [d EXCEPT !.pc = p, !.clear = T] \in HandlerRecords
                   /\ [d EXCEPT !.pc = p, !.snapshot = T] \in HandlerRecords
              /\ \A view \in Curricula : [d EXCEPT !.pc = p, !.view = view] \in HandlerRecords
              /\ \A b \in BOOLEAN :
                   /\ [d EXCEPT !.pc = p, !.complete = b] \in HandlerRecords
                   /\ [d EXCEPT !.pc = p, !.reinstating = b] \in HandlerRecords
                   /\ \A view \in Curricula :
                        [d EXCEPT !.pc = p, !.complete = b, !.view = view] \in HandlerRecords
  <1>1. [d EXCEPT !.excused = TRUE] \in HandlerRecords
    BY DEF HandlerRecords
  <1>2. ASSUME NEW p \in Steps PROVE [d EXCEPT !.pc = p] \in HandlerRecords
    BY DEF HandlerRecords
  <1>3. ASSUME NEW p \in Steps, NEW T \in SUBSET Topics
        PROVE  /\ [d EXCEPT !.pc = p, !.clear = T] \in HandlerRecords
               /\ [d EXCEPT !.pc = p, !.snapshot = T] \in HandlerRecords
    BY DEF HandlerRecords
  <1>4. ASSUME NEW p \in Steps, NEW view \in Curricula
        PROVE  [d EXCEPT !.pc = p, !.view = view] \in HandlerRecords
    BY DEF HandlerRecords
  <1>5. ASSUME NEW p \in Steps, NEW b \in BOOLEAN
        PROVE  /\ [d EXCEPT !.pc = p, !.complete = b] \in HandlerRecords
               /\ [d EXCEPT !.pc = p, !.reinstating = b] \in HandlerRecords
    BY DEF HandlerRecords
  <1>6. ASSUME NEW p \in Steps, NEW b \in BOOLEAN, NEW view \in Curricula
        PROVE  [d EXCEPT !.pc = p, !.complete = b, !.view = view] \in HandlerRecords
    BY DEF HandlerRecords
  <1>7. QED BY <1>1, <1>2, <1>3, <1>4, <1>5, <1>6

LEMMA ExcuseKeepsType ==
  ASSUME handlers \in [Handlers -> HandlerRecords], NEW H
  PROVE  Excuse(H) \in [Handlers -> HandlerRecords]
  BY HandlerUpdates DEF Excuse

\* The slots keep their shape in every step.
LEMMA HandlersKeepType ==
  ASSUME TypeOK, NEW h \in Handlers, Arrive(h) \/ Continue(h) \/ Fail(h)
  PROVE  handlers' \in [Handlers -> HandlerRecords]
  <1> USE DEF TypeOK
  <1>0. Idle.view \in Curricula
    BY DEF Idle, Curricula
  <1>1. course \in Curricula /\ course.topics \in SUBSET Topics
    BY CoursesAreCurricula DEF Curricula
  <1>2. /\ \A H : Excuse(H) \in [Handlers -> HandlerRecords]
        /\ handlers[h] \in HandlerRecords
        /\ Idle \in HandlerRecords
    BY ExcuseKeepsType, IdleIsHandler
  <1>3. Evaluation \in HandlerRecords
    BY <1>1, <1>2 DEF Evaluation, HandlerRecords, Steps
  <1>4. /\ [Evaluation EXCEPT !.then = "resubmit"] \in HandlerRecords
        /\ \A note \in BOOLEAN :
             [Evaluation EXCEPT !.then = "detail", !.note = note] \in HandlerRecords
    BY <1>3 DEF HandlerRecords
  <1>5. ASSUME NEW t \in Topics, FinishTopic(h, t) PROVE handlers' \in [Handlers -> HandlerRecords]
    <2>1. \A p \in {"idle", "course"} : [handlers EXCEPT ![h].pc = p] \in [Handlers -> HandlerRecords]
      BY <1>2, HandlerUpdates DEF Steps
    <2>2. QED BY <1>5, <2>1 DEF FinishTopic, Goto
  <1>6. ASSUME NEW t \in Topics, AddQuiz(h, t) PROVE handlers' \in [Handlers -> HandlerRecords]
    <2>1. [Idle EXCEPT !.pc = "reopen", !.clear = {t}] \in HandlerRecords
      <3>1. {t} \in SUBSET Topics
        BY <1>6
      <3>2. QED BY <1>2, <3>1, HandlerUpdates DEF Steps
    <2>2. QED BY <1>2, <1>6, <2>1 DEF AddQuiz
  <1>7. ASSUME ChangeCourse(h) PROVE handlers' \in [Handlers -> HandlerRecords]
    <2>1. Reevaluation \in HandlerRecords
      BY <1>2 DEF Reevaluation, HandlerRecords, Steps
    <2>2. QED BY <1>2, <1>7, <2>1 DEF ChangeCourse
  <1>8. ASSUME ReviewProject(h) PROVE handlers' \in [Handlers -> HandlerRecords]
    <2> DEFINE H == IF projectApproved THEN Handlers ELSE {}
    <2>1. Excuse(H) \in [Handlers -> HandlerRecords]
      BY <1>2
    <2>2. [Excuse(H) EXCEPT ![h].pc = "course"] \in [Handlers -> HandlerRecords]
      <3> HIDE DEF H
      <3>1. QED BY <2>1, HandlerUpdates DEF Steps
    <2>3. QED BY <1>8, <2>2 DEF ReviewProject
  <1>9. ASSUME View(h) \/ Resubmit(h) \/ \E note \in BOOLEAN : Approve(h, note)
        PROVE handlers' \in [Handlers -> HandlerRecords]
    BY <1>3, <1>4, <1>9 DEF View, Resubmit, Approve
  <1>10. ASSUME ListMine(h) PROVE handlers' \in [Handlers -> HandlerRecords]
    BY <1>2, <1>10, ZenonT(40) DEF ListMine, HandlerRecords, Steps
  <1>11. ASSUME Reject(h) \/ Revoke(h) PROVE handlers' \in [Handlers -> HandlerRecords]
    BY <1>11 DEF Reject, Revoke
  <1>12. ASSUME ReopenClear(h) \/ HealClear(h) PROVE handlers' \in [Handlers -> HandlerRecords]
    <2>1. CASE ReopenClear(h)
      BY <1>2, <2>1 DEF ReopenClear
    <2>2. CASE HealClear(h)
      <3> DEFINE E == Excuse(Handlers \ {h})
      <3>1. E \in [Handlers -> HandlerRecords]
        BY <1>2
      <3>2. handlers' = [E EXCEPT ![h].pc = "topics", ![h].clear = {}]
        BY <2>2 DEF HealClear
      <3> HIDE DEF E
      <3>3. [E[h] EXCEPT !.pc = "topics", !.clear = {}] \in HandlerRecords
        BY <3>1, HandlerUpdates DEF Steps
      <3>4. QED BY <3>1, <3>2, <3>3
    <2>3. QED BY <1>12, <2>1, <2>2
  <1>13. ASSUME ReadCourse(h) PROVE handlers' \in [Handlers -> HandlerRecords]
    BY <1>1, <1>2, <1>13, HandlerUpdates DEF ReadCourse, Steps
  <1>14. ASSUME HealRead(h) PROVE handlers' \in [Handlers -> HandlerRecords]
    <2>1. \A p \in {"topics", "healClear"}, T \in SUBSET Topics :
            [handlers[h] EXCEPT !.pc = p, !.clear = T] \in HandlerRecords
      BY <1>2, HandlerUpdates DEF Steps
    <2>2. ToHeal(handlers[h].view.topics) \in SUBSET Topics
      BY DEF ToHeal
    <2> HIDE DEF TypeOK
    <2>3. handlers' = [handlers EXCEPT ![h] = [@ EXCEPT
             !.pc = IF ToHeal(handlers[h].view.topics) = {} THEN "topics" ELSE "healClear",
             !.clear = ToHeal(handlers[h].view.topics)]]
      BY <1>14 DEF HealRead
    <2>4. QED BY <2>1, <2>2, <2>3 DEF TypeOK
  <1>15. ASSUME ReadTopics(h) PROVE handlers' \in [Handlers -> HandlerRecords]
    <2>1. \A p \in {"project", "upsert"}, b \in BOOLEAN :
            [handlers[h] EXCEPT !.pc = p, !.complete = b, !.view = Idle.view] \in HandlerRecords
      BY <1>0, <1>2, HandlerUpdates, ZenonT(40) DEF Steps
    <2>2. PICK p \in {"project", "upsert"}, b \in BOOLEAN :
            handlers' = [handlers EXCEPT ![h].pc = p, ![h].complete = b, ![h].view = Idle.view]
      BY <1>15 DEF ReadTopics
    <2>3. QED BY <2>1, <2>2
  <1>16. ASSUME ReadProject(h) PROVE handlers' \in [Handlers -> HandlerRecords]
    BY <1>2, <1>16, ZenonT(40) DEF ReadProject, HandlerRecords, Steps
  <1>17. ASSUME ReopenHold(h) \/ UpsertProgress(h) \/ Sync(h) \/ Create(h)
         PROVE handlers' \in [Handlers -> HandlerRecords]
    BY <1>2, <1>17 DEF ReopenHold, UpsertProgress, Sync, Create, Goto, HandlerRecords, Steps
  <1>18. ASSUME Return(h) PROVE handlers' \in [Handlers -> HandlerRecords]
    BY <1>2, <1>18 DEF Return, HandlerRecords, Steps
  <1>19. ASSUME Finish(h) PROVE handlers' \in [Handlers -> HandlerRecords]
    BY <1>2, <1>19 DEF Finish
  <1>20. ASSUME Detail(h) PROVE handlers' \in [Handlers -> HandlerRecords]
    BY <1>1, <1>2, <1>20, ZenonT(40) DEF Detail, HandlerRecords, Steps
  <1>21. ASSUME Decide(h) PROVE handlers' \in [Handlers -> HandlerRecords]
    BY <1>2, <1>19, <1>21 DEF Decide, HandlerRecords, Steps
  <1>22. QED
    BY <1>5, <1>6, <1>7, <1>8, <1>9, <1>10, <1>11, <1>12, <1>13, <1>14, <1>15, <1>16, <1>17,
       <1>18, <1>19, <1>20, <1>21
       DEF Arrive, Continue, Fail, Adopt, Resume, Hold, ResubmitClaim, Claim

\* The rows and the counter of changes keep their shape.
LEMMA RowsKeepType ==
  ASSUME TypeOK, NEW h \in Handlers, Arrive(h) \/ Continue(h) \/ Fail(h)
  PROVE  /\ course' \in Courses
         /\ completed' \subseteq Topics
         /\ outdated' \subseteq completed'
         /\ projectApproved' \in BOOLEAN
         /\ progress' \in {"NONE", "OPEN", "COMPLETED"}
         /\ request' \in Statuses
         /\ certificate' \in [state : {"none", "live", "revoked"}, topics : SUBSET Topics]
         /\ changes' \in 0..MaxChanges
  <1> DEFINE Rows == /\ course' \in Courses
                     /\ completed' \subseteq Topics
                     /\ outdated' \subseteq completed'
                     /\ projectApproved' \in BOOLEAN
                     /\ progress' \in {"NONE", "OPEN", "COMPLETED"}
                     /\ request' \in Statuses
                     /\ certificate' \in [state : {"none", "live", "revoked"}, topics : SUBSET Topics]
                     /\ changes' \in 0..MaxChanges
  <1> USE DEF TypeOK, standing, records
  <1>1. ASSUME MayChange PROVE changes' \in 0..MaxChanges
    BY <1>1, ChangesAreBounded DEF MayChange
  <1>2. ASSUME NEW t \in Topics, FinishTopic(h, t) \/ AddQuiz(h, t) PROVE Rows
    BY <1>1, <1>2 DEF FinishTopic, AddQuiz
  <1>3. ASSUME ChangeCourse(h) \/ ReviewProject(h) \/ Fail(h) PROVE Rows
    BY <1>1, <1>3 DEF ChangeCourse, ReviewProject, Fail
  <1>4. ASSUME View(h) \/ ListMine(h) \/ Resubmit(h) \/ \E note \in BOOLEAN : Approve(h, note)
        PROVE Rows
    BY <1>4 DEF View, ListMine, Resubmit, Approve
  <1>5. ASSUME Reject(h) \/ Revoke(h) PROVE Rows
    BY <1>5 DEF Reject, Revoke, Statuses
  <1>6. ASSUME ReopenClear(h) \/ HealClear(h) PROVE Rows
    BY <1>6 DEF ReopenClear, HealClear, Clear
  <1>7. ASSUME ReadCourse(h) \/ HealRead(h) \/ ReadTopics(h) \/ ReadProject(h) \/ Sync(h)
               \/ Detail(h) \/ Decide(h)
        PROVE Rows
    BY <1>7 DEF ReadCourse, HealRead, ReadTopics, ReadProject, Sync, Detail, Decide
  <1>8. ASSUME ReopenHold(h) \/ UpsertProgress(h) \/ Adopt(h) \/ Create(h) \/ Resume(h) \/ Hold(h)
               \/ ResubmitClaim(h)
        PROVE Rows
    BY <1>8 DEF ReopenHold, UpsertProgress, Adopt, Create, Resume, Hold, ResubmitClaim, Insert,
                Shift, Statuses
  <1>9. ASSUME Claim(h) PROVE Rows
    <2>1. handlers[h].snapshot \in SUBSET Topics
      BY DEF HandlerRecords
    <2>2. QED BY <1>9, <2>1 DEF Claim, Statuses
  <1>10. QED
    BY <1>2, <1>3, <1>4, <1>5, <1>6, <1>7, <1>8, <1>9 DEF Arrive, Continue

LEMMA TypeStep == TypeOK /\ [Next]_vars => TypeOK'
  <1> SUFFICES ASSUME TypeOK, [Next]_vars PROVE TypeOK'
    OBVIOUS
  <1>1. CASE UNCHANGED vars
    BY <1>1 DEF vars, standing, records, TypeOK
  <1>2. ASSUME NEW h \in Handlers, Arrive(h) \/ Continue(h) \/ Fail(h) PROVE TypeOK'
    <2>1. handlers' \in [Handlers -> HandlerRecords]
      BY <1>2, HandlersKeepType
    <2>2. QED BY <1>2, <2>1, RowsKeepType DEF TypeOK
  <1>3. QED BY <1>1, <1>2 DEF Next

-----------------------------------------------------------------------------
(* What a step of handler h leaves alone.                                   *)

\* The slot i keeps what it holds; it may be excused.
Stays(i) ==
    \/ handlers'[i] = handlers[i]
    \/ Deciding(i) /\ handlers'[i] = [handlers[i] EXCEPT !.excused = TRUE]

LEMMA OthersStay ==
  ASSUME TypeOK, NEW h \in Handlers, Arrive(h) \/ Continue(h) \/ Fail(h),
         NEW i \in Handlers, i # h
  PROVE  Stays(i)
  <1> USE DEF TypeOK
  <1>1. \A H : Stays(i) \/ Excuse(H)[i] # handlers'[i]
    BY DEF Excuse, Stays
  <1>2. \A H : Excuse(H) \in [Handlers -> HandlerRecords]
    BY ExcuseKeepsType
  <1>3. ASSUME NEW t \in Topics, AddQuiz(h, t) PROVE Stays(i)
    BY <1>1, <1>2, <1>3 DEF AddQuiz
  <1>4. ASSUME ChangeCourse(h) \/ ReviewProject(h) \/ ReopenClear(h) \/ HealClear(h)
        PROVE Stays(i)
    BY <1>1, <1>2, <1>4 DEF ChangeCourse, ReviewProject, ReopenClear, HealClear
  <1>5. ASSUME NEW t \in Topics, FinishTopic(h, t) PROVE Stays(i)
    BY <1>5 DEF FinishTopic, Goto, Stays
  <1>6. ASSUME View(h) \/ ListMine(h) \/ Resubmit(h) \/ \E note \in BOOLEAN : Approve(h, note)
        PROVE Stays(i)
    BY <1>6 DEF View, ListMine, Resubmit, Approve, Stays
  <1>7. ASSUME Reject(h) \/ Revoke(h) PROVE Stays(i)
    BY <1>7 DEF Reject, Revoke, Stays
  <1>8. ASSUME ReadCourse(h) \/ HealRead(h) \/ ReadTopics(h) \/ ReadProject(h) \/ Detail(h)
               \/ Decide(h)
        PROVE Stays(i)
    BY <1>8 DEF ReadCourse, HealRead, ReadTopics, ReadProject, Detail, Decide, Finish, Stays
  <1>9. ASSUME NEW step, Goto(h, step) PROVE Stays(i)
    BY <1>9 DEF Goto, Stays
  <1>10. ASSUME Return(h) \/ Finish(h) PROVE Stays(i)
    BY <1>10 DEF Return, Finish, Stays
  <1>11. QED
    BY <1>3, <1>4, <1>5, <1>6, <1>7, <1>8, <1>9, <1>10
       DEF Arrive, Continue, Fail, ReopenHold, UpsertProgress, Sync, Create, Adopt, Resume, Hold,
           ResubmitClaim, Claim

\* Only syncCertificateRequest takes a handler to an insert, and only the check
\* of approve to its transaction.
LEMMA EntryPoints ==
  ASSUME TypeOK, NEW h \in Handlers, Arrive(h) \/ Continue(h) \/ Fail(h)
  PROVE  /\ handlers'[h].pc \in {"adopt", "create"} => Sync(h) \/ handlers'[h] = handlers[h]
         /\ handlers'[h].pc = "claim" => Decide(h) \/ handlers'[h] = handlers[h]
  <1> SUFFICES ASSUME handlers'[h].pc \in {"adopt", "create", "claim"}
               PROVE  \/ Sync(h) /\ handlers'[h].pc # "claim"
                      \/ Decide(h) /\ handlers'[h].pc = "claim"
                      \/ handlers'[h] = handlers[h]
    OBVIOUS
  <1> USE DEF TypeOK
  <1>1. \A H : Excuse(H) \in [Handlers -> HandlerRecords]
    BY ExcuseKeepsType
  <1>2. handlers[h] \in HandlerRecords /\ Idle.pc = "idle" /\ Evaluation.pc = "heal"
    BY DEF Idle, Evaluation
  <1> USE DEF HandlerRecords
  <1>3. ~ \E t \in Topics : FinishTopic(h, t)
    BY <1>2 DEF FinishTopic, Goto
  <1>4. ~ \E t \in Topics : AddQuiz(h, t)
    <2> SUFFICES ASSUME NEW t \in Topics, AddQuiz(h, t) PROVE FALSE
      OBVIOUS
    <2>1. handlers'[h] = [Idle EXCEPT !.pc = "reopen", !.clear = {t}]
      BY <1>1 DEF AddQuiz
    <2>2. handlers'[h].pc = "reopen"
      BY <2>1 DEF Idle
    <2>3. QED BY <2>2
  <1>5. ~(ChangeCourse(h) \/ ReviewProject(h))
    BY <1>1, <1>2 DEF ChangeCourse, ReviewProject, Reevaluation, Idle
  <1>6. ~(ReopenClear(h) \/ HealClear(h))
    BY <1>1, <1>2 DEF ReopenClear, HealClear
  <1>7. ~(View(h) \/ ListMine(h) \/ Resubmit(h) \/ \E note \in BOOLEAN : Approve(h, note))
    <2>1. Evaluation \in HandlerRecords
      BY IdleIsHandler, CoursesAreCurricula DEF Evaluation, Steps, Curricula
    <2>2. ASSUME View(h) PROVE FALSE
      BY <1>2, <2>2 DEF View
    <2>3. ASSUME ListMine(h) PROVE FALSE
      BY <1>2, <2>3 DEF ListMine
    <2>4. ASSUME Resubmit(h) PROVE FALSE
      BY <1>2, <2>1, <2>4 DEF Resubmit
    <2>5. ASSUME NEW note \in BOOLEAN, Approve(h, note) PROVE FALSE
      BY <1>2, <2>1, <2>5 DEF Approve
    <2>6. QED BY <2>2, <2>3, <2>4, <2>5
  <1>8. ~(ReadCourse(h) \/ HealRead(h) \/ ReadTopics(h) \/ ReadProject(h) \/ Detail(h))
    <2>1. ~(ReadCourse(h) \/ HealRead(h))
      BY <1>2 DEF ReadCourse, HealRead
    <2>2. ~(ReadTopics(h) \/ ReadProject(h))
      <3>1. ~ReadTopics(h)
        <4> SUFFICES ASSUME ReadTopics(h) PROVE FALSE
          OBVIOUS
        <4>1. PICK p \in {"project", "upsert"}, b \in BOOLEAN :
                handlers' = [handlers EXCEPT ![h].pc = p, ![h].complete = b, ![h].view = Idle.view]
          BY DEF ReadTopics
        <4>2. QED BY <1>2, <4>1
      <3>2. ~ReadProject(h)
        BY <1>2 DEF ReadProject
      <3>3. QED BY <3>1, <3>2
    <2>3. ~Detail(h)
      BY <1>2 DEF Detail
    <2>4. QED BY <2>1, <2>2, <2>3
  <1>9. ~(ReopenHold(h) \/ UpsertProgress(h) \/ Create(h))
    BY <1>2 DEF ReopenHold, UpsertProgress, Create, Goto
  <1>10. ~(Return(h) \/ Finish(h))
    BY <1>2 DEF Return, Finish
  <1>11. Reject(h) \/ Revoke(h) => handlers'[h] = handlers[h]
    BY DEF Reject, Revoke
  <1>12. /\ Sync(h) => handlers'[h].pc # "claim"
         /\ Decide(h) => handlers'[h].pc = "claim"
    BY <1>2, <1>10 DEF Sync, Goto, Decide
  <1>13. QED
    BY <1>3, <1>4, <1>5, <1>6, <1>7, <1>8, <1>9, <1>10, <1>11, <1>12
       DEF Arrive, Continue, Fail, Adopt, Resume, Hold, ResubmitClaim, Claim

-----------------------------------------------------------------------------
(* A request and its certificate agree, and every step is in the table.     *)

LEMMA InitTable == Init => TableInv /\ Table!Init
  <1> SUFFICES ASSUME Init PROVE TableInv /\ Table!Init
    OBVIOUS
  <1>1. InsertsAreDue
    BY DEF Init, InsertsAreDue, At, Idle
  <1>2. CertificateMatchesRequest /\ Table!Init
    BY DEF Init, CertificateMatchesRequest, Table!Init, NoCertificate, OldCertificate
  <1>3. QED BY <1>1, <1>2, InitType DEF TableInv

\* Whatever happens, request and certificate stay or make a move of the table.
LEMMA MovesAreInTheTable ==
  ASSUME TableInv, NEW h \in Handlers, Arrive(h) \/ Continue(h) \/ Fail(h)
  PROVE  UNCHANGED <<request, certificate.state>> \/ Table!Next
  <1> USE DEF TableInv, TypeOK, At
  <1> DEFINE Moved == UNCHANGED <<request, certificate.state>> \/ Table!Next
  <1>2. /\ request = "APPROVED" => certificate.state = "live"
        /\ request = "REVOKED" => certificate.state = "revoked"
        /\ request \in {"PENDING", "ON_HOLD", "REJECTED"} => certificate.state = "none"
    BY DEF CertificateMatchesRequest
  <1> USE DEF Table!Next, Table!Move
  <1>3. ASSUME Reject(h) PROVE Moved
    BY <1>3 DEF Reject, Table!Reject
  <1>4. ASSUME Revoke(h) PROVE Moved
    BY <1>2, <1>4 DEF Revoke, Table!Revoke
  <1>5. ASSUME ReopenHold(h) \/ Hold(h) PROVE Moved
    BY <1>5 DEF ReopenHold, Hold, Shift, Table!Hold
  <1>6. ASSUME Resume(h) PROVE Moved
    BY <1>6 DEF Resume, Shift, Table!Resume
  <1>7. ASSUME ResubmitClaim(h) PROVE Moved
    BY <1>7 DEF ResubmitClaim, Shift, Table!Resubmit
  <1>8. ASSUME Adopt(h) PROVE Moved
    BY <1>8 DEF Adopt, Insert, InsertsAreDue, Table!Adopt
  <1>9. ASSUME Create(h) PROVE Moved
    BY <1>9 DEF Create, Insert, InsertsAreDue, Table!Ask
  <1>10. ASSUME Claim(h) PROVE Moved
    BY <1>2, <1>10 DEF Claim, Claimable, Decidable, Table!Approve, Table!Restore
  <1>11. ASSUME UNCHANGED records PROVE Moved
    BY <1>11 DEF records
  <1>12. QED
    BY <1>3, <1>4, <1>5, <1>6, <1>7, <1>8, <1>9, <1>10, <1>11
       DEF Arrive, Continue, Fail, FinishTopic, AddQuiz, ChangeCourse, ReviewProject, View,
           ListMine, Resubmit, Approve, ReopenClear, HealClear, Clear, ReadCourse, HealRead,
           ReadTopics, ReadProject, UpsertProgress, Sync, Detail, Decide, records

LEMMA TableStep == TableInv /\ [Next]_vars => TableInv' /\ [Table!Next]_Table!vars
  <1> SUFFICES ASSUME TableInv, [Next]_vars PROVE TableInv' /\ [Table!Next]_Table!vars
    OBVIOUS
  <1>1. CASE UNCHANGED vars
    BY <1>1, TypeStep
       DEF vars, standing, records, TableInv, TypeOK, CertificateMatchesRequest, InsertsAreDue, At,
           Table!vars
  <1>2. ASSUME NEW h \in Handlers, Arrive(h) \/ Continue(h) \/ Fail(h)
        PROVE  TableInv' /\ [Table!Next]_Table!vars
    <2>1. TypeOK'
      BY <1>2, TypeStep DEF Next, TableInv
    <2>2. UNCHANGED <<request, certificate.state>> \/ Table!Next
      BY <1>2, MovesAreInTheTable
    <2>3. CertificateMatchesRequest'
      BY <2>1, <2>2
         DEF TableInv, TypeOK, CertificateMatchesRequest, Statuses, Table!Next, Table!Move, Table!Ask,
             Table!Adopt, Table!Hold, Table!Resume, Table!Reject, Table!Resubmit, Table!Approve,
             Table!Revoke, Table!Restore
    <2>4. ASSUME request' = "NONE"
          PROVE  request = "NONE" /\ UNCHANGED certificate.state
      BY <2>2, <2>4
         DEF Table!Next, Table!Move, Table!Ask, Table!Adopt, Table!Hold, Table!Resume,
             Table!Reject, Table!Resubmit, Table!Approve, Table!Revoke, Table!Restore
    <2>5. ASSUME NEW i \in Handlers, request' = "NONE"
          PROVE  /\ handlers'[i].pc = "adopt" => certificate'.state = "live"
                 /\ handlers'[i].pc = "create" => certificate'.state = "none"
      <3>1. CASE handlers'[i].pc = handlers[i].pc
        BY <2>4, <2>5, <3>1 DEF TableInv, InsertsAreDue, At
      <3>2. CASE Sync(i)
        BY <2>1, <2>4, <2>5, <3>2 DEF Sync, Goto, TableInv, TypeOK, CertificateMatchesRequest,
                                      HandlerRecords
      <3>3. CASE i # h
        <4>1. Stays(i)
          BY <1>2, <3>3, OthersStay DEF TableInv
        <4>2. handlers[i] \in HandlerRecords
          BY DEF TableInv, TypeOK
        <4>3. QED BY <3>1, <4>1, <4>2 DEF Stays, HandlerRecords
      <3>4. CASE i = h /\ handlers'[h].pc \in {"adopt", "create"}
        BY <1>2, <3>1, <3>2, <3>4, EntryPoints DEF TableInv
      <3>5. QED BY <3>3, <3>4
    <2>6. InsertsAreDue'
      BY <2>5 DEF InsertsAreDue, At
    <2>7. QED BY <2>1, <2>2, <2>3, <2>6 DEF TableInv, Table!vars
  <1>3. QED BY <1>1, <1>2 DEF Next

\* The certificate is valid exactly while the request is approved, and request
\* and certificate move only as the table of CERTIFICATE_APPROVAL.md allows,
\* whatever evaluations, decisions and failures overlap.
THEOREM RequestsAreSafe == Spec => [](TypeOK /\ CertificateMatchesRequest)
  <1>1. Spec => []TableInv
    <2>1. Init => TableInv
      BY InitTable
    <2>2. TableInv /\ [Next]_vars => TableInv'
      BY TableStep
    <2>3. QED BY <2>1, <2>2, PTL DEF Spec
  <1>2. TableInv => TypeOK /\ CertificateMatchesRequest
    BY DEF TableInv
  <1>3. QED BY <1>1, <1>2, PTL

\* In particular only a completed topic is outdated, and a certificate names topics
\* that exist.
THEOREM RequestsAreTyped == Spec => []TypeOK
  BY RequestsAreSafe, PTL

\* Request and certificate together move only along the rows of the state table,
\* which is the abstract specification CertificateLifecycle.
THEOREM RequestsFollowTheTable == Spec => FollowsTheTable
  <1>1. Init => TableInv /\ Table!Init
    BY InitTable
  <1>2. TableInv /\ [Next]_vars => TableInv' /\ [Table!Next]_Table!vars
    BY TableStep
  <1>3. QED BY <1>1, <1>2, PTL DEF Spec, FollowsTheTable, Table!Spec

-----------------------------------------------------------------------------
(* Slots                                                                    *)

\* Where a decision comes from.
LEMMA DecisionsBegin ==
  ASSUME TypeOK, SlotsAreClean, NEW h \in Handlers, Arrive(h) \/ Continue(h) \/ Fail(h)
  PROVE  /\ Clean(h)'
         /\ Deciding(h)' => Deciding(h) \/ \E note \in BOOLEAN : Approve(h, note)
  <1> DEFINE Goal == /\ Clean(h)'
                     /\ Deciding(h)' => Deciding(h) \/ \E note \in BOOLEAN : Approve(h, note)
  <1> USE DEF TypeOK
  <1>1. /\ handlers[h] \in HandlerRecords
        /\ Clean(h)
        /\ At(h, "idle") => handlers[h] = Idle
        /\ \A H : Excuse(H) \in [Handlers -> HandlerRecords]
        /\ \A H : ~Deciding(h) => Excuse(H)[h] = handlers[h]
        /\ \A H : h \notin H => Excuse(H)[h] = handlers[h]
    BY ExcuseKeepsType DEF SlotsAreClean, Clean, Excuse
  <1>2. /\ Idle \in HandlerRecords /\ Idle.pc = "idle" /\ Idle.then = "idle"
        /\ Evaluation \in HandlerRecords /\ Evaluation.pc = "heal" /\ Evaluation.then = "idle"
    <2>1. Idle \in HandlerRecords /\ Idle.pc = "idle" /\ Idle.then = "idle"
      BY IdleIsHandler DEF Idle
    <2>2. QED
      BY <2>1, CoursesAreCurricula DEF Evaluation, HandlerRecords, Steps
  <1>3. ASSUME handlers'[h] = Idle PROVE Goal
    BY <1>2, <1>3 DEF Clean, At, Deciding
  <1> USE DEF HandlerRecords
  <1>4. ASSUME NEW t \in Topics, FinishTopic(h, t) PROVE Goal
    BY <1>1, <1>2, <1>4 DEF FinishTopic, Begin, Goto, Clean, At, Deciding
  <1>5. ASSUME NEW t \in Topics, AddQuiz(h, t) PROVE Goal
    <2>1. handlers'[h] = [Idle EXCEPT !.pc = "reopen", !.clear = {t}]
      BY <1>1, <1>5 DEF AddQuiz
    <2>2. handlers'[h].pc = "reopen" /\ handlers'[h].then = "idle"
      BY <1>2, <2>1
    <2>3. QED BY <2>2 DEF Clean, At, Deciding
  <1>6. ASSUME ChangeCourse(h) PROVE Goal
    <2>1. handlers'[h] = Reevaluation
      BY <1>1, <1>6 DEF ChangeCourse
    <2>2. CASE progress = "NONE"
      <3>1. handlers'[h] = Idle
        BY <2>1, <2>2 DEF Reevaluation, Idle
      <3>2. QED BY <1>3, <3>1
    <2>3. CASE progress # "NONE"
      <3>1. handlers'[h].pc = "course" /\ handlers'[h].then = "idle"
        BY <1>2, <2>1, <2>3 DEF Reevaluation
      <3>2. QED BY <3>1 DEF Clean, At, Deciding
    <2>4. QED BY <2>2, <2>3
  <1>7. ASSUME ReviewProject(h) PROVE Goal
    <2> DEFINE H == IF projectApproved THEN Handlers ELSE {}
    <2>1. handlers[h] = Idle /\ ~Deciding(h)
      BY <1>1, <1>2, <1>7 DEF ReviewProject, Begin, At, Deciding
    <2>2. handlers' = [Excuse(H) EXCEPT ![h].pc = "course"]
      BY <1>7 DEF ReviewProject
    <2> HIDE DEF H
    <2>3. handlers'[h] = [Idle EXCEPT !.pc = "course"]
      BY <1>1, <2>1, <2>2
    <2>4. handlers'[h].pc = "course" /\ handlers'[h].then = "idle"
      BY <1>2, <2>3
    <2>5. QED BY <2>4 DEF Clean, At, Deciding
  <1>8. ASSUME View(h) PROVE Goal
    BY <1>2, <1>8 DEF View, Clean, At, Deciding
  <1>9. ASSUME ListMine(h) PROVE Goal
    BY <1>1, <1>2, <1>9 DEF ListMine, Begin, Clean, At, Deciding
  <1>10. ASSUME Resubmit(h) PROVE Goal
    <2>1. handlers'[h] = [Evaluation EXCEPT !.then = "resubmit"]
      BY <1>10 DEF Resubmit
    <2>2. handlers'[h].pc = "heal" /\ handlers'[h].then = "resubmit"
      BY <1>2, <2>1
    <2>3. QED BY <2>2 DEF Clean, At, Deciding
  <1>11. ASSUME NEW note \in BOOLEAN, Approve(h, note) PROVE Goal
    <2>1. handlers'[h] = [Evaluation EXCEPT !.then = "detail", !.note = note]
      BY <1>11 DEF Approve
    <2>2. handlers'[h].pc = "heal"
      BY <1>2, <2>1
    <2>3. QED BY <1>11, <2>2 DEF Clean, At
  <1>12. ASSUME Reject(h) \/ Revoke(h) PROVE Goal
    BY <1>1, <1>12 DEF Reject, Revoke, Clean, At, Deciding
  <1>13. ASSUME ReopenClear(h) PROVE Goal
    BY <1>3, <1>13 DEF ReopenClear, ExcuseKeepsType, Excuse
  <1>14. ASSUME HealClear(h) PROVE Goal
    <2>1. handlers'[h] = [handlers[h] EXCEPT !.pc = "topics", !.clear = {}]
      BY <1>1, <1>14 DEF HealClear
    <2>2. handlers'[h].pc = "topics" /\ handlers'[h].then = handlers[h].then
      BY <1>1, <2>1
    <2>3. QED BY <2>2 DEF Clean, At, Deciding
  <1>15. ASSUME ReadCourse(h) \/ HealRead(h) \/ ReadProject(h) PROVE Goal
    BY <1>1, <1>15 DEF ReadCourse, HealRead, ReadProject, Clean, At, Deciding
  <1>16. ASSUME ReadTopics(h) PROVE Goal
    <2>1. PICK p \in {"project", "upsert"}, b \in BOOLEAN :
            handlers' = [handlers EXCEPT ![h].pc = p, ![h].complete = b, ![h].view = Idle.view]
      BY <1>16 DEF ReadTopics
    <2>2. handlers'[h].pc = p /\ handlers'[h].then = handlers[h].then
      BY <1>1, <2>1
    <2>3. QED BY <2>2 DEF Clean, At, Deciding
  <1>17. ASSUME ReopenHold(h) \/ UpsertProgress(h) \/ Sync(h) \/ Create(h) PROVE Goal
    BY <1>1, <1>17 DEF ReopenHold, UpsertProgress, Sync, Create, Goto, Clean, At, Deciding
  <1>18. ASSUME Return(h) PROVE Goal
    <2>1. CASE handlers'[h] = Idle
      BY <1>3, <2>1
    <2>2. CASE handlers'[h] # Idle
      <3>1. /\ handlers[h].then \in {"resubmit", "detail"}
            /\ handlers'[h] = [handlers[h] EXCEPT !.pc = handlers[h].then]
        BY <1>1, <1>18, <2>2 DEF Return
      <3>2. handlers'[h].pc = handlers[h].then /\ handlers'[h].then = handlers[h].then
        BY <1>1, <3>1
      <3>3. QED BY <3>1, <3>2 DEF Clean, At, Deciding
    <2>3. QED BY <2>1, <2>2
  <1>19. ASSUME Finish(h) PROVE Goal
    BY <1>3, <1>19 DEF Finish
  <1>20. ASSUME Detail(h) \/ Decide(h) PROVE Goal
    <2>1. CASE Finish(h)
      BY <1>19, <2>1
    <2>2. CASE ~Finish(h)
      BY <1>1, <1>20, <2>2 DEF Detail, Decide, Clean, At, Deciding
    <2>3. QED BY <2>1, <2>2
  <1>21. QED
    BY <1>4, <1>5, <1>6, <1>7, <1>8, <1>9, <1>10, <1>11, <1>12, <1>13, <1>14, <1>15, <1>16,
       <1>17, <1>18, <1>19, <1>20
       DEF Arrive, Continue, Fail, Adopt, Resume, Hold, ResubmitClaim, Claim

LEMMA CleanStep ==
  ASSUME TypeOK, SlotsAreClean, [Next]_vars
  PROVE  SlotsAreClean'
  <1>1. CASE UNCHANGED vars
    BY <1>1 DEF vars, SlotsAreClean, Clean, At, Deciding
  <1>2. ASSUME NEW h \in Handlers, Arrive(h) \/ Continue(h) \/ Fail(h), NEW i \in Handlers
        PROVE  Clean(i)'
    <2>1. CASE i = h
      BY <1>2, <2>1, DecisionsBegin
    <2>2. CASE i # h
      <3>1. Stays(i) /\ Clean(i) /\ handlers[i] \in HandlerRecords
        BY <1>2, <2>2, OthersStay DEF SlotsAreClean, TypeOK
      <3>2. handlers'[i].pc = handlers[i].pc /\ handlers'[i].then = handlers[i].then
        BY <3>1 DEF Stays, HandlerRecords
      <3>3. handlers[i].pc = "idle" => ~Deciding(i)
        BY <3>1 DEF Clean, At, Deciding, Idle
      <3>4. QED BY <3>1, <3>2, <3>3 DEF Stays, Clean, At, Deciding
    <2>3. QED BY <2>1, <2>2
  <1>3. QED BY <1>1, <1>2 DEF Next, SlotsAreClean

LEMMA InitSlots == Init => \A h \in Handlers : handlers[h] = Idle
  BY DEF Init

\* The slot i is still at a step it was at, with what it decided there.
LEMMA OthersKeep ==
  ASSUME TypeOK, NEW h \in Handlers, Arrive(h) \/ Continue(h) \/ Fail(h),
         NEW i \in Handlers, i # h
  PROVE  /\ handlers'[i].pc = handlers[i].pc
         /\ handlers'[i].then = handlers[i].then
         /\ handlers'[i].note = handlers[i].note
         /\ handlers'[i].complete = handlers[i].complete
         /\ handlers'[i].reinstating = handlers[i].reinstating
  <1>1. Stays(i) /\ handlers[i] \in HandlerRecords
    BY OthersStay DEF TypeOK
  <1>2. QED BY <1>1 DEF Stays, HandlerRecords

-----------------------------------------------------------------------------
(* Decisions that do not overlap                                            *)

\* Only revoke makes a request REVOKED.
LEMMA RevokedByRevoke ==
  ASSUME TableInv, NEW h \in Handlers, Arrive(h) \/ Continue(h) \/ Fail(h),
         request' = "REVOKED"
  PROVE  request = "REVOKED" \/ Revoke(h)
  <1>1. UNCHANGED request \/ Revoke(h)
          \/ request' \in {"PENDING", "ON_HOLD", "APPROVED", "REJECTED"}
    BY DEF Arrive, Continue, Fail, FinishTopic, AddQuiz, ChangeCourse, ReviewProject, View,
           ListMine, Resubmit, Approve, Reject, ReopenHold, ReopenClear, HealClear, Clear,
           ReadCourse, HealRead, ReadTopics, ReadProject, UpsertProgress, Sync, Adopt, Create,
           Resume, Hold, ResubmitClaim, Insert, Shift, Detail, Decide, Claim, records
  <1>2. QED BY <1>1

LEMMA OneDecisionStep ==
  ASSUME Admins = "one", TypeOK, SlotsAreClean, OneDecision,
         NEW h \in Handlers, Arrive(h) \/ Continue(h) \/ Fail(h)
  PROVE  OneDecision'
  <1> SUFFICES ASSUME NEW i \in Handlers, NEW j \in Handlers, Deciding(i)', Deciding(j)', i # j
               PROVE  FALSE
    BY DEF OneDecision
  <1>1. \A k \in Handlers \ {h} : Deciding(k)' => Deciding(k)
    BY OthersKeep DEF Deciding
  <1>2. PICK k \in Handlers \ {h} : Deciding(k)
    BY <1>1
  <1>3. Deciding(h)'
    BY <1>1 DEF OneDecision
  <1>4. ~Deciding(h)
    BY <1>2 DEF OneDecision
  <1>5. MayDecide
    BY <1>3, <1>4, DecisionsBegin DEF Approve
  <1>6. QED BY <1>2, <1>5 DEF MayDecide

LEMMA ReasonStep ==
  ASSUME Admins = "one", ReasonInv, [Next]_vars
  PROVE  ReasonInv'
  <1>1. TableInv' /\ SlotsAreClean'
    BY TableStep, CleanStep DEF ReasonInv, TableInv
  <1>2. CASE UNCHANGED vars
    BY <1>1, <1>2 DEF vars, records, ReasonInv, OneDecision, ClaimsKeepTheirStatus, At, Deciding
  <1>3. ASSUME NEW h \in Handlers, Arrive(h) \/ Continue(h) \/ Fail(h)
        PROVE  ReasonInv'
    <2>1. OneDecision'
      BY <1>3, OneDecisionStep DEF ReasonInv, TableInv
    <2>2. ASSUME NEW i \in Handlers, handlers'[i].pc = "claim"
          PROVE  /\ request' = "REVOKED" => handlers'[i].reinstating
                 /\ handlers'[i].reinstating => handlers'[i].note
      <3>1. ASSUME handlers[i].pc = "claim", UNCHANGED <<handlers[i].reinstating, handlers[i].note>>
            PROVE  /\ request' = "REVOKED" => handlers'[i].reinstating
                   /\ handlers'[i].reinstating => handlers'[i].note
        <4>1. Deciding(i)
          BY <3>1 DEF ReasonInv, SlotsAreClean, Clean
        <4>2. ~Revoke(h)
          BY <1>3, <4>1 DEF Revoke, MayDecide
        <4>3. request' = "REVOKED" => request = "REVOKED"
          BY <1>3, <4>2, RevokedByRevoke DEF ReasonInv
        <4>4. QED BY <3>1, <4>3 DEF ReasonInv, ClaimsKeepTheirStatus, At
      <3>2. CASE i # h
        BY <1>3, <2>2, <3>1, <3>2, OthersKeep DEF ReasonInv, TableInv
      <3>3. CASE i = h /\ ~Decide(h)
        <4>1. handlers'[h] = handlers[h]
          BY <1>3, <2>2, <3>3, EntryPoints DEF ReasonInv, TableInv
        <4>2. QED BY <2>2, <3>1, <3>3, <4>1
      <3>4. CASE i = h /\ Decide(h)
        <4>1. handlers[h] \in HandlerRecords /\ handlers \in [Handlers -> HandlerRecords]
          BY <1>3 DEF ReasonInv, TableInv, TypeOK
        <4>2. ~Finish(h)
          BY <2>2, <3>4, <4>1 DEF Finish, Idle
        <4>3. /\ MayApprove(h) /\ UNCHANGED request
              /\ handlers' = [handlers EXCEPT ![h].pc = "claim",
                                              ![h].reinstating = (request = "REVOKED")]
          BY <3>4, <4>2 DEF Decide, records
        <4>4. /\ handlers'[h].reinstating = (request = "REVOKED")
              /\ handlers'[h].note = handlers[h].note
          BY <4>1, <4>3 DEF HandlerRecords
        <4>5. QED BY <3>4, <4>3, <4>4 DEF MayApprove
      <3>5. QED BY <3>2, <3>3, <3>4
    <2>3. ClaimsKeepTheirStatus'
      BY <2>2 DEF ClaimsKeepTheirStatus, At
    <2>4. QED BY <1>1, <2>1, <2>3 DEF ReasonInv
  <1>4. QED BY <1>2, <1>3 DEF Next

\* What makes a revoked certificate valid again.
LEMMA RestoredByClaim ==
  ASSUME TableInv, NEW h \in Handlers, Arrive(h) \/ Continue(h) \/ Fail(h),
         certificate.state = "revoked", certificate'.state = "live"
  PROVE  At(h, "claim") /\ Claim(h) /\ Claimable(h)
  <1>1. Claim(h) /\ certificate' # certificate
    <2>1. ~Revoke(h)
      BY DEF Revoke, TableInv, CertificateMatchesRequest
    <2>2. Claim(h) \/ Revoke(h) \/ UNCHANGED certificate
      BY DEF Arrive, Continue, Fail, FinishTopic, AddQuiz, ChangeCourse, ReviewProject, View,
             ListMine, Resubmit, Approve, Reject, ReopenHold, ReopenClear, HealClear, Clear,
             ReadCourse, HealRead, ReadTopics, ReadProject, UpsertProgress, Sync, Adopt, Create,
             Resume, Hold, ResubmitClaim, Detail, Decide, records
    <2>3. QED BY <2>1, <2>2
  <1>2. QED BY <1>1 DEF Claim

\* With decisions that do not overlap, a revoked certificate comes back only by
\* a decision with a written reason, and lists the topics it listed before.
THEOREM ReinstatementsAreReasoned ==
  ASSUME Admins = "one"
  PROVE  Spec => ReinstatementIsReasoned
  <1>1. Init => ReasonInv
    <2> SUFFICES ASSUME Init PROVE ReasonInv
      OBVIOUS
    <2>1. \A h \in Handlers : handlers[h].pc = "idle" /\ handlers[h].then = "idle"
      BY InitSlots DEF Idle
    <2>2. SlotsAreClean /\ OneDecision /\ ClaimsKeepTheirStatus
      BY <2>1, InitSlots
         DEF SlotsAreClean, Clean, OneDecision, ClaimsKeepTheirStatus, At, Deciding
    <2>3. QED BY <2>2, InitTable DEF ReasonInv
  <1>2. ReasonInv /\ [Next]_vars => ReasonInv'
    BY ReasonStep
  <1> DEFINE Reasoned ==
        certificate.state = "revoked" /\ certificate'.state = "live" =>
          /\ certificate'.topics = certificate.topics
          /\ \E h \in Handlers : At(h, "claim") /\ handlers'[h] = Idle /\ handlers[h].note
  <1>3. ReasonInv /\ [Next]_vars => [Reasoned]_vars
    <2> SUFFICES ASSUME ReasonInv, NEW h \in Handlers, Arrive(h) \/ Continue(h) \/ Fail(h),
                        certificate.state = "revoked", certificate'.state = "live"
                 PROVE  Reasoned
      BY DEF Next
    <2>1. At(h, "claim") /\ Claim(h) /\ Claimable(h)
      BY RestoredByClaim DEF ReasonInv
    <2>2. request = "REVOKED"
      BY DEF ReasonInv, TableInv, CertificateMatchesRequest
    <2>3. handlers[h].reinstating /\ handlers[h].note
      BY <2>1, <2>2 DEF ReasonInv, ClaimsKeepTheirStatus
    <2>4. handlers'[h] = Idle
      BY <2>1 DEF Claim, Finish, ReasonInv, TableInv, TypeOK
    <2>5. certificate'.topics = certificate.topics
      BY <2>1, <2>3 DEF Claim
    <2>6. QED BY <2>1, <2>3, <2>4, <2>5
  <1>4. QED BY <1>1, <1>2, <1>3, PTL DEF Spec, ReinstatementIsReasoned

-----------------------------------------------------------------------------
(* What a decision knows of the learner                                     *)

\* Another handler changes the standing behind a decision only in a way the
\* decision is excused for, or that its recount notices.
LEMMA OthersKnow ==
  ASSUME EarnedInv, NEW h \in Handlers, Arrive(h) \/ Continue(h) \/ Fail(h),
         NEW i \in Handlers, i # h, Deciding(i)', ~handlers'[i].excused
  PROVE  Knows(i)'
  <1> USE DEF EarnedInv, TableInv, TypeOK
  <1>1. handlers[i] \in HandlerRecords /\ Stays(i)
    BY OthersStay
  <1>2. handlers'[i] = handlers[i] /\ Deciding(i) /\ ~handlers[i].excused
    BY <1>1 DEF Stays, HandlerRecords, Deciding
  <1>3. Knows(i)
    BY <1>2 DEF DecisionsKnow
  <1>4. \A H : Excuse(H) \in [Handlers -> HandlerRecords] /\ (i \in H => Excuse(H)[i].excused)
    <2>1. \A H : Excuse(H) \in [Handlers -> HandlerRecords]
      BY ExcuseKeepsType
    <2>2. [handlers[i] EXCEPT !.excused = TRUE].excused
      BY <1>1 DEF HandlerRecords
    <2>3. QED BY <1>2, <2>1, <2>2 DEF Excuse
  <1>5. ASSUME UNCHANGED standing PROVE Knows(i)'
    BY <1>2, <1>3, <1>5 DEF Knows, Complete, standing
  <1>6. ASSUME NEW t \in Topics, FinishTopic(h, t) PROVE Knows(i)'
    <2>1. course.topics \subseteq completed \ outdated
             => course'.topics \subseteq completed' \ outdated'
      BY <1>6 DEF FinishTopic
    <2>2. Complete => Complete'
      BY <1>6, <2>1 DEF FinishTopic, Complete
    <2>3. UNCHANGED <<course, outdated>>
      BY <1>6 DEF FinishTopic
    <2>4. QED BY <1>2, <1>3, <2>1, <2>2, <2>3 DEF Knows
  <1>7. ASSUME NEW t \in Topics, AddQuiz(h, t) PROVE Knows(i)'
    <2>1. CASE t \in completed
      BY <1>2, <1>4, <1>7, <2>1 DEF AddQuiz
    <2>2. CASE t \notin completed
      BY <1>5, <1>7, <2>2 DEF AddQuiz, standing
    <2>3. QED BY <2>1, <2>2
  <1>8. ASSUME ChangeCourse(h) PROVE Knows(i)'
    <2>1. PICK c \in Courses \ {course} :
            /\ \/ handlers' = [Excuse(Unseen(c.topics)) EXCEPT ![h] = Reevaluation]
               \/ handlers' = [Excuse(Handlers) EXCEPT ![h] = Reevaluation]
            /\ course' = c
      BY <1>8 DEF ChangeCourse
    <2>2. i \notin Unseen(c.topics)
      BY <1>2, <1>4, <2>1
    <2>3. /\ handlers[i].pc \in {"decide", "claim"}
          /\ Cardinality(course'.topics) # Cardinality(handlers[i].snapshot)
      BY <2>1, <2>2 DEF Unseen
    <2>4. QED BY <1>2, <2>3 DEF Knows
  <1>9. ASSUME ReviewProject(h) PROVE Knows(i)'
    <2>1. CASE projectApproved
      BY <1>2, <1>4, <1>9, <2>1 DEF ReviewProject
    <2>2. CASE ~projectApproved
      <3>1. /\ UNCHANGED <<course, completed, outdated>>
            /\ Complete => Complete'
        BY <1>9, <2>2 DEF ReviewProject, Complete
      <3>2. QED BY <1>2, <1>3, <3>1 DEF Knows
    <2>3. QED BY <2>1, <2>2
  <1>10. ~(ReopenClear(h) \/ HealClear(h))
    BY <1>2, <1>4 DEF ReopenClear, HealClear
  <1>11. QED
    BY <1>5, <1>6, <1>7, <1>8, <1>9, <1>10
       DEF Arrive, Continue, Fail, View, ListMine, Resubmit, Approve, Reject, Revoke, ReopenHold,
           ReadCourse, HealRead, ReadTopics, ReadProject, UpsertProgress, Sync, Adopt, Create,
           Resume, Hold, ResubmitClaim, Detail, Decide, Claim, standing

\* A decision learns, statement by statement, what it will decide on.
LEMMA OwnKnows ==
  ASSUME EarnedInv, NEW h \in Handlers, Arrive(h) \/ Continue(h) \/ Fail(h),
         Deciding(h)', ~handlers'[h].excused
  PROVE  Knows(h)'
  <1> USE DEF EarnedInv, TableInv, TypeOK
  <1>1. handlers[h] \in HandlerRecords /\ handlers \in [Handlers -> HandlerRecords]
    OBVIOUS
  <1>2. /\ Idle.pc = "idle" /\ Idle.then = "idle"
        /\ Evaluation.pc = "heal" /\ Evaluation.view = course
        /\ Evaluation \in HandlerRecords
    BY IdleIsHandler, CoursesAreCurricula DEF Idle, Evaluation, Steps, HandlerRecords
  <1>3. ASSUME NEW note \in BOOLEAN, Approve(h, note) PROVE Knows(h)'
    <2>1. handlers'[h] = [Evaluation EXCEPT !.then = "detail", !.note = note]
      BY <1>3 DEF Approve
    <2>2. handlers'[h].pc = "heal" /\ handlers'[h].view = course
      BY <1>2, <2>1 DEF HandlerRecords
    <2>3. QED BY <1>3, <2>2 DEF Approve, Knows, standing
  <1> SUFFICES ASSUME ~ \E note \in BOOLEAN : Approve(h, note) PROVE Knows(h)'
    BY <1>3
  <1>4. Deciding(h)
    BY DecisionsBegin
  <1>5. /\ ~At(h, "idle")
        /\ ~At(h, "course") /\ ~At(h, "reopen") /\ ~At(h, "reopenClear") /\ ~At(h, "resubmit")
    BY <1>2, <1>4 DEF SlotsAreClean, Clean, At, Deciding
  <1>6. ~(Finish(h) \/ handlers'[h] = Idle)
    BY <1>1, <1>2 DEF Finish, Deciding
  <1> USE DEF HandlerRecords
  <1>7. handlers'[h].excused = handlers[h].excused \/ HealClear(h)
    <2>1. CASE HealRead(h) \/ ReadTopics(h) \/ ReadProject(h) \/ UpsertProgress(h) \/ Sync(h)
                 \/ Create(h) \/ Detail(h) \/ Decide(h)
      <3>1. CASE ReadTopics(h)
        <4>1. PICK p \in {"project", "upsert"}, b \in BOOLEAN :
                handlers' = [handlers EXCEPT ![h].pc = p, ![h].complete = b, ![h].view = Idle.view]
          BY <3>1 DEF ReadTopics
        <4>2. QED BY <1>1, <4>1
      <3>2. QED
        BY <1>1, <1>6, <2>1, <3>1
           DEF HealRead, ReadProject, UpsertProgress, Sync, Create, Detail, Decide, Goto
    <2>2. ASSUME Return(h) PROVE handlers'[h].excused = handlers[h].excused
      BY <1>1, <1>6, <2>2 DEF Return
    <2>3. QED
      BY <1>5, <1>6, <2>1, <2>2
         DEF Arrive, Continue, Fail, FinishTopic, AddQuiz, ChangeCourse, ReviewProject, View,
             ListMine, Resubmit, Reject, Revoke, Begin, At, ReadCourse, ReopenHold, ReopenClear,
             ResubmitClaim, Adopt, Resume, Hold, Claim
  <1>8. CASE HealClear(h)
    <2> DEFINE E == Excuse(Handlers \ {h})
    <2>1. E \in [Handlers -> HandlerRecords] /\ E[h] = handlers[h]
      BY ExcuseKeepsType DEF Excuse
    <2>2. handlers' = [E EXCEPT ![h].pc = "topics", ![h].clear = {}]
      BY <1>8 DEF HealClear
    <2> HIDE DEF E
    <2>3. handlers'[h] = [handlers[h] EXCEPT !.pc = "topics", !.clear = {}]
      BY <2>1, <2>2
    <2>4. /\ handlers'[h].pc = "topics" /\ handlers'[h].view = handlers[h].view
          /\ ~handlers[h].excused
      BY <1>1, <2>3
    <2>5. Knows(h)
      BY <1>4, <2>4 DEF DecisionsKnow
    <2>6. course'.topics \cap outdated' = {} /\ handlers'[h].view = course'
      BY <1>8, <2>4, <2>5 DEF HealClear, Clear, Knows, At
    <2>7. QED BY <2>4, <2>6 DEF Knows
  <1> SUFFICES ASSUME ~HealClear(h) PROVE Knows(h)'
    BY <1>8
  <1>9. Knows(h)
    BY <1>4, <1>7 DEF DecisionsKnow
  <1>10. CASE HealRead(h)
    <2>1. UNCHANGED <<course, completed, outdated, projectApproved>>
      BY <1>10 DEF HealRead, standing
    <2>2. handlers[h].pc = "heal" /\ handlers[h].view = course
      BY <1>9, <1>10 DEF HealRead, Knows, At
    <2>3. /\ handlers'[h].view = course
          /\ \/ handlers'[h].pc = "topics" /\ course.topics \cap outdated = {}
             \/ handlers'[h].pc = "healClear" /\ handlers'[h].clear = course.topics \cap outdated
      BY <1>1, <1>10, <2>2 DEF HealRead, ToHeal
    <2>4. QED BY <2>1, <2>3 DEF Knows
  <1>11. CASE ReadTopics(h)
    <2> DEFINE view == handlers[h].view
               b == view.topics \subseteq completed
               p == IF view.hasProject THEN "project" ELSE "upsert"
    <2>1. UNCHANGED <<course, completed, outdated, projectApproved>>
      BY <1>11 DEF ReadTopics, standing
    <2>2. view = course /\ course.topics \cap outdated = {}
      BY <1>9, <1>11 DEF ReadTopics, Knows, At
    <2>3. handlers' = [handlers EXCEPT ![h].pc = p, ![h].complete = b, ![h].view = Idle.view]
      BY <1>11 DEF ReadTopics
    <2>4. b \in BOOLEAN /\ p \in {"project", "upsert"} /\ (p = "upsert" => ~course.hasProject)
      BY <2>2
    <2>5. b => course.topics \subseteq completed \ outdated
      BY <2>2
    <2> HIDE DEF b, p, view
    <2>6. handlers'[h].pc = p /\ handlers'[h].complete = b
      BY <1>1, <2>3
    <2>7. QED BY <2>1, <2>4, <2>5, <2>6 DEF Knows, Complete
  <1>12. CASE ReadProject(h)
    <2>1. UNCHANGED <<course, completed, outdated, projectApproved>>
      BY <1>12 DEF ReadProject, standing
    <2>2. /\ handlers'[h].pc = "upsert"
          /\ handlers'[h].complete = (handlers[h].complete /\ projectApproved)
      BY <1>1, <1>12 DEF ReadProject
    <2>3. QED BY <1>9, <1>12, <2>1, <2>2 DEF ReadProject, At, Knows, Complete
  <1>13. CASE UpsertProgress(h) \/ Sync(h) \/ Create(h)
    <2>1. UNCHANGED <<course, completed, outdated, projectApproved>>
      BY <1>13 DEF UpsertProgress, Sync, Create, standing
    <2>2. /\ handlers[h].pc \in {"upsert", "sync", "create"}
          /\ handlers'[h].pc \in {"sync", "adopt", "create", "resume", "hold"}
          /\ handlers'[h].complete = handlers[h].complete
      BY <1>1, <1>13 DEF UpsertProgress, Sync, Create, Goto, At
    <2>3. QED BY <1>9, <2>1, <2>2 DEF Knows, Complete
  <1>14. CASE Adopt(h) \/ Resume(h) \/ Hold(h)
    <2>1. UNCHANGED <<course, completed, outdated, projectApproved>>
      BY <1>14 DEF Adopt, Resume, Hold, standing
    <2>2. /\ handlers[h].pc \in {"adopt", "resume", "hold"}
          /\ Return(h)
      BY <1>14 DEF Adopt, Resume, Hold, At
    <2>3. handlers'[h].pc = "detail" /\ handlers'[h].complete = handlers[h].complete
      BY <1>1, <1>4, <1>6, <2>2 DEF Return, Deciding
    <2>4. QED BY <1>9, <2>1, <2>2, <2>3 DEF Knows, Complete
  <1>15. CASE Detail(h)
    <2>1. UNCHANGED <<course, completed, outdated, projectApproved>>
      BY <1>15 DEF Detail, standing
    <2>2. /\ handlers[h].pc = "detail" /\ handlers'[h].pc = "decide"
          /\ handlers'[h].complete = handlers[h].complete
          /\ handlers'[h].snapshot = course.topics
      BY <1>1, <1>15 DEF Detail, At
    <2>3. QED BY <1>9, <2>1, <2>2 DEF Knows, Complete
  <1>16. CASE Decide(h)
    <2>1. UNCHANGED <<course, completed, outdated, projectApproved>>
      BY <1>16 DEF Decide, standing
    <2>2. /\ handlers[h].pc = "decide" /\ handlers'[h].pc = "claim"
          /\ handlers'[h].complete = handlers[h].complete
          /\ handlers'[h].snapshot = handlers[h].snapshot
      BY <1>1, <1>6, <1>16 DEF Decide, At
    <2>3. QED BY <1>9, <2>1, <2>2 DEF Knows, Complete
  <1>17. QED
    BY <1>5, <1>6, <1>10, <1>11, <1>12, <1>13, <1>14, <1>15, <1>16
       DEF Arrive, Continue, Fail, FinishTopic, AddQuiz, ChangeCourse, ReviewProject, View,
           ListMine, Resubmit, Reject, Revoke, Begin, At, ReadCourse, ReopenHold, ReopenClear,
           ResubmitClaim, Claim

LEMMA EarnedStep ==
  ASSUME EarnedInv, [Next]_vars
  PROVE  EarnedInv'
  <1>1. TableInv' /\ SlotsAreClean'
    BY TableStep, CleanStep DEF EarnedInv, TableInv
  <1>2. CASE UNCHANGED vars
    BY <1>1, <1>2 DEF vars, standing, records, EarnedInv, DecisionsKnow, Knows, Complete,
                      ClaimsAreDecided, At, Deciding
  <1>3. ASSUME NEW h \in Handlers, Arrive(h) \/ Continue(h) \/ Fail(h)
        PROVE  EarnedInv'
    <2>1. DecisionsKnow'
      BY <1>3, OthersKnow, OwnKnows DEF DecisionsKnow
    <2>2. request \in {"APPROVED", "REVOKED"} => request' \in {"APPROVED", "REVOKED"}
      BY <1>3, MovesAreInTheTable
         DEF EarnedInv, Table!Next, Table!Move, Table!Ask, Table!Adopt, Table!Hold, Table!Resume,
             Table!Reject, Table!Resubmit, Table!Approve, Table!Revoke, Table!Restore
    <2>3. ASSUME NEW i \in Handlers, handlers'[i].pc = "claim"
          PROVE  IF handlers'[i].reinstating THEN request' \in {"APPROVED", "REVOKED"}
                                             ELSE handlers'[i].complete
      <3>1. CASE i # h
        <4>1. /\ handlers[i].pc = "claim"
              /\ handlers'[i].reinstating = handlers[i].reinstating
              /\ handlers'[i].complete = handlers[i].complete
          BY <1>3, <2>3, <3>1, OthersKeep DEF EarnedInv, TableInv
        <4>2. QED BY <2>2, <4>1 DEF EarnedInv, ClaimsAreDecided, At
      <3>2. CASE i = h /\ ~Decide(h)
        <4>1. handlers'[h] = handlers[h]
          BY <1>3, <2>3, <3>2, EntryPoints DEF EarnedInv, TableInv
        <4>2. QED BY <2>2, <2>3, <3>2, <4>1 DEF EarnedInv, ClaimsAreDecided, At
      <3>3. CASE i = h /\ Decide(h)
        <4>1. handlers[h] \in HandlerRecords /\ handlers \in [Handlers -> HandlerRecords]
          BY <1>3 DEF EarnedInv, TableInv, TypeOK
        <4>2. ~Finish(h)
          BY <2>3, <3>3, <4>1 DEF Finish, Idle
        <4>3. /\ MayApprove(h) /\ UNCHANGED request
              /\ handlers' = [handlers EXCEPT ![h].pc = "claim",
                                              ![h].reinstating = (request = "REVOKED")]
          BY <3>3, <4>2 DEF Decide, records
        <4>4. /\ handlers'[h].reinstating = (request = "REVOKED")
              /\ handlers'[h].complete = handlers[h].complete
          BY <4>1, <4>3 DEF HandlerRecords
        <4>5. QED BY <3>3, <4>3, <4>4 DEF MayApprove
      <3>4. QED BY <3>1, <3>2, <3>3
    <2>4. ClaimsAreDecided'
      BY <2>3 DEF ClaimsAreDecided, At
    <2>5. QED BY <1>1, <2>1, <2>4 DEF EarnedInv
  <1>4. QED BY <1>2, <1>3 DEF Next

\* A learner whose PENDING request is approved has completed the course as it is
\* at that moment, unless the course changed during the review in a way the
\* recount of the topics cannot see.
THEOREM ApprovalsAreEarned == Spec => ApprovalIsEarned
  <1>1. Init => EarnedInv
    <2> SUFFICES ASSUME Init PROVE EarnedInv
      OBVIOUS
    <2>1. \A h \in Handlers : handlers[h].pc = "idle" /\ handlers[h].then = "idle"
      BY InitSlots DEF Idle
    <2>2. SlotsAreClean /\ DecisionsKnow /\ ClaimsAreDecided
      BY <2>1, InitSlots DEF SlotsAreClean, Clean, DecisionsKnow, ClaimsAreDecided, At, Deciding
    <2>3. QED BY <2>2, InitTable DEF EarnedInv
  <1>2. EarnedInv /\ [Next]_vars => EarnedInv'
    BY EarnedStep
  <1> DEFINE Earned ==
        \A h \in Handlers :
          At(h, "claim") /\ handlers'[h] = Idle /\ request = "PENDING" /\ request' = "APPROVED"
             => Complete \/ handlers[h].excused
  <1>3. EarnedInv /\ [Next]_vars => [Earned]_vars
    <2> SUFFICES ASSUME EarnedInv, NEW a \in Handlers, Arrive(a) \/ Continue(a) \/ Fail(a),
                        NEW h \in Handlers, At(h, "claim"), handlers'[h] = Idle,
                        request = "PENDING", request' = "APPROVED", ~handlers[h].excused
                 PROVE  Complete
      BY DEF Next
    <2>1. a = h
      <3>1. handlers'[h].pc # handlers[h].pc
        BY DEF At, Idle
      <3>2. QED BY <3>1, OthersKeep DEF EarnedInv, TableInv
    <2>2. Claim(h) /\ Claimable(h)
      <3>1. Claim(h)
        BY <2>1
           DEF At, Begin, Arrive, Continue, Fail, FinishTopic, AddQuiz, ChangeCourse, ReviewProject,
               View, ListMine, Resubmit, Approve, Reject, Revoke, ReopenHold, ReopenClear, HealClear,
               ReadCourse, HealRead, ReadTopics, ReadProject, UpsertProgress, Sync, Adopt, Create,
               Resume, Hold, ResubmitClaim, Detail, Decide, records
      <3>2. QED BY <3>1 DEF Claim
    <2>3. ~handlers[h].reinstating /\ handlers[h].complete
      BY DEF EarnedInv, ClaimsAreDecided
    <2>4. Cardinality(course.topics) = Cardinality(handlers[h].snapshot)
      BY <2>2, <2>3 DEF Claimable
    <2>5. Knows(h)
      BY DEF EarnedInv, SlotsAreClean, Clean, DecisionsKnow, At
    <2>6. QED BY <2>3, <2>4, <2>5 DEF Knows, At
  <1>4. QED BY <1>1, <1>2, <1>3, PTL DEF Spec, ApprovalIsEarned

-----------------------------------------------------------------------------
(* What is settled stays settled                                            *)

\* Steps at which a handler holds nothing of the learner that may be out of date.
Unbound == {"idle", "course", "reopenClear", "detail", "decide", "claim"}

LEMMA UnboundIsCurrent ==
  ASSUME NEW h \in Handlers, handlers'[h].pc \in Unbound
  PROVE  Current(h)'
  BY DEF Current, Unbound

LEMMA StandingStays ==
  ASSUME UNCHANGED standing
  PROVE  /\ UNCHANGED <<course, completed, outdated, projectApproved>>
         /\ Complete' = Complete
  BY DEF standing, Complete

\* An evaluation that returns is over, or goes on with what it came to.
LEMMA ReturnIsCurrent ==
  ASSUME TypeOK, UNCHANGED standing, NEW h \in Handlers, Return(h),
         handlers[h].complete <=> Complete
  PROVE  Current(h)'
  <1> USE DEF TypeOK
  <1>1. handlers[h] \in HandlerRecords /\ handlers \in [Handlers -> HandlerRecords]
    OBVIOUS
  <1>2. \/ handlers'[h] = Idle
        \/ /\ handlers'[h].pc = handlers[h].then
           /\ handlers[h].then = "detail"
        \/ /\ handlers'[h].pc = "resubmit"
           /\ handlers[h].complete
    BY <1>1 DEF Return, HandlerRecords
  <1>3. CASE handlers'[h].pc = "resubmit"
    BY <1>2, <1>3, StandingStays DEF Current, Idle
  <1>4. CASE handlers'[h].pc # "resubmit"
    <2>1. handlers'[h].pc \in Unbound
      BY <1>2, <1>4 DEF Idle, Unbound
    <2>2. QED BY <2>1, UnboundIsCurrent
  <1>5. QED BY <1>3, <1>4

\* A handler that begins, with the standing as it is.
LEMMA ArrivalsAreCurrent ==
  ASSUME TypeOK, Settled, UNCHANGED standing, NEW h \in Handlers, Arrive(h)
  PROVE  Current(h)'
  <1> USE DEF TypeOK
  <1>1. /\ handlers[h] \in HandlerRecords /\ handlers \in [Handlers -> HandlerRecords]
        /\ \A H : Excuse(H) \in [Handlers -> HandlerRecords]
        /\ Idle.pc = "idle"
    BY ExcuseKeepsType DEF Idle
  <1>2. /\ Evaluation \in HandlerRecords
        /\ Evaluation.pc = "heal" /\ Evaluation.view = course
    BY IdleIsHandler, CoursesAreCurricula DEF Idle, Evaluation, Steps, HandlerRecords
  <1>3. /\ UNCHANGED <<course, completed, outdated, projectApproved>>
        /\ Complete' = Complete
    BY StandingStays
  <1>4. ASSUME handlers'[h].pc = "heal", handlers'[h].view = course PROVE Current(h)'
    BY <1>3, <1>4 DEF Current
  <1>5. ASSUME NEW t \in Topics, FinishTopic(h, t) PROVE Current(h)'
    <2>1. handlers'[h].pc \in {"idle", "course"}
      BY <1>1, <1>5 DEF FinishTopic, Goto, HandlerRecords
    <2>2. QED BY <2>1, UnboundIsCurrent DEF Unbound
  <1>6. ASSUME NEW t \in Topics, AddQuiz(h, t) PROVE Current(h)'
    <2>1. handlers'[h] = [Idle EXCEPT !.pc = "reopen", !.clear = {t}]
      BY <1>1, <1>6 DEF AddQuiz
    <2>2. handlers'[h].pc = "reopen" /\ handlers'[h].clear = {t}
      BY <2>1 DEF Idle
    <2>3. t \in completed => t \in outdated
      BY <1>3, <1>6 DEF AddQuiz
    <2>4. {t} \subseteq course.topics \cap completed => ~Complete
      BY <2>3 DEF Complete
    <2>5. QED BY <1>3, <2>2, <2>4 DEF Current
  <1>7. ASSUME ChangeCourse(h) \/ ReviewProject(h) PROVE Current(h)'
    <2>1. handlers'[h].pc \in {"idle", "course"}
      BY <1>1, <1>7 DEF ChangeCourse, ReviewProject, Reevaluation, Idle, HandlerRecords
    <2>2. QED BY <2>1, UnboundIsCurrent DEF Unbound
  <1>8. ASSUME View(h) PROVE Current(h)'
    <2>1. handlers'[h] = Evaluation
      BY <1>1, <1>8 DEF View
    <2>2. QED BY <1>2, <1>4, <2>1
  <1>9. ASSUME ListMine(h) PROVE Current(h)'
    <2>1. /\ handlers'[h].pc = "sync"
          /\ handlers'[h].complete = (progress = "COMPLETED")
      BY <1>1, <1>9 DEF ListMine, HandlerRecords
    <2>2. QED BY <1>3, <2>1 DEF Current, Settled, Told
  <1>10. ASSUME Resubmit(h) PROVE Current(h)'
    <2>1. handlers'[h] = [Evaluation EXCEPT !.then = "resubmit"]
      BY <1>1, <1>10 DEF Resubmit
    <2>2. handlers'[h].pc = "heal" /\ handlers'[h].view = course
      BY <1>2, <2>1 DEF HandlerRecords
    <2>3. QED BY <1>4, <2>2
  <1>11. ASSUME NEW note \in BOOLEAN, Approve(h, note) PROVE Current(h)'
    <2>1. handlers'[h] = [Evaluation EXCEPT !.then = "detail", !.note = note]
      BY <1>1, <1>11 DEF Approve
    <2>2. handlers'[h].pc = "heal" /\ handlers'[h].view = course
      BY <1>2, <2>1 DEF HandlerRecords
    <2>3. QED BY <1>4, <2>2
  <1>12. ASSUME Reject(h) \/ Revoke(h) PROVE Current(h)'
    BY <1>3, <1>12 DEF Reject, Revoke, Settled, Current
  <1>13. QED
    BY <1>5, <1>6, <1>7, <1>8, <1>9, <1>10, <1>11, <1>12 DEF Arrive

\* A handler on its way reads what is so, and comes to what follows from it.
LEMMA ContinuationsAreCurrent ==
  ASSUME TypeOK, Settled, UNCHANGED standing, NEW h \in Handlers, Continue(h) \/ Fail(h)
  PROVE  Current(h)'
  <1> USE DEF TypeOK
  <1>1. /\ handlers[h] \in HandlerRecords /\ handlers \in [Handlers -> HandlerRecords]
        /\ \A H : Excuse(H) \in [Handlers -> HandlerRecords]
        /\ Current(h)
    BY ExcuseKeepsType DEF Settled
  <1>2. /\ UNCHANGED <<course, completed, outdated, projectApproved>>
        /\ Complete' = Complete
    BY StandingStays
  <1>3. CASE ReopenHold(h) \/ ReopenClear(h) \/ Detail(h)
    <2>1. handlers'[h].pc \in {"reopenClear", "idle", "decide"}
      BY <1>1, <1>3 DEF ReopenHold, ReopenClear, Detail, Goto, Idle, HandlerRecords
    <2>2. QED BY <2>1, UnboundIsCurrent DEF Unbound
  <1>4. CASE ResubmitClaim(h) \/ Decide(h) \/ Claim(h) \/ Fail(h)
    <2>1. handlers'[h].pc \in {"idle", "claim"}
      BY <1>1, <1>4 DEF ResubmitClaim, Decide, Claim, Fail, Finish, Idle, HandlerRecords
    <2>2. QED BY <2>1, UnboundIsCurrent DEF Unbound
  <1>5. CASE ReadCourse(h)
    <2>1. handlers'[h].pc = "heal" /\ handlers'[h].view = course
      BY <1>1, <1>5 DEF ReadCourse, HandlerRecords
    <2>2. QED BY <1>2, <2>1 DEF Current
  <1>6. CASE HealRead(h)
    <2>1. handlers[h].pc = "heal" /\ handlers[h].view = course
      BY <1>1, <1>6 DEF HealRead, Current, At
    <2>2. /\ handlers'[h].view = course
          /\ \/ handlers'[h].pc = "topics" /\ course.topics \cap outdated = {}
             \/ handlers'[h].pc = "healClear" /\ handlers'[h].clear = course.topics \cap outdated
      BY <1>1, <1>6, <2>1 DEF HealRead, ToHeal, HandlerRecords
    <2>3. QED BY <1>2, <2>2 DEF Current
  <1>7. CASE HealClear(h)
    <2> DEFINE E == Excuse(Handlers \ {h})
    <2>1. E \in [Handlers -> HandlerRecords] /\ E[h] = handlers[h]
      BY ExcuseKeepsType DEF Excuse
    <2>2. handlers' = [E EXCEPT ![h].pc = "topics", ![h].clear = {}]
      BY <1>7 DEF HealClear
    <2> HIDE DEF E
    <2>3. handlers'[h] = [handlers[h] EXCEPT !.pc = "topics", !.clear = {}]
      BY <2>1, <2>2
    <2>4. handlers'[h].pc = "topics" /\ handlers'[h].view = handlers[h].view
      BY <1>1, <2>3 DEF HandlerRecords
    <2>5. /\ handlers[h].view = course
          /\ course.topics \cap outdated \subseteq handlers[h].clear
      BY <1>1, <1>7 DEF HealClear, Current, At
    <2>6. outdated' = outdated \ handlers[h].clear
      BY <1>7 DEF HealClear, Clear
    <2>7. course'.topics \cap outdated' = {}
      BY <1>2, <2>5, <2>6
    <2>8. QED BY <1>2, <2>4, <2>5, <2>7 DEF Current
  <1>8. CASE ReadTopics(h)
    <2> DEFINE view == handlers[h].view
               b == view.topics \subseteq completed
               p == IF view.hasProject THEN "project" ELSE "upsert"
    <2>1. view = course /\ course.topics \cap outdated = {}
      BY <1>1, <1>8 DEF ReadTopics, Current, At
    <2>2. handlers' = [handlers EXCEPT ![h].pc = p, ![h].complete = b, ![h].view = Idle.view]
      BY <1>8 DEF ReadTopics
    <2>3. /\ b \in BOOLEAN
          /\ \/ p = "project" /\ course.hasProject
             \/ p = "upsert" /\ ~course.hasProject
      BY <2>1
    <2>4. b <=> course.topics \subseteq completed \ outdated
      BY <2>1
    <2> HIDE DEF b, p, view
    <2>5. handlers'[h].pc = p /\ handlers'[h].complete = b
      BY <1>1, <2>2 DEF HandlerRecords
    <2>6. QED BY <1>2, <2>3, <2>4, <2>5 DEF Current, Complete
  <1>9. CASE ReadProject(h)
    <2>1. /\ handlers'[h].pc = "upsert"
          /\ handlers'[h].complete = (handlers[h].complete /\ projectApproved)
      BY <1>1, <1>9 DEF ReadProject, HandlerRecords
    <2>2. /\ course.hasProject
          /\ handlers[h].complete <=> course.topics \subseteq completed \ outdated
      BY <1>1, <1>9 DEF ReadProject, Current, At
    <2>3. (handlers[h].complete /\ projectApproved) <=> Complete
      BY <2>2 DEF Complete
    <2>4. handlers'[h].complete <=> Complete'
      BY <1>2, <2>1, <2>3
    <2>5. QED BY <2>1, <2>4 DEF Current
  <1>10. CASE UpsertProgress(h) \/ Sync(h) \/ Create(h)
    <2>1. /\ handlers'[h].pc \in {"sync", "adopt", "create", "resume", "hold"}
          /\ handlers'[h].complete = handlers[h].complete
          /\ handlers[h].pc \in {"upsert", "sync", "create"}
          /\ handlers'[h].pc = "create" => handlers[h].complete
          /\ handlers'[h].pc = "resume" => handlers[h].pc = "create"
          /\ handlers'[h].pc = "hold" => ~handlers[h].complete
      BY <1>1, <1>10 DEF UpsertProgress, Sync, Create, Goto, At, HandlerRecords
    <2>2. /\ handlers[h].complete <=> Complete
          /\ handlers[h].pc = "create" => Complete
      BY <1>1, <2>1 DEF Current
    <2>3. QED BY <1>2, <2>1, <2>2 DEF Current
  <1>11. CASE Adopt(h) \/ Resume(h) \/ Hold(h)
    <2>1. Return(h) /\ handlers[h].pc \in {"adopt", "resume", "hold"}
      BY <1>11 DEF Adopt, Resume, Hold, At
    <2>2. handlers[h].complete <=> Complete
      BY <1>1, <2>1 DEF Current
    <2>3. QED BY <2>1, <2>2, ReturnIsCurrent
  <1>12. QED
    BY <1>3, <1>4, <1>5, <1>6, <1>7, <1>8, <1>9, <1>10, <1>11 DEF Continue

\* The other handlers keep what they have read.
LEMMA OthersStayCurrent ==
  ASSUME TypeOK, Settled, UNCHANGED standing,
         NEW h \in Handlers, Arrive(h) \/ Continue(h) \/ Fail(h),
         NEW i \in Handlers, i # h
  PROVE  Current(i)'
  <1>1. Stays(i) /\ handlers[i] \in HandlerRecords /\ Current(i)
    BY OthersStay DEF TypeOK, Settled
  <1>2. /\ handlers'[i].pc = handlers[i].pc
        /\ handlers'[i].view = handlers[i].view
        /\ handlers'[i].clear = handlers[i].clear
        /\ handlers'[i].complete = handlers[i].complete
    BY <1>1 DEF Stays, HandlerRecords
  <1>3. QED BY <1>1, <1>2, StandingStays DEF Current

\* What a step writes of the learner is true.
LEMMA WritesAreTrue ==
  ASSUME TypeOK, Settled, UNCHANGED standing,
         NEW h \in Handlers, Arrive(h) \/ Continue(h) \/ Fail(h)
  PROVE  Told'
  <1>1. Told /\ Current(h) /\ Complete' = Complete
    BY StandingStays DEF Settled
  <1>2. CASE UNCHANGED <<progress, request>>
    BY <1>1, <1>2 DEF Told
  <1>3. CASE UpsertProgress(h)
    <2>1. /\ progress' = (IF handlers[h].complete THEN "COMPLETED" ELSE "OPEN")
          /\ UNCHANGED request
          /\ handlers[h].complete <=> Complete
      BY <1>1, <1>3 DEF UpsertProgress, Current, At
    <2>2. QED BY <1>1, <2>1 DEF Told
  <1>4. CASE Create(h) \/ Resume(h) \/ ResubmitClaim(h)
    <2>1. Complete /\ UNCHANGED progress
      BY <1>1, <1>4 DEF Create, Resume, ResubmitClaim, Current, At
    <2>2. request' \in {request, "PENDING"}
      BY <1>4 DEF Create, Resume, ResubmitClaim, Insert, Shift
    <2>3. QED BY <1>1, <2>1, <2>2 DEF Told
  <1>5. CASE Hold(h) \/ ReopenHold(h)
    <2>1. UNCHANGED progress /\ request' \in {request, "ON_HOLD"}
      BY <1>5 DEF Hold, ReopenHold, Shift
    <2>2. request' # request => ~Complete
      BY <1>1, <1>5 DEF Hold, ReopenHold, Current, At
    <2>3. QED BY <1>1, <2>1, <2>2 DEF Told
  <1>6. CASE Adopt(h) \/ Claim(h) \/ Reject(h) \/ Revoke(h)
    <2>1. UNCHANGED progress /\ request' \in {request, "APPROVED", "REJECTED", "REVOKED"}
      BY <1>6 DEF Adopt, Insert, Claim, Reject, Revoke
    <2>2. QED BY <1>1, <2>1 DEF Told
  <1>7. QED
    BY <1>2, <1>3, <1>4, <1>5, <1>6
       DEF Arrive, Continue, Fail, FinishTopic, AddQuiz, ChangeCourse, ReviewProject, View,
           ListMine, Resubmit, Approve, ReopenClear, HealClear, Clear, ReadCourse, HealRead,
           ReadTopics, ReadProject, Sync, Detail, Decide, records

\* Rows that tell the truth, with nothing in flight that read otherwise, are put
\* out of line by a change of the standing and by nothing else.
THEOREM TheSettledStaySo == Spec => SettledStays
  <1> DEFINE Kept == Settled /\ UNCHANGED standing => Settled'
  <1>1. TypeOK /\ [Next]_vars => [Kept]_vars
    <2> SUFFICES ASSUME TypeOK, Settled, UNCHANGED standing,
                        NEW h \in Handlers, Arrive(h) \/ Continue(h) \/ Fail(h)
                 PROVE  Settled'
      BY DEF Next
    <2>1. Told'
      BY WritesAreTrue
    <2>2. ASSUME NEW i \in Handlers PROVE Current(i)'
      <3>1. CASE i = h
        BY <3>1, ArrivalsAreCurrent, ContinuationsAreCurrent
      <3>2. CASE i # h
        BY <3>2, OthersStayCurrent
      <3>3. QED BY <3>1, <3>2
    <2>3. QED BY <2>1, <2>2 DEF Settled
  <1>2. Init => TypeOK
    BY InitType
  <1>3. TypeOK /\ [Next]_vars => TypeOK'
    BY TypeStep
  <1>4. QED BY <1>1, <1>2, <1>3, PTL DEF Spec, SettledStays

=============================================================================
