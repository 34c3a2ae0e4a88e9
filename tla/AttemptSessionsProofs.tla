----------------------- MODULE AttemptSessionsProofs -----------------------
(***************************************************************************)
(* Proofs about AttemptSessions, for any number of learners, sessions,     *)
(* requests in flight and questions, and any clock: what holds whatever    *)
(* clients do, and what it promises to those that wait for each answer.    *)
(***************************************************************************)
EXTENDS AttemptSessions, TLAPS

\* A handler in flight knows its learner, and its session where it needs one.
Bound(q) ==
    /\ q.pc # "idle" => q.user \in Users
    /\ q.pc \in {"write", "lock", "claim"} => q.session \in Sessions
    /\ q.pc = "expire" /\ q.next = "lock" => q.session \in Sessions

RequestsAreBound == \A r \in Requests : Bound(requests[r])

\* The request at the claim, and no other, holds its learner's advisory lock.
LockIsHeldAtClaim ==
    /\ \A r \in Requests : requests[r].pc = "claim" => lock[requests[r].user] = r
    /\ \A u \in Users : lock[u] # None =>
          requests[lock[u]].pc = "claim" /\ requests[lock[u]].user = u

\* A submission time read under the lock is not before any recorded one.
ClaimIsLatest ==
    \A r \in Requests : requests[r].pc = "claim" =>
        /\ requests[r].at <= now
        /\ \A i \in 1..Len(ledger[requests[r].user]) :
              ledger[requests[r].user][i].at <= requests[r].at

LedgerIsPast ==
    \A u \in Users : \A i \in 1..Len(ledger[u]) : ledger[u][i].at <= now

OfficialIffRecorded == \A u \in Users : official[u] = None <=> ledger[u] = <<>>

SafetyInv ==
    /\ TypeOK
    /\ RequestsAreBound
    /\ StatusAgreesWithLedger
    /\ ResubmissionNeedsStaleExpiry

OrderInv ==
    /\ LockIsHeldAtClaim
    /\ ClaimIsLatest
    /\ LedgerIsPast
    /\ OfficialIffRecorded

-----------------------------------------------------------------------------

LEMMA BlankIsAnswers == Blank \in Answers
  BY DEF Blank, Answers

LEMMA IdleIsRequest == Idle \in RequestRecords
  BY BlankIsAnswers, BoundsAreNaturals DEF Idle, RequestRecords, Times, NoEnd

LEMMA MergeIsAnswers ==
  ASSUME NEW old \in Answers, NEW upd \in Answers
  PROVE  Merge(old, upd) \in Answers
  BY DEF Merge, Answers

LEMMA ThenExpireIsRequest ==
  ASSUME NEW req \in RequestRecords, NEW S \in SUBSET Sessions,
         NEW next \in {"idle", "create", "lock"}
  PROVE  ThenExpire(req, S, next) \in RequestRecords
  BY DEF ThenExpire, RequestRecords

LEMMA RequestSteps ==
  ASSUME NEW q \in RequestRecords, NEW S \in SUBSET Sessions, NEW at \in Times
  PROVE  /\ [q EXCEPT !.todo = S] \in RequestRecords
         /\ [q EXCEPT !.pc = q.next, !.todo = {}] \in RequestRecords
         /\ [q EXCEPT !.pc = "claim", !.at = at] \in RequestRecords
  BY DEF RequestRecords

LEMMA TouchKeepsType ==
  ASSUME newer \subseteq Sessions \X Sessions, NEW S \in SUBSET Sessions, Touch(S)
  PROVE  newer' \subseteq Sessions \X Sessions
  BY DEF Touch, Rows

\* An answered request slot is idle again.
LEMMA AnswerKeepsType ==
  ASSUME requests \in [Requests -> RequestRecords], NEW r \in Requests, Answer(r)
  PROVE  requests' \in [Requests -> RequestRecords]
  BY IdleIsRequest DEF Answer

LEMMA InitType == Init => TypeOK
  BY BoundsAreNaturals, SchedulesAreWindows, BlankIsAnswers, IdleIsRequest
     DEF Init, TypeOK, RowRecords, NoRow, Statuses, Times, NoEnd

\* Every step preserves the shape of the variables.
LEMMA TypeStep ==
  ASSUME TypeOK, RequestsAreBound, [Next]_vars
  PROVE  TypeOK'
  <1>1. CASE Tick
    BY <1>1, BoundsAreNaturals DEF Tick, TypeOK
  <1>2. CASE UpdateSchedule
    BY <1>2 DEF UpdateSchedule, TypeOK
  <1>3. CASE ExpireStaleSessions
    <2>1. newer' \subseteq Sessions \X Sessions
      BY <1>3, TouchKeepsType DEF ExpireStaleSessions, TypeOK
    <2>2. sessions' \in [Sessions -> RowRecords]
      BY <1>3, ZenonT(40) DEF ExpireStaleSessions, TypeOK, RowRecords, Statuses
    <2>3. QED BY <1>3, <2>1, <2>2 DEF ExpireStaleSessions, TypeOK
  <1>4. ASSUME NEW r \in Requests, Arrive(r) PROVE TypeOK'
    <2>1. PICK u \in Users :
            \/ \E ttl \in Ttls : StartRead(r, u, ttl)
            \/ ResumeRead(r, u)
            \/ ListRead(r, u)
            \/ \E s \in Sessions :
                \/ AbandonRead(r, u, s)
                \/ \E upd \in Answers : SaveRead(r, u, s, upd)
                \/ SubmitRead(r, u, s)
      BY <1>4 DEF Arrive
    <2> DEFINE Req == [Idle EXCEPT !.user = u]
    <2>2. Req \in RequestRecords
      BY IdleIsRequest DEF RequestRecords
    <2>3. ASSUME NEW ttl \in Ttls, StartRead(r, u, ttl) PROVE TypeOK'
      <3> DEFINE q == [Idle EXCEPT !.user = u, !.endsAt = schedule.endsAt, !.ttl = ttl]
      <3>1. q \in RequestRecords
        BY IdleIsRequest, SchedulesAreWindows, TtlsArePositive DEF RequestRecords, TypeOK
      <3>2. [q EXCEPT !.pc = "create"] \in RequestRecords
        BY <3>1 DEF RequestRecords
      <3>3. \A s \in Sessions : ThenExpire(q, {s}, "create") \in RequestRecords
        BY <3>1, ThenExpireIsRequest
      <3>4. requests' \in [Requests -> RequestRecords]
        BY <2>3, <3>2, <3>3 DEF StartRead, TypeOK, Live, Owned
      <3>5. QED BY <2>3, <3>4 DEF StartRead, TypeOK
    <2>4. ASSUME ResumeRead(r, u) PROVE TypeOK'
      <3>1. \A s \in Sessions : ThenExpire(Req, {s}, "idle") \in RequestRecords
        BY <2>2, ThenExpireIsRequest
      <3>2. requests' \in [Requests -> RequestRecords]
        BY <2>4, <3>1 DEF ResumeRead, TypeOK, Owned
      <3>3. QED BY <2>4, <3>2 DEF ResumeRead, TypeOK
    <2>5. ASSUME ListRead(r, u) PROVE TypeOK'
      <3>1. \A S \in SUBSET Sessions : ThenExpire(Req, S, "idle") \in RequestRecords
        BY <2>2, ThenExpireIsRequest
      <3>2. PICK S \in SUBSET Sessions :
              requests' = [requests EXCEPT ![r] = ThenExpire(Req, S, "idle")]
        <4>1. PICK P \in Pages(u) :
                requests' = [requests EXCEPT ![r] = ThenExpire(Req,
                   {s \in P : sessions[s].status = "IN_PROGRESS" /\ Overdue(s)}, "idle")]
          BY <2>5 DEF ListRead
        <4>2. P \subseteq Sessions
          BY DEF Pages, Owned
        <4>3. QED BY <4>1, <4>2
      <3>3. QED BY <2>5, <3>1, <3>2 DEF ListRead, TypeOK
    <2>6. ASSUME NEW s \in Sessions, AbandonRead(r, u, s) PROVE TypeOK'
      <3> DEFINE q == [Idle EXCEPT !.user = u, !.session = s]
      <3>1. q \in RequestRecords
        BY IdleIsRequest DEF RequestRecords
      <3>2. ThenExpire(q, {s}, "idle") \in RequestRecords
        BY <3>1, ThenExpireIsRequest
      <3>3. QED BY <2>6, <3>2 DEF AbandonRead, TypeOK
    <2>7. ASSUME NEW s \in Sessions, NEW upd \in Answers, SaveRead(r, u, s, upd)
          PROVE  TypeOK'
      <3> DEFINE q == [Idle EXCEPT !.user = u, !.session = s, !.upd = upd,
                                   !.answers = sessions[s].answers]
      <3>1. q \in RequestRecords
        BY IdleIsRequest DEF RequestRecords, TypeOK, RowRecords
      <3>2. ThenExpire(q, {s}, "idle") \in RequestRecords
        BY <3>1, ThenExpireIsRequest
      <3>3. [q EXCEPT !.pc = "write"] \in RequestRecords
        BY <3>1 DEF RequestRecords
      <3>4. requests' \in [Requests -> RequestRecords]
        BY <2>7, <3>2, <3>3 DEF SaveRead, TypeOK
      <3>5. QED BY <2>7, <3>4 DEF SaveRead, TypeOK
    <2>8. ASSUME NEW s \in Sessions, SubmitRead(r, u, s) PROVE TypeOK'
      <3> DEFINE q == [Idle EXCEPT !.user = u, !.session = s,
                                   !.answers = GradedAnswers(s)]
      <3>1. q \in RequestRecords
        BY IdleIsRequest DEF RequestRecords, TypeOK, RowRecords, GradedAnswers
      <3>2. ThenExpire(q, {s}, "lock") \in RequestRecords
        BY <3>1, ThenExpireIsRequest
      <3>3. [q EXCEPT !.pc = "lock"] \in RequestRecords
        BY <3>1 DEF RequestRecords
      <3>4. requests' \in [Requests -> RequestRecords]
        BY <2>8, <3>2, <3>3 DEF SubmitRead, TypeOK
      <3>5. QED BY <2>8, <3>4 DEF SubmitRead, TypeOK
    <2>9. QED BY <2>1, <2>3, <2>4, <2>5, <2>6, <2>7, <2>8
  <1>5. ASSUME NEW r \in Requests, ExpireWrite(r) PROVE TypeOK'
    <2>1. PICK s \in requests[r].todo :
            /\ sessions' = [sessions EXCEPT ![s].status = "EXPIRED"]
            /\ unsubmitted' = IF sessions[s].status = "SUBMITTED"
                              THEN unsubmitted \cup {s} ELSE unsubmitted
            /\ Touch({s})
            /\ \/ requests' = [requests EXCEPT ![r].todo = requests[r].todo \ {s}]
               \/ Answer(r)
               \/ requests' = [requests EXCEPT ![r].pc = requests[r].next,
                                               ![r].todo = {}]
      BY <1>5 DEF ExpireWrite
    <2>0. requests[r] \in RequestRecords /\ requests[r].todo \ {s} \in SUBSET Sessions
          /\ 0 \in Times
      BY BoundsAreNaturals DEF TypeOK, RequestRecords, Times, NoEnd
    <2>2. s \in Sessions
      BY DEF TypeOK, RequestRecords
    <2>3. requests' \in [Requests -> RequestRecords]
      <3>1. CASE Answer(r)
        BY <3>1, AnswerKeepsType DEF TypeOK
      <3>2. CASE requests' = [requests EXCEPT ![r].todo = requests[r].todo \ {s}]
        BY <3>2, <2>0, RequestSteps DEF TypeOK
      <3>3. CASE requests' = [requests EXCEPT ![r].pc = requests[r].next, ![r].todo = {}]
        BY <3>3, <2>0, RequestSteps DEF TypeOK
      <3>4. QED BY <2>1, <3>1, <3>2, <3>3
    <2>4. newer' \subseteq Sessions \X Sessions
      BY <2>1, <2>2, TouchKeepsType DEF TypeOK
    <2>5. sessions' \in [Sessions -> RowRecords]
      <3>1. [sessions[s] EXCEPT !.status = "EXPIRED"] \in RowRecords
        BY <2>2 DEF TypeOK, RowRecords, Statuses
      <3>2. QED BY <2>1, <2>2, <3>1 DEF TypeOK
    <2>6. unsubmitted' \subseteq Sessions
      BY <2>1, <2>2 DEF TypeOK
    <2>7. QED BY <1>5, <2>3, <2>4, <2>5, <2>6 DEF ExpireWrite, TypeOK
  <1>6. ASSUME NEW r \in Requests, StartCreate(r) PROVE TypeOK'
    <2>1. PICK s \in Sessions :
            /\ sessions' = [sessions EXCEPT ![s] =
                  [status |-> "IN_PROGRESS", owner |-> requests[r].user,
                   answers |-> Blank,
                   expiresAt |-> SessionExpiry(requests[r].ttl, requests[r].endsAt)]]
            /\ Touch({s})
      BY <1>6 DEF StartCreate
    <2>2. SessionExpiry(requests[r].ttl, requests[r].endsAt) \in Times
      BY BoundsAreNaturals DEF SessionExpiry, TypeOK, RequestRecords, Times, NoEnd
    <2>3. requests[r].user \in Users \cup {None}
      BY DEF TypeOK, RequestRecords
    <2>4. newer' \subseteq Sessions \X Sessions
      BY <2>1, TouchKeepsType DEF TypeOK
    <2>5. requests' \in [Requests -> RequestRecords]
      BY <1>6, AnswerKeepsType DEF StartCreate, TypeOK
    <2>6. sessions' \in [Sessions -> RowRecords]
      BY <2>1, <2>2, <2>3, BlankIsAnswers DEF TypeOK, RowRecords, Statuses
    <2>7. QED BY <1>6, <2>4, <2>5, <2>6 DEF StartCreate, TypeOK
  <1>7. ASSUME NEW r \in Requests, StartCreateFails(r) PROVE TypeOK'
    <2>1. \A s \in Sessions : ThenExpire(requests[r], {s}, "idle") \in RequestRecords
      BY ThenExpireIsRequest DEF TypeOK
    <2>2. requests' \in [Requests -> RequestRecords]
      <3>1. CASE Answer(r)
        BY <3>1, AnswerKeepsType DEF TypeOK
      <3>2. CASE \E s \in Sessions :
                   requests' = [requests EXCEPT ![r] = ThenExpire(@, {s}, "idle")]
        BY <2>1, <3>2 DEF TypeOK
      <3>3. Live(requests[r].user) \subseteq Sessions
        BY DEF Live, Owned
      <3>4. QED BY <1>7, <3>1, <3>2, <3>3 DEF StartCreateFails
    <2>3. QED BY <1>7, <2>2 DEF StartCreateFails, TypeOK
  <1>8. ASSUME NEW r \in Requests, SaveWrite(r) PROVE TypeOK'
    <2> DEFINE s == requests[r].session
    <2>1. Merge(requests[r].answers, requests[r].upd) \in Answers
      BY MergeIsAnswers DEF TypeOK, RequestRecords
    <2>2. requests' \in [Requests -> RequestRecords]
      BY <1>8, AnswerKeepsType DEF SaveWrite, TypeOK
    <2>3. newer' \subseteq Sessions \X Sessions
      BY <1>8, TouchKeepsType DEF SaveWrite, TypeOK, RequestsAreBound, Bound
    <2>4. sessions' \in [Sessions -> RowRecords]
      BY <1>8, <2>1 DEF SaveWrite, TypeOK, RowRecords
    <2>5. acked' \in [Sessions -> Answers]
      <3>1. requests[r].upd \in Answers
        BY DEF TypeOK, RequestRecords
      <3>2. CASE s \in Sessions
        <4>1. acked[s] \in Answers
          BY <3>2 DEF TypeOK
        <4>2. [q \in Quizzes |-> IF requests[r].upd[q] # None
                                THEN requests[r].upd[q] ELSE acked[s][q]] \in Answers
          BY <3>1, <4>1 DEF Answers
        <4>3. QED BY <1>8, <4>2 DEF SaveWrite, TypeOK
      <3>3. CASE s \notin Sessions
        BY <1>8, <3>3 DEF SaveWrite, TypeOK
      <3>4. QED BY <3>2, <3>3
    <2>6. QED BY <1>8, <2>2, <2>3, <2>4, <2>5 DEF SaveWrite, TypeOK
  <1>9. ASSUME NEW r \in Requests, SubmitLock(r) PROVE TypeOK'
    <2>1. requests' \in [Requests -> RequestRecords]
      <3>1. requests[r] \in RequestRecords /\ now \in Times
        BY BoundsAreNaturals DEF TypeOK, Times, NoEnd
      <3>2. [requests[r] EXCEPT !.pc = "claim", !.at = now] \in RequestRecords
        BY <3>1, RequestSteps
      <3>3. QED BY <1>9, <3>2 DEF SubmitLock, TypeOK
    <2>2. QED BY <1>9, <2>1 DEF SubmitLock, TypeOK
  <1>10. ASSUME NEW r \in Requests, SubmitCommit(r) PROVE TypeOK'
    <2> DEFINE u == requests[r].user
               s == requests[r].session
               e == [session |-> s, at |-> requests[r].at,
                     answers |-> requests[r].answers]
    <2>1. s \in Sessions
      BY <1>10 DEF SubmitCommit, RequestsAreBound, Bound
    <2>2. requests' \in [Requests -> RequestRecords]
      BY <1>10, AnswerKeepsType DEF SubmitCommit, TypeOK
    <2>3. e \in Submissions
      BY <2>1 DEF TypeOK, RequestRecords, Submissions
    <2>4. sessions' \in [Sessions -> RowRecords]
      BY <1>10, ZenonT(40) DEF SubmitCommit, TypeOK, RowRecords, Statuses
    <2>5. ledger' \in [Users -> Seq(Submissions)]
      <3>1. u \in Users
        BY <1>10 DEF SubmitCommit, RequestsAreBound, Bound
      <3>2. Append(ledger[u], e) \in Seq(Submissions)
        BY <2>3, <3>1 DEF TypeOK
      <3>3. QED BY <1>10, <3>2 DEF SubmitCommit, TypeOK
    <2>6. official' \in [Users -> Submissions \cup {None}]
      BY <1>10, <2>3 DEF SubmitCommit, TypeOK, Counted
    <2>7. newer' \subseteq Sessions \X Sessions
      BY <1>10, <2>1, TouchKeepsType DEF SubmitCommit, TypeOK
    <2>8. lock' \in [Users -> Requests \cup {None}]
      BY <1>10 DEF SubmitCommit, TypeOK
    <2>9. QED
      BY <1>10, <2>2, <2>4, <2>5, <2>6, <2>7, <2>8 DEF SubmitCommit, TypeOK
  <1>11. ASSUME NEW r \in Requests, SubmitRefused(r) PROVE TypeOK'
    BY <1>11, AnswerKeepsType DEF SubmitRefused, TypeOK
  <1>12. ASSUME NEW r \in Requests, Fail(r) PROVE TypeOK'
    BY <1>12, AnswerKeepsType DEF Fail, TypeOK
  <1>13. CASE UNCHANGED vars
    BY <1>13 DEF vars, TypeOK
  <1>14. QED
    BY <1>1, <1>2, <1>3, <1>4, <1>5, <1>6, <1>7, <1>8, <1>9, <1>10, <1>11,
       <1>12, <1>13 DEF Next, Continue

\* A handler whose record becomes q, with q bound and short of the claim.
Moves(r) ==
    \E q : requests' = [requests EXCEPT ![r] = q] /\ Bound(q) /\ q.pc # "claim"

LEMMA AnswerMoves ==
  ASSUME NEW r \in Requests, Answer(r)
  PROVE  Moves(r)
  <1>1. Bound(Idle) /\ Idle.pc # "claim"
    BY DEF Bound, Idle
  <1>2. QED BY <1>1 DEF Answer, Moves

LEMMA ArriveMoves ==
  ASSUME NEW r \in Requests, Arrive(r)
  PROVE  Moves(r)
  <1>1. PICK u \in Users :
          \/ \E ttl \in Ttls : StartRead(r, u, ttl)
          \/ ResumeRead(r, u)
          \/ ListRead(r, u)
          \/ \E s \in Sessions :
              \/ AbandonRead(r, u, s)
              \/ \E upd \in Answers : SaveRead(r, u, s, upd)
              \/ SubmitRead(r, u, s)
    BY DEF Arrive
  <1>2. ASSUME NEW ttl \in Ttls, StartRead(r, u, ttl) PROVE Moves(r)
    <2> DEFINE q == [Idle EXCEPT !.user = u, !.endsAt = schedule.endsAt, !.ttl = ttl]
    <2>1. Bound([q EXCEPT !.pc = "create"]) /\ [q EXCEPT !.pc = "create"].pc = "create"
      BY DEF Bound, Idle
    <2>2. \A s : /\ Bound(ThenExpire(q, {s}, "create"))
                 /\ ThenExpire(q, {s}, "create").pc = "expire"
      BY DEF Bound, Idle, ThenExpire
    <2>3. \/ requests' = [requests EXCEPT ![r] = [q EXCEPT !.pc = "create"]]
          \/ \E s \in Live(u) :
                requests' = [requests EXCEPT ![r] = ThenExpire(q, {s}, "create")]
      BY <1>2 DEF StartRead
    <2> HIDE DEF q
    <2>4. QED BY <2>1, <2>2, <2>3 DEF Moves
  <1>3. ASSUME ResumeRead(r, u) \/ ListRead(r, u) PROVE Moves(r)
    <2> DEFINE q(S) == ThenExpire([Idle EXCEPT !.user = u], S, "idle")
    <2>1. \A S : Bound(q(S)) /\ q(S).pc = "expire"
      BY DEF Bound, Idle, ThenExpire
    <2>2. \E S : requests' = [requests EXCEPT ![r] = q(S)]
      BY <1>3 DEF ResumeRead, ListRead
    <2> HIDE DEF q
    <2>3. QED BY <2>1, <2>2 DEF Moves
  <1>4. ASSUME NEW s \in Sessions, AbandonRead(r, u, s) PROVE Moves(r)
    <2> DEFINE q == ThenExpire([Idle EXCEPT !.user = u, !.session = s], {s}, "idle")
    <2>1. Bound(q) /\ q.pc = "expire"
      BY DEF Bound, Idle, ThenExpire
    <2>2. requests' = [requests EXCEPT ![r] = q]
      BY <1>4 DEF AbandonRead
    <2> HIDE DEF q
    <2>3. QED BY <2>1, <2>2 DEF Moves
  <1>5. ASSUME NEW s \in Sessions, NEW upd \in Answers, SaveRead(r, u, s, upd)
        PROVE  Moves(r)
    <2> DEFINE q == [Idle EXCEPT !.user = u, !.session = s, !.upd = upd,
                                 !.answers = sessions[s].answers]
               Saving == [q EXCEPT !.pc = "write"]
               Late == ThenExpire(q, {s}, "idle")
    <2>1. Bound(Saving) /\ Saving.pc = "write" /\ Bound(Late) /\ Late.pc = "expire"
      BY DEF Bound, Idle, ThenExpire
    <2>2. \/ requests' = [requests EXCEPT ![r] = Saving]
          \/ requests' = [requests EXCEPT ![r] = Late]
      BY <1>5 DEF SaveRead
    <2> HIDE DEF Saving, Late
    <2>3. QED BY <2>1, <2>2 DEF Moves
  <1>6. ASSUME NEW s \in Sessions, SubmitRead(r, u, s) PROVE Moves(r)
    <2> DEFINE q == [Idle EXCEPT !.user = u, !.session = s, !.answers = GradedAnswers(s)]
               InTime == [q EXCEPT !.pc = "lock"]
               Late == ThenExpire(q, {s}, "lock")
    <2>1. Bound(InTime) /\ InTime.pc = "lock" /\ Bound(Late) /\ Late.pc = "expire"
      BY DEF Bound, Idle, ThenExpire
    <2>2. \/ requests' = [requests EXCEPT ![r] = InTime]
          \/ requests' = [requests EXCEPT ![r] = Late]
      BY <1>6 DEF SubmitRead
    <2> HIDE DEF InTime, Late
    <2>3. QED BY <2>1, <2>2 DEF Moves
  <1>7. QED BY <1>1, <1>2, <1>3, <1>4, <1>5, <1>6

LEMMA HandlerMoves ==
  ASSUME TypeOK, RequestsAreBound, NEW r \in Requests,
         ExpireWrite(r) \/ StartCreate(r) \/ StartCreateFails(r) \/ SaveWrite(r)
  PROVE  Moves(r)
  <1>1. requests[r] \in RequestRecords /\ Bound(requests[r])
    BY DEF TypeOK, RequestsAreBound
  <1>2. CASE ExpireWrite(r)
    <2> DEFINE Left(S) == [requests[r] EXCEPT !.todo = S]
               Resumed == [requests[r] EXCEPT !.pc = requests[r].next, !.todo = {}]
    <2>1. \A S : Bound(Left(S)) /\ Left(S).pc = "expire"
      BY <1>1, <1>2 DEF Bound, RequestRecords, ExpireWrite
    <2>2. requests[r].next # "idle" => Bound(Resumed) /\ Resumed.pc # "claim"
      BY <1>1, <1>2 DEF Bound, RequestRecords, ExpireWrite
    <2>3. \/ \E S : requests' = [requests EXCEPT ![r].todo = S]
          \/ Answer(r)
          \/ /\ requests[r].next # "idle"
             /\ requests' = [requests EXCEPT ![r].pc = requests[r].next, ![r].todo = {}]
      BY <1>2 DEF ExpireWrite
    <2>4. \A S : [requests EXCEPT ![r].todo = S] = [requests EXCEPT ![r] = Left(S)]
      OBVIOUS
    <2>5. [requests EXCEPT ![r].pc = requests[r].next, ![r].todo = {}]
            = [requests EXCEPT ![r] = Resumed]
      BY DEF TypeOK
    <2> HIDE DEF Left, Resumed
    <2>6. CASE \E S : requests' = [requests EXCEPT ![r].todo = S]
      <3>1. PICK S : requests' = [requests EXCEPT ![r] = Left(S)]
        BY <2>4, <2>6
      <3>2. QED BY <2>1, <3>1 DEF Moves
    <2>7. CASE /\ requests[r].next # "idle"
               /\ requests' = [requests EXCEPT ![r].pc = requests[r].next, ![r].todo = {}]
      BY <2>2, <2>5, <2>7 DEF Moves
    <2>8. QED BY <2>3, <2>6, <2>7, AnswerMoves
  <1>3. CASE StartCreateFails(r)
    <2> DEFINE q(s) == ThenExpire(requests[r], {s}, "idle")
    <2>1. \A s : Bound(q(s)) /\ q(s).pc = "expire"
      BY <1>1, <1>3 DEF Bound, ThenExpire, RequestRecords, StartCreateFails
    <2>2. \/ Answer(r)
          \/ \E s : requests' = [requests EXCEPT ![r] = q(s)]
      BY <1>3 DEF StartCreateFails
    <2> HIDE DEF q
    <2>3. QED BY <2>1, <2>2, AnswerMoves DEF Moves
  <1>4. CASE StartCreate(r) \/ SaveWrite(r)
    BY <1>4, AnswerMoves DEF StartCreate, SaveWrite
  <1>5. QED BY <1>2, <1>3, <1>4

\* Every step leaves the handlers in flight bound to a learner and a session.
LEMMA BoundStep ==
  ASSUME TypeOK, RequestsAreBound, [Next]_vars
  PROVE  RequestsAreBound'
  <1>1. CASE UNCHANGED requests
    BY <1>1 DEF RequestsAreBound
  <1>2. ASSUME NEW r \in Requests, NEW q, Bound(q), requests' = [requests EXCEPT ![r] = q]
        PROVE  RequestsAreBound'
    BY <1>2 DEF TypeOK, RequestsAreBound
  <1>3. ASSUME NEW r \in Requests, Moves(r) PROVE RequestsAreBound'
    BY <1>2, <1>3 DEF Moves
  <1>4. ASSUME NEW r \in Requests, SubmitLock(r) PROVE RequestsAreBound'
    <2>1. Bound([requests[r] EXCEPT !.pc = "claim", !.at = now])
      BY <1>4 DEF SubmitLock, TypeOK, RequestsAreBound, Bound, RequestRecords
    <2>2. requests' = [requests EXCEPT ![r] = [requests[r] EXCEPT !.pc = "claim", !.at = now]]
      BY <1>4 DEF SubmitLock, TypeOK
    <2>3. QED BY <1>2, <2>1, <2>2
  <1>5. ASSUME NEW r \in Requests, Continue(r) \/ Fail(r) PROVE RequestsAreBound'
    BY <1>3, <1>4, <1>5, AnswerMoves, HandlerMoves
       DEF Continue, Fail, SubmitCommit, SubmitRefused
  <1>6. QED
    BY <1>1, <1>3, <1>5, ArriveMoves
       DEF Next, Tick, UpdateSchedule, ExpireStaleSessions, vars

\* A row and its committed attempts stay in agreement, and a session is
\* submitted again only after a stale EXPIRED write.
LEMMA LedgerStep ==
  ASSUME TypeOK, RequestsAreBound, StatusAgreesWithLedger,
         ResubmissionNeedsStaleExpiry, [Next]_vars
  PROVE  StatusAgreesWithLedger' /\ ResubmissionNeedsStaleExpiry'
  <1> DEFINE Goal == StatusAgreesWithLedger' /\ ResubmissionNeedsStaleExpiry'
             Kept == \A s \in Sessions :
                        \/ sessions'[s].status = sessions[s].status
                        \/ ~Recorded(s) /\ sessions'[s].status # "SUBMITTED"
  <1>1. ASSUME ledger' = ledger, unsubmitted' = unsubmitted, Kept
        PROVE  Goal
    BY <1>1 DEF StatusAgreesWithLedger, ResubmissionNeedsStaleExpiry, Recorded
  <1>2. CASE UNCHANGED <<sessions, ledger, unsubmitted>>
    <2>1. Kept /\ ledger' = ledger /\ unsubmitted' = unsubmitted
      BY <1>2
    <2>2. QED BY <1>1, <2>1
  <1>3. CASE ExpireStaleSessions
    <2>1. SUFFICES Kept
      BY <1>1, <1>3 DEF ExpireStaleSessions
    <2>2. SUFFICES ASSUME NEW s \in Sessions
                   PROVE  \/ sessions'[s].status = sessions[s].status
                          \/ ~Recorded(s) /\ sessions'[s].status # "SUBMITTED"
      OBVIOUS
    <2>3. sessions'[s] = IF Stale(s) THEN [sessions[s] EXCEPT !.status = "EXPIRED"]
                         ELSE sessions[s]
      BY <1>3 DEF ExpireStaleSessions
    <2>4. CASE Stale(s)
      <3>1. sessions'[s].status = "EXPIRED"
        BY <2>3, <2>4 DEF TypeOK, RowRecords
      <3>2. ~Recorded(s)
        BY <2>4 DEF Stale, StatusAgreesWithLedger
      <3>3. QED BY <3>1, <3>2
    <2>5. QED BY <2>3, <2>4
  <1>4. ASSUME NEW r \in Requests, ExpireWrite(r)
        PROVE  Goal
    <2>1. PICK s \in Sessions :
            /\ sessions' = [sessions EXCEPT ![s].status = "EXPIRED"]
            /\ unsubmitted' = IF sessions[s].status = "SUBMITTED"
                              THEN unsubmitted \cup {s} ELSE unsubmitted
      BY <1>4 DEF ExpireWrite, TypeOK, RequestRecords
    <2>2. ledger' = ledger
      BY <1>4 DEF ExpireWrite
    <2>3. \A t \in Sessions : Recorded(t)' <=> Recorded(t)
      BY <2>2 DEF Recorded
    <2>4. /\ sessions'[s].status = "EXPIRED"
          /\ \A t \in Sessions \ {s} : sessions'[t] = sessions[t]
      BY <2>1 DEF TypeOK, RowRecords
    <2>5. StatusAgreesWithLedger'
      BY <2>1, <2>3, <2>4 DEF StatusAgreesWithLedger
    <2>6. QED BY <2>1, <2>2, <2>5 DEF ResubmissionNeedsStaleExpiry
  <1>5. ASSUME NEW r \in Requests, StartCreate(r)
        PROVE  Goal
    <2>1. PICK s \in Sessions \ Rows :
            sessions' = [sessions EXCEPT ![s] =
               [status |-> "IN_PROGRESS", owner |-> requests[r].user, answers |-> Blank,
                expiresAt |-> SessionExpiry(requests[r].ttl, requests[r].endsAt)]]
      BY <1>5 DEF StartCreate
    <2>2. ~Recorded(s)
      BY <2>1 DEF Rows, StatusAgreesWithLedger
    <2>3. /\ sessions'[s].status = "IN_PROGRESS"
          /\ \A t \in Sessions \ {s} : sessions'[t] = sessions[t]
      BY <2>1 DEF TypeOK
    <2>4. Kept
      BY <2>2, <2>3
    <2>5. ledger' = ledger /\ unsubmitted' = unsubmitted
      BY <1>5 DEF StartCreate
    <2>6. QED BY <1>1, <2>4, <2>5
  <1>6. ASSUME NEW r \in Requests, SaveWrite(r)
        PROVE  Goal
    <2>1. Kept
      BY <1>6 DEF SaveWrite, TypeOK, RowRecords
    <2>2. ledger' = ledger /\ unsubmitted' = unsubmitted
      BY <1>6 DEF SaveWrite
    <2>3. QED BY <1>1, <2>1, <2>2
  <1>7. ASSUME NEW r \in Requests, SubmitCommit(r)
        PROVE  Goal
    <2>1. requests[r].user \in Users /\ requests[r].session \in Sessions
      BY <1>7 DEF SubmitCommit, RequestsAreBound, Bound
    <2> DEFINE Entry == [session |-> requests[r].session, at |-> requests[r].at,
                         answers |-> requests[r].answers]
    <2>10. /\ sessions' = [sessions EXCEPT ![requests[r].session].status = "SUBMITTED"]
           /\ ledger' = [ledger EXCEPT ![requests[r].user] =
                           Append(ledger[requests[r].user], Entry)]
           /\ unsubmitted' = unsubmitted
           /\ sessions[requests[r].session].status \in {"IN_PROGRESS", "EXPIRED"}
           /\ Entry.session = requests[r].session
      BY <1>7 DEF SubmitCommit, Claimable
    <2>11. Entry \in Submissions
      BY <2>1 DEF TypeOK, RequestRecords, Submissions
    <2>2. PICK u \in Users, s \in Sessions, e \in Submissions :
            /\ sessions' = [sessions EXCEPT ![s].status = "SUBMITTED"]
            /\ ledger' = [ledger EXCEPT ![u] = Append(ledger[u], e)]
            /\ unsubmitted' = unsubmitted
            /\ sessions[s].status \in {"IN_PROGRESS", "EXPIRED"}
            /\ e.session = s
      <3> HIDE DEF Entry
      <3>1. QED BY <2>1, <2>10, <2>11
    <2>3. /\ Len(ledger'[u]) = Len(ledger[u]) + 1
          /\ \A i \in 1..Len(ledger[u]) : ledger'[u][i] = ledger[u][i]
          /\ ledger'[u][Len(ledger[u]) + 1] = e
          /\ \A v \in Users \ {u} : ledger'[v] = ledger[v]
          /\ \A v \in Users : Len(ledger[v]) \in Nat
      <3>1. ledger[u] \in Seq(Submissions)
        BY DEF TypeOK
      <3>2. ledger'[u] = Append(ledger[u], e)
        BY <2>2 DEF TypeOK
      <3>3. \A v \in Users \ {u} : ledger'[v] = ledger[v]
        BY <2>2 DEF TypeOK
      <3>4. \A v \in Users : Len(ledger[v]) \in Nat
        BY DEF TypeOK
      <3>5. QED BY <3>1, <3>2, <3>3, <3>4
    <2>4. /\ sessions'[s].status = "SUBMITTED"
          /\ \A t \in Sessions \ {s} : sessions'[t] = sessions[t]
      BY <2>2 DEF TypeOK, RowRecords
    <2>5. Recorded(s)'
      BY <2>2, <2>3 DEF Recorded
    <2>6. \A t \in Sessions \ {s} : Recorded(t)' <=> Recorded(t)
      <3>1. SUFFICES ASSUME NEW t \in Sessions \ {s} PROVE Recorded(t)' <=> Recorded(t)
        OBVIOUS
      <3>2. ASSUME Recorded(t) PROVE Recorded(t)'
        <4>1. PICK v \in Users : \E i \in 1..Len(ledger[v]) : ledger[v][i].session = t
          BY <3>2 DEF Recorded
        <4>2. \E i \in 1..Len(ledger'[v]) : ledger'[v][i].session = t
          BY <2>3, <4>1, SMTT(30)
        <4>3. QED BY <4>2 DEF Recorded
      <3>3. ASSUME Recorded(t)' PROVE Recorded(t)
        <4>1. PICK v \in Users : \E i \in 1..Len(ledger'[v]) : ledger'[v][i].session = t
          BY <3>3 DEF Recorded
        <4>2. e.session # t
          BY <2>2
        <4>3. \E i \in 1..Len(ledger[v]) : ledger[v][i].session = t
          <5>1. CASE v = u
            <6>1. PICK i \in 1..Len(ledger'[u]) : ledger'[u][i].session = t
              BY <4>1, <5>1
            <6>2. i # Len(ledger[u]) + 1
              BY <2>3, <4>2, <6>1
            <6>3. i \in 1..Len(ledger[u])
              BY <2>3, <6>2
            <6>4. QED BY <2>3, <5>1, <6>1, <6>3
          <5>2. CASE v # u
            BY <2>3, <4>1, <5>2
          <5>3. QED BY <5>1, <5>2
        <4>4. QED BY <4>3 DEF Recorded
      <3>4. QED BY <3>2, <3>3
    <2>7. StatusAgreesWithLedger'
      BY <2>2, <2>4, <2>5, <2>6 DEF StatusAgreesWithLedger
    <2>8. ResubmissionNeedsStaleExpiry'
      <3>1. SUFFICES ASSUME NEW v \in Users, NEW i \in 1..Len(ledger'[v]),
                            NEW j \in 1..Len(ledger'[v]), i < j,
                            ledger'[v][i].session = ledger'[v][j].session
                     PROVE  ledger'[v][i].session \in unsubmitted
        BY <2>2 DEF ResubmissionNeedsStaleExpiry
      <3>2. CASE v # u \/ j # Len(ledger[u]) + 1
        <4>1. i \in 1..Len(ledger[v]) /\ j \in 1..Len(ledger[v])
          <5>1. CASE v # u
            BY <2>3, <3>1, <5>1
          <5>2. CASE v = u
            BY <2>3, <3>1, <3>2, <5>2
          <5>3. QED BY <5>1, <5>2
        <4>2. ledger'[v][i] = ledger[v][i] /\ ledger'[v][j] = ledger[v][j]
          BY <2>3, <4>1
        <4>3. QED BY <3>1, <4>1, <4>2 DEF ResubmissionNeedsStaleExpiry
      <3>3. CASE v = u /\ j = Len(ledger[u]) + 1
        <4>1. i \in 1..Len(ledger[u]) /\ ledger[u][i].session = s
          BY <2>2, <2>3, <3>1, <3>3
        <4>2. Recorded(s)
          BY <4>1 DEF Recorded
        <4>3. s \in unsubmitted
          BY <2>2, <4>2 DEF StatusAgreesWithLedger
        <4>4. QED BY <2>3, <3>3, <4>1, <4>3
      <3>4. QED BY <3>2, <3>3
    <2>9. QED BY <2>7, <2>8
  <1>8. ASSUME NEW r \in Requests, Arrive(r)
        PROVE  UNCHANGED <<sessions, ledger, unsubmitted>>
    BY <1>8, ZenonT(40) DEF Arrive, StartRead, ResumeRead, ListRead, AbandonRead, SaveRead, SubmitRead
  <1>9. ASSUME NEW r \in Requests, Continue(r) \/ Fail(r)
        PROVE  Goal
    BY <1>2, <1>4, <1>5, <1>6, <1>7, <1>9
       DEF Continue, Fail, StartCreateFails, SubmitLock, SubmitRefused
  <1>10. QED
    BY <1>2, <1>3, <1>8, <1>9 DEF Next, Tick, UpdateSchedule, vars

LEMMA InitSafety == Init => SafetyInv
  <1> SUFFICES ASSUME Init PROVE SafetyInv
    OBVIOUS
  <1>1. TypeOK
    BY InitType
  <1>2. RequestsAreBound
    BY DEF Init, RequestsAreBound, Bound, Idle
  <1>3. StatusAgreesWithLedger /\ ResubmissionNeedsStaleExpiry
    BY DEF Init, StatusAgreesWithLedger, ResubmissionNeedsStaleExpiry, Recorded, NoRow
  <1>4. QED BY <1>1, <1>2, <1>3 DEF SafetyInv

LEMMA SafetyStep == SafetyInv /\ [Next]_vars => SafetyInv'
  BY TypeStep, BoundStep, LedgerStep DEF SafetyInv

\* In every behaviour the rows keep their shape, agree with the attempts that
\* were committed for them, and are claimed twice only after a stale write.
THEOREM SessionSafety ==
  Spec => [](TypeOK /\ StatusAgreesWithLedger /\ ResubmissionNeedsStaleExpiry)
  <1>1. SafetyInv => TypeOK /\ StatusAgreesWithLedger /\ ResubmissionNeedsStaleExpiry
    BY DEF SafetyInv
  <1>2. QED BY <1>1, InitSafety, SafetyStep, PTL DEF Spec

\* A row says SUBMITTED exactly when its attempts were committed, but for one a
\* stale EXPIRED write landed on: whatever overlaps, no result is without a
\* submitted row and no submitted row without a result.
THEOREM StatusesAgree == Spec => []StatusAgreesWithLedger
  BY SessionSafety, PTL

-----------------------------------------------------------------------------
(* The order of submissions, and the refinement of FirstSubmitCounts.       *)

\* A step of a handler that is not at the claim, and does not reach it, leaves
\* locks and results alone.
LEMMA QuietStep ==
  ASSUME TypeOK, RequestsAreBound, OrderInv, NEW r \in Requests, NEW q,
         requests' = [requests EXCEPT ![r] = q],
         requests[r].pc # "claim", q.pc # "claim",
         UNCHANGED <<now, lock, ledger, official>>
  PROVE  OrderInv'
  <1>1. \A x \in Requests : requests'[x].pc = "claim" =>
            x # r /\ requests'[x] = requests[x]
    BY DEF TypeOK
  <1>2. \A u \in Users : lock[u] # None => lock[u] \in Requests \ {r}
    BY DEF TypeOK, OrderInv, LockIsHeldAtClaim
  <1>3. \A x \in Requests \ {r} : requests'[x] = requests[x]
    BY DEF TypeOK
  <1>4. LockIsHeldAtClaim'
    BY <1>1, <1>2, <1>3 DEF OrderInv, LockIsHeldAtClaim
  <1>5. ClaimIsLatest'
    BY <1>1 DEF OrderInv, ClaimIsLatest
  <1>6. (LedgerIsPast /\ OfficialIffRecorded)'
    BY DEF OrderInv, LedgerIsPast, OfficialIffRecorded
  <1>7. QED BY <1>4, <1>5, <1>6 DEF OrderInv

\* The same holds when no handler moves and time does not go back.
LEMMA ClockStep ==
  ASSUME TypeOK, RequestsAreBound, OrderInv, now' \in Nat, now <= now',
         UNCHANGED <<requests, lock, ledger, official>>
  PROVE  OrderInv'
  <1>1. now \in Nat
    BY BoundsAreNaturals DEF TypeOK
  <1>2. \A r \in Requests : requests[r].at \in Nat
    BY BoundsAreNaturals DEF TypeOK, RequestRecords, Times, NoEnd
  <1>3. \A u \in Users : \A i \in 1..Len(ledger[u]) : ledger[u][i].at \in Nat
    <2>1. \A u \in Users : ledger[u] \in Seq(Submissions)
      BY DEF TypeOK
    <2>2. \A e \in Submissions : e.at \in Nat
      BY BoundsAreNaturals DEF Submissions, Times, NoEnd
    <2>3. QED BY <2>1, <2>2
  <1>4. LockIsHeldAtClaim' /\ OfficialIffRecorded'
    BY DEF OrderInv, LockIsHeldAtClaim, OfficialIffRecorded
  <1>5. ClaimIsLatest'
    BY <1>1, <1>2 DEF OrderInv, ClaimIsLatest
  <1>6. LedgerIsPast'
    BY <1>1, <1>3 DEF OrderInv, LedgerIsPast
  <1>7. QED BY <1>4, <1>5, <1>6 DEF OrderInv

\* A transaction that ends without a commit gives its lock back.
LEMMA ReleaseStep ==
  ASSUME TypeOK, RequestsAreBound, OrderInv, NEW r \in Requests, Answer(r),
         lock' = [u \in Users |-> IF lock[u] = r THEN None ELSE lock[u]],
         UNCHANGED <<now, ledger, official>>
  PROVE  OrderInv'
  <1>1. requests'[r].pc = "idle" /\ \A x \in Requests \ {r} : requests'[x] = requests[x]
    BY DEF TypeOK, Answer, Idle
  <1>2. LockIsHeldAtClaim'
    <2>1. ASSUME NEW x \in Requests, requests'[x].pc = "claim"
          PROVE  lock'[requests'[x].user] = x
      <3>1. x # r /\ requests'[x] = requests[x]
        BY <1>1, <2>1
      <3>2. requests[x].user \in Users /\ lock[requests[x].user] = x
        BY <2>1, <3>1 DEF RequestsAreBound, Bound, OrderInv, LockIsHeldAtClaim
      <3>3. QED BY <3>1, <3>2
    <2>2. ASSUME NEW u \in Users, lock'[u] # None
          PROVE  requests'[lock'[u]].pc = "claim" /\ requests'[lock'[u]].user = u
      <3>1. lock[u] # r /\ lock'[u] = lock[u]
        BY <2>2
      <3>2. lock[u] \in Requests \ {r}
        BY <2>2, <3>1 DEF TypeOK
      <3>3. QED BY <1>1, <2>2, <3>1, <3>2 DEF OrderInv, LockIsHeldAtClaim
    <2>3. QED BY <2>1, <2>2 DEF LockIsHeldAtClaim
  <1>3. ClaimIsLatest'
    BY <1>1 DEF OrderInv, ClaimIsLatest
  <1>4. (LedgerIsPast /\ OfficialIffRecorded)'
    BY DEF OrderInv, LedgerIsPast, OfficialIffRecorded
  <1>5. QED BY <1>2, <1>3, <1>4 DEF OrderInv

\* Taking the lock reads a clock no recorded submission is ahead of.
LEMMA LockStep ==
  ASSUME TypeOK, RequestsAreBound, OrderInv, NEW r \in Requests, SubmitLock(r)
  PROVE  OrderInv'
  <1> DEFINE u == requests[r].user
  <1>1. u \in Users /\ r # None
    BY NoneIsNoValue DEF SubmitLock, RequestsAreBound, Bound
  <1>2. /\ requests'[r].pc = "claim" /\ requests'[r].at = now /\ requests'[r].user = u
        /\ \A x \in Requests \ {r} : requests'[x] = requests[x]
    BY DEF SubmitLock, TypeOK, RequestRecords
  <1>3. /\ lock[u] = None /\ lock'[u] = r
        /\ \A v \in Users \ {u} : lock'[v] = lock[v]
    BY <1>1 DEF SubmitLock, TypeOK
  <1>4. requests[r].pc = "lock" /\ UNCHANGED <<now, ledger, official>>
    BY DEF SubmitLock
  <1>5. now <= now
    BY BoundsAreNaturals DEF TypeOK
  <1> HIDE DEF u
  <1>6. LockIsHeldAtClaim'
    <2>1. ASSUME NEW x \in Requests, requests'[x].pc = "claim"
          PROVE  lock'[requests'[x].user] = x
      <3>1. CASE x = r
        BY <1>2, <1>3, <3>1
      <3>2. CASE x # r
        <4>1. requests[x].user \in Users /\ lock[requests[x].user] = x
          BY <1>2, <2>1, <3>2 DEF RequestsAreBound, Bound, OrderInv, LockIsHeldAtClaim
        <4>2. x # None
          BY NoneIsNoValue
        <4>3. QED BY <1>2, <1>3, <3>2, <4>1, <4>2
      <3>3. QED BY <3>1, <3>2
    <2>2. ASSUME NEW v \in Users, lock'[v] # None
          PROVE  requests'[lock'[v]].pc = "claim" /\ requests'[lock'[v]].user = v
      <3>1. CASE v = u
        BY <1>2, <1>3, <3>1
      <3>2. CASE v # u
        <4>1. /\ lock'[v] = lock[v] /\ lock[v] \in Requests
              /\ requests[lock[v]].pc = "claim" /\ requests[lock[v]].user = v
          BY <1>3, <2>2, <3>2 DEF TypeOK, OrderInv, LockIsHeldAtClaim
        <4>2. lock[v] # r
          BY <1>4, <4>1
        <4>3. QED BY <1>2, <4>1, <4>2
      <3>3. QED BY <3>1, <3>2
    <2>3. QED BY <2>1, <2>2 DEF LockIsHeldAtClaim
  <1>7. ClaimIsLatest'
    <2>1. SUFFICES ASSUME NEW x \in Requests, requests'[x].pc = "claim"
                   PROVE  /\ requests'[x].at <= now
                          /\ \A i \in 1..Len(ledger[requests'[x].user]) :
                                ledger[requests'[x].user][i].at <= requests'[x].at
      BY <1>4 DEF ClaimIsLatest
    <2>2. CASE x = r
      BY <1>1, <1>2, <1>5, <2>2 DEF OrderInv, LedgerIsPast
    <2>3. CASE x # r
      BY <1>2, <2>1, <2>3 DEF OrderInv, ClaimIsLatest
    <2>4. QED BY <2>2, <2>3
  <1>8. (LedgerIsPast /\ OfficialIffRecorded)'
    BY <1>4 DEF OrderInv, LedgerIsPast, OfficialIffRecorded
  <1>9. QED BY <1>6, <1>7, <1>8 DEF OrderInv

\* A commit records its submission last, and counts it when it is the first.
LEMMA CommitStep ==
  ASSUME TypeOK, RequestsAreBound, OrderInv, NEW r \in Requests, SubmitCommit(r)
  PROVE  OrderInv' /\ \E u \in Users, e \in Submissions : Promise!Submit(u, e)
  <1> DEFINE Entry == [session |-> requests[r].session, at |-> requests[r].at,
                       answers |-> requests[r].answers]
  <1>1. requests[r].user \in Users /\ requests[r].session \in Sessions
    BY DEF SubmitCommit, RequestsAreBound, Bound
  <1>2. Entry \in Submissions /\ Entry.at = requests[r].at
    BY <1>1 DEF TypeOK, RequestRecords, Submissions
  <1>3. /\ requests[r].pc = "claim"
        /\ ledger' = [ledger EXCEPT ![requests[r].user] =
                        Append(ledger[requests[r].user], Entry)]
        /\ official' = [official EXCEPT ![requests[r].user] =
                          Counted(requests[r].user, Entry)]
        /\ lock' = [lock EXCEPT ![requests[r].user] = None]
        /\ Answer(r)
        /\ now' = now
    BY DEF SubmitCommit
  <1> HIDE DEF Entry
  <1>4. PICK u \in Users, e \in Submissions :
            /\ requests[r].user = u
            /\ e.at = requests[r].at
            /\ ledger' = [ledger EXCEPT ![u] = Append(ledger[u], e)]
            /\ official' = [official EXCEPT ![u] = Counted(u, e)]
            /\ lock' = [lock EXCEPT ![u] = None]
    BY <1>1, <1>2, <1>3
  <1>5. /\ e.at <= now
        /\ \A i \in 1..Len(ledger[u]) : ledger[u][i].at <= e.at
    BY <1>3, <1>4 DEF OrderInv, ClaimIsLatest
  <1>6. Promise!Submit(u, e)
    BY <1>4, <1>5 DEF Promise!Submit, Counted, OrderInv, OfficialIffRecorded, TypeOK
  <1>7. lock[u] = r
    BY <1>3, <1>4 DEF OrderInv, LockIsHeldAtClaim
  <1>8. /\ requests'[r].pc = "idle"
        /\ \A x \in Requests \ {r} : requests'[x] = requests[x]
    BY <1>3 DEF TypeOK, Answer, Idle
  <1>9. \A x \in Requests \ {r} : requests[x].pc = "claim" =>
            requests[x].user \in Users \ {u}
    BY <1>7 DEF RequestsAreBound, Bound, OrderInv, LockIsHeldAtClaim
  <1>10. \A v \in Users \ {u} :
            lock'[v] = lock[v] /\ ledger'[v] = ledger[v] /\ official'[v] = official[v]
    BY <1>4 DEF TypeOK
  <1>11. LockIsHeldAtClaim'
    <2>1. ASSUME NEW x \in Requests, requests'[x].pc = "claim"
          PROVE  lock'[requests'[x].user] = x
      BY <1>8, <1>9, <1>10, <2>1 DEF OrderInv, LockIsHeldAtClaim
    <2>2. ASSUME NEW v \in Users, lock'[v] # None
          PROVE  requests'[lock'[v]].pc = "claim" /\ requests'[lock'[v]].user = v
      <3>1. v # u
        BY <1>4, <2>2 DEF TypeOK
      <3>2. /\ lock'[v] = lock[v] /\ lock[v] \in Requests
            /\ requests[lock[v]].pc = "claim" /\ requests[lock[v]].user = v
        BY <1>10, <2>2, <3>1 DEF TypeOK, OrderInv, LockIsHeldAtClaim
      <3>3. lock[v] # r
        BY <1>4, <3>1, <3>2
      <3>4. QED BY <1>8, <3>2, <3>3
    <2>3. QED BY <2>1, <2>2 DEF LockIsHeldAtClaim
  <1>12. ClaimIsLatest'
    <2>1. SUFFICES ASSUME NEW x \in Requests, requests'[x].pc = "claim"
                   PROVE  /\ requests'[x].at <= now
                          /\ \A i \in 1..Len(ledger'[requests'[x].user]) :
                                ledger'[requests'[x].user][i].at <= requests'[x].at
      BY <1>3 DEF ClaimIsLatest
    <2>2. x # r /\ requests'[x] = requests[x]
      BY <1>8, <2>1
    <2>3. requests[x].user \in Users \ {u}
      BY <1>9, <2>1, <2>2
    <2>4. ledger'[requests[x].user] = ledger[requests[x].user]
      BY <1>10, <2>3
    <2>5. QED BY <2>1, <2>2, <2>4 DEF OrderInv, ClaimIsLatest
  <1>13. /\ Len(ledger'[u]) = Len(ledger[u]) + 1
         /\ \A i \in 1..Len(ledger[u]) : ledger'[u][i] = ledger[u][i]
         /\ ledger'[u][Len(ledger[u]) + 1] = e
         /\ Len(ledger[u]) \in Nat
         /\ ledger'[u] # <<>>
    <2>1. ledger[u] \in Seq(Submissions) /\ ledger'[u] = Append(ledger[u], e)
      BY <1>4 DEF TypeOK
    <2>2. QED BY <2>1
  <1>14. LedgerIsPast'
    <2>1. SUFFICES ASSUME NEW v \in Users, NEW i \in 1..Len(ledger'[v])
                   PROVE  ledger'[v][i].at <= now
      BY <1>3 DEF LedgerIsPast
    <2>2. CASE v # u
      BY <1>10, <2>2 DEF OrderInv, LedgerIsPast
    <2>3. CASE v = u /\ i = Len(ledger[u]) + 1
      BY <1>5, <1>13, <2>3
    <2>4. CASE v = u /\ i # Len(ledger[u]) + 1
      <3>1. i \in 1..Len(ledger[u])
        BY <1>13, <2>4
      <3>2. QED BY <1>13, <2>4, <3>1 DEF OrderInv, LedgerIsPast
    <2>5. QED BY <2>2, <2>3, <2>4
  <1>15. OfficialIffRecorded'
    <2>1. official'[u] # None
      BY <1>4, NoneIsNoValue DEF TypeOK, Counted
    <2>2. QED BY <1>10, <1>13, <2>1 DEF OrderInv, OfficialIffRecorded
  <1>16. QED BY <1>6, <1>11, <1>12, <1>14, <1>15 DEF OrderInv

\* Every step keeps the order of submissions, and is a submission as the
\* leaderboard promises it or leaves the results alone.
LEMMA OrderStep ==
  ASSUME TypeOK, RequestsAreBound, OrderInv, [Next]_vars
  PROVE  OrderInv' /\ [Promise!Next]_(Promise!vars)
  <1> DEFINE Results == UNCHANGED <<ledger, official>>
  <1>1. Results => [Promise!Next]_(Promise!vars)
    BY DEF Promise!vars
  <1>2. CASE UNCHANGED <<now, requests, lock, ledger, official>>
    BY <1>1, <1>2, ClockStep, BoundsAreNaturals DEF TypeOK
  <1>3. CASE Tick
    BY <1>1, <1>3, ClockStep, BoundsAreNaturals DEF Tick, TypeOK
  <1>4. ASSUME NEW r \in Requests, Moves(r), requests[r].pc # "claim",
               UNCHANGED <<now, lock, ledger, official>>
        PROVE  OrderInv' /\ [Promise!Next]_(Promise!vars)
    BY <1>1, <1>4, QuietStep DEF Moves
  <1>5. ASSUME NEW r \in Requests, Arrive(r)
        PROVE  OrderInv' /\ [Promise!Next]_(Promise!vars)
    <2>1. requests[r].pc # "claim" /\ UNCHANGED <<now, lock, ledger, official>>
      BY <1>5, ZenonT(40) DEF Arrive, StartRead, ResumeRead, ListRead, AbandonRead, SaveRead,
                  SubmitRead, Issue
    <2>2. QED BY <1>4, <1>5, <2>1, ArriveMoves
  <1>6. ASSUME NEW r \in Requests,
               ExpireWrite(r) \/ StartCreate(r) \/ StartCreateFails(r) \/ SaveWrite(r)
        PROVE  OrderInv' /\ [Promise!Next]_(Promise!vars)
    <2>1. requests[r].pc # "claim" /\ UNCHANGED <<now, lock, ledger, official>>
      BY <1>6 DEF ExpireWrite, StartCreate, StartCreateFails, SaveWrite
    <2>2. QED BY <1>4, <1>6, <2>1, HandlerMoves
  <1>7. ASSUME NEW r \in Requests, SubmitRefused(r) \/ Fail(r)
        PROVE  OrderInv' /\ [Promise!Next]_(Promise!vars)
    <2>1. CASE Fail(r)
      BY <1>1, <2>1, ReleaseStep DEF Fail
    <2>2. CASE SubmitRefused(r)
      <3>1. \A u \in Users : lock[u] = r <=> u = requests[r].user
        BY <2>2, NoneIsNoValue
           DEF SubmitRefused, OrderInv, LockIsHeldAtClaim, RequestsAreBound, Bound
      <3>2. lock' = [u \in Users |-> IF lock[u] = r THEN None ELSE lock[u]]
        BY <2>2, <3>1 DEF SubmitRefused, TypeOK
      <3>3. QED BY <1>1, <2>2, <3>2, ReleaseStep DEF SubmitRefused
    <2>3. QED BY <1>7, <2>1, <2>2
  <1>8. ASSUME NEW r \in Requests, SubmitLock(r)
        PROVE  OrderInv' /\ [Promise!Next]_(Promise!vars)
    BY <1>1, <1>8, LockStep DEF SubmitLock
  <1>9. ASSUME NEW r \in Requests, SubmitCommit(r)
        PROVE  OrderInv' /\ [Promise!Next]_(Promise!vars)
    BY <1>9, CommitStep DEF Promise!Next
  <1>10. QED
    BY <1>2, <1>3, <1>5, <1>6, <1>7, <1>8, <1>9
       DEF Next, Continue, UpdateSchedule, ExpireStaleSessions, vars

LEMMA OrderInit == Init => TypeOK /\ RequestsAreBound /\ OrderInv /\ Promise!Init
  <1> SUFFICES ASSUME Init PROVE TypeOK /\ RequestsAreBound /\ OrderInv /\ Promise!Init
    OBVIOUS
  <1>1. TypeOK
    BY InitType
  <1>2. RequestsAreBound /\ LockIsHeldAtClaim /\ ClaimIsLatest
    BY DEF Init, RequestsAreBound, Bound, Idle, LockIsHeldAtClaim, ClaimIsLatest
  <1>3. LedgerIsPast /\ OfficialIffRecorded
    BY DEF Init, LedgerIsPast, OfficialIffRecorded
  <1>4. Promise!Init
    BY DEF Init, Promise!Init
  <1>5. QED BY <1>1, <1>2, <1>3, <1>4 DEF OrderInv

\* The rows keep their shape; every handler in flight knows its learner, and the
\* session it is about to write; and a learner's advisory lock is held exactly by
\* that learner's request between the lock and the commit of submitSession: no
\* handler that fails, is refused or never took it leaves it held.
THEOREM SessionsAreTyped == Spec => [](TypeOK /\ RequestsAreBound /\ LockIsHeldAtClaim)
  <1>1. TypeOK /\ RequestsAreBound /\ OrderInv /\ [Next]_vars
          => (TypeOK /\ RequestsAreBound /\ OrderInv)'
    BY TypeStep, BoundStep, OrderStep
  <1>2. OrderInv => LockIsHeldAtClaim
    BY DEF OrderInv
  <1>3. QED BY <1>1, <1>2, OrderInit, PTL DEF Spec

\* Whatever overlaps the submissions of a learner, the results in the database
\* are those of the abstract leaderboard: recorded in the order of their times,
\* the first one official for ever.
THEOREM FirstSubmissionIsOfficial == Spec => FirstSubmissionCounts
  <1>1. TypeOK /\ RequestsAreBound /\ OrderInv /\ [Next]_vars
          => (TypeOK /\ RequestsAreBound /\ OrderInv)' /\ [Promise!Next]_(Promise!vars)
    BY TypeStep, BoundStep, OrderStep
  <1>2. QED BY <1>1, OrderInit, PTL DEF Spec, FirstSubmissionCounts, Promise!Spec

-----------------------------------------------------------------------------
(***************************************************************************)
(* Clients that wait for each answer before the next request.              *)
(*                                                                         *)
(* Such a learner has one session in progress, submits each session once,  *)
(* and keeps and is graded on every answer that was acknowledged, although *)
(* nothing but the client itself keeps one of its requests from overtaking *)
(* another.                                                                *)
(*                                                                         *)
(* The argument: a request touches rows of its learner only, so that what  *)
(* a request in flight has read still holds when it writes; only the       *)
(* cleanup job comes in between, and it only expires.                      *)
(***************************************************************************)

\* A row of the learner that may still be saved to or submitted.
Mine(u, s) == s \in Owned(u, {"IN_PROGRESS", "EXPIRED"})

Submits(q) == q.pc \in {"lock", "claim"} \/ (q.pc = "expire" /\ q.next = "lock")

\* What a handler in flight has read still holds.
Serves(q) ==
    /\ q.pc = "expire" => \A s \in q.todo : Mine(q.user, s)
    /\ q.pc = "expire" /\ q.next = "create" => Live(q.user) \subseteq q.todo
    /\ q.pc = "create" => Live(q.user) = {}
    /\ q.pc = "write" \/ Submits(q) =>
         Mine(q.user, q.session) /\ q.answers = sessions[q.session].answers

AllServe == \A r \in Requests : Serves(requests[r])

\* A learner has one request in flight.
Alone ==
    \A r, x \in Requests :
        requests[r].user # None /\ requests[r].user = requests[x].user => r = x

AbsentAreBlank ==
    \A s \in Sessions :
        sessions[s].status = "ABSENT" => sessions[s] = NoRow /\ acked[s] = Blank

\* A step keeps the rows of v, but for those that expire.
Undisturbed(v) ==
    \A s \in Sessions :
        sessions[s].owner = v \/ sessions'[s].owner = v =>
            /\ sessions[s].owner = v /\ sessions'[s].owner = v
            /\ sessions'[s].answers = sessions[s].answers
            /\ \/ sessions'[s].status = sessions[s].status
               \/ sessions[s].status = "IN_PROGRESS" /\ sessions'[s].status = "EXPIRED"

-----------------------------------------------------------------------------
(* What a request has read holds until its own learner's next step.         *)

LEMMA ServesStays ==
  ASSUME NEW q, Undisturbed(q.user), Serves(q)
  PROVE  Serves(q)'
  <1>1. \A s : Mine(q.user, s) => Mine(q.user, s)'
    BY DEF Undisturbed, Mine, Owned
  <1>2. Live(q.user)' \subseteq Live(q.user)
    BY DEF Undisturbed, Live, Owned
  <1>3. \A s : Mine(q.user, s) => sessions'[s].answers = sessions[s].answers
    BY DEF Undisturbed, Mine, Owned
  <1>4. (q.pc = "expire" => \A s \in q.todo : Mine(q.user, s))'
    BY <1>1 DEF Serves
  <1>5. (q.pc = "expire" /\ q.next = "create" => Live(q.user) \subseteq q.todo)'
    BY <1>2 DEF Serves
  <1>6. (q.pc = "create" => Live(q.user) = {})'
    BY <1>2 DEF Serves
  <1>7. (q.pc = "write" \/ Submits(q) =>
           Mine(q.user, q.session) /\ q.answers = sessions[q.session].answers)'
    BY <1>1, <1>3 DEF Serves, Submits
  <1>8. QED BY <1>4, <1>5, <1>6, <1>7 DEF Serves

\* When one handler moves, the requests of the other learners lose nothing.
LEMMA OneMoves ==
  ASSUME TypeOK, RequestsAreBound, Alone, AllServe,
         NEW r \in Requests, NEW u \in Users, NEW q,
         requests' = [requests EXCEPT ![r] = q],
         q.user \in {u, None},
         \A x \in Requests \ {r} : requests[x].user # u,
         \A v \in Users \ {u} : Undisturbed(v),
         Serves(q)'
  PROVE  Alone' /\ AllServe'
  <1>1. requests'[r] = q /\ \A x \in Requests \ {r} : requests'[x] = requests[x]
    BY DEF TypeOK
  <1>2. Alone'
    BY <1>1 DEF Alone
  <1>3. ASSUME NEW x \in Requests, x # r PROVE Serves(requests[x])'
    <2>1. PICK p : p = requests[x]
      OBVIOUS
    <2>2. p = requests'[x] /\ Serves(p)
      BY <1>1, <1>3, <2>1 DEF AllServe
    <2>3. CASE p.pc = "idle"
      BY <2>2, <2>3 DEF Serves, Submits
    <2>4. CASE p.pc # "idle"
      <3>1. p.user \in Users \ {u}
        BY <1>3, <2>1, <2>4 DEF RequestsAreBound, Bound
      <3>2. Serves(p)'
        BY <2>2, <3>1, ServesStays
      <3>3. QED BY <2>2, <3>2 DEF Serves, Submits
    <2>5. QED BY <2>3, <2>4
  <1>4. Serves(requests[r])'
    BY <1>1 DEF Serves, Submits
  <1>5. QED BY <1>2, <1>3, <1>4 DEF AllServe

\* A request that ends takes nothing with it.
LEMMA IdleServes == Idle.user = None /\ Serves(Idle)'
  BY DEF Idle, Serves, Submits

\* Nobody else serves the learner of a handler in flight.
LEMMA OthersAreOthers ==
  ASSUME Alone, RequestsAreBound, NEW r \in Requests, requests[r].pc # "idle"
  PROVE  /\ requests[r].user \in Users
         /\ \A x \in Requests \ {r} : requests[x].user # requests[r].user
  BY NoneIsNoValue DEF Alone, RequestsAreBound, Bound

LEMMA StillUndisturbed ==
  ASSUME UNCHANGED sessions
  PROVE  \A v \in Users : Undisturbed(v)
  BY DEF Undisturbed

\* A handler that ends without a write.
LEMMA EndStep ==
  ASSUME TypeOK, RequestsAreBound, Alone, AllServe, NEW r \in Requests,
         requests[r].pc # "idle", Answer(r), UNCHANGED sessions
  PROVE  Alone' /\ AllServe'
  <1>1. PICK q : q = Idle
    OBVIOUS
  <1>2. q.user = None /\ Serves(q)'
    BY <1>1, IdleServes DEF Serves, Submits
  <1>3. PICK u \in Users : u = requests[r].user
    BY OthersAreOthers
  <1>4. QED BY <1>1, <1>2, <1>3, OneMoves, OthersAreOthers, StillUndisturbed DEF Answer

-----------------------------------------------------------------------------
(* The first step of a request: the client lets it overlap no other one.    *)

\* The request issued serves from the start.
LEMMA IssuedServes ==
  ASSUME Client = "serial", TypeOK, RequestsAreBound, Alone, AllServe,
         NEW r \in Requests, NEW u \in Users, NEW q,
         requests' = [requests EXCEPT ![r] = q], q.user = u, Serves(q),
         MayIssue(u, q.session, q.upd), UNCHANGED sessions
  PROVE  Alone' /\ AllServe'
  <1>1. \A x \in Requests \ {r} : requests[x].user # u
    BY DEF MayIssue
  <1>2. Serves(q)'
    BY ServesStays, StillUndisturbed
  <1>3. QED BY <1>1, <1>2, OneMoves, StillUndisturbed

LEMMA ArriveServes ==
  ASSUME Client = "serial", TypeOK, RequestsAreBound, Alone, AllServe,
         AtMostOneInProgress, NEW r \in Requests, Arrive(r)
  PROVE  Alone' /\ AllServe'
  <1>1. PICK u \in Users :
          \/ \E ttl \in Ttls : StartRead(r, u, ttl)
          \/ ResumeRead(r, u)
          \/ ListRead(r, u)
          \/ \E s \in Sessions :
              \/ AbandonRead(r, u, s)
              \/ \E upd \in Answers : SaveRead(r, u, s, upd)
              \/ SubmitRead(r, u, s)
    BY DEF Arrive
  <1>2. UNCHANGED sessions /\ \A x \in Requests : requests[x].user # u
    BY <1>1 DEF StartRead, ResumeRead, ListRead, AbandonRead, SaveRead, SubmitRead,
                Issue, MayIssue
  <1>3. SUFFICES \E q : /\ requests' = [requests EXCEPT ![r] = q]
                        /\ q.user = u /\ Serves(q)
    <2>1. \A s, upd : MayIssue(u, s, upd)
      BY <1>2 DEF MayIssue
    <2>2. QED BY <1>2, <2>1, IssuedServes
  <1>4. ASSUME NEW ttl \in Ttls, StartRead(r, u, ttl)
        PROVE  \E q : /\ requests' = [requests EXCEPT ![r] = q]
                      /\ q.user = u /\ Serves(q)
    <2> DEFINE req == [Idle EXCEPT !.user = u, !.endsAt = schedule.endsAt, !.ttl = ttl]
    <2>1. CASE /\ Live(u) = {}
               /\ requests' = [requests EXCEPT ![r] = [req EXCEPT !.pc = "create"]]
      <3>1. /\ [req EXCEPT !.pc = "create"].user = u
            /\ Serves([req EXCEPT !.pc = "create"])
        BY <2>1 DEF Idle, Serves, Submits
      <3>2. QED BY <2>1, <3>1
    <2>2. ASSUME NEW s \in Live(u), IsNewest(s, Live(u)),
                 requests' = [requests EXCEPT ![r] = ThenExpire(req, {s}, "create")]
          PROVE  \E q : /\ requests' = [requests EXCEPT ![r] = q]
                        /\ q.user = u /\ Serves(q)
      <3>1. Mine(u, s) /\ Live(u) \subseteq {s}
        BY <2>2 DEF Mine, Live, Owned, AtMostOneInProgress
      <3>2. /\ ThenExpire(req, {s}, "create").user = u
            /\ Serves(ThenExpire(req, {s}, "create"))
        BY <3>1 DEF Idle, ThenExpire, Serves, Submits
      <3>3. QED BY <2>2, <3>2
    <2>3. QED BY <1>4, <2>1, <2>2 DEF StartRead
  <1>5. ASSUME NEW p, p.pc = "idle", p.user = u, NEW S,
               p \in RequestRecords, \A s \in S : Mine(u, s),
               requests' = [requests EXCEPT ![r] = ThenExpire(p, S, "idle")]
        PROVE  \E q : /\ requests' = [requests EXCEPT ![r] = q]
                      /\ q.user = u /\ Serves(q)
    <2>1. /\ ThenExpire(p, S, "idle").user = u
          /\ Serves(ThenExpire(p, S, "idle"))
      BY <1>5 DEF RequestRecords, ThenExpire, Serves, Submits
    <2>2. QED BY <1>5, <2>1
  <1>6. ASSUME ResumeRead(r, u)
        PROVE  \E q : /\ requests' = [requests EXCEPT ![r] = q]
                      /\ q.user = u /\ Serves(q)
    <2>1. PICK s \in Owned(u, {"IN_PROGRESS", "EXPIRED"}) :
            requests' = [requests EXCEPT ![r] =
                           ThenExpire([Idle EXCEPT !.user = u], {s}, "idle")]
      BY <1>6 DEF ResumeRead
    <2>2. PICK p : p = [Idle EXCEPT !.user = u]
      OBVIOUS
    <2>3. p.pc = "idle" /\ p.user = u /\ p \in RequestRecords
      BY <2>2, IdleIsRequest DEF Idle, RequestRecords
    <2>4. PICK S : S = {s}
      OBVIOUS
    <2>5. \A t \in S : Mine(u, t)
      BY <2>4 DEF Mine
    <2>6. QED BY <1>5, <2>1, <2>2, <2>3, <2>4, <2>5
  <1>7. ASSUME ListRead(r, u)
        PROVE  \E q : /\ requests' = [requests EXCEPT ![r] = q]
                      /\ q.user = u /\ Serves(q)
    <2>1. PICK P \in Pages(u) :
            requests' = [requests EXCEPT ![r] = ThenExpire([Idle EXCEPT !.user = u],
               {s \in P : sessions[s].status = "IN_PROGRESS" /\ Overdue(s)}, "idle")]
      BY <1>7 DEF ListRead
    <2>2. PICK p, S : /\ p = [Idle EXCEPT !.user = u]
                      /\ S = {s \in P : sessions[s].status = "IN_PROGRESS" /\ Overdue(s)}
      OBVIOUS
    <2>3. p.pc = "idle" /\ p.user = u /\ p \in RequestRecords
      BY <2>2, IdleIsRequest DEF Idle, RequestRecords
    <2>4. \A s \in S : Mine(u, s)
      BY <2>2 DEF Mine, Pages, Owned
    <2>5. QED BY <1>5, <2>1, <2>2, <2>3, <2>4
  <1>8. ASSUME NEW s \in Sessions, AbandonRead(r, u, s)
        PROVE  \E q : /\ requests' = [requests EXCEPT ![r] = q]
                      /\ q.user = u /\ Serves(q)
    <2>1. PICK p : p = [Idle EXCEPT !.user = u, !.session = s]
      OBVIOUS
    <2>2. p.pc = "idle" /\ p.user = u /\ p \in RequestRecords
      BY <2>1, IdleIsRequest DEF Idle, RequestRecords
    <2>3. PICK S : S = {s}
      OBVIOUS
    <2>4. \A t \in S : Mine(u, t)
      BY <1>8, <2>3 DEF AbandonRead, Live, Owned, Mine
    <2>5. requests' = [requests EXCEPT ![r] = ThenExpire(p, S, "idle")]
      BY <1>8, <2>1, <2>3 DEF AbandonRead
    <2>6. QED BY <1>5, <2>2, <2>4, <2>5
  <1>9. ASSUME NEW s \in Sessions, NEW upd \in Answers, SaveRead(r, u, s, upd)
        PROVE  \E q : /\ requests' = [requests EXCEPT ![r] = q]
                      /\ q.user = u /\ Serves(q)
    <2>1. PICK p : p = [Idle EXCEPT !.user = u, !.session = s, !.upd = upd,
                                    !.answers = sessions[s].answers]
      OBVIOUS
    <2>2. p.pc = "idle" /\ p.user = u /\ p \in RequestRecords
      BY <2>1, IdleIsRequest DEF Idle, RequestRecords, TypeOK, RowRecords
    <2>3. Mine(u, s)
      BY <1>9 DEF SaveRead, Live, Owned, Mine
    <2>4. [p EXCEPT !.pc = "write"].user = u /\ Serves([p EXCEPT !.pc = "write"])
      BY <2>1, <2>3 DEF Idle, Serves, Submits
    <2>5. PICK S : S = {s}
      OBVIOUS
    <2>6. \/ requests' = [requests EXCEPT ![r] = ThenExpire(p, S, "idle")]
          \/ requests' = [requests EXCEPT ![r] = [p EXCEPT !.pc = "write"]]
      BY <1>9, <2>1, <2>5 DEF SaveRead
    <2>7. \A t \in S : Mine(u, t)
      BY <2>3, <2>5
    <2>8. QED BY <1>5, <2>2, <2>4, <2>6, <2>7
  <1>10. ASSUME NEW s \in Sessions, SubmitRead(r, u, s)
         PROVE  \E q : /\ requests' = [requests EXCEPT ![r] = q]
                       /\ q.user = u /\ Serves(q)
    <2>1. PICK p : p = [Idle EXCEPT !.user = u, !.session = s,
                                    !.answers = GradedAnswers(s)]
      OBVIOUS
    <2>2. Mine(u, s)
      BY <1>10 DEF SubmitRead, Mine
    <2>3. [p EXCEPT !.pc = "lock"].user = u /\ Serves([p EXCEPT !.pc = "lock"])
      BY <2>1, <2>2 DEF Idle, Serves, Submits, GradedAnswers
    <2>4. /\ ThenExpire(p, {s}, "lock").user = u
          /\ Serves(ThenExpire(p, {s}, "lock"))
      BY <2>1, <2>2 DEF Idle, Serves, Submits, GradedAnswers, ThenExpire
    <2>5. \/ requests' = [requests EXCEPT ![r] = ThenExpire(p, {s}, "lock")]
          \/ requests' = [requests EXCEPT ![r] = [p EXCEPT !.pc = "lock"]]
      BY <1>10, <2>1 DEF SubmitRead
    <2>6. QED BY <2>3, <2>4, <2>5
  <1>11. QED BY <1>1, <1>4, <1>6, <1>7, <1>8, <1>9, <1>10

-----------------------------------------------------------------------------
(* The rows: what is saved, what is in progress, what was recorded.         *)

RowsInv ==
    /\ AbsentAreBlank
    /\ unsubmitted = {}
    /\ AtMostOneInProgress
    /\ AckedAnswersKept
    /\ GradedAnswersAreTheAcked

\* A step that at most expires rows in progress keeps all of it.
LEMMA QuietRows ==
  ASSUME RowsInv, UNCHANGED <<acked, ledger, unsubmitted>>,
         \A s \in Sessions :
            \/ sessions'[s] = sessions[s]
            \/ /\ sessions[s].status \in {"IN_PROGRESS", "EXPIRED"}
               /\ sessions'[s] = [sessions[s] EXCEPT !.status = "EXPIRED"],
         TypeOK, TypeOK'
  PROVE  RowsInv'
  <1>1. \A s \in Sessions :
           /\ sessions'[s].answers = sessions[s].answers
           /\ sessions'[s].owner = sessions[s].owner
           /\ sessions'[s].status = "IN_PROGRESS" => sessions[s].status = "IN_PROGRESS"
           /\ sessions'[s].status = "ABSENT" => sessions'[s] = sessions[s]
    BY DEF TypeOK, RowRecords
  <1>2. AbsentAreBlank'
    BY <1>1 DEF RowsInv, AbsentAreBlank
  <1>3. AtMostOneInProgress'
    BY <1>1 DEF RowsInv, AtMostOneInProgress, Live, Owned
  <1>4. AckedAnswersKept'
    BY <1>1 DEF RowsInv, AckedAnswersKept
  <1>5. (unsubmitted = {} /\ GradedAnswersAreTheAcked)'
    BY DEF RowsInv, GradedAnswersAreTheAcked
  <1>6. QED BY <1>2, <1>3, <1>4, <1>5 DEF RowsInv

\* The cleanup job expires under the requests in flight, and harms none.
LEMMA CleanupStep ==
  ASSUME TypeOK, TypeOK', Alone, AllServe, RowsInv, ExpireStaleSessions
  PROVE  Alone' /\ AllServe' /\ RowsInv'
  <1>1. \A s \in Sessions :
           \/ sessions'[s] = sessions[s]
           \/ /\ sessions[s].status = "IN_PROGRESS"
              /\ sessions'[s] = [sessions[s] EXCEPT !.status = "EXPIRED"]
    BY DEF ExpireStaleSessions, Stale
  <1>2. UNCHANGED <<requests, acked, ledger, unsubmitted>>
    BY DEF ExpireStaleSessions
  <1>3. RowsInv'
    BY <1>1, <1>2, QuietRows
  <1>4. \A v : Undisturbed(v)
    BY <1>1 DEF Undisturbed, TypeOK, RowRecords
  <1>5. ASSUME NEW x \in Requests PROVE Serves(requests[x])'
    <2>1. PICK p : p = requests[x]
      OBVIOUS
    <2>2. p = requests'[x] /\ Serves(p)'
      BY <1>2, <1>4, <2>1, ServesStays DEF AllServe
    <2>3. QED BY <2>2 DEF Serves, Submits
  <1>6. QED BY <1>2, <1>3, <1>5 DEF Alone, AllServe

\* A session nobody submitted is in no result.
LEMMA MineIsNotRecorded ==
  ASSUME StatusAgreesWithLedger, unsubmitted = {}, NEW u, NEW s, Mine(u, s)
  PROVE  /\ s \in Sessions /\ sessions[s].owner = u /\ ~Recorded(s)
         /\ sessions[s].status \in {"IN_PROGRESS", "EXPIRED"}
  BY DEF StatusAgreesWithLedger, Mine, Owned

LEMMA ExpireWriteStep ==
  ASSUME TypeOK, TypeOK', RequestsAreBound, Alone, AllServe, RowsInv,
         NEW r \in Requests, ExpireWrite(r)
  PROVE  Alone' /\ AllServe' /\ RowsInv'
  <1>1. PICK p, u :
          /\ p = requests[r] /\ p.user = u /\ p.pc = "expire" /\ u \in Users
          /\ \A x \in Requests \ {r} : requests[x].user # u
    <2>1. PICK p : p = requests[r]
      OBVIOUS
    <2>2. p.pc = "expire"
      BY <2>1 DEF ExpireWrite
    <2>3. QED BY <2>1, <2>2, OthersAreOthers
  <1>2. PICK s \in p.todo :
          /\ sessions' = [sessions EXCEPT ![s].status = "EXPIRED"]
          /\ unsubmitted' = IF sessions[s].status = "SUBMITTED"
                            THEN unsubmitted \cup {s} ELSE unsubmitted
          /\ \/ /\ p.todo \ {s} # {}
                /\ requests' = [requests EXCEPT ![r].todo = p.todo \ {s}]
             \/ Answer(r)
             \/ /\ p.todo \ {s} = {} /\ p.next # "idle"
                /\ requests' = [requests EXCEPT ![r].pc = p.next, ![r].todo = {}]
    BY <1>1 DEF ExpireWrite
  <1>3. Serves(p) /\ p \in RequestRecords
    BY <1>1 DEF AllServe, TypeOK
  <1>4. /\ s \in Sessions /\ sessions[s].owner = u
        /\ sessions[s].status \in {"IN_PROGRESS", "EXPIRED"}
    BY <1>1, <1>2, <1>3 DEF Serves, Mine, Owned
  <1>5. /\ sessions'[s] = [sessions[s] EXCEPT !.status = "EXPIRED"]
        /\ \A t \in Sessions \ {s} : sessions'[t] = sessions[t]
    BY <1>2, <1>4 DEF TypeOK
  <1>6. RowsInv'
    BY <1>2, <1>4, <1>5, QuietRows DEF ExpireWrite
  <1>7. \A v \in Users : Undisturbed(v)
    <2>1. /\ sessions'[s].status = "EXPIRED" /\ sessions'[s].owner = u
          /\ sessions'[s].answers = sessions[s].answers
      BY <1>4, <1>5 DEF TypeOK, RowRecords
    <2>2. QED BY <1>4, <1>5, <2>1 DEF Undisturbed
  <1>8. Serves(p)'
    BY <1>1, <1>3, <1>7, ServesStays
  <1>9. s \notin Live(u)'
    BY <1>4, <1>5 DEF Live, Owned, TypeOK, RowRecords
  <1>10. SUFFICES \E q : /\ requests' = [requests EXCEPT ![r] = q]
                         /\ q.user \in {u, None} /\ Serves(q)'
    <2>1. \A v \in Users \ {u} : Undisturbed(v)
      BY <1>7
    <2>2. ASSUME NEW q, requests' = [requests EXCEPT ![r] = q],
                 q.user \in {u, None}, Serves(q)'
          PROVE  Alone' /\ AllServe'
      BY <1>1, <2>1, <2>2, OneMoves
    <2>3. QED BY <1>6, <2>2
  <1>11. CASE Answer(r)
    BY <1>11, IdleServes DEF Answer
  <1>12. CASE /\ p.todo \ {s} # {}
              /\ requests' = [requests EXCEPT ![r].todo = p.todo \ {s}]
    <2>1. PICK q : q = [p EXCEPT !.todo = p.todo \ {s}]
      OBVIOUS
    <2>2. q.user = u /\ q.pc = "expire" /\ q.next = p.next /\ q.todo = p.todo \ {s}
          /\ q.session = p.session /\ q.answers = p.answers
      BY <1>1, <1>3, <2>1 DEF RequestRecords
    <2>3. Serves(q)'
      BY <1>1, <1>8, <1>9, <2>2 DEF Serves, Submits
    <2>4. requests' = [requests EXCEPT ![r] = q]
      BY <1>1, <1>12, <2>1
    <2>5. QED BY <2>2, <2>3, <2>4
  <1>13. CASE /\ p.todo \ {s} = {} /\ p.next # "idle"
              /\ requests' = [requests EXCEPT ![r].pc = p.next, ![r].todo = {}]
    <2>1. PICK q : q = [p EXCEPT !.pc = p.next, !.todo = {}]
      OBVIOUS
    <2>2. q.user = u /\ q.pc = p.next /\ q.next = p.next /\ q.todo = {}
          /\ q.session = p.session /\ q.answers = p.answers
          /\ p.next \in {"create", "lock"}
      BY <1>1, <1>3, <1>13, <2>1 DEF RequestRecords
    <2>3. p.next = "create" => Live(u)' = {}
      BY <1>1, <1>8, <1>9, <1>13 DEF Serves
    <2>4. Serves(q)'
      BY <1>1, <1>8, <2>2, <2>3 DEF Serves, Submits
    <2>5. requests' = [requests EXCEPT ![r] = q]
      BY <1>1, <1>13, <2>1
    <2>6. QED BY <2>2, <2>4, <2>5
  <1>14. QED BY <1>2, <1>11, <1>12, <1>13

\* A start inserts its row when the learner has none in progress.
LEMMA StartCreateStep ==
  ASSUME TypeOK, TypeOK', RequestsAreBound, Alone, AllServe, RowsInv,
         NEW r \in Requests, StartCreate(r)
  PROVE  Alone' /\ AllServe' /\ RowsInv'
  <1>1. PICK u \in Users : /\ u = requests[r].user
                           /\ \A x \in Requests \ {r} : requests[x].user # u
    BY OthersAreOthers DEF StartCreate
  <1>2. Live(u) = {}
    BY <1>1 DEF AllServe, Serves, StartCreate
  <1>3. PICK s \in Sessions \ Rows :
          sessions' = [sessions EXCEPT ![s] =
             [status |-> "IN_PROGRESS", owner |-> u, answers |-> Blank,
              expiresAt |-> SessionExpiry(requests[r].ttl, requests[r].endsAt)]]
    BY <1>1 DEF StartCreate
  <1>4. /\ sessions[s].status = "ABSENT" /\ sessions[s].owner = None
        /\ sessions[s].answers = Blank /\ acked[s] = Blank
    BY <1>3 DEF Rows, RowsInv, AbsentAreBlank, NoRow
  <1>5. /\ sessions'[s].status = "IN_PROGRESS" /\ sessions'[s].owner = u
        /\ sessions'[s].answers = Blank
        /\ \A t \in Sessions \ {s} : sessions'[t] = sessions[t]
    BY <1>3 DEF TypeOK
  <1>6. UNCHANGED <<acked, ledger, unsubmitted>>
    BY DEF StartCreate
  <1>7. \A v \in Users \ {u} : Undisturbed(v)
    BY <1>4, <1>5, NoneIsNoValue DEF Undisturbed
  <1>8. AbsentAreBlank'
    BY <1>5, <1>6 DEF RowsInv, AbsentAreBlank
  <1>9. AtMostOneInProgress'
    <2>1. Live(u)' \subseteq {s}
      BY <1>2, <1>5 DEF Live, Owned
    <2>2. \A v \in Users \ {u} : Live(v)' \subseteq Live(v)
      BY <1>7 DEF Undisturbed, Live, Owned
    <2>3. QED BY <2>1, <2>2 DEF RowsInv, AtMostOneInProgress
  <1>10. AckedAnswersKept'
    BY <1>4, <1>5, <1>6 DEF RowsInv, AckedAnswersKept
  <1>11. (unsubmitted = {} /\ GradedAnswersAreTheAcked)'
    BY <1>6 DEF RowsInv, GradedAnswersAreTheAcked
  <1>12. Alone' /\ AllServe'
    <2>1. PICK q : q = Idle
      OBVIOUS
    <2>2. q.user = None /\ Serves(q)'
      BY <2>1, IdleServes DEF Serves, Submits
    <2>3. requests' = [requests EXCEPT ![r] = q]
      BY <2>1 DEF StartCreate, Answer
    <2>4. QED BY <1>1, <1>7, <2>2, <2>3, OneMoves
  <1>13. QED BY <1>8, <1>9, <1>10, <1>11, <1>12 DEF RowsInv

\* A save writes the answers it read, which are still those of the row, with
\* its own over them: what the learner is then told is saved.
LEMMA SaveWriteStep ==
  ASSUME TypeOK, TypeOK', RequestsAreBound, StatusAgreesWithLedger, Alone, AllServe,
         RowsInv, NEW r \in Requests, SaveWrite(r)
  PROVE  Alone' /\ AllServe' /\ RowsInv'
  <1>1. PICK u \in Users : /\ u = requests[r].user
                           /\ \A x \in Requests \ {r} : requests[x].user # u
    BY OthersAreOthers DEF SaveWrite
  <1>2. PICK s : s = requests[r].session
    OBVIOUS
  <1>3. Mine(u, s) /\ requests[r].answers = sessions[s].answers
    BY <1>1, <1>2 DEF AllServe, Serves, SaveWrite
  <1>4. /\ s \in Sessions /\ sessions[s].owner = u /\ ~Recorded(s)
        /\ sessions[s].status \in {"IN_PROGRESS", "EXPIRED"}
    BY <1>3, MineIsNotRecorded DEF RowsInv
  <1>5. PICK upd \in Answers : upd = requests[r].upd
    BY DEF TypeOK, RequestRecords
  <1>6. /\ sessions'[s] = [sessions[s] EXCEPT !.answers = Merge(acked[s], upd)]
        /\ \A t \in Sessions \ {s} : sessions'[t] = sessions[t]
    BY <1>2, <1>3, <1>4, <1>5 DEF SaveWrite, TypeOK, RowsInv, AckedAnswersKept
  <1>7. /\ acked'[s] = [q \in Quizzes |-> IF upd[q] # None THEN upd[q]
                                          ELSE acked[s][q]]
        /\ \A t \in Sessions \ {s} : acked'[t] = acked[t]
    BY <1>2, <1>4, <1>5 DEF SaveWrite, TypeOK
  <1>8. /\ sessions'[s].status = sessions[s].status /\ sessions'[s].owner = u
        /\ sessions'[s].answers = Merge(acked[s], upd)
    BY <1>4, <1>6 DEF TypeOK, RowRecords
  <1>9. UNCHANGED <<ledger, unsubmitted>>
    BY DEF SaveWrite
  <1>10. \A v \in Users \ {u} : Undisturbed(v)
    BY <1>4, <1>6, <1>8 DEF Undisturbed
  <1>11. AbsentAreBlank'
    BY <1>4, <1>6, <1>7, <1>8, ZenonT(40) DEF RowsInv, AbsentAreBlank
  <1>12. AtMostOneInProgress'
    <2>1. \A v \in Users : Live(v)' \subseteq Live(v)
      BY <1>4, <1>6, <1>8 DEF Live, Owned
    <2>2. QED BY <2>1 DEF RowsInv, AtMostOneInProgress
  <1>13. AckedAnswersKept'
    <2>1. Merge(acked[s], upd) = acked'[s]
      BY <1>7 DEF Merge
    <2>2. QED BY <1>6, <1>7, <1>8, <2>1 DEF RowsInv, AckedAnswersKept
  <1>14. GradedAnswersAreTheAcked'
    <2>1. ASSUME NEW v \in Users, NEW i \in 1..Len(ledger[v])
          PROVE  ledger[v][i].answers = acked'[ledger[v][i].session]
      <3>1. ledger[v] \in Seq(Submissions)
        BY DEF TypeOK
      <3>2. ledger[v][i] \in Submissions
        BY <3>1
      <3>3. ledger[v][i].session \in Sessions \ {s}
        BY <1>4, <3>2 DEF Recorded, Submissions
      <3>4. QED BY <1>7, <3>3 DEF RowsInv, GradedAnswersAreTheAcked
    <2>2. QED BY <1>9, <2>1 DEF GradedAnswersAreTheAcked
  <1>15. Alone' /\ AllServe'
    <2>1. PICK q : q = Idle
      OBVIOUS
    <2>2. q.user = None /\ Serves(q)'
      BY <2>1, IdleServes DEF Serves, Submits
    <2>3. requests' = [requests EXCEPT ![r] = q]
      BY <2>1 DEF SaveWrite, Answer
    <2>4. QED BY <1>1, <1>10, <2>2, <2>3, OneMoves
  <1>16. QED BY <1>9, <1>11, <1>12, <1>13, <1>14, <1>15 DEF RowsInv

\* A submission records the answers it read, which are those acknowledged.
LEMMA SubmitCommitStep ==
  ASSUME TypeOK, TypeOK', RequestsAreBound, StatusAgreesWithLedger, Alone, AllServe,
         RowsInv, NEW r \in Requests, SubmitCommit(r)
  PROVE  Alone' /\ AllServe' /\ RowsInv'
  <1>1. PICK u \in Users : /\ u = requests[r].user
                           /\ \A x \in Requests \ {r} : requests[x].user # u
    BY OthersAreOthers DEF SubmitCommit
  <1>2. PICK s : s = requests[r].session
    OBVIOUS
  <1>3. Mine(u, s) /\ requests[r].answers = sessions[s].answers
    BY <1>1, <1>2 DEF AllServe, Serves, Submits, SubmitCommit
  <1>4. /\ s \in Sessions /\ sessions[s].owner = u
        /\ sessions[s].status \in {"IN_PROGRESS", "EXPIRED"}
    BY <1>3, MineIsNotRecorded DEF RowsInv
  <1>5. PICK e : e = [session |-> s, at |-> requests[r].at, answers |-> acked[s]]
    OBVIOUS
  <1>6. ledger' = [ledger EXCEPT ![u] = Append(ledger[u], e)]
    BY <1>1, <1>2, <1>3, <1>4, <1>5 DEF SubmitCommit, RowsInv, AckedAnswersKept
  <1>7. /\ sessions'[s] = [sessions[s] EXCEPT !.status = "SUBMITTED"]
        /\ \A t \in Sessions \ {s} : sessions'[t] = sessions[t]
    BY <1>2, <1>4 DEF SubmitCommit, TypeOK
  <1>8. /\ sessions'[s].status = "SUBMITTED" /\ sessions'[s].owner = u
        /\ sessions'[s].answers = sessions[s].answers
    BY <1>4, <1>7 DEF TypeOK, RowRecords
  <1>9. UNCHANGED <<acked, unsubmitted>>
    BY DEF SubmitCommit
  <1>10. \A v \in Users \ {u} : Undisturbed(v)
    BY <1>4, <1>7, <1>8 DEF Undisturbed
  <1>11. AbsentAreBlank'
    BY <1>7, <1>8, <1>9 DEF RowsInv, AbsentAreBlank
  <1>12. AtMostOneInProgress'
    <2>1. \A v \in Users : Live(v)' \subseteq Live(v)
      BY <1>7, <1>8 DEF Live, Owned
    <2>2. QED BY <2>1 DEF RowsInv, AtMostOneInProgress
  <1>13. AckedAnswersKept'
    BY <1>7, <1>8, <1>9 DEF RowsInv, AckedAnswersKept
  <1>14. GradedAnswersAreTheAcked'
    <2>1. ASSUME NEW v \in Users, NEW i \in 1..Len(ledger'[v])
          PROVE  ledger'[v][i].answers = acked[ledger'[v][i].session]
      <3>1. ledger[v] \in Seq(Submissions)
        BY DEF TypeOK
      <3>2. CASE v = u
        <4>1. ledger'[v] = Append(ledger[v], e)
          BY <1>6, <3>2 DEF TypeOK
        <4>2. \/ i \in 1..Len(ledger[v]) /\ ledger'[v][i] = ledger[v][i]
              \/ ledger'[v][i] = e
          BY <3>1, <4>1
        <4>3. QED BY <1>5, <4>2 DEF RowsInv, GradedAnswersAreTheAcked
      <3>3. CASE v # u
        <4>1. ledger'[v] = ledger[v]
          BY <1>6, <3>3 DEF TypeOK
        <4>2. QED BY <4>1 DEF RowsInv, GradedAnswersAreTheAcked
      <3>4. QED BY <3>2, <3>3
    <2>2. QED BY <1>9, <2>1 DEF GradedAnswersAreTheAcked
  <1>15. Alone' /\ AllServe'
    <2>1. PICK q : q = Idle
      OBVIOUS
    <2>2. q.user = None /\ Serves(q)'
      BY <2>1, IdleServes DEF Serves, Submits
    <2>3. requests' = [requests EXCEPT ![r] = q]
      BY <2>1 DEF SubmitCommit, Answer
    <2>4. QED BY <1>1, <1>10, <2>2, <2>3, OneMoves
  <1>16. QED BY <1>9, <1>11, <1>12, <1>13, <1>14, <1>15 DEF RowsInv

\* The steps of a handler that write no row.
LEMMA SilentStep ==
  ASSUME TypeOK, RequestsAreBound, Alone, AllServe, NEW r \in Requests,
         StartCreateFails(r) \/ SubmitLock(r) \/ SubmitRefused(r) \/ Fail(r)
  PROVE  /\ Alone' /\ AllServe'
         /\ UNCHANGED <<sessions, acked, ledger, unsubmitted>>
  <1>1. UNCHANGED <<sessions, acked, ledger, unsubmitted>> /\ requests[r].pc # "idle"
    BY DEF StartCreateFails, SubmitLock, SubmitRefused, Fail
  <1>2. CASE Answer(r)
    BY <1>1, <1>2, EndStep
  <1>3. CASE StartCreateFails(r)
    <2>1. Live(requests[r].user) = {}
      BY <1>3 DEF StartCreateFails, AllServe, Serves
    <2>2. Answer(r)
      BY <1>3, <2>1 DEF StartCreateFails
    <2>3. QED BY <1>2, <2>2
  <1>4. CASE SubmitLock(r)
    <2>1. PICK p : p = requests[r]
      OBVIOUS
    <2>2. p \in RequestRecords /\ p.pc = "lock" /\ Serves(p)
      BY <1>4, <2>1 DEF SubmitLock, TypeOK, AllServe
    <2>3. PICK q : q = [p EXCEPT !.pc = "claim", !.at = now]
      OBVIOUS
    <2>4. requests' = [requests EXCEPT ![r] = q]
      BY <1>4, <2>1, <2>3 DEF SubmitLock
    <2>5. /\ q.pc = "claim" /\ q.user = p.user /\ q.session = p.session
          /\ q.answers = p.answers
      BY <2>2, <2>3 DEF RequestRecords
    <2>6. Serves(q)
      BY <2>2, <2>5 DEF Serves, Submits
    <2>7. PICK u \in Users : /\ u = p.user
                             /\ \A x \in Requests \ {r} : requests[x].user # u
      BY <1>1, <2>1, OthersAreOthers
    <2>8. \A v \in Users : Undisturbed(v)
      BY <1>1, StillUndisturbed
    <2>9. Serves(q)'
      BY <2>5, <2>6, <2>7, <2>8, ServesStays
    <2>10. q.user \in {u, None} /\ \A v \in Users \ {u} : Undisturbed(v)
      BY <2>5, <2>7, <2>8
    <2>11. Alone' /\ AllServe'
      BY <2>4, <2>7, <2>9, <2>10, OneMoves
    <2>12. QED BY <1>1, <2>11
  <1>5. QED BY <1>2, <1>3, <1>4 DEF SubmitRefused, Fail

-----------------------------------------------------------------------------

SerialInv == SafetyInv /\ Alone /\ AllServe /\ RowsInv

LEMMA SerialInit == Init => SerialInv
  <1> SUFFICES ASSUME Init PROVE SerialInv
    OBVIOUS
  <1>1. SafetyInv
    BY InitSafety
  <1>2. Alone /\ AllServe
    BY DEF Init, Idle, Alone, AllServe, Serves, Submits
  <1>3. AbsentAreBlank /\ unsubmitted = {}
    BY DEF Init, AbsentAreBlank
  <1>4. AtMostOneInProgress
    BY DEF Init, AtMostOneInProgress, Live, Owned, NoRow
  <1>5. AckedAnswersKept /\ GradedAnswersAreTheAcked
    BY DEF Init, AckedAnswersKept, GradedAnswersAreTheAcked, NoRow
  <1>6. QED BY <1>1, <1>2, <1>3, <1>4, <1>5 DEF SerialInv, RowsInv

LEMMA SerialStep ==
  ASSUME Client = "serial", SerialInv, [Next]_vars
  PROVE  SerialInv'
  <1>1. SafetyInv'
    BY SafetyStep DEF SerialInv
  <1>2. /\ TypeOK /\ TypeOK' /\ RequestsAreBound /\ StatusAgreesWithLedger
        /\ Alone /\ AllServe /\ RowsInv
    BY <1>1 DEF SerialInv, SafetyInv
  <1>3. UNCHANGED <<sessions, acked, ledger, unsubmitted>> => RowsInv'
    BY <1>2, QuietRows
  <1>4. UNCHANGED <<sessions, requests>> => Alone' /\ AllServe'
    BY <1>2 DEF Alone, AllServe, Serves, Submits, Mine, Live, Owned
  <1>5. CASE Tick \/ UpdateSchedule \/ UNCHANGED vars
    BY <1>1, <1>3, <1>4, <1>5 DEF Tick, UpdateSchedule, vars, SerialInv
  <1>6. CASE ExpireStaleSessions
    BY <1>1, <1>2, <1>6, CleanupStep DEF SerialInv
  <1>7. ASSUME NEW r \in Requests, Arrive(r)
        PROVE  SerialInv'
    <2>1. AtMostOneInProgress
      BY <1>2 DEF RowsInv
    <2>2. UNCHANGED <<sessions, acked, ledger, unsubmitted>>
      BY <1>7, ZenonT(40) DEF Arrive, StartRead, ResumeRead, ListRead, AbandonRead, SaveRead,
                  SubmitRead
    <2>3. QED BY <1>1, <1>2, <1>3, <1>7, <2>1, <2>2, ArriveServes DEF SerialInv
  <1>8. ASSUME NEW r \in Requests, Continue(r) \/ Fail(r)
        PROVE  SerialInv'
    <2>1. CASE StartCreateFails(r) \/ SubmitLock(r) \/ SubmitRefused(r) \/ Fail(r)
      BY <1>1, <1>2, <1>3, <2>1, SilentStep DEF SerialInv
    <2>2. CASE ExpireWrite(r)
      BY <1>1, <1>2, <2>2, ExpireWriteStep DEF SerialInv
    <2>3. CASE StartCreate(r)
      BY <1>1, <1>2, <2>3, StartCreateStep DEF SerialInv
    <2>4. CASE SaveWrite(r)
      BY <1>1, <1>2, <2>4, SaveWriteStep DEF SerialInv
    <2>5. CASE SubmitCommit(r)
      BY <1>1, <1>2, <2>5, SubmitCommitStep DEF SerialInv
    <2>6. QED BY <1>8, <2>1, <2>2, <2>3, <2>4, <2>5 DEF Continue
  <1>9. QED BY <1>5, <1>6, <1>7, <1>8 DEF Next

\* Without a stale write the claim admits one submission of a session.
LEMMA OnceOnly == SerialInv => OneSubmissionPerSession
  BY DEF SerialInv, SafetyInv, RowsInv, ResubmissionNeedsStaleExpiry,
         OneSubmissionPerSession

LEMMA SerialAlways ==
  ASSUME Client = "serial"
  PROVE  Spec => []SerialInv
  <1>1. SerialInv /\ [Next]_vars => SerialInv'
    BY SerialStep
  <1>2. QED BY SerialInit, <1>1, PTL DEF Spec

\* A learner whose client waits for each answer before its next request has at
\* most one session in progress, although no unique index keeps two starts from
\* both inserting one.
THEOREM SerialClientsHaveOneSession ==
  ASSUME Client = "serial"
  PROVE  Spec => []AtMostOneInProgress
  <1>1. SerialInv => AtMostOneInProgress
    BY DEF SerialInv, RowsInv
  <1>2. QED BY <1>1, SerialAlways, PTL

\* Such a client submits a session once: no update of expireSessionIfNeeded that
\* names the row by its id lands after the claim.
THEOREM SerialClientsSubmitOnce ==
  ASSUME Client = "serial"
  PROVE  Spec => []OneSubmissionPerSession
  <1>1. QED BY OnceOnly, SerialAlways, PTL

\* Every answer whose save such a client was told of stays in its session, with
\* the cleanup job, the schedule and the other learners going on meanwhile.
THEOREM SerialClientsLoseNoAnswer ==
  ASSUME Client = "serial"
  PROVE  Spec => []AckedAnswersKept
  <1>1. SerialInv => AckedAnswersKept
    BY DEF SerialInv, RowsInv
  <1>2. QED BY <1>1, SerialAlways, PTL

\* What submitSession grades, expired session or not, is what the learner was
\* told is saved.
THEOREM SerialClientsAreGradedAsSaved ==
  ASSUME Client = "serial"
  PROVE  Spec => []GradedAnswersAreTheAcked
  <1>1. SerialInv => GradedAnswersAreTheAcked
    BY DEF SerialInv, RowsInv
  <1>2. QED BY <1>1, SerialAlways, PTL

=============================================================================
