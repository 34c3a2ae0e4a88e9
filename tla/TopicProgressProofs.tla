------------------------ MODULE TopicProgressProofs ------------------------
(***************************************************************************)
(* Proofs about TopicProgress, for any quizzes, number of handlers in      *)
(* flight, initial places and share that completes the topic:              *)
(*                                                                         *)
(*   TotalsAreRight     the totals of the row are the attempts on record;  *)
(*   CompletionsHeal    a completion that a submission leaves without a    *)
(*                      quiz is undone by healing or by the reopening of   *)
(*                      the quiz's creation, or the quiz was overtaken;    *)
(*   AgreementLasts     a flag that agrees with the coverage, with nothing *)
(*                      in flight that read otherwise, goes on agreeing.   *)
(*                                                                         *)
(* The first two follow from one invariant: what a handler in flight has   *)
(* read is still true of the tables, or betrayed by a date, or about to be *)
(* reopened, or known to overlap.                                          *)
(***************************************************************************)
EXTENDS TopicProgress, FiniteSetTheorems, TLAPS

-----------------------------------------------------------------------------
(* The inductive invariant                                                  *)

\* The quizzes that have not escaped.
Open == Here \ (movedIn \cup slipped)

\* The quizzes of the topic are among those counted, or newer than the count, or
\* the reopening of their creation is still to come.
Counts(counted, at) == \A q \in Open : Misses(counted, at, q) => Reopening(q)

\* A row, or a copy of it, that dates its completion and counted all quizzes
\* older than that date, but for those about to reopen the topic.
Dated(row) ==
    /\ row.completed <=> row.completedAt > 0
    /\ row.completedAt <= clock
    /\ row.completed /\ row.by = "submit" => Counts(row.basis, row.completedAt)

\* What a handler knows.
Knows(req) ==
    /\ req.at <= clock
    /\ req.pc \in {"insert", "cover", "write"} => req.at > 0
    /\ req.pc \in {"cover", "write"} =>
         /\ Dated(req.old)
         /\ Counts(req.counted, req.at)
         /\ req.old.total <= recorded
         /\ ~overlapped => req.old.total = progress.total

\* Submissions of sessions hold the lock while they are at work.
Excludes(r) ==
    requests[r].pc \in {"insert", "cover", "write"} /\ requests[r].locked => lock = r

IInv ==
    /\ TypeOK
    /\ clock > 0
    /\ Dated(progress)
    /\ TotalsMatchAttempts
    /\ \A r \in Requests : Knows(requests[r]) /\ Excludes(r)

-----------------------------------------------------------------------------
(* Types                                                                    *)

LEMMA IdleIsRequest == NoRow \in ProgressRows /\ Idle \in RequestRecords
  BY DEF NoRow, Blank, Idle, ProgressRows, RequestRecords

LEMMA AttemptsAreCounted ==
  ASSUME NEW results \in [Quizzes -> {"none", "right", "wrong"}]
  PROVE  Cardinality(Attempted(results)) \in Nat
  <1>1. Attempted(results) \subseteq Quizzes
    BY DEF Attempted
  <1>2. IsFiniteSet(Attempted(results))
    BY <1>1, QuizzesAreFinite, FS_Subset
  <1> QED
    BY <1>2, FS_CardinalityType

LEMMA RequestUpdates ==
  ASSUME NEW q \in RequestRecords
  PROVE  /\ \A p \in {"idle", "lock", "insert", "cover", "write", "heal", "clear",
                      "syncCover", "syncWrite", "recount", "create"} :
              [q EXCEPT !.pc = p] \in RequestRecords
         /\ \A at \in Nat : [q EXCEPT !.pc = "insert", !.at = at, !.locked = TRUE] \in RequestRecords
         /\ \A row \in ProgressRows, S \in SUBSET Quizzes :
              [q EXCEPT !.pc = "cover", !.old = row, !.counted = S] \in RequestRecords
         /\ \A c \in BOOLEAN : [q EXCEPT !.pc = "write", !.covers = c] \in RequestRecords
         /\ \A c \in BOOLEAN : [q EXCEPT !.pc = "syncWrite", !.covers = c] \in RequestRecords
         /\ \A row \in ProgressRows, S \in SUBSET Quizzes, at \in Nat :
              [q EXCEPT !.pc = "syncCover", !.old = row, !.counted = S, !.at = at] \in RequestRecords
  BY DEF RequestRecords

LEMMA RowsAreWritten ==
  ASSUME TypeOK, NEW r \in Requests
  PROVE  /\ Updated(requests[r]) \in ProgressRows
         /\ Synced(r) \in ProgressRows
         /\ Uncompleted \in ProgressRows
  <1>1. requests[r] \in RequestRecords /\ progress \in ProgressRows /\ clock \in Nat
    BY DEF TypeOK
  <1>2. Cardinality(Attempted(requests[r].results)) \in Nat
    BY <1>1, AttemptsAreCounted DEF RequestRecords
  <1>3. Uncompleted \in ProgressRows
    BY <1>1 DEF Uncompleted, ProgressRows
  <1>4. Updated(requests[r]) \in ProgressRows
    BY <1>1, <1>2 DEF Updated, ProgressRows, RequestRecords
  <1>5. Synced(r) \in ProgressRows
    BY <1>1, <1>3 DEF Synced, ProgressRows, RequestRecords
  <1> QED
    BY <1>3, <1>4, <1>5

LEMMA InitType == Init => TypeOK
  <1> SUFFICES ASSUME Init PROVE TypeOK
    OBVIOUS
  <1>1. place \in [Quizzes -> {"none", "here", "elsewhere", "gone"}]
    BY PlacesAreInitial DEF Init
  <1>2. /\ latest \in [Quizzes -> [at : Nat, right : BOOLEAN]]
        /\ created \in [Quizzes -> Nat]
    BY DEF Init, NoAttempt
  <1>3. /\ progress \in ProgressRows
        /\ progress.completed <=> progress.completedAt > 0
    BY IdleIsRequest DEF Init, NoRow
  <1>4. requests \in [Requests -> RequestRecords]
    BY IdleIsRequest DEF Init
  <1> QED
    BY <1>1, <1>2, <1>3, <1>4 DEF Init, TypeOK

\* The slots keep their shape in every step.
LEMMA RequestsKeepType ==
  ASSUME TypeOK, NEW r \in Requests, Arrive(r) \/ Continue(r) \/ Fail(r)
  PROVE  requests' \in [Requests -> RequestRecords]
  <1> USE DEF Set, Goto, Finish
  <1>1. /\ requests \in [Requests -> RequestRecords] /\ requests[r] \in RequestRecords
        /\ clock \in Nat /\ progress \in ProgressRows /\ Here \subseteq Quizzes
    BY DEF TypeOK, Here
  <1>2. SUFFICES \E q \in RequestRecords : requests' = [requests EXCEPT ![r] = q]
    <2>1. PICK q \in RequestRecords : requests' = [requests EXCEPT ![r] = q]
      OBVIOUS
    <2> QED
      BY <1>1, <2>1
  <1>3. ASSUME SubmitAttempt(r) PROVE \E q \in RequestRecords : requests' = [requests EXCEPT ![r] = q]
    <2>1. PICK q \in Here, result \in {"right", "wrong"} :
            Set(r, [Idle EXCEPT !.pc = "insert", !.at = clock + 1, !.results[q] = result])
      BY <1>3 DEF SubmitAttempt
    <2>2. [Blank EXCEPT ![q] = result] \in [Quizzes -> {"none", "right", "wrong"}]
      BY DEF Blank
    <2>3. \A f \in [Quizzes -> {"none", "right", "wrong"}], at \in Nat :
            [Idle EXCEPT !.pc = "insert", !.at = at, !.results = f] \in RequestRecords
      BY IdleIsRequest DEF RequestRecords
    <2>4. [Idle EXCEPT !.pc = "insert", !.at = clock + 1, !.results[q] = result]
            = [Idle EXCEPT !.pc = "insert", !.at = clock + 1, !.results = [Blank EXCEPT ![q] = result]]
      BY DEF Idle
    <2>5. clock + 1 \in Nat
      BY <1>1
    <2> QED
      BY <2>1, <2>2, <2>3, <2>4, <2>5
  <1>4. ASSUME SubmitSession(r) PROVE \E q \in RequestRecords : requests' = [requests EXCEPT ![r] = q]
    <2>1. PICK right \in SUBSET Here :
            Set(r, [Idle EXCEPT !.pc = "lock",
                     !.results = [q \in Quizzes |-> IF q \in right THEN "right"
                                                    ELSE IF q \in Here THEN "wrong" ELSE "none"]])
      BY <1>4 DEF SubmitSession
    <2>2. [q \in Quizzes |-> IF q \in right THEN "right"
                             ELSE IF q \in Here THEN "wrong" ELSE "none"]
             \in [Quizzes -> {"none", "right", "wrong"}]
      OBVIOUS
    <2>3. \A f \in [Quizzes -> {"none", "right", "wrong"}] :
            [Idle EXCEPT !.pc = "lock", !.results = f] \in RequestRecords
      BY IdleIsRequest DEF RequestRecords
    <2> QED
      BY <2>1, <2>2, <2>3
  <1>5. ASSUME Sync(r) PROVE \E q \in RequestRecords : requests' = [requests EXCEPT ![r] = q]
    BY <1>1, <1>5, IdleIsRequest DEF Sync, Idle, RequestRecords
  <1>6. ASSUME View(r) \/ InsertQuizzes(r) \/ DeleteQuiz(r)
        PROVE  \E q \in RequestRecords : requests' = [requests EXCEPT ![r] = q]
    BY <1>1, <1>6, RequestUpdates, IdleIsRequest DEF View, InsertQuizzes, DeleteQuiz
  <1>14. ASSUME CreateQuiz(r) PROVE \E q \in RequestRecords : requests' = [requests EXCEPT ![r] = q]
    <2>1. PICK Q \in SUBSET Quizzes :
            Set(r, [Idle EXCEPT !.pc = "create", !.at = clock + 1, !.making = Q])
      BY <1>14 DEF CreateQuiz
    <2>3. clock + 1 \in Nat
      BY <1>1
    <2>2. [Idle EXCEPT !.pc = "create", !.at = clock + 1, !.making = Q] \in RequestRecords
      BY <2>3, IdleIsRequest DEF RequestRecords
    <2> QED
      BY <2>1, <2>2
  <1>7. ASSUME Lock(r) PROVE \E q \in RequestRecords : requests' = [requests EXCEPT ![r] = q]
    <2>1. clock + 1 \in Nat
      BY <1>1
    <2> QED
      BY <1>1, <1>7, <2>1, RequestUpdates DEF Lock
  <1>8. ASSUME Insert(r) PROVE \E q \in RequestRecords : requests' = [requests EXCEPT ![r] = q]
    BY <1>1, <1>8, RequestUpdates, IdleIsRequest DEF Insert
  <1>9. ASSUME Cover(r) PROVE \E q \in RequestRecords : requests' = [requests EXCEPT ![r] = q]
    <2>1. Passes(RightHere(Latest(requests[r].results, requests[r].at)), requests[r].counted) \in BOOLEAN
      BY DEF Passes
    <2> QED
      BY <1>1, <1>9, <2>1, RequestUpdates DEF Cover
  <1>10. ASSUME Commit(r) \/ HealRead(r) PROVE \E q \in RequestRecords : requests' = [requests EXCEPT ![r] = q]
    <2>1. [Idle EXCEPT !.pc = "heal"] \in RequestRecords
      BY IdleIsRequest, RequestUpdates
    <2> QED
      BY <1>1, <1>10, <2>1, RequestUpdates, IdleIsRequest DEF Commit, HealRead
  <1>11. ASSUME Clear(r) \/ SyncWrite(r) \/ Fail(r)
         PROVE  \E q \in RequestRecords : requests' = [requests EXCEPT ![r] = q]
    BY <1>11, IdleIsRequest DEF Clear, SyncWrite, Fail
  <1>12. ASSUME SyncCover(r) PROVE \E q \in RequestRecords : requests' = [requests EXCEPT ![r] = q]
    <2>1. Passes(RightHere(latest), requests[r].counted) \in BOOLEAN
      BY DEF Passes
    <2> QED
      BY <1>1, <1>12, <2>1, RequestUpdates, IdleIsRequest DEF SyncCover
  <1>13. ASSUME Recount(r) PROVE \E q \in RequestRecords : requests' = [requests EXCEPT ![r] = q]
    BY <1>1, <1>13, RequestUpdates, IdleIsRequest DEF Recount
  <1> QED
    BY <1>3, <1>4, <1>5, <1>6, <1>7, <1>8, <1>9, <1>10, <1>11, <1>12, <1>13, <1>14
       DEF Arrive, Continue

\* So do the tables, apart from the date of a completion.
LEMMA RowsKeepType ==
  ASSUME TypeOK, NEW r \in Requests, Arrive(r) \/ Continue(r) \/ Fail(r)
  PROVE  /\ clock' \in Nat /\ recorded' \in Nat /\ overlapped' \in BOOLEAN
         /\ place' \in [Quizzes -> {"none", "here", "elsewhere", "gone"}]
         /\ created' \in [Quizzes -> Nat]
         /\ latest' \in [Quizzes -> [at : Nat, right : BOOLEAN]]
         /\ progress' \in ProgressRows
         /\ lock' \in Requests \cup {None}
         /\ movedIn' \subseteq Quizzes /\ slipped' \subseteq Quizzes
  <1>1. requests[r] \in RequestRecords
    BY DEF TypeOK
  <1>7. ASSUME EndReopening(r) PROVE slipped' \subseteq Quizzes
    BY <1>1, <1>7 DEF EndReopening, TypeOK, RequestRecords
  <1>2. ASSUME SubmitAttempt(r) \/ SubmitSession(r) \/ View(r) \/ Sync(r) \/ Cover(r)
               \/ HealRead(r) \/ SyncCover(r) \/ Recount(r) \/ Lock(r) \/ Insert(r) \/ Fail(r)
               \/ CreateQuiz(r)
        PROVE  /\ UNCHANGED <<content, latest, progress, recorded, overlapped>>
               /\ clock' \in {clock, clock + 1}
               /\ lock' \in {lock, r, None}
               /\ slipped' \subseteq Quizzes
    BY <1>2, <1>7
       DEF SubmitAttempt, SubmitSession, View, Sync, Cover, HealRead, SyncCover, Recount,
           Lock, Insert, Fail, CreateQuiz, Release, Event, TypeOK
  <1>3. CASE InsertQuizzes(r) \/ DeleteQuiz(r)
    <2>1. /\ UNCHANGED <<progress, lock, recorded, overlapped, movedIn, slipped>>
          /\ clock' \in {clock, clock + 1}
      BY <1>3 DEF InsertQuizzes, DeleteQuiz, Event
    <2>2. place' \in [Quizzes -> {"none", "here", "elsewhere", "gone"}]
      BY <1>3 DEF InsertQuizzes, DeleteQuiz, TypeOK
    <2>3. created' \in [Quizzes -> Nat]
      BY <1>1, <1>3 DEF InsertQuizzes, DeleteQuiz, TypeOK, RequestRecords
    <2>4. latest' \in [Quizzes -> [at : Nat, right : BOOLEAN]]
      <3>1. \/ latest' = latest
            \/ \E q \in Quizzes : latest' = [latest EXCEPT ![q] = NoAttempt]
        BY <1>3 DEF InsertQuizzes, DeleteQuiz, Here
      <3>2. NoAttempt \in [at : Nat, right : BOOLEAN]
        BY DEF NoAttempt
      <3> QED
        BY <3>1, <3>2 DEF TypeOK
    <2> QED
      BY <2>1, <2>2, <2>3, <2>4 DEF TypeOK
  <1>4. CASE Commit(r)
    <2>1. /\ progress' \in {progress, Updated(requests[r])}
          /\ recorded' \in {recorded, recorded + Cardinality(Attempted(requests[r].results))}
          /\ latest' \in {latest, Latest(requests[r].results, requests[r].at)}
          /\ overlapped' \in BOOLEAN
          /\ lock' \in {lock, None}
          /\ UNCHANGED <<clock, content, slipped>>
      BY <1>4 DEF Commit, Release, TypeOK
    <2>2. Latest(requests[r].results, requests[r].at) \in [Quizzes -> [at : Nat, right : BOOLEAN]]
      BY <1>1 DEF Latest, TypeOK, RequestRecords
    <2>3. Cardinality(Attempted(requests[r].results)) \in Nat
      BY <1>1, AttemptsAreCounted DEF RequestRecords
    <2> QED
      BY <2>1, <2>2, <2>3, RowsAreWritten DEF TypeOK, content
  <1>5. CASE Clear(r) \/ SyncWrite(r)
    BY <1>5, <1>7, RowsAreWritten DEF Clear, SyncWrite, TypeOK, content
  <1>6. ASSUME UNCHANGED <<content, latest, progress, recorded, overlapped>>,
               clock' \in {clock, clock + 1}, lock' \in {lock, r, None},
               slipped' \subseteq Quizzes
        PROVE  /\ clock' \in Nat /\ recorded' \in Nat /\ overlapped' \in BOOLEAN
               /\ place' \in [Quizzes -> {"none", "here", "elsewhere", "gone"}]
               /\ created' \in [Quizzes -> Nat]
               /\ latest' \in [Quizzes -> [at : Nat, right : BOOLEAN]]
               /\ progress' \in ProgressRows
               /\ lock' \in Requests \cup {None}
               /\ movedIn' \subseteq Quizzes /\ slipped' \subseteq Quizzes
    BY <1>6 DEF TypeOK, content
  <1> QED
    BY <1>2, <1>3, <1>4, <1>5, <1>6 DEF Arrive, Continue

-----------------------------------------------------------------------------
(* What a handler knows stays true                                          *)

\* Which slot a step moves, and that no other does.
LEMMA OneSlotMoves ==
  ASSUME TypeOK, NEW r \in Requests, Arrive(r) \/ Continue(r) \/ Fail(r),
         NEW s \in Requests, s # r
  PROVE  requests'[s] = requests[s]
  <1> USE DEF Set, Goto, Finish
  <1>1. ASSUME Arrive(r) PROVE \E q : requests' = [requests EXCEPT ![r] = q]
    BY <1>1 DEF Arrive, SubmitAttempt, SubmitSession, View, Sync, CreateQuiz, DeleteQuiz
  <1>2. ASSUME Continue(r) PROVE \E q : requests' = [requests EXCEPT ![r] = q]
    BY <1>2 DEF Continue, Lock, Insert, Cover, Commit, HealRead, Clear, SyncCover,
                SyncWrite, Recount, InsertQuizzes
  <1>3. ASSUME Fail(r) PROVE \E q : requests' = [requests EXCEPT ![r] = q]
    BY <1>3 DEF Fail
  <1> QED
    BY <1>1, <1>2, <1>3 DEF TypeOK

\* The reopening that a quiz waits for goes only with its own handler.
LEMMA ReopeningStays ==
  ASSUME TypeOK, NEW r \in Requests, Arrive(r) \/ Continue(r) \/ Fail(r),
         NEW q, Reopening(q)
  PROVE  \/ Reopening(q)'
         \/ /\ Clear(r) \/ Fail(r)
            /\ At(r, "clear") /\ q \in requests[r].making
  <1>1. PICK s \in Requests : At(s, "clear") /\ q \in requests[s].making
    BY DEF Reopening
  <1>2. CASE s # r
    <2>1. requests'[s] = requests[s]
      BY <1>2, OneSlotMoves
    <2> QED
      BY <1>1, <2>1 DEF Reopening, At
  <1>3. CASE s = r
    <2>1. requests[r].pc = "clear"
      BY <1>1, <1>3 DEF At
    <2>2. Clear(r) \/ Fail(r)
      BY <2>1 DEF Arrive, Continue, At, Issue, SubmitAttempt, SubmitSession, View, Sync,
                  CreateQuiz, DeleteQuiz, Lock, Insert, Cover, Commit, HealRead, SyncCover,
                  SyncWrite, Recount, InsertQuizzes
    <2> QED
      BY <1>1, <1>3, <2>2
  <1> QED
    BY <1>2, <1>3

\* No row betrays the quiz, and no submission in flight will.
Undone(q) ==
    /\ ~Betrays(progress', q)
    /\ \A s \in Requests : ~Overtakes(s, q)

\* Time, the record and the quizzes only ever grow: a quiz that has come to the
\* topic is marked as moved or about to reopen it, and the reopening of a quiz
\* ends with nothing left to undo or marks it.
Grows ==
    /\ created' \in [Quizzes -> Nat]
    /\ clock <= clock'
    /\ recorded <= recorded'
    /\ overlapped => overlapped'
    /\ \A q \in Open' :
         \/ Reopening(q)'
         \/ /\ q \in Open /\ created'[q] = created[q]
            /\ Reopening(q) => Undone(q)

LEMMA TablesGrow ==
  ASSUME TypeOK, NEW r \in Requests, Arrive(r) \/ Continue(r) \/ Fail(r)
  PROVE  Grows
  <1>1. /\ requests[r] \in RequestRecords /\ clock \in Nat /\ recorded \in Nat
        /\ created' \in [Quizzes -> Nat]
    BY RowsKeepType DEF TypeOK
  <1>2. ASSUME NEW q, ~Clear(r), ~Fail(r) PROVE Reopening(q) => Reopening(q)'
    BY <1>2, ReopeningStays
  <1>3. ASSUME UNCHANGED <<content, recorded, overlapped, slipped>>, clock' \in {clock, clock + 1},
               ~Clear(r), ~Fail(r)
        PROVE  Grows
    <2>1. Open' = Open /\ created' = created /\ \A q : Reopening(q) => Reopening(q)'
      BY <1>2, <1>3 DEF content, Open, Here
    <2> QED
      BY <1>1, <1>3, <2>1 DEF Grows
  <1>4. ASSUME Clear(r) \/ Fail(r) PROVE Grows
    <2>1. /\ UNCHANGED <<content, recorded, overlapped>> /\ clock' \in {clock, clock + 1}
          /\ EndReopening(r)
      BY <1>4 DEF Clear, Fail, Event
    <2>2. Open' \subseteq Open /\ created' = created
      BY <2>1 DEF content, Open, Here, EndReopening
    <2>3. ASSUME NEW q \in Open', Reopening(q), ~Reopening(q)' PROVE Undone(q)
      <3>1. At(r, "clear") /\ q \in requests[r].making
        BY <2>3, ReopeningStays
      <3>2. q \notin slipped'
        BY <2>3 DEF Open
      <3> QED
        BY <2>1, <3>1, <3>2 DEF EndReopening, Undone
    <2> QED
      BY <1>1, <2>1, <2>2, <2>3 DEF Grows
  <1>5. ASSUME SubmitAttempt(r) \/ SubmitSession(r) \/ View(r) \/ Sync(r) \/ Cover(r)
               \/ HealRead(r) \/ SyncCover(r) \/ Recount(r) \/ Lock(r) \/ Insert(r)
               \/ SyncWrite(r) \/ CreateQuiz(r)
        PROVE  UNCHANGED <<content, recorded, overlapped, slipped>> /\ clock' \in {clock, clock + 1}
    BY <1>5 DEF SubmitAttempt, SubmitSession, View, Sync, Cover, HealRead, SyncCover, Recount,
                Lock, Insert, SyncWrite, CreateQuiz, Event
  <1>6. CASE InsertQuizzes(r)
    <2> DEFINE Q == requests[r].making
    <2>1. UNCHANGED <<clock, recorded, overlapped, movedIn, slipped>>
      BY <1>6 DEF InsertQuizzes
    <2>2. CASE UNCHANGED <<place, created>> /\ ~Clear(r) /\ ~Fail(r)
      BY <1>1, <1>3, <2>1, <2>2 DEF content
    <2>3. CASE /\ place' = [q \in Quizzes |-> IF q \in Q THEN "here" ELSE place[q]]
               /\ created' = [q \in Quizzes |-> IF q \in Q THEN requests[r].at ELSE created[q]]
               /\ Goto(r, "clear")
      <3>1. requests'[r].pc = "clear" /\ requests'[r].making = Q
        BY <1>1, <2>3 DEF Goto, Set, RequestRecords, TypeOK
      <3>2. ASSUME NEW q \in Q PROVE Reopening(q)'
        BY <3>1, <3>2 DEF Reopening, At
      <3>3. ASSUME NEW q \in Open', q \notin Q
            PROVE  q \in Open /\ created'[q] = created[q] /\ (Reopening(q) => Reopening(q)')
        <4>1. Reopening(q) => Reopening(q)' \/ (requests[r].pc = "clear" /\ q \in Q)
          BY ReopeningStays DEF At
        <4> QED
          BY <2>1, <2>3, <3>3, <4>1 DEF Open, Here
      <3> QED
        BY <1>1, <2>1, <3>2, <3>3 DEF Grows
    <2>4. ~Clear(r)
      BY <1>6 DEF InsertQuizzes, Clear, At
    <2>5. CASE Fail(r)
      BY <1>4, <2>5
    <2> QED
      BY <1>6, <2>2, <2>3, <2>4, <2>5 DEF InsertQuizzes
  <1>7. CASE DeleteQuiz(r) /\ ~Clear(r) /\ ~Fail(r)
    <2>1. /\ UNCHANGED <<created, recorded, overlapped, movedIn, slipped>> /\ clock' = clock + 1
          /\ Open' \subseteq Open
      BY <1>7 DEF DeleteQuiz, Event, Open, Here, TypeOK
    <2> QED
      BY <1>1, <1>2, <1>7, <2>1 DEF Grows
  <1>8. CASE Commit(r) /\ ~Clear(r) /\ ~Fail(r)
    <2>1. Cardinality(Attempted(requests[r].results)) \in Nat
      BY <1>1, AttemptsAreCounted DEF RequestRecords
    <2>2. /\ UNCHANGED <<clock, place, created, movedIn, slipped>>
          /\ recorded' \in {recorded, recorded + Cardinality(Attempted(requests[r].results))}
      BY <1>8 DEF Commit, content
    <2>3. overlapped => overlapped'
      BY <1>8, Zenon DEF Commit
    <2>4. Open' = Open
      BY <2>2 DEF Open, Here
    <2> QED
      BY <1>1, <1>2, <1>8, <2>1, <2>2, <2>3, <2>4 DEF Grows
  <1> QED
    BY <1>3, <1>4, <1>5, <1>6, <1>7, <1>8 DEF Arrive, Continue

\* What misses no quiz goes on missing none, if a reopening that ends had nothing
\* of it to undo.
LEMMA CountsStay ==
  ASSUME TypeOK, Grows, NEW S, NEW at \in Nat, Counts(S, at),
         \A q \in Open : Undone(q) => ~Misses(S, at, q)
  PROVE  Counts(S, at)'
  <1>1. SUFFICES ASSUME NEW q \in Open', q \notin S, created'[q] <= at
                 PROVE  Reopening(q)'
    BY DEF Counts, Misses
  <1>2. CASE q \in Open /\ created'[q] = created[q] /\ (Reopening(q) => Undone(q))
    <2>1. Misses(S, at, q)
      BY <1>1, <1>2 DEF Misses
    <2> QED
      BY <1>2, <2>1 DEF Counts
  <1> QED
    BY <1>2 DEF Grows

LEMMA DatedStays ==
  ASSUME TypeOK, Grows, clock' \in Nat, NEW row \in ProgressRows, Dated(row),
         \A q \in Open : Undone(q) => ~Betrays(row, q)
  PROVE  Dated(row)'
  <1>1. /\ row.completed <=> row.completedAt > 0
        /\ row.completedAt \in Nat /\ row.completedAt <= clock /\ clock \in Nat
    BY DEF Dated, TypeOK, ProgressRows
  <1>2. row.completedAt <= clock'
    BY <1>1 DEF Grows
  <1>3. row.completed /\ row.by = "submit" => Counts(row.basis, row.completedAt)'
    BY <1>1, CountsStay DEF Dated, Betrays
  <1> QED
    BY <1>1, <1>2, <1>3 DEF Dated

LEMMA KnowsStays ==
  ASSUME TypeOK, Grows, clock' \in Nat, recorded' \in Nat,
         NEW req \in RequestRecords, Knows(req),
         req.pc \in {"cover", "write"} /\ ~overlapped' => progress'.total = progress.total,
         req.pc \in {"cover", "write"} =>
           \A q \in Open : Undone(q) => /\ ~Misses(req.counted, req.at, q)
                                       /\ ~Betrays(req.old, q)
  PROVE  Knows(req)'
  <1>1. /\ req.at \in Nat /\ req.at <= clock /\ clock \in Nat
        /\ req.pc \in {"insert", "cover", "write"} => req.at > 0
    BY DEF Knows, TypeOK, RequestRecords
  <1>2. req.at <= clock'
    BY <1>1 DEF Grows
  <1>3. ASSUME req.pc \in {"cover", "write"}
        PROVE  /\ Dated(req.old)'
               /\ Counts(req.counted, req.at)'
               /\ req.old.total <= recorded'
               /\ ~overlapped' => req.old.total = progress'.total
    <2>1. /\ Dated(req.old) /\ Counts(req.counted, req.at) /\ req.old \in ProgressRows
          /\ req.old.total <= recorded
          /\ ~overlapped => req.old.total = progress.total
      BY <1>3 DEF Knows, RequestRecords
    <2>2. Dated(req.old)' /\ Counts(req.counted, req.at)'
      BY <1>1, <1>3, <2>1, DatedStays, CountsStay
    <2>3. req.old.total <= recorded'
      BY <2>1 DEF Grows, ProgressRows, TypeOK
    <2>4. ~overlapped' => req.old.total = progress'.total
      BY <1>3, <2>1 DEF Grows
    <2> QED
      BY <2>2, <2>3, <2>4
  <1> QED
    BY <1>1, <1>2, <1>3 DEF Knows

\* The lock excludes: of two handlers at work on the row at most one is locked.
LEMMA OneIsUnlocked ==
  ASSUME IInv, NEW r \in Requests, NEW s \in Requests, r # s,
         requests[r].pc \in {"insert", "cover", "write"},
         requests[s].pc \in {"insert", "cover", "write"}
  PROVE  ~(requests[r].locked /\ requests[s].locked)
  BY DEF IInv, Excludes

-----------------------------------------------------------------------------
(* One step                                                                 *)

\* The slots that do not move keep what they know, and the lock.
LEMMA OthersKeep ==
  ASSUME IInv, NEW r \in Requests, Arrive(r) \/ Continue(r) \/ Fail(r),
         NEW s \in Requests, s # r
  PROVE  Knows(requests[s])' /\ Excludes(s)'
  <1>1. requests[s] \in RequestRecords /\ TypeOK /\ Knows(requests[s]) /\ Excludes(s)
    BY DEF IInv, TypeOK
  <1>2. requests'[s] = requests[s]
    BY <1>1, OneSlotMoves
  <1>3. \/ lock' = lock
        \/ lock = None
        \/ lock = r
    BY DEF Arrive, Continue, Fail, SubmitAttempt, SubmitSession, View, Sync, CreateQuiz,
           DeleteQuiz, Lock, Insert, Cover, Commit, HealRead, Clear, SyncCover, SyncWrite,
           Recount, InsertQuizzes, Release
  <1>4. Excludes(s)'
    BY <1>1, <1>2, <1>3, NoneIsNoRequest DEF Excludes
  <1>5. progress'.total = progress.total \/ (Commit(r) /\ requests[r].pc = "write")
    <2>1. progress \in ProgressRows
      BY <1>1 DEF TypeOK
    <2>2. Uncompleted.total = progress.total /\ Synced(r).total = progress.total
      BY <2>1 DEF Uncompleted, Synced, ProgressRows
    <2>3. ASSUME Arrive(r) \/ Fail(r) PROVE progress' = progress
      BY <2>3 DEF Arrive, Fail, SubmitAttempt, SubmitSession, View, Sync, CreateQuiz, DeleteQuiz
    <2>4. ASSUME Lock(r) \/ Insert(r) \/ Cover(r) \/ HealRead(r) \/ SyncCover(r) \/ Recount(r)
                 \/ InsertQuizzes(r)
          PROVE  progress' = progress
      BY <2>4 DEF Lock, Insert, Cover, HealRead, SyncCover, Recount, InsertQuizzes
    <2>5. ASSUME Clear(r) \/ SyncWrite(r) PROVE progress'.total = progress.total
      BY <2>2, <2>5 DEF Clear, SyncWrite
    <2>6. ASSUME Commit(r) PROVE requests[r].pc = "write"
      BY <2>6 DEF Commit, At
    <2> QED
      BY <2>3, <2>4, <2>5, <2>6 DEF Continue
  <1>6. requests[s].pc \in {"cover", "write"} /\ ~overlapped' => progress'.total = progress.total
    <2>1. SUFFICES ASSUME requests[s].pc \in {"cover", "write"}, ~overlapped',
                          progress'.total # progress.total
                   PROVE  FALSE
      OBVIOUS
    <2>2. Commit(r) /\ requests[r].pc = "write"
      BY <1>5, <2>1
    <2>3. InTransaction(s) /\ ~(requests[r].locked /\ requests[s].locked)
      BY <2>1, <2>2, OneIsUnlocked DEF InTransaction
    <2>4. overlapped'
      <3>1. progress' # progress
        BY <2>1
      <3> QED
        BY <2>2, <2>3, <3>1, Zenon DEF Commit
    <2> QED
      BY <2>1, <2>4
  <1>7. clock' \in Nat /\ recorded' \in Nat /\ Grows
    BY <1>1, RowsKeepType, TablesGrow
  <1>8. \A q \in RequestRecords :
           /\ Knows(q)
           /\ q.pc \in {"cover", "write"} /\ ~overlapped' => progress'.total = progress.total
           /\ q.pc \in {"cover", "write"} =>
                \A z \in Open : Undone(z) => /\ ~Misses(q.counted, q.at, z)
                                            /\ ~Betrays(q.old, z)
           => Knows(q)'
    BY <1>1, <1>7, KnowsStays
  <1>10. requests[s].pc \in {"cover", "write"} =>
           \A z \in Open : Undone(z) => /\ ~Misses(requests[s].counted, requests[s].at, z)
                                       /\ ~Betrays(requests[s].old, z)
    BY DEF Undone, Overtakes, InTransaction
  <1>9. Knows(requests[s])'
    BY <1>1, <1>2, <1>6, <1>8, <1>10 DEF Knows, Dated, Counts
  <1> QED
    BY <1>4, <1>9

\* The handler that moves knows what it has just read, and still what it read
\* before.
LEMMA OwnKnows ==
  ASSUME IInv, NEW r \in Requests, Arrive(r) \/ Continue(r) \/ Fail(r)
  PROVE  Knows(requests[r])' /\ Excludes(r)'
  <1> DEFINE req == requests[r]
  <1> USE DEF Set, Goto, Finish, At
  <1>1. /\ req \in RequestRecords /\ requests \in [Requests -> RequestRecords]
        /\ TypeOK /\ Knows(req) /\ Excludes(r)
        /\ clock \in Nat /\ clock > 0 /\ progress \in ProgressRows /\ recorded \in Nat
        /\ Dated(progress) /\ TotalsMatchAttempts
    BY DEF IInv, TypeOK
  <1>2. clock' \in Nat /\ clock <= clock'
    BY <1>1, RowsKeepType, TablesGrow DEF Grows
  <1>3. ASSUME requests'[r].pc \notin {"insert", "cover", "write"},
               requests'[r].at <= clock'
        PROVE  Knows(requests[r])' /\ Excludes(r)'
    BY <1>3 DEF Knows, Excludes
  <1>4. Idle \in RequestRecords /\ Idle.pc = "idle" /\ Idle.at = 0 /\ ~Idle.locked
    BY IdleIsRequest DEF Idle
  <1>5. req.at <= clock' /\ req.at \in Nat
    BY <1>1, <1>2 DEF Knows, RequestRecords
  <1>6. CASE SubmitAttempt(r)
    <2>1. /\ requests'[r].pc = "insert"
          /\ requests'[r].at = clock + 1
          /\ requests'[r].locked = FALSE
          /\ clock' = clock + 1
      BY <1>1, <1>4, <1>6, IdleIsRequest DEF SubmitAttempt, Event, RequestRecords
    <2> QED
      BY <1>1, <2>1 DEF Knows, Excludes
  <1>7. CASE SubmitSession(r)
    <2>1. requests'[r].pc = "lock" /\ requests'[r].at = 0
      BY <1>1, <1>4, <1>7, IdleIsRequest DEF SubmitSession, RequestRecords
    <2> QED
      BY <1>2, <2>1 DEF Knows, Excludes
  <1>8. CASE Lock(r)
    <2>1. /\ requests'[r].pc = "insert" /\ requests'[r].at = clock + 1
          /\ clock' = clock + 1 /\ lock' = r
      BY <1>1, <1>8 DEF Lock, RequestRecords
    <2> QED
      BY <1>1, <2>1 DEF Knows, Excludes
  <1>9. CASE Insert(r)
    <2>1. CASE requests' = [requests EXCEPT ![r] = Idle]
      <3>1. requests'[r] = Idle
        BY <1>1, <2>1
      <3> QED
        BY <1>2, <1>3, <1>4, <3>1
    <2>2. CASE /\ requests' = [requests EXCEPT ![r] = [req EXCEPT !.pc = "cover", !.old = progress,
                                                                  !.counted = Here]]
               /\ UNCHANGED lock
      <3>1. /\ requests'[r].pc = "cover" /\ requests'[r].at = req.at
            /\ requests'[r].old = progress /\ requests'[r].counted = Here
            /\ requests'[r].locked = req.locked
        BY <1>1, <2>2 DEF RequestRecords
      <3>2. /\ UNCHANGED <<clock, place, created, movedIn, slipped, progress, recorded, overlapped>>
            /\ req.pc = "insert"
        BY <1>9 DEF Insert, content
      <3>3. Excludes(r)'
        BY <1>1, <2>2, <3>1, <3>2 DEF Excludes
      <3>8. Open' = Open /\ \A q : Reopening(q) => Reopening(q)'
        BY <1>1, <3>2, ReopeningStays DEF Open, Here
      <3>4. Dated(requests[r].old)'
        BY <1>1, <3>1, <3>2, <3>8 DEF Dated, Counts, Misses
      <3>5. Counts(requests[r].counted, requests[r].at)'
        BY <3>1, <3>2 DEF Counts, Misses, Open, Here
      <3>6. req.at > 0
        BY <1>1, <3>2 DEF Knows
      <3>7. progress.total <= recorded
        BY <1>1 DEF TotalsMatchAttempts
      <3> QED
        BY <1>5, <3>1, <3>2, <3>3, <3>4, <3>5, <3>6, <3>7 DEF Knows
    <2> QED
      BY <1>9, <2>1, <2>2 DEF Insert
  <1>10. CASE Cover(r)
    <2>1. /\ requests'[r].pc = "write" /\ requests'[r].at = req.at
          /\ requests'[r].old = req.old /\ requests'[r].counted = req.counted
          /\ requests'[r].locked = req.locked
      BY <1>1, <1>10 DEF Cover, RequestRecords
    <2>2. /\ UNCHANGED <<clock, place, created, movedIn, slipped, progress, recorded, overlapped,
                          lock>>
          /\ req.pc = "cover"
      BY <1>10 DEF Cover, content
    <2>4. Open' = Open /\ \A q : Reopening(q) => Reopening(q)'
      BY <1>1, <2>2, ReopeningStays DEF Open, Here
    <2>3. Knows(requests[r])'
      BY <1>1, <2>1, <2>2, <2>4 DEF Knows, Dated, Counts, Misses
    <2> QED
      BY <1>1, <2>1, <2>2, <2>3 DEF Excludes
  <1>14. CASE CreateQuiz(r)
    <2>1. /\ requests'[r].pc = "create" /\ requests'[r].at = clock + 1 /\ clock' = clock + 1
      BY <1>1, <1>4, <1>14 DEF CreateQuiz, Event, RequestRecords
    <2> QED
      BY <1>1, <1>3, <2>1
  <1>11. CASE View(r) \/ InsertQuizzes(r) \/ DeleteQuiz(r) \/ HealRead(r) \/ SyncCover(r)
    <2>1. PICK q \in RequestRecords : /\ requests' = [requests EXCEPT ![r] = q]
                                      /\ q.pc \notin {"insert", "cover", "write"}
                                      /\ q.at \in {req.at, 0}
      <3>1. \A p \in {"clear", "recount"} :
              /\ [req EXCEPT !.pc = p] \in RequestRecords
              /\ [req EXCEPT !.pc = p].pc = p
              /\ [req EXCEPT !.pc = p].at = req.at
        BY <1>1 DEF RequestRecords
      <3>2. \A c \in BOOLEAN :
              /\ [req EXCEPT !.pc = "syncWrite", !.covers = c] \in RequestRecords
              /\ [req EXCEPT !.pc = "syncWrite", !.covers = c].pc = "syncWrite"
              /\ [req EXCEPT !.pc = "syncWrite", !.covers = c].at = req.at
        BY <1>1 DEF RequestRecords
      <3>3. Passes(RightHere(latest), req.counted) \in BOOLEAN
        BY DEF Passes
      <3> QED
        BY <1>4, <1>11, <3>1, <3>2, <3>3 DEF View, InsertQuizzes, DeleteQuiz, HealRead, SyncCover
    <2>2. requests'[r] = q
      BY <1>1, <2>1
    <2> QED
      BY <1>2, <1>3, <1>5, <2>1, <2>2
  <1>12. CASE Commit(r) \/ Clear(r) \/ SyncWrite(r) \/ Fail(r)
    <2>1. requests'[r] \in {Idle, [Idle EXCEPT !.pc = "heal"]}
      BY <1>1, <1>12 DEF Commit, Clear, SyncWrite, Fail
    <2>2. requests'[r].pc \in {"idle", "heal"} /\ requests'[r].at = 0
      BY <2>1 DEF Idle
    <2> QED
      BY <1>2, <1>3, <2>2
  <1>13. CASE Sync(r) \/ Recount(r)
    <2>1. CASE requests'[r] = Idle
      BY <1>2, <1>3, <1>4, <2>1
    <2>2. CASE requests'[r] = [Idle EXCEPT !.pc = "syncCover", !.old = progress, !.counted = Here]
      <3>1. requests'[r].pc = "syncCover" /\ requests'[r].at = 0
        BY <2>2 DEF Idle
      <3> QED
        BY <1>2, <1>3, <3>1
    <2>3. CASE requests'[r] = [req EXCEPT !.pc = "syncCover", !.old = progress,
                                          !.counted = Here, !.at = clock]
      <3>1. requests'[r].pc = "syncCover" /\ requests'[r].at = clock
        BY <1>1, <2>3 DEF RequestRecords
      <3> QED
        BY <1>2, <1>3, <3>1
    <2> QED
      BY <1>1, <1>13, <2>1, <2>2, <2>3 DEF Sync, Recount
  <1> QED
    BY <1>6, <1>7, <1>8, <1>9, <1>10, <1>11, <1>12, <1>13, <1>14 DEF Arrive, Continue

\* The row stays dated and its totals right.
LEMMA RowStaysRight ==
  ASSUME IInv, NEW r \in Requests, Arrive(r) \/ Continue(r) \/ Fail(r)
  PROVE  Dated(progress)' /\ TotalsMatchAttempts'
  <1> DEFINE req == requests[r]
  <1>1. /\ req \in RequestRecords /\ TypeOK /\ Knows(req) /\ Dated(progress) /\ TotalsMatchAttempts
        /\ clock \in Nat /\ clock > 0 /\ progress \in ProgressRows /\ recorded \in Nat
    BY DEF IInv, TypeOK
  <1>2. clock' \in Nat /\ Grows
    BY <1>1, RowsKeepType, TablesGrow
  <1>3. CASE progress' = progress /\ recorded' = recorded /\ overlapped' = overlapped
    <2>1. Dated(progress)'
      <3>1. \A row \in ProgressRows :
               Dated(row) /\ (\A q \in Open : Undone(q) => ~Betrays(row, q)) => Dated(row)'
        BY <1>1, <1>2, DatedStays
      <3>2. \A q : Undone(q) => ~Betrays(progress, q)
        BY <1>3 DEF Undone
      <3> QED
        BY <1>1, <1>3, <3>1, <3>2 DEF Dated, Counts
    <2>2. TotalsMatchAttempts'
      BY <1>1, <1>3 DEF TotalsMatchAttempts
    <2> QED
      BY <2>1, <2>2
  <1>4. CASE progress' = Uncompleted /\ recorded' = recorded /\ overlapped' = overlapped
    <2>1. /\ progress'.completed = FALSE /\ progress'.completedAt = 0
          /\ progress'.total = progress.total
      BY <1>1, <1>4 DEF Uncompleted, ProgressRows
    <2>2. Dated(progress)'
      BY <1>2, <2>1 DEF Dated
    <2>3. TotalsMatchAttempts'
      BY <1>1, <1>4, <2>1 DEF TotalsMatchAttempts
    <2> QED
      BY <2>2, <2>3
  <1>5. CASE SyncWrite(r)
    <2>1. UNCHANGED <<clock, recorded, overlapped>> /\ progress' = Synced(r)
      BY <1>5 DEF SyncWrite
    <2>2. CASE req.covers
      <3>1. /\ progress'.completed = TRUE /\ progress'.by = "sync"
            /\ progress'.completedAt \in {req.at, clock} /\ progress'.completedAt > 0
            /\ progress'.total = progress.total
        BY <1>1, <2>1, <2>2 DEF Synced, ProgressRows, RequestRecords
      <3>2. Dated(progress)'
        BY <1>1, <2>1, <3>1 DEF Dated, Knows, RequestRecords
      <3>3. TotalsMatchAttempts'
        BY <1>1, <2>1, <3>1 DEF TotalsMatchAttempts
      <3> QED
        BY <3>2, <3>3
    <2> QED
      BY <1>4, <2>1, <2>2 DEF Synced
  <1>6. CASE Commit(r) /\ requests[r].old.exists = progress.exists
    <2>1. /\ progress' = Updated(req) /\ clock' = clock /\ req.pc = "write"
          /\ recorded' = recorded + Cardinality(Attempted(req.results))
      BY <1>6 DEF Commit, At
    <2>2. ~overlapped' => ~overlapped
      BY <1>2 DEF Grows
    <2>3. /\ Cardinality(Attempted(req.results)) \in Nat
          /\ req.old \in ProgressRows
      BY <1>1, AttemptsAreCounted DEF RequestRecords
    <2>4. progress'.total = req.old.total + Cardinality(Attempted(req.results))
      BY <2>1 DEF Updated
    <2>5. TotalsMatchAttempts'
      <3>1. req.old.total <= recorded /\ (~overlapped => req.old.total = progress.total)
        BY <1>1, <2>1 DEF Knows
      <3>2. ~overlapped => progress.total = recorded
        BY <1>1 DEF TotalsMatchAttempts
      <3>3. progress'.total <= recorded'
        BY <1>1, <2>1, <2>3, <2>4, <3>1 DEF ProgressRows
      <3>4. ~overlapped' => progress'.total = recorded'
        BY <2>1, <2>2, <2>4, <3>1, <3>2
      <3> QED
        BY <3>3, <3>4 DEF TotalsMatchAttempts
    <2>6. Dated(req.old) /\ Counts(req.counted, req.at) /\ req.at > 0 /\ req.at <= clock
      BY <1>1, <2>1 DEF Knows
    <2>7. UNCHANGED <<clock, place, created, movedIn, slipped>>
      BY <1>6 DEF Commit, content
    <2>10. Open' = Open /\ \A q : Reopening(q) => Reopening(q)'
      BY <1>1, <2>1, <2>7, ReopeningStays DEF Open, Here, At
    <2>8. CASE req.old.completed \/ ~req.covers
      <3>1. /\ progress'.completed = req.old.completed
            /\ progress'.completedAt = req.old.completedAt
            /\ progress'.by = req.old.by /\ progress'.basis = req.old.basis
        BY <1>1, <2>1, <2>3, <2>8 DEF Updated, ProgressRows, RequestRecords
      <3> QED
        BY <2>5, <2>6, <2>7, <2>10, <3>1 DEF Dated, Counts, Misses
    <2>9. CASE ~req.old.completed /\ req.covers
      <3>1. /\ progress'.completed = TRUE /\ progress'.completedAt = req.at
            /\ progress'.basis = req.counted
        BY <1>1, <2>1, <2>3, <2>9 DEF Updated, ProgressRows, RequestRecords
      <3> QED
        BY <1>1, <2>5, <2>6, <2>7, <2>10, <3>1 DEF Dated, Counts, Misses
    <2> QED
      BY <2>8, <2>9
  <1>7. ASSUME Commit(r), requests[r].old.exists # progress.exists
        PROVE  UNCHANGED <<progress, recorded, overlapped>>
    BY <1>7 DEF Commit
  <1>8. ASSUME Arrive(r) \/ Fail(r) PROVE UNCHANGED <<progress, recorded, overlapped>>
    BY <1>8 DEF Arrive, Fail, SubmitAttempt, SubmitSession, View, Sync, CreateQuiz, DeleteQuiz
  <1>9. ASSUME Lock(r) \/ Insert(r) \/ Cover(r) \/ HealRead(r) \/ SyncCover(r) \/ Recount(r)
               \/ InsertQuizzes(r)
        PROVE  UNCHANGED <<progress, recorded, overlapped>>
    BY <1>9 DEF Lock, Insert, Cover, HealRead, SyncCover, Recount, InsertQuizzes
  <1>10. CASE Clear(r)
    BY <1>4, <1>10 DEF Clear
  <1> QED
    BY <1>3, <1>5, <1>6, <1>7, <1>8, <1>9, <1>10 DEF Continue

\* A quiz that moves is marked when it comes back.
LEMMA MoveStep == IInv /\ MoveQuiz => IInv'
  <1> SUFFICES ASSUME IInv, MoveQuiz PROVE IInv'
    OBVIOUS
  <1>1. /\ TypeOK /\ clock \in Nat /\ clock' = clock + 1
        /\ UNCHANGED <<created, latest, progress, requests, lock, recorded, overlapped, slipped>>
    BY DEF IInv, TypeOK, MoveQuiz, Event
  <1>2. PICK q \in Quizzes :
          \/ place' = [place EXCEPT ![q] = "elsewhere"] /\ movedIn' = movedIn
          \/ place' = [place EXCEPT ![q] = "here"] /\ movedIn' = movedIn \cup {q}
    BY DEF MoveQuiz
  <1>3. TypeOK'
    BY <1>1, <1>2 DEF TypeOK
  <1>8. Open' \subseteq Open /\ \A z : Reopening(z)' <=> Reopening(z)
    BY <1>1, <1>2 DEF Open, Here, TypeOK, Reopening, At
  <1>9. ASSUME NEW S, NEW at, Counts(S, at) PROVE Counts(S, at)'
    BY <1>1, <1>8, <1>9 DEF Counts, Misses
  <1>4. Dated(progress)'
    BY <1>1, <1>9 DEF IInv, Dated, TypeOK, ProgressRows
  <1>6. ASSUME NEW r \in Requests PROVE Knows(requests[r])' /\ Excludes(r)'
    <2>1. requests[r] \in RequestRecords /\ Knows(requests[r]) /\ Excludes(r) /\ recorded \in Nat
      BY DEF IInv, TypeOK
    <2>3. Knows(requests[r])'
      <3>1. requests'[r] = requests[r]
        BY <1>1
      <3>2. requests[r].pc \in {"cover", "write"} =>
              Dated(requests[r].old)' /\ Counts(requests[r].counted, requests[r].at)'
        BY <1>1, <1>9, <2>1 DEF Knows, Dated, RequestRecords, ProgressRows
      <3> QED
        BY <1>1, <2>1, <3>1, <3>2 DEF Knows, RequestRecords
    <2> QED
      BY <1>1, <2>1, <2>3 DEF Excludes
  <1>7. clock' > 0 /\ TotalsMatchAttempts'
    BY <1>1 DEF IInv, TotalsMatchAttempts
  <1> QED
    BY <1>3, <1>4, <1>6, <1>7 DEF IInv

LEMMA InvStep == IInv /\ [Next]_vars => IInv'
  <1> SUFFICES ASSUME IInv, [Next]_vars PROVE IInv'
    OBVIOUS
  <1>1. ASSUME NEW r \in Requests, Arrive(r) \/ Continue(r) \/ Fail(r) PROVE IInv'
    <2>1. TypeOK /\ clock \in Nat /\ clock > 0
      BY DEF IInv, TypeOK
    <2>2. Dated(progress)' /\ TotalsMatchAttempts'
      BY <1>1, RowStaysRight
    <2>3. TypeOK'
      BY <1>1, <2>1, <2>2, RequestsKeepType, RowsKeepType DEF TypeOK, Dated
    <2>4. \A s \in Requests : Knows(requests[s])' /\ Excludes(s)'
      BY <1>1, OthersKeep, OwnKnows
    <2>5. clock' > 0
      BY <1>1, <2>1, <2>3, TablesGrow DEF Grows, TypeOK
    <2> QED
      BY <2>2, <2>3, <2>4, <2>5 DEF IInv
  <1>2. CASE UNCHANGED vars
    BY <1>2 DEF vars, content, IInv, TypeOK, Dated, Counts, Open, Misses, Reopening, At, Here,
                     TotalsMatchAttempts, Knows, Excludes
  <1> QED
    BY <1>1, <1>2, MoveStep DEF Next

LEMMA InitInv == Init => IInv
  <1> SUFFICES ASSUME Init PROVE IInv
    OBVIOUS
  <1>1. TypeOK
    BY InitType
  <1>2. clock = 1 /\ Dated(progress) /\ TotalsMatchAttempts
    BY DEF Init, NoRow, Dated, TotalsMatchAttempts
  <1>3. \A r \in Requests : Knows(requests[r]) /\ Excludes(r)
    BY DEF Init, Idle, Knows, Excludes
  <1> QED
    BY <1>1, <1>2, <1>3 DEF IInv

-----------------------------------------------------------------------------
(* What agrees goes on agreeing                                             *)

\* No quiz of the topic is newer than this.
Fresh(at) == \A q \in Here : created[q] <= at

Agrees == progress.exists => progress.completed = Covered

\* What a handler in flight is about to write is so: it read the quizzes that are
\* there, and the coverage as it is.  A submission with attempts brings news.
Current(r) ==
    LET req == requests[r] IN
    /\ req.pc = "clear" => ~Covered
    /\ req.pc = "syncCover" => req.counted = Here
    /\ req.pc = "syncWrite" => req.covers = Covered
    /\ req.pc \in {"syncCover", "syncWrite"} /\ req.at > 0 => Fresh(req.at)
    /\ req.pc \in {"insert", "cover", "write"} /\ Attempted(req.results) = {} =>
         /\ Fresh(req.at)
         /\ req.pc = "cover" => req.counted = Here
         /\ req.pc = "write" => req.covers = Covered
         /\ req.pc # "insert" /\ req.old.completed => Covered /\ Fresh(req.old.completedAt)

Settled == Agrees /\ ~Stale /\ \A r \in Requests : Current(r)

\* The safety half of CompletionSettles: a flag that agrees with the coverage, with
\* nothing in flight that read otherwise, is put out of line only by an attempt or
\* a change of the quizzes, and by no read, healing, recount or failure.
SettledStays == [][Settled /\ UNCHANGED <<content, latest, recorded>> => Settled']_vars

\* Quizzes are not from the future, a creation makes some, and only a row that
\* exists is synced.
Grounded ==
    /\ \A q \in Quizzes : created[q] <= clock
    /\ \A r \in Requests : requests[r].pc = "create" => requests[r].making # {}
    /\ progress.completed => progress.exists
    /\ \A r \in Requests : requests[r].pc \in {"syncCover", "syncWrite"} => progress.exists

\* What becomes of the slot that moves.
LEMMA OwnSlotMoves ==
  ASSUME TypeOK, NEW r \in Requests, NEW req, req = requests[r], NEW next, next = requests'[r]
  PROVE  /\ SubmitAttempt(r) => next.pc = "insert" /\ Attempted(next.results) # {}
         /\ SubmitSession(r) => next.pc = "lock"
         /\ Lock(r) => next.pc = "insert" /\ next.at = clock + 1 /\ next.results = req.results
         /\ Insert(r) =>
              \/ next.pc = "idle"
              \/ /\ req.pc = "insert" /\ next.pc = "cover"
                 /\ next.at = req.at /\ next.results = req.results
                 /\ next.old = progress /\ next.counted = Here
         /\ Cover(r) =>
              /\ req.pc = "cover" /\ next.pc = "write" /\ next.at = req.at
              /\ next.results = req.results /\ next.old = req.old
              /\ next.covers = Passes(RightHere(Latest(req.results, req.at)), req.counted)
         /\ Commit(r) => next.pc \in {"idle", "heal"}
         /\ HealRead(r) => next.pc = "idle" \/ (next.pc = "clear" /\ Stale)
         /\ View(r) => next.pc = "clear" /\ Stale
         /\ CreateQuiz(r) => next.pc = "create" /\ next.making # {}
         /\ InsertQuizzes(r) => next.pc \in {"idle", "clear"}
         /\ DeleteQuiz(r) => next.pc = "recount"
         /\ Clear(r) \/ SyncWrite(r) \/ Fail(r) => next.pc = "idle"
         /\ Sync(r) => /\ progress.exists /\ next.pc = "syncCover"
                       /\ next.counted = Here /\ next.at = 0
         /\ SyncCover(r) =>
              \/ next.pc = "idle"
              \/ /\ req.pc = "syncCover" /\ next.pc = "syncWrite" /\ next.at = req.at
                 /\ next.covers = Passes(RightHere(latest), req.counted)
         /\ Recount(r) =>
              \/ next.pc = "idle"
              \/ /\ progress.exists /\ next.pc = "syncCover"
                 /\ next.counted = Here /\ next.at = clock
  <1> USE DEF Set, Goto, Finish, At
  <1>1. /\ requests \in [Requests -> RequestRecords] /\ req \in RequestRecords
        /\ \A q : requests' = [requests EXCEPT ![r] = q] => next = q
    BY DEF TypeOK
  <1>2. /\ Idle.pc = "idle" /\ Idle.at = 0
        /\ \A p : [Idle EXCEPT !.pc = p].pc = p
        /\ \A p : [req EXCEPT !.pc = p].pc = p
    BY <1>1 DEF Idle, RequestRecords
  <1>3. ASSUME SubmitAttempt(r) PROVE next.pc = "insert" /\ Attempted(next.results) # {}
    <2>1. PICK q \in Here, result \in {"right", "wrong"} :
            next = [Idle EXCEPT !.pc = "insert", !.at = clock + 1, !.results[q] = result]
      BY <1>1, <1>3 DEF SubmitAttempt
    <2>2. next.pc = "insert" /\ next.results = [Blank EXCEPT ![q] = result]
      BY <2>1 DEF Idle
    <2>3. q \in Quizzes /\ next.results[q] # "none"
      BY <2>2 DEF Blank, Here
    <2> QED
      BY <2>2, <2>3 DEF Attempted
  <1>4. ASSUME SubmitSession(r) PROVE next.pc = "lock"
    <2>1. PICK right \in SUBSET Here :
            next = [Idle EXCEPT !.pc = "lock",
                     !.results = [q \in Quizzes |-> IF q \in right THEN "right"
                                                    ELSE IF q \in Here THEN "wrong" ELSE "none"]]
      BY <1>1, <1>4 DEF SubmitSession
    <2> QED
      BY <2>1 DEF Idle
  <1>5. ASSUME Lock(r)
        PROVE  next.pc = "insert" /\ next.at = clock + 1 /\ next.results = req.results
    BY <1>1, <1>5 DEF Lock, RequestRecords
  <1>6. ASSUME Insert(r)
        PROVE  \/ next.pc = "idle"
               \/ /\ req.pc = "insert" /\ next.pc = "cover"
                  /\ next.at = req.at /\ next.results = req.results
                  /\ next.old = progress /\ next.counted = Here
    <2>1. \/ next = Idle
          \/ /\ req.pc = "insert"
             /\ next = [req EXCEPT !.pc = "cover", !.old = progress, !.counted = Here]
      BY <1>1, <1>6 DEF Insert
    <2> QED
      BY <1>1, <1>2, <2>1 DEF RequestRecords
  <1>7. ASSUME Cover(r)
        PROVE  /\ req.pc = "cover" /\ next.pc = "write" /\ next.at = req.at
               /\ next.results = req.results /\ next.old = req.old
               /\ next.covers = Passes(RightHere(Latest(req.results, req.at)), req.counted)
    BY <1>1, <1>7 DEF Cover, RequestRecords
  <1>8. ASSUME Commit(r) PROVE next.pc \in {"idle", "heal"}
    BY <1>1, <1>2, <1>8 DEF Commit
  <1>9. HealRead(r) => next.pc = "idle" \/ (next.pc = "clear" /\ Stale)
    BY <1>1, <1>2 DEF HealRead
  <1>10. View(r) => next.pc = "clear" /\ Stale
    BY <1>1, <1>2 DEF View
  <1>11. ASSUME CreateQuiz(r) PROVE next.pc = "create" /\ next.making # {}
    <2>1. PICK Q \in SUBSET Quizzes :
            Q # {} /\ next = [Idle EXCEPT !.pc = "create", !.at = clock + 1, !.making = Q]
      BY <1>1, <1>11 DEF CreateQuiz
    <2> QED
      BY <2>1 DEF Idle
  <1>17. InsertQuizzes(r) => next.pc \in {"idle", "clear"}
    BY <1>1, <1>2 DEF InsertQuizzes
  <1>12. DeleteQuiz(r) => next.pc = "recount"
    BY <1>1, <1>2 DEF DeleteQuiz
  <1>13. Clear(r) \/ SyncWrite(r) \/ Fail(r) => next.pc = "idle"
    BY <1>1, <1>2 DEF Clear, SyncWrite, Fail
  <1>14. Sync(r) => /\ progress.exists /\ next.pc = "syncCover"
                    /\ next.counted = Here /\ next.at = 0
    BY <1>1 DEF Sync, Idle
  <1>15. ASSUME SyncCover(r)
         PROVE  \/ next.pc = "idle"
                \/ /\ req.pc = "syncCover" /\ next.pc = "syncWrite" /\ next.at = req.at
                   /\ next.covers = Passes(RightHere(latest), req.counted)
    <2>1. \/ next = Idle
          \/ /\ req.pc = "syncCover"
             /\ next = [req EXCEPT !.pc = "syncWrite",
                                   !.covers = Passes(RightHere(latest), req.counted)]
      BY <1>1, <1>15 DEF SyncCover
    <2> QED
      BY <1>1, <1>2, <2>1 DEF RequestRecords
  <1>16. ASSUME Recount(r)
         PROVE  \/ next.pc = "idle"
                \/ /\ progress.exists /\ next.pc = "syncCover"
                   /\ next.counted = Here /\ next.at = clock
    <2>1. \/ next = Idle
          \/ /\ progress.exists
             /\ next = [req EXCEPT !.pc = "syncCover", !.old = progress,
                                   !.counted = Here, !.at = clock]
      BY <1>1, <1>16 DEF Recount
    <2> QED
      BY <1>1, <1>2, <2>1 DEF RequestRecords
  <1> QED
    BY <1>3, <1>4, <1>5, <1>6, <1>7, <1>8, <1>9, <1>10, <1>11, <1>12, <1>13, <1>14, <1>15, <1>16,
       <1>17

\* How the row moves.
LEMMA RowMoves ==
  ASSUME NEW r \in Requests, Arrive(r) \/ Continue(r) \/ Fail(r)
  PROVE  \/ progress' = progress
         \/ Clear(r) /\ progress' = Uncompleted
         \/ SyncWrite(r) /\ progress' = Synced(r)
         \/ /\ Commit(r) /\ At(r, "write")
            /\ progress' = Updated(requests[r])
            /\ recorded' = recorded + Cardinality(Attempted(requests[r].results))
  <1>1. ASSUME Arrive(r) \/ Fail(r) PROVE progress' = progress
    BY <1>1 DEF Arrive, Fail, SubmitAttempt, SubmitSession, View, Sync, CreateQuiz, DeleteQuiz
  <1>2. ASSUME Lock(r) \/ Insert(r) \/ Cover(r) \/ HealRead(r) \/ SyncCover(r) \/ Recount(r)
               \/ InsertQuizzes(r)
        PROVE  progress' = progress
    BY <1>2 DEF Lock, Insert, Cover, HealRead, SyncCover, Recount, InsertQuizzes
  <1>3. ASSUME Clear(r) PROVE progress' = Uncompleted
    BY <1>3 DEF Clear
  <1>4. ASSUME SyncWrite(r) PROVE progress' = Synced(r)
    BY <1>4 DEF SyncWrite
  <1>5. ASSUME Commit(r)
        PROVE  \/ progress' = progress
               \/ /\ At(r, "write")
                  /\ progress' = Updated(requests[r])
                  /\ recorded' = recorded + Cardinality(Attempted(requests[r].results))
    BY <1>5 DEF Commit
  <1> QED
    BY <1>1, <1>2, <1>3, <1>4, <1>5 DEF Continue

\* Nothing is created later than now, and a row once made stays.
LEMMA GroundedStep == IInv /\ TypeOK' /\ Grounded /\ [Next]_vars => Grounded'
  <1> SUFFICES ASSUME IInv, TypeOK, TypeOK', Grounded, [Next]_vars PROVE Grounded'
    BY DEF IInv
  <1>1. /\ clock \in Nat /\ clock' \in Nat /\ created \in [Quizzes -> Nat]
        /\ progress \in ProgressRows /\ requests \in [Requests -> RequestRecords]
        /\ requests' \in [Requests -> RequestRecords]
    BY DEF TypeOK
  <1>2. ASSUME NEW r \in Requests, Arrive(r) \/ Continue(r) \/ Fail(r) PROVE Grounded'
    <2>1. \A q \in Quizzes : created'[q] <= clock'
      <3>1. clock <= clock'
        BY <1>1, <1>2, TablesGrow DEF Grows
      <3>2. requests[r].at \in Nat /\ requests[r].at <= clock
        BY <1>1 DEF IInv, Knows, RequestRecords
      <3>3. ASSUME NEW q \in Quizzes PROVE created'[q] \in {created[q], requests[r].at}
        <4>1. CASE InsertQuizzes(r)
          BY <1>1, <3>3, <4>1 DEF InsertQuizzes
        <4>2. ASSUME ~InsertQuizzes(r) PROVE created' = created
          BY <1>2, <4>2
             DEF Arrive, Continue, Fail, SubmitAttempt, SubmitSession, View, Sync, CreateQuiz,
                 DeleteQuiz, Lock, Insert, Cover, Commit, HealRead, Clear, SyncCover, SyncWrite,
                 Recount, content
        <4> QED
          BY <4>1, <4>2
      <3> QED
        BY <1>1, <3>1, <3>2, <3>3 DEF Grounded
    <2>5. ASSUME NEW s \in Requests, requests'[s].pc = "create"
          PROVE  requests'[s].making # {}
      <3>1. CASE s # r
        BY <1>2, <2>5, <3>1, OneSlotMoves DEF Grounded
      <3>2. CASE s = r
        <4>1. CreateQuiz(r)
          BY <1>2, <2>5, <3>2, OwnSlotMoves DEF Arrive, Continue
        <4> QED
          BY <3>2, <4>1, OwnSlotMoves
      <3> QED
        BY <3>1, <3>2
    <2>2. progress.exists => progress'.exists
      <3>1. Uncompleted.exists = progress.exists /\ Synced(r).exists = progress.exists
        BY <1>1 DEF Uncompleted, Synced, ProgressRows
      <3>2. Updated(requests[r]).exists
        BY DEF Updated
      <3> QED
        BY <1>2, <3>1, <3>2, RowMoves
    <2>3. progress'.completed => progress'.exists
      <3>1. CASE progress' = progress \/ progress' = Uncompleted
        BY <1>1, <3>1 DEF Grounded, Uncompleted, ProgressRows
      <3>2. CASE SyncWrite(r)
        BY <2>2, <3>2 DEF SyncWrite, At, Grounded
      <3>3. CASE progress' = Updated(requests[r])
        BY <3>3 DEF Updated
      <3> QED
        BY <1>2, <3>1, <3>2, <3>3, RowMoves
    <2>4. ASSUME NEW s \in Requests, requests'[s].pc \in {"syncCover", "syncWrite"}
          PROVE  progress'.exists
      <3>1. CASE s # r
        BY <1>2, <2>2, <2>4, <3>1, OneSlotMoves DEF Grounded
      <3>2. CASE s = r
        <4>1. Sync(r) \/ Recount(r) \/ SyncCover(r)
          BY <1>2, <2>4, <3>2, OwnSlotMoves DEF Arrive, Continue
        <4>2. ASSUME Sync(r) \/ SyncCover(r) PROVE progress.exists
          BY <4>2 DEF Sync, SyncCover, Grounded, At
        <4>3. ASSUME Recount(r) PROVE progress.exists
          BY <2>4, <3>2, <4>3, OwnSlotMoves
        <4> QED
          BY <2>2, <4>1, <4>2, <4>3
      <3> QED
        BY <3>1, <3>2
    <2> QED
      BY <2>1, <2>3, <2>4, <2>5 DEF Grounded
  <1>3. CASE MoveQuiz
    BY <1>1, <1>3 DEF MoveQuiz, Event, Grounded
  <1>4. CASE UNCHANGED vars
    BY <1>4 DEF vars, content, Grounded
  <1> QED
    BY <1>2, <1>3, <1>4 DEF Next

LEMMA GroundedAtFirst == Init => Grounded
  BY DEF Init, Grounded, NoRow, Idle

-----------------------------------------------------------------------------
(* The theorems                                                             *)

\* The totals of the row are the attempts on record, whatever submissions, reads,
\* changes of quizzes and failures overlap; only submitAttempt, which takes no
\* lock, may lose some, and never counts one twice.
THEOREM TotalsAreRight == Spec => []TotalsMatchAttempts
  <1>1. IInv => TotalsMatchAttempts
    BY DEF IInv
  <1> QED
    BY <1>1, InitInv, InvStep, PTL DEF Spec

\* However stale what updateTopicProgress writes may be, a completion it leaves
\* stands on all quizzes of the topic, or is older than the one it misses, so that
\* healStaleTopicCompletions finds it, or that quiz's creation has yet to run
\* reopenTopicProgressAndCourses; but for quizzes moved in, and those whose creation
\* a submission overtook between their date and their commit.
THEOREM CompletionsHeal == Spec => []CompletionsStayHealable
  <1>1. IInv => CompletionsStayHealable
    BY DEF IInv, Dated, Counts, Open, Betrays, CompletionsStayHealable
  <1> QED
    BY <1>1, InitInv, InvStep, PTL DEF Spec

-----------------------------------------------------------------------------
(* A step of a settled topic                                                *)

Quiet == UNCHANGED <<content, latest, recorded>>

\* The quizzes and the attempts stand still, and so does what they come to.
LEMMA QuietMeans ==
  ASSUME Quiet
  PROVE  /\ Here' = Here /\ Covered' = Covered
         /\ \A at : Fresh(at) => Fresh(at)'
  BY DEF Quiet, content, Here, Covered, RightHere, Passes, Fresh

LEMMA NoAttempts ==
  ASSUME NEW results \in [Quizzes -> {"none", "right", "wrong"}],
         Cardinality(Attempted(results)) = 0
  PROVE  Attempted(results) = {}
  <1>1. IsFiniteSet(Attempted(results))
    BY QuizzesAreFinite, FS_Subset DEF Attempted
  <1> QED
    BY <1>1, FS_EmptySet

\* A completion that is not stale is newer than all quizzes.
LEMMA FreshOrStale ==
  ASSUME TypeOK, ~Stale, progress.completed
  PROVE  Fresh(progress.completedAt)
  <1>1. progress.completedAt \in Nat /\ \A q \in Here : created[q] \in Nat
    BY DEF TypeOK, ProgressRows, Here
  <1> QED
    BY <1>1 DEF Stale, Fresh

\* What is written agrees, and is dated after every quiz.
LEMMA WritesAgree ==
  ASSUME TypeOK, Grounded, Settled, Quiet,
         NEW r \in Requests, Arrive(r) \/ Continue(r) \/ Fail(r)
  PROVE  Agrees' /\ ~Stale'
  <1> DEFINE req == requests[r]
  <1>1. /\ req \in RequestRecords /\ progress \in ProgressRows /\ clock \in Nat /\ recorded \in Nat
        /\ \A q \in Here : created[q] \in Nat
        /\ Agrees /\ ~Stale /\ Current(r)
    BY DEF TypeOK, Settled, Here
  <1>2. Here' = Here /\ Covered' = Covered /\ created' = created
    BY QuietMeans DEF Quiet, content
  <1>3. SUFFICES /\ progress'.exists => progress'.completed = Covered
                 /\ progress'.completed => Fresh(progress'.completedAt)
                 /\ progress'.completed => progress'.completedAt \in Nat
    BY <1>1, <1>2 DEF Agrees, Stale, Fresh
  <1>4. CASE progress' = progress
    BY <1>1, <1>4, FreshOrStale DEF Agrees, ProgressRows
  <1>5. ASSUME progress' = Uncompleted, ~Covered
        PROVE  ~progress'.completed /\ Covered = FALSE
    BY <1>1, <1>5 DEF Uncompleted, ProgressRows, Covered, Passes
  <1>6. CASE Clear(r) /\ progress' = Uncompleted
    <2>1. ~Covered
      BY <1>1, <1>6 DEF Clear, Current, At
    <2> QED
      BY <1>1, <1>5, <1>6, <2>1 DEF Uncompleted, ProgressRows
  <1>7. CASE SyncWrite(r) /\ progress' = Synced(r)
    <2>1. /\ req.covers = Covered
          /\ req.at > 0 => Fresh(req.at)
      BY <1>1, <1>7 DEF SyncWrite, Current, At
    <2>2. CASE ~req.covers
      BY <1>1, <1>5, <1>7, <2>1, <2>2 DEF Synced, Uncompleted, ProgressRows
    <2>3. CASE req.covers
      <3>1. /\ progress'.completed = TRUE
            /\ progress'.completedAt = IF req.at > 0 THEN req.at ELSE clock
        BY <1>1, <1>7, <2>3 DEF Synced, ProgressRows
      <3>2. Fresh(clock)
        BY DEF Grounded, Fresh, Here
      <3> QED
        BY <1>1, <2>1, <2>3, <3>1, <3>2 DEF RequestRecords
    <2> QED
      BY <2>2, <2>3
  <1>8. CASE /\ Commit(r) /\ At(r, "write")
             /\ progress' = Updated(req)
             /\ recorded' = recorded + Cardinality(Attempted(req.results))
    <2>1. req.results \in [Quizzes -> {"none", "right", "wrong"}] /\ req.old \in ProgressRows
          /\ req.at \in Nat /\ req.covers \in BOOLEAN
      BY <1>1 DEF RequestRecords
    <2>2. Cardinality(Attempted(req.results)) = 0
      BY <1>1, <1>8, <2>1, AttemptsAreCounted DEF Quiet
    <2>3. Attempted(req.results) = {}
      BY <2>1, <2>2, NoAttempts
    <2>4. /\ Fresh(req.at)
          /\ req.covers = Covered
          /\ req.old.completed => Covered /\ Fresh(req.old.completedAt)
      BY <1>1, <1>8, <2>3 DEF Current, At
    <2>5. /\ progress'.completed = (req.old.completed \/ req.covers)
          /\ progress'.completedAt = IF req.old.completed \/ ~req.covers
                                     THEN req.old.completedAt ELSE req.at
      BY <1>8 DEF Updated
    <2>6. req.old.completed \in BOOLEAN /\ req.old.completedAt \in Nat
      BY <2>1 DEF ProgressRows
    <2> QED
      BY <2>1, <2>4, <2>5, <2>6
  <1> QED
    BY <1>4, <1>6, <1>7, <1>8, RowMoves

\* The handler that moves reads what is so.
LEMMA OwnIsCurrent ==
  ASSUME TypeOK, Grounded, Settled, Quiet,
         NEW r \in Requests, Arrive(r) \/ Continue(r) \/ Fail(r)
  PROVE  Current(r)'
  <1> DEFINE req == requests[r]
             next == requests'[r]
  <1>1. /\ req \in RequestRecords /\ clock \in Nat /\ progress \in ProgressRows
        /\ latest \in [Quizzes -> [at : Nat, right : BOOLEAN]]
        /\ Agrees /\ ~Stale /\ Current(r)
    BY DEF TypeOK, Settled
  <1>2. Here' = Here /\ Covered' = Covered /\ \A at : Fresh(at) => Fresh(at)'
    BY QuietMeans
  <1>3. Fresh(clock) /\ Fresh(clock + 1)
    BY <1>1 DEF Grounded, Fresh, Here, TypeOK
  <1>4. ASSUME next.pc \in {"idle", "heal", "lock", "recount", "create"} PROVE Current(r)'
    BY <1>4 DEF Current
  <1>5. ASSUME Attempted(req.results) = {}
        PROVE  Latest(req.results, req.at) = latest
    <2>1. \A q \in Quizzes : req.results[q] = "none"
      BY <1>5 DEF Attempted
    <2> QED
      BY <1>1, <2>1 DEF Latest
  <1>6. CASE SubmitAttempt(r)
    <2>1. next.pc = "insert" /\ Attempted(next.results) # {}
      BY <1>6, OwnSlotMoves
    <2> QED
      BY <2>1 DEF Current, Attempted
  <1>7. CASE Lock(r)
    <2>1. next.pc = "insert" /\ next.at = clock + 1
      BY <1>7, OwnSlotMoves
    <2> QED
      BY <1>2, <1>3, <2>1 DEF Current
  <1>8. CASE Insert(r)
    <2>1. CASE next.pc = "idle"
      BY <1>4, <2>1
    <2>2. CASE /\ req.pc = "insert" /\ next.pc = "cover"
               /\ next.at = req.at /\ next.results = req.results
               /\ next.old = progress /\ next.counted = Here
      <3>1. progress.completed => Covered /\ Fresh(progress.completedAt)
        BY <1>1, FreshOrStale DEF Agrees, Grounded
      <3>2. Attempted(req.results) = {} => Fresh(req.at)
        BY <1>1, <2>2 DEF Current
      <3> QED
        BY <1>2, <2>2, <3>1, <3>2 DEF Current, Attempted
    <2> QED
      BY <1>8, <2>1, <2>2, OwnSlotMoves
  <1>9. CASE Cover(r)
    <2>1. /\ req.pc = "cover" /\ next.pc = "write" /\ next.at = req.at
          /\ next.results = req.results /\ next.old = req.old
          /\ next.covers = Passes(RightHere(Latest(req.results, req.at)), req.counted)
      BY <1>9, OwnSlotMoves
    <2>2. ASSUME Attempted(req.results) = {}
          PROVE  /\ Fresh(req.at) /\ next.covers = Covered
                 /\ req.old.completed => Covered /\ Fresh(req.old.completedAt)
      <3>1. /\ Fresh(req.at) /\ req.counted = Here
            /\ req.old.completed => Covered /\ Fresh(req.old.completedAt)
        BY <1>1, <2>1, <2>2 DEF Current
      <3> QED
        BY <1>5, <2>1, <2>2, <3>1 DEF Covered
    <2> QED
      BY <1>2, <2>1, <2>2 DEF Current, Attempted
  <1>10. CASE Sync(r) \/ Recount(r)
    <2>1. \/ next.pc = "idle"
          \/ next.pc = "syncCover" /\ next.counted = Here /\ next.at \in {0, clock}
      BY <1>10, OwnSlotMoves
    <2> QED
      BY <1>2, <1>3, <1>4, <2>1 DEF Current
  <1>11. CASE SyncCover(r)
    <2>1. CASE next.pc = "idle"
      BY <1>4, <2>1
    <2>2. CASE /\ req.pc = "syncCover" /\ next.pc = "syncWrite" /\ next.at = req.at
               /\ next.covers = Passes(RightHere(latest), req.counted)
      <3>1. req.counted = Here /\ (req.at > 0 => Fresh(req.at))
        BY <1>1, <2>2 DEF Current
      <3>2. next.covers = Covered
        BY <2>2, <3>1 DEF Covered
      <3> QED
        BY <1>2, <2>2, <3>1, <3>2 DEF Current
    <2> QED
      BY <1>11, <2>1, <2>2, OwnSlotMoves
  <1>12. CASE SubmitSession(r) \/ Commit(r) \/ HealRead(r) \/ CreateQuiz(r) \/ DeleteQuiz(r)
              \/ Clear(r) \/ SyncWrite(r) \/ Fail(r)
    BY <1>1, <1>4, <1>12, OwnSlotMoves
  <1>13. ~View(r)
    BY <1>1 DEF View
  <1>14. CASE InsertQuizzes(r)
    <2>1. CASE next.pc = "idle"
      BY <1>4, <2>1
    <2>2. CASE next.pc = "clear"
      <3>1. /\ \A q \in req.making : place[q] = "none"
            /\ place' = [q \in Quizzes |-> IF q \in req.making THEN "here" ELSE place[q]]
            /\ req.making # {}
        BY <1>1, <1>14, <2>2 DEF InsertQuizzes, At, Finish, Set, Idle, TypeOK, Grounded
      <3>2. PICK q \in req.making : q \in Quizzes /\ place[q] = "none" /\ place'[q] = "here"
        BY <1>1, <3>1 DEF RequestRecords
      <3> QED
        BY <3>2 DEF Quiet, content
    <2> QED
      BY <1>14, <2>1, <2>2, OwnSlotMoves
  <1> QED
    BY <1>6, <1>7, <1>8, <1>9, <1>10, <1>11, <1>12, <1>13, <1>14 DEF Arrive, Continue

\* The flag that a learner sees, once it agrees with the coverage and nothing in
\* flight read otherwise, goes on agreeing whatever is read, healed, synced,
\* recounted or fails, until there is a new attempt or the quizzes change.
THEOREM AgreementLasts == Spec => SettledStays
  <1> DEFINE Kept == Settled /\ Quiet => Settled'
  <1>1. IInv /\ Grounded /\ [Next]_vars => [Kept]_vars
    <2> SUFFICES ASSUME IInv, Grounded, Settled, Quiet,
                        NEW r \in Requests, Arrive(r) \/ Continue(r) \/ Fail(r)
                 PROVE  Settled'
      <3>1. MoveQuiz => ~(TypeOK /\ Quiet)
        BY DEF MoveQuiz, Quiet, content, TypeOK
      <3> QED
        BY <3>1 DEF Next, IInv
    <2>1. TypeOK
      BY DEF IInv
    <2>2. Agrees' /\ ~Stale'
      BY <2>1, WritesAgree
    <2>3. ASSUME NEW s \in Requests PROVE Current(s)'
      <3>1. CASE s = r
        BY <2>1, <3>1, OwnIsCurrent
      <3>2. CASE s # r
        <4>1. requests'[s] = requests[s] /\ Current(s)
          BY <2>1, <3>2, OneSlotMoves DEF Settled
        <4> QED
          BY <4>1, QuietMeans DEF Current, Attempted
      <3> QED
        BY <3>1, <3>2
    <2> QED
      BY <2>2, <2>3 DEF Settled
  <1>2. IInv /\ Grounded /\ [Next]_vars => Grounded'
    <2>1. IInv /\ [Next]_vars => TypeOK'
      BY InvStep DEF IInv
    <2> QED
      BY <2>1, GroundedStep
  <1>3. Init => Grounded
    BY GroundedAtFirst
  <1> QED
    BY <1>1, <1>2, <1>3, InitInv, InvStep, PTL DEF Spec, SettledStays, Quiet

=============================================================================
