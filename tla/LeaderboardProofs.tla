------------------------- MODULE LeaderboardProofs -------------------------
(***************************************************************************)
(* Proofs about Leaderboard, for any users, topics, scores, cuts and       *)
(* number of submissions in flight:                                        *)
(*                                                                         *)
(*   DropsAreTold      who loses a place that is watched is notified;      *)
(*   RanksAreTold      the rank sent with a result is the one it has when  *)
(*                     it appears;                                         *)
(*   SummariesStand    the rank in a weekly summary is final.              *)
(*                                                                         *)
(* The argument: a board is ranked by one submission at a time, so what    *)
(* was captured and ranked under its lock is still so at the commit; and   *)
(* one more row moves everybody by at most one place.                      *)
(***************************************************************************)
EXTENDS Leaderboard, FiniteSetTheorems, TLAPS

-----------------------------------------------------------------------------
(* The inductive invariant                                                  *)

Busy(r) == requests[r].pc # "idle"
OnBoard(r) == requests[r].pc \in {"ranking", "ranked"}

\* The two locks.
LocksExclude ==
    \A r, q \in Requests : r # q =>
       /\ Busy(r) /\ Busy(q) =>
            ~(requests[r].user = requests[q].user /\ requests[r].topic = requests[q].topic)
       /\ OnBoard(r) /\ OnBoard(q) => ~SameBoard(requests[r], requests[q])

\* What a submission has captured and ranked is still so.
Current(r) ==
    /\ Busy(r) => /\ requests[r].user \in Users /\ requests[r].topic \in Topics
                  /\ requests[r].day <= day
    /\ OnBoard(r) => requests[r].before = Boundary(results, requests[r].topic, requests[r].day)
    /\ requests[r].pc = "ranked" =>
         /\ \E s \in Scores : requests[r].row = RowOf(results, requests[r], s)
         /\ requests[r].new = News(results, requests[r], requests[r].row)

\* Only a result on record has been notified as such.
ResultsAreOnRecord ==
    \A n \in notes : n.key[1] = "result" =>
        \E x \in results : n.key = <<"result", x.user, x.topic, x.day>>

JobIsWeekly == \A n \in job : n.key[1] \in {"progress", "summary"}

\* A summary, written or not, is of a week that no submission can still touch.
Settled(n) ==
    n.key[1] = "summary" =>
        /\ n.key[3] < Week(day)
        /\ \A r \in Requests : Busy(r) => n.key[3] < Week(requests[r].day)
        /\ n.key[2] \in DOMAIN Weekly(results, n.key[3])
        /\ n.rank = Weekly(results, n.key[3])[n.key[2]]

ReachedAreRanked ==
    \A x \in reached : x[1] \in DOMAIN Daily(results, x[2], x[3])

IInv ==
    /\ TypeOK
    /\ IsFiniteSet(results)
    /\ LocksExclude
    /\ \A r \in Requests : Current(r)
    /\ ResultsAreOnRecord
    /\ JobIsWeekly
    /\ \A n \in notes \cup job : Settled(n)
    /\ ReachedAreRanked
    /\ NoSilentDrop

-----------------------------------------------------------------------------
(* Ranks                                                                    *)

LEMMA RanksAreNumbers ==
  ASSUME NEW K, IsFiniteSet(DOMAIN K)
  PROVE  /\ DOMAIN Ranks(K) = DOMAIN K
         /\ \A u \in DOMAIN K : Ranks(K)[u] \in Nat
  <1>1. DOMAIN Ranks(K) = DOMAIN K
    BY DEF Ranks
  <1>2. ASSUME NEW u \in DOMAIN K PROVE Ranks(K)[u] \in Nat
    <2>1. IsFiniteSet({v \in DOMAIN K : Precedes(K[v], K[u])})
      BY FS_Subset
    <2>2. Cardinality({v \in DOMAIN K : Precedes(K[v], K[u])}) \in Nat
      BY <2>1, FS_CardinalityType
    <2> QED
      BY <2>2 DEF Ranks
  <1> QED
    BY <1>1, <1>2

\* One more row moves everybody by at most one place.
LEMMA RanksGrowByOne ==
  ASSUME NEW K, NEW L, NEW new, IsFiniteSet(DOMAIN K), new \notin DOMAIN K,
         DOMAIN L = DOMAIN K \cup {new}, \A v \in DOMAIN K : L[v] = K[v],
         NEW u \in DOMAIN K
  PROVE  Ranks(L)[u] \in {Ranks(K)[u], Ranks(K)[u] + 1}
  <1> DEFINE S == {v \in DOMAIN K : Precedes(K[v], K[u])}
             T == {v \in DOMAIN L : Precedes(L[v], L[u])}
  <1>1. Ranks(K)[u] = 1 + Cardinality(S) /\ Ranks(L)[u] = 1 + Cardinality(T)
    BY DEF Ranks
  <1>2. IsFiniteSet(S) /\ new \notin S
    BY FS_Subset
  <1>3. T = S \/ T = S \cup {new}
    BY Zenon
  <1>4. Cardinality(S) \in Nat /\ Cardinality(S \cup {new}) = Cardinality(S) + 1
    BY <1>2, FS_CardinalityType, FS_AddElement
  <1> QED
    BY <1>1, <1>3, <1>4

LEMMA UsersAreFinite ==
  ASSUME NEW rows, IsFiniteSet(rows)
  PROVE  IsFiniteSet(UsersOf(rows))
  <1>1. [r \in rows |-> r.user] \in Surjection(rows, UsersOf(rows))
    BY DEF Surjection, UsersOf
  <1> QED
    BY <1>1, FS_Surjection

LEMMA DailyRanks ==
  ASSUME NEW rows, IsFiniteSet(rows), NEW t, NEW d
  PROVE  /\ IsFiniteSet(DOMAIN DailyKeys(Board(rows, t, d)))
         /\ DOMAIN Daily(rows, t, d) = UsersOf(Board(rows, t, d))
         /\ \A u \in DOMAIN Daily(rows, t, d) : Daily(rows, t, d)[u] \in Nat
  <1>1. IsFiniteSet(Board(rows, t, d))
    BY FS_Subset DEF Board
  <1>2. IsFiniteSet(UsersOf(Board(rows, t, d)))
    BY <1>1, UsersAreFinite
  <1>3. DOMAIN DailyKeys(Board(rows, t, d)) = UsersOf(Board(rows, t, d))
    BY DEF DailyKeys
  <1> QED
    BY <1>2, <1>3, RanksAreNumbers DEF Daily

LEMMA WeeklyRanks ==
  ASSUME NEW rows, IsFiniteSet(rows), NEW w
  PROVE  /\ DOMAIN Weekly(rows, w) = UsersOf(WeekBoard(rows, w))
         /\ \A u \in DOMAIN Weekly(rows, w) : Weekly(rows, w)[u] \in Nat
  <1>1. IsFiniteSet(WeekBoard(rows, w))
    BY FS_Subset DEF WeekBoard
  <1>2. IsFiniteSet(UsersOf(WeekBoard(rows, w)))
    BY <1>1, UsersAreFinite
  <1>3. DOMAIN WeeklyKeys(WeekBoard(rows, w)) = UsersOf(WeekBoard(rows, w))
    BY DEF WeeklyKeys
  <1> QED
    BY <1>2, <1>3, RanksAreNumbers DEF Weekly

\* A row on the board of a user who had none there.
LEMMA OneMoreOnTheBoard ==
  ASSUME NEW rows, IsFiniteSet(rows), NEW x, x.user \notin UsersOf(Board(rows, x.topic, x.day)),
         NEW u \in UsersOf(Board(rows, x.topic, x.day))
  PROVE  /\ u \in DOMAIN Daily(rows \cup {x}, x.topic, x.day)
         /\ Daily(rows \cup {x}, x.topic, x.day)[u] \in
              {Daily(rows, x.topic, x.day)[u], Daily(rows, x.topic, x.day)[u] + 1}
  <1> DEFINE H == Board(rows, x.topic, x.day)
             J == Board(rows \cup {x}, x.topic, x.day)
  <1>1. J = H \cup {x}
    BY DEF Board
  <1>2. UsersOf(J) = UsersOf(H) \cup {x.user}
    BY <1>1 DEF UsersOf
  <1>3. ASSUME NEW v \in UsersOf(H)
        PROVE  DailyKeys(J)[v] = DailyKeys(H)[v]
    <2>1. \A y : y \in J /\ y.user = v <=> y \in H /\ y.user = v
      BY <1>1, <1>3
    <2>2. ResultOf(J, v) = ResultOf(H, v)
      BY <2>1 DEF ResultOf
    <2> QED
      BY <1>2, <2>2 DEF DailyKeys
  <1>4. DOMAIN DailyKeys(H) = UsersOf(H) /\ DOMAIN DailyKeys(J) = UsersOf(J)
    BY DEF DailyKeys
  <1>5. IsFiniteSet(DOMAIN DailyKeys(H))
    BY DailyRanks
  <1>6. Ranks(DailyKeys(J))[u] \in {Ranks(DailyKeys(H))[u], Ranks(DailyKeys(H))[u] + 1}
    BY <1>2, <1>3, <1>4, <1>5, RanksGrowByOne
  <1>7. u \in DOMAIN Ranks(DailyKeys(J))
    BY <1>2, <1>4 DEF Ranks
  <1> QED
    BY <1>6, <1>7 DEF Daily

-----------------------------------------------------------------------------
(* Types                                                                    *)

LEMMA BoundaryType ==
  ASSUME TypeOK, IsFiniteSet(results), NEW t, NEW d
  PROVE  /\ Boundary(results, t, d) \subseteq Users \X Cuts
         /\ \A b \in Boundary(results, t, d) : b[1] \in UsersOf(Board(results, t, d))
  <1>1. DOMAIN Daily(results, t, d) = UsersOf(Board(results, t, d))
    BY DailyRanks
  <1>2. UsersOf(Board(results, t, d)) \subseteq Users
    BY DEF UsersOf, Board, TypeOK, Rows
  <1> QED
    BY <1>1, <1>2 DEF Boundary

LEMMA RowType ==
  ASSUME NEW rows, NEW req \in Slots, req.user \in Users, req.topic \in Topics, NEW s \in Scores
  PROVE  /\ RowOf(rows, req, s) \subseteq Rows
         /\ \/ RowOf(rows, req, s) = {}
            \/ /\ \A x \in rows : ~(x.user = req.user /\ x.topic = req.topic)
               /\ RowOf(rows, req, s) =
                    {[user |-> req.user, topic |-> req.topic, day |-> req.day, score |-> s]}
  BY DEF RowOf, Rows, Slots

LEMMA NewsType ==
  ASSUME TypeOK, IsFiniteSet(results), NEW r \in Requests, Current(r), OnBoard(r),
         NEW s \in Scores, NEW row, row = RowOf(results, requests[r], s)
  PROVE  News(results, requests[r], row) \subseteq Notes
  <1> DEFINE req == requests[r]
             ranks == Daily(results \cup row, req.topic, req.day)
  <1>1. /\ req \in Slots /\ req.user \in Users /\ req.topic \in Topics /\ req.day \in 0..MaxDay
        /\ req.before = Boundary(results, req.topic, req.day)
    BY DEF TypeOK, Slots, Current, OnBoard, Busy
  <1>2. CASE row = {}
    BY <1>2 DEF News
  <1>3. CASE row # {}
    <2>1. row = {[user |-> req.user, topic |-> req.topic, day |-> req.day, score |-> s]}
      BY <1>1, <1>3, RowType
    <2>2. IsFiniteSet(results \cup row)
      BY <2>1, FS_AddElement
    <2>3. DOMAIN ranks = UsersOf(Board(results \cup row, req.topic, req.day))
          /\ \A u \in DOMAIN ranks : ranks[u] \in Nat
      BY <2>2, DailyRanks
    <2>4. req.user \in DOMAIN ranks
      <3>1. PICK x \in row : x.user = req.user /\ x.topic = req.topic /\ x.day = req.day
        BY <2>1
      <3>2. x \in Board(results \cup row, req.topic, req.day)
        BY <3>1 DEF Board
      <3> QED
        BY <2>3, <3>1, <3>2 DEF UsersOf
    <2>5. ASSUME NEW b \in req.before PROVE b[1] \in DOMAIN ranks /\ b[1] \in Users /\ b[2] \in Cuts
      <3>1. b[1] \in UsersOf(Board(results, req.topic, req.day)) /\ b \in Users \X Cuts
        BY <1>1, <2>5, BoundaryType
      <3> QED
        BY <2>3, <3>1 DEF UsersOf, Board
    <2>6. [key |-> <<"result", req.user, req.topic, req.day>>, rank |-> ranks[req.user]] \in Notes
      BY <1>1, <2>3, <2>4 DEF Notes, NoteKeys
    <2>7. ASSUME NEW b \in req.before
          PROVE  [key |-> <<"drop", b[1], req.topic, req.day, b[2]>>, rank |-> ranks[b[1]]] \in Notes
      BY <1>1, <2>3, <2>5, <2>7 DEF Notes, NoteKeys
    <2>8. ASSUME NEW n \in News(results, req, row)
          PROVE  \/ n = [key |-> <<"result", req.user, req.topic, req.day>>, rank |-> ranks[req.user]]
                 \/ \E b \in req.before :
                      n = [key |-> <<"drop", b[1], req.topic, req.day, b[2]>>, rank |-> ranks[b[1]]]
      BY <1>3, <2>8 DEF News
    <2> QED
      BY <2>6, <2>7, <2>8
  <1> QED
    BY <1>2, <1>3

LEMMA IdleIsSlot == Idle \in Slots
  BY BoundsAreNaturals DEF Idle, Slots

LEMMA SlotUpdates ==
  ASSUME NEW q \in Slots
  PROVE  /\ \A B \in SUBSET (Users \X Cuts) :
              [q EXCEPT !.pc = "ranking", !.before = B] \in Slots
         /\ \A R \in SUBSET Rows, N \in SUBSET Notes :
              [q EXCEPT !.pc = "ranked", !.row = R, !.new = N] \in Slots
  BY DEF Slots

\* The slots keep their shape, and each submission moves its own.
LEMMA SlotsKeepType ==
  ASSUME IInv, NEW r \in Requests, Submission(r)
  PROVE  /\ requests' \in [Requests -> Slots]
         /\ \A q \in Requests \ {r} : requests'[q] = requests[q]
  <1>1. requests \in [Requests -> Slots] /\ requests[r] \in Slots /\ day \in 0..MaxDay
    BY DEF IInv, TypeOK
  <1>2. SUFFICES \E q \in Slots : Set(r, q)
    BY <1>1 DEF Set
  <1>3. CASE LockAndClock(r)
    <2>1. \A u \in Users, t \in Topics :
            [Idle EXCEPT !.pc = "clocked", !.user = u, !.topic = t, !.day = day] \in Slots
      BY <1>1, IdleIsSlot DEF Slots
    <2> QED
      BY <1>3, <2>1 DEF LockAndClock
  <1>4. CASE LockBoard(r)
    <2>1. Boundary(results, requests[r].topic, requests[r].day) \in SUBSET (Users \X Cuts)
      BY BoundaryType DEF IInv
    <2> QED
      BY <1>1, <1>4, <2>1, SlotUpdates DEF LockBoard
  <1>5. CASE Insert(r)
    <2>1. PICK s \in Scores :
            Set(r, [requests[r] EXCEPT !.pc = "ranked", !.row = RowOf(results, requests[r], s),
                      !.new = News(results, requests[r], RowOf(results, requests[r], s))])
      BY <1>5 DEF Insert
    <2>2. OnBoard(r) /\ Busy(r) /\ Current(r)
      BY <1>5 DEF Insert, OnBoard, Busy, IInv
    <2>3. RowOf(results, requests[r], s) \subseteq Rows
      BY <1>1, <2>2, RowType DEF Current
    <2>4. News(results, requests[r], RowOf(results, requests[r], s)) \subseteq Notes
      BY <2>2, NewsType DEF IInv
    <2> QED
      BY <1>1, <2>1, <2>3, <2>4, SlotUpdates
  <1>6. CASE Commit(r) \/ Fail(r)
    BY <1>6, IdleIsSlot DEF Commit, Fail
  <1> QED
    BY <1>3, <1>4, <1>5, <1>6 DEF Submission

-----------------------------------------------------------------------------
(* Steps that insert no result                                              *)

LEMMA WeeksAreOrdered ==
  ASSUME NEW a \in Nat, NEW b \in Nat, a <= b
  PROVE  Week(a) \in Nat /\ Week(b) \in Nat /\ Week(a) <= Week(b)
  <1>1. /\ Week(a) \in Nat /\ Week(b) \in Nat
        /\ a = DaysPerWeek * Week(a) + (a % DaysPerWeek) /\ a % DaysPerWeek \in 0..(DaysPerWeek - 1)
        /\ b = DaysPerWeek * Week(b) + (b % DaysPerWeek) /\ b % DaysPerWeek \in 0..(DaysPerWeek - 1)
    BY WeeksHaveDays DEF Week
  <1>2. ASSUME Week(b) + 1 <= Week(a) PROVE FALSE
    <2>1. DaysPerWeek * (Week(b) + 1) <= DaysPerWeek * Week(a)
      BY <1>1, <1>2, WeeksHaveDays
    <2>2. DaysPerWeek * (Week(b) + 1) = DaysPerWeek * Week(b) + DaysPerWeek
      BY <1>1, WeeksHaveDays
    <2> QED
      BY <1>1, <2>1, <2>2, WeeksHaveDays
  <1> QED
    BY <1>1, <1>2

\* A submission that begins, captures, ranks or ends without a result.
LEMMA QuietStep ==
  ASSUME IInv, NEW r \in Requests, Submission(r),
         UNCHANGED <<day, results, notes, job, reached>>, submits' \in 0..MaxSubmits,
         LocksExclude', Current(r)',
         Busy(r)' => (Busy(r) /\ requests'[r].day = requests[r].day) \/ requests'[r].day = day
  PROVE  IInv'
  <1>1. /\ requests' \in [Requests -> Slots]
        /\ \A q \in Requests \ {r} : requests'[q] = requests[q]
    BY SlotsKeepType
  <1>2. TypeOK'
    BY <1>1 DEF IInv, TypeOK
  <1>3. ASSUME NEW q \in Requests PROVE Current(q)'
    <2>1. CASE q = r
      BY <2>1
    <2>2. CASE q # r
      BY <1>1, <2>2 DEF IInv, Current, Busy, OnBoard
    <2> QED
      BY <2>1, <2>2
  <1>4. ASSUME NEW n \in notes \cup job PROVE Settled(n)'
    <2>1. SUFFICES ASSUME n.key[1] = "summary", NEW q \in Requests, Busy(q)'
                   PROVE  n.key[3] < Week(requests'[q].day)
      BY DEF IInv, Settled
    <2>2. /\ n.key[3] < Week(day)
          /\ \A p \in Requests : Busy(p) => n.key[3] < Week(requests[p].day)
      BY <2>1 DEF IInv, Settled
    <2>3. CASE q = r
      BY <2>1, <2>2, <2>3 DEF Busy
    <2>4. CASE q # r
      BY <1>1, <2>1, <2>2, <2>4 DEF Busy
    <2> QED
      BY <2>3, <2>4
  <1>5. /\ ResultsAreOnRecord' /\ JobIsWeekly' /\ ReachedAreRanked' /\ NoSilentDrop'
        /\ IsFiniteSet(results')
    BY DEF IInv, ResultsAreOnRecord, JobIsWeekly, ReachedAreRanked, NoSilentDrop
  <1> QED
    BY <1>2, <1>3, <1>4, <1>5 DEF IInv

LEMMA LockAndClockStep == ASSUME IInv, NEW r \in Requests, LockAndClock(r) PROVE IInv'
  <1>1. PICK u \in Users, t \in Topics :
          /\ \A q \in Requests : requests[q].pc # "idle" =>
               <<requests[q].user, requests[q].topic>> # <<u, t>>
          /\ requests' = [requests EXCEPT ![r] =
               [Idle EXCEPT !.pc = "clocked", !.user = u, !.topic = t, !.day = day]]
    BY DEF LockAndClock, Set
  <1>2. Submission(r) /\ day \in 0..MaxDay /\ requests \in [Requests -> Slots]
    BY DEF Submission, IInv, TypeOK
  <1>3. /\ requests'[r].pc = "clocked" /\ requests'[r].user = u
        /\ requests'[r].topic = t /\ requests'[r].day = day
        /\ \A q \in Requests \ {r} : requests'[q] = requests[q]
    BY <1>1, <1>2 DEF Idle
  <1>4. UNCHANGED <<day, results, notes, job, reached>> /\ submits' \in 0..MaxSubmits
    BY BoundsAreNaturals DEF LockAndClock, IInv, TypeOK
  <1>5. LocksExclude'
    BY <1>1, <1>3 DEF IInv, LocksExclude, Busy, OnBoard
  <1>6. Current(r)'
    BY <1>2, <1>3, <1>4, BoundsAreNaturals DEF Current, Busy, OnBoard
  <1> QED
    BY <1>2, <1>3, <1>4, <1>5, <1>6, QuietStep DEF Busy

LEMMA LockBoardStep == ASSUME IInv, NEW r \in Requests, LockBoard(r) PROVE IInv'
  <1> DEFINE q == requests[r]
  <1>1. /\ Submission(r) /\ requests \in [Requests -> Slots] /\ q \in Slots
        /\ Current(r) /\ LocksExclude /\ q.pc = "clocked"
    BY DEF Submission, IInv, TypeOK, LockBoard
  <1>2. /\ requests' = [requests EXCEPT ![r] = [q EXCEPT !.pc = "ranking",
                                                         !.before = Boundary(results, q.topic, q.day)]]
        /\ \A p \in Requests \ {r} : OnBoard(p) => ~SameBoard(requests[p], q)
        /\ UNCHANGED <<day, results, notes, job, submits, reached>>
    BY DEF LockBoard, Set, OnBoard
  <1>3. /\ requests'[r].pc = "ranking" /\ requests'[r].user = q.user /\ requests'[r].topic = q.topic
        /\ requests'[r].day = q.day /\ requests'[r].before = Boundary(results, q.topic, q.day)
        /\ \A p \in Requests \ {r} : requests'[p] = requests[p]
    BY <1>1, <1>2 DEF Slots
  <1>4. LocksExclude'
    BY <1>1, <1>2, <1>3 DEF LocksExclude, Busy, OnBoard, SameBoard
  <1>5. Current(r)'
    BY <1>1, <1>2, <1>3 DEF Current, Busy, OnBoard
  <1>6. submits' \in 0..MaxSubmits
    BY <1>2 DEF IInv, TypeOK
  <1> QED
    BY <1>1, <1>2, <1>3, <1>4, <1>5, <1>6, QuietStep DEF Busy

LEMMA NewsOfSlot ==
  ASSUME NEW rows, NEW row, NEW p, NEW q, p.user = q.user, p.topic = q.topic, p.day = q.day,
         p.before = q.before
  PROVE  News(rows, p, row) = News(rows, q, row) /\ \A s : RowOf(rows, p, s) = RowOf(rows, q, s)
  BY DEF News, RowOf

LEMMA InsertStep == ASSUME IInv, NEW r \in Requests, Insert(r) PROVE IInv'
  <1> DEFINE q == requests[r]
  <1>1. /\ Submission(r) /\ requests \in [Requests -> Slots] /\ q \in Slots
        /\ Current(r) /\ LocksExclude /\ q.pc = "ranking"
        /\ UNCHANGED <<day, results, notes, job, submits, reached>>
    BY DEF Submission, IInv, TypeOK, Insert
  <1>2. PICK s \in Scores :
          requests' = [requests EXCEPT ![r] =
            [q EXCEPT !.pc = "ranked", !.row = RowOf(results, q, s),
                      !.new = News(results, q, RowOf(results, q, s))]]
    BY DEF Insert, Set
  <1>3. /\ requests'[r].pc = "ranked" /\ requests'[r].user = q.user /\ requests'[r].topic = q.topic
        /\ requests'[r].day = q.day /\ requests'[r].before = q.before
        /\ requests'[r].row = RowOf(results, q, s)
        /\ requests'[r].new = News(results, q, RowOf(results, q, s))
        /\ \A p \in Requests \ {r} : requests'[p] = requests[p]
    BY <1>1, <1>2 DEF Slots
  <1>4. LocksExclude'
    BY <1>1, <1>3 DEF LocksExclude, Busy, OnBoard, SameBoard
  <1>5. /\ requests'[r].row = RowOf(results, requests'[r], s)
        /\ requests'[r].new = News(results, requests'[r], requests'[r].row)
    BY <1>3, NewsOfSlot
  <1>6. Current(r)'
    BY <1>1, <1>3, <1>5 DEF Current, Busy, OnBoard
  <1>7. submits' \in 0..MaxSubmits
    BY <1>1 DEF IInv, TypeOK
  <1> QED
    BY <1>1, <1>3, <1>4, <1>6, <1>7, QuietStep DEF Busy

LEMMA FailStep == ASSUME IInv, NEW r \in Requests, Fail(r) PROVE IInv'
  <1>1. /\ Submission(r) /\ requests \in [Requests -> Slots] /\ LocksExclude
        /\ UNCHANGED <<day, results, notes, job, submits, reached>>
    BY DEF Submission, IInv, TypeOK, Fail
  <1>2. requests'[r] = Idle /\ \A p \in Requests \ {r} : requests'[p] = requests[p]
    BY <1>1 DEF Fail, Set
  <1>3. requests'[r].pc = "idle"
    BY <1>2 DEF Idle
  <1>4. LocksExclude' /\ Current(r)'
    BY <1>1, <1>2, <1>3 DEF LocksExclude, Current, Busy, OnBoard
  <1>5. submits' \in 0..MaxSubmits
    BY <1>1 DEF IInv, TypeOK
  <1> QED
    BY <1>1, <1>3, <1>4, <1>5, QuietStep DEF Busy

LEMMA NextDayStep == ASSUME IInv, NextDay PROVE IInv'
  <1>1. /\ day \in 0..MaxDay /\ day' = day + 1 /\ day' \in 0..MaxDay
        /\ UNCHANGED <<results, notes, requests, job, submits, reached>>
    BY BoundsAreNaturals DEF IInv, TypeOK, NextDay
  <1>2. TypeOK'
    BY <1>1 DEF IInv, TypeOK
  <1>3. ASSUME NEW r \in Requests PROVE Current(r)'
    <2>1. Busy(r) => requests[r].day \in 0..MaxDay
      BY DEF IInv, TypeOK, Slots
    <2> QED
      BY <1>1, <2>1 DEF IInv, Current, Busy, OnBoard
  <1>4. ASSUME NEW n \in notes \cup job PROVE Settled(n)'
    <2>1. SUFFICES ASSUME n.key[1] = "summary" PROVE n.key[3] < Week(day')
      BY <1>1 DEF IInv, Settled, Busy
    <2>2. n.key[3] < Week(day) /\ n.key[3] \in Int
      BY <2>1 DEF IInv, Settled, TypeOK, Notes, NoteKeys
    <2>3. Week(day) \in Nat /\ Week(day') \in Nat /\ Week(day) <= Week(day')
      BY <1>1, WeeksAreOrdered
    <2> QED
      BY <2>2, <2>3
  <1>5. /\ ResultsAreOnRecord' /\ JobIsWeekly' /\ ReachedAreRanked' /\ NoSilentDrop'
        /\ IsFiniteSet(results') /\ LocksExclude'
    BY <1>1 DEF IInv, ResultsAreOnRecord, JobIsWeekly, ReachedAreRanked, NoSilentDrop, LocksExclude,
                Busy, OnBoard
  <1> QED
    BY <1>1, <1>2, <1>3, <1>4, <1>5 DEF IInv

LEMMA RunWeeklyStep == ASSUME IInv, RunWeekly PROVE IInv'
  <1>1. /\ UNCHANGED <<day, results, notes, requests, submits, reached>>
        /\ day \in 0..MaxDay /\ Week(day) \in Nat
    BY WeeksAreOrdered, BoundsAreNaturals DEF IInv, TypeOK, RunWeekly
  <1>2. PICK kind \in {"progress", "summary"} :
          /\ kind = "summary" => \A r \in Requests : Busy(r) => requests[r].day = day
          /\ job' = {[key |-> <<kind, u, WeekOf(kind)>>, rank |-> Weekly(results, WeekOf(kind))[u]] :
                       u \in DOMAIN Weekly(results, WeekOf(kind))}
    BY DEF RunWeekly, Busy
  <1>3. WeekOf(kind) \in Int /\ (kind = "summary" => WeekOf(kind) < Week(day))
    BY <1>1, <1>2 DEF WeekOf
  <1>4. ASSUME NEW n \in job'
        PROVE  n \in Notes /\ n.key[1] = kind /\ Settled(n)'
    <2>1. PICK u \in DOMAIN Weekly(results, WeekOf(kind)) :
            n = [key |-> <<kind, u, WeekOf(kind)>>, rank |-> Weekly(results, WeekOf(kind))[u]]
      BY <1>2, <1>4
    <2>2. u \in UsersOf(WeekBoard(results, WeekOf(kind))) /\ Weekly(results, WeekOf(kind))[u] \in Nat
      BY WeeklyRanks DEF IInv
    <2>3. u \in Users
      BY <2>2 DEF UsersOf, WeekBoard, IInv, TypeOK, Rows
    <2>4. n \in Notes
      BY <1>3, <2>1, <2>2, <2>3 DEF Notes, NoteKeys
    <2>5. n.key[1] = kind /\ n.key[2] = u /\ n.key[3] = WeekOf(kind)
          /\ n.rank = Weekly(results, WeekOf(kind))[u]
      BY <2>1
    <2>6. Settled(n)'
      BY <1>1, <1>2, <1>3, <2>5 DEF Settled, Busy
    <2> QED
      BY <2>4, <2>5, <2>6
  <1>5. TypeOK'
    BY <1>1, <1>4 DEF IInv, TypeOK
  <1>6. \A n \in notes : Settled(n)'
    BY <1>1 DEF IInv, Settled, Busy
  <1>7. /\ ResultsAreOnRecord' /\ ReachedAreRanked' /\ NoSilentDrop' /\ IsFiniteSet(results')
        /\ LocksExclude' /\ \A r \in Requests : Current(r)'
    BY <1>1 DEF IInv, ResultsAreOnRecord, ReachedAreRanked, NoSilentDrop, LocksExclude, Current,
                Busy, OnBoard
  <1>8. JobIsWeekly'
    BY <1>2, <1>4 DEF JobIsWeekly
  <1> QED
    BY <1>1, <1>4, <1>5, <1>6, <1>7, <1>8 DEF IInv

LEMMA WriteWeeklyStep == ASSUME IInv, WriteWeekly PROVE IInv'
  <1>1. /\ UNCHANGED <<day, results, requests, submits, reached>>
        /\ notes \subseteq notes' /\ notes' \subseteq notes \cup job /\ job' = {}
    BY DEF WriteWeekly, Created
  <1>2. TypeOK'
    BY <1>1 DEF IInv, TypeOK
  <1>3. \A n \in notes' \cup job' : Settled(n)'
    BY <1>1 DEF IInv, Settled, Busy
  <1>4. ResultsAreOnRecord'
    BY <1>1 DEF IInv, ResultsAreOnRecord, JobIsWeekly
  <1>5. NoSilentDrop'
    BY <1>1 DEF IInv, NoSilentDrop
  <1>6. /\ ReachedAreRanked' /\ IsFiniteSet(results') /\ LocksExclude' /\ JobIsWeekly'
        /\ \A r \in Requests : Current(r)'
    BY <1>1 DEF IInv, ReachedAreRanked, LocksExclude, Current, JobIsWeekly, Busy, OnBoard
  <1> QED
    BY <1>2, <1>3, <1>4, <1>5, <1>6 DEF IInv

-----------------------------------------------------------------------------
(* The commit                                                               *)

\* The result goes to one board, of a topic and day, and to one week.
LEMMA OtherWeeksStay ==
  ASSUME NEW rows, NEW x, NEW w, Week(x.day) # w
  PROVE  Weekly(rows \cup {x}, w) = Weekly(rows, w)
  <1>1. WeekBoard(rows \cup {x}, w) = WeekBoard(rows, w)
    BY DEF WeekBoard
  <1> QED
    BY <1>1 DEF Weekly

\* What the commit finds and does.
LEMMA CommitFacts ==
  ASSUME IInv, NEW r \in Requests, Commit(r)
  PROVE  /\ requests[r] \in Slots /\ requests[r].pc = "ranked"
         /\ requests[r].user \in Users /\ requests[r].topic \in Topics
         /\ requests[r].before = Boundary(results, requests[r].topic, requests[r].day)
         /\ requests[r].new = News(results, requests[r], requests[r].row)
         /\ results' = results \cup requests[r].row
         /\ notes' = notes \cup Created(requests[r].new)
         /\ UNCHANGED <<day, job, submits>>
         /\ requests'[r] = Idle /\ \A q \in Requests \ {r} : requests'[q] = requests[q]
         /\ requests' \in [Requests -> Slots]
         /\ \/ requests[r].row = {}
            \/ \E x \in Rows :
                 /\ requests[r].row = {x} /\ x.user = requests[r].user
                 /\ x.topic = requests[r].topic /\ x.day = requests[r].day
                 /\ \A y \in results : ~(y.user = x.user /\ y.topic = x.topic)
  <1>1. requests \in [Requests -> Slots] /\ requests[r] \in Slots /\ Current(r)
    BY DEF IInv, TypeOK
  <1>2. /\ requests[r].pc = "ranked" /\ results' = results \cup requests[r].row
        /\ notes' = notes \cup Created(requests[r].new)
        /\ UNCHANGED <<day, job, submits>>
        /\ requests' = [requests EXCEPT ![r] = Idle]
    BY DEF Commit, Set
  <1>3. /\ requests[r].user \in Users /\ requests[r].topic \in Topics
        /\ requests[r].before = Boundary(results, requests[r].topic, requests[r].day)
        /\ requests[r].new = News(results, requests[r], requests[r].row)
    BY <1>1, <1>2 DEF Current, Busy, OnBoard
  <1>4. PICK s \in Scores : requests[r].row = RowOf(results, requests[r], s)
    BY <1>1, <1>2 DEF Current
  <1>5. CASE requests[r].row # {}
    <2> DEFINE x == [user |-> requests[r].user, topic |-> requests[r].topic,
                     day |-> requests[r].day, score |-> s]
    <2>1. requests[r].row = {x} /\ \A y \in results : ~(y.user = x.user /\ y.topic = x.topic)
      BY <1>1, <1>3, <1>4, <1>5, RowType
    <2>2. requests[r].row \subseteq Rows
      BY <1>1, <1>3, <1>4, RowType
    <2>3. x \in Rows
      BY <2>1, <2>2
    <2> QED
      BY <1>1, <1>2, <1>3, <2>1, <2>3, IdleIsSlot
  <1> QED
    BY <1>1, <1>2, <1>3, <1>5, IdleIsSlot

\* Submissions that do not commit keep what they have: other boards do not move.
LEMMA OthersStayCurrent ==
  ASSUME IInv, NEW r \in Requests, Commit(r), NEW q \in Requests, q # r
  PROVE  Current(q)'
  <1>1. requests'[q] = requests[q] /\ Current(q) /\ day' = day
    BY CommitFacts DEF IInv
  <1>2. CASE requests[r].row = {}
    <2>1. results' = results
      BY <1>2, CommitFacts
    <2> QED
      BY <1>1, <2>1 DEF Current, Busy, OnBoard
  <1>3. ASSUME NEW x \in Rows, requests[r].row = {x}, x.user = requests[r].user,
               x.topic = requests[r].topic, x.day = requests[r].day
        PROVE  Current(q)'
    <2>1. results' = results \cup {x} /\ Busy(r) /\ OnBoard(r)
      BY <1>3, CommitFacts DEF Busy, OnBoard
    <2>2. Busy(q) => ~(x.user = requests[q].user /\ x.topic = requests[q].topic)
      BY <1>3, <2>1 DEF IInv, LocksExclude
    <2>3. OnBoard(q) => ~(x.topic = requests[q].topic /\ x.day = requests[q].day)
      BY <1>3, <2>1 DEF IInv, LocksExclude, SameBoard
    <2>4. ASSUME OnBoard(q)
          PROVE  requests[q].before = Boundary(results', requests[q].topic, requests[q].day)
      <3>1. ~(x.topic = requests[q].topic /\ x.day = requests[q].day)
        BY <2>3, <2>4
      <3>2. Board(results', requests[q].topic, requests[q].day)
              = Board(results, requests[q].topic, requests[q].day)
        BY <2>1, <3>1 DEF Board
      <3>3. Boundary(results', requests[q].topic, requests[q].day)
              = Boundary(results, requests[q].topic, requests[q].day)
        BY <3>2 DEF Boundary, Daily
      <3> QED
        BY <1>1, <2>4, <3>3 DEF Current
    <2>5. ASSUME requests[q].pc = "ranked"
          PROVE  /\ \E s \in Scores : requests[q].row = RowOf(results', requests[q], s)
                 /\ requests[q].new = News(results', requests[q], requests[q].row)
      <3>1. OnBoard(q) /\ Busy(q)
        BY <2>5 DEF OnBoard, Busy
      <3>2. \A s : RowOf(results', requests[q], s) = RowOf(results, requests[q], s)
        BY <2>1, <2>2, <3>1 DEF RowOf
      <3>3. Daily(results' \cup requests[q].row, requests[q].topic, requests[q].day)
              = Daily(results \cup requests[q].row, requests[q].topic, requests[q].day)
        <4>1. ~(x.topic = requests[q].topic /\ x.day = requests[q].day)
          BY <2>3, <3>1
        <4>2. Board(results' \cup requests[q].row, requests[q].topic, requests[q].day)
                = Board(results \cup requests[q].row, requests[q].topic, requests[q].day)
          BY <2>1, <4>1 DEF Board
        <4> QED
          BY <4>2 DEF Daily
      <3>4. News(results', requests[q], requests[q].row) = News(results, requests[q], requests[q].row)
        BY <3>3 DEF News
      <3> QED
        BY <1>1, <2>5, <3>2, <3>4 DEF Current
    <2> QED
      BY <1>1, <2>4, <2>5 DEF Current, Busy, OnBoard
  <1> QED
    BY <1>2, <1>3, CommitFacts

\* The board on which the result appears.
LEMMA ResultIsTold ==
  ASSUME IInv, NEW r \in Requests, Commit(r), NEW x \in Rows, requests[r].row = {x},
         x.user = requests[r].user, x.topic = requests[r].topic, x.day = requests[r].day,
         \A y \in results : ~(y.user = x.user /\ y.topic = x.topic)
  PROVE  /\ x.user \notin UsersOf(Board(results, x.topic, x.day))
         /\ x.user \in DOMAIN Daily(results', x.topic, x.day)
         /\ results' = results \cup {x} /\ IsFiniteSet(results')
         /\ \E n \in notes' \ notes :
              /\ n.key = <<"result", x.user, x.topic, x.day>>
              /\ n.rank = Daily(results', x.topic, x.day)[x.user]
         /\ \A b \in requests[r].before :
              Lost(Daily(results', x.topic, x.day)[b[1]], b[2]) =>
                \E n \in notes' : n.key = <<"drop", b[1], x.topic, x.day, b[2]>>
  <1> DEFINE req == requests[r]
             ranks == Daily(results', x.topic, x.day)
             own == [key |-> <<"result", x.user, x.topic, x.day>>, rank |-> ranks[x.user]]
  <1>1. /\ results' = results \cup {x} /\ notes' = notes \cup Created(req.new)
        /\ req.new = News(results, req, {x})
    BY CommitFacts
  <1>2. IsFiniteSet(results')
    BY <1>1, FS_AddElement DEF IInv
  <1>3. x.user \notin UsersOf(Board(results, x.topic, x.day))
    BY DEF UsersOf, Board
  <1>4. x.user \in DOMAIN ranks
    <2>1. x \in Board(results', x.topic, x.day)
      BY <1>1 DEF Board
    <2>2. x.user \in UsersOf(Board(results', x.topic, x.day))
      BY <2>1 DEF UsersOf
    <2> QED
      BY <1>2, <2>2, DailyRanks
  <1>5. req.new = {own} \cup {[key |-> <<"drop", b[1], x.topic, x.day, b[2]>>, rank |-> ranks[b[1]]] :
                               b \in {c \in req.before : Lost(ranks[c[1]], c[2])}}
    BY <1>1 DEF News
  <1>6. own \in Created(req.new) /\ own \notin notes
    <2>1. ASSUME NEW m \in notes, m.key = own.key PROVE FALSE
      <3>1. m.key[1] = "result" /\ m.key[2] = x.user /\ m.key[3] = x.topic
        BY <2>1
      <3>2. PICK y \in results : m.key = <<"result", y.user, y.topic, y.day>>
        BY <3>1 DEF IInv, ResultsAreOnRecord
      <3>3. y.user = x.user /\ y.topic = x.topic
        BY <3>1, <3>2
      <3> QED
        BY <3>3
    <2> QED
      BY <1>5, <2>1 DEF Created
  <1>7. own \in notes' \ notes /\ own.key = <<"result", x.user, x.topic, x.day>>
        /\ own.rank = ranks[x.user]
    BY <1>1, <1>6
  <1>8. ASSUME NEW b \in req.before, Lost(ranks[b[1]], b[2])
        PROVE  \E n \in notes' : n.key = <<"drop", b[1], x.topic, x.day, b[2]>>
    <2> DEFINE n == [key |-> <<"drop", b[1], x.topic, x.day, b[2]>>, rank |-> ranks[b[1]]]
    <2>1. n \in req.new
      BY <1>5, <1>8
    <2>2. n \in Created(req.new) \/ \E m \in notes : m.key = n.key
      BY <2>1 DEF Created
    <2> QED
      BY <1>1, <2>2
  <1> QED
    BY <1>1, <1>2, <1>3, <1>4, <1>7, <1>8

LEMMA CommitIsFinite ==
  ASSUME IInv, NEW r \in Requests, Commit(r)
  PROVE  IsFiniteSet(results')
  <1>1. IsFiniteSet(results) /\ results' = results \cup requests[r].row
    BY CommitFacts DEF IInv
  <1>2. CASE requests[r].row = {}
    BY <1>1, <1>2
  <1>3. ASSUME NEW x, requests[r].row = {x} PROVE IsFiniteSet(results')
    BY <1>1, <1>3, FS_AddElement
  <1> QED
    BY <1>2, <1>3, CommitFacts

LEMMA CommitKeepsDrops ==
  ASSUME IInv, NEW r \in Requests, Commit(r)
  PROVE  ReachedAreRanked' /\ NoSilentDrop'
  <1> DEFINE req == requests[r]
             t == requests[r].topic
             d == requests[r].day
             ranks == Daily(results', t, d)
  <1>1. reached' = reached \cup
          {<<b[1], t, d, b[2]>> : b \in {c \in (DOMAIN ranks) \X Cuts : ranks[c[1]] <= c[2]}}
    BY DEF Commit
  <1>2. IsFiniteSet(results')
    BY CommitIsFinite
  <1>3. ASSUME NEW y \in reached', y \notin reached
        PROVE  /\ y[1] \in DOMAIN Daily(results', y[2], y[3])
               /\ ~(Daily(results', y[2], y[3])[y[1]] > y[4])
    <2>1. PICK b \in (DOMAIN ranks) \X Cuts : ranks[b[1]] <= b[2] /\ y = <<b[1], t, d, b[2]>>
      BY <1>1, <1>3
    <2>2. ranks[b[1]] \in Nat /\ b[2] \in Nat
      BY <1>2, <2>1, DailyRanks, ScoresAreNumbers
    <2>3. y[1] = b[1] /\ y[2] = t /\ y[3] = d /\ y[4] = b[2]
      BY <2>1
    <2> QED
      BY <2>1, <2>2, <2>3
  <1>4. ASSUME NEW y \in reached
        PROVE  /\ y[1] \in DOMAIN Daily(results', y[2], y[3])
               /\ Daily(results', y[2], y[3])[y[1]] > y[4] =>
                    \E n \in notes' : n.key = <<"drop", y[1], y[2], y[3], y[4]>>
    <2>1. /\ y[1] \in DOMAIN Daily(results, y[2], y[3]) /\ y[4] \in Cuts /\ notes \subseteq notes'
          /\ Daily(results, y[2], y[3])[y[1]] > y[4] =>
                \E n \in notes : n.key = <<"drop", y[1], y[2], y[3], y[4]>>
      BY CommitFacts DEF IInv, ReachedAreRanked, NoSilentDrop, TypeOK
    <2>2. CASE Daily(results', y[2], y[3]) = Daily(results, y[2], y[3])
      BY <2>1, <2>2
    <2>3. ASSUME NEW x \in Rows, req.row = {x}, x.user = req.user, x.topic = t, x.day = d,
                 \A z \in results : ~(z.user = x.user /\ z.topic = x.topic),
                 y[2] = t, y[3] = d
          PROVE  /\ y[1] \in DOMAIN Daily(results', y[2], y[3])
                 /\ Daily(results', y[2], y[3])[y[1]] > y[4] =>
                      \E n \in notes' : n.key = <<"drop", y[1], y[2], y[3], y[4]>>
      <3> DEFINE old == Daily(results, x.topic, x.day)
                 new == Daily(results', x.topic, x.day)
      <3>1. /\ results' = results \cup {x}
            /\ x.user \notin UsersOf(Board(results, x.topic, x.day))
            /\ \A b \in req.before :
                 Lost(new[b[1]], b[2]) =>
                   \E n \in notes' : n.key = <<"drop", b[1], x.topic, x.day, b[2]>>
        BY <2>3, ResultIsTold
      <3>2. y[1] \in UsersOf(Board(results, x.topic, x.day)) /\ old[y[1]] \in Nat
        BY <2>1, <2>3, DailyRanks DEF IInv
      <3>3. y[1] \in DOMAIN new /\ new[y[1]] \in {old[y[1]], old[y[1]] + 1}
        BY <3>1, <3>2, OneMoreOnTheBoard DEF IInv
      <3>4. ASSUME new[y[1]] > y[4], ~(old[y[1]] > y[4])
            PROVE  \E n \in notes' : n.key = <<"drop", y[1], x.topic, x.day, y[4]>>
        <4>1. y[4] \in Nat
          BY <2>1, ScoresAreNumbers
        <4>2. old[y[1]] = y[4]
          BY <3>2, <3>3, <3>4, <4>1
        <4>3. <<y[1], y[4]>> \in Boundary(results, x.topic, x.day)
          BY <2>1, <2>3, <4>2 DEF Boundary
        <4>4. <<y[1], y[4]>> \in req.before
          BY <2>3, <4>3, CommitFacts
        <4>5. Lost(new[<<y[1], y[4]>>[1]], <<y[1], y[4]>>[2])
          BY <3>4 DEF Lost
        <4> QED
          BY <3>1, <4>4, <4>5
      <3> QED
        BY <2>1, <2>3, <3>3, <3>4
    <2>4. ASSUME ~(y[2] = t /\ y[3] = d) \/ req.row = {}
          PROVE  Daily(results', y[2], y[3]) = Daily(results, y[2], y[3])
      <3>1. CASE req.row = {}
        <4>1. results' = results
          BY <3>1, CommitFacts
        <4> QED
          BY <4>1
      <3>2. ASSUME NEW x \in Rows, req.row = {x}, x.topic = t, x.day = d, ~(y[2] = t /\ y[3] = d)
            PROVE  Daily(results', y[2], y[3]) = Daily(results, y[2], y[3])
        <4>0. ~(x.topic = y[2] /\ x.day = y[3])
          BY <3>2
        <4>1. results' = results \cup {x}
          BY <3>2, CommitFacts
        <4>2. Board(results', y[2], y[3]) = Board(results, y[2], y[3])
          BY <4>0, <4>1 DEF Board
        <4> QED
          BY <4>2 DEF Daily
      <3> QED
        BY <2>4, <3>1, <3>2, CommitFacts
    <2> QED
      BY <2>2, <2>3, <2>4, CommitFacts
  <1> QED
    BY <1>3, <1>4 DEF ReachedAreRanked, NoSilentDrop

LEMMA CommitKeepsTypes ==
  ASSUME IInv, NEW r \in Requests, Commit(r)
  PROVE  TypeOK'
  <1>1. /\ day' \in 0..MaxDay /\ job' \subseteq Notes /\ submits' \in 0..MaxSubmits
        /\ requests' \in [Requests -> Slots]
    BY CommitFacts DEF IInv, TypeOK
  <1>2. /\ results' \subseteq Rows
        /\ \A x, y \in results' : x.user = y.user /\ x.topic = y.topic => x = y
    <2>1. /\ results \subseteq Rows /\ results' = results \cup requests[r].row
          /\ \A x, y \in results : x.user = y.user /\ x.topic = y.topic => x = y
      BY CommitFacts DEF IInv, TypeOK
    <2>2. CASE requests[r].row = {}
      BY <2>1, <2>2
    <2>3. ASSUME NEW x \in Rows, requests[r].row = {x},
                 \A y \in results : ~(y.user = x.user /\ y.topic = x.topic)
          PROVE  <1>2!1 /\ <1>2!2
      BY <2>1, <2>3
    <2> QED
      BY <2>2, <2>3, CommitFacts
  <1>3. notes' \subseteq Notes
    <2>1. notes \subseteq Notes /\ requests[r].new \subseteq Notes
      BY CommitFacts DEF IInv, TypeOK, Slots
    <2> QED
      BY <2>1, CommitFacts DEF Created
  <1>4. reached' \subseteq Users \X Topics \X (0..MaxDay) \X Cuts
    <2> DEFINE t == requests[r].topic
               d == requests[r].day
               ranks == Daily(results', t, d)
    <2>1. DOMAIN ranks \subseteq Users
      <3>1. DOMAIN ranks = UsersOf(Board(results', t, d))
        BY CommitIsFinite, DailyRanks
      <3> QED
        BY <1>2, <3>1 DEF UsersOf, Board, Rows
    <2>2. t \in Topics /\ d \in 0..MaxDay
      BY CommitFacts DEF Slots
    <2>3. reached' = reached \cup
            {<<b[1], t, d, b[2]>> : b \in {c \in (DOMAIN ranks) \X Cuts : ranks[c[1]] <= c[2]}}
      BY DEF Commit
    <2>4. reached \subseteq Users \X Topics \X (0..MaxDay) \X Cuts
      BY DEF IInv, TypeOK
    <2>5. ASSUME NEW b \in (DOMAIN ranks) \X Cuts
          PROVE  <<b[1], t, d, b[2]>> \in Users \X Topics \X (0..MaxDay) \X Cuts
      BY <2>1, <2>2
    <2> HIDE DEF t, d, ranks
    <2> QED
      BY <2>3, <2>4, <2>5
  <1> QED
    BY <1>1, <1>2, <1>3, <1>4 DEF TypeOK

\* What a submission sends is about its own result and the places lost to it.
LEMMA NewsIsOfToday ==
  ASSUME IInv, NEW r \in Requests, Commit(r), NEW n \in notes', n \notin notes
  PROVE  /\ n.key[1] # "summary"
         /\ n.key[1] = "result" => \E x \in results' : n.key = <<"result", x.user, x.topic, x.day>>
  <1> DEFINE req == requests[r]
             ranks == Daily(results \cup req.row, req.topic, req.day)
             own == [key |-> <<"result", req.user, req.topic, req.day>>, rank |-> ranks[req.user]]
  <1>1. n \in News(results, req, req.row)
    BY CommitFacts DEF Created
  <1>2. req.row # {}
    BY <1>1 DEF News
  <1>3. PICK x \in Rows : req.row = {x} /\ x.user = req.user /\ x.topic = req.topic /\ x.day = req.day
    BY <1>2, CommitFacts
  <1>4. x \in results'
    BY <1>3, CommitFacts
  <1>5. \/ n = own
        \/ \E b \in req.before :
             n = [key |-> <<"drop", b[1], req.topic, req.day, b[2]>>, rank |-> ranks[b[1]]]
    BY <1>1, <1>2 DEF News
  <1>6. CASE n = own
    BY <1>3, <1>4, <1>6
  <1>7. ASSUME NEW b, n = [key |-> <<"drop", b[1], req.topic, req.day, b[2]>>, rank |-> ranks[b[1]]]
        PROVE  n.key[1] = "drop"
    BY <1>7
  <1> QED
    BY <1>5, <1>6, <1>7

LEMMA CommitKeepsSummaries ==
  ASSUME IInv, NEW r \in Requests, Commit(r), NEW n \in notes \cup job
  PROVE  Settled(n)'
  <1>1. /\ requests'[r] = Idle /\ \A q \in Requests \ {r} : requests'[q] = requests[q]
        /\ day' = day
    BY CommitFacts
  <1>2. SUFFICES ASSUME n.key[1] = "summary"
                 PROVE  Weekly(results', n.key[3]) = Weekly(results, n.key[3])
    BY <1>1 DEF IInv, Settled, Busy, Idle
  <1>3. n.key[3] < Week(requests[r].day) /\ n.key[3] \in Int
    <2>1. Busy(r) /\ Settled(n) /\ n \in Notes
      BY CommitFacts DEF Busy, IInv, TypeOK
    <2>2. n.key[3] < Week(requests[r].day)
      BY <1>2, <2>1 DEF Settled
    <2>3. n.key \in {"progress", "summary"} \X Users \X Int
      BY <1>2, <2>1 DEF Notes, NoteKeys
    <2> QED
      BY <2>2, <2>3
  <1>4. CASE requests[r].row = {}
    <2>1. results' = results
      BY <1>4, CommitFacts
    <2> QED
      BY <2>1
  <1>5. ASSUME NEW x \in Rows, requests[r].row = {x}, x.day = requests[r].day
        PROVE  Weekly(results', n.key[3]) = Weekly(results, n.key[3])
    <2>1. results' = results \cup {x}
      BY <1>5, CommitFacts
    <2>2. Week(x.day) # n.key[3]
      <3>1. Week(requests[r].day) \in Int
        BY CommitFacts, WeeksHaveDays, BoundsAreNaturals DEF Slots, Week
      <3> QED
        BY <1>3, <1>5, <3>1
    <2>3. WeekBoard(results', n.key[3]) = WeekBoard(results, n.key[3])
      BY <2>1, <2>2 DEF WeekBoard
    <2> QED
      BY <2>3 DEF Weekly
  <1> QED
    BY <1>4, <1>5, CommitFacts

LEMMA CommitStep == ASSUME IInv, NEW r \in Requests, Commit(r) PROVE IInv'
  <1>1. /\ requests'[r] = Idle /\ \A q \in Requests \ {r} : requests'[q] = requests[q]
        /\ results \subseteq results' /\ job' = job
    BY CommitFacts
  <1>2. LocksExclude'
    BY <1>1 DEF IInv, LocksExclude, Busy, OnBoard, Idle
  <1>3. ASSUME NEW q \in Requests PROVE Current(q)'
    <2>1. CASE q = r
      BY <1>1, <2>1 DEF Current, Busy, OnBoard, Idle
    <2>2. CASE q # r
      BY <2>2, OthersStayCurrent
    <2> QED
      BY <2>1, <2>2
  <1>4. ResultsAreOnRecord'
    BY <1>1, NewsIsOfToday DEF IInv, ResultsAreOnRecord
  <1>5. JobIsWeekly'
    BY <1>1 DEF IInv, JobIsWeekly
  <1>6. ASSUME NEW n \in notes' \cup job' PROVE Settled(n)'
    <2>1. CASE n \in notes \cup job
      BY <2>1, CommitKeepsSummaries
    <2>2. CASE n \notin notes \cup job
      BY <1>1, <2>2, NewsIsOfToday DEF Settled
    <2> QED
      BY <2>1, <2>2
  <1> QED
    BY <1>2, <1>3, <1>4, <1>5, <1>6, CommitKeepsTypes, CommitIsFinite, CommitKeepsDrops DEF IInv

-----------------------------------------------------------------------------
(* The theorems                                                             *)

LEMMA Initially == Init => IInv
  <1> SUFFICES ASSUME Init PROVE IInv
    OBVIOUS
  <1>1. TypeOK
    BY IdleIsSlot, BoundsAreNaturals DEF Init, TypeOK
  <1>2. IsFiniteSet(results)
    BY FS_EmptySet DEF Init
  <1> QED
    BY <1>1, <1>2 DEF Init, IInv, LocksExclude, Current, ResultsAreOnRecord, JobIsWeekly, Settled,
                      ReachedAreRanked, NoSilentDrop, Busy, OnBoard, Idle

LEMMA Inductive == IInv /\ [Next]_vars => IInv'
  <1> SUFFICES ASSUME IInv, [Next]_vars PROVE IInv'
    OBVIOUS
  <1>1. CASE NextDay
    BY <1>1, NextDayStep
  <1>2. CASE RunWeekly
    BY <1>2, RunWeeklyStep
  <1>3. CASE WriteWeekly
    BY <1>3, WriteWeeklyStep
  <1>4. ASSUME NEW r \in Requests, Submission(r) PROVE IInv'
    BY <1>4, LockAndClockStep, LockBoardStep, InsertStep, CommitStep, FailStep DEF Submission
  <1>5. CASE UNCHANGED vars
    BY <1>5 DEF vars, IInv, TypeOK, LocksExclude, Current, ResultsAreOnRecord, JobIsWeekly, Settled,
                ReachedAreRanked, NoSilentDrop, Busy, OnBoard
  <1> QED
    BY <1>1, <1>2, <1>3, <1>4, <1>5 DEF Next

LEMMA Invariance == Spec => []IInv
  BY Initially, Inductive, PTL DEF Spec

\* Whoever loses a place that is watched is notified, however many submissions to the
\* board overlap, fail or are ranked at once (captureBoundary, recordOfficial).
THEOREM DropsAreTold == Spec => []NoSilentDrop
  <1>1. IInv => NoSilentDrop
    BY DEF IInv
  <1> QED
    BY <1>1, Invariance, PTL

\* The rank in a weekly summary is the user's rank in that week for ever: the summary
\* is of a week that no submission can reach any more (runWeekly).
THEOREM SummariesStand == Spec => []SummaryIsFinal
  <1>1. IInv => SummaryIsFinal
    BY DEF IInv, Settled, SummaryIsFinal
  <1> QED
    BY <1>1, Invariance, PTL

\* The rank sent with a result, computed inside the transaction, is the rank the
\* result has when the transaction commits (recordOfficial).
THEOREM RanksAreTold == Spec => ToldTheRank
  <1> DEFINE Told ==
        \A x \in results' \ results :
          \E n \in notes' \ notes :
            /\ n.key = <<"result", x.user, x.topic, x.day>>
            /\ n.rank = Daily(results', x.topic, x.day)[x.user]
  <1>1. ASSUME IInv, Next PROVE Told
    <2>1. ASSUME NEW r \in Requests, Commit(r) PROVE Told
      <3>1. CASE requests[r].row = {}
        <4>1. results' = results
          BY <2>1, <1>1, <3>1, CommitFacts
        <4> QED
          BY <4>1
      <3>2. ASSUME NEW x \in Rows, requests[r].row = {x}, x.user = requests[r].user,
                   x.topic = requests[r].topic, x.day = requests[r].day,
                   \A y \in results : ~(y.user = x.user /\ y.topic = x.topic)
            PROVE  Told
        BY <1>1, <2>1, <3>2, ResultIsTold
      <3> QED
        BY <1>1, <2>1, <3>1, <3>2, CommitFacts
    <2>2. ASSUME NEW r \in Requests, LockAndClock(r) \/ LockBoard(r) \/ Insert(r) \/ Fail(r)
          PROVE  results' = results
      BY <2>2 DEF LockAndClock, LockBoard, Insert, Fail
    <2>3. CASE NextDay \/ RunWeekly \/ WriteWeekly
      BY <2>3 DEF NextDay, RunWeekly, WriteWeekly
    <2> QED
      BY <1>1, <2>1, <2>2, <2>3 DEF Next, Submission
  <1>2. ASSUME UNCHANGED vars PROVE Told
    BY <1>2 DEF vars
  <1>3. IInv /\ [Next]_vars => [Told]_vars
    BY <1>1, <1>2
  <1> QED
    BY <1>3, Invariance, PTL DEF Spec, ToldTheRank

=============================================================================
