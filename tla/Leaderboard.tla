----------------------------- MODULE Leaderboard -----------------------------
(***************************************************************************)
(* The boards of official results and what is sent about them: the part of *)
(* a submission's transaction that ranks its result, and the weekly job.   *)
(*                                                                         *)
(* A result's score stands for score and duration together, which the      *)
(* boards compare one after the other.                                     *)
(***************************************************************************)
EXTENDS Integers, FiniteSetsExt

CONSTANTS
    Users,        \* numbered: a board's last criterion is the order of the ids
    Topics,
    Scores,
    Cuts,         \* the ranks whose loss is announced, {3, 10} in the code
    Requests,     \* submissions in flight at once
    DaysPerWeek,  \* 7 in the code
    ProgressDay,  \* the day of the week of the progress job, 3 in the code
    MaxDay,       \* bound on the clock, which counts days
    MaxSubmits    \* bound on submissions

ASSUME UsersAreNumbered == Users \subseteq Nat
ASSUME ScoresAreNumbers == Scores \subseteq Nat /\ Cuts \subseteq Nat \ {0}
ASSUME WeeksHaveDays == DaysPerWeek \in Nat \ {0}
ASSUME BoundsAreNaturals == MaxDay \in Nat /\ MaxSubmits \in Nat

VARIABLES
    day,      \* the business day
    results,  \* topic_leaderboard_results where isCounted
    notes,    \* notifications, by their dedupKey
    requests, \* per slot, the submission in flight
    job,      \* rows the weekly job is about to insert
    submits,  \* how many submissions there have been
    reached   \* history: who has stood on which side of a cut

vars == <<day, results, notes, requests, job, submits, reached>>

-----------------------------------------------------------------------------
(* Boards                                                                   *)

Week(d) == d \div DaysPerWeek

\* ORDER BY: the first column in which the keys differ decides.
Precedes(a, b) ==
    \E i \in DOMAIN a : a[i] < b[i] /\ \A j \in 1..(i - 1) : a[j] = b[j]

\* ROW_NUMBER() over rows given as a function from users to sort keys.
Ranks(key) ==
    [u \in DOMAIN key |-> 1 + Cardinality({v \in DOMAIN key : Precedes(key[v], key[u])})]

UsersOf(rows) == {r.user : r \in rows}

\* rankedQuery, over the rows of one topic and day.
Board(rows, t, d) == {r \in rows : r.topic = t /\ r.day = d}
ResultOf(here, u) == CHOOSE x \in here : x.user = u
DailyKeys(here) ==
    [u \in UsersOf(here) |-> <<- ResultOf(here, u).score, ResultOf(here, u).day, u>>]
Daily(rows, t, d) == Ranks(DailyKeys(Board(rows, t, d)))

\* weeklyRankedQuery: a user's official results of the week, all topics together.
WeekBoard(rows, w) == {r \in rows : Week(r.day) = w}
WeeklyKeys(here) ==
    LET Of(u) == {r \in here : r.user = u}
        Points(u) == MapThenSumSet(LAMBDA r : r.score, Of(u))
        Last(u) == CHOOSE d \in {r.day : r \in Of(u)} : \A r \in Of(u) : r.day <= d
    IN [u \in UsersOf(here) |-> <<- Points(u), - Cardinality(Of(u)), Last(u), u>>]
Weekly(rows, w) == Ranks(WeeklyKeys(WeekBoard(rows, w)))

-----------------------------------------------------------------------------

Idle == [pc |-> "idle", user |-> 0, topic |-> 0, day |-> 0,
         before |-> {}, row |-> {}, new |-> {}]

Init ==
    /\ day = 0
    /\ results = {}
    /\ notes = {}
    /\ requests = [r \in Requests |-> Idle]
    /\ job = {}
    /\ submits = 0
    /\ reached = {}

NextDay ==
    /\ day < MaxDay
    /\ day' = day + 1
    /\ UNCHANGED <<results, notes, requests, job, submits, reached>>

\* createManyAndReturn with skipDuplicates.
Created(rows) == {n \in rows : \A m \in notes : m.key # n.key}

-----------------------------------------------------------------------------
(* A submission, from its first lock on                                     *)

Set(r, req) == requests' = [requests EXCEPT ![r] = req]

\* The lock on user and topic, and the database's clock.
LockAndClock(r) ==
    /\ requests[r].pc = "idle"
    /\ submits < MaxSubmits
    /\ submits' = submits + 1
    /\ \E u \in Users, t \in Topics :
         /\ \A q \in Requests : requests[q].pc # "idle" => <<requests[q].user, requests[q].topic>> # <<u, t>>
         /\ Set(r, [Idle EXCEPT !.pc = "clocked", !.user = u, !.topic = t, !.day = day])
    /\ UNCHANGED <<day, results, notes, job, reached>>

\* Mutant: the lock is on the topic of one user, not on the day's board.
OwnBoard(a, b) == a.topic = b.topic /\ a.day = b.day /\ a.user = b.user

SameBoard(a, b) == a.topic = b.topic /\ a.day = b.day

\* captureBoundary: who stands on a cut.
Boundary(rows, t, d) ==
    LET ranks == Daily(rows, t, d) IN
    {<<u, ranks[u]>> : u \in {v \in DOMAIN ranks : ranks[v] \in Cuts}}

\* The lock on topic and day, and the boundary.
LockBoard(r) ==
    /\ requests[r].pc = "clocked"
    /\ \A q \in Requests \ {r} :
         requests[q].pc \in {"ranking", "ranked"} => ~SameBoard(requests[q], requests[r])
    /\ Set(r, [requests[r] EXCEPT !.pc = "ranking",
                                  !.before = Boundary(results, requests[r].topic, requests[r].day)])
    /\ UNCHANGED <<day, results, notes, job, submits, reached>>

\* The first submission of a user and topic is the one that counts.
RowOf(rows, req, s) ==
    IF \E x \in rows : x.user = req.user /\ x.topic = req.topic THEN {}
    ELSE {[user |-> req.user, topic |-> req.topic, day |-> req.day, score |-> s]}

\* Mutant: the next rank is still within the cut.
LostByTwo(rank, cut) == rank > cut + 1

Lost(rank, cut) == rank > cut

\* recordOfficial: the result with its rank, and the places lost to it.
News(rows, req, row) ==
    LET ranks == Daily(rows \cup row, req.topic, req.day)
        own == [key |-> <<"result", req.user, req.topic, req.day>>, rank |-> ranks[req.user]]
        dropped == {[key |-> <<"drop", b[1], req.topic, req.day, b[2]>>, rank |-> ranks[b[1]]] :
                      b \in {x \in req.before : Lost(ranks[x[1]], x[2])}}
    IN IF row = {} THEN {} ELSE {own} \cup dropped

\* The insert, and the ranks after it.
Insert(r) ==
    /\ requests[r].pc = "ranking"
    /\ \E s \in Scores :
       LET row == RowOf(results, requests[r], s) IN
       Set(r, [requests[r] EXCEPT !.pc = "ranked", !.row = row,
                                  !.new = News(results, requests[r], row)])
    /\ UNCHANGED <<day, results, notes, job, submits, reached>>

Commit(r) ==
    LET req == requests[r] IN
    /\ req.pc = "ranked"
    /\ results' = results \cup req.row
    /\ notes' = notes \cup Created(req.new)
    /\ LET ranks == Daily(results', req.topic, req.day) IN
       reached' = reached \cup
         {<<b[1], req.topic, req.day, b[2]>> :
            b \in {x \in (DOMAIN ranks) \X Cuts : ranks[x[1]] <= x[2]}}
    /\ Set(r, Idle)
    /\ UNCHANGED <<day, job, submits>>

\* The transaction is rolled back.
Fail(r) ==
    /\ requests[r].pc # "idle"
    /\ Set(r, Idle)
    /\ UNCHANGED <<day, results, notes, job, submits, reached>>

-----------------------------------------------------------------------------
(* The weekly job                                                           *)

\* Mutant: the summary is of the week that begins.
ThisWeek(kind) == Week(day)

\* Thursday's progress is of this week, Monday's summary of the last one.
WeekOf(kind) == IF kind = "progress" THEN Week(day) ELSE Week(day) - 1

\* runWeekly: the read.  By Monday morning no submission of the week before is in
\* flight: a transaction lasts seconds.
RunWeekly ==
    /\ job = {}
    /\ \E kind \in {"progress", "summary"} :
         /\ kind = "progress" => day % DaysPerWeek = ProgressDay
         /\ kind = "summary" => /\ day % DaysPerWeek = 0
                                /\ \A r \in Requests : requests[r].pc # "idle" => requests[r].day = day
         /\ LET ranks == Weekly(results, WeekOf(kind)) IN
            job' = {[key |-> <<kind, u, WeekOf(kind)>>, rank |-> ranks[u]] : u \in DOMAIN ranks}
    /\ job' # {}
    /\ UNCHANGED <<day, results, notes, requests, submits, reached>>

WriteWeekly ==
    /\ job # {}
    /\ notes' = notes \cup Created(job)
    /\ job' = {}
    /\ UNCHANGED <<day, results, requests, submits, reached>>

-----------------------------------------------------------------------------

Submission(r) == LockAndClock(r) \/ LockBoard(r) \/ Insert(r) \/ Commit(r) \/ Fail(r)

Next ==
    \/ NextDay \/ RunWeekly \/ WriteWeekly
    \/ \E r \in Requests : Submission(r)

Spec == Init /\ [][Next]_vars

-----------------------------------------------------------------------------
(* Properties                                                               *)

Rows == [user : Users, topic : Topics, day : 0..MaxDay, score : Scores]
NoteKeys ==
    ({"result"} \X Users \X Topics \X (0..MaxDay))
      \cup ({"drop"} \X Users \X Topics \X (0..MaxDay) \X Cuts)
      \cup ({"progress", "summary"} \X Users \X Int)
Notes == [key : NoteKeys, rank : Nat]
Slots ==
    [pc : {"idle", "clocked", "ranking", "ranked"}, user : Users \cup {0}, topic : Topics \cup {0},
     day : 0..MaxDay, before : SUBSET (Users \X Cuts), row : SUBSET Rows, new : SUBSET Notes]

\* Rows and notifications have their shape, and so have those about to be
\* inserted; a user has one official result per topic.
TypeOK ==
    /\ day \in 0..MaxDay
    /\ results \subseteq Rows
    /\ \A x, y \in results : x.user = y.user /\ x.topic = y.topic => x = y
    /\ notes \subseteq Notes /\ job \subseteq Notes
    /\ requests \in [Requests -> Slots]
    /\ submits \in 0..MaxSubmits
    /\ reached \subseteq Users \X Topics \X (0..MaxDay) \X Cuts

\* Whoever loses a place that is watched is told so, whatever submissions overlap.
NoSilentDrop ==
    \A x \in reached :
        Daily(results, x[2], x[3])[x[1]] > x[4] =>
            \E n \in notes : n.key = <<"drop", x[1], x[2], x[3], x[4]>>

\* The rank a user is told with a result is the one it has when it appears.
ToldTheRank ==
    [][\A x \in results' \ results :
         \E n \in notes' \ notes :
            /\ n.key = <<"result", x.user, x.topic, x.day>>
            /\ n.rank = Daily(results', x.topic, x.day)[x.user]]_vars

\* The rank in a weekly summary stays the user's rank in that week for ever.
SummaryIsFinal ==
    \A n \in notes :
        n.key[1] = "summary" =>
            LET ranks == Weekly(results, n.key[3]) IN
            n.key[2] \in DOMAIN ranks /\ n.rank = ranks[n.key[2]]

=============================================================================
