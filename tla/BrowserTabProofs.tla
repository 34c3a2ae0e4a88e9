--------------------------- MODULE BrowserTabProofs ---------------------------
(***************************************************************************)
(* Proofs about the two modules in which a browser tab keeps state and     *)
(* hears of the server's only later: NotificationCenter, the bell, and     *)
(* QuizPage, the page of a quiz.                                           *)
(*                                                                         *)
(* NotificationCenter, for any topics and cap, and any number of           *)
(* publications and refreshes in flight:                                   *)
(*                                                                         *)
(*   RemindersAreCapped     the job never exceeds the cap of a day;        *)
(*   NothingIsMissed        a tab that waits for nothing has met every row;*)
(*   NothingIsMadeUp        a tab shows and counts rows that exist;        *)
(*   RightBellsStayRight    only a change of the rows makes a bell wrong.  *)
(*                                                                         *)
(* The argument of the second: a row that the tab has not met is on its    *)
(* way to it, in a publication, in an event, or in a refresh that has yet  *)
(* to read or to answer.                                                   *)
(*                                                                         *)
(* QuizPage, for any questions, choices and sessions, and any number of    *)
(* choices and faults:                                                     *)
(*                                                                         *)
(*   PageIsTyped            the shape of the variables;                    *)
(*   LostSessionsAreOver    a session given up is one that has ended;      *)
(*   SavedAnswersAreSaved   the row holds what the page shows as saved;    *)
(*   SavedAnswersAreGraded  the result is that of the answers shown.       *)
(*                                                                         *)
(* The argument: the loop of a session that the page has left finds it     *)
(* over (LifeInv), so that only the page's own loops write to its row;     *)
(* each question of it is saved, or in its loop, or the one failed save    *)
(* that is remembered (SaveInv); and a submission that found nothing       *)
(* waiting finds nothing waiting until it is answered (GradeInv).          *)
(***************************************************************************)
EXTENDS NotificationCenter, QuizPage, FiniteSetTheorems, TLAPS

-----------------------------------------------------------------------------
(* The cap                                                                  *)

CapInv ==
    /\ DOMAIN rows \subseteq Keys
    /\ job \in [pc : {"idle", "write"}, new : SUBSET Topics]
    /\ ReminderCap
    /\ job.pc = "write" => Cardinality((DOMAIN rows \cap Topics) \cup job.new) <= MaxReminders

\* The elements of a set of numbers with fewer than n smaller ones are n at most:
\* each has another number of smaller ones.
LEMMA TheFirstOnes ==
  ASSUME NEW S \in SUBSET Nat, IsFiniteSet(S), NEW n \in Nat
  PROVE  LET First == {t \in S : Cardinality({s \in S : s < t}) < n} IN
         IsFiniteSet(First) /\ Cardinality(First) <= n
  <1> DEFINE Below(t) == {s \in S : s < t}
             First == {t \in S : Cardinality(Below(t)) < n}
             place == [t \in First |-> Cardinality(Below(t))]
  <1>1. IsFiniteSet(First)
    BY FS_Subset
  <1>2. ASSUME NEW t \in S
        PROVE  IsFiniteSet(Below(t)) /\ Cardinality(Below(t)) \in Nat
    <2>1. IsFiniteSet(Below(t))
      BY FS_Subset
    <2> QED
      BY <2>1, FS_CardinalityType
  <1>3. ASSUME NEW s \in S, NEW t \in S, s < t
        PROVE  Cardinality(Below(s)) < Cardinality(Below(t))
    <2>0. s \in Nat /\ t \in Nat /\ \A x \in S : x \in Nat
      OBVIOUS
    <2>1. Below(s) \subseteq Below(t) /\ s \in Below(t) /\ s \notin Below(s)
      <3>1. \A x \in S : x < s => x < t
        BY <1>3, <2>0
      <3>2. ~(s < s)
        BY <2>0
      <3> QED
        BY <1>3, <3>1, <3>2
    <2>2. Below(s) # Below(t)
      BY <2>1
    <2> HIDE DEF Below
    <2> QED
      BY <1>2, <2>1, <2>2, FS_Subset
  <1>4. \A s, t \in S : Cardinality(Below(s)) = Cardinality(Below(t)) => s = t
    <2> SUFFICES ASSUME NEW s \in S, NEW t \in S, s # t
                 PROVE  Cardinality(Below(s)) # Cardinality(Below(t))
      OBVIOUS
    <2>1. s < t \/ t < s
      OBVIOUS
    <2> HIDE DEF Below
    <2> QED
      BY <1>2, <1>3, <2>1
  <1>5. IsFiniteSet(0..(n - 1)) /\ Cardinality(0..(n - 1)) = n
    BY FS_Interval
  <1>6. place \in Injection(First, 0..(n - 1))
    <2> HIDE DEF Below
    <2>1. \A t \in First : Cardinality(Below(t)) \in 0..(n - 1)
      BY <1>2
    <2> QED
      BY <1>4, <2>1 DEF Injection, IsInjective
  <1>7. Cardinality(First) <= n
    BY <1>1, <1>5, <1>6, FS_Injection
  <1> QED
    BY <1>1, <1>7

LEMMA SentAreFinite ==
  ASSUME CapInv
  PROVE  /\ IsFiniteSet(DOMAIN rows \cap Topics)
         /\ Cardinality(DOMAIN rows \cap Topics) \in Nat
         /\ Allowance \in Nat
         /\ Cardinality(DOMAIN rows \cap Topics) + Allowance <= MaxReminders
  <1>1. IsFiniteSet(DOMAIN rows \cap Topics)
    BY TopicsAreNumbered, FS_Subset
  <1>2. Cardinality(DOMAIN rows \cap Topics) \in Nat
    BY <1>1, FS_CardinalityType
  <1> QED
    BY <1>1, <1>2, BoundsAreNaturals DEF Allowance, CapInv, ReminderCap

LEMMA RunDailyKeepsCap == ASSUME CapInv, RunDaily PROVE CapInv'
  <1> DEFINE Open == Topics \ done
             First == {t \in Open : Cardinality({s \in Open : s < t}) < Allowance}
             Sent == DOMAIN rows \cap Topics
  <1>1. job' = [pc |-> "write", new |-> First] /\ UNCHANGED rows
    BY DEF RunDaily
  <1>2. Open \in SUBSET Nat /\ IsFiniteSet(Open)
    BY TopicsAreNumbered, FS_Subset
  <1>3. IsFiniteSet(First) /\ Cardinality(First) <= Allowance /\ First \subseteq Topics
    BY <1>2, SentAreFinite, TheFirstOnes
  <1> HIDE DEF First
  <1>4. Cardinality(Sent \cup First) <= MaxReminders
    <2>1. /\ Cardinality(Sent \cup First)
               = Cardinality(Sent) + Cardinality(First) - Cardinality(Sent \cap First)
          /\ IsFiniteSet(Sent \cap First)
      BY <1>3, SentAreFinite, FS_Union, FS_Subset
    <2>2. Cardinality(Sent \cap First) \in Nat /\ Cardinality(First) \in Nat
      BY <1>3, <2>1, FS_CardinalityType
    <2> QED
      BY <1>3, <2>1, <2>2, SentAreFinite, BoundsAreNaturals
  <1> QED
    BY <1>1, <1>3, <1>4 DEF CapInv, ReminderCap

LEMMA CreateAddsRows ==
  ASSUME NEW new, Create(new)
  PROVE  DOMAIN rows' = DOMAIN rows \cup new
  BY DEF Create

LEMMA CapStep == CapInv /\ [Next]_vars => CapInv'
  <1> SUFFICES ASSUME CapInv, [Next]_vars PROVE CapInv'
    OBVIOUS
  <1>1. CASE UNCHANGED <<DOMAIN rows, job>>
    BY <1>1 DEF CapInv, ReminderCap
  <1>2. CASE Announce
    <2>1. DOMAIN rows' = DOMAIN rows \cup {Event} /\ job' = job
      BY <1>2, CreateAddsRows DEF Announce
    <2>2. DOMAIN rows' \cap Topics = DOMAIN rows \cap Topics
      BY <2>1, TopicsAreNumbered DEF Event
    <2> QED
      BY <2>1, <2>2 DEF CapInv, ReminderCap, Keys
  <1>3. CASE RunDaily
    BY <1>3, RunDailyKeepsCap
  <1>4. CASE WriteReminders
    <2>1. DOMAIN rows' = DOMAIN rows \cup job.new /\ job' = NoJob /\ job.pc = "write"
      BY <1>4, CreateAddsRows DEF WriteReminders
    <2>2. DOMAIN rows' \cap Topics = (DOMAIN rows \cap Topics) \cup job.new
      BY <2>1 DEF CapInv
    <2> QED
      BY <2>1, <2>2 DEF CapInv, ReminderCap, NoJob, Keys
  <1>5. CASE Crash
    BY <1>5 DEF Crash, CapInv, ReminderCap, NoJob
  <1>6. CASE MarkWrite
    BY <1>1, <1>6 DEF MarkWrite
  <1>7. CASE \/ Connect \/ Disconnect \/ Receive \/ Focus \/ Mark \/ MarkDone
             \/ \E p \in Pushes : Publishing(p) \/ PushFails(p)
             \/ \E t \in Topics : Complete(t)
             \/ \E f \in Fetches : Fetching(f) \/ FetchFails(f)
    <2>1. UNCHANGED <<rows, job>>
      BY <1>7 DEF Connect, Disconnect, Receive, Focus, Mark, MarkDone, Publishing, CountUnread, Push,
                  PushFails, Complete, Fetching, Read, Apply, FetchFails
    <2> QED
      BY <1>1, <2>1
  <1>8. CASE UNCHANGED vars
    BY <1>1, <1>8 DEF vars
  <1> QED
    BY <1>2, <1>3, <1>4, <1>5, <1>6, <1>7, <1>8 DEF Next

\* The daily job reminds a user of no more topics a day than allowed, however often
\* it runs and whatever the user completes meanwhile (runDailyReminders).
THEOREM RemindersAreCapped == Spec => []ReminderCap
  <1>1. Init => CapInv
    <2> SUFFICES ASSUME Init PROVE CapInv
      OBVIOUS
    <2>1. DOMAIN rows \cap Topics = {}
      BY DEF Init
    <2> QED
      BY <2>1, FS_EmptySet, BoundsAreNaturals DEF Init, CapInv, ReminderCap, NoJob
  <1>2. CapInv => ReminderCap
    BY DEF CapInv
  <1> QED
    BY <1>1, <1>2, CapStep, PTL DEF Spec

-----------------------------------------------------------------------------
(* Nothing is missed                                                        *)

Marks == UNION {[D -> BOOLEAN] : D \in SUBSET Keys}
PushSlots == [pc : {"idle", "count", "push"}, new : SUBSET Keys, unread : Nat]
FetchSlots == [pc : {"idle", "asked"}, rows : Marks, unread : Nat, reads : SUBSET {"list", "count"}]
Streams == [open : BOOLEAN, events : Seq([new : SUBSET Keys, unread : Nat])]

Shape ==
    /\ rows \in Marks
    /\ job.new \subseteq Keys
    /\ pushes \in [Pushes -> PushSlots]
    /\ fetches \in [Fetches -> FetchSlots]
    /\ stream \in Streams

\* A row that is on its way to the tab, and where it is.
InPush(k) == \E p \in Pushes : pushes[p].pc # "idle" /\ k \in pushes[p].new
InFetch(k) ==
    \E f \in Fetches : fetches[f].pc = "asked" /\
        (\/ "list" \in fetches[f].reads
         \/ k \in DOMAIN fetches[f].rows)
InStream(k) ==
    \E i \in 1..Len(stream.events) :
        \/ stream.events[i] = OpenEvent
        \/ k \in stream.events[i].new
Reaches(k) == k \in seen \/ InPush(k) \/ InFetch(k) \/ InStream(k)

MissInv ==
    /\ Shape
    /\ stream.open /\ ~troubled => \A k \in DOMAIN rows : Reaches(k)

LEMMA Constants ==
  /\ <<>> \in Marks /\ NoPush \in PushSlots /\ NoFetch \in FetchSlots /\ Asked \in FetchSlots
  /\ Closed \in Streams /\ Event \in Keys /\ OpenEvent \in [new : SUBSET Keys, unread : Nat]
  <1>1. <<>> \in Marks
    <2>1. <<>> = [k \in {} |-> FALSE]
      OBVIOUS
    <2>2. [k \in {} |-> FALSE] \in [{} -> BOOLEAN]
      OBVIOUS
    <2> QED
      BY <2>1, <2>2 DEF Marks
  <1>2. NoPush \in PushSlots
    BY DEF NoPush, PushSlots
  <1>3. NoFetch \in FetchSlots
    BY <1>1 DEF NoFetch, FetchSlots
  <1>4. Asked \in FetchSlots
    BY <1>3 DEF Asked, FetchSlots
  <1>5. Closed \in Streams
    <2>1. <<>> \in Seq([new : SUBSET Keys, unread : Nat])
      OBVIOUS
    <2> QED
      BY <2>1 DEF Closed, Streams
  <1>6. Event \in Keys /\ OpenEvent \in [new : SUBSET Keys, unread : Nat]
    BY DEF Event, Keys, OpenEvent
  <1> QED
    BY <1>1, <1>2, <1>3, <1>4, <1>5, <1>6

LEMMA UnreadIsANumber == ASSUME NEW r \in Marks PROVE Unread(r) \in Nat
  <1>1. IsFiniteSet(Keys)
    BY TopicsAreNumbered, FS_AddElement DEF Keys
  <1>2. PICK D \in SUBSET Keys : r \in [D -> BOOLEAN]
    BY DEF Marks
  <1>3. IsFiniteSet({k \in DOMAIN r : ~r[k]})
    <2>1. {k \in DOMAIN r : ~r[k]} \subseteq Keys
      BY <1>2
    <2> QED
      BY <1>1, <2>1, FS_Subset
  <1> QED
    BY <1>3, FS_CardinalityType DEF Unread

LEMMA MarksAre ==
  ASSUME NEW D \in SUBSET Keys, NEW r, r = [k \in D |-> r[k]], \A k \in D : r[k] \in BOOLEAN
  PROVE  r \in Marks
  <1>1. r \in [D -> BOOLEAN]
    OBVIOUS
  <1> QED
    BY <1>1 DEF Marks

\* A refresh takes a slot that was idle.
LEMMA RefreshKeeps ==
  ASSUME Shape, Refresh
  PROVE  /\ fetches' \in [Fetches -> FetchSlots]
         /\ \A k : InFetch(k)'
  <1>1. Free(fetches) \in Fetches /\ fetches[Free(fetches)].pc = "idle"
    BY DEF Refresh, Free, Shape
  <1>2. fetches' = [fetches EXCEPT ![Free(fetches)] = Asked]
    BY DEF Refresh
  <1>3. fetches' \in [Fetches -> FetchSlots]
    BY <1>1, <1>2, Constants DEF Shape
  <1>4. fetches'[Free(fetches)] = Asked /\ Asked.pc = "asked" /\ "list" \in Asked.reads
    BY <1>1, <1>2 DEF Shape, Asked, NoFetch
  <1> HIDE DEF Free
  <1> QED
    BY <1>1, <1>3, <1>4 DEF InFetch

LEMMA CreateKeeps ==
  ASSUME Shape, NEW new \in SUBSET Keys, Create(new)
  PROVE  /\ rows' \in Marks /\ pushes' \in [Pushes -> PushSlots]
         /\ \A k : InPush(k) => InPush(k)'
         /\ \A k \in DOMAIN rows' \ DOMAIN rows : InPush(k)'
  <1> DEFINE p == Free(pushes)
             created == new \ DOMAIN rows
  <1>1. p \in Pushes /\ pushes[p].pc = "idle"
    BY DEF Create, Free, Shape
  <1>2. pushes' = IF created = {} THEN pushes
                  ELSE [pushes EXCEPT ![p] = [NoPush EXCEPT !.pc = "count", !.new = created]]
    BY DEF Create
  <1>3. /\ rows' = [k \in DOMAIN rows \cup created |-> k \in DOMAIN rows /\ rows[k]]
        /\ DOMAIN rows \in SUBSET Keys
    BY DEF Create, Shape, Marks
  <1>4. rows' \in Marks
    <2>1. rows' \in [DOMAIN rows \cup created -> BOOLEAN]
      BY <1>3, Zenon
    <2>2. DOMAIN rows \cup created \in SUBSET Keys
      BY <1>3
    <2> QED
      BY <2>1, <2>2 DEF Marks
  <1>5. [NoPush EXCEPT !.pc = "count", !.new = created] \in PushSlots
    BY Constants DEF PushSlots
  <1> HIDE DEF p
  <1>6. pushes' \in [Pushes -> PushSlots]
    BY <1>1, <1>2, <1>5 DEF Shape
  <1>7. \A k : InPush(k) => InPush(k)'
    BY <1>1, <1>2 DEF InPush, Shape
  <1>8. ASSUME NEW k \in created PROVE InPush(k)'
    <2>1. pushes'[p].pc = "count" /\ pushes'[p].new = created
      BY <1>1, <1>2, <1>8 DEF Shape, NoPush
    <2> QED
      BY <1>1, <1>8, <2>1 DEF InPush
  <1> QED
    BY <1>3, <1>4, <1>6, <1>7, <1>8

\* The head of a queue goes; the rest moves up.
LEMMA TailKeeps ==
  ASSUME NEW T, NEW q \in Seq(T), q # <<>>, NEW i \in 1..Len(q)
  PROVE  /\ Tail(q) \in Seq(T) /\ Head(q) \in T
         /\ q[i] = Head(q) \/ \E j \in 1..Len(Tail(q)) : Tail(q)[j] = q[i]
  <1>1. CASE i = 1
    BY <1>1
  <1>2. CASE i # 1
    <2>1. i - 1 \in 1..Len(Tail(q)) /\ Tail(q)[i - 1] = q[i]
      BY <1>2
    <2> QED
      BY <2>1
  <1> QED
    BY <1>1, <1>2

LEMMA ReceiveKeeps == ASSUME MissInv, Receive PROVE MissInv'
  <1> DEFINE E == [new : SUBSET Keys, unread : Nat]
             q == stream.events
             event == Head(q)
  <1>1. q \in Seq(E) /\ q # <<>> /\ stream \in Streams
    BY DEF Receive, MissInv, Shape, Streams
  <1>2. stream' = [stream EXCEPT !.events = Tail(q)] /\ UNCHANGED <<rows, job, pushes, troubled>>
    BY DEF Receive
  <1>3. Tail(q) \in Seq(E) /\ event \in E
    <2> HIDE DEF E
    <2> QED
      BY <1>1
  <1>4. stream' \in Streams /\ stream'.open = stream.open /\ stream'.events = Tail(q)
    BY <1>1, <1>2, <1>3 DEF Streams
  <1>5. ASSUME NEW k, InStream(k) PROVE InStream(k)' \/ event = OpenEvent \/ k \in event.new
    <2>1. PICK i \in 1..Len(q) : q[i] = OpenEvent \/ k \in q[i].new
      BY <1>5 DEF InStream
    <2>2. q[i] = event \/ \E j \in 1..Len(Tail(q)) : Tail(q)[j] = q[i]
      BY <1>1, TailKeeps
    <2> QED
      BY <1>4, <2>1, <2>2 DEF InStream
  <1>6. CASE event = OpenEvent /\ Refresh
    <2>1. fetches' \in [Fetches -> FetchSlots] /\ \A k : InFetch(k)'
      BY <1>6, RefreshKeeps DEF MissInv
    <2> QED
      BY <1>2, <1>4, <2>1 DEF MissInv, Shape, Reaches
  <1>7. CASE event # OpenEvent /\ seen' = seen \cup event.new /\ UNCHANGED fetches
    <2>1. ASSUME NEW k, Reaches(k) PROVE Reaches(k)'
      BY <1>2, <1>5, <1>7, <2>1 DEF Reaches, InPush, InFetch
    <2> QED
      BY <1>2, <1>4, <1>7, <2>1 DEF MissInv, Shape
  <1> QED
    BY <1>6, <1>7 DEF Receive, OnOpen

LEMMA PushKeeps == ASSUME MissInv, NEW p \in Pushes, Push(p) PROVE MissInv'
  <1> DEFINE E == [new : SUBSET Keys, unread : Nat]
             q == stream.events
  <1>1. PICK k \in pushes[p].new :
          /\ stream' = IF stream.open
                       THEN [stream EXCEPT !.events = Append(q, [new |-> {k}, unread |-> pushes[p].unread])]
                       ELSE stream
          /\ pushes' = [pushes EXCEPT ![p] = IF pushes[p].new = {k} THEN NoPush
                                             ELSE [pushes[p] EXCEPT !.new = pushes[p].new \ {k}]]
    BY DEF Push
  <1>2. UNCHANGED <<rows, job, fetches, seen, troubled>>
    BY DEF Push
  <1> DEFINE event == [new |-> {k}, unread |-> pushes[p].unread]
  <1>3. pushes[p] \in PushSlots /\ pushes \in [Pushes -> PushSlots] /\ stream \in Streams /\ q \in Seq(E)
    BY DEF MissInv, Shape, Streams
  <1>4. event \in E
    BY <1>3 DEF PushSlots
  <1>5. pushes' \in [Pushes -> PushSlots]
    <2>1. [pushes[p] EXCEPT !.new = pushes[p].new \ {k}] \in PushSlots
      BY <1>3 DEF PushSlots
    <2> QED
      BY <1>1, <1>3, <2>1, Constants
  <1>6. Append(q, event) \in Seq(E) /\ Len(Append(q, event)) = Len(q) + 1
        /\ Append(q, event)[Len(q) + 1] = event
        /\ \A i \in 1..Len(q) : Append(q, event)[i] = q[i]
    BY <1>3, <1>4
  <1>7. stream' \in Streams /\ stream'.open = stream.open
    BY <1>1, <1>3, <1>6 DEF Streams
  <1>8. ASSUME stream.open, NEW l, Reaches(l) PROVE Reaches(l)'
    <2>1. stream'.events = Append(q, event)
      BY <1>1, <1>3, <1>8 DEF Streams
    <2>2. InStream(l) => InStream(l)'
      BY <1>3, <1>6, <2>1 DEF InStream
    <2>3. InStream(k)'
      <3>1. Len(q) + 1 \in 1..Len(Append(q, event)) /\ k \in event.new
        BY <1>3, <1>6
      <3> QED
        BY <1>6, <2>1, <3>1 DEF InStream
    <2>4. InPush(l) => InPush(l)' \/ l = k
      <3> SUFFICES ASSUME NEW r \in Pushes, pushes[r].pc # "idle", l \in pushes[r].new, l # k
                   PROVE  InPush(l)'
        BY DEF InPush
      <3>1. CASE r # p
        BY <1>1, <1>3, <3>1 DEF InPush
      <3>2. CASE r = p
        <4>1. pushes[p].new # {k}
          BY <3>2
        <4>2. pushes'[p].pc = pushes[p].pc /\ l \in pushes'[p].new
          BY <1>1, <1>3, <3>2, <4>1 DEF PushSlots
        <4> QED
          BY <3>2, <4>2 DEF InPush
      <3> QED
        BY <3>1, <3>2
    <2> QED
      BY <1>2, <1>8, <2>2, <2>3, <2>4 DEF Reaches, InFetch
  <1> QED
    BY <1>2, <1>5, <1>7, <1>8 DEF MissInv, Shape

LEMMA ReadKeeps == ASSUME MissInv, NEW f \in Fetches, Read(f) PROVE MissInv'
  <1>1. fetches \in [Fetches -> FetchSlots] /\ fetches[f] \in FetchSlots /\ rows \in Marks
    BY DEF MissInv, Shape
  <1>2. UNCHANGED <<rows, job, pushes, stream, seen, troubled>>
    BY DEF Read
  <1>3. CASE fetches' = [fetches EXCEPT ![f].rows = rows, ![f].reads = @ \ {"list"}]
    <2>1. [fetches[f] EXCEPT !.rows = rows, !.reads = fetches[f].reads \ {"list"}] \in FetchSlots
      BY <1>1 DEF FetchSlots
    <2>2. fetches' \in [Fetches -> FetchSlots]
      BY <1>1, <1>3, <2>1
    <2>3. ASSUME NEW k \in DOMAIN rows, InFetch(k) PROVE InFetch(k)'
      <3> PICK g \in Fetches : /\ fetches[g].pc = "asked"
                               /\ "list" \in fetches[g].reads \/ k \in DOMAIN fetches[g].rows
        BY <2>3 DEF InFetch
      <3>1. CASE g # f
        BY <1>1, <1>3, <3>1 DEF InFetch
      <3>2. CASE g = f
        <4>1. fetches'[f].pc = "asked" /\ fetches'[f].rows = rows
          BY <1>1, <1>3, <3>2 DEF FetchSlots
        <4> QED
          BY <2>3, <3>2, <4>1 DEF InFetch
      <3> QED
        BY <3>1, <3>2
    <2> QED
      BY <1>2, <2>2, <2>3 DEF MissInv, Shape, Reaches, InPush, InStream
  <1>4. CASE /\ "count" \in fetches[f].reads
             /\ fetches' = [fetches EXCEPT ![f].unread = Unread(rows), ![f].reads = @ \ {"count"}]
    <2>1. [fetches[f] EXCEPT !.unread = Unread(rows), !.reads = fetches[f].reads \ {"count"}] \in FetchSlots
      BY <1>1, UnreadIsANumber DEF FetchSlots
    <2>2. fetches' \in [Fetches -> FetchSlots]
      BY <1>1, <1>4, <2>1
    <2>3. ASSUME NEW g \in Fetches
          PROVE  /\ fetches'[g].pc = fetches[g].pc /\ fetches'[g].rows = fetches[g].rows
                 /\ "list" \in fetches[g].reads => "list" \in fetches'[g].reads
      BY <1>1, <1>4 DEF FetchSlots
    <2>4. \A k : InFetch(k) => InFetch(k)'
      BY <2>3 DEF InFetch
    <2> QED
      BY <1>2, <2>2, <2>4 DEF MissInv, Shape, Reaches, InPush, InStream
  <1> QED
    BY <1>3, <1>4 DEF Read

LEMMA ApplyKeeps == ASSUME MissInv, NEW f \in Fetches, Apply(f) PROVE MissInv'
  <1>1. fetches \in [Fetches -> FetchSlots]
    BY DEF MissInv, Shape
  <1>2. /\ UNCHANGED <<rows, job, pushes, stream, troubled>> /\ fetches[f].reads = {}
        /\ seen' = seen \cup DOMAIN fetches[f].rows /\ fetches' = [fetches EXCEPT ![f] = NoFetch]
    BY DEF Apply, Met
  <1>3. fetches' \in [Fetches -> FetchSlots]
    BY <1>1, <1>2, Constants
  <1>4. ASSUME NEW k, InFetch(k) PROVE InFetch(k)' \/ k \in seen'
    BY <1>1, <1>2, <1>4 DEF InFetch
  <1> QED
    BY <1>2, <1>3, <1>4 DEF MissInv, Shape, Reaches, InPush, InStream

LEMMA MissStep == MissInv /\ [Next]_vars => MissInv'
  <1> SUFFICES ASSUME MissInv, [Next]_vars PROVE MissInv'
    OBVIOUS
  <1>0. Shape
    BY DEF MissInv
  <1>1. CASE Announce
    <2>1. Create({Event}) /\ UNCHANGED <<job, stream, fetches, seen, troubled>>
      BY <1>1 DEF Announce
    <2>2. {Event} \in SUBSET Keys
      BY Constants
    <2> QED
      BY <1>0, <2>1, <2>2, CreateKeeps DEF MissInv, Shape, Reaches, InFetch, InStream
  <1>2. CASE WriteReminders
    <2>1. Create(job.new) /\ job' = NoJob /\ UNCHANGED <<stream, fetches, seen, troubled>>
      BY <1>2 DEF WriteReminders
    <2> QED
      BY <1>0, <2>1, CreateKeeps DEF MissInv, Shape, Reaches, InFetch, InStream, NoJob
  <1>3. CASE RunDaily
    <2>1. job'.new \subseteq Keys /\ UNCHANGED <<rows, pushes, stream, fetches, seen, troubled>>
      BY <1>3 DEF RunDaily, Keys
    <2> QED
      BY <2>1 DEF MissInv, Shape, Reaches, InPush, InFetch, InStream
  <1>4. ASSUME NEW p \in Pushes, CountUnread(p) PROVE MissInv'
    <2>1. /\ pushes' = [pushes EXCEPT ![p].pc = "push", ![p].unread = Unread(rows)]
          /\ UNCHANGED <<rows, job, stream, fetches, seen, troubled>>
      BY <1>4 DEF CountUnread
    <2>2. pushes \in [Pushes -> PushSlots] /\ Unread(rows) \in Nat
      BY <1>0, UnreadIsANumber DEF Shape
    <2>3. pushes' \in [Pushes -> PushSlots]
      BY <2>1, <2>2 DEF PushSlots
    <2>4. \A k : InPush(k) => InPush(k)'
      BY <2>1, <2>2 DEF InPush, PushSlots
    <2> QED
      BY <2>1, <2>3, <2>4 DEF MissInv, Shape, Reaches, InFetch, InStream
  <1>5. ASSUME NEW p \in Pushes, PushFails(p) PROVE MissInv'
    <2>1. /\ pushes' = [pushes EXCEPT ![p] = NoPush] /\ troubled'
          /\ UNCHANGED <<rows, job, stream, fetches>>
      BY <1>5 DEF PushFails
    <2> QED
      BY <1>0, <2>1, Constants DEF MissInv, Shape
  <1>6. ASSUME NEW f \in Fetches, FetchFails(f) PROVE MissInv'
    <2>1. /\ fetches' = [fetches EXCEPT ![f] = NoFetch] /\ troubled'
          /\ UNCHANGED <<rows, job, stream, pushes>>
      BY <1>6 DEF FetchFails
    <2> QED
      BY <1>0, <2>1, Constants DEF MissInv, Shape
  <1>7. CASE Connect
    <2>1. /\ stream' = [open |-> TRUE, events |-> <<OpenEvent>>]
          /\ UNCHANGED <<rows, job, pushes, fetches>>
      BY <1>7 DEF Connect
    <2>2. stream' \in Streams /\ Len(stream'.events) = 1 /\ stream'.events[1] = OpenEvent
      BY <2>1, Constants DEF Streams
    <2>3. \A k : InStream(k)'
      BY <2>2 DEF InStream
    <2> QED
      BY <2>1, <2>2, <2>3 DEF MissInv, Shape, Reaches
  <1>8. CASE Disconnect
    <2>1. stream' = Closed /\ UNCHANGED <<rows, job, pushes, fetches>>
      BY <1>8 DEF Disconnect
    <2> QED
      BY <1>0, <2>1, Constants DEF MissInv, Shape, Closed
  <1>9. CASE Crash
    <2>1. /\ stream' = Closed /\ pushes' = [p \in Pushes |-> NoPush] /\ job' = NoJob /\ rows' = rows
          /\ fetches' = [f \in Fetches |-> IF fetches[f].reads # {} THEN NoFetch ELSE fetches[f]]
      BY <1>9 DEF Crash
    <2>2. pushes' \in [Pushes -> PushSlots] /\ fetches' \in [Fetches -> FetchSlots]
      BY <1>0, <2>1, Constants DEF Shape
    <2> QED
      BY <1>0, <2>1, <2>2, Constants DEF MissInv, Shape, Closed, NoJob
  <1>10. CASE Focus
    <2>1. Refresh /\ UNCHANGED <<rows, job, pushes, stream>>
      BY <1>10 DEF Focus
    <2> QED
      BY <1>0, <2>1, RefreshKeeps DEF MissInv, Shape, Reaches
  <1>11. CASE MarkWrite
    <2>1. /\ rows' = [k \in DOMAIN rows |-> rows[k] \/ k \in mark.keys]
          /\ UNCHANGED <<job, pushes, stream, fetches, seen, troubled>>
      BY <1>11 DEF MarkWrite
    <2>2. DOMAIN rows \in SUBSET Keys
      BY <1>0 DEF Shape, Marks
    <2>3. rows' \in [DOMAIN rows -> BOOLEAN]
      BY <2>1, Zenon
    <2>4. rows' \in Marks
      BY <2>2, <2>3 DEF Marks
    <2> QED
      BY <2>1, <2>4 DEF MissInv, Shape, Reaches, InPush, InFetch, InStream
  <1>12. CASE UNCHANGED vars \/ Mark \/ MarkDone \/ \E t \in Topics : Complete(t)
    <2>1. UNCHANGED <<rows, job, pushes, stream, fetches, seen, troubled>>
      BY <1>12 DEF vars, Mark, MarkDone, Complete
    <2> QED
      BY <2>1 DEF MissInv, Shape, Reaches, InPush, InFetch, InStream
  <1>13. ASSUME NEW p \in Pushes, Publishing(p) PROVE MissInv'
    BY <1>4, <1>13, PushKeeps DEF Publishing
  <1>14. ASSUME NEW f \in Fetches, Fetching(f) PROVE MissInv'
    BY <1>14, ReadKeeps, ApplyKeeps DEF Fetching
  <1>15. CASE Receive
    BY <1>15, ReceiveKeeps
  <1> QED
    BY <1>1, <1>2, <1>3, <1>5, <1>6, <1>7, <1>8, <1>9, <1>10, <1>11, <1>12, <1>13, <1>14, <1>15 DEF Next

LEMMA InitMiss == Init => MissInv
  <1> SUFFICES ASSUME Init PROVE MissInv
    OBVIOUS
  <1> DEFINE none == [f \in Fetches |-> NoFetch]
  <1>1. none \in [Fetches -> FetchSlots]
    BY Constants
  <1>2. fetches = [none EXCEPT ![Free(none)] = Asked]
    BY DEF Init
  <1>3. fetches \in [Fetches -> FetchSlots]
    <2> HIDE DEF none
    <2> QED
      BY <1>1, <1>2, Constants
  <1>4. pushes \in [Pushes -> PushSlots] /\ rows \in Marks /\ job.new \subseteq Keys
        /\ stream \in Streams /\ ~stream.open
    BY Constants DEF Init, NoJob, Closed
  <1> QED
    BY <1>3, <1>4 DEF MissInv, Shape

\* A tab whose stream is open and which waits for nothing has met every row, through
\* lost connections and crashes, unless a count or a refresh failed: what was lost
\* with a stream is read again when the next one opens (onopen).
THEOREM NothingIsMissed == Spec => []NothingMissed
  <1>1. MissInv => NothingMissed
    <2> SUFFICES ASSUME MissInv, stream.open, stream.events = <<>>,
                        \A f \in Fetches : fetches[f].pc = "idle",
                        \A p \in Pushes : pushes[p].pc = "idle", ~troubled
                 PROVE  DOMAIN rows \subseteq seen
      BY DEF NothingMissed
    <2>1. Len(stream.events) = 0
      OBVIOUS
    <2> QED
      BY <2>1 DEF MissInv, Reaches, InPush, InFetch, InStream
  <1> QED
    BY <1>1, InitMiss, MissStep, PTL DEF Spec

-----------------------------------------------------------------------------
(* What is shown exists                                                     *)

\* No more rows are unread than there are.
Most == Cardinality(DOMAIN rows)

\* Rows that are pushed, sent, fetched, met and shown are rows of the table.
Pushed(p) == pushes[p].new \subseteq DOMAIN rows /\ pushes[p].unread <= Most
Sent(event) == event.new \subseteq DOMAIN rows /\ event.unread <= Most
Answered(f) == DOMAIN fetches[f].rows \subseteq DOMAIN rows /\ fetches[f].unread <= Most
AllPushed == \A p \in Pushes : Pushed(p)
AllSent == \A i \in 1..Len(stream.events) : Sent(stream.events[i])
AllAnswered == \A f \in Fetches : Answered(f)
Shown ==
    /\ DOMAIN bell.rows \subseteq seen /\ seen \subseteq DOMAIN rows
    /\ bell.unread \in 0..Most

ShownInv ==
    /\ Shape
    /\ done \subseteq Topics
    /\ job \in [pc : {"idle", "write"}, new : SUBSET Topics]
    /\ stream.open \/ stream.events = <<>>
    /\ AllPushed /\ AllSent /\ AllAnswered /\ Shown

LEMMA KeysAreFinite == IsFiniteSet(Keys)
  BY TopicsAreNumbered, FS_AddElement DEF Keys

LEMMA RowsAreFinite ==
  ASSUME rows \in Marks
  PROVE  /\ DOMAIN rows \subseteq Keys /\ IsFiniteSet(DOMAIN rows)
         /\ Most \in Nat /\ Most <= Cardinality(Keys) /\ Unread(rows) <= Most /\ Unread(rows) \in Nat
  <1>1. DOMAIN rows \subseteq Keys
    BY DEF Marks
  <1>2. IsFiniteSet(DOMAIN rows) /\ Most <= Cardinality(Keys)
    BY <1>1, KeysAreFinite, FS_Subset DEF Most
  <1>3. {k \in DOMAIN rows : ~rows[k]} \subseteq DOMAIN rows
    OBVIOUS
  <1>4. Unread(rows) <= Most
    BY <1>2, <1>3, FS_Subset DEF Unread, Most
  <1>5. Most \in Nat
    BY <1>2, FS_CardinalityType DEF Most
  <1> QED
    BY <1>1, <1>2, <1>4, <1>5, UnreadIsANumber

\* The table only grows.
LEMMA RowsGrow ==
  ASSUME rows \in Marks, rows' \in Marks, DOMAIN rows \subseteq DOMAIN rows'
  PROVE  Most \in Nat /\ Most' \in Nat /\ Most <= Most'
  <1>1. IsFiniteSet(DOMAIN rows')
    <2>1. DOMAIN rows' \subseteq Keys
      BY DEF Marks
    <2> QED
      BY <2>1, KeysAreFinite, FS_Subset
  <1>2. Cardinality(DOMAIN rows) <= Cardinality(DOMAIN rows')
    BY <1>1, FS_Subset
  <1>3. Cardinality(DOMAIN rows') \in Nat
    BY <1>1, FS_CardinalityType
  <1> QED
    BY <1>2, <1>3, RowsAreFinite DEF Most

Events == [new : SUBSET Keys, unread : Nat]

\* What is in flight and stays as it is still names rows of the table.
LEMMA SlotsStay ==
  ASSUME Shape, Shape', DOMAIN rows \subseteq DOMAIN rows'
  PROVE  /\ \A p \in Pushes : pushes'[p] = pushes[p] /\ Pushed(p) => Pushed(p)'
         /\ \A event \in Events : Sent(event) => Sent(event)'
         /\ \A f \in Fetches : fetches'[f] = fetches[f] /\ Answered(f) => Answered(f)'
         /\ Shown /\ UNCHANGED <<bell, seen>> => Shown'
  <1>1. Most \in Nat /\ Most' \in Nat /\ Most <= Most'
    BY RowsGrow DEF Shape
  <1>2. ASSUME NEW p \in Pushes, pushes'[p] = pushes[p], Pushed(p) PROVE Pushed(p)'
    <2>1. pushes[p].unread \in Nat
      BY DEF Shape, PushSlots
    <2> QED
      BY <1>1, <1>2, <2>1 DEF Pushed
  <1>3. ASSUME NEW event \in Events, Sent(event) PROVE Sent(event)'
    BY <1>1, <1>3 DEF Events, Sent
  <1>4. ASSUME NEW f \in Fetches, fetches'[f] = fetches[f], Answered(f) PROVE Answered(f)'
    <2>1. fetches[f].unread \in Nat
      BY DEF Shape, FetchSlots
    <2> QED
      BY <1>1, <1>4, <2>1 DEF Answered
  <1>5. ASSUME Shown, UNCHANGED <<bell, seen>> PROVE Shown'
    BY <1>1, <1>5 DEF Shown
  <1> QED
    BY <1>2, <1>3, <1>4, <1>5

LEMMA PartsStay ==
  ASSUME Shape, Shape', DOMAIN rows \subseteq DOMAIN rows'
  PROVE  /\ AllPushed /\ UNCHANGED pushes => AllPushed'
         /\ AllSent /\ UNCHANGED stream => AllSent'
         /\ AllAnswered /\ UNCHANGED fetches => AllAnswered'
         /\ Shown /\ UNCHANGED <<bell, seen>> => Shown'
  <1>1. ASSUME AllSent, UNCHANGED stream PROVE AllSent'
    <2> SUFFICES ASSUME NEW i \in 1..Len(stream.events) PROVE Sent(stream.events[i])'
      BY <1>1 DEF AllSent
    <2>0. stream.events \in Seq(Events)
      BY DEF Shape, Streams, Events
    <2>1. stream.events[i] \in Events
      BY <2>0
    <2>2. Sent(stream.events[i])
      BY <1>1 DEF AllSent
    <2>3. \A event \in Events : Sent(event) => Sent(event)'
      BY SlotsStay
    <2>4. stream'.events[i] = stream.events[i]
      BY <1>1
    <2> QED
      BY <2>1, <2>2, <2>3, <2>4 DEF Sent
  <1> QED
    BY <1>1, SlotsStay DEF AllPushed, AllAnswered

\* A new row is published by a free slot.
LEMMA CreateShows ==
  ASSUME Shape, Shape', AllPushed, NEW new \in SUBSET Keys, Create(new)
  PROVE  AllPushed' /\ DOMAIN rows \subseteq DOMAIN rows'
  <1> DEFINE p == Free(pushes)
             created == new \ DOMAIN rows
  <1>1. p \in Pushes /\ pushes \in [Pushes -> PushSlots]
    BY DEF Create, Free, Shape
  <1>2. pushes' = IF created = {} THEN pushes
                  ELSE [pushes EXCEPT ![p] = [NoPush EXCEPT !.pc = "count", !.new = created]]
    BY DEF Create
  <1>3. rows' = [k \in DOMAIN rows \cup created |-> k \in DOMAIN rows /\ rows[k]]
    BY DEF Create
  <1>4. DOMAIN rows' = DOMAIN rows \cup created
    BY <1>3
  <1> HIDE DEF p
  <1>5. ASSUME NEW q \in Pushes PROVE Pushed(q)'
    <2>1. CASE pushes'[q] = pushes[q]
      BY <1>4, <2>1, SlotsStay DEF AllPushed
    <2>2. CASE pushes'[q] # pushes[q]
      <3>1. pushes'[q] = [NoPush EXCEPT !.pc = "count", !.new = created]
        BY <1>1, <1>2, <2>2
      <3>2. pushes'[q].new = created /\ pushes'[q].unread = 0
        BY <3>1 DEF NoPush
      <3>3. Most' \in Nat
        BY <1>4, RowsGrow DEF Shape
      <3> QED
        BY <1>4, <3>2, <3>3 DEF Pushed
    <2> QED
      BY <2>1, <2>2
  <1> QED
    BY <1>4, <1>5 DEF AllPushed

LEMMA RefreshShows ==
  ASSUME Shape, Shape', AllAnswered, Refresh, UNCHANGED rows
  PROVE  AllAnswered'
  <1>1. fetches' = [fetches EXCEPT ![Free(fetches)] = Asked] /\ fetches \in [Fetches -> FetchSlots]
    BY DEF Refresh, Shape
  <1>2. DOMAIN Asked.rows = {} /\ Asked.unread = 0
    BY DEF Asked, NoFetch
  <1>3. Most' \in Nat
    BY RowsGrow DEF Shape
  <1> SUFFICES ASSUME NEW f \in Fetches PROVE Answered(f)'
    BY DEF AllAnswered
  <1>4. CASE fetches'[f] = fetches[f]
    BY <1>4, SlotsStay DEF AllAnswered
  <1>5. CASE fetches'[f] = Asked
    BY <1>2, <1>3, <1>5 DEF Answered
  <1> HIDE DEF Free
  <1> QED
    BY <1>1, <1>4, <1>5

LEMMA PublishingShows ==
  ASSUME ShownInv, Shape', NEW p \in Pushes, Publishing(p)
  PROVE  ShownInv'
  <1> USE DEF ShownInv
  <1>0. pushes \in [Pushes -> PushSlots] /\ rows' = rows /\ UNCHANGED <<done, job, fetches, bell, seen>>
    BY DEF Shape, Publishing, CountUnread, Push
  <1>1. AllAnswered' /\ Shown'
    BY <1>0, PartsStay
  <1>2. CASE CountUnread(p)
    <2>1. pushes' = [pushes EXCEPT ![p].pc = "push", ![p].unread = Unread(rows)] /\ stream' = stream
      BY <1>2 DEF CountUnread
    <2>2. Unread(rows) <= Most /\ Most' = Most
      BY <1>0, RowsAreFinite DEF Shape, Most
    <2>3. ASSUME NEW q \in Pushes PROVE Pushed(q)'
      <3>1. CASE q # p
        BY <1>0, <2>1, <3>1, SlotsStay DEF AllPushed
      <3>2. CASE q = p
        <4>1. pushes'[q].new = pushes[p].new /\ pushes'[q].unread = Unread(rows)
          BY <1>0, <2>1, <3>2 DEF PushSlots
        <4> QED
          BY <1>0, <2>2, <3>2, <4>1 DEF AllPushed, Pushed
      <3> QED
        BY <3>1, <3>2
    <2> QED
      BY <1>0, <1>1, <2>1, <2>3, PartsStay DEF AllPushed
  <1>3. CASE Push(p)
    <2> DEFINE q == stream.events
    <2>1. PICK k \in pushes[p].new :
            /\ stream' = IF stream.open
                         THEN [stream EXCEPT !.events = Append(q, [new |-> {k}, unread |-> pushes[p].unread])]
                         ELSE stream
            /\ pushes' = [pushes EXCEPT ![p] =
                            IF pushes[p].new = {k} THEN NoPush
                            ELSE [pushes[p] EXCEPT !.new = pushes[p].new \ {k}]]
      BY <1>3 DEF Push
    <2>2. pushes[p] \in PushSlots /\ Most \in Nat /\ Most' = Most
      BY <1>0, RowsAreFinite DEF Shape, Most
    <2>3. ASSUME NEW x \in Pushes PROVE Pushed(x)'
      <3>1. CASE x # p
        BY <1>0, <2>1, <3>1, SlotsStay DEF AllPushed
      <3>2. CASE x = p
        <4>1. pushes'[x].new \subseteq pushes[p].new /\ pushes'[x].unread \in {0, pushes[p].unread}
          BY <1>0, <2>1, <2>2, <3>2 DEF PushSlots, NoPush
        <4> QED
          BY <1>0, <2>2, <3>2, <4>1 DEF AllPushed, Pushed
      <3> QED
        BY <3>1, <3>2
    <2>4. AllSent'
      <3>1. CASE ~stream.open
        BY <1>0, <2>1, <3>1, PartsStay
      <3>2. CASE stream.open
        <4> DEFINE e == [new |-> {k}, unread |-> pushes[p].unread]
        <4>1. q \in Seq(Events) /\ stream'.events = Append(q, e)
          BY <2>1, <3>2 DEF Shape, Streams, Events
        <4>2. Sent(e)
          <5>1. Pushed(p)
            BY DEF AllPushed
          <5> QED
            BY <5>1 DEF Pushed, Sent
        <4> HIDE DEF e
        <4>4. ASSUME NEW i \in 1..Len(stream'.events) PROVE Sent(stream'.events[i])
          <5>1. CASE i = Len(q) + 1
            BY <4>1, <4>2, <5>1
          <5>2. CASE i # Len(q) + 1
            <6>1. i \in 1..Len(q) /\ stream'.events[i] = q[i]
              BY <4>1, <5>2
            <6> QED
              BY <6>1 DEF AllSent
          <5> QED
            BY <5>1, <5>2
        <4>5. ASSUME NEW i \in 1..Len(stream'.events) PROVE Sent(stream.events[i])'
          <5> DEFINE event == stream'.events[i]
          <5>1. Sent(event)
            BY <4>4
          <5> QED
            BY <1>0, <5>1 DEF Sent, Most
        <4> QED
          BY <4>5 DEF AllSent
      <3> QED
        BY <3>1, <3>2
    <2>5. stream'.open \/ stream'.events = <<>>
      BY <2>1 DEF Shape, Streams
    <2> QED
      BY <1>0, <1>1, <2>3, <2>4, <2>5 DEF AllPushed
  <1> QED
    BY <1>2, <1>3 DEF Publishing

LEMMA ReceiveShows ==
  ASSUME ShownInv, Shape', Receive
  PROVE  ShownInv'
  <1> USE DEF ShownInv
  <1> DEFINE q == stream.events
             event == Head(q)
  <1>0. UNCHANGED <<rows, done, job, pushes>> /\ stream' = [stream EXCEPT !.events = Tail(q)]
    BY DEF Receive
  <1>1. q \in Seq(Events) /\ q # <<>> /\ stream'.events = Tail(q) /\ stream'.open = stream.open
    BY <1>0 DEF Receive, Shape, Streams, Events
  <1>2. Sent(event)
    BY <1>1 DEF AllSent
  <1>3. AllSent'
    <2> SUFFICES ASSUME NEW i \in 1..Len(stream'.events) PROVE Sent(stream.events[i])'
      BY DEF AllSent
    <2>1. i + 1 \in 1..Len(q) /\ stream'.events[i] = q[i + 1]
      BY <1>1
    <2>2. Sent(q[i + 1])
      BY <2>1 DEF AllSent
    <2> QED
      BY <1>0, <2>1, <2>2 DEF Sent, Most
  <1>4. AllPushed'
    BY <1>0, PartsStay
  <1>5. CASE OnOpen /\ UNCHANGED <<bell, seen>>
    BY <1>0, <1>1, <1>3, <1>4, <1>5, RefreshShows, PartsStay DEF OnOpen
  <1>6. CASE /\ seen' = seen \cup event.new
             /\ bell' = [rows |-> IF event.new \subseteq seen THEN bell.rows
                                  ELSE [k \in DOMAIN bell.rows \cup event.new |->
                                          k \notin event.new /\ bell.rows[k]],
                         unread |-> event.unread]
             /\ UNCHANGED fetches
    <2>1. AllAnswered'
      BY <1>0, <1>6, PartsStay
    <2>2. DOMAIN bell'.rows \subseteq DOMAIN bell.rows \cup event.new /\ bell'.unread = event.unread
      BY <1>6
    <2>3. event.unread \in Nat
      <3>1. event \in Events
        BY <1>1
      <3> QED
        BY <3>1 DEF Events
    <2>4. Most' = Most /\ Most \in Nat
      BY <1>0, RowsAreFinite DEF Shape, Most
    <2>5. Shown'
      BY <1>0, <1>2, <1>6, <2>2, <2>3, <2>4 DEF Shown, Sent
    <2> QED
      BY <1>0, <1>1, <1>3, <1>4, <2>1, <2>5
  <1> QED
    BY <1>5, <1>6 DEF Receive, Count

LEMMA FetchingShows ==
  ASSUME ShownInv, Shape', NEW f \in Fetches, Fetching(f)
  PROVE  ShownInv'
  <1> USE DEF ShownInv
  <1>0. /\ fetches \in [Fetches -> FetchSlots] /\ fetches[f] \in FetchSlots
        /\ UNCHANGED <<rows, done, job, pushes, stream>>
    BY DEF Shape, Fetching, Read, Apply
  <1>1. AllPushed' /\ AllSent'
    BY <1>0, PartsStay
  <1>2. Most \in Nat /\ Most' = Most
    BY <1>0, RowsAreFinite DEF Shape, Most
  <1>3. Answered(f)
    BY DEF AllAnswered
  <1>4. CASE Read(f)
    <2>1. Unread(rows) <= Most
      BY RowsAreFinite DEF Shape
    <2>2. /\ \A g \in Fetches \ {f} : fetches'[g] = fetches[g]
          /\ fetches'[f].rows \in {rows, fetches[f].rows}
          /\ fetches'[f].unread \in {Unread(rows), fetches[f].unread}
      BY <1>0, <1>4 DEF Read, FetchSlots
    <2>3. Answered(f)'
      BY <1>0, <1>2, <1>3, <2>1, <2>2 DEF Answered
    <2>4. AllAnswered'
      BY <1>0, <2>2, <2>3, SlotsStay DEF AllAnswered
    <2>5. Shown'
      BY <1>0, <1>4, PartsStay DEF Read
    <2> QED
      BY <1>0, <1>1, <2>4, <2>5
  <1>5. CASE Apply(f)
    <2>1. /\ fetches' = [fetches EXCEPT ![f] = NoFetch]
          /\ bell' = [rows |-> fetches[f].rows, unread |-> fetches[f].unread]
          /\ seen' = seen \cup DOMAIN fetches[f].rows
      BY <1>5 DEF Apply, Fetched, Met
    <2>2. Answered(f)'
      BY <1>0, <1>2, <2>1 DEF Answered, NoFetch
    <2>3. AllAnswered'
      BY <1>0, <2>1, <2>2, SlotsStay DEF AllAnswered
    <2>4. fetches[f].unread \in Nat
      BY <1>0 DEF FetchSlots
    <2>5. Shown'
      BY <1>0, <1>2, <1>3, <2>1, <2>4 DEF Shown, Answered
    <2> QED
      BY <1>0, <1>1, <2>3, <2>5
  <1> QED
    BY <1>4, <1>5 DEF Fetching

LEMMA ShownStep == ShownInv /\ Shape' /\ [Next]_vars => ShownInv'
  <1> SUFFICES ASSUME ShownInv, Shape', [Next]_vars PROVE ShownInv'
    OBVIOUS
  <1> USE DEF ShownInv
  <1>1. CASE Announce
    <2>1. Create({Event}) /\ UNCHANGED <<done, job, stream, fetches, bell, seen>> /\ {Event} \in SUBSET Keys
      BY <1>1, Constants DEF Announce
    <2> QED
      BY <2>1, CreateShows, PartsStay
  <1>2. CASE WriteReminders
    <2>1. /\ Create(job.new) /\ job' = NoJob /\ UNCHANGED <<done, stream, fetches, bell, seen>>
          /\ job.new \in SUBSET Keys
      BY <1>2 DEF WriteReminders, Shape
    <2> QED
      BY <2>1, CreateShows, PartsStay DEF NoJob
  <1>3. CASE RunDaily
    <2>1. /\ job' \in [pc : {"idle", "write"}, new : SUBSET Topics]
          /\ UNCHANGED <<rows, done, pushes, stream, fetches, bell, seen>>
      BY <1>3 DEF RunDaily
    <2> QED
      BY <2>1, PartsStay
  <1>4. ASSUME NEW p \in Pushes, PushFails(p) PROVE ShownInv'
    <2>1. /\ pushes' = [pushes EXCEPT ![p] = NoPush] /\ pushes \in [Pushes -> PushSlots]
          /\ UNCHANGED <<rows, done, job, stream, fetches, bell, seen>>
      BY <1>4 DEF PushFails, Shape
    <2>2. Most' \in Nat
      BY <2>1, RowsAreFinite DEF Shape, Most
    <2>3. Pushed(p)'
      BY <2>1, <2>2 DEF Pushed, NoPush
    <2>4. AllPushed'
      BY <2>1, <2>3, SlotsStay DEF AllPushed
    <2> QED
      BY <2>1, <2>4, PartsStay
  <1>5. ASSUME NEW f \in Fetches, FetchFails(f) PROVE ShownInv'
    <2>1. /\ fetches' = [fetches EXCEPT ![f] = NoFetch] /\ fetches \in [Fetches -> FetchSlots]
          /\ UNCHANGED <<rows, done, job, stream, pushes, bell, seen>>
      BY <1>5 DEF FetchFails, Shape
    <2>2. Most' \in Nat
      BY <2>1, RowsAreFinite DEF Shape, Most
    <2>3. Answered(f)'
      BY <2>1, <2>2 DEF Answered, NoFetch
    <2>4. AllAnswered'
      BY <2>1, <2>3, SlotsStay DEF AllAnswered
    <2> QED
      BY <2>1, <2>4, PartsStay
  <1>6. CASE Connect
    <2>1. /\ stream' = [open |-> TRUE, events |-> <<OpenEvent>>]
          /\ UNCHANGED <<rows, done, job, pushes, fetches, bell, seen>>
      BY <1>6 DEF Connect
    <2>2. Sent(OpenEvent)'
      <3>1. Most' \in Nat
        BY <2>1, RowsAreFinite DEF Shape, Most
      <3> QED
        BY <3>1 DEF Sent, OpenEvent
    <2>3. AllSent'
      <3>1. Len(stream'.events) = 1 /\ stream'.events[1] = OpenEvent
        BY <2>1
      <3> QED
        BY <2>2, <3>1 DEF AllSent, Sent
    <2> QED
      BY <2>1, <2>3, PartsStay
  <1>7. CASE Disconnect
    <2>1. stream' = Closed /\ UNCHANGED <<rows, done, job, pushes, fetches, bell, seen>>
      BY <1>7 DEF Disconnect
    <2>2. AllSent' /\ stream'.events = <<>>
      BY <2>1 DEF AllSent, Closed
    <2> QED
      BY <2>1, <2>2, PartsStay
  <1>8. CASE Crash
    <2>1. /\ stream' = Closed /\ pushes' = [p \in Pushes |-> NoPush] /\ job' = NoJob
          /\ fetches' = [f \in Fetches |-> IF fetches[f].reads # {} THEN NoFetch ELSE fetches[f]]
          /\ UNCHANGED <<rows, done, bell, seen>>
      BY <1>8 DEF Crash
    <2>2. AllSent' /\ stream'.events = <<>>
      BY <2>1 DEF AllSent, Closed
    <2>3. Most' \in Nat
      BY <2>1, RowsAreFinite DEF Shape, Most
    <2>4. AllPushed'
      BY <2>1, <2>3 DEF AllPushed, Pushed, NoPush
    <2>5. ASSUME NEW f \in Fetches PROVE Answered(f)'
      <3>1. CASE fetches'[f] = fetches[f]
        BY <2>1, <3>1, SlotsStay DEF AllAnswered
      <3>2. CASE fetches'[f] = NoFetch
        BY <2>3, <3>2 DEF Answered, NoFetch
      <3> QED
        BY <2>1, <3>1, <3>2
    <2> QED
      BY <2>1, <2>2, <2>4, <2>5, PartsStay DEF NoJob, AllAnswered
  <1>9. CASE Focus
    <2>1. Refresh /\ UNCHANGED <<rows, done, job, pushes, stream, bell, seen>>
      BY <1>9 DEF Focus
    <2> QED
      BY <2>1, RefreshShows, PartsStay
  <1>10. CASE MarkWrite
    <2>1. /\ rows' = [k \in DOMAIN rows |-> rows[k] \/ k \in mark.keys]
          /\ UNCHANGED <<done, job, pushes, stream, fetches, bell, seen>>
      BY <1>10 DEF MarkWrite
    <2>2. DOMAIN rows' = DOMAIN rows
      BY <2>1
    <2> QED
      BY <2>1, <2>2, PartsStay
  <1>11. CASE MarkDone
    <2>1. /\ UNCHANGED <<rows, done, job, pushes, stream, fetches, seen>>
          /\ bell' = [rows |-> [k \in DOMAIN bell.rows |-> bell.rows[k] \/ k \in mark.keys],
                      unread |-> IF mark.keys = Keys \/ bell.unread = 0 THEN 0 ELSE bell.unread - 1]
      BY <1>11 DEF MarkDone
    <2>2. Most \in Nat /\ Most' = Most
      BY <2>1, RowsAreFinite DEF Shape, Most
    <2>3. DOMAIN bell'.rows = DOMAIN bell.rows /\ bell'.unread \in 0..Most
      BY <2>1, <2>2 DEF Shown
    <2>4. Shown'
      BY <2>1, <2>2, <2>3 DEF Shown
    <2> QED
      BY <2>1, <2>4, PartsStay
  <1>12. CASE UNCHANGED vars \/ Mark \/ \E t \in Topics : Complete(t)
    <2>1. UNCHANGED <<rows, job, pushes, stream, fetches, bell, seen>> /\ done' \subseteq Topics
      BY <1>12 DEF vars, Mark, Complete
    <2> QED
      BY <2>1, PartsStay
  <1> QED
    BY <1>1, <1>2, <1>3, <1>4, <1>5, <1>6, <1>7, <1>8, <1>9, <1>10, <1>11, <1>12,
       PublishingShows, ReceiveShows, FetchingShows DEF Next

LEMMA InitShown == Init => ShownInv
  <1> SUFFICES ASSUME Init PROVE ShownInv
    OBVIOUS
  <1> DEFINE none == [f \in Fetches |-> NoFetch]
  <1>1. Shape
    BY InitMiss DEF MissInv
  <1>2. Most \in Nat
    BY <1>1, RowsAreFinite DEF Shape
  <1>3. AllAnswered
    <2>1. \A f \in Fetches : fetches[f] \in {NoFetch, Asked}
      <3>1. fetches = [none EXCEPT ![Free(none)] = Asked]
        BY DEF Init
      <3> HIDE DEF Free
      <3> QED
        BY <3>1
    <2>2. /\ DOMAIN Asked.rows = {} /\ Asked.unread = 0
          /\ DOMAIN NoFetch.rows = {} /\ NoFetch.unread = 0
      BY DEF Asked, NoFetch
    <2>3. \A f \in Fetches : DOMAIN fetches[f].rows = {} /\ fetches[f].unread = 0
      BY <2>1, <2>2
    <2> QED
      BY <1>2, <2>3 DEF AllAnswered, Answered
  <1>4. AllPushed /\ AllSent /\ Shown /\ stream.events = <<>>
    BY <1>2 DEF Init, AllPushed, Pushed, AllSent, Shown, Closed, NoPush
  <1> QED
    BY <1>1, <1>3, <1>4 DEF Init, ShownInv, NoJob

\* What the bell shows, has met and counts is in the table, with no more unread rows
\* than there are, however old the answer or the event that it shows.
THEOREM NothingIsMadeUp == Spec => []TypeOK
  <1>1. Init => ShownInv
    BY InitShown
  <1>2. MissInv => Shape
    BY DEF MissInv
  <1>3. ShownInv => TypeOK
    <2> SUFFICES ASSUME ShownInv PROVE TypeOK
      OBVIOUS
    <2>1. DOMAIN rows \subseteq Keys /\ Most \in Nat /\ Cardinality(Keys) \in Nat /\ Most <= Cardinality(Keys)
      BY RowsAreFinite, KeysAreFinite, FS_CardinalityType DEF ShownInv, Shape
    <2>2. \A p \in Pushes : pushes[p] \in [pc : {"idle", "count", "push"}, new : SUBSET Keys,
                                           unread : 0..Cardinality(Keys)]
      <3> SUFFICES ASSUME NEW p \in Pushes
                   PROVE  pushes[p] \in [pc : {"idle", "count", "push"}, new : SUBSET Keys,
                                         unread : 0..Cardinality(Keys)]
        OBVIOUS
      <3>1. pushes[p] \in PushSlots /\ Pushed(p)
        BY DEF ShownInv, Shape, AllPushed
      <3>2. pushes[p].unread \in 0..Cardinality(Keys)
        BY <2>1, <3>1 DEF Pushed, PushSlots
      <3> QED
        BY <3>1, <3>2 DEF PushSlots
    <2>3. DOMAIN pushes = Pushes /\ pushes = [p \in Pushes |-> pushes[p]]
      BY DEF ShownInv, Shape
    <2>4. pushes \in [Pushes -> [pc : {"idle", "count", "push"}, new : SUBSET Keys,
                                 unread : 0..Cardinality(Keys)]]
      BY <2>2, <2>3
    <2>5. \A f \in Fetches : fetches[f].reads \subseteq {"list", "count"}
      BY DEF ShownInv, Shape, FetchSlots
    <2>6. stream.open \in BOOLEAN /\ (stream.open \/ stream.events = <<>>)
      BY DEF ShownInv, Shape, Streams
    <2>7. Shown
      BY DEF ShownInv
    <2> QED
      BY <2>1, <2>4, <2>5, <2>6, <2>7 DEF ShownInv, TypeOK, Shown, Most
  <1> QED
    BY <1>1, <1>2, <1>3, InitMiss, MissStep, ShownStep, PTL DEF Spec

-----------------------------------------------------------------------------
(* A bell that is right stays right                                         *)

\* What of the bell, the events, the fetches and the mark is right, one by one.
Counted(n) == n = Unread(rows)
PushIsRight(p) == pushes[p].pc = "push" => Counted(pushes[p].unread)
EventIsRight(event) == event # OpenEvent => Counted(event.unread)
FetchIsRight(f) ==
    fetches[f].pc = "asked" =>
        /\ "list" \in fetches[f].reads \/ fetches[f].rows = rows
        /\ "count" \in fetches[f].reads \/ Counted(fetches[f].unread)
MarkIsDue ==
    /\ mark.pc # "answered"
    /\ mark.pc = "sent" => \E k \in DOMAIN rows : ~rows[k] /\ k \in mark.keys

LEMMA PartsOfRight ==
  UpToDate <=> /\ bell = Truth
               /\ \A p \in Pushes : PushIsRight(p)
               /\ \A i \in 1..Len(stream.events) : EventIsRight(stream.events[i])
               /\ \A f \in Fetches : FetchIsRight(f)
               /\ MarkIsDue
  BY DEF UpToDate, PushIsRight, EventIsRight, FetchIsRight, MarkIsDue, Counted

LEMMA RightFrame ==
  ASSUME UNCHANGED rows
  PROVE  /\ Truth' = Truth /\ Unread(rows)' = Unread(rows)
         /\ \A p \in Pushes : pushes'[p] = pushes[p] /\ PushIsRight(p) => PushIsRight(p)'
         /\ \A f \in Fetches : fetches'[f] = fetches[f] /\ FetchIsRight(f) => FetchIsRight(f)'
         /\ UNCHANGED mark /\ MarkIsDue => MarkIsDue'
  BY DEF Truth, Unread, PushIsRight, FetchIsRight, MarkIsDue, Counted

\* A count of unread rows is positive only if there is one.
LEMMA SomeAreUnread ==
  ASSUME rows \in Marks, Unread(rows) # 0
  PROVE  \E k \in DOMAIN rows : ~rows[k]
  <1> SUFFICES ASSUME \A k \in DOMAIN rows : rows[k] PROVE FALSE
    OBVIOUS
  <1>1. {k \in DOMAIN rows : ~rows[k]} = {}
    OBVIOUS
  <1> QED
    BY <1>1, FS_EmptySet DEF Unread

LEMMA NewFetchIsRight ==
  ASSUME Shape, Refresh, UNCHANGED rows, \A f \in Fetches : FetchIsRight(f)
  PROVE  \A f \in Fetches : FetchIsRight(f)'
  <1>1. fetches' = [fetches EXCEPT ![Free(fetches)] = Asked] /\ fetches \in [Fetches -> FetchSlots]
    BY DEF Refresh, Shape
  <1>2. "list" \in Asked.reads /\ "count" \in Asked.reads
    BY DEF Asked, NoFetch
  <1> HIDE DEF Free
  <1> SUFFICES ASSUME NEW f \in Fetches PROVE FetchIsRight(f)'
    OBVIOUS
  <1>3. CASE fetches'[f] = fetches[f]
    BY <1>3, RightFrame
  <1>4. CASE fetches'[f] = Asked
    BY <1>2, <1>4 DEF FetchIsRight
  <1> QED
    BY <1>1, <1>3, <1>4

\* Rows that exist are not created again, so nothing is published.
LEMMA NothingIsCreated ==
  ASSUME NEW new, Create(new), UNCHANGED rows
  PROVE  UNCHANGED pushes
  <1>1. DOMAIN rows' = DOMAIN rows \cup (new \ DOMAIN rows)
    BY DEF Create
  <1>2. new \ DOMAIN rows = {}
    BY <1>1
  <1> QED
    BY <1>2 DEF Create

LEMMA PublishingStaysRight ==
  ASSUME Shape, UpToDate, UNCHANGED rows, NEW p \in Pushes, Publishing(p)
  PROVE  UpToDate'
  <1> USE PartsOfRight
  <1>0. /\ pushes \in [Pushes -> PushSlots] /\ pushes[p] \in PushSlots
        /\ UNCHANGED <<rows, fetches, mark, bell>>
    BY DEF Shape, Publishing, CountUnread, Push
  <1>1. /\ bell' = Truth' /\ MarkIsDue'
        /\ \A f \in Fetches : FetchIsRight(f)'
    BY <1>0, RightFrame
  <1>2. CASE CountUnread(p)
    <2>1. /\ pushes' = [pushes EXCEPT ![p].pc = "push", ![p].unread = Unread(rows)]
          /\ UNCHANGED stream
      BY <1>2 DEF CountUnread
    <2>2. ASSUME NEW q \in Pushes PROVE PushIsRight(q)'
      <3>1. CASE q # p
        BY <1>0, <2>1, <3>1, RightFrame
      <3>2. CASE q = p
        BY <1>0, <2>1, <3>2, RightFrame DEF PushSlots, PushIsRight, Counted
      <3> QED
        BY <3>1, <3>2
    <2>3. ASSUME NEW i \in 1..Len(stream'.events) PROVE EventIsRight(stream.events[i])'
      BY <2>1, RightFrame DEF EventIsRight, Counted
    <2> QED
      BY <1>1, <2>2, <2>3 DEF UpToDate, PushIsRight, EventIsRight, FetchIsRight, MarkIsDue, Counted
  <1>3. CASE Push(p)
    <2> DEFINE q == stream.events
    <2>1. PICK k \in pushes[p].new :
            /\ stream' = IF stream.open
                         THEN [stream EXCEPT !.events = Append(q, [new |-> {k}, unread |-> pushes[p].unread])]
                         ELSE stream
            /\ pushes' = [pushes EXCEPT ![p] =
                            IF pushes[p].new = {k} THEN NoPush
                            ELSE [pushes[p] EXCEPT !.new = pushes[p].new \ {k}]]
            /\ pushes[p].pc = "push"
      BY <1>3 DEF Push
    <2>2. Counted(pushes[p].unread)
      BY <2>1 DEF PushIsRight
    <2>3. ASSUME NEW x \in Pushes PROVE PushIsRight(x)'
      <3>1. CASE x # p
        BY <1>0, <2>1, <3>1, RightFrame
      <3>2. CASE x = p
        <4>1. pushes'[p].pc = "idle" \/ pushes'[p].unread = pushes[p].unread
          BY <1>0, <2>1 DEF PushSlots, NoPush
        <4> QED
          BY <2>2, <3>2, <4>1, RightFrame DEF PushIsRight, Counted
      <3> QED
        BY <3>1, <3>2
    <2> DEFINE e == [new |-> {k}, unread |-> pushes[p].unread]
    <2>4. ASSUME NEW i \in 1..Len(stream'.events) PROVE EventIsRight(stream.events[i])'
      <3>1. stream'.events[i] = e \/ \E j \in 1..Len(q) : stream'.events[i] = q[j]
        <4>1. CASE ~stream.open
          BY <2>1, <4>1
        <4>2. CASE stream.open
          <5>1. q \in Seq(Events) /\ stream'.events = Append(q, e)
            BY <2>1, <4>2 DEF Shape, Streams, Events
          <5> HIDE DEF e, q
          <5>2. CASE i = Len(q) + 1
            BY <5>1, <5>2
          <5>3. CASE i # Len(q) + 1
            <6>1. i \in 1..Len(q) /\ stream'.events[i] = q[i]
              BY <5>1, <5>3
            <6> QED
              BY <6>1
          <5> QED
            BY <5>2, <5>3
        <4> QED
          BY <4>1, <4>2
      <3>2. EventIsRight(e)
        BY <2>2 DEF EventIsRight
      <3>3. EventIsRight(stream'.events[i])
        BY <3>1, <3>2
      <3> QED
        BY <3>3, RightFrame DEF EventIsRight, Counted
    <2> QED
      BY <1>1, <2>3, <2>4 DEF UpToDate, PushIsRight, EventIsRight, FetchIsRight, MarkIsDue, Counted
  <1> QED
    BY <1>2, <1>3 DEF Publishing

LEMMA ReceiveStaysRight ==
  ASSUME ShownInv, UpToDate, UNCHANGED rows, Receive
  PROVE  UpToDate'
  <1> USE PartsOfRight
  <1> DEFINE q == stream.events
             event == Head(q)
  <1>0. UNCHANGED <<rows, pushes, mark>> /\ stream' = [stream EXCEPT !.events = Tail(q)]
    BY DEF Receive
  <1>1. q \in Seq(Events) /\ q # <<>> /\ stream'.events = Tail(q)
    BY <1>0 DEF Receive, ShownInv, Shape, Streams, Events
  <1>2. Sent(event) /\ EventIsRight(event)
    <2>1. 1 \in 1..Len(q) /\ event = q[1]
      BY <1>1
    <2> QED
      BY <2>1 DEF ShownInv, AllSent
  <1>3. ASSUME NEW i \in 1..Len(stream'.events) PROVE EventIsRight(stream.events[i])'
    <2>1. i + 1 \in 1..Len(q) /\ stream'.events[i] = q[i + 1]
      BY <1>1
    <2>2. EventIsRight(q[i + 1])
      BY <2>1
    <2> QED
      BY <1>0, <2>1, <2>2, RightFrame DEF EventIsRight, Counted
  <1>4. MarkIsDue' /\ \A p \in Pushes : PushIsRight(p)'
    BY <1>0, RightFrame
  <1>5. CASE OnOpen /\ UNCHANGED bell
    <2>1. \A f \in Fetches : FetchIsRight(f)'
      BY <1>0, <1>5, NewFetchIsRight DEF OnOpen, ShownInv
    <2>2. bell' = Truth'
      BY <1>0, <1>5, RightFrame
    <2> QED
      BY <1>3, <1>4, <2>1, <2>2 DEF UpToDate, PushIsRight, EventIsRight, FetchIsRight, MarkIsDue, Counted
  <1>6. CASE /\ event # OpenEvent
             /\ bell' = [rows |-> IF event.new \subseteq seen THEN bell.rows
                                  ELSE [k \in DOMAIN bell.rows \cup event.new |->
                                          k \notin event.new /\ bell.rows[k]],
                         unread |-> event.unread]
             /\ UNCHANGED fetches
    <2>1. event.new \subseteq seen
      <3>1. DOMAIN bell.rows = DOMAIN rows
        BY DEF Truth
      <3> QED
        BY <1>2, <3>1 DEF Sent, ShownInv, Shown
    <2>2. bell' = Truth
      BY <1>2, <1>6, <2>1 DEF EventIsRight, Counted, Truth
    <2>3. bell' = Truth' /\ \A f \in Fetches : FetchIsRight(f)'
      BY <1>0, <1>6, <2>2, RightFrame
    <2> QED
      BY <1>3, <1>4, <2>3 DEF UpToDate, PushIsRight, EventIsRight, FetchIsRight, MarkIsDue, Counted
  <1> QED
    BY <1>5, <1>6 DEF Receive, Count

LEMMA FetchingStaysRight ==
  ASSUME Shape, UpToDate, UNCHANGED rows, NEW f \in Fetches, Fetching(f)
  PROVE  UpToDate'
  <1> USE PartsOfRight
  <1>0. /\ fetches \in [Fetches -> FetchSlots] /\ fetches[f] \in FetchSlots
        /\ UNCHANGED <<rows, pushes, stream, mark>>
    BY DEF Shape, Fetching, Read, Apply
  <1>1. /\ MarkIsDue' /\ \A p \in Pushes : PushIsRight(p)'
        /\ \A i \in 1..Len(stream'.events) : EventIsRight(stream.events[i])'
    BY <1>0, RightFrame DEF EventIsRight, Counted
  <1>2. /\ \A g \in Fetches \ {f} : fetches'[g] = fetches[g]
        /\ FetchIsRight(f)' /\ bell' = Truth'
    <2>1. CASE Read(f)
      <3>1. /\ fetches'[f].pc = fetches[f].pc /\ bell' = bell
            /\ \/ /\ fetches'[f].rows = rows
                  /\ fetches'[f].unread = fetches[f].unread
                  /\ "count" \in fetches[f].reads => "count" \in fetches'[f].reads
               \/ /\ fetches'[f].rows = fetches[f].rows
                  /\ fetches'[f].unread = Unread(rows)
                  /\ "list" \in fetches[f].reads => "list" \in fetches'[f].reads
        BY <1>0, <2>1 DEF Read, FetchSlots
      <3>2. FetchIsRight(f)'
        BY <1>0, <3>1, RightFrame DEF FetchIsRight, Counted
      <3> QED
        BY <1>0, <2>1, <3>1, <3>2, RightFrame DEF Read
    <2>2. CASE Apply(f)
      <3>1. /\ fetches' = [fetches EXCEPT ![f] = NoFetch]
            /\ bell' = [rows |-> fetches[f].rows, unread |-> fetches[f].unread]
            /\ fetches[f].pc = "asked" /\ fetches[f].reads = {}
        BY <2>2 DEF Apply, Fetched
      <3>2. fetches[f].rows = rows /\ fetches[f].unread = Unread(rows)
        BY <3>1 DEF FetchIsRight, Counted
      <3>3. bell' = Truth'
        BY <3>1, <3>2, RightFrame DEF Truth
      <3>4. FetchIsRight(f)'
        BY <1>0, <3>1 DEF FetchIsRight, NoFetch
      <3> QED
        BY <1>0, <3>1, <3>3, <3>4
    <2> QED
      BY <2>1, <2>2 DEF Fetching
  <1>3. ASSUME NEW g \in Fetches PROVE FetchIsRight(g)'
    BY <1>2, RightFrame
  <1> QED
    BY <1>1, <1>2, <1>3 DEF UpToDate, PushIsRight, EventIsRight, FetchIsRight, MarkIsDue, Counted

\* What is marked is unread in the bell, hence in the table.
LEMMA MarkStaysRight ==
  ASSUME Shape, UpToDate, UNCHANGED rows, Mark
  PROVE  MarkIsDue'
  <1> USE PartsOfRight
  <1>1. bell.rows = rows /\ bell.unread = Unread(rows)
    BY DEF Truth
  <1>2. CASE \E k \in DOMAIN bell.rows : ~bell.rows[k] /\ mark' = [pc |-> "sent", keys |-> {k}]
    BY <1>1, <1>2 DEF MarkIsDue
  <1>3. CASE bell.unread > 0 /\ mark' = [pc |-> "sent", keys |-> Keys]
    <2>1. Unread(rows) # 0
      BY <1>1, <1>3
    <2>2. DOMAIN rows \subseteq Keys
      BY DEF Shape, Marks
    <2> QED
      BY <1>3, <2>1, <2>2, SomeAreUnread DEF MarkIsDue, Shape
  <1> QED
    BY <1>2, <1>3 DEF Mark

LEMMA RightStep == ASSUME ShownInv, UpToDate, UNCHANGED rows, Next PROVE UpToDate'
  <1> USE PartsOfRight
  <1>0. /\ Shape
        /\ pushes \in [Pushes -> PushSlots] /\ fetches \in [Fetches -> FetchSlots]
    BY DEF ShownInv, Shape
  <1>1. \A i \in 1..Len(stream.events) : EventIsRight(stream.events[i]) => EventIsRight(stream.events[i])
    OBVIOUS
  <1> DEFINE Bells == bell' = Truth'
             Streaming == \A i \in 1..Len(stream'.events) : EventIsRight(stream.events[i])'
             Pushing == \A p \in Pushes : PushIsRight(p)'
             Asking == \A f \in Fetches : FetchIsRight(f)'
  <1>2. Bells /\ Streaming /\ Pushing /\ Asking /\ MarkIsDue' => UpToDate'
    BY DEF UpToDate, PushIsRight, EventIsRight, FetchIsRight, MarkIsDue, Counted
  <1>3. /\ UNCHANGED bell => Bells
        /\ UNCHANGED stream => Streaming
        /\ UNCHANGED pushes => Pushing
        /\ UNCHANGED fetches => Asking
        /\ UNCHANGED mark => MarkIsDue'
    BY RightFrame DEF EventIsRight, Counted
  <1> HIDE DEF Bells, Streaming, Pushing, Asking
  <1>4. ASSUME Announce \/ WriteReminders PROVE UpToDate'
    <2>1. UNCHANGED <<stream, fetches, mark, bell>> /\ \E new : Create(new)
      BY <1>4 DEF Announce, WriteReminders
    <2> QED
      BY <1>2, <1>3, <2>1, NothingIsCreated
  <1>5. ASSUME RunDaily \/ \E t \in Topics : Complete(t) PROVE UpToDate'
    BY <1>2, <1>3, <1>5 DEF RunDaily, Complete
  <1>6. ASSUME NEW p \in Pushes, PushFails(p) PROVE UpToDate'
    <2>1. pushes' = [pushes EXCEPT ![p] = NoPush] /\ UNCHANGED <<stream, fetches, mark, bell>>
      BY <1>6 DEF PushFails
    <2>2. Pushing
      <3> SUFFICES ASSUME NEW q \in Pushes PROVE PushIsRight(q)'
        BY DEF Pushing
      <3>1. CASE q # p
        BY <1>0, <2>1, <3>1, RightFrame
      <3>2. CASE q = p
        BY <1>0, <2>1, <3>2 DEF PushIsRight, NoPush
      <3> QED
        BY <3>1, <3>2
    <2> QED
      BY <1>2, <1>3, <2>1, <2>2
  <1>7. ASSUME NEW f \in Fetches, FetchFails(f) PROVE UpToDate'
    <2>1. fetches' = [fetches EXCEPT ![f] = NoFetch] /\ UNCHANGED <<stream, pushes, mark, bell>>
      BY <1>7 DEF FetchFails
    <2>2. Asking
      <3> SUFFICES ASSUME NEW g \in Fetches PROVE FetchIsRight(g)'
        BY DEF Asking
      <3>1. CASE g # f
        BY <1>0, <2>1, <3>1, RightFrame
      <3>2. CASE g = f
        BY <1>0, <2>1, <3>2 DEF FetchIsRight, NoFetch
      <3> QED
        BY <3>1, <3>2
    <2> QED
      BY <1>2, <1>3, <2>1, <2>2
  <1>8. ASSUME Connect \/ Disconnect PROVE UpToDate'
    <2>1. /\ stream'.events = <<OpenEvent>> \/ stream'.events = <<>>
          /\ UNCHANGED <<pushes, fetches, mark, bell>>
      BY <1>8 DEF Connect, Disconnect, Closed
    <2>2. \A i \in 1..Len(stream'.events) : stream'.events[i] = OpenEvent
      BY <2>1
    <2>3. Streaming
      BY <2>2 DEF Streaming, EventIsRight
    <2> QED
      BY <1>2, <1>3, <2>1, <2>3
  <1>9. ASSUME Focus PROVE UpToDate'
    <2>1. Refresh /\ UNCHANGED <<stream, pushes, mark, bell>>
      BY <1>9 DEF Focus
    <2>2. Asking
      BY <1>0, <2>1, NewFetchIsRight DEF Asking
    <2> QED
      BY <1>2, <1>3, <2>1, <2>2
  <1>10. ASSUME Mark PROVE UpToDate'
    <2>1. UNCHANGED <<stream, pushes, fetches, bell>>
      BY <1>10 DEF Mark
    <2> QED
      BY <1>0, <1>2, <1>3, <1>10, <2>1, MarkStaysRight
  <1>11. ~MarkWrite
    <2> SUFFICES ASSUME MarkWrite PROVE FALSE
      OBVIOUS
    <2>1. /\ mark.pc = "sent"
          /\ rows' = [k \in DOMAIN rows |-> rows[k] \/ k \in mark.keys]
      BY DEF MarkWrite
    <2>2. PICK k \in DOMAIN rows : ~rows[k] /\ k \in mark.keys
      BY <2>1 DEF MarkIsDue
    <2> QED
      BY <2>1, <2>2
  <1>12. ~MarkDone
    BY DEF MarkDone, MarkIsDue
  <1>13. ASSUME Crash PROVE UpToDate'
    <2>1. /\ stream' = Closed /\ pushes' = [p \in Pushes |-> NoPush] /\ mark' = NoMark
          /\ fetches' = [f \in Fetches |-> IF fetches[f].reads # {} THEN NoFetch ELSE fetches[f]]
          /\ UNCHANGED bell
      BY <1>13 DEF Crash
    <2>2. Streaming /\ Pushing /\ MarkIsDue'
      BY <2>1 DEF Streaming, Closed, Pushing, PushIsRight, NoPush, MarkIsDue, NoMark
    <2>3. Asking
      <3> SUFFICES ASSUME NEW f \in Fetches PROVE FetchIsRight(f)'
        BY DEF Asking
      <3>1. CASE fetches'[f] = fetches[f]
        BY <3>1, RightFrame
      <3>2. CASE fetches'[f] = NoFetch
        BY <3>2 DEF FetchIsRight, NoFetch
      <3> QED
        BY <2>1, <3>1, <3>2
    <2> QED
      BY <1>2, <1>3, <2>1, <2>2, <2>3
  <1> QED
    BY <1>0, <1>4, <1>5, <1>6, <1>7, <1>8, <1>9, <1>10, <1>11, <1>12, <1>13,
       PublishingStaysRight, ReceiveStaysRight, FetchingStaysRight DEF Next

\* Only a change of the rows puts a bell out of date: no push that is late or comes
\* twice over a refresh, no lost stream, crash or failed request does.
THEOREM RightBellsStayRight == Spec => BellStaysRight
  <1> DEFINE Kept == UpToDate /\ UNCHANGED rows => UpToDate'
  <1>1. ShownInv /\ [Next]_vars => [Kept]_vars
    BY RightStep
  <1>2. Init => ShownInv
    BY InitShown
  <1>3. MissInv => Shape
    BY DEF MissInv
  <1> QED
    BY <1>1, <1>2, <1>3, InitMiss, MissStep, ShownStep, PTL DEF Spec, BellStaysRight

-----------------------------------------------------------------------------
(* The page of a quiz: the shape of its variables                           *)

Statuses == {"absent", "open", "closed", "submitted"}
Rows == [status : Statuses, answers : Answers]
Pages == [session : Sessions \cup {None}, latest : Answers, shown : Answers,
          failed : Questions \cup {None}, lost : BOOLEAN, result : Answers \cup {None}]
Asks == [at : {"no", "sent", "read", "done", "refused", "abandon", "enter"}, graded : Answers]
Strays == [session : Sessions, quiz : Questions, save : Loops]

\* What the variables start from, and go back to.
LEMMA BlanksAreTyped ==
  Blank \in Answers /\ NoSave \in Loops /\ NoSaves \in [Questions -> Loops]
  /\ Landed \in Pages /\ NoAsk \in Asks
  BY DEF Blank, NoSave, NoSaves, Landed, NoAsk, Answers, Loops, Pages, Asks

LEMMA PageTyped ==
  PageTypeOK <=> /\ sessions \in [Sessions -> Rows]
                 /\ ended \in BOOLEAN /\ page \in Pages
                 /\ flight \in [Sessions -> [Questions -> Loops]]
                 /\ strays \subseteq Strays /\ ask \in Asks
                 /\ sure \in BOOLEAN /\ disturbed \subseteq {"forgotten", "overlap", "late"}
  BY DEF PageTypeOK, Rows, Statuses, Pages, Strays, Asks

\* A loop replaced keeps the shape of the loops, and leaves the others alone.
LEMMA OneLoop ==
  ASSUME flight \in [Sessions -> [Questions -> Loops]],
         NEW s \in Sessions, NEW q \in Questions, NEW loop \in Loops,
         NEW new, new = [flight EXCEPT ![s][q] = loop]
  PROVE  /\ new \in [Sessions -> [Questions -> Loops]]
         /\ new[s][q] = loop
         /\ \A t \in Sessions, p \in Questions : t # s \/ p # q => new[t][p] = flight[t][p]
  <1>1. /\ DOMAIN flight = Sessions /\ flight[s] \in [Questions -> Loops]
        /\ DOMAIN new = Sessions /\ new[s] = [flight[s] EXCEPT ![q] = loop]
        /\ \A t \in Sessions \ {s} : new[t] = flight[t]
    OBVIOUS
  <1>2. new[s] \in [Questions -> Loops] /\ new[s][q] = loop
        /\ \A p \in Questions \ {q} : new[s][p] = flight[s][p]
    BY <1>1
  <1> QED
    BY <1>1, <1>2

\* One row changes.
LEMMA OneRow ==
  ASSUME sessions \in [Sessions -> Rows], NEW s \in Sessions, NEW row \in Rows,
         NEW new, new = [sessions EXCEPT ![s] = row]
  PROVE  new \in [Sessions -> Rows] /\ new[s] = row /\ \A t \in Sessions \ {s} : new[t] = sessions[t]
  OBVIOUS

\* Answers merged are answers.
LEMMA MergedAreAnswers ==
  ASSUME NEW save \in Loops, NEW q \in Questions
  PROVE  [save.seen EXCEPT ![q] = save.sent] \in Answers
  BY DEF Loops, Answers

LEMMA MergeTyped ==
  ASSUME PageTypeOK, NEW s \in Sessions, NEW q \in Questions, NEW save \in Loops, Merge(s, save, q)
  PROVE  /\ sessions' \in [Sessions -> Rows]
         /\ \A t \in Sessions : sessions'[t].status = sessions[t].status
         /\ sessions'[s].answers = [save.seen EXCEPT ![q] = save.sent]
         /\ \A t \in Sessions \ {s} : sessions'[t] = sessions[t]
  <1> DEFINE row == [sessions[s] EXCEPT !.answers = [save.seen EXCEPT ![q] = save.sent]]
  <1>1. sessions[s] \in Rows /\ sessions \in [Sessions -> Rows]
    BY PageTyped
  <1>2. row \in Rows /\ row.status = sessions[s].status
        /\ row.answers = [save.seen EXCEPT ![q] = save.sent]
    BY <1>1, MergedAreAnswers DEF Rows
  <1>3. sessions' = [sessions EXCEPT ![s] = row]
    BY DEF Merge
  <1> HIDE DEF row
  <1> QED
    BY <1>1, <1>2, <1>3, OneRow

\* A status is written.
LEMMA StatusWritten ==
  ASSUME PageTypeOK, NEW s \in Sessions, NEW new \in Statuses,
         sessions' = [sessions EXCEPT ![s].status = new]
  PROVE  /\ sessions' \in [Sessions -> Rows]
         /\ \A t \in Sessions : sessions'[t].answers = sessions[t].answers
         /\ sessions'[s].status = new
         /\ \A t \in Sessions \ {s} : sessions'[t] = sessions[t]
  <1> DEFINE row == [sessions[s] EXCEPT !.status = new]
  <1>1. sessions[s] \in Rows /\ sessions \in [Sessions -> Rows]
    BY PageTyped
  <1>2. row \in Rows /\ row.status = new /\ row.answers = sessions[s].answers
    BY <1>1 DEF Rows
  <1>3. sessions' = [sessions EXCEPT ![s] = row]
    OBVIOUS
  <1> HIDE DEF row
  <1> QED
    BY <1>1, <1>2, <1>3, OneRow

\* What a step of a loop leaves of the other loops.
OthersStay(s, q) ==
    \A t \in Sessions, p \in Questions : t # s \/ p # q => flight'[t][p] = flight[t][p]

\* The loop of question q of session s is replaced.
LEMMA LoopReplaced ==
  ASSUME PageTypeOK, NEW s \in Sessions, NEW q \in Questions, NEW loop \in Loops,
         flight' = [flight EXCEPT ![s][q] = loop]
  PROVE  /\ flight' \in [Sessions -> [Questions -> Loops]]
         /\ flight'[s][q] = loop /\ OthersStay(s, q)
  BY PageTyped, OneLoop DEF OthersStay

LEMMA Sending ==
  ASSUME NEW c \in Choices \cup {None}
  PROVE  [NoSave EXCEPT !.at = "sent", !.sent = c] \in Loops
         /\ [NoSave EXCEPT !.at = "sent", !.sent = c].at = "sent"
         /\ [NoSave EXCEPT !.at = "sent", !.sent = c].sent = c
  BY BlanksAreTyped DEF NoSave, Loops

\* The page posts what it holds, or a loop of the question runs already.
LEMMA PostFacts ==
  ASSUME PageTypeOK, page.session \in Sessions, NEW q \in Questions,
         NEW c \in Choices \cup {None}, Post(q, c)
  PROVE  /\ flight' \in [Sessions -> [Questions -> Loops]]
         /\ OthersStay(page.session, q)
         /\ \/ flight[page.session][q].at # "idle" /\ flight' = flight
            \/ flight[page.session][q].at = "idle" /\ flight'[page.session][q].at = "sent"
  <1>1. CASE flight[page.session][q].at # "idle"
    BY <1>1, PageTyped DEF Post, OthersStay
  <1>2. CASE flight[page.session][q].at = "idle"
    <2> DEFINE loop == [NoSave EXCEPT !.at = "sent", !.sent = c]
    <2>1. flight' = [flight EXCEPT ![page.session][q] = loop]
      BY <1>2 DEF Post
    <2>2. loop \in Loops /\ loop.at = "sent"
      BY Sending
    <2> HIDE DEF loop
    <2> QED
      BY <1>2, <2>1, <2>2, LoopReplaced
  <1> QED
    BY <1>1, <1>2

\* The request of a loop is read, or refused.
LEMMA SaveReadFacts ==
  ASSUME PageTypeOK, NEW s \in Sessions, NEW q \in Questions, SaveRead(s, q)
  PROVE  /\ flight' \in [Sessions -> [Questions -> Loops]] /\ OthersStay(s, q)
         /\ flight[s][q].at = "sent" /\ flight'[s][q].at \in {"lost", "failed", "read"}
         /\ flight'[s][q].at = "lost" => sessions[s].status # "open"
  <1> DEFINE loop == [flight[s][q] EXCEPT !.at = Verdict(s),
                        !.seen = IF Accepted(s) THEN sessions[s].answers ELSE Blank]
  <1>1. flight[s][q] \in Loops /\ sessions[s] \in Rows
    BY PageTyped
  <1>2. Verdict(s) \in {"lost", "failed", "read"} /\ (Verdict(s) = "lost" => sessions[s].status # "open")
    BY DEF Verdict
  <1>3. loop \in Loops /\ loop.at = Verdict(s)
    BY <1>1, <1>2, BlanksAreTyped DEF Loops, Rows
  <1>4. flight' = [flight EXCEPT ![s][q] = loop]
    BY PageTyped DEF SaveRead
  <1> HIDE DEF loop
  <1>5. flight' \in [Sessions -> [Questions -> Loops]] /\ OthersStay(s, q) /\ flight'[s][q] = loop
    BY <1>3, <1>4, LoopReplaced
  <1>6. flight[s][q].at = "sent"
    BY DEF SaveRead
  <1> QED
    BY <1>2, <1>3, <1>5, <1>6

\* A loop changes its state, and forgets what it read.
Moves(s, q, at) == flight' = [flight EXCEPT ![s][q].at = at, ![s][q].seen = Blank]

LEMMA LoopMoved ==
  ASSUME PageTypeOK, NEW s \in Sessions, NEW q \in Questions,
         NEW at \in {"idle", "sent", "read", "saved", "lost", "failed"}, Moves(s, q, at)
  PROVE  /\ flight' \in [Sessions -> [Questions -> Loops]] /\ OthersStay(s, q)
         /\ flight'[s][q].at = at /\ flight'[s][q].sent = flight[s][q].sent
  <1> DEFINE loop == [flight[s][q] EXCEPT !.at = at, !.seen = Blank]
  <1>1. flight[s][q] \in Loops
    BY PageTyped
  <1>2. loop \in Loops /\ loop.at = at /\ loop.sent = flight[s][q].sent
    BY <1>1, BlanksAreTyped DEF Loops
  <1>3. flight' = [flight EXCEPT ![s][q] = loop]
    BY PageTyped DEF Moves
  <1> HIDE DEF loop
  <1>4. flight' \in [Sessions -> [Questions -> Loops]] /\ OthersStay(s, q) /\ flight'[s][q] = loop
    BY <1>2, <1>3, LoopReplaced
  <1> QED
    BY <1>2, <1>4

\* An answer is heard: the loop ends, or sends what was chosen since.
LEMMA HearFacts ==
  ASSUME PageTypeOK, NEW s \in Sessions, NEW q \in Questions, Hear(s, q)
  PROVE  /\ flight' \in [Sessions -> [Questions -> Loops]] /\ OthersStay(s, q)
         /\ flight[s][q].at \in {"saved", "lost", "failed"}
         /\ \/ flight'[s][q].at = "idle"
            \/ flight'[s][q].at = "sent" /\ page.session = s /\ flight[s][q].at = "saved"
         /\ flight'[s][q].at = "idle" /\ page.session = s /\ flight[s][q].at = "saved"
               => page.latest[q] = flight[s][q].sent
         /\ page' \in Pages
         /\ page'.session = page.session /\ page'.latest = page.latest
         /\ page'.shown = page.shown /\ page'.result = page.result
         /\ page.session # s => page' = page
         /\ page.session = s => page'.lost = (page.lost \/ flight[s][q].at = "lost")
         /\ page.session = s /\ flight[s][q].at = "failed" => page'.failed = q
         /\ page.session = s /\ flight[s][q].at # "failed"
               => page'.failed = page.failed \/ (page'.failed = None /\ page.failed = q)
  <1>1. flight[s][q] \in Loops /\ page \in Pages /\ DOMAIN flight = Sessions
        /\ page.latest[q] \in Choices \cup {None}
    BY PageTyped DEF Pages, Answers
  <1> DEFINE loop == IF OwnLoop(s) /\ flight[s][q].at = "saved" /\ page.latest[q] # flight[s][q].sent
                     THEN [NoSave EXCEPT !.at = "sent", !.sent = page.latest[q]] ELSE NoSave
  <1>2. loop \in Loops /\ \/ loop = NoSave
                          \/ loop.at = "sent" /\ OwnLoop(s) /\ flight[s][q].at = "saved"
    BY <1>1, Sending, BlanksAreTyped
  <1>3. flight' = [flight EXCEPT ![s][q] = loop]
    BY DEF Hear, NextSave
  <1>4. flight' \in [Sessions -> [Questions -> Loops]] /\ OthersStay(s, q) /\ flight'[s][q] = loop
    <2> HIDE DEF loop
    <2> QED
      BY <1>2, <1>3, LoopReplaced
  <1>5. /\ NoSave.at = "idle" 
        /\ loop = NoSave /\ OwnLoop(s) /\ flight[s][q].at = "saved" => page.latest[q] = flight[s][q].sent
        /\ loop.at = "idle" => loop = NoSave
    BY Sending, <1>1 DEF NoSave
  <1>6. page.session # s => page' = page
    BY DEF Hear, OwnLoop
  <1>7. ASSUME page.session = s
        PROVE  /\ page' \in Pages
               /\ page'.session = page.session /\ page'.latest = page.latest
               /\ page'.shown = page.shown /\ page'.result = page.result
               /\ page'.lost = (page.lost \/ flight[s][q].at = "lost")
               /\ flight[s][q].at = "failed" => page'.failed = q
               /\ flight[s][q].at # "failed"
                     => page'.failed = page.failed \/ (page'.failed = None /\ page.failed = q)
    <2>0. page.lost \in BOOLEAN
      BY <1>1 DEF Pages
    <2>1. CASE flight[s][q].at = "lost"
      <3>1. page' = [page EXCEPT !.lost = TRUE]
        BY <1>7, <2>1 DEF Hear, OwnLoop, AfterSave
      <3> QED
        BY <1>1, <2>0, <2>1, <3>1 DEF Pages
    <2>2. CASE flight[s][q].at = "failed"
      <3>1. page' = [page EXCEPT !.failed = q]
        BY <1>7, <2>2 DEF Hear, OwnLoop, AfterSave
      <3> QED
        BY <1>1, <2>0, <2>2, <3>1 DEF Pages
    <2>3. CASE flight[s][q].at = "saved"
      <3>1. \/ page' = [page EXCEPT !.failed = page.failed]
            \/ page' = [page EXCEPT !.failed = None] /\ page.failed = q
        BY <1>7, <2>3 DEF Hear, OwnLoop, AfterSave
      <3> QED
        BY <1>1, <2>0, <2>3, <3>1 DEF Pages
    <2> QED
      BY <2>1, <2>2, <2>3 DEF Hear
  <1>8. flight[s][q].at \in {"saved", "lost", "failed"}
    BY DEF Hear
  <1>9. /\ flight'[s][q].at = "idle" \/ (flight'[s][q].at = "sent" /\ OwnLoop(s) /\ flight[s][q].at = "saved")
        /\ flight'[s][q].at = "idle" /\ OwnLoop(s) /\ flight[s][q].at = "saved"
               => page.latest[q] = flight[s][q].sent
    <2> HIDE DEF loop
    <2> QED
      BY <1>2, <1>4, <1>5
  <1> HIDE DEF loop
  <1> QED
    BY <1>1, <1>4, <1>6, <1>7, <1>8, <1>9 DEF OwnLoop

\* The saves of a page that is gone are saves.
LEMMA StraysTyped ==
  ASSUME PageTypeOK, NEW s \in Sessions, NEW q \in Questions
  PROVE  Stray(s, q) \in Strays
  BY PageTyped DEF Stray, Strays

\* The session entered, and the page that shows it.
LEMMA EnterFacts ==
  ASSUME PageTypeOK, Enter
  PROVE  /\ ask.at = "enter" /\ ask' = NoAsk
         /\ UNCHANGED <<ended, flight, strays, choices, faults, sure>>
         /\ \/ UNCHANGED <<sessions, page, disturbed>>
            \/ \E s \in Sessions :
                 /\ sessions[s].status \in {"open", "absent"}
                 /\ page' = [Landed EXCEPT !.session = s, !.shown = sessions[s].answers]
                 /\ page' \in Pages /\ page'.session = s /\ page'.shown = sessions[s].answers
                 /\ page'.failed = None /\ ~page'.lost /\ page'.result = None
                 /\ sessions' \in [Sessions -> Rows]
                 /\ \A t \in Sessions : sessions'[t].answers = sessions[t].answers
                 /\ sessions'[s].status = "open"
                 /\ \A t \in Sessions \ {s} : sessions'[t] = sessions[t]
                 /\ disturbed' = {}
  <1>1. CASE ended
    BY <1>1 DEF Enter
  <1>2. CASE ~ended
    <2>1. PICK s \in Sessions :
             /\ sessions[s].status \in {"open", "absent"}
             /\ sessions' = [sessions EXCEPT ![s].status = "open"]
             /\ page' = [Landed EXCEPT !.session = s, !.shown = sessions[s].answers]
      BY <1>2 DEF Enter
    <2>2. "open" \in Statuses
      BY DEF Statuses
    <2>3. /\ sessions' \in [Sessions -> Rows]
          /\ \A t \in Sessions : sessions'[t].answers = sessions[t].answers
          /\ sessions'[s].status = "open"
          /\ \A t \in Sessions \ {s} : sessions'[t] = sessions[t]
      BY <2>1, <2>2, StatusWritten
    <2>4. sessions[s].answers \in Answers
      BY PageTyped DEF Rows
    <2>5. /\ page' \in Pages /\ page'.session = s /\ page'.shown = sessions[s].answers
          /\ page'.failed = None /\ ~page'.lost /\ page'.result = None
      BY <2>1, <2>4, BlanksAreTyped DEF Landed, Pages
    <2> QED
      BY <1>2, <2>1, <2>3, <2>5 DEF Enter
  <1> QED
    BY <1>1, <1>2

\* A choice is shown, and posted.
LEMMA ChooseFacts ==
  ASSUME PageTypeOK, NEW q \in Questions, NEW c \in Choices, Choose(q, c)
  PROVE  /\ page.session \in Sessions /\ page.result = None /\ ~page.lost /\ ~sure'
         /\ page' \in Pages
         /\ page'.session = page.session /\ page'.failed = page.failed
         /\ page'.lost = page.lost /\ page'.result = page.result
         /\ page'.latest[q] = c /\ page'.shown[q] = c
         /\ \A p \in Questions \ {q} :
               page'.latest[p] = page.latest[p] /\ page'.shown[p] = page.shown[p]
         /\ Post(q, c)
         /\ UNCHANGED <<sessions, ended, strays, ask, faults, disturbed>>
  <1>1. page \in Pages /\ page.session # None
    BY PageTyped DEF Choose
  <1>2. page' = [page EXCEPT !.shown = [page.shown EXCEPT ![q] = c],
                             !.latest = [page.latest EXCEPT ![q] = c]]
    BY <1>1 DEF Choose, Pages
  <1>3. [page.shown EXCEPT ![q] = c] \in Answers /\ [page.latest EXCEPT ![q] = c] \in Answers
    BY <1>1 DEF Pages, Answers
  <1>4. page.shown \in Answers /\ page.latest \in Answers /\ page.session \in Sessions
    BY <1>1 DEF Pages
  <1>5. /\ page' \in Pages
        /\ page'.session = page.session /\ page'.failed = page.failed
        /\ page'.lost = page.lost /\ page'.result = page.result
        /\ page'.shown = [page.shown EXCEPT ![q] = c]
        /\ page'.latest = [page.latest EXCEPT ![q] = c]
    BY <1>1, <1>2, <1>3 DEF Pages
  <1>6. /\ page'.latest[q] = c /\ page'.shown[q] = c
        /\ \A p \in Questions \ {q} :
               page'.latest[p] = page.latest[p] /\ page'.shown[p] = page.shown[p]
    BY <1>4, <1>5 DEF Answers
  <1> QED
    BY <1>4, <1>5, <1>6 DEF Choose


\* What the page waits for, or tells of, belongs to the session that it shows.
Grounded ==
    /\ ask.at \notin {"no", "enter"} => page.session # None
    /\ page.failed # None \/ page.lost \/ page.result # None => page.session # None

LEMMA InitTyped == PageInit => PageTypeOK /\ Grounded
  <1> SUFFICES ASSUME PageInit PROVE PageTypeOK /\ Grounded
    OBVIOUS
  <1>1. [status |-> "absent", answers |-> Blank] \in Rows
    BY BlanksAreTyped DEF Rows, Statuses
  <1>2. Grounded
    BY DEF PageInit, Grounded, NoAsk, Landed
  <1> QED
    BY <1>1, <1>2, BlanksAreTyped, PageTyped DEF PageInit

\* A request of the page changes its stage.
LEMMA AskMoved ==
  ASSUME NEW at \in {"no", "sent", "read", "done", "refused", "abandon", "enter"}
  PROVE  /\ [NoAsk EXCEPT !.at = at] \in Asks /\ [NoAsk EXCEPT !.at = at].at = at
         /\ ask \in Asks => /\ [ask EXCEPT !.at = at] \in Asks
                            /\ [ask EXCEPT !.at = at].at = at
                            /\ [ask EXCEPT !.at = at].graded = ask.graded
  BY BlanksAreTyped DEF Asks

LEMMA SubmitReadFacts ==
  ASSUME PageTypeOK, Grounded, SubmitRead
  PROVE  /\ page.session \in Sessions /\ ask.at = "sent" /\ ask' \in Asks
         /\ \/ ask'.at = "refused"
            \/ ask'.at = "read" /\ ask'.graded = sessions[page.session].answers
  <1>1. page.session \in Sessions /\ ask.at = "sent" /\ ask \in Asks
    BY PageTyped DEF SubmitRead, Grounded, Pages
  <1>2. sessions[page.session].answers \in Answers
    BY <1>1, PageTyped DEF Rows
  <1>3. CASE sessions[page.session].status = "submitted"
    BY <1>1, <1>3, AskMoved DEF SubmitRead
  <1>4. CASE sessions[page.session].status # "submitted"
    BY <1>1, <1>2, <1>4 DEF SubmitRead, Asks
  <1> QED
    BY <1>3, <1>4

LEMMA SubmitClaimFacts ==
  ASSUME PageTypeOK, Grounded, SubmitClaim
  PROVE  /\ page.session \in Sessions /\ ask.at = "read" /\ ask' \in Asks
         /\ sessions' \in [Sessions -> Rows]
         /\ \A t \in Sessions : sessions'[t].answers = sessions[t].answers
         /\ sessions'[page.session].status = "submitted"
         /\ \A t \in Sessions \ {page.session} : sessions'[t] = sessions[t]
         /\ \/ ask'.at = "refused"
            \/ ask'.at = "done" /\ ask'.graded = ask.graded
  <1>1. page.session \in Sessions /\ ask.at = "read" /\ ask \in Asks /\ "submitted" \in Statuses
    BY PageTyped DEF SubmitClaim, Grounded, Pages, Statuses
  <1>2. /\ sessions' \in [Sessions -> Rows]
        /\ \A t \in Sessions : sessions'[t].answers = sessions[t].answers
        /\ sessions'[page.session].status = "submitted"
        /\ \A t \in Sessions \ {page.session} : sessions'[t] = sessions[t]
    BY <1>1, StatusWritten DEF SubmitClaim
  <1>3. ask' \in Asks /\ \/ ask'.at = "refused"
                         \/ ask'.at = "done" /\ ask'.graded = ask.graded
    BY <1>1, AskMoved DEF SubmitClaim
  <1> QED
    BY <1>1, <1>2, <1>3

\* The row of the session that the page shows may be submitted after all.
LEMMA GoesOnFacts ==
  ASSUME PageTypeOK, Grounded,
         \/ UNCHANGED sessions
         \/ /\ ask.at = "read"
            /\ sessions' = [sessions EXCEPT ![page.session].status = "submitted"]
  PROVE  /\ sessions' \in [Sessions -> Rows]
         /\ \A t \in Sessions : /\ sessions'[t].answers = sessions[t].answers
                                /\ sessions'[t].status \in {sessions[t].status, "submitted"}
  <1>1. CASE UNCHANGED sessions
    BY <1>1, PageTyped
  <1>2. CASE ask.at = "read" /\ sessions' = [sessions EXCEPT ![page.session].status = "submitted"]
    <2>1. page.session \in Sessions /\ "submitted" \in Statuses
      BY <1>2, PageTyped DEF Grounded, Pages, Statuses
    <2> QED
      BY <1>2, <2>1, StatusWritten
  <1> QED
    BY <1>1, <1>2

LEMMA AbandonFacts ==
  ASSUME PageTypeOK, Grounded, Abandon
  PROVE  /\ page.session \in Sessions /\ ask.at = "abandon" /\ ask' \in Asks
         /\ sessions' \in [Sessions -> Rows]
         /\ \A t \in Sessions : sessions'[t].answers = sessions[t].answers
         /\ \A t \in Sessions \ {page.session} : sessions'[t] = sessions[t]
         /\ \/ ask'.at = "enter" /\ sessions'[page.session].status = "closed"
            \/ ask'.at = "no" /\ UNCHANGED sessions
  <1>1. page.session \in Sessions /\ ask.at = "abandon" /\ "closed" \in Statuses
    BY PageTyped DEF Abandon, Grounded, Pages, Statuses
  <1>2. NoAsk \in Asks /\ NoAsk.at = "no"
    BY BlanksAreTyped DEF NoAsk
  <1>3. CASE sessions' = [sessions EXCEPT ![page.session].status = "closed"]
             /\ ask' = [NoAsk EXCEPT !.at = "enter"]
    BY <1>1, <1>3, StatusWritten, AskMoved
  <1>4. CASE UNCHANGED sessions /\ ask' = NoAsk
    BY <1>1, <1>2, <1>4, PageTyped
  <1> QED
    BY <1>3, <1>4 DEF Abandon

\* The result is shown.
LEMMA HearSubmitFacts ==
  ASSUME PageTypeOK, Grounded, HearSubmit
  PROVE  /\ page' \in Pages
         /\ page'.session = page.session /\ page'.latest = page.latest /\ page'.shown = page.shown
         /\ page'.failed = page.failed /\ page'.lost = page.lost
         /\ \/ ask.at = "done" /\ page'.result = ask.graded
            \/ page'.result = page.result
         /\ ask' \in Asks /\ ask'.at = "no"
         /\ ask.at \in {"done", "refused"}
         /\ UNCHANGED <<sessions, ended, flight, strays, choices, faults, sure, disturbed>>
  <1>1. page \in Pages /\ ask \in Asks /\ ask.graded \in Answers
    BY PageTyped DEF Asks
  <1>2. ask' \in Asks /\ ask'.at = "no"
    BY BlanksAreTyped DEF HearSubmit, NoAsk
  <1>3. \/ ask.at = "done" /\ page' = [page EXCEPT !.result = ask.graded]
        \/ page' = page
    BY DEF HearSubmit
  <1> QED
    BY <1>1, <1>2, <1>3 DEF HearSubmit, Pages

\* The page is opened again.
LEMMA ReloadFacts ==
  ASSUME PageTypeOK, Grounded, Reload
  PROVE  /\ page' = Landed /\ flight' = [s \in Sessions |-> NoSaves]
         /\ flight' \in [Sessions -> [Questions -> Loops]]
         /\ \A s \in Sessions, q \in Questions : flight'[s][q].at = "idle"
         /\ strays' \subseteq Strays /\ ask' = NoAsk
         /\ sessions' \in [Sessions -> Rows]
         /\ \A t \in Sessions : sessions'[t].status \in {sessions[t].status, "submitted"}
         /\ UNCHANGED <<ended, sure, disturbed>>
  <1>1. strays' \subseteq Strays
    BY PageTyped, StraysTyped DEF Reload
  <1>2. \A s \in Sessions, q \in Questions : flight'[s][q].at = "idle"
    BY DEF Reload, NoSaves, NoSave
  <1>3. \/ UNCHANGED sessions
        \/ /\ ask.at = "read"
           /\ sessions' = [sessions EXCEPT ![page.session].status = "submitted"]
    BY DEF Reload
  <1>4. /\ page' = Landed /\ flight' = [s \in Sessions |-> NoSaves] /\ ask' = NoAsk
        /\ UNCHANGED <<ended, sure, disturbed>>
    BY DEF Reload
  <1> QED
    BY <1>1, <1>2, <1>3, <1>4, GoesOnFacts, BlanksAreTyped

\* A session ends elsewhere.
LEMMA CloseFacts ==
  ASSUME PageTypeOK, NEW s \in Sessions, Close(s) \/ ExpireLate(s)
  PROVE  /\ sessions' \in [Sessions -> Rows]
         /\ \A t \in Sessions : sessions'[t].answers = sessions[t].answers
         /\ sessions[s].status \in {"open", "submitted"}
         /\ sessions'[s].status = "closed"
         /\ \A t \in Sessions \ {s} : sessions'[t] = sessions[t]
         /\ UNCHANGED <<ended, page, flight, strays, ask, sure, disturbed>>
  <1>1. "closed" \in Statuses /\ sessions' = [sessions EXCEPT ![s].status = "closed"]
    BY DEF Close, ExpireLate, Statuses
  <1> QED
    BY <1>1, StatusWritten DEF Close, ExpireLate

\* Every step keeps the shape of the variables, and what is waited for.
LEMMA TypeStep == PageTypeOK /\ Grounded /\ [PageNext]_pageVars => PageTypeOK' /\ Grounded'
  <1> SUFFICES ASSUME PageTypeOK, Grounded, [PageNext]_pageVars PROVE PageTypeOK' /\ Grounded'
    OBVIOUS
  <1>0. /\ sessions \in [Sessions -> Rows] /\ ended \in BOOLEAN /\ page \in Pages
        /\ flight \in [Sessions -> [Questions -> Loops]] /\ strays \subseteq Strays
        /\ ask \in Asks /\ sure \in BOOLEAN /\ disturbed \subseteq {"forgotten", "overlap", "late"}
        /\ PageTypeOK' <=> /\ sessions' \in [Sessions -> Rows]
                           /\ ended' \in BOOLEAN /\ page' \in Pages
                           /\ flight' \in [Sessions -> [Questions -> Loops]]
                           /\ strays' \subseteq Strays /\ ask' \in Asks
                           /\ sure' \in BOOLEAN
                           /\ disturbed' \subseteq {"forgotten", "overlap", "late"}
    BY PageTyped DEF PageTypeOK, Rows, Statuses, Pages, Strays, Asks
  <1>a. /\ UNCHANGED <<page, ask>> => Grounded'
        /\ page.session # None => page.session \in Sessions
    BY <1>0 DEF Grounded, Pages
  <1>b. NoAsk \in Asks /\ NoAsk.at = "no" /\ Landed \in Pages
        /\ Landed.session = None /\ Landed.failed = None /\ ~Landed.lost /\ Landed.result = None
    BY BlanksAreTyped DEF NoAsk, Landed
  <1>1. ASSUME NEW q \in Questions, NEW c \in Choices, Choose(q, c) PROVE PageTypeOK' /\ Grounded'
    <2>1. flight' \in [Sessions -> [Questions -> Loops]]
      BY <1>1, ChooseFacts, PostFacts
    <2>2. sure' = FALSE
      BY <1>1 DEF Choose
    <2>3. PageTypeOK'
      BY <1>0, <1>1, <2>1, <2>2, ChooseFacts
    <2>4. Grounded'
      BY <1>1, ChooseFacts DEF Grounded
    <2> QED
      BY <2>3, <2>4
  <1>2. ASSUME NEW q \in Questions, Retry(q) PROVE PageTypeOK' /\ Grounded'
    <2>1. page.session \in Sessions /\ page.latest[q] \in Choices \cup {None}
      BY <1>0, <1>2, NoneIsNothing DEF Retry, Grounded, Pages, Answers
    <2> QED
      BY <1>0, <1>a, <1>2, <2>1, PostFacts DEF Retry
  <1>3. ASSUME NEW s \in Sessions, NEW q \in Questions, SaveRead(s, q) PROVE PageTypeOK' /\ Grounded'
    BY <1>0, <1>a, <1>3, SaveReadFacts DEF SaveRead
  <1>4. ASSUME NEW s \in Sessions, NEW q \in Questions, SaveWrite(s, q) PROVE PageTypeOK' /\ Grounded'
    <2>1. flight[s][q] \in Loops /\ Merge(s, flight[s][q], q) /\ Moves(s, q, "saved")
      BY <1>0, <1>4 DEF SaveWrite, Moves
    <2>2. disturbed' \subseteq {"forgotten", "overlap", "late"}
      BY <1>0, <1>4 DEF SaveWrite, Overlap
    <2> QED
      BY <1>0, <1>a, <1>4, <2>1, <2>2, MergeTyped, LoopMoved DEF SaveWrite
  <1>5. ASSUME NEW s \in Sessions, NEW q \in Questions, Hear(s, q) PROVE PageTypeOK' /\ Grounded'
    <2>1. disturbed' \subseteq {"forgotten", "overlap", "late"}
      BY <1>0, <1>5 DEF Hear
    <2>2. PageTypeOK'
      BY <1>0, <1>5, <2>1, HearFacts DEF Hear
    <2>3. page.session = s => page.session # None
      BY NoneIsNothing
    <2>4. /\ page'.session = page.session /\ page'.result = page.result /\ ask' = ask
          /\ page.session # s => page' = page
      BY <1>5, HearFacts DEF Hear
    <2>5. Grounded'
      BY <2>3, <2>4 DEF Grounded
    <2> QED
      BY <2>2, <2>5
  <1>6. ASSUME NEW s \in Sessions, NEW q \in Questions, SaveFails(s, q) PROVE PageTypeOK' /\ Grounded'
    <2>1. Moves(s, q, "failed")
      BY <1>6 DEF SaveFails, Moves
    <2>2. strays' \subseteq Strays
      BY <1>0, <1>6, StraysTyped DEF SaveFails
    <2> QED
      BY <1>0, <1>a, <1>6, <2>1, <2>2, LoopMoved DEF SaveFails
  <1>7. ASSUME NEW x \in strays, StrayRead(x) PROVE PageTypeOK' /\ Grounded'
    <2>1. x \in Strays /\ sessions[x.session] \in Rows
      BY <1>0 DEF Strays
    <2>2. [x EXCEPT !.save.at = "read", !.save.seen = sessions[x.session].answers] \in Strays
      BY <2>1 DEF Strays, Loops, Rows
    <2>3. strays' \subseteq Strays
      BY <1>0, <1>7, <2>2 DEF StrayRead
    <2> QED
      BY <1>0, <1>a, <1>7, <2>3 DEF StrayRead
  <1>8. ASSUME NEW x \in strays, StrayWrite(x) PROVE PageTypeOK' /\ Grounded'
    <2>1. x.session \in Sessions /\ x.quiz \in Questions /\ x.save \in Loops
          /\ Merge(x.session, x.save, x.quiz)
      BY <1>0, <1>8 DEF Strays, StrayWrite
    <2>2. disturbed' \subseteq {"forgotten", "overlap", "late"}
      BY <1>0, <1>8 DEF StrayWrite, Overlap, Late
    <2> QED
      BY <1>0, <1>a, <1>8, <2>1, <2>2, MergeTyped DEF StrayWrite
  <1>9. CASE Submit
    <2>1. [NoAsk EXCEPT !.at = "sent"] \in Asks /\ SaysSaved \in BOOLEAN
      BY AskMoved DEF SaysSaved
    <2> QED
      BY <1>0, <1>9, <2>1 DEF Submit, Grounded
  <1>10. CASE SubmitRead
    <2>1. ask' \in Asks /\ page.session # None
      BY <1>10, SubmitReadFacts, NoneIsNothing
    <2> QED
      BY <1>0, <1>10, <2>1 DEF SubmitRead, Grounded
  <1>11. CASE SubmitClaim
    <2>1. ask' \in Asks /\ page.session # None /\ sessions' \in [Sessions -> Rows]
      BY <1>11, SubmitClaimFacts, NoneIsNothing
    <2> QED
      BY <1>0, <1>11, <2>1 DEF SubmitClaim, Grounded
  <1>12. CASE HearSubmit
    <2>1. ask.at \in {"done", "refused"} => page.session # None
      BY DEF Grounded
    <2>2. /\ page' \in Pages /\ page'.session = page.session /\ page'.session # None
          /\ ask' \in Asks
          /\ UNCHANGED <<sessions, ended, flight, strays, sure, disturbed>>
      BY <1>12, <2>1, HearSubmitFacts
    <2> QED
      BY <1>0, <2>2 DEF Grounded
  <1>13. CASE Restart
    <2>1. [NoAsk EXCEPT !.at = "abandon"] \in Asks
      BY AskMoved
    <2> QED
      BY <1>0, <1>13, <2>1 DEF Restart, Grounded
  <1>14. CASE Abandon
    <2>1. ask' \in Asks /\ page.session # None /\ sessions' \in [Sessions -> Rows]
      BY <1>14, AbandonFacts, NoneIsNothing
    <2> QED
      BY <1>0, <1>14, <2>1 DEF Abandon, Grounded
  <1>15. CASE Begin
    <2>1. [NoAsk EXCEPT !.at = "enter"] \in Asks /\ [NoAsk EXCEPT !.at = "enter"].at = "enter"
      BY AskMoved
    <2> QED
      BY <1>0, <1>15, <2>1 DEF Begin, Grounded
  <1>16. CASE Enter
    <2>1. /\ ask' = NoAsk /\ UNCHANGED <<ended, flight, strays, sure>>
          /\ page' \in Pages /\ sessions' \in [Sessions -> Rows]
          /\ disturbed' \subseteq {"forgotten", "overlap", "late"}
          /\ \/ page' = page
             \/ page'.session # None
      BY <1>0, <1>16, EnterFacts, NoneIsNothing
    <2> QED
      BY <1>0, <1>b, <2>1 DEF Grounded
  <1>17. CASE AskFails
    <2>1. sessions' \in [Sessions -> Rows]
      BY <1>17, GoesOnFacts DEF AskFails
    <2> QED
      BY <1>0, <1>b, <1>17, <2>1 DEF AskFails, Grounded
  <1>18. CASE Reload
    <2>1. /\ page' = Landed /\ ask' = NoAsk /\ strays' \subseteq Strays
          /\ sessions' \in [Sessions -> Rows]
          /\ flight' \in [Sessions -> [Questions -> Loops]]
          /\ UNCHANGED <<ended, sure, disturbed>>
      BY <1>18, ReloadFacts
    <2> QED
      BY <1>0, <1>b, <2>1 DEF Grounded
  <1>19. ASSUME NEW s \in Sessions, Close(s) \/ ExpireLate(s) PROVE PageTypeOK' /\ Grounded'
    BY <1>0, <1>a, <1>19, CloseFacts
  <1>20. CASE TopicEnds
    BY <1>0, <1>a, <1>20 DEF TopicEnds
  <1>21. CASE UNCHANGED pageVars
    BY <1>0, <1>a, <1>21 DEF pageVars
  <1> QED
    BY <1>1, <1>2, <1>3, <1>4, <1>5, <1>6, <1>7, <1>8, <1>9, <1>10, <1>11, <1>12, <1>13, <1>14,
       <1>15, <1>16, <1>17, <1>18, <1>19, <1>20, <1>21 DEF PageNext, Loop

\* The variables keep their shape, and what page.tsx waits for or tells of (a
\* submission, a failed save, a lost session, a result) belongs to a session it shows.
THEOREM PageIsTyped == PageSpec => [](PageTypeOK /\ Grounded)
  <1> QED
    BY InitTyped, TypeStep, PTL DEF PageSpec

-----------------------------------------------------------------------------
(* What the server takes no more of                                         *)

Over(s) == sessions[s].status \in {"closed", "submitted"}

\* The page shows a session that exists.  A session that its loops outlive, one
\* whose save was refused for good, and one that the page leaves or knows to be
\* lost or submitted, are over.
LifeInv ==
    /\ page.session # None => sessions[page.session].status # "absent"
    /\ \A s \in Sessions, q \in Questions :
          flight[s][q].at # "idle" /\ s # page.session => Over(s)
    /\ \A s \in Sessions, q \in Questions : flight[s][q].at = "lost" => Over(s)
    /\ page.session # None
          /\ (ask.at \in {"enter", "done"} \/ page.lost \/ page.result # None) => Over(page.session)

\* No step brings a session back.
StaysOver(s) ==
    /\ Over(s) => Over(s)'
    /\ sessions[s].status # "absent" => sessions'[s].status # "absent"

LEMMA OverIsForGood ==
  ASSUME PageTypeOK, Grounded, [PageNext]_pageVars
  PROVE  \A s \in Sessions : StaysOver(s)
  <1> SUFFICES ASSUME NEW t \in Sessions PROVE StaysOver(t)
    OBVIOUS
  <1>0. /\ sessions'[t] = sessions[t] => StaysOver(t)
        /\ sessions'[t].status = sessions[t].status => StaysOver(t)
        /\ sessions'[t].status \in {sessions[t].status, "submitted", "closed"} => StaysOver(t)
    BY DEF StaysOver, Over
  <1>1. CASE UNCHANGED sessions
    BY <1>0, <1>1
  <1>2. ASSUME NEW s \in Sessions, NEW q \in Questions, SaveWrite(s, q) PROVE StaysOver(t)
    <2>1. flight[s][q] \in Loops /\ Merge(s, flight[s][q], q)
      BY <1>2, PageTyped DEF SaveWrite
    <2> QED
      BY <1>0, <2>1, MergeTyped
  <1>3. ASSUME NEW x \in strays, StrayWrite(x) PROVE StaysOver(t)
    <2>1. x.session \in Sessions /\ x.quiz \in Questions /\ x.save \in Loops
          /\ Merge(x.session, x.save, x.quiz)
      BY <1>3, PageTyped DEF Strays, StrayWrite
    <2> QED
      BY <1>0, <2>1, MergeTyped
  <1>4. CASE SubmitClaim
    <2>1. sessions'[t].status = "submitted" \/ sessions'[t] = sessions[t]
      BY <1>4, SubmitClaimFacts
    <2> QED
      BY <1>0, <2>1
  <1>5. CASE Abandon
    <2>1. sessions'[t].status = "closed" \/ sessions'[t] = sessions[t]
      BY <1>5, AbandonFacts
    <2> QED
      BY <1>0, <2>1
  <1>6. CASE Enter
    BY <1>0, <1>6, EnterFacts DEF StaysOver, Over
  <1>7. CASE AskFails
    <2>1. sessions'[t].status \in {sessions[t].status, "submitted"}
      BY <1>7, GoesOnFacts DEF AskFails
    <2> QED
      BY <1>0, <2>1
  <1>8. CASE Reload
    <2>1. sessions'[t].status \in {sessions[t].status, "submitted"}
      BY <1>8, ReloadFacts
    <2> QED
      BY <1>0, <2>1
  <1>9. ASSUME NEW s \in Sessions, Close(s) \/ ExpireLate(s) PROVE StaysOver(t)
    <2>1. sessions'[t].status = "closed" \/ sessions'[t] = sessions[t]
      BY <1>9, CloseFacts
    <2> QED
      BY <1>0, <2>1
  <1> QED
    BY <1>1, <1>2, <1>3, <1>4, <1>5, <1>6, <1>7, <1>8, <1>9
    DEF PageNext, Loop, pageVars, Choose, Retry, SaveRead, Hear, SaveFails, StrayRead, Submit,
        SubmitRead, HearSubmit, Restart, Begin, TopicEnds

\* A step that leaves the page and its loops alone keeps what was over.
LEMMA LifeFrame ==
  ASSUME PageTypeOK, LifeInv, \A s \in Sessions : StaysOver(s),
         UNCHANGED <<page, flight>>,
         ask'.at \in {"enter", "done"} /\ page.session # None
            => sessions'[page.session].status \in {"closed", "submitted"}
  PROVE  LifeInv'
  <1>1. page.session # None => page.session \in Sessions
    BY PageTyped DEF Pages
  <1> QED
    BY <1>1 DEF LifeInv, StaysOver, Over

\* A step of one loop.
LEMMA LoopKeepsLife ==
  ASSUME PageTypeOK, LifeInv, \A t \in Sessions : StaysOver(t),
         NEW s \in Sessions, NEW q \in Questions, OthersStay(s, q),
         page'.session = page.session, page'.result = page.result, ask' = ask,
         page'.lost => page.lost \/ Over(page.session),
         flight'[s][q].at # "idle" => s = page.session \/ flight[s][q].at # "idle",
         flight'[s][q].at = "lost" => flight[s][q].at = "lost" \/ Over(s)
  PROVE  LifeInv'
  <1>1. page.session # None => page.session \in Sessions
    BY PageTyped DEF Pages
  <1>2. page.session # None => sessions'[page.session].status # "absent"
    BY <1>1 DEF LifeInv, StaysOver
  <1>3. ASSUME NEW t \in Sessions, NEW p \in Questions
        PROVE  /\ flight'[t][p].at # "idle" /\ t # page.session => Over(t)'
               /\ flight'[t][p].at = "lost" => Over(t)'
    <2>1. CASE t = s /\ p = q
      BY <2>1 DEF LifeInv, StaysOver
    <2>2. CASE t # s \/ p # q
      <3>1. flight'[t][p] = flight[t][p]
        BY <2>2 DEF OthersStay
      <3> QED
        BY <3>1 DEF LifeInv, StaysOver
    <2> QED
      BY <2>1, <2>2
  <1>4. page.session # None
           /\ (ask'.at \in {"enter", "done"} \/ page'.lost \/ page'.result # None)
           => sessions'[page.session].status \in {"closed", "submitted"}
    BY <1>1 DEF LifeInv, StaysOver, Over
  <1> QED
    BY <1>2, <1>3, <1>4 DEF LifeInv, Over

\* Every step keeps the account of the sessions.
LEMMA LifeStep ==
  PageTypeOK /\ Grounded /\ LifeInv /\ [PageNext]_pageVars => LifeInv'
  <1> SUFFICES ASSUME PageTypeOK, Grounded, LifeInv, [PageNext]_pageVars PROVE LifeInv'
    OBVIOUS
  <1>0. /\ \A s \in Sessions : StaysOver(s)
        /\ page.session # None => page.session \in Sessions
    BY OverIsForGood, PageTyped DEF Pages
  <1>a. page.session # None /\ ask.at \in {"enter", "done"}
           => sessions'[page.session].status \in {"closed", "submitted"}
    BY <1>0 DEF LifeInv, StaysOver, Over
  <1>1. ASSUME NEW q \in Questions, NEW c \in Choices, Choose(q, c) PROVE LifeInv'
    <2>1. /\ page.session \in Sessions /\ Post(q, c) /\ ask' = ask
          /\ page'.session = page.session /\ page'.result = page.result /\ page'.lost = page.lost
      BY <1>1, ChooseFacts
    <2>2. OthersStay(page.session, q)
          /\ (flight'[page.session][q].at = "lost" => flight[page.session][q].at = "lost")
      BY <2>1, PostFacts
    <2> QED
      BY <1>0, <2>1, <2>2, LoopKeepsLife
  <1>2. ASSUME NEW q \in Questions, Retry(q) PROVE LifeInv'
    <2>1. /\ page.session \in Sessions /\ page.latest[q] \in Choices \cup {None}
          /\ Post(q, page.latest[q]) /\ ask' = ask /\ page' = page
      BY <1>2, PageTyped, NoneIsNothing DEF Retry, Grounded, Pages, Answers
    <2>2. OthersStay(page.session, q)
          /\ (flight'[page.session][q].at = "lost" => flight[page.session][q].at = "lost")
      BY <2>1, PostFacts
    <2> QED
      BY <1>0, <2>1, <2>2, LoopKeepsLife
  <1>3. ASSUME NEW s \in Sessions, NEW q \in Questions, SaveRead(s, q) PROVE LifeInv'
    <2>1. OthersStay(s, q) /\ flight[s][q].at = "sent"
          /\ (flight'[s][q].at = "lost" => sessions[s].status # "open")
      BY <1>3, SaveReadFacts
    <2>2. page' = page /\ ask' = ask
      BY <1>3 DEF SaveRead
    <2>3. sessions[s].status # "open" => Over(s)
      <3>1. sessions[s].status \in Statuses
        BY PageTyped DEF Rows
      <3>2. s = page.session => sessions[s].status # "absent"
        BY NoneIsNothing DEF LifeInv
      <3>3. s # page.session => Over(s)
        BY <2>1 DEF LifeInv
      <3> QED
        BY <3>1, <3>2, <3>3 DEF Statuses, Over
    <2> QED
      BY <1>0, <2>1, <2>2, <2>3, LoopKeepsLife
  <1>4. ASSUME NEW s \in Sessions, NEW q \in Questions, SaveWrite(s, q) PROVE LifeInv'
    <2>1. Moves(s, q, "saved") /\ flight[s][q].at = "read" /\ page' = page /\ ask' = ask
      BY <1>4, PageTyped DEF SaveWrite, Moves
    <2>2. OthersStay(s, q) /\ flight'[s][q].at = "saved"
      BY <2>1, LoopMoved
    <2> QED
      BY <1>0, <2>1, <2>2, LoopKeepsLife
  <1>5. ASSUME NEW s \in Sessions, NEW q \in Questions, Hear(s, q) PROVE LifeInv'
    <2>1. /\ OthersStay(s, q) /\ flight[s][q].at # "idle" /\ flight'[s][q].at # "lost"
          /\ page'.session = page.session /\ page'.result = page.result
          /\ page.session # s => page' = page
          /\ page.session = s => page'.lost = (page.lost \/ flight[s][q].at = "lost")
      BY <1>5, HearFacts
    <2>2. ask' = ask
      BY <1>5 DEF Hear
    <2>3. page'.lost => page.lost \/ Over(page.session)
      BY <2>1 DEF LifeInv
    <2> QED
      BY <1>0, <2>1, <2>2, <2>3, LoopKeepsLife
  <1>6. ASSUME NEW s \in Sessions, NEW q \in Questions, SaveFails(s, q) PROVE LifeInv'
    <2>1. Moves(s, q, "failed") /\ flight[s][q].at # "idle" /\ page' = page /\ ask' = ask
      BY <1>6, PageTyped DEF SaveFails, Moves
    <2>2. OthersStay(s, q) /\ flight'[s][q].at = "failed"
      BY <2>1, LoopMoved
    <2> QED
      BY <1>0, <2>1, <2>2, LoopKeepsLife
  <1>7. ASSUME NEW x \in strays, StrayRead(x) \/ StrayWrite(x) PROVE LifeInv'
    <2>1. UNCHANGED <<page, flight, ask>>
      BY <1>7 DEF StrayRead, StrayWrite
    <2> QED
      BY <1>0, <1>a, <2>1, LifeFrame
  <1>8. CASE Submit \/ Restart
    <2>1. UNCHANGED <<page, flight>> /\ ask'.at \notin {"enter", "done"}
      BY <1>8, AskMoved DEF Submit, Restart
    <2> QED
      BY <1>0, <2>1, LifeFrame
  <1>9. CASE SubmitRead
    <2>1. UNCHANGED <<page, flight>> /\ ask'.at \notin {"enter", "done"}
      BY <1>9, SubmitReadFacts DEF SubmitRead
    <2> QED
      BY <1>0, <2>1, LifeFrame
  <1>10. CASE SubmitClaim
    <2>1. UNCHANGED <<page, flight>> /\ sessions'[page.session].status = "submitted"
      BY <1>10, SubmitClaimFacts DEF SubmitClaim
    <2> QED
      BY <1>0, <2>1, LifeFrame
  <1>11. CASE HearSubmit
    <2>1. /\ page.session \in Sessions /\ page'.session = page.session /\ page'.lost = page.lost
          /\ ask.at = "done" \/ page'.result = page.result
          /\ ask'.at = "no" /\ UNCHANGED <<sessions, flight>>
      BY <1>0, <1>11, HearSubmitFacts DEF Grounded
    <2> QED
      BY <2>1 DEF LifeInv, Over
  <1>12. CASE Abandon
    <2>1. UNCHANGED <<page, flight>>
          /\ (ask'.at \in {"enter", "done"} => sessions'[page.session].status = "closed")
      BY <1>12, AbandonFacts DEF Abandon
    <2> QED
      BY <1>0, <2>1, LifeFrame
  <1>13. CASE Begin
    <2>1. UNCHANGED <<page, flight>>
      BY <1>13 DEF Begin
    <2>2. page.session # None => sessions'[page.session].status \in {"closed", "submitted"}
      BY <1>0, <1>13 DEF Begin, LifeInv, StaysOver, Over
    <2> QED
      BY <1>0, <2>1, <2>2, LifeFrame
  <1>14. CASE Enter
    <2>1. CASE UNCHANGED <<sessions, page, disturbed>>
      <3>1. UNCHANGED <<page, flight>> /\ ask'.at = "no"
        BY <1>14, <2>1, EnterFacts DEF NoAsk
      <3> QED
        BY <1>0, <3>1, LifeFrame
    <2>2. CASE ~UNCHANGED <<sessions, page, disturbed>>
      <3>1. PICK s \in Sessions :
              /\ sessions[s].status \in {"open", "absent"}
              /\ page'.session = s /\ ~page'.lost /\ page'.result = None
              /\ sessions'[s].status = "open"
        BY <1>14, <2>2, EnterFacts
      <3>2. ask.at = "enter" /\ ask'.at = "no" /\ flight' = flight
        <4>1. NoAsk.at = "no"
          BY DEF NoAsk
        <4> QED
          BY <1>14, <4>1, EnterFacts
      <3>3. \A q \in Questions : flight[s][q].at = "idle"
        BY <3>1, <3>2, NoneIsNothing DEF LifeInv, Over
      <3>4. ASSUME NEW t \in Sessions, NEW q \in Questions, flight[t][q].at # "idle"
            PROVE  Over(t)
        BY <3>2, <3>4, NoneIsNothing DEF LifeInv
      <3>5. \A t \in Sessions, q \in Questions : flight'[t][q].at # "idle" => Over(t)'
        BY <1>0, <3>2, <3>4 DEF StaysOver
      <3>6. \A t \in Sessions, q \in Questions : flight'[t][q].at = "lost" => Over(t)'
        BY <3>5
      <3> QED
        BY <3>1, <3>2, <3>5, <3>6 DEF LifeInv
    <2> QED
      BY <2>1, <2>2
  <1>15. CASE AskFails
    <2>1. UNCHANGED <<page, flight>> /\ ask'.at = "no"
      BY <1>15 DEF AskFails, NoAsk
    <2> QED
      BY <1>0, <2>1, LifeFrame
  <1>16. CASE Reload
    <2>1. page'.session = None /\ \A s \in Sessions, q \in Questions : flight'[s][q].at = "idle"
      BY <1>16, ReloadFacts DEF Landed
    <2> QED
      BY <2>1 DEF LifeInv
  <1>17. ASSUME NEW s \in Sessions, Close(s) \/ ExpireLate(s) PROVE LifeInv'
    <2>1. UNCHANGED <<page, flight, ask>>
      BY <1>17, CloseFacts
    <2> QED
      BY <1>0, <1>a, <2>1, LifeFrame
  <1>18. CASE TopicEnds \/ UNCHANGED pageVars
    <2>1. UNCHANGED <<page, flight, ask>>
      BY <1>18 DEF TopicEnds, pageVars
    <2> QED
      BY <1>0, <1>a, <2>1, LifeFrame
  <1> QED
    BY <1>1, <1>2, <1>3, <1>4, <1>5, <1>6, <1>7, <1>8, <1>9, <1>10, <1>11, <1>12, <1>13, <1>14,
       <1>15, <1>16, <1>17, <1>18 DEF PageNext, Loop

LEMMA InitLife == PageInit => LifeInv
  BY DEF PageInit, LifeInv, Landed, NoSaves, NoSave, NoAsk

\* page.tsx gives up a session only when the server takes no more answers of it: the
\* refusal that a loop of an earlier session hears is not taken for the page's own.
THEOREM LostSessionsAreOver == PageSpec => []LostIsLost
  <1>1. Grounded /\ LifeInv => LostIsLost
    BY DEF Grounded, LifeInv, LostIsLost, Over
  <1> QED
    BY <1>1, InitTyped, InitLife, TypeStep, LifeStep, PTL DEF PageSpec

-----------------------------------------------------------------------------
(* What is saved                                                            *)

Own(q) == flight[page.session][q]

\* What waits to be sent is what is shown.
Held(q) == page.failed = q \/ Own(q).at # "idle" => page.latest[q] = page.shown[q]

\* The row holds what is shown, if nothing waits, and what a loop has saved.
Kept(q) ==
    disturbed = {} /\ ~page.lost =>
        /\ Own(q).at = "idle" /\ page.failed # q
              => sessions[page.session].answers[q] = page.shown[q]
        /\ Own(q).at = "saved" => sessions[page.session].answers[q] = Own(q).sent

SaveInv ==
    /\ page.session = None => page.shown = Blank
    /\ page.session # None => \A q \in Questions : Held(q) /\ Kept(q)

\* A question that a step leaves alone.
LEMMA QuestionLeftAlone ==
  ASSUME page'.session = page.session, NEW p \in Questions, Held(p), Kept(p),
         flight'[page.session][p] = flight[page.session][p],
         page'.latest[p] = page.latest[p], page'.shown[p] = page.shown[p],
         page'.failed = p => page.failed = p,
         ~page'.lost => ~page.lost,
         disturbed' = {} => /\ disturbed = {}
                            /\ page.failed = p => page'.failed = p
                            /\ sessions'[page.session].answers[p] = sessions[page.session].answers[p]
  PROVE  Held(p)' /\ Kept(p)'
  BY DEF Held, Kept, Own

\* A step that leaves the choices, their loops and their answers alone.
LEMMA SaveFrame ==
  ASSUME PageTypeOK, SaveInv, UNCHANGED <<flight, disturbed>>,
         page'.session = page.session, page'.latest = page.latest, page'.shown = page.shown,
         page'.failed = page.failed, page'.lost = page.lost,
         \A t \in Sessions : sessions'[t].answers = sessions[t].answers
  PROVE  SaveInv'
  <1>1. page.session # None => page.session \in Sessions
    BY PageTyped DEF Pages
  <1>2. ASSUME NEW p \in Questions, page.session # None PROVE Held(p)' /\ Kept(p)'
    BY <1>1, <1>2, QuestionLeftAlone DEF SaveInv
  <1> QED
    BY <1>2 DEF SaveInv

\* A step of a loop of an earlier session.
LEMMA OtherLoop ==
  ASSUME PageTypeOK, SaveInv, NEW s \in Sessions, NEW q \in Questions, OthersStay(s, q),
         s # page.session, page' = page, disturbed' = {} => disturbed = {},
         \A t \in Sessions \ {s} : sessions'[t].answers = sessions[t].answers
  PROVE  SaveInv'
  <1>1. page.session # None => page.session \in Sessions \ {s}
    BY PageTyped DEF Pages
  <1>2. ASSUME NEW p \in Questions, page.session # None PROVE Held(p)' /\ Kept(p)'
    BY <1>1, <1>2, QuestionLeftAlone DEF SaveInv, OthersStay
  <1> QED
    BY <1>2 DEF SaveInv

\* A step of a loop of the page's session: what is left to show of it.
LEMMA OwnLoopStep ==
  ASSUME PageTypeOK, SaveInv, NEW q \in Questions, page.session \in Sessions,
         OthersStay(page.session, q), page'.session = page.session,
         \A p \in Questions \ {q} :
            /\ page'.latest[p] = page.latest[p] /\ page'.shown[p] = page.shown[p]
            /\ page'.failed = p => page.failed = p
            /\ disturbed' = {} =>
                  /\ page.failed = p => page'.failed = p
                  /\ sessions'[page.session].answers[p] = sessions[page.session].answers[p],
         ~page'.lost => ~page.lost,
         disturbed' = {} => disturbed = {},
         Held(q)', Kept(q)'
  PROVE  SaveInv'
  <1>1. page.session # None
    BY NoneIsNothing
  <1>2. ASSUME NEW p \in Questions \ {q} PROVE Held(p)' /\ Kept(p)'
    BY <1>1, <1>2, QuestionLeftAlone DEF SaveInv, OthersStay
  <1> QED
    BY <1>1, <1>2 DEF SaveInv

\* A save writes: no other answer of the row is another one afterwards, or the
\* save is said to overlap.
LEMMA WriteFacts ==
  ASSUME PageTypeOK, NEW s \in Sessions, NEW q \in Questions, NEW save \in Loops,
         Merge(s, save, q)
  PROVE  /\ \A t \in Sessions \ {s} : sessions'[t].answers = sessions[t].answers
         /\ sessions'[s].answers[q] = save.sent
         /\ s = page.session /\ Overlap(s, save, q) = {}
               => \A p \in Questions \ {q} : sessions'[s].answers[p] = sessions[s].answers[p]
  <1>1. /\ sessions'[s].answers = [save.seen EXCEPT ![q] = save.sent]
        /\ \A t \in Sessions \ {s} : sessions'[t] = sessions[t]
        /\ save.seen \in Answers
    BY MergeTyped DEF Loops
  <1>2. /\ sessions'[s].answers[q] = save.sent
        /\ \A p \in Questions \ {q} : sessions'[s].answers[p] = save.seen[p]
    BY <1>1 DEF Answers
  <1> QED
    BY <1>1, <1>2 DEF Overlap

\* Every step keeps the account of the answers.
LEMMA SaveStep ==
  PageTypeOK /\ Grounded /\ LifeInv /\ SaveInv /\ [PageNext]_pageVars => SaveInv'
  <1> SUFFICES ASSUME PageTypeOK, Grounded, LifeInv, SaveInv, [PageNext]_pageVars PROVE SaveInv'
    OBVIOUS
  <1>0. /\ page.session # None => page.session \in Sessions
        /\ page.session \in Sessions => \A q \in Questions : Held(q) /\ Kept(q)
    BY PageTyped, NoneIsNothing DEF Pages, SaveInv
  <1>1. ASSUME NEW q \in Questions, NEW c \in Choices, Choose(q, c) PROVE SaveInv'
    <2>1. /\ page.session \in Sessions /\ Post(q, c)
          /\ page'.session = page.session /\ page'.failed = page.failed /\ page'.lost = page.lost
          /\ page'.latest[q] = page'.shown[q]
          /\ \A p \in Questions \ {q} :
                page'.latest[p] = page.latest[p] /\ page'.shown[p] = page.shown[p]
          /\ UNCHANGED <<sessions, disturbed>>
      BY <1>1, ChooseFacts
    <2>2. /\ OthersStay(page.session, q)
          /\ \/ flight[page.session][q].at # "idle" /\ flight' = flight
             \/ flight'[page.session][q].at = "sent"
      BY <2>1, PostFacts
    <2>3. Held(q)'
      BY <2>1 DEF Held
    <2>4. Kept(q)'
      BY <1>0, <2>1, <2>2 DEF Kept, Own
    <2> QED
      BY <2>1, <2>2, <2>3, <2>4, OwnLoopStep
  <1>2. ASSUME NEW q \in Questions, Retry(q) PROVE SaveInv'
    <2>1. /\ page.session \in Sessions /\ page.latest[q] \in Choices \cup {None}
          /\ Post(q, page.latest[q]) /\ UNCHANGED <<sessions, page, disturbed>>
          /\ page.failed = q
      BY <1>2, PageTyped, NoneIsNothing DEF Retry, Grounded, Pages, Answers
    <2>2. /\ OthersStay(page.session, q)
          /\ \/ flight[page.session][q].at # "idle" /\ flight' = flight
             \/ flight'[page.session][q].at = "sent"
      BY <2>1, PostFacts
    <2>3. Held(q)'
      BY <1>0, <2>1 DEF Held
    <2>4. Kept(q)'
      BY <1>0, <2>1, <2>2 DEF Kept, Own
    <2> QED
      BY <2>1, <2>2, <2>3, <2>4, OwnLoopStep
  <1>3. ASSUME NEW s \in Sessions, NEW q \in Questions, SaveRead(s, q) PROVE SaveInv'
    <2>1. /\ OthersStay(s, q) /\ flight[s][q].at = "sent"
          /\ flight'[s][q].at \in {"lost", "failed", "read"}
      BY <1>3, SaveReadFacts
    <2>2. UNCHANGED <<sessions, page, disturbed>>
      BY <1>3 DEF SaveRead
    <2>3. CASE s = page.session
      <3>1. Held(q)' /\ Kept(q)'
        BY <1>0, <2>1, <2>2, <2>3 DEF Held, Kept, Own
      <3> QED
        BY <2>1, <2>2, <2>3, <3>1, OwnLoopStep
    <2> QED
      BY <2>1, <2>2, <2>3, OtherLoop
  <1>4. ASSUME NEW s \in Sessions, NEW q \in Questions, SaveWrite(s, q) PROVE SaveInv'
    <2>1. /\ flight[s][q] \in Loops /\ Merge(s, flight[s][q], q) /\ Moves(s, q, "saved")
          /\ flight[s][q].at = "read" /\ page' = page
          /\ disturbed' = disturbed \cup Overlap(s, flight[s][q], q)
      BY <1>4, PageTyped DEF SaveWrite, Moves
    <2>2. /\ OthersStay(s, q)
          /\ flight'[s][q].at = "saved" /\ flight'[s][q].sent = flight[s][q].sent
      BY <2>1, LoopMoved
    <2>3. /\ \A t \in Sessions \ {s} : sessions'[t].answers = sessions[t].answers
          /\ sessions'[s].answers[q] = flight[s][q].sent
          /\ s = page.session /\ disturbed' = {}
               => \A p \in Questions \ {q} : sessions'[s].answers[p] = sessions[s].answers[p]
      BY <2>1, WriteFacts
    <2>4. disturbed' = {} => disturbed = {}
      BY <2>1
    <2>5. CASE s = page.session
      <3>1. Held(q)' /\ Kept(q)'
        BY <1>0, <2>1, <2>2, <2>3, <2>5 DEF Held, Kept, Own
      <3> QED
        BY <2>1, <2>2, <2>3, <2>4, <2>5, <3>1, OwnLoopStep
    <2> QED
      BY <2>1, <2>2, <2>3, <2>4, <2>5, OtherLoop
  <1>5. ASSUME NEW s \in Sessions, NEW q \in Questions, Hear(s, q) PROVE SaveInv'
    <2>1. UNCHANGED sessions /\ (disturbed' = {} => disturbed = {})
          /\ (disturbed' = {} /\ s = page.session /\ flight[s][q].at = "failed"
                => page.failed \in {None, q})
      BY <1>5 DEF Hear, OwnLoop
    <2>2. OthersStay(s, q) /\ (page.session # s => page' = page)
      BY <1>5, HearFacts
    <2>3. CASE s = page.session
      <3>1. /\ flight[s][q].at \in {"saved", "lost", "failed"}
            /\ flight'[s][q].at \in {"idle", "sent"}
            /\ flight'[s][q].at = "idle" /\ flight[s][q].at = "saved"
                  => page.latest[q] = flight[s][q].sent
            /\ page'.session = page.session /\ page'.latest = page.latest
            /\ page'.shown = page.shown
            /\ page'.lost = (page.lost \/ flight[s][q].at = "lost")
            /\ flight[s][q].at = "failed" => page'.failed = q
            /\ flight[s][q].at # "failed"
                  => page'.failed = page.failed \/ (page'.failed = None /\ page.failed = q)
        BY <1>5, <2>3, HearFacts
      <3>2. Held(q) /\ Kept(q)
        BY <1>0, <2>3
      <3>3. page.latest[q] = page.shown[q]
        BY <2>3, <3>1, <3>2 DEF Held, Own
      <3>4. Held(q)'
        BY <3>1, <3>3 DEF Held
      <3>5. ASSUME disturbed' = {}, ~page'.lost, page'.failed # q
            PROVE  flight'[s][q].at = "idle" => sessions'[s].answers[q] = page'.shown[q]
        BY <2>1, <2>3, <3>1, <3>2, <3>3, <3>5 DEF Kept, Own
      <3>6. Kept(q)'
        BY <2>3, <3>1, <3>5 DEF Kept, Own
      <3>7. \A p \in Questions \ {q} :
               /\ page'.failed = p => page.failed = p
               /\ disturbed' = {} => (page.failed = p => page'.failed = p)
        BY <2>1, <2>3, <3>1, NoneIsNothing
      <3> QED
        BY <2>1, <2>2, <2>3, <3>1, <3>4, <3>6, <3>7, OwnLoopStep
    <2> QED
      BY <2>1, <2>2, <2>3, OtherLoop
  <1>6. ASSUME NEW s \in Sessions, NEW q \in Questions, SaveFails(s, q) PROVE SaveInv'
    <2>1. /\ Moves(s, q, "failed") /\ flight[s][q].at # "idle"
          /\ UNCHANGED <<sessions, page, disturbed>>
      BY <1>6, PageTyped DEF SaveFails, Moves
    <2>2. OthersStay(s, q) /\ flight'[s][q].at = "failed"
      BY <2>1, LoopMoved
    <2>3. CASE s = page.session
      <3>1. Held(q)' /\ Kept(q)'
        BY <1>0, <2>1, <2>2, <2>3 DEF Held, Kept, Own
      <3> QED
        BY <2>1, <2>2, <2>3, <3>1, OwnLoopStep
    <2> QED
      BY <2>1, <2>2, <2>3, OtherLoop
  <1>7. ASSUME NEW x \in strays, StrayRead(x) PROVE SaveInv'
    BY <1>7, SaveFrame DEF StrayRead
  <1>8. ASSUME NEW x \in strays, StrayWrite(x) PROVE SaveInv'
    <2> DEFINE s == x.session
               q == x.quiz
    <2>1. s \in Sessions /\ q \in Questions /\ x.save \in Loops /\ Merge(s, x.save, q)
          /\ UNCHANGED <<page, flight>> /\ disturbed' = disturbed \cup Overlap(s, x.save, q) \cup Late(x)
      BY <1>8, PageTyped DEF Strays, StrayWrite
    <2>2. /\ \A t \in Sessions \ {s} : sessions'[t].answers = sessions[t].answers
          /\ sessions'[s].answers[q] = x.save.sent
          /\ s = page.session /\ Overlap(s, x.save, q) = {}
               => \A p \in Questions \ {q} : sessions'[s].answers[p] = sessions[s].answers[p]
      BY <2>1, WriteFacts
    <2>3. /\ disturbed' = {} => disturbed = {} /\ Overlap(s, x.save, q) = {} /\ Late(x) = {}
          /\ s = page.session /\ Late(x) = {}
               => /\ x.save.sent = page.shown[q]
                  /\ flight[s][q].at = "saved" => x.save.sent = flight[s][q].sent
      BY <2>1 DEF Late
    <2>4. OthersStay(s, q)
      BY <2>1 DEF OthersStay
    <2> HIDE DEF s, q
    <2>5. CASE s = page.session
      <3>1. Held(q)' /\ Kept(q)'
        BY <1>0, <2>1, <2>2, <2>3, <2>5 DEF Held, Kept, Own
      <3>2. \A p \in Questions \ {q} :
               disturbed' = {} => sessions'[page.session].answers[p] = sessions[page.session].answers[p]
        BY <2>2, <2>3, <2>5
      <3> QED
        BY <2>1, <2>3, <2>4, <2>5, <3>1, <3>2, OwnLoopStep
    <2> QED
      BY <2>1, <2>2, <2>3, <2>4, <2>5, OtherLoop
  <1>9. CASE Submit \/ SubmitRead \/ Restart \/ Begin
    BY <1>9, SaveFrame DEF Submit, SubmitRead, Restart, Begin
  <1>10. CASE SubmitClaim
    BY <1>10, SubmitClaimFacts, SaveFrame DEF SubmitClaim
  <1>11. CASE Abandon
    BY <1>11, AbandonFacts, SaveFrame DEF Abandon
  <1>12. CASE HearSubmit
    BY <1>12, HearSubmitFacts, SaveFrame
  <1>13. CASE Enter
    <2>1. CASE UNCHANGED <<sessions, page, disturbed>>
      BY <1>13, <2>1, EnterFacts, SaveFrame
    <2>2. CASE ~UNCHANGED <<sessions, page, disturbed>>
      <3>1. PICK s \in Sessions :
              /\ sessions[s].status \in {"open", "absent"}
              /\ page'.session = s /\ page'.failed = None /\ page'.shown = sessions[s].answers
              /\ sessions'[s].answers = sessions[s].answers
        BY <1>13, <2>2, EnterFacts
      <3>2. ask.at = "enter" /\ flight' = flight
        BY <1>13, EnterFacts
      <3>3. \A q \in Questions : flight[s][q].at = "idle"
        BY <3>1, <3>2, NoneIsNothing DEF LifeInv, Over
      <3>4. ASSUME NEW q \in Questions PROVE Held(q)' /\ Kept(q)'
        BY <3>1, <3>2, <3>3, NoneIsNothing DEF Held, Kept, Own
      <3> QED
        BY <3>1, <3>4, NoneIsNothing DEF SaveInv
    <2> QED
      BY <2>1, <2>2
  <1>14. CASE AskFails
    BY <1>14, GoesOnFacts, SaveFrame DEF AskFails
  <1>15. CASE Reload
    <2>1. page'.session = None /\ page'.shown = Blank
      BY <1>15, ReloadFacts DEF Landed
    <2> QED
      BY <2>1 DEF SaveInv
  <1>16. ASSUME NEW s \in Sessions, Close(s) \/ ExpireLate(s) PROVE SaveInv'
    BY <1>16, CloseFacts, SaveFrame
  <1>17. CASE TopicEnds \/ UNCHANGED pageVars
    BY <1>17, SaveFrame DEF TopicEnds, pageVars
  <1> QED
    BY <1>1, <1>2, <1>3, <1>4, <1>5, <1>6, <1>7, <1>8, <1>9, <1>10, <1>11, <1>12, <1>13, <1>14,
       <1>15, <1>16, <1>17 DEF PageNext, Loop

\* What the page shows as saved is what the row holds.
LEMMA SavedIsKept == PageTypeOK /\ SaveInv => SavedIsSaved
  <1> SUFFICES ASSUME PageTypeOK, SaveInv, SaysSaved, disturbed = {}
               PROVE  sessions[page.session].answers = page.shown
    BY DEF SavedIsSaved
  <1>1. page.session \in Sessions /\ page.shown \in Answers
    BY PageTyped DEF SaysSaved, SaveInv, Pages
  <1>2. sessions[page.session].answers \in Answers
    BY <1>1, PageTyped DEF Rows
  <1>3. \A q \in Questions : sessions[page.session].answers[q] = page.shown[q]
    BY <1>1, NoneIsNothing DEF SaveInv, Kept, SaysSaved, NotSaving, Own
  <1> QED
    BY <1>1, <1>2, <1>3 DEF Answers

LEMMA InitSave == PageInit => SaveInv
  BY DEF PageInit, SaveInv, Landed

\* When the label of page.tsx says that everything is saved, the row of the session
\* holds the answers that the page shows, unless a failed save was forgotten, a save
\* wrote back an older answer of another question, or a save that the page had given
\* up wrote late.
THEOREM SavedAnswersAreSaved == PageSpec => []SavedIsSaved
  <1> QED
    BY InitTyped, InitLife, InitSave, TypeStep, LifeStep, SaveStep, SavedIsKept, PTL
    DEF PageSpec

-----------------------------------------------------------------------------
(* What is graded                                                           *)

\* Nothing waits to be saved.
Quiet == page.failed = None /\ ~page.lost /\ \A q \in Questions : Own(q).at = "idle"

Submitting == ask.at \in {"sent", "read", "done"}

\* A submission made when nothing waited grades what is shown.
GradeInv ==
    /\ sure /\ Submitting => Quiet
    /\ sure /\ disturbed = {} /\ ask.at \in {"read", "done"} => ask.graded = page.shown
    /\ GradedAsShown

\* A step that neither asks nor is told of a result.
LEMMA GradeFrame ==
  ASSUME GradeInv, ask' = ask, sure' = sure, disturbed' = {} => disturbed = {},
         page'.shown = page.shown, page'.result = page.result,
         sure /\ Submitting => Quiet'
  PROVE  GradeInv'
  BY DEF GradeInv, GradedAsShown, Submitting

\* A step of a loop: a session whose loop runs is not quiet.
LEMMA LoopKeepsQuiet ==
  ASSUME PageTypeOK, Grounded, GradeInv, NEW s \in Sessions, NEW q \in Questions,
         OthersStay(s, q), flight[s][q].at # "idle", s # page.session => page' = page,
         sure, Submitting
  PROVE  Quiet'
  <1>1. page.session \in Sessions /\ Quiet
    BY PageTyped DEF Grounded, GradeInv, Submitting, Pages
  <1>2. s # page.session
    BY <1>1 DEF Quiet, Own
  <1> QED
    BY <1>1, <1>2 DEF Quiet, Own, OthersStay

\* A step that leaves the page as it is and does not submit.
LEMMA NoLongerSubmitting ==
  ASSUME GradeInv, sure' = sure, disturbed' = {} => disturbed = {},
         page'.shown = page.shown, page'.result = page.result,
         ask'.at \notin {"sent", "read", "done"}
  PROVE  GradeInv'
  BY DEF GradeInv, GradedAsShown, Submitting

\* Every step keeps the account of the submission.
LEMMA GradeStep ==
  PageTypeOK /\ Grounded /\ SaveInv /\ GradeInv /\ [PageNext]_pageVars => GradeInv'
  <1> SUFFICES ASSUME PageTypeOK, Grounded, SaveInv, GradeInv, [PageNext]_pageVars PROVE GradeInv'
    OBVIOUS
  <1>0. UNCHANGED <<page, flight>> /\ sure /\ Submitting => Quiet'
    BY DEF GradeInv, Quiet, Own
  <1>a. NoAsk.at = "no"
    BY DEF NoAsk
  <1>1. ASSUME NEW q \in Questions, NEW c \in Choices, Choose(q, c) PROVE GradeInv'
    BY <1>1, ChooseFacts DEF GradeInv, GradedAsShown
  <1>2. ASSUME NEW q \in Questions, Retry(q) PROVE GradeInv'
    <2>1. UNCHANGED <<page, ask, sure, disturbed>> /\ page.failed # None
      BY <1>2, NoneIsNothing DEF Retry
    <2>2. ~(sure /\ Submitting)
      BY <2>1 DEF GradeInv, Quiet
    <2> QED
      BY <2>1, <2>2, GradeFrame
  <1>3. ASSUME NEW s \in Sessions, NEW q \in Questions, SaveRead(s, q) PROVE GradeInv'
    <2>1. UNCHANGED <<page, ask, sure, disturbed>> /\ OthersStay(s, q) /\ flight[s][q].at # "idle"
      BY <1>3, SaveReadFacts DEF SaveRead
    <2> QED
      BY <2>1, LoopKeepsQuiet, GradeFrame
  <1>4. ASSUME NEW s \in Sessions, NEW q \in Questions, SaveWrite(s, q) PROVE GradeInv'
    <2>1. /\ UNCHANGED <<page, ask, sure>> /\ (disturbed' = {} => disturbed = {})
          /\ Moves(s, q, "saved") /\ flight[s][q].at # "idle"
      BY <1>4, PageTyped DEF SaveWrite, Moves
    <2>2. OthersStay(s, q)
      BY <2>1, LoopMoved
    <2> QED
      BY <2>1, <2>2, LoopKeepsQuiet, GradeFrame
  <1>5. ASSUME NEW s \in Sessions, NEW q \in Questions, Hear(s, q) PROVE GradeInv'
    <2>1. /\ OthersStay(s, q) /\ flight[s][q].at # "idle"
          /\ page'.shown = page.shown /\ page'.result = page.result
          /\ s # page.session => page' = page
      BY <1>5, HearFacts
    <2>2. UNCHANGED <<ask, sure>> /\ (disturbed' = {} => disturbed = {})
      BY <1>5 DEF Hear
    <2> QED
      BY <2>1, <2>2, LoopKeepsQuiet, GradeFrame
  <1>6. ASSUME NEW s \in Sessions, NEW q \in Questions, SaveFails(s, q) PROVE GradeInv'
    <2>1. /\ UNCHANGED <<page, ask, sure, disturbed>>
          /\ Moves(s, q, "failed") /\ flight[s][q].at # "idle"
      BY <1>6, PageTyped DEF SaveFails, Moves
    <2>2. OthersStay(s, q)
      BY <2>1, LoopMoved
    <2> QED
      BY <2>1, <2>2, LoopKeepsQuiet, GradeFrame
  <1>7. ASSUME NEW x \in strays, StrayRead(x) \/ StrayWrite(x) PROVE GradeInv'
    <2>1. UNCHANGED <<page, flight, ask, sure>> /\ (disturbed' = {} => disturbed = {})
      BY <1>7 DEF StrayRead, StrayWrite
    <2> QED
      BY <1>0, <2>1, GradeFrame
  <1>8. CASE Submit
    <2>1. /\ page.session \in Sessions /\ page.result = None /\ sure' = SaysSaved
          /\ ask'.at = "sent" /\ UNCHANGED <<page, flight, disturbed>>
      BY <1>8, PageTyped, AskMoved DEF Submit, Pages
    <2>2. sure' => Quiet'
      BY <2>1 DEF SaysSaved, NotSaving, Quiet, Own
    <2> QED
      BY <2>1, <2>2 DEF GradeInv, GradedAsShown
  <1>9. CASE SubmitRead
    <2>1. /\ page.session \in Sessions /\ ask.at = "sent"
          /\ \/ ask'.at = "refused"
             \/ ask'.at = "read" /\ ask'.graded = sessions[page.session].answers
          /\ UNCHANGED <<page, flight, sure, disturbed>>
      BY <1>9, SubmitReadFacts DEF SubmitRead
    <2>2. ASSUME sure, disturbed = {} PROVE sessions[page.session].answers = page.shown
      <3>1. Quiet
        BY <2>1, <2>2 DEF GradeInv, Submitting
      <3>2. \A q \in Questions : sessions[page.session].answers[q] = page.shown[q]
        BY <2>1, <2>2, <3>1, NoneIsNothing DEF SaveInv, Kept, Quiet
      <3>3. sessions[page.session].answers \in Answers /\ page.shown \in Answers
        BY <2>1, PageTyped DEF Rows, Pages
      <3> QED
        BY <3>2, <3>3 DEF Answers
    <2>3. sure => Quiet'
      BY <2>1, <1>0 DEF Submitting
    <2> QED
      BY <2>1, <2>2, <2>3 DEF GradeInv, GradedAsShown
  <1>10. CASE SubmitClaim
    <2>1. /\ ask.at = "read"
          /\ \/ ask'.at = "refused"
             \/ ask'.at = "done" /\ ask'.graded = ask.graded
          /\ UNCHANGED <<page, flight, sure, disturbed>>
      BY <1>10, SubmitClaimFacts DEF SubmitClaim
    <2>2. sure => Quiet'
      BY <2>1, <1>0 DEF Submitting
    <2> QED
      BY <2>1, <2>2 DEF GradeInv, GradedAsShown
  <1>11. CASE HearSubmit
    <2>1. /\ page'.shown = page.shown /\ ask'.at = "no" /\ UNCHANGED <<sure, disturbed>>
          /\ \/ ask.at = "done" /\ page'.result = ask.graded
             \/ page'.result = page.result
      BY <1>11, HearSubmitFacts
    <2> QED
      BY <2>1 DEF GradeInv, GradedAsShown, Submitting
  <1>12. CASE Restart \/ Begin
    <2>1. UNCHANGED <<page, sure, disturbed>> /\ ask'.at \in {"abandon", "enter"}
      BY <1>12, AskMoved DEF Restart, Begin
    <2> QED
      BY <2>1, NoLongerSubmitting
  <1>13. CASE Abandon
    <2>1. UNCHANGED <<page, sure, disturbed>> /\ ask'.at \in {"no", "enter"}
      BY <1>13, AbandonFacts DEF Abandon
    <2> QED
      BY <2>1, NoLongerSubmitting
  <1>14. CASE Enter
    <2>1. ask'.at = "no" /\ sure' = sure
          /\ (UNCHANGED <<page, disturbed>> \/ page'.result = None)
      BY <1>14, <1>a, EnterFacts
    <2> QED
      BY <2>1, NoLongerSubmitting DEF GradeInv, GradedAsShown, Submitting
  <1>15. CASE AskFails
    <2>1. UNCHANGED <<page, sure, disturbed>> /\ ask'.at = "no"
      BY <1>15, <1>a DEF AskFails
    <2> QED
      BY <2>1, NoLongerSubmitting
  <1>16. CASE Reload
    <2>1. page'.result = None /\ ask'.at = "no"
      BY <1>16, <1>a, ReloadFacts DEF Landed
    <2> QED
      BY <2>1 DEF GradeInv, GradedAsShown, Submitting
  <1>17. ASSUME NEW s \in Sessions, Close(s) \/ ExpireLate(s) PROVE GradeInv'
    <2>1. UNCHANGED <<page, flight, ask, sure, disturbed>>
      BY <1>17, CloseFacts
    <2> QED
      BY <1>0, <2>1, GradeFrame
  <1>18. CASE TopicEnds \/ UNCHANGED pageVars
    <2>1. UNCHANGED <<page, flight, ask, sure, disturbed>>
      BY <1>18 DEF TopicEnds, pageVars
    <2> QED
      BY <1>0, <2>1, GradeFrame
  <1> QED
    BY <1>1, <1>2, <1>3, <1>4, <1>5, <1>6, <1>7, <1>8, <1>9, <1>10, <1>11, <1>12, <1>13, <1>14,
       <1>15, <1>16, <1>17, <1>18 DEF PageNext, Loop

\* A learner who submits while the label says saved, and presses no key until the
\* answer, is shown the result of the answers on the page, with the same exceptions.
THEOREM SavedAnswersAreGraded == PageSpec => []GradedAsShown
  <1>1. PageInit => GradeInv
    BY DEF PageInit, GradeInv, GradedAsShown
  <1>2. GradeInv => GradedAsShown
    BY DEF GradeInv
  <1> QED
    BY <1>1, <1>2, InitTyped, InitLife, InitSave, TypeStep, LifeStep, SaveStep, GradeStep,
       PTL DEF PageSpec

=============================================================================
