-------------------------- MODULE NotificationCenter --------------------------
(***************************************************************************)
(* The notifications of one user: the rows in the database, the daily job  *)
(* that adds reminders, the push of new rows to the open event stream, and *)
(* the bell of one browser tab, which merges pushes with its own reads.    *)
(*                                                                         *)
(* The registry of streams is in the memory of the one server process: a   *)
(* crash closes them all.  An event that is lost is never sent again.      *)
(***************************************************************************)
EXTENDS Naturals, Sequences, FiniteSets

CONSTANTS
    Topics,        \* open topics, numbered in the order the job takes them
    MaxReminders,  \* MAX_DAILY_REMINDERS_PER_USER, 2 in the code
    Pushes,        \* publications in flight at once
    Fetches,       \* refreshes of the tab in flight at once
    MaxChanges     \* bound on new rows, completions, marks and failures

ASSUME TopicsAreNumbered == Topics \subseteq Nat \ {0} /\ IsFiniteSet(Topics)
ASSUME BoundsAreNaturals == MaxReminders \in Nat /\ MaxChanges \in Nat

VARIABLES
    rows,      \* the user's notifications of the day, and whether they are read
    done,      \* topics with an official result or completed
    job,       \* the daily job
    pushes,    \* per slot, created rows being published
    stream,    \* the tab's stream: closed, or open with the events on their way
    fetches,   \* per slot, a refresh in flight
    mark,      \* the request that marks rows as read
    bell,      \* what the tab shows: rows and number of unread ones
    seen,      \* the ids the tab has met
    changes,   \* how many changes there have been
    troubled   \* history: a publication or a refresh has failed

vars == <<rows, done, job, pushes, stream, fetches, mark, bell, seen, changes, troubled>>

-----------------------------------------------------------------------------

\* A row is named by its dedupKey: the reminder of a topic, or an event's.
Event == 0
Keys == Topics \cup {Event}

Unread(r) == Cardinality({k \in DOMAIN r : ~r[k]})
Closed == [open |-> FALSE, events |-> <<>>]
NoJob == [pc |-> "idle", new |-> {}]
NoPush == [pc |-> "idle", new |-> {}, unread |-> 0]
NoFetch == [pc |-> "idle", rows |-> <<>>, unread |-> 0, reads |-> {}]
NoMark == [pc |-> "idle", keys |-> {}]
Asked == [NoFetch EXCEPT !.pc = "asked", !.reads = {"list", "count"}]

\* Which free slot is taken makes no difference.
Free(slots) == CHOOSE s \in DOMAIN slots : slots[s].pc = "idle"

Change == changes < MaxChanges /\ changes' = changes + 1

\* The tab has mounted: it refreshes, and opens its stream.
Init ==
    /\ rows = <<>>
    /\ done = {}
    /\ job = NoJob
    /\ pushes = [p \in Pushes |-> NoPush]
    /\ stream = Closed
    /\ LET none == [f \in Fetches |-> NoFetch] IN fetches = [none EXCEPT ![Free(none)] = Asked]
    /\ mark = NoMark
    /\ bell = [rows |-> <<>>, unread |-> 0]
    /\ seen = {}
    /\ changes = 0
    /\ troubled = FALSE

-----------------------------------------------------------------------------
(* The server: new rows                                                     *)

\* Rows are inserted unless their keys exist; those created are then published.
Create(new) ==
    LET created == new \ DOMAIN rows
        p == Free(pushes)
    IN
    /\ \E q \in Pushes : pushes[q].pc = "idle"
    /\ rows' = [k \in DOMAIN rows \cup created |-> k \in DOMAIN rows /\ rows[k]]
    /\ pushes' = IF created = {} THEN pushes
                 ELSE [pushes EXCEPT ![p] = [NoPush EXCEPT !.pc = "count", !.new = created]]

\* A decision or an official result commits its notification.
Announce ==
    /\ Change
    /\ Event \notin DOMAIN rows
    /\ Create({Event})
    /\ UNCHANGED <<done, job, stream, fetches, mark, bell, seen, troubled>>

Complete(t) ==
    /\ Change
    /\ t \notin done
    /\ done' = done \cup {t}
    /\ UNCHANGED <<rows, job, pushes, stream, fetches, mark, bell, seen, troubled>>

\* Mutant: a job that runs again starts counting at zero.
FreshAllowance == MaxReminders

Allowance ==
    LET sent == Cardinality(DOMAIN rows \cap Topics) IN
    IF sent < MaxReminders THEN MaxReminders - sent ELSE 0

\* runDailyReminders, the reads: the first topics that are not done, as many as
\* the cap still allows.  A job that runs twice a day must not exceed it.
RunDaily ==
    /\ job.pc = "idle"
    /\ Change
    /\ job' = [pc |-> "write",
               new |-> {t \in Topics \ done : Cardinality({s \in Topics \ done : s < t}) < Allowance}]
    /\ UNCHANGED <<rows, done, pushes, stream, fetches, mark, bell, seen, troubled>>

WriteReminders ==
    /\ job.pc = "write"
    /\ Create(job.new)
    /\ job' = NoJob
    /\ UNCHANGED <<done, stream, fetches, mark, bell, seen, changes, troubled>>

-----------------------------------------------------------------------------
(* The server: publishing                                                   *)

\* publishCreated: the unread rows are counted,
CountUnread(p) ==
    /\ pushes[p].pc = "count"
    /\ pushes' = [pushes EXCEPT ![p].pc = "push", ![p].unread = Unread(rows)]
    /\ UNCHANGED <<rows, done, job, stream, fetches, mark, bell, seen, changes, troubled>>

\* and one event per created row goes to the streams that are open now.
Push(p) ==
    /\ pushes[p].pc = "push"
    /\ \E k \in pushes[p].new :
         /\ stream' = IF stream.open
                      THEN [stream EXCEPT !.events = Append(@, [new |-> {k}, unread |-> pushes[p].unread])]
                      ELSE stream
         /\ pushes' = [pushes EXCEPT ![p] =
                         IF pushes[p].new = {k} THEN NoPush
                         ELSE [pushes[p] EXCEPT !.new = @ \ {k}]]
    /\ UNCHANGED <<rows, done, job, fetches, mark, bell, seen, changes, troubled>>

\* The count fails, which is only logged.
PushFails(p) ==
    /\ pushes[p].pc = "count"
    /\ Change
    /\ pushes' = [pushes EXCEPT ![p] = NoPush]
    /\ troubled' = TRUE
    /\ UNCHANGED <<rows, done, job, stream, fetches, mark, bell, seen>>

-----------------------------------------------------------------------------
(* The tab                                                                  *)

Refresh ==
    /\ \E f \in Fetches : fetches[f].pc = "idle"
    /\ fetches' = [fetches EXCEPT ![Free(fetches)] = Asked]

\* The browser (re)connects: the server subscribes, and the tab learns it.
OpenEvent == [new |-> {}, unread |-> 0]

Connect ==
    /\ ~stream.open
    /\ stream' = [open |-> TRUE, events |-> <<OpenEvent>>]
    /\ UNCHANGED <<rows, done, job, pushes, fetches, mark, bell, seen, changes, troubled>>

\* The connection is lost with what is on its way.
Disconnect ==
    /\ stream.open
    /\ Change
    /\ stream' = Closed
    /\ UNCHANGED <<rows, done, job, pushes, fetches, mark, bell, seen, troubled>>

\* Mutant: an opened stream is taken to miss nothing.
Opened == fetches' = fetches

OnOpen == Refresh

\* Mutant: every event counts one more.
CountedUp(event) == bell.unread + 1

Count(event) == event.unread

\* onopen refreshes; onNotification shows the count, and the row if it is new.
Receive ==
    /\ stream.events # <<>>
    /\ stream' = [stream EXCEPT !.events = Tail(@)]
    /\ LET event == Head(stream.events) IN
       \/ /\ event = OpenEvent
          /\ OnOpen
          /\ UNCHANGED <<bell, seen>>
       \/ /\ event # OpenEvent
          /\ seen' = seen \cup event.new
          /\ bell' = [rows |-> IF event.new \subseteq seen THEN bell.rows
                               ELSE [k \in DOMAIN bell.rows \cup event.new |->
                                       k \notin event.new /\ bell.rows[k]],
                      unread |-> Count(event)]
          /\ UNCHANGED fetches
    /\ UNCHANGED <<rows, done, job, pushes, mark, changes, troubled>>

\* The window gets the focus, or the panel is opened.  That two refreshes overlap
\* is left to those that an opened stream starts.
Focus ==
    /\ \A f \in Fetches : fetches[f].pc = "idle"
    /\ Refresh
    /\ UNCHANGED <<rows, done, job, pushes, stream, mark, bell, seen, changes, troubled>>

\* refresh reads list and count by two requests at once.
Read(f) ==
    /\ \/ /\ "list" \in fetches[f].reads
          /\ fetches' = [fetches EXCEPT ![f].rows = rows, ![f].reads = @ \ {"list"}]
       \/ /\ "count" \in fetches[f].reads
          /\ fetches' = [fetches EXCEPT ![f].unread = Unread(rows), ![f].reads = @ \ {"count"}]
    /\ UNCHANGED <<rows, done, job, pushes, stream, mark, bell, seen, changes, troubled>>

\* Mutant: a refresh adds rows and keeps the count that events brought.
FetchedRows(f) == [rows |-> fetches[f].rows, unread |-> bell.unread]

Fetched(f) == [rows |-> fetches[f].rows, unread |-> fetches[f].unread]

Met(f) == seen \cup DOMAIN fetches[f].rows

\* Its answer replaces what is shown, however old it is.
Apply(f) ==
    /\ fetches[f].pc = "asked" /\ fetches[f].reads = {}
    /\ bell' = Fetched(f)
    /\ seen' = Met(f)
    /\ fetches' = [fetches EXCEPT ![f] = NoFetch]
    /\ UNCHANGED <<rows, done, job, pushes, stream, mark, changes, troubled>>

FetchFails(f) ==
    /\ fetches[f].pc = "asked"
    /\ Change
    /\ fetches' = [fetches EXCEPT ![f] = NoFetch]
    /\ troubled' = TRUE
    /\ UNCHANGED <<rows, done, job, pushes, stream, mark, bell, seen>>

\* One unread row of the panel, or all of them.
Mark ==
    /\ mark.pc = "idle"
    /\ Change
    /\ \/ \E k \in DOMAIN bell.rows : ~bell.rows[k] /\ mark' = [pc |-> "sent", keys |-> {k}]
       \/ bell.unread > 0 /\ mark' = [pc |-> "sent", keys |-> Keys]
    /\ UNCHANGED <<rows, done, job, pushes, stream, fetches, bell, seen, troubled>>

MarkWrite ==
    /\ mark.pc = "sent"
    /\ mark' = [mark EXCEPT !.pc = "answered"]
    /\ rows' = [k \in DOMAIN rows |-> rows[k] \/ k \in mark.keys]
    /\ UNCHANGED <<done, job, pushes, stream, fetches, bell, seen, changes, troubled>>

\* The tab counts down by itself.
MarkDone ==
    /\ mark.pc = "answered"
    /\ mark' = NoMark
    /\ bell' = [rows |-> [k \in DOMAIN bell.rows |-> bell.rows[k] \/ k \in mark.keys],
                unread |-> IF mark.keys = Keys \/ bell.unread = 0 THEN 0 ELSE bell.unread - 1]
    /\ UNCHANGED <<rows, done, job, pushes, stream, fetches, seen, changes, troubled>>

\* The server process dies: streams close, and requests and jobs end where they are.
Crash ==
    /\ Change
    /\ stream' = Closed
    /\ pushes' = [p \in Pushes |-> NoPush]
    /\ job' = NoJob
    /\ mark' = NoMark
    /\ fetches' = [f \in Fetches |-> IF fetches[f].reads # {} THEN NoFetch ELSE fetches[f]]
    /\ UNCHANGED <<rows, done, bell, seen, troubled>>

-----------------------------------------------------------------------------

Publishing(p) == CountUnread(p) \/ Push(p)

Fetching(f) == Read(f) \/ Apply(f)

Next ==
    \/ \E p \in Pushes : Publishing(p) \/ PushFails(p)
    \/ \E t \in Topics : Complete(t)
    \/ \E f \in Fetches : Fetching(f) \/ FetchFails(f)
    \/ Announce \/ RunDaily \/ WriteReminders
    \/ Connect \/ Disconnect \/ Receive \/ Focus
    \/ Mark \/ MarkWrite \/ MarkDone \/ Crash

Spec == Init /\ [][Next]_vars

\* What the server has begun: the rows of the job, publications, rows marked as read.
Serving == WriteReminders \/ MarkWrite \/ \E p \in Pushes : Publishing(p)

\* What the tab has to do: reconnect, take an event or an answer, come to the front.
Showing == Connect \/ Receive \/ MarkDone \/ Focus \/ \E f \in Fetches : Fetching(f)

\* The server runs on, and so does the tab, to which the user comes back.
FairSpec == Spec /\ WF_vars(Serving) /\ WF_vars(Showing)

-----------------------------------------------------------------------------
(* Properties                                                               *)

\* The shape of the rows, of what is in flight, and of what the tab shows.
TypeOK ==
    /\ DOMAIN rows \subseteq Keys
    /\ done \subseteq Topics
    /\ job \in [pc : {"idle", "write"}, new : SUBSET Topics]
    /\ pushes \in [Pushes -> [pc : {"idle", "count", "push"}, new : SUBSET Keys,
                              unread : 0..Cardinality(Keys)]]
    /\ stream.open \in BOOLEAN /\ (stream.open \/ stream.events = <<>>)
    /\ \A f \in Fetches : fetches[f].reads \subseteq {"list", "count"}
    /\ DOMAIN bell.rows \subseteq seen /\ seen \subseteq DOMAIN rows
    /\ bell.unread \in 0..Cardinality(DOMAIN rows)

\* No more reminders a day than allowed, however often the job runs and whatever
\* the user completes meanwhile.
ReminderCap == Cardinality(DOMAIN rows \cap Topics) <= MaxReminders

\* A tab whose stream is open and which waits for nothing has met every row, lost
\* connections and crashes included, unless a count or a refresh failed.
NothingMissed ==
    /\ stream.open /\ stream.events = <<>>
    /\ \A f \in Fetches : fetches[f].pc = "idle"
    /\ \A p \in Pushes : pushes[p].pc = "idle"
    /\ ~troubled
    => DOMAIN rows \subseteq seen

Truth == [rows |-> rows, unread |-> Unread(rows)]

\* After the last change the bell comes to show what the database holds, whichever
\* answers and events overtook each other.
BellSettles == <>[](bell = Truth)

\* The bell is right, what is on its way to it will not make it wrong, and no rows
\* are marked that it has not counted down.
UpToDate ==
    /\ bell = Truth
    /\ \A p \in Pushes : pushes[p].pc = "push" => pushes[p].unread = Unread(rows)
    /\ \A i \in 1..Len(stream.events) :
         stream.events[i] # OpenEvent => stream.events[i].unread = Unread(rows)
    /\ \A f \in Fetches : fetches[f].pc = "asked" =>
         /\ "list" \in fetches[f].reads \/ fetches[f].rows = rows
         /\ "count" \in fetches[f].reads \/ fetches[f].unread = Unread(rows)
    /\ mark.pc # "answered"
    /\ mark.pc = "sent" => \E k \in DOMAIN rows : ~rows[k] /\ k \in mark.keys

\* Only a change of the rows puts a bell out of date: no push that is late or comes
\* twice over a refresh, no lost stream, crash or failed request does.
BellStaysRight == [][UpToDate /\ UNCHANGED rows => UpToDate']_vars

=============================================================================
