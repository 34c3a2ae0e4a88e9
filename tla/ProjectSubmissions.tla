------------------------- MODULE ProjectSubmissions -------------------------
(***************************************************************************)
(* The project submission of one learner for one course: its row and file  *)
(* rows in the database, the objects they name in the bucket, and the      *)
(* credit the course progress gives for it.                                *)
(*                                                                         *)
(* Objects are uploaded by the browser before a request names them, and    *)
(* deleted after a transaction has committed or failed: no transaction     *)
(* covers both.  Every handler acts on a row it read some statements       *)
(* earlier.                                                                *)
(***************************************************************************)
EXTENDS Naturals, FiniteSets

CONSTANTS
    Keys,       \* object keys; each is signed for one upload
    Handlers,   \* request slots: how many handlers may be in flight at once
    MaxFiles,   \* MAX_PROJECT_FILES, 5 in the code
    Client,     \* "any": a request may name a file again; "fresh": none does
    MaxChanges  \* bound on submissions, updates, deletions, reviews and failures

ASSUME BoundsAreNaturals == MaxFiles \in Nat \ {0} /\ MaxChanges \in Nat
ASSUME KeysAreFinite == IsFiniteSet(Keys)

VARIABLES
    objects,  \* the keys stored in the bucket
    row,      \* the submission and its file rows
    credited, \* the course progress counts the project as approved
    handlers, \* per slot, the handler in flight
    changes,  \* how many changes began; numbers the rows they make
    uploaded, \* history: keys whose upload is done
    named,    \* history: keys a request has named
    reused,   \* history: keys named by two requests
    late,     \* history: handlers that read the row before it was approved
    disturbed \* history: holds "failure" after a failure, "race" after two of the
              \* learner's writes overlapped, "unread" after a deletion removed
              \* files that it had not read

stored == <<objects, row, credited>>
history == <<uploaded, named, reused, late, disturbed>>
vars == <<stored, handlers, changes, history>>

-----------------------------------------------------------------------------

NoRow == [no |-> 0, status |-> "NONE", files |-> {}]
Files == [key : Keys, no : 1..MaxChanges]
Idle == [pc |-> "idle", no |-> 0, read |-> NoRow, add |-> {}, drop |-> {},
         approve |-> FALSE, trash |-> {}]

KeysOf(files) == {f.key : f \in files}
Changeable == {"PENDING_REVIEW", "REJECTED"}

At(h, step) == handlers[h].pc = step
Set(h, req) == handlers' = [handlers EXCEPT ![h] = req]
Finish(h) == Set(h, Idle) /\ late' = late \ {h}

\* Objects that are to be deleted next; none, and the handler is done.
ThenDelete(h, trash) ==
    IF trash = {} THEN Finish(h)
    ELSE Set(h, [Idle EXCEPT !.pc = "cleanup", !.trash = trash]) /\ late' = late \ {h}

ThenEvaluate(h) == Set(h, [Idle EXCEPT !.pc = "evaluate"]) /\ late' = late \ {h}

Begin(h) ==
    /\ At(h, "idle")
    /\ changes < MaxChanges
    /\ changes' = changes + 1

\* A request names the files it adds: normalizeAndValidateSubmissionFiles has
\* found their objects.
Name(add) ==
    /\ add \subseteq objects
    /\ Client = "fresh" => add \cap named = {}
    /\ named' = named \cup add
    /\ reused' = reused \cup (add \cap named)

\* Another write of the learner is under way.
Race(h) ==
    \E g \in Handlers \ {h} : handlers[g].pc \in {"create", "update", "delete", "cleanup"}

\* A write commits; it overlapped if another is under way.
Commit(h) == disturbed' = IF Race(h) THEN disturbed \cup {"race"} ELSE disturbed

NewFiles(h) == {[key |-> k, no |-> handlers[h].no] : k \in handlers[h].add}

Init ==
    /\ objects = {}
    /\ row = NoRow
    /\ credited = FALSE
    /\ handlers = [h \in Handlers |-> Idle]
    /\ changes = 0
    /\ uploaded = {}
    /\ named = {}
    /\ reused = {}
    /\ late = {}
    /\ disturbed = {}

-----------------------------------------------------------------------------
(* The learner                                                              *)

\* A signature for a fresh key, and the upload to it.
Upload(k) ==
    /\ k \notin uploaded
    /\ objects' = objects \cup {k}
    /\ uploaded' = uploaded \cup {k}
    /\ UNCHANGED <<row, credited, handlers, changes, named, reused, late, disturbed>>

SubmitProject(h) ==
    /\ row.no = 0
    /\ Begin(h)
    /\ \E add \in SUBSET Keys :
         /\ Cardinality(add) \in 1..MaxFiles
         /\ Name(add)
         /\ Set(h, [Idle EXCEPT !.pc = "create", !.no = changes + 1, !.add = add])
    /\ UNCHANGED <<stored, uploaded, late, disturbed>>

\* The insert; the unique index on (userId, courseId) lets one of two through,
\* and the other one's files are deleted.
SubmitWrite(h) ==
    /\ At(h, "create")
    /\ \/ /\ row.no = 0
          /\ row' = [no |-> handlers[h].no, status |-> "PENDING_REVIEW", files |-> NewFiles(h)]
          /\ Commit(h)
          /\ ThenEvaluate(h)
       \/ /\ row.no # 0
          /\ ThenDelete(h, handlers[h].add)
          /\ UNCHANGED <<row, disturbed>>
    /\ UNCHANGED <<objects, credited, changes, uploaded, named, reused>>

\* Mutant: an approved submission may be updated.
UpdatesAnything(h) ==
    /\ row.no # 0
    /\ Begin(h)
    /\ \E add \in SUBSET Keys, drop \in SUBSET row.files :
         /\ Cardinality(row.files) - Cardinality(drop) + Cardinality(add) \in 1..MaxFiles
         /\ Name(add)
         /\ Set(h, [Idle EXCEPT !.pc = "update", !.no = changes + 1, !.read = row,
                                !.add = add, !.drop = drop])
    /\ UNCHANGED <<stored, uploaded, late, disturbed>>

\* Mutant: the files that stay are not counted.
UpdatesUncounted(h) ==
    /\ row.status \in Changeable
    /\ Begin(h)
    /\ \E add \in SUBSET Keys, drop \in SUBSET row.files :
         /\ Cardinality(add) \in 1..MaxFiles
         /\ Name(add)
         /\ Set(h, [Idle EXCEPT !.pc = "update", !.no = changes + 1, !.read = row,
                                !.add = add, !.drop = drop])
    /\ UNCHANGED <<stored, uploaded, late, disturbed>>

\* The files to add, those to remove (all, when only new ones are sent), or
\* neither when just the note changes; which file counts are allowed depends on
\* the row as it was read.
UpdateSubmission(h) ==
    /\ row.status \in Changeable
    /\ Begin(h)
    /\ \E add \in SUBSET Keys, drop \in SUBSET row.files :
         /\ Cardinality(row.files) - Cardinality(drop) + Cardinality(add) \in 1..MaxFiles
         /\ Name(add)
         /\ Set(h, [Idle EXCEPT !.pc = "update", !.no = changes + 1, !.read = row,
                                !.add = add, !.drop = drop])
    /\ UNCHANGED <<stored, uploaded, late, disturbed>>

\* The transaction fails if the submission, or a file that it renumbers, is gone.
Updatable(h) ==
    LET req == handlers[h] IN
    /\ row.no = req.read.no
    /\ req.add \cup req.drop # {} => req.read.files \ req.drop \subseteq row.files

Updated(h) ==
    [row EXCEPT !.files = (row.files \ handlers[h].drop) \cup NewFiles(h),
                !.status = IF handlers[h].read.status = "REJECTED" THEN "PENDING_REVIEW" ELSE @]

\* Mutant: a failed update leaves its uploads.
CommittedTrash(h) == IF Updatable(h) THEN KeysOf(handlers[h].drop) ELSE {}

\* Mutant: an update deletes the objects of all the files it had read.
TrashEverything(h) ==
    IF ~Updatable(h) THEN handlers[h].add
    ELSE IF handlers[h].drop # {} THEN KeysOf(handlers[h].read.files) ELSE {}

\* What the update deletes from the bucket: the files it dropped, or, when its
\* transaction failed, those it brought.
Trash(h) == IF Updatable(h) THEN KeysOf(handlers[h].drop) ELSE handlers[h].add

UpdateWrite(h) ==
    /\ At(h, "update")
    /\ \/ /\ Updatable(h)
          /\ row' = Updated(h)
          /\ Commit(h)
       \/ /\ ~Updatable(h)
          /\ UNCHANGED <<row, disturbed>>
    /\ ThenDelete(h, Trash(h))
    /\ UNCHANGED <<objects, credited, changes, uploaded, named, reused>>

DeleteSubmission(h) ==
    /\ row.status \in Changeable
    /\ Begin(h)
    /\ Set(h, [Idle EXCEPT !.pc = "delete", !.read = row])
    /\ UNCHANGED <<stored, history>>

\* By id, whatever the status is now.  The course is not evaluated again.
DeleteWrite(h) ==
    /\ At(h, "delete")
    /\ \/ /\ row.no = handlers[h].read.no
          /\ row' = NoRow
          /\ disturbed' = disturbed \cup (IF Race(h) THEN {"race"} ELSE {})
                                   \cup (IF row.files \subseteq handlers[h].read.files THEN {} ELSE {"unread"})
          /\ ThenDelete(h, KeysOf(handlers[h].read.files))
       \/ /\ row.no # handlers[h].read.no
          /\ Finish(h)
          /\ UNCHANGED <<row, disturbed>>
    /\ UNCHANGED <<objects, credited, changes, uploaded, named, reused>>

\* deleteMinioFiles: each deletion may fail, which is only logged.
Cleanup(h) ==
    /\ At(h, "cleanup")
    /\ \/ /\ objects' = objects \ handlers[h].trash
          /\ UNCHANGED <<changes, disturbed>>
       \/ /\ changes < MaxChanges
          /\ changes' = changes + 1
          /\ \E k \in handlers[h].trash : objects' = objects \ (handlers[h].trash \ {k})
          /\ disturbed' = disturbed \cup {"failure"}
    /\ Finish(h)
    /\ UNCHANGED <<row, credited, uploaded, named, reused>>

-----------------------------------------------------------------------------
(* The reviewer, and the progress                                           *)

Review(h) ==
    /\ row.no # 0
    /\ Begin(h)
    /\ \E approve \in BOOLEAN :
         Set(h, [Idle EXCEPT !.pc = "review", !.read = row, !.approve = approve])
    /\ UNCHANGED <<stored, history>>

\* By id, whatever became of the row since it was read, if it is still there.
ReviewWrite(h) ==
    /\ At(h, "review")
    /\ \/ /\ row.no = handlers[h].read.no
          /\ row' = [row EXCEPT !.status = IF handlers[h].approve THEN "APPROVED" ELSE "REJECTED"]
          /\ Set(h, [Idle EXCEPT !.pc = "evaluate"])
          /\ late' = IF handlers[h].approve
                     THEN late \cup {g \in Handlers : handlers[g].pc \in {"update", "delete"}}
                     ELSE late
       \/ /\ row.no # handlers[h].read.no
          /\ Finish(h)
          /\ UNCHANGED row
    /\ UNCHANGED <<objects, credited, changes, uploaded, named, reused, disturbed>>

\* getMyCourseProgress evaluates.
View(h) ==
    /\ At(h, "idle")
    /\ Set(h, [Idle EXCEPT !.pc = "evaluate"])
    /\ UNCHANGED <<stored, changes, history>>

\* evaluateCourseProgress: the read of the project, then the write of the
\* progress.
Evaluate(h) ==
    /\ At(h, "evaluate")
    /\ Set(h, [handlers[h] EXCEPT !.pc = "credit", !.approve = (row.status = "APPROVED")])
    /\ UNCHANGED <<stored, changes, history>>

\* Mutant: credit is never taken back.
CreditOnly(h) == credited \/ handlers[h].approve

Credit(h) == handlers[h].approve

UpsertProgress(h) ==
    /\ At(h, "credit")
    /\ credited' = Credit(h)
    /\ Finish(h)
    /\ UNCHANGED <<objects, row, changes, uploaded, named, reused, disturbed>>

\* A statement or the transaction of a handler fails, or its process dies.
Fail(h) ==
    /\ ~At(h, "idle")
    /\ changes < MaxChanges
    /\ changes' = changes + 1
    /\ Finish(h)
    /\ disturbed' = disturbed \cup {"failure"}
    /\ UNCHANGED <<stored, uploaded, named, reused>>

-----------------------------------------------------------------------------

Arrive(h) ==
    SubmitProject(h) \/ UpdateSubmission(h) \/ DeleteSubmission(h) \/ Review(h) \/ View(h)

Continue(h) ==
    \/ SubmitWrite(h) \/ UpdateWrite(h) \/ DeleteWrite(h) \/ Cleanup(h)
    \/ ReviewWrite(h) \/ Evaluate(h) \/ UpsertProgress(h)

Next ==
    \/ \E k \in Keys : Upload(k)
    \/ \E h \in Handlers : Arrive(h) \/ Continue(h) \/ Fail(h)

Spec == Init /\ [][Next]_vars

\* A handler runs on unless it fails; the learner keeps opening the course.
FairSpec ==
    /\ Spec
    /\ \A h \in Handlers : WF_vars(Continue(h)) /\ WF_vars(View(h))

-----------------------------------------------------------------------------
(* Properties                                                               *)

Rows ==
    [no : 0..MaxChanges, status : {"NONE", "PENDING_REVIEW", "APPROVED", "REJECTED"},
     files : SUBSET Files]

Slots ==
    [pc : {"idle", "create", "update", "delete", "cleanup", "review", "evaluate", "credit"},
     no : 0..MaxChanges, read : Rows, add : SUBSET Keys, drop : SUBSET Files,
     approve : BOOLEAN, trash : SUBSET Keys]

\* The shape of the rows and of the handlers in flight.
TypeOK ==
    /\ objects \subseteq Keys
    /\ row \in Rows
    /\ row.no = 0 <=> row.status = "NONE"
    /\ credited \in BOOLEAN
    /\ handlers \in [Handlers -> Slots]
    /\ changes \in 0..MaxChanges
    /\ uploaded \subseteq Keys /\ named \subseteq Keys /\ reused \subseteq Keys
    /\ late \subseteq Handlers
    /\ disturbed \subseteq {"failure", "race", "unread"}

\* A file of the submission is in the bucket, whatever failed or overlapped, unless
\* two requests named it.
OnceNamedFilesAreStored == KeysOf(row.files) \ objects \subseteq reused

\* A submission always has a file, and not more than allowed unless two of the
\* learner's writes overlapped, each counting on the files it had read.
FileCountHolds ==
    row.no # 0 => /\ row.files # {}
                  /\ "race" \notin disturbed => Cardinality(row.files) <= MaxFiles

\* What a request or the submission still refers to.
InUse ==
    KeysOf(row.files) \cup UNION {handlers[h].add \cup handlers[h].trash : h \in Handlers}

\* An object that a request has named is deleted, or on its way to be, once no file
\* of the submission and no request names it, unless something failed, or an update
\* added it after a deletion had read the files; overlapping writes, and requests
\* that name the same file, leave nothing behind.
NothingIsLeftBehind == disturbed \subseteq {"race"} => objects \cap named \subseteq InUse

\* The learner leaves an approved submission alone, except by a request that read
\* it before the approval.
ApprovalsStand ==
    [][row.status = "APPROVED" /\ row' # row =>
         \E h \in Handlers : /\ handlers'[h] # handlers[h]
                             /\ h \in late \/ handlers[h].pc = "review"]_vars

\* Once nothing changes, the course counts the project exactly if the submission is
\* approved, although deletions and updates do not evaluate the course.
CreditSettles == <>[](credited <=> row.status = "APPROVED")

=============================================================================
