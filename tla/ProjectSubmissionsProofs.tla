----------------------- MODULE ProjectSubmissionsProofs -----------------------
(***************************************************************************)
(* Proofs about ProjectSubmissions, for any keys, number of handlers in    *)
(* flight, limit of files and bound on changes:                            *)
(*                                                                         *)
(*   SubmissionsAreSound   the variables keep their shape, a file that one *)
(*                         request named is stored, and the file limit     *)
(*                         holds unless two writes overlapped;             *)
(*   ApprovalsAreKept      only a request that read the submission before  *)
(*                         its approval, or a reviewer, undoes it;         *)
(*   ReplacedFilesGo       an object that nothing names any more is        *)
(*                         deleted next.                                   *)
(***************************************************************************)
EXTENDS ProjectSubmissions, FiniteSetTheorems, TLAPS

-----------------------------------------------------------------------------
(* Types                                                                    *)

\* Numbers of requests and of rows that were read are given from 1 on.
Numbered ==
    \A h \in Handlers :
        /\ handlers[h].pc \in {"create", "update"} => handlers[h].no # 0
        /\ handlers[h].pc \in {"update", "delete", "review"} => handlers[h].read.no # 0

Shape == TypeOK /\ Numbered

LEMMA SlotsAre ==
  /\ NoRow \in Rows /\ Idle \in Slots
  /\ [Idle EXCEPT !.pc = "evaluate"] \in Slots
  /\ \A K \in SUBSET Keys : [Idle EXCEPT !.pc = "cleanup", !.trash = K] \in Slots
  /\ \A n \in 0..MaxChanges, K \in SUBSET Keys :
       [Idle EXCEPT !.pc = "create", !.no = n, !.add = K] \in Slots
  /\ \A n \in 0..MaxChanges, K \in SUBSET Keys, x \in Rows, D \in SUBSET Files :
       [Idle EXCEPT !.pc = "update", !.no = n, !.read = x, !.add = K, !.drop = D] \in Slots
  /\ \A x \in Rows : [Idle EXCEPT !.pc = "delete", !.read = x] \in Slots
  /\ \A x \in Rows, b \in BOOLEAN :
       [Idle EXCEPT !.pc = "review", !.read = x, !.approve = b] \in Slots
  /\ \A q \in Slots, b \in BOOLEAN : [q EXCEPT !.pc = "credit", !.approve = b] \in Slots
  <1>1. NoRow \in Rows
    BY BoundsAreNaturals DEF NoRow, Rows
  <1>2. Idle \in Slots
    BY <1>1, BoundsAreNaturals DEF Idle, Slots
  <1> QED
    BY <1>1, <1>2 DEF Slots

LEMMA FilesAreFinite == IsFiniteSet(Files)
  <1> DEFINE Pairs == Keys \X (1..MaxChanges)
             f == [p \in Pairs |-> [key |-> p[1], no |-> p[2]]]
  <1>1. IsFiniteSet(Pairs)
    <2>1. IsFiniteSet(1..MaxChanges)
      BY BoundsAreNaturals, FS_Interval
    <2> QED
      BY <2>1, KeysAreFinite, FS_Product
  <1>2. f \in Surjection(Pairs, Files)
    <2>1. \A p \in Pairs : f[p] \in Files
      BY DEF Files
    <2>2. ASSUME NEW x \in Files PROVE \E p \in Pairs : f[p] = x
      <3>1. <<x.key, x.no>> \in Pairs /\ f[<<x.key, x.no>>] = x
        BY DEF Files
      <3> QED
        BY <3>1
    <2> QED
      BY <2>1, <2>2 DEF Surjection
  <1> QED
    BY <1>1, <1>2, FS_Surjection

\* What is left of a slot when its handler ends, deletes objects, or evaluates.
LEMMA EndsAre ==
  ASSUME TypeOK, NEW h \in Handlers, NEW K \in SUBSET Keys,
         ThenDelete(h, K) \/ ThenEvaluate(h) \/ Finish(h)
  PROVE  /\ handlers' \in [Handlers -> Slots] /\ late' = late \ {h}
         /\ \A g \in Handlers \ {h} : handlers'[g] = handlers[g]
         /\ handlers'[h].pc \in {"idle", "cleanup", "evaluate"}
         /\ handlers'[h].add = {} /\ handlers'[h].drop = {} /\ handlers'[h].read = NoRow
         /\ handlers'[h].trash \subseteq K
  <1>1. handlers \in [Handlers -> Slots]
    BY DEF TypeOK
  <1>2. /\ Idle \in Slots /\ [Idle EXCEPT !.pc = "evaluate"] \in Slots
        /\ [Idle EXCEPT !.pc = "cleanup", !.trash = K] \in Slots
    BY SlotsAre
  <1>3. PICK q \in {Idle, [Idle EXCEPT !.pc = "evaluate"],
                    [Idle EXCEPT !.pc = "cleanup", !.trash = K]} :
          handlers' = [handlers EXCEPT ![h] = q] /\ late' = late \ {h}
    BY DEF ThenDelete, ThenEvaluate, Finish, Set
  <1>4. /\ q.pc \in {"idle", "cleanup", "evaluate"} /\ q.add = {} /\ q.drop = {}
        /\ q.read = NoRow /\ q.trash \subseteq K
    <2>1. CASE q = Idle
      BY <2>1 DEF Idle
    <2>2. CASE q = [Idle EXCEPT !.pc = "evaluate"]
      BY <2>2 DEF Idle
    <2>3. CASE q = [Idle EXCEPT !.pc = "cleanup", !.trash = K]
      BY <2>3 DEF Idle
    <2> QED
      BY <1>3, <2>1, <2>2, <2>3
  <1>5. q \in Slots
    BY <1>2, <1>3
  <1> HIDE DEF Idle
  <1> QED
    BY <1>1, <1>3, <1>4, <1>5

\* A request takes a slot.
LEMMA SetIs ==
  ASSUME TypeOK, NEW h \in Handlers, NEW q \in Slots, Set(h, q)
  PROVE  /\ handlers' \in [Handlers -> Slots] /\ handlers'[h] = q
         /\ \A g \in Handlers \ {h} : handlers'[g] = handlers[g]
  BY DEF TypeOK, Set

LEMMA NewFilesAre ==
  ASSUME Shape, NEW h \in Handlers, handlers[h].pc \in {"create", "update"}
  PROVE  NewFiles(h) \subseteq Files /\ KeysOf(NewFiles(h)) = handlers[h].add
  <1>1. handlers[h].no \in 1..MaxChanges /\ handlers[h].add \subseteq Keys
    BY BoundsAreNaturals DEF Shape, TypeOK, Slots, Numbered
  <1>2. NewFiles(h) \subseteq Files
    BY <1>1 DEF NewFiles, Files
  <1>3. ASSUME NEW k \in KeysOf(NewFiles(h)) PROVE k \in handlers[h].add
    BY <1>3 DEF NewFiles, KeysOf
  <1>4. ASSUME NEW k \in handlers[h].add PROVE k \in KeysOf(NewFiles(h))
    <2>1. [key |-> k, no |-> handlers[h].no] \in NewFiles(h)
      BY DEF NewFiles
    <2>2. [key |-> k, no |-> handlers[h].no].key = k
      OBVIOUS
    <2> QED
      BY <2>1, <2>2 DEF KeysOf
  <1> QED
    BY <1>2, <1>3, <1>4

LEMMA KeysAre == ASSUME NEW F \in SUBSET Files PROVE KeysOf(F) \subseteq Keys
  BY DEF KeysOf, Files

\* What each kind of request puts into its slot.
Opens(h) ==
    handlers'[h] = [Idle EXCEPT !.pc = "evaluate"] /\ UNCHANGED <<named, reused>>
Removes(h) ==
    /\ row.no # 0 /\ row.status \in Changeable /\ UNCHANGED <<named, reused>>
    /\ handlers'[h] = [Idle EXCEPT !.pc = "delete", !.read = row]
Judges(h, b) ==
    /\ row.no # 0 /\ UNCHANGED <<named, reused>>
    /\ handlers'[h] = [Idle EXCEPT !.pc = "review", !.read = row, !.approve = b]
Submits(h, add) ==
    /\ Name(add) /\ Cardinality(add) \in 1..MaxFiles
    /\ handlers'[h] = [Idle EXCEPT !.pc = "create", !.no = changes + 1, !.add = add]
Revises(h, add, drop) ==
    /\ Name(add) /\ row.no # 0 /\ row.status \in Changeable
    /\ Cardinality(row.files) - Cardinality(drop) + Cardinality(add) \in 1..MaxFiles
    /\ handlers'[h] = [Idle EXCEPT !.pc = "update", !.no = changes + 1, !.read = row,
                                   !.add = add, !.drop = drop]

LEMMA Starts ==
  ASSUME Shape, NEW h \in Handlers, Arrive(h)
  PROVE  /\ handlers' \in [Handlers -> Slots]
         /\ \A g \in Handlers \ {h} : handlers'[g] = handlers[g]
         /\ UNCHANGED <<stored, uploaded, late, disturbed>>
         /\ changes' \in 0..MaxChanges
         /\ handlers[h] \in Slots /\ row \in Rows
         /\ \/ Opens(h) \/ Removes(h)
            \/ \E b \in BOOLEAN : Judges(h, b)
            \/ \E add \in SUBSET Keys : Submits(h, add)
            \/ \E add \in SUBSET Keys, drop \in SUBSET row.files : Revises(h, add, drop)
  <1>1. /\ handlers \in [Handlers -> Slots] /\ row \in Rows /\ changes \in 0..MaxChanges
        /\ row.status \in Changeable => row.no # 0
    BY DEF Shape, TypeOK, Changeable
  <1>2. CASE View(h)
    BY <1>1, <1>2, SlotsAre, SetIs DEF View, Shape, history, stored, Opens
  <1>3. changes < MaxChanges /\ changes' = changes + 1
          => changes' \in 0..MaxChanges /\ changes + 1 \in 0..MaxChanges
    BY <1>1, BoundsAreNaturals
  <1>4. CASE DeleteSubmission(h)
    BY <1>1, <1>3, <1>4, SlotsAre, SetIs DEF DeleteSubmission, Begin, Shape, history, stored, Removes
  <1>5. CASE Review(h)
    <2>1. PICK b \in BOOLEAN : Set(h, [Idle EXCEPT !.pc = "review", !.read = row, !.approve = b])
      BY <1>5 DEF Review
    <2> QED
      BY <1>1, <1>3, <1>5, <2>1, SlotsAre, SetIs DEF Review, Begin, Shape, history, stored, Judges
  <1>6. CASE SubmitProject(h)
    <2>1. PICK add \in SUBSET Keys :
            /\ Cardinality(add) \in 1..MaxFiles /\ Name(add)
            /\ Set(h, [Idle EXCEPT !.pc = "create", !.no = changes + 1, !.add = add])
      BY <1>6 DEF SubmitProject
    <2>2. [Idle EXCEPT !.pc = "create", !.no = changes + 1, !.add = add] \in Slots
      BY <1>3, <1>6, SlotsAre DEF SubmitProject, Begin
    <2> HIDE DEF Idle
    <2> QED
      BY <1>1, <1>3, <1>6, <2>1, <2>2, SetIs DEF SubmitProject, Begin, Shape, stored, Submits
  <1>7. CASE UpdateSubmission(h)
    <2>1. PICK add \in SUBSET Keys, drop \in SUBSET row.files :
            /\ Cardinality(row.files) - Cardinality(drop) + Cardinality(add) \in 1..MaxFiles
            /\ Name(add)
            /\ Set(h, [Idle EXCEPT !.pc = "update", !.no = changes + 1, !.read = row,
                                   !.add = add, !.drop = drop])
      BY <1>7 DEF UpdateSubmission
    <2>2. drop \in SUBSET Files
      BY <1>1 DEF Rows
    <2>3. [Idle EXCEPT !.pc = "update", !.no = changes + 1, !.read = row, !.add = add, !.drop = drop] \in Slots
      BY <1>1, <1>3, <1>7, <2>2, SlotsAre DEF UpdateSubmission, Begin
    <2> HIDE DEF Idle
    <2> QED
      BY <1>1, <1>3, <1>7, <2>1, <2>3, SetIs DEF UpdateSubmission, Begin, Shape, stored, Revises
  <1> QED
    BY <1>2, <1>4, <1>5, <1>6, <1>7 DEF Arrive

\* What a new request asks for.
Asked(h) ==
    LET req == handlers'[h] IN
    /\ req.pc \in {"evaluate", "delete", "review", "create", "update"}
    /\ req.read \in {NoRow, row} /\ req.trash = {} /\ req.drop \subseteq req.read.files
    /\ req.pc \in {"update", "delete"} => row.status \in Changeable /\ req.read = row
    /\ req.pc = "create" => Cardinality(req.add) \in 1..MaxFiles
    /\ req.pc = "update" =>
         Cardinality(req.read.files) - Cardinality(req.drop) + Cardinality(req.add) \in 1..MaxFiles
    /\ Name(req.add) \/ (req.add = {} /\ UNCHANGED <<named, reused>>)

LEMMA Asks == ASSUME Shape, NEW h \in Handlers, Arrive(h) PROVE Asked(h)
  <1>1. CASE Opens(h)
    BY <1>1 DEF Opens, Asked, Idle
  <1>2. CASE Removes(h)
    BY <1>2 DEF Removes, Asked, Idle
  <1>3. ASSUME NEW b \in BOOLEAN, Judges(h, b) PROVE Asked(h)
    BY <1>3 DEF Judges, Asked, Idle
  <1>4. ASSUME NEW add \in SUBSET Keys, Submits(h, add) PROVE Asked(h)
    <2>1. /\ handlers'[h].pc = "create" /\ handlers'[h].read = NoRow /\ handlers'[h].trash = {}
          /\ handlers'[h].drop = {} /\ handlers'[h].add = add
      BY <1>4 DEF Submits, Idle
    <2> QED
      BY <1>4, <2>1 DEF Submits, Asked
  <1>5. ASSUME NEW add \in SUBSET Keys, NEW drop \in SUBSET row.files, Revises(h, add, drop)
        PROVE  Asked(h)
    <2>1. /\ handlers'[h].pc = "update" /\ handlers'[h].read = row /\ handlers'[h].trash = {}
          /\ handlers'[h].drop = drop /\ handlers'[h].add = add
      BY <1>5 DEF Revises, Idle
    <2> QED
      BY <1>5, <2>1 DEF Revises, Asked
  <1> QED
    BY <1>1, <1>2, <1>3, <1>4, <1>5, Starts

\* What a handler in flight does with its slot.
LEMMA Proceeds ==
  ASSUME Shape, NEW h \in Handlers, Continue(h) \/ Fail(h)
  PROVE  /\ handlers' \in [Handlers -> Slots]
         /\ \A g \in Handlers \ {h} : handlers'[g] = handlers[g]
         /\ handlers'[h].pc \in {"idle", "cleanup", "evaluate", "credit"}
         /\ handlers[h].pc # "idle"
         /\ UNCHANGED <<uploaded, named, reused>>
         /\ disturbed \subseteq disturbed'
         /\ changes' \in 0..MaxChanges
  <1>1. /\ handlers \in [Handlers -> Slots] /\ handlers[h] \in Slots /\ changes \in 0..MaxChanges
        /\ TypeOK /\ row \in Rows /\ {} \in SUBSET Keys
        /\ changes < MaxChanges /\ changes' = changes + 1 => changes' \in 0..MaxChanges
    BY BoundsAreNaturals DEF Shape, TypeOK
  <1>2. handlers[h].add \in SUBSET Keys /\ KeysOf(handlers[h].drop) \in SUBSET Keys
        /\ KeysOf(handlers[h].read.files) \in SUBSET Keys /\ Trash(h) \in SUBSET Keys
    <2>1. handlers[h].add \in SUBSET Keys /\ handlers[h].drop \in SUBSET Files
          /\ handlers[h].read.files \in SUBSET Files
      BY <1>1 DEF Slots, Rows
    <2> QED
      BY <2>1, KeysAre DEF Trash
  <1>3. CASE SubmitWrite(h)
    <2>1. ThenDelete(h, handlers[h].add) \/ ThenEvaluate(h)
      BY <1>3 DEF SubmitWrite
    <2>2. /\ handlers' \in [Handlers -> Slots] /\ handlers'[h].pc \in {"idle", "cleanup", "evaluate"}
          /\ \A g \in Handlers \ {h} : handlers'[g] = handlers[g]
      BY <1>1, <1>2, <2>1, EndsAre, Zenon
    <2>3. disturbed \subseteq disturbed'
      BY <1>3 DEF SubmitWrite, Commit
    <2>4. UNCHANGED <<uploaded, named, reused, changes>> /\ handlers[h].pc # "idle"
      BY <1>3 DEF SubmitWrite, At
    <2> QED
      BY <1>1, <2>2, <2>3, <2>4
  <1>4. CASE UpdateWrite(h)
    <2>1. ThenDelete(h, Trash(h))
      BY <1>4 DEF UpdateWrite
    <2>2. /\ handlers' \in [Handlers -> Slots] /\ handlers'[h].pc \in {"idle", "cleanup", "evaluate"}
          /\ \A g \in Handlers \ {h} : handlers'[g] = handlers[g]
      BY <1>1, <1>2, <2>1, EndsAre, Zenon
    <2>3. disturbed \subseteq disturbed'
      BY <1>4 DEF UpdateWrite, Commit
    <2>4. UNCHANGED <<uploaded, named, reused, changes>> /\ handlers[h].pc # "idle"
      BY <1>4 DEF UpdateWrite, At
    <2> QED
      BY <1>1, <2>2, <2>3, <2>4
  <1>5. CASE DeleteWrite(h)
    <2>1. ThenDelete(h, KeysOf(handlers[h].read.files)) \/ Finish(h)
      BY <1>5 DEF DeleteWrite
    <2>2. /\ handlers' \in [Handlers -> Slots] /\ handlers'[h].pc \in {"idle", "cleanup", "evaluate"}
          /\ \A g \in Handlers \ {h} : handlers'[g] = handlers[g]
      <3>1. CASE ThenDelete(h, KeysOf(handlers[h].read.files))
        BY <1>1, <1>2, <3>1, EndsAre
      <3>2. CASE Finish(h)
        BY <1>1, <3>2, EndsAre
      <3> QED
        BY <2>1, <3>1, <3>2
    <2>3. disturbed \subseteq disturbed'
      BY <1>5 DEF DeleteWrite
    <2> QED
      BY <1>1, <1>5, <2>2, <2>3 DEF DeleteWrite, At
  <1>6. CASE Cleanup(h)
    BY <1>1, <1>6, EndsAre, Zenon DEF Cleanup, At
  <1>7. CASE ReviewWrite(h)
    <2>1. CASE Finish(h)
      BY <1>1, <1>7, <2>1, EndsAre, Zenon DEF ReviewWrite, At
    <2>2. CASE Set(h, [Idle EXCEPT !.pc = "evaluate"])
      <3>1. handlers' \in [Handlers -> Slots] /\ handlers'[h] = [Idle EXCEPT !.pc = "evaluate"]
            /\ \A g \in Handlers \ {h} : handlers'[g] = handlers[g]
        BY <1>1, <2>2, SlotsAre, SetIs
      <3>2. handlers'[h].pc = "evaluate"
        BY <3>1 DEF Idle
      <3> QED
        BY <1>1, <1>7, <3>1, <3>2, Zenon DEF ReviewWrite, At
    <2> QED
      BY <1>7, <2>1, <2>2 DEF ReviewWrite
  <1>8. CASE Evaluate(h)
    <2>1. (row.status = "APPROVED") \in BOOLEAN
      OBVIOUS
    <2>2. [handlers[h] EXCEPT !.pc = "credit", !.approve = (row.status = "APPROVED")] \in Slots
      BY <1>1, <2>1, SlotsAre, Zenon
    <2>3. handlers' \in [Handlers -> Slots]
          /\ handlers'[h] = [handlers[h] EXCEPT !.pc = "credit", !.approve = (row.status = "APPROVED")]
          /\ \A g \in Handlers \ {h} : handlers'[g] = handlers[g]
      BY <1>1, <1>8, <2>2, SetIs DEF Evaluate
    <2>4. handlers'[h].pc = "credit"
      BY <1>1, <2>3 DEF Slots
    <2> QED
      BY <1>1, <1>8, <2>3, <2>4 DEF Evaluate, At, history
  <1>9. CASE UpsertProgress(h)
    BY <1>1, <1>9, EndsAre, Zenon DEF UpsertProgress, At
  <1>10. CASE Fail(h)
    BY <1>1, <1>10, EndsAre, Zenon DEF Fail, At
  <1> QED
    BY <1>3, <1>4, <1>5, <1>6, <1>7, <1>8, <1>9, <1>10 DEF Continue

\* What it does with the submission, and what it leaves in its slot then.
LEMMA Writes ==
  ASSUME Shape, NEW h \in Handlers, Continue(h) \/ Fail(h)
  PROVE  \/ /\ row' = row
         \/ /\ row.no = 0 /\ handlers[h].pc = "create"
            /\ row' = [no |-> handlers[h].no, status |-> "PENDING_REVIEW", files |-> NewFiles(h)]
            /\ Commit(h) /\ ThenEvaluate(h) /\ objects' = objects
         \/ /\ handlers[h].pc = "update" /\ Updatable(h) /\ row' = Updated(h)
            /\ Commit(h) /\ ThenDelete(h, KeysOf(handlers[h].drop)) /\ objects' = objects
         \/ /\ handlers[h].pc = "delete" /\ row.no = handlers[h].read.no /\ row' = NoRow
            /\ Race(h) => "race" \in disturbed'
            /\ late' = late \ {h} /\ objects' = objects
            /\ ThenDelete(h, KeysOf(handlers[h].read.files))
         \/ /\ handlers[h].pc = "review" /\ row.no = handlers[h].read.no /\ objects' = objects
            /\ row' = [row EXCEPT !.status = IF handlers[h].approve THEN "APPROVED" ELSE "REJECTED"]
            /\ late \subseteq late'
            /\ handlers[h].approve =>
                 late' = late \cup {g \in Handlers : handlers[g].pc \in {"update", "delete"}}
            /\ Set(h, [Idle EXCEPT !.pc = "evaluate"])
  <1>1. CASE SubmitWrite(h)
    BY <1>1 DEF SubmitWrite, At
  <1>2. CASE UpdateWrite(h)
    BY <1>2 DEF UpdateWrite, At, Trash
  <1>3. CASE DeleteWrite(h)
    BY <1>3 DEF DeleteWrite, At, ThenDelete, Finish
  <1>4. CASE ReviewWrite(h)
    BY <1>4 DEF ReviewWrite, At
  <1>5. CASE Cleanup(h) \/ Evaluate(h) \/ UpsertProgress(h) \/ Fail(h)
    BY <1>5 DEF Cleanup, Evaluate, UpsertProgress, Fail, stored
  <1> QED
    BY <1>1, <1>2, <1>3, <1>4, <1>5 DEF Continue

\* A number and a status go together.
LEMMA RowKeepsType ==
  ASSUME Shape, NEW h \in Handlers, Continue(h) \/ Fail(h)
  PROVE  row' \in Rows /\ (row'.no = 0 <=> row'.status = "NONE")
  <1>1. row \in Rows /\ handlers[h] \in Slots /\ (row.no = 0 <=> row.status = "NONE")
    BY DEF Shape, TypeOK
  <1>2. CASE handlers[h].pc = "create"
             /\ row' = [no |-> handlers[h].no, status |-> "PENDING_REVIEW", files |-> NewFiles(h)]
    <2>1. NewFiles(h) \subseteq Files /\ handlers[h].no # 0
      BY <1>2, NewFilesAre DEF Shape, Numbered
    <2> QED
      BY <1>1, <1>2, <2>1 DEF Rows, Slots
  <1>3. CASE handlers[h].pc = "update" /\ Updatable(h) /\ row' = Updated(h)
    <2>1. NewFiles(h) \subseteq Files /\ row.no # 0
      BY <1>3, NewFilesAre DEF Shape, Numbered, Updatable
    <2>2. (row.files \ handlers[h].drop) \cup NewFiles(h) \subseteq Files
      BY <1>1, <2>1 DEF Rows
    <2>3. /\ row'.no = row.no /\ row'.status \in {row.status, "PENDING_REVIEW"}
          /\ row'.files = (row.files \ handlers[h].drop) \cup NewFiles(h)
          /\ row' = [no |-> row'.no, status |-> row'.status, files |-> row'.files]
      BY <1>1, <1>3 DEF Updated, Rows
    <2> QED
      BY <1>1, <2>1, <2>2, <2>3 DEF Rows
  <1>4. CASE row' = NoRow
    BY <1>4, SlotsAre DEF NoRow
  <1>5. CASE handlers[h].pc = "review" /\ row.no = handlers[h].read.no
             /\ row' = [row EXCEPT !.status = IF handlers[h].approve THEN "APPROVED" ELSE "REJECTED"]
    BY <1>1, <1>5 DEF Rows, Shape, Numbered
  <1>6. CASE row' = row
    BY <1>1, <1>6
  <1> QED
    BY <1>2, <1>3, <1>4, <1>5, <1>6, Writes

LEMMA ShapeStep == Shape /\ [Next]_vars => Shape'
  <1> SUFFICES ASSUME Shape, [Next]_vars PROVE Shape'
    OBVIOUS
  <1>1. TypeOK /\ Numbered /\ handlers \in [Handlers -> Slots]
    BY DEF Shape, TypeOK
  <1>2. CASE UNCHANGED vars
    BY <1>2 DEF Shape, TypeOK, Numbered, vars, stored, history
  <1>3. ASSUME NEW k \in Keys, Upload(k) PROVE Shape'
    BY <1>3 DEF Upload, Shape, TypeOK, Numbered
  <1>4. ASSUME NEW h \in Handlers, Arrive(h) PROVE Shape'
    <2>1. Numbered'
      <3>1. changes + 1 # 0
        BY DEF Shape, TypeOK
      <3>2. /\ handlers'[h].pc \in {"create", "update"} => handlers'[h].no # 0
            /\ handlers'[h].pc \in {"update", "delete", "review"} => handlers'[h].read.no # 0
        <4>1. CASE Opens(h)
          BY <4>1 DEF Opens, Idle
        <4>2. CASE Removes(h)
          BY <4>2 DEF Removes, Idle
        <4>3. ASSUME NEW b, Judges(h, b) PROVE <3>2!1 /\ <3>2!2
          BY <4>3 DEF Judges, Idle
        <4>4. ASSUME NEW add, Submits(h, add) PROVE <3>2!1 /\ <3>2!2
          BY <3>1, <4>4 DEF Submits, Idle
        <4>5. ASSUME NEW add, NEW drop, Revises(h, add, drop) PROVE <3>2!1 /\ <3>2!2
          BY <3>1, <4>5 DEF Revises, Idle
        <4> QED
          BY <1>4, <4>1, <4>2, <4>3, <4>4, <4>5, Starts
      <3>3. \A g \in Handlers \ {h} : handlers'[g] = handlers[g]
        BY <1>4, Starts
      <3> QED
        BY <1>1, <3>2, <3>3 DEF Numbered
    <2>2. named' \subseteq Keys /\ reused' \subseteq Keys
      <3>1. \A add \in SUBSET Keys : Name(add) => named' \subseteq Keys /\ reused' \subseteq Keys
        BY <1>1 DEF TypeOK, Name
      <3> QED
        BY <1>1, <1>4, <3>1, Starts DEF TypeOK, Opens, Removes, Judges, Submits, Revises
    <2> QED
      BY <1>1, <1>4, <2>1, <2>2, Starts DEF Shape, TypeOK, stored
  <1>5. ASSUME NEW h \in Handlers, Continue(h) \/ Fail(h) PROVE Shape'
    <2>1. Numbered'
      BY <1>1, <1>5, Proceeds DEF Numbered
    <2>2. objects' \subseteq objects /\ credited' \in BOOLEAN
      <3>1. CASE SubmitWrite(h) \/ UpdateWrite(h) \/ DeleteWrite(h) \/ ReviewWrite(h) \/ Fail(h)
        BY <1>1, <3>1 DEF SubmitWrite, UpdateWrite, DeleteWrite, ReviewWrite, Fail, stored, TypeOK
      <3>2. CASE Cleanup(h)
        BY <1>1, <3>2 DEF Cleanup, TypeOK
      <3>3. CASE Evaluate(h)
        BY <1>1, <3>3 DEF Evaluate, stored, TypeOK
      <3>4. CASE UpsertProgress(h)
        <4>1. handlers[h].approve \in BOOLEAN
          BY <1>1 DEF Slots
        <4> QED
          BY <3>4, <4>1 DEF UpsertProgress, Credit
      <3> QED
        BY <1>5, <3>1, <3>2, <3>3, <3>4 DEF Continue
    <2>4. late' \subseteq Handlers
      BY <1>1, <1>5, Zenon
         DEF TypeOK, Continue, SubmitWrite, UpdateWrite, DeleteWrite, ReviewWrite, Cleanup, Evaluate,
             UpsertProgress, Fail, history, ThenDelete, ThenEvaluate, Finish
    <2>5. disturbed' \subseteq {"failure", "race", "unread"}
      BY <1>1, <1>5
         DEF TypeOK, Continue, SubmitWrite, UpdateWrite, DeleteWrite, ReviewWrite, Cleanup, Evaluate,
             UpsertProgress, Fail, history, Commit
    <2> QED
      BY <1>1, <1>5, <2>1, <2>2, <2>4, <2>5, Proceeds, RowKeepsType DEF Shape, TypeOK
  <1> QED
    BY <1>2, <1>3, <1>4, <1>5 DEF Next

-----------------------------------------------------------------------------
(* The inductive invariant                                                  *)

\* Who can still change an approved submission read it before the approval.
Judged ==
    row.status = "APPROVED" =>
        \A h \in Handlers : handlers[h].pc \in {"update", "delete"} => h \in late

\* A request counts on the files it read; either they are still the submission's, or
\* two writes overlapped.
Counts(h) ==
    LET req == handlers[h] IN
    /\ req.drop \subseteq req.read.files
    /\ req.pc = "create" => Cardinality(req.add) \in 1..MaxFiles
    /\ req.pc = "update" =>
         /\ Cardinality(req.read.files) - Cardinality(req.drop) + Cardinality(req.add) \in 1..MaxFiles
         /\ "race" \in disturbed \/ (row.no = req.read.no /\ row.files = req.read.files)

Counted == FileCountHolds /\ \A h \in Handlers : Counts(h)

\* A file of the submission, or one that a request in flight read.
Seen(f) == f \in row.files \/ \E h \in Handlers : f \in handlers[h].read.files

\* What is true of a key that one request named: while that request is in flight,
\* nobody else knows the key; afterwards one file has it, and no deletion of its
\* object is on its way while the submission has that file.
Owned(k) ==
    /\ \A f \in row.files : f.key = k => k \in objects
    /\ \A f \in Files : Seen(f) /\ f.key = k =>
         /\ k \in named
         /\ \A h \in Handlers : k \notin handlers[h].add
         /\ \A f2 \in Files : Seen(f2) /\ f2.key = k => f2 = f
    /\ \A h \in Handlers : k \in handlers[h].add =>
         /\ k \in objects /\ k \in named
         /\ \A g \in Handlers : k \notin handlers[g].trash /\ (g # h => k \notin handlers[g].add)
    /\ \A h \in Handlers : k \in handlers[h].trash =>
         k \in named /\ \A f \in row.files : f.key # k

StoreInv == \A k \in Keys \ reused : Owned(k)

IInv == Shape /\ Judged /\ Counted /\ StoreInv

-----------------------------------------------------------------------------
(* Approvals                                                                *)

LEMMA LateStays ==
  ASSUME NEW h \in Handlers, Continue(h) \/ Fail(h) PROVE late \ {h} \subseteq late'
  BY Zenon DEF Continue, SubmitWrite, UpdateWrite, DeleteWrite, ReviewWrite, Cleanup, Evaluate,
         UpsertProgress, Fail, history, ThenDelete, ThenEvaluate, Finish

LEMMA JudgedStep == Shape /\ Judged /\ [Next]_vars => Judged'
  <1> SUFFICES ASSUME Shape, Judged, [Next]_vars PROVE Judged'
    OBVIOUS
  <1>1. CASE UNCHANGED vars
    BY <1>1 DEF Judged, vars, stored, history
  <1>2. ASSUME NEW k \in Keys, Upload(k) PROVE Judged'
    BY <1>2 DEF Upload, Judged
  <1>3. ASSUME NEW h \in Handlers, Arrive(h) PROVE Judged'
    <2>1. row.status = "APPROVED" => handlers'[h].pc \notin {"update", "delete"}
      BY <1>3, Asks DEF Asked, Changeable
    <2> QED
      BY <1>3, <2>1, Starts DEF Judged, stored
  <1>4. ASSUME NEW h \in Handlers, Continue(h) \/ Fail(h) PROVE Judged'
    <2> SUFFICES ASSUME row'.status = "APPROVED", NEW g \in Handlers,
                        handlers'[g].pc \in {"update", "delete"}
                 PROVE  g \in late'
      BY DEF Judged
    <2>1. g # h /\ handlers[g].pc \in {"update", "delete"} /\ (g \in late => g \in late')
      BY <1>4, Proceeds, LateStays
    <2>2. CASE row.status = "APPROVED"
      BY <2>1, <2>2 DEF Judged
    <2>3. CASE row.status # "APPROVED"
      <3>1. row' # row
        BY <2>3
      <3>2. row' # [no |-> handlers[h].no, status |-> "PENDING_REVIEW", files |-> NewFiles(h)]
            /\ row' # NoRow
        BY DEF NoRow
      <3>3. row' # Updated(h)
        BY <2>3 DEF Updated, Shape, TypeOK, Rows
      <3>4. /\ row' = [row EXCEPT !.status = IF handlers[h].approve THEN "APPROVED" ELSE "REJECTED"]
            /\ handlers[h].approve =>
                 late' = late \cup {x \in Handlers : handlers[x].pc \in {"update", "delete"}}
        BY <1>4, <3>1, <3>2, <3>3, Writes
      <3>5. handlers[h].approve
        BY <3>4 DEF Shape, TypeOK, Rows
      <3> QED
        BY <2>1, <3>4, <3>5
    <2> QED
      BY <2>2, <2>3
  <1> QED
    BY <1>1, <1>2, <1>3, <1>4 DEF Next

LEMMA ApprovalStep ==
  ASSUME Shape, Judged, [Next]_vars, row.status = "APPROVED", row' # row
  PROVE  \E h \in Handlers : /\ handlers'[h] # handlers[h]
                             /\ h \in late \/ handlers[h].pc = "review"
  <1>1. PICK h \in Handlers : Continue(h) \/ Fail(h)
    BY Starts DEF Next, Upload, vars, stored
  <1>2. row.no # 0
    BY DEF Shape, TypeOK
  <1>3. handlers[h].pc \in {"update", "delete", "review"}
    BY <1>1, <1>2, Writes
  <1>4. handlers'[h].pc \notin {"update", "delete", "review"}
    BY <1>1, Proceeds
  <1> QED
    BY <1>3, <1>4 DEF Judged

-----------------------------------------------------------------------------
(* Counting files                                                           *)

LEMMA NewCount ==
  ASSUME Shape, NEW h \in Handlers
  PROVE  /\ IsFiniteSet(NewFiles(h)) /\ IsFiniteSet(handlers[h].add)
         /\ Cardinality(NewFiles(h)) <= Cardinality(handlers[h].add)
         /\ Cardinality(NewFiles(h)) \in Nat /\ Cardinality(handlers[h].add) \in Nat
         /\ handlers[h].add # {} => NewFiles(h) # {}
         /\ handlers[h].add = {} => NewFiles(h) = {}
  <1> DEFINE A == handlers[h].add
             f == [k \in A |-> [key |-> k, no |-> handlers[h].no]]
  <1>1. A \subseteq Keys
    BY DEF Shape, TypeOK, Slots
  <1>2. IsFiniteSet(A)
    BY <1>1, KeysAreFinite, FS_Subset
  <1>3. f \in Surjection(A, NewFiles(h))
    BY DEF Surjection, NewFiles
  <1>4. IsFiniteSet(NewFiles(h)) /\ Cardinality(NewFiles(h)) <= Cardinality(A)
    BY <1>2, <1>3, FS_Surjection
  <1>5. Cardinality(A) \in Nat /\ Cardinality(NewFiles(h)) \in Nat
    BY <1>2, <1>4, FS_CardinalityType
  <1> QED
    BY <1>2, <1>4, <1>5 DEF NewFiles

LEMMA RemainderCounts ==
  ASSUME NEW S, NEW T \in SUBSET S, IsFiniteSet(S)
  PROVE  /\ Cardinality(S \ T) = Cardinality(S) - Cardinality(T)
         /\ Cardinality(S) \in Nat /\ Cardinality(T) \in Nat
  <1>1. S \cap T = T /\ IsFiniteSet(T)
    BY FS_Subset
  <1>2. Cardinality(S \ T) = Cardinality(S) - Cardinality(S \cap T)
    BY FS_Difference
  <1> QED
    BY <1>1, <1>2, FS_CardinalityType

\* The files that an update leaves are within the limit if they were when it read them.
LEMMA UpdateCounts ==
  ASSUME Shape, NEW h \in Handlers, handlers[h].pc = "update", Updatable(h), Counted
  PROVE  /\ Updated(h).files # {}
         /\ "race" \notin disturbed => Cardinality(Updated(h).files) <= MaxFiles
  <1> DEFINE q == handlers[h]
             left == row.files \ q.drop
  <1>1. /\ q \in Slots /\ row \in Rows /\ row.no = q.read.no /\ row.no # 0
        /\ q.drop \subseteq q.read.files
        /\ Cardinality(q.read.files) - Cardinality(q.drop) + Cardinality(q.add) \in 1..MaxFiles
        /\ "race" \in disturbed \/ row.files = q.read.files
    BY DEF Shape, TypeOK, Numbered, Counted, Counts, Updatable
  <1>2. row.files # {}
    BY <1>1 DEF Counted, FileCountHolds
  <1>3. Updated(h).files = left \cup NewFiles(h)
    BY <1>1 DEF Updated, Rows
  <1>4. /\ IsFiniteSet(row.files) /\ IsFiniteSet(q.read.files) /\ IsFiniteSet(q.drop)
        /\ IsFiniteSet(left) /\ IsFiniteSet(q.read.files \ q.drop)
    <2>1. IsFiniteSet(row.files) /\ IsFiniteSet(q.read.files)
      BY <1>1, FilesAreFinite, FS_Subset DEF Slots, Rows
    <2> QED
      BY <1>1, <2>1, FS_Subset
  <1>5. /\ Cardinality(q.read.files \ q.drop) = Cardinality(q.read.files) - Cardinality(q.drop)
        /\ Cardinality(q.read.files) \in Nat /\ Cardinality(q.drop) \in Nat
    BY <1>1, <1>4, RemainderCounts
  <1>6. left \cup NewFiles(h) # {}
    <2>1. CASE q.add # {}
      BY <2>1, NewCount
    <2>2. CASE q.add = {} /\ q.drop = {}
      BY <1>2, <2>2
    <2>3. CASE q.add = {} /\ q.drop # {}
      <3>1. q.read.files \ q.drop \subseteq row.files
        BY <2>3 DEF Updatable
      <3>2. Cardinality(q.read.files \ q.drop) # 0
        BY <1>1, <1>5, <2>3, FS_EmptySet, BoundsAreNaturals
      <3>3. q.read.files \ q.drop # {}
        BY <3>2, FS_EmptySet
      <3> QED
        BY <3>1, <3>3
    <2> QED
      BY <2>1, <2>2, <2>3
  <1>7. ASSUME "race" \notin disturbed PROVE Cardinality(left \cup NewFiles(h)) <= MaxFiles
    <2>1. left = q.read.files \ q.drop
      BY <1>1, <1>7
    <2>2. /\ IsFiniteSet(NewFiles(h)) /\ Cardinality(NewFiles(h)) <= Cardinality(q.add)
          /\ Cardinality(NewFiles(h)) \in Nat /\ Cardinality(q.add) \in Nat
      BY NewCount
    <2>3. /\ Cardinality(left \cup NewFiles(h)) =
               Cardinality(left) + Cardinality(NewFiles(h)) - Cardinality(left \cap NewFiles(h))
          /\ Cardinality(left \cap NewFiles(h)) \in Nat
      <3>1. IsFiniteSet(left \cap NewFiles(h))
        BY <1>4, FS_Subset
      <3> HIDE DEF left
      <3> QED
        BY <1>4, <2>2, <3>1, FS_Union, FS_CardinalityType
    <2>4. Cardinality(left) = Cardinality(q.read.files) - Cardinality(q.drop)
      BY <1>5, <2>1
    <2> HIDE DEF left, q
    <2> QED
      BY <1>1, <1>5, <2>2, <2>3, <2>4, BoundsAreNaturals
  <1> QED
    BY <1>3, <1>6, <1>7

LEMMA EvaluateKeeps ==
  ASSUME Shape, NEW h \in Handlers, Evaluate(h)
  PROVE  /\ handlers'[h].add = handlers[h].add /\ handlers'[h].trash = handlers[h].trash
         /\ handlers'[h].drop = handlers[h].drop /\ handlers'[h].read = handlers[h].read
         /\ row' = row
  <1>1. handlers \in [Handlers -> Slots]
    BY DEF Shape, TypeOK
  <1>2. handlers'[h] = [handlers[h] EXCEPT !.pc = "credit", !.approve = (row.status = "APPROVED")]
    BY <1>1 DEF Evaluate, Set
  <1> QED
    BY <1>1, <1>2 DEF Evaluate, stored, Slots

\* What a handler that moves on keeps of its request.
LEMMA Leaves ==
  ASSUME Shape, NEW h \in Handlers, Continue(h) \/ Fail(h)
  PROVE  \/ /\ handlers'[h].add = {} /\ handlers'[h].drop = {} /\ handlers'[h].read = NoRow
         \/ /\ Evaluate(h) /\ handlers'[h].add = handlers[h].add
            /\ handlers'[h].drop = handlers[h].drop /\ handlers'[h].read = handlers[h].read
            /\ handlers'[h].trash = handlers[h].trash
  <1>1. /\ handlers \in [Handlers -> Slots] /\ handlers[h] \in Slots /\ TypeOK
    BY DEF Shape, TypeOK
  <1>2. CASE \E K \in SUBSET Keys : ThenDelete(h, K) \/ ThenEvaluate(h) \/ Finish(h)
    BY <1>1, <1>2, EndsAre
  <1>3. CASE Set(h, [Idle EXCEPT !.pc = "evaluate"])
    <2>1. handlers'[h] = [Idle EXCEPT !.pc = "evaluate"]
      BY <1>1, <1>3 DEF Set
    <2> QED
      BY <2>1 DEF Idle
  <1>4. CASE Evaluate(h)
    BY <1>4, EvaluateKeeps
  <1>5. handlers[h].add \in SUBSET Keys /\ KeysOf(handlers[h].read.files) \in SUBSET Keys
        /\ Trash(h) \in SUBSET Keys /\ {} \in SUBSET Keys
    <2>1. handlers[h].add \in SUBSET Keys /\ handlers[h].drop \in SUBSET Files
          /\ handlers[h].read.files \in SUBSET Files
      BY <1>1 DEF Slots, Rows
    <2> QED
      BY <2>1, KeysAre DEF Trash
  <1> QED
    BY <1>2, <1>3, <1>4, <1>5
       DEF Continue, SubmitWrite, UpdateWrite, DeleteWrite, ReviewWrite, Cleanup, UpsertProgress, Fail

LEMMA CountedStep == Shape /\ Counted /\ [Next]_vars => Counted'
  <1> SUFFICES ASSUME Shape, Counted, [Next]_vars PROVE Counted'
    OBVIOUS
  <1>0. row \in Rows /\ handlers \in [Handlers -> Slots]
    BY DEF Shape, TypeOK
  <1>1. CASE UNCHANGED vars
    BY <1>1 DEF Counted, FileCountHolds, Counts, vars, stored, history
  <1>2. ASSUME NEW k \in Keys, Upload(k) PROVE Counted'
    BY <1>2 DEF Upload, Counted, FileCountHolds, Counts
  <1>3. ASSUME NEW h \in Handlers, Arrive(h) PROVE Counted'
    <2>1. /\ row' = row /\ disturbed' = disturbed
          /\ \A g \in Handlers \ {h} : handlers'[g] = handlers[g]
      BY <1>3, Starts DEF stored
    <2>2. Counts(h)'
      BY <1>3, <2>1, Asks DEF Asked, Counts
    <2>3. ASSUME NEW g \in Handlers \ {h} PROVE Counts(g)'
      BY <2>1, <2>3 DEF Counted, Counts
    <2>4. FileCountHolds'
      BY <2>1 DEF Counted, FileCountHolds
    <2> QED
      BY <2>2, <2>3, <2>4 DEF Counted
  <1>4. ASSUME NEW h \in Handlers, Continue(h) \/ Fail(h) PROVE Counted'
    <2>1. /\ disturbed \subseteq disturbed' /\ handlers'[h].pc \notin {"create", "update"}
          /\ \A g \in Handlers \ {h} : handlers'[g] = handlers[g]
      BY <1>4, Proceeds
    <2>2. Counts(h)'
      <3>1. handlers'[h].drop \subseteq handlers'[h].read.files
        BY <1>4, Leaves DEF Counted, Counts, NoRow
      <3> QED
        BY <2>1, <3>1 DEF Counts
    <2>3. ASSUME NEW g \in Handlers \ {h} PROVE Counts(g)'
      <3>1. handlers'[g] = handlers[g] /\ Counts(g)
        BY <2>1, <2>3 DEF Counted
      <3>2. ASSUME handlers[g].pc = "update", "race" \notin disturbed'
            PROVE  row'.no = row.no /\ row'.files = row.files
        <4>1. Race(h)
          BY <2>3, <3>2 DEF Race
        <4>2. row.no # 0
          BY <2>1, <3>1, <3>2 DEF Counts, Shape, Numbered
        <4>3. CASE /\ handlers[h].pc = "review" 
                   /\ row' = [row EXCEPT !.status = IF handlers[h].approve THEN "APPROVED" ELSE "REJECTED"]
          BY <1>0, <4>3 DEF Rows
        <4> QED
          BY <1>4, <3>2, <4>1, <4>2, <4>3, Writes DEF Commit
      <3> QED
        BY <2>1, <3>1, <3>2 DEF Counts
    <2>4. FileCountHolds'
      <3>1. CASE row' = row
        BY <2>1, <3>1 DEF Counted, FileCountHolds
      <3>2. CASE handlers[h].pc = "create" /\ row' = [no |-> handlers[h].no, status |-> "PENDING_REVIEW", files |-> NewFiles(h)]
        <4>1. Cardinality(handlers[h].add) \in 1..MaxFiles /\ row'.files = NewFiles(h)
          BY <3>2 DEF Counted, Counts
        <4>2. Cardinality(NewFiles(h)) <= MaxFiles
          BY <4>1, NewCount, BoundsAreNaturals
        <4>3. NewFiles(h) # {}
          BY <4>1, NewCount, FS_EmptySet
        <4> QED
          BY <4>1, <4>2, <4>3 DEF FileCountHolds
      <3>3. CASE handlers[h].pc = "update" /\ Updatable(h) /\ row' = Updated(h)
        BY <2>1, <3>3, UpdateCounts DEF FileCountHolds
      <3>4. CASE row' = NoRow
        BY <3>4 DEF FileCountHolds, NoRow
      <3>5. CASE row' = [row EXCEPT !.status = IF handlers[h].approve THEN "APPROVED" ELSE "REJECTED"]
        BY <1>0, <2>1, <3>5 DEF Rows, Counted, FileCountHolds
      <3> QED
        BY <1>4, <3>1, <3>2, <3>3, <3>4, <3>5, Writes
    <2> QED
      BY <2>2, <2>3, <2>4 DEF Counted
  <1> QED
    BY <1>1, <1>2, <1>3, <1>4 DEF Next

-----------------------------------------------------------------------------
(* Objects                                                                  *)

\* A handler that adds no key, and deletes no object that is in use or on its way in.
LEMMA Carries ==
  ASSUME Shape, Shape', NEW k \in Keys, Owned(k), NEW h \in Handlers,
         \A g \in Handlers \ {h} : handlers'[g] = handlers[g],
         named' = named,
         \/ handlers'[h].add = {}
         \/ handlers'[h].add \subseteq handlers[h].add /\ row'.files \subseteq row.files,
         handlers'[h].read.files \subseteq handlers[h].read.files,
         row'.files \subseteq row.files \cup NewFiles(h),
         k \in objects /\ k \notin handlers[h].trash => k \in objects',
         k \in handlers'[h].trash =>
           /\ k \in named /\ \A f \in row'.files : f.key # k
           /\ \A g \in Handlers : k \notin handlers'[g].add
  PROVE  Owned(k)'
  <1>1. \A f \in NewFiles(h) : f = [key |-> f.key, no |-> handlers[h].no] /\ f.key \in handlers[h].add
    BY DEF NewFiles
  <1>2. /\ handlers \in [Handlers -> Slots] /\ handlers' \in [Handlers -> Slots]
        /\ row.files \subseteq Files /\ row'.files \subseteq Files
    BY DEF Shape, TypeOK, Rows
  <1>3. ASSUME NEW f \in row'.files, f.key = k PROVE k \in objects'
    BY <1>1, <1>3 DEF Owned
  <1>4. ASSUME NEW f \in Files, Seen(f)', f.key = k
        PROVE  Seen(f) \/ (f \in NewFiles(h) /\ k \in handlers[h].add /\ handlers'[h].add = {})
    <2>1. CASE f \in row'.files
      BY <1>1, <1>4, <2>1 DEF Seen
    <2>2. CASE \E g \in Handlers : f \in handlers'[g].read.files
      BY <2>2 DEF Seen
    <2> QED
      BY <1>4, <2>1, <2>2 DEF Seen
  <1>5. ASSUME NEW f \in Files, Seen(f)', f.key = k
        PROVE  /\ k \in named' /\ \A g \in Handlers : k \notin handlers'[g].add
               /\ \A f2 \in Files : Seen(f2)' /\ f2.key = k => f2 = f
    <2>1. CASE Seen(f)
      <3>1. k \in named /\ \A g \in Handlers : k \notin handlers[g].add
        BY <1>5, <2>1 DEF Owned
      <3>2. \A f2 \in Files : Seen(f2)' /\ f2.key = k => Seen(f2)
        BY <1>4, <3>1
      <3> QED
        BY <1>5, <2>1, <3>1, <3>2 DEF Owned
    <2>2. CASE f \in NewFiles(h) /\ k \in handlers[h].add /\ handlers'[h].add = {}
      <3>1. k \in named /\ \A g \in Handlers \ {h} : k \notin handlers[g].add
        BY <2>2 DEF Owned
      <3>2. \A f2 \in Files : Seen(f2)' /\ f2.key = k => f2 \in NewFiles(h)
        BY <1>4, <2>2 DEF Owned
      <3> QED
        BY <1>1, <1>5, <2>2, <3>1, <3>2
    <2> QED
      BY <1>4, <1>5, <2>1, <2>2
  <1>6. ASSUME NEW g \in Handlers, k \in handlers'[g].add
        PROVE  /\ k \in objects' /\ k \in named'
               /\ \A g2 \in Handlers : k \notin handlers'[g2].trash
                                       /\ (g2 # g => k \notin handlers'[g2].add)
    <2>1. k \in handlers[g].add /\ k \notin handlers'[h].trash
      BY <1>6
    <2>2. /\ k \in objects /\ k \in named
          /\ \A g2 \in Handlers : k \notin handlers[g2].trash /\ (g2 # g => k \notin handlers[g2].add)
      BY <2>1 DEF Owned
    <2>3. k \in objects' /\ k \in named'
      BY <2>2
    <2>4. ASSUME NEW g2 \in Handlers
          PROVE  k \notin handlers'[g2].trash /\ (g2 # g => k \notin handlers'[g2].add)
      BY <2>1, <2>2, <2>4
    <2> QED
      BY <2>3, <2>4
  <1>7. ASSUME NEW g \in Handlers, k \in handlers'[g].trash
        PROVE  k \in named' /\ \A f \in row'.files : f.key # k
    <2>1. CASE g = h
      BY <1>7, <2>1
    <2>2. CASE g # h
      <3>1. k \in handlers[g].trash
        BY <1>7, <2>2
      <3>2. k \notin handlers[h].add
        BY <3>1 DEF Owned
      <3>3. \A f \in row.files : f.key # k
        BY <3>1 DEF Owned
      <3>4. \A f \in NewFiles(h) : f.key # k
        BY <1>1, <3>2
      <3> QED
        BY <3>1, <3>3, <3>4 DEF Owned
    <2> QED
      BY <2>1, <2>2
  <1> QED
    BY <1>3, <1>5, <1>6, <1>7 DEF Owned

\* A request names keys that nobody named before, or none of this one's.
LEMMA OwnedByRequest ==
  ASSUME Shape, StoreInv, NEW h \in Handlers, Arrive(h), NEW k \in Keys \ reused'
  PROVE  Owned(k)'
  <1>1. /\ \A g \in Handlers \ {h} : handlers'[g] = handlers[g]
        /\ objects' = objects /\ row' = row /\ Asked(h)
    BY Starts, Asks DEF stored
  <1>2. Owned(k) /\ named \subseteq named'
    BY <1>1 DEF Asked, Name, StoreInv
  <1>3. k \in handlers'[h].add => k \in objects /\ k \notin named /\ k \in named'
    BY <1>1 DEF Asked, Name
  <1>4. \A f : Seen(f)' => Seen(f)
    BY <1>1 DEF Asked, Seen, NoRow
  <1>5. ASSUME NEW f \in Files, Seen(f)', f.key = k
        PROVE  /\ k \in named' /\ \A g \in Handlers : k \notin handlers'[g].add
               /\ \A f2 \in Files : Seen(f2)' /\ f2.key = k => f2 = f
    <2>1. /\ k \in named /\ \A g \in Handlers : k \notin handlers[g].add
          /\ \A f2 \in Files : Seen(f2) /\ f2.key = k => f2 = f
      BY <1>2, <1>4, <1>5 DEF Owned
    <2> QED
      BY <1>1, <1>2, <1>3, <1>4, <2>1
  <1>6. ASSUME NEW g \in Handlers, k \in handlers'[g].add
        PROVE  /\ k \in objects' /\ k \in named'
               /\ \A g2 \in Handlers : k \notin handlers'[g2].trash
                                       /\ (g2 # g => k \notin handlers'[g2].add)
    <2>1. handlers'[h].trash = {}
      BY <1>1 DEF Asked
    <2>2. CASE g = h
      BY <1>1, <1>2, <1>3, <1>6, <2>1, <2>2 DEF Owned
    <2>3. CASE g # h
      <3>1. k \in handlers[g].add
        BY <1>1, <1>6, <2>3
      <3>2. k \notin handlers'[h].add
        BY <1>2, <1>3, <3>1 DEF Owned
      <3> QED
        BY <1>1, <1>2, <2>1, <3>1, <3>2 DEF Owned
    <2> QED
      BY <2>2, <2>3
  <1>7. ASSUME NEW g \in Handlers, k \in handlers'[g].trash
        PROVE  k \in named' /\ \A f \in row'.files : f.key # k
    BY <1>1, <1>2, <1>7 DEF Asked, Owned
  <1> QED
    BY <1>1, <1>2, <1>5, <1>6, <1>7 DEF Owned

\* Which keys a handler that moves on has left to delete.
LEMMA TrashIs ==
  ASSUME Shape, NEW h \in Handlers, Continue(h) \/ Fail(h)
  PROVE  \/ /\ handlers'[h].trash = {}
         \/ /\ Evaluate(h)
         \/ /\ handlers'[h].trash \subseteq handlers[h].add
            /\ row' = row /\ objects' = objects
         \/ /\ UpdateWrite(h) /\ row' = Updated(h)
            /\ handlers'[h].trash \subseteq KeysOf(handlers[h].drop)
         \/ /\ row' = NoRow /\ objects' = objects
            /\ handlers'[h].trash \subseteq KeysOf(handlers[h].read.files)
  <1>1. /\ handlers \in [Handlers -> Slots] /\ handlers[h] \in Slots /\ TypeOK
    BY DEF Shape, TypeOK
  <1>2. /\ handlers[h].add \in SUBSET Keys /\ KeysOf(handlers[h].read.files) \in SUBSET Keys
        /\ KeysOf(handlers[h].drop) \in SUBSET Keys /\ {} \in SUBSET Keys
    <2>1. handlers[h].add \in SUBSET Keys /\ handlers[h].drop \in SUBSET Files
          /\ handlers[h].read.files \in SUBSET Files
      BY <1>1 DEF Slots, Rows
    <2> QED
      BY <2>1, KeysAre
  <1>3. CASE ThenEvaluate(h) \/ Finish(h) \/ Set(h, [Idle EXCEPT !.pc = "evaluate"])
    <2>1. handlers'[h] \in {Idle, [Idle EXCEPT !.pc = "evaluate"]}
      BY <1>1, <1>3 DEF ThenEvaluate, Finish, Set
    <2>2. handlers'[h].trash = {}
      BY <2>1 DEF Idle
    <2> QED
      BY <2>2
  <1>4. CASE SubmitWrite(h)
    <2>1. CASE ThenDelete(h, handlers[h].add) /\ UNCHANGED row
      BY <1>1, <1>2, <1>4, <2>1, EndsAre DEF SubmitWrite
    <2> QED
      BY <1>3, <1>4, <2>1 DEF SubmitWrite
  <1>5. CASE UpdateWrite(h)
    <2>1. CASE Updatable(h) /\ row' = Updated(h)
      <3>1. ThenDelete(h, KeysOf(handlers[h].drop))
        BY <1>5, <2>1 DEF UpdateWrite, Trash
      <3> QED
        BY <1>1, <1>2, <1>5, <2>1, <3>1, EndsAre
    <2>2. CASE ~Updatable(h) /\ UNCHANGED row
      <3>1. ThenDelete(h, handlers[h].add) /\ objects' = objects
        BY <1>5, <2>2 DEF UpdateWrite, Trash
      <3> QED
        BY <1>1, <1>2, <2>2, <3>1, EndsAre
    <2> QED
      BY <1>5, <2>1, <2>2 DEF UpdateWrite
  <1>6. CASE DeleteWrite(h)
    <2>1. CASE row' = NoRow /\ ThenDelete(h, KeysOf(handlers[h].read.files))
      <3>1. objects' = objects
        BY <1>6 DEF DeleteWrite
      <3> QED
        BY <1>1, <1>2, <2>1, <3>1, EndsAre
    <2> QED
      BY <1>3, <1>6, <2>1 DEF DeleteWrite
  <1> QED
    BY <1>3, <1>4, <1>5, <1>6
       DEF Continue, Cleanup, ReviewWrite, UpsertProgress, Fail

\* What becomes of the files and of the objects.
LEMMA FilesAfter ==
  ASSUME Shape, NEW h \in Handlers, Continue(h) \/ Fail(h)
  PROVE  /\ \/ row'.files \subseteq row.files
            \/ row'.files \subseteq row.files \cup NewFiles(h) /\ ~Evaluate(h)
         /\ objects \ handlers[h].trash \subseteq objects'
  <1>1. row \in Rows
    BY DEF Shape, TypeOK
  <1>2. objects \ handlers[h].trash \subseteq objects'
    BY DEF Continue, SubmitWrite, UpdateWrite, DeleteWrite, ReviewWrite, Cleanup, Evaluate,
           UpsertProgress, Fail, stored
  <1>3. CASE row' = [no |-> handlers[h].no, status |-> "PENDING_REVIEW", files |-> NewFiles(h)]
             /\ handlers[h].pc = "create"
    BY <1>2, <1>3 DEF Evaluate, At
  <1>4. CASE row' = Updated(h) /\ handlers[h].pc = "update"
    BY <1>1, <1>2, <1>4 DEF Evaluate, At, Updated, Rows
  <1>5. CASE row' = NoRow
    BY <1>2, <1>5 DEF NoRow
  <1>6. CASE row' = [row EXCEPT !.status = IF handlers[h].approve THEN "APPROVED" ELSE "REJECTED"]
    BY <1>1, <1>2, <1>6 DEF Rows
  <1>7. CASE row' = row
    BY <1>2, <1>7
  <1> QED
    BY <1>3, <1>4, <1>5, <1>6, <1>7, Writes

\* A handler that moves on keeps its objects apart from the others'.
LEMMA OwnedInFlight ==
  ASSUME Shape, Shape', StoreInv, Counted, NEW h \in Handlers, Continue(h) \/ Fail(h),
         NEW k \in Keys \ reused
  PROVE  Owned(k)'
  <1>1. /\ \A g \in Handlers \ {h} : handlers'[g] = handlers[g]
        /\ named' = named /\ Owned(k)
    BY Proceeds DEF StoreInv
  <1>2. /\ handlers \in [Handlers -> Slots] /\ handlers[h] \in Slots /\ row \in Rows
        /\ row.files \subseteq Files
    BY DEF Shape, TypeOK, Rows
  <1>3. /\ handlers'[h].read.files \subseteq handlers[h].read.files
        /\ \/ handlers'[h].add = {}
           \/ Evaluate(h) /\ handlers'[h].add = handlers[h].add
    BY Leaves DEF NoRow
  <1>4. /\ \/ handlers'[h].add = {}
           \/ handlers'[h].add \subseteq handlers[h].add /\ row'.files \subseteq row.files
        /\ row'.files \subseteq row.files \cup NewFiles(h)
    BY <1>3, FilesAfter
  <1>5. k \in objects /\ k \notin handlers[h].trash => k \in objects'
    BY FilesAfter
  <1>6. ASSUME k \in handlers'[h].trash
        PROVE  /\ k \in named /\ \A f \in row'.files : f.key # k
               /\ \A g \in Handlers : k \notin handlers'[g].add
    <2>1. CASE Evaluate(h)
      <3>1. k \in handlers[h].trash /\ handlers'[h].add \subseteq handlers[h].add /\ row' = row
        BY <1>6, <2>1, EvaluateKeeps
      <3> QED
        BY <1>1, <3>1 DEF Owned
    <2>2. CASE k \in handlers[h].add /\ row' = row /\ ~Evaluate(h)
      <3>1. k \in named /\ \A g \in Handlers \ {h} : k \notin handlers[g].add
        BY <1>1, <2>2 DEF Owned
      <3>2. \A f \in row.files : f.key # k
        BY <1>1, <1>2, <2>2 DEF Owned, Seen
      <3> QED
        BY <1>1, <1>3, <2>2, <3>1, <3>2
    <2>3. CASE UpdateWrite(h) /\ row' = Updated(h) /\ k \in KeysOf(handlers[h].drop)
      <3>1. PICK f \in handlers[h].drop : f.key = k
        BY <2>3 DEF KeysOf
      <3>2. f \in handlers[h].read.files /\ f \in Files
        BY <1>2, <3>1 DEF Counted, Counts, Slots
      <3>3. /\ k \in named /\ \A g \in Handlers : k \notin handlers[g].add
            /\ \A f2 \in Files : Seen(f2) /\ f2.key = k => f2 = f
        BY <1>1, <3>1, <3>2 DEF Owned, Seen
      <3>4. \A f2 \in NewFiles(h) : f2.key # k
        BY <3>3 DEF NewFiles
      <3>5. row'.files = (row.files \ handlers[h].drop) \cup NewFiles(h)
        BY <1>2, <2>3 DEF Updated, Rows
      <3>6. ASSUME NEW f2 \in row'.files PROVE f2.key # k
        BY <1>2, <3>1, <3>3, <3>4, <3>5, <3>6 DEF Seen
      <3> QED
        BY <1>1, <1>3, <3>3, <3>6
    <2>4. CASE row' = NoRow /\ k \in KeysOf(handlers[h].read.files)
      <3>1. PICK f \in handlers[h].read.files : f.key = k
        BY <2>4 DEF KeysOf
      <3>2. f \in Files
        BY <1>2, <3>1 DEF Slots, Rows
      <3>3. k \in named /\ \A g \in Handlers : k \notin handlers[g].add
        BY <1>1, <3>1, <3>2 DEF Owned, Seen
      <3> QED
        BY <1>1, <1>3, <2>4, <3>3 DEF NoRow
    <2> QED
      BY <1>6, <2>1, <2>2, <2>3, <2>4, TrashIs
  <1> QED
    BY <1>1, <1>3, <1>4, <1>5, <1>6, Carries

LEMMA StoreStep == Shape /\ Shape' /\ Counted /\ StoreInv /\ [Next]_vars => StoreInv'
  <1> SUFFICES ASSUME Shape, Shape', Counted, StoreInv, [Next]_vars, NEW k \in Keys \ reused'
               PROVE  Owned(k)'
    BY DEF StoreInv
  <1>1. CASE UNCHANGED vars
    BY <1>1 DEF StoreInv, Owned, Seen, vars, stored, history
  <1>2. ASSUME NEW x \in Keys, Upload(x) PROVE Owned(k)'
    BY <1>2 DEF Upload, StoreInv, Owned, Seen
  <1>3. ASSUME NEW h \in Handlers, Arrive(h) PROVE Owned(k)'
    BY <1>3, OwnedByRequest
  <1>4. ASSUME NEW h \in Handlers, Continue(h) \/ Fail(h) PROVE Owned(k)'
    BY <1>4, OwnedInFlight, Proceeds
  <1> QED
    BY <1>1, <1>2, <1>3, <1>4 DEF Next

-----------------------------------------------------------------------------
(* What is left behind                                                      *)

\* Only uploaded objects are stored and named; only a request that adds files, and a
\* deletion of objects under way, hold keys.
Tidy ==
    /\ objects \subseteq uploaded /\ named \subseteq uploaded
    /\ row.no = 0 => row.files = {}
    /\ \A h \in Handlers :
         /\ handlers[h].pc \notin {"create", "update"} => handlers[h].add = {}
         /\ handlers[h].pc # "cleanup" => handlers[h].trash = {}

Holds(h) == handlers[h].add \cup handlers[h].trash

LEMMA Uses ==
  ASSUME NEW k
  PROVE  k \in InUse <=> k \in KeysOf(row.files) \/ \E h \in Handlers : k \in Holds(h)
  BY DEF InUse, Holds

LEMMA UsesNext ==
  ASSUME NEW k
  PROVE  k \in InUse' <=> k \in KeysOf(row'.files) \/ \E h \in Handlers : k \in Holds(h)'
  BY DEF InUse, Holds, KeysOf

LEMMA DeletesHold ==
  ASSUME Shape, NEW h \in Handlers, NEW K \in SUBSET Keys, ThenDelete(h, K)
  PROVE  /\ Holds(h)' = K
         /\ handlers'[h].pc # "cleanup" => handlers'[h].trash = {}
  <1>1. CASE K = {}
    <2>1. handlers'[h] = Idle
      BY <1>1 DEF ThenDelete, Finish, Set, Shape, TypeOK
    <2> QED
      BY <1>1, <2>1 DEF Holds, Idle
  <1>2. CASE K # {}
    <2>1. handlers'[h] = [Idle EXCEPT !.pc = "cleanup", !.trash = K]
      BY <1>2 DEF ThenDelete, Set, Shape, TypeOK
    <2>2. handlers'[h].add = {} /\ handlers'[h].trash = K /\ handlers'[h].pc = "cleanup"
      BY <2>1 DEF Idle
    <2> QED
      BY <2>2 DEF Holds
  <1> QED
    BY <1>1, <1>2

LEMMA FinishesHold ==
  ASSUME Shape, NEW h \in Handlers,
         Finish(h) \/ ThenEvaluate(h) \/ Set(h, [Idle EXCEPT !.pc = "evaluate"])
  PROVE  handlers'[h].trash = {}
  <1>1. handlers'[h] \in {Idle, [Idle EXCEPT !.pc = "evaluate"]}
    BY DEF Finish, ThenEvaluate, Set, Shape, TypeOK
  <1> QED
    BY <1>1 DEF Idle

\* A handler that moves on hands the keys that it held, or that the submission names
\* no longer, to the submission or to a deletion, unless it fails or did not read
\* them.
LEMMA HandsOver ==
  ASSUME Shape, Tidy, NEW h \in Handlers, Continue(h) \/ Fail(h)
  PROVE  /\ objects' \subseteq objects
         /\ handlers'[h].pc # "cleanup" => handlers'[h].trash = {}
         /\ disturbed' \subseteq {"race"} =>
              \A k \in objects' : k \in KeysOf(row.files) \cup Holds(h) =>
                                     k \in KeysOf(row'.files) \cup Holds(h)'
  <1>1. /\ handlers[h] \in Slots /\ row \in Rows
        /\ handlers[h].add \in SUBSET Keys /\ handlers[h].drop \in SUBSET Files
        /\ handlers[h].read.files \in SUBSET Files
    BY DEF Shape, TypeOK, Slots, Rows
  <1>2. /\ handlers[h].pc \notin {"create", "update"} => handlers[h].add = {}
        /\ handlers[h].pc # "cleanup" => handlers[h].trash = {}
    BY DEF Tidy
  <1>3. CASE SubmitWrite(h)
    <2>1. /\ objects' = objects /\ handlers[h].pc = "create" /\ Holds(h) = handlers[h].add
      BY <1>2, <1>3 DEF SubmitWrite, At, Holds
    <2>2. CASE row.no = 0 /\ ThenEvaluate(h)
               /\ row' = [no |-> handlers[h].no, status |-> "PENDING_REVIEW", files |-> NewFiles(h)]
      <3>1. KeysOf(row'.files) = handlers[h].add
        BY <2>1, <2>2, NewFilesAre
      <3>2. KeysOf(row.files) = {}
        BY <2>2 DEF Tidy, KeysOf
      <3>3. handlers'[h].trash = {}
        BY <2>2, FinishesHold
      <3> QED
        BY <2>1, <3>1, <3>2, <3>3
    <2>3. CASE row' = row /\ ThenDelete(h, handlers[h].add)
      BY <1>1, <2>1, <2>3, DeletesHold
    <2> QED
      BY <1>3, <2>2, <2>3 DEF SubmitWrite
  <1>4. CASE UpdateWrite(h)
    <2>1. /\ objects' = objects /\ handlers[h].pc = "update" /\ Holds(h) = handlers[h].add
      BY <1>2, <1>4 DEF UpdateWrite, At, Holds
    <2>2. CASE Updatable(h) /\ row' = Updated(h) /\ ThenDelete(h, KeysOf(handlers[h].drop))
      <3>1. Holds(h)' = KeysOf(handlers[h].drop)
            /\ (handlers'[h].pc # "cleanup" => handlers'[h].trash = {})
        BY <1>1, <2>2, KeysAre, DeletesHold
      <3>2. row'.files = (row.files \ handlers[h].drop) \cup NewFiles(h)
        BY <1>1, <2>2 DEF Updated, Rows
      <3>3. KeysOf(NewFiles(h)) = handlers[h].add
        BY <2>1, NewFilesAre
      <3>4. ASSUME NEW k \in KeysOf(row.files) \cup Holds(h)
            PROVE  k \in KeysOf(row'.files) \cup Holds(h)'
        BY <2>1, <3>1, <3>2, <3>3 DEF KeysOf
      <3> QED
        BY <2>1, <3>1, <3>4
    <2>3. CASE ~Updatable(h) /\ row' = row /\ ThenDelete(h, handlers[h].add)
      BY <1>1, <2>1, <2>3, DeletesHold
    <2> QED
      BY <1>4, <2>2, <2>3 DEF UpdateWrite, Trash
  <1>5. CASE DeleteWrite(h)
    <2>1. /\ objects' = objects /\ handlers[h].pc = "delete" /\ Holds(h) = {}
      BY <1>2, <1>5 DEF DeleteWrite, At, Holds
    <2>2. CASE ThenDelete(h, KeysOf(handlers[h].read.files))
               /\ disturbed' = disturbed \cup (IF Race(h) THEN {"race"} ELSE {})
                   \cup (IF row.files \subseteq handlers[h].read.files THEN {} ELSE {"unread"})
      <3>1. Holds(h)' = KeysOf(handlers[h].read.files)
            /\ (handlers'[h].pc # "cleanup" => handlers'[h].trash = {})
        BY <1>1, <2>2, KeysAre, DeletesHold
      <3>2. disturbed' \subseteq {"race"} => row.files \subseteq handlers[h].read.files
        BY <2>2
      <3> QED
        BY <2>1, <3>1, <3>2 DEF KeysOf
    <2>3. CASE Finish(h) /\ row' = row
      BY <2>1, <2>3, FinishesHold
    <2> QED
      BY <1>5, <2>2, <2>3 DEF DeleteWrite
  <1>6. CASE Cleanup(h)
    <2>1. /\ row' = row /\ handlers[h].pc = "cleanup" /\ Holds(h) = handlers[h].trash
          /\ handlers'[h].trash = {}
      BY <1>2, <1>6, FinishesHold DEF Cleanup, At, Holds
    <2>2. CASE objects' = objects \ handlers[h].trash
      BY <2>1, <2>2
    <2>3. CASE /\ disturbed' = disturbed \cup {"failure"}
               /\ \E k \in handlers[h].trash : objects' = objects \ (handlers[h].trash \ {k})
      BY <2>1, <2>3
    <2> QED
      BY <1>6, <2>2, <2>3 DEF Cleanup
  <1>7. CASE ReviewWrite(h)
    <2>1. /\ objects' = objects /\ handlers[h].pc = "review" /\ Holds(h) = {}
      BY <1>2, <1>7 DEF ReviewWrite, At, Holds
    <2>2. handlers'[h].trash = {}
      BY <1>7, FinishesHold DEF ReviewWrite
    <2>3. row'.files = row.files
      BY <1>1, <1>7 DEF ReviewWrite, Rows
    <2> QED
      BY <2>1, <2>2, <2>3
  <1>8. CASE Evaluate(h)
    <2>1. /\ handlers'[h].trash = handlers[h].trash /\ handlers[h].trash = {} /\ Holds(h) = {}
          /\ row' = row /\ objects' = objects
      BY <1>2, <1>8, EvaluateKeeps DEF Evaluate, At, Holds, stored
    <2> QED
      BY <2>1
  <1>9. CASE UpsertProgress(h)
    <2>1. handlers'[h].trash = {} /\ Holds(h) = {} /\ row' = row /\ objects' = objects
      BY <1>2, <1>9, FinishesHold DEF UpsertProgress, At, Holds
    <2> QED
      BY <2>1
  <1>10. CASE Fail(h)
    <2>1. handlers'[h].trash = {} /\ objects' = objects /\ "failure" \in disturbed'
      BY <1>10, FinishesHold DEF Fail, stored
    <2> QED
      BY <2>1
  <1> QED
    BY <1>3, <1>4, <1>5, <1>6, <1>7, <1>8, <1>9, <1>10 DEF Continue

\* A request takes an idle slot, which holds no keys, and holds those it names.
LEMMA Takes ==
  ASSUME Shape, Tidy, NEW h \in Handlers, Arrive(h)
  PROVE  /\ Holds(h) = {} /\ named' \subseteq named \cup Holds(h)' /\ Holds(h)' \subseteq objects
         /\ handlers'[h].trash = {}
         /\ handlers'[h].pc \notin {"create", "update"} => handlers'[h].add = {}
  <1>1. handlers[h].pc = "idle"
    BY DEF Arrive, SubmitProject, UpdateSubmission, DeleteSubmission, Review, View, Begin, At
  <1>2. Holds(h) = {}
    BY <1>1 DEF Tidy, Holds
  <1>3. Asked(h)
    BY Asks
  <1>4. named' \subseteq named \cup handlers'[h].add
    BY <1>3 DEF Asked, Name
  <1>5. Holds(h)' = handlers'[h].add /\ handlers'[h].trash = {} /\ handlers'[h].add \subseteq objects
    BY <1>3 DEF Asked, Holds, Name
  <1>6. handlers'[h].pc \notin {"create", "update"} => handlers'[h].add = {}
    <2>1. CASE Opens(h)
      BY <2>1 DEF Opens, Idle
    <2>2. CASE Removes(h)
      BY <2>2 DEF Removes, Idle
    <2>3. ASSUME NEW b \in BOOLEAN, Judges(h, b) PROVE handlers'[h].add = {}
      BY <2>3 DEF Judges, Idle
    <2>4. ASSUME NEW add, Submits(h, add) PROVE handlers'[h].pc = "create"
      BY <2>4 DEF Submits, Idle
    <2>5. ASSUME NEW add, NEW drop, Revises(h, add, drop) PROVE handlers'[h].pc = "update"
      BY <2>5 DEF Revises, Idle
    <2> QED
      BY <2>1, <2>2, <2>3, <2>4, <2>5, Starts
  <1> QED
    BY <1>2, <1>4, <1>5, <1>6

LEMMA TidyStep == Shape /\ Tidy /\ [Next]_vars => Tidy'
  <1> SUFFICES ASSUME Shape, Tidy, [Next]_vars PROVE Tidy'
    OBVIOUS
  <1>1. CASE UNCHANGED vars
    BY <1>1 DEF Tidy, vars, stored, history
  <1>2. ASSUME NEW k \in Keys, Upload(k) PROVE Tidy'
    BY <1>2 DEF Upload, Tidy
  <1>3. ASSUME NEW h \in Handlers, Arrive(h) PROVE Tidy'
    <2>1. /\ UNCHANGED <<objects, row, uploaded>> /\ named' \subseteq uploaded
      BY <1>3, Starts, Takes DEF stored, Tidy
    <2>2. ASSUME NEW g \in Handlers
          PROVE  /\ handlers'[g].pc \notin {"create", "update"} => handlers'[g].add = {}
                 /\ handlers'[g].pc # "cleanup" => handlers'[g].trash = {}
      BY <1>3, Starts, Takes DEF Tidy
    <2> QED
      BY <2>1, <2>2 DEF Tidy
  <1>4. ASSUME NEW h \in Handlers, Continue(h) \/ Fail(h) PROVE Tidy'
    <2>1. objects' \subseteq uploaded' /\ named' \subseteq uploaded'
      BY <1>4, HandsOver, Proceeds DEF Tidy
    <2>2. ASSUME row'.no = 0 PROVE row'.files = {}
      <3>1. row \in Rows /\ handlers[h] \in Slots
        BY DEF Shape, TypeOK
      <3>2. CASE row' = row
        BY <2>2, <3>2 DEF Tidy
      <3>3. CASE handlers[h].pc = "create"
                 /\ row' = [no |-> handlers[h].no, status |-> "PENDING_REVIEW", files |-> NewFiles(h)]
        BY <2>2, <3>3 DEF Shape, Numbered
      <3>4. CASE handlers[h].pc = "update" /\ Updatable(h) /\ row' = Updated(h)
        BY <2>2, <3>1, <3>4 DEF Updatable, Updated, Shape, Numbered, Rows
      <3>5. CASE row' = NoRow
        BY <3>5 DEF NoRow
      <3>6. CASE row' = [row EXCEPT !.status = IF handlers[h].approve THEN "APPROVED" ELSE "REJECTED"]
        BY <2>2, <3>1, <3>6 DEF Rows, Tidy
      <3> QED
        BY <1>4, <3>2, <3>3, <3>4, <3>5, <3>6, Writes
    <2>3. handlers'[h].add = {}
      BY <1>4, Leaves DEF Evaluate, At, Tidy
    <2>4. ASSUME NEW g \in Handlers
          PROVE  /\ handlers'[g].pc \notin {"create", "update"} => handlers'[g].add = {}
                 /\ handlers'[g].pc # "cleanup" => handlers'[g].trash = {}
      BY <1>4, <2>3, Proceeds, HandsOver DEF Tidy
    <2> QED
      BY <2>1, <2>2, <2>4 DEF Tidy
  <1> QED
    BY <1>1, <1>2, <1>3, <1>4 DEF Next

LEMMA NothingLeftStep == Shape /\ Tidy /\ NothingIsLeftBehind /\ [Next]_vars => NothingIsLeftBehind'
  <1> SUFFICES ASSUME Shape, Tidy, NothingIsLeftBehind, [Next]_vars,
                      disturbed' \subseteq {"race"}, NEW k \in objects', k \in named'
               PROVE  k \in InUse'
    BY DEF NothingIsLeftBehind
  <1>1. CASE UNCHANGED vars
    BY <1>1, Uses, UsesNext DEF vars, stored, history, NothingIsLeftBehind, Holds
  <1>2. ASSUME NEW x \in Keys, Upload(x) PROVE k \in InUse'
    <2>1. k \in objects /\ k \in named /\ disturbed' = disturbed
      BY <1>2 DEF Upload, Tidy
    <2>2. k \in InUse
      BY <2>1 DEF NothingIsLeftBehind
    <2> QED
      BY <1>2, <2>2, Uses, UsesNext DEF Upload, Holds
  <1>3. ASSUME NEW h \in Handlers, Arrive(h) PROVE k \in InUse'
    <2>1. objects' = objects /\ row' = row /\ disturbed' = disturbed
          /\ \A g \in Handlers \ {h} : Holds(g)' = Holds(g)
      BY <1>3, Starts DEF stored, Holds
    <2>2. CASE k \in Holds(h)'
      BY <2>2, UsesNext
    <2>3. CASE k \notin Holds(h)'
      <3>1. k \in named /\ Holds(h) = {}
        BY <1>3, <2>3, Takes
      <3>2. k \in InUse
        BY <2>1, <3>1 DEF NothingIsLeftBehind
      <3> QED
        BY <2>1, <3>1, <3>2, Uses, UsesNext
    <2> QED
      BY <2>2, <2>3
  <1>4. ASSUME NEW h \in Handlers, Continue(h) \/ Fail(h) PROVE k \in InUse'
    <2>1. /\ named' = named /\ disturbed \subseteq disturbed' /\ objects' \subseteq objects
          /\ \A g \in Handlers \ {h} : Holds(g)' = Holds(g)
      BY <1>4, Proceeds, HandsOver DEF Holds
    <2>2. k \in InUse
      BY <2>1 DEF NothingIsLeftBehind
    <2>3. CASE k \in KeysOf(row.files) \cup Holds(h)
      <3>1. k \in KeysOf(row'.files) \cup Holds(h)'
        BY <1>4, <2>3, HandsOver
      <3> QED
        BY <3>1, UsesNext
    <2>4. CASE k \notin KeysOf(row.files) \cup Holds(h)
      BY <2>1, <2>2, <2>4, Uses, UsesNext
    <2> QED
      BY <2>3, <2>4
  <1> QED
    BY <1>1, <1>2, <1>3, <1>4 DEF Next

-----------------------------------------------------------------------------
(* The theorems                                                             *)

LEMMA InitInv == Init => IInv
  <1> SUFFICES ASSUME Init PROVE IInv
    OBVIOUS
  <1>1. handlers \in [Handlers -> Slots] /\ \A h \in Handlers : handlers[h] = Idle
    BY SlotsAre DEF Init
  <1>2. row = NoRow /\ row \in Rows
    BY SlotsAre DEF Init
  <1>3. Shape
    <2>1. credited \in BOOLEAN
      BY DEF Init
    <2>2. changes \in 0..MaxChanges
      BY BoundsAreNaturals DEF Init
    <2>3. row.no = 0 <=> row.status = "NONE"
      BY <1>2 DEF NoRow
    <2>4. Numbered
      BY <1>1 DEF Numbered, Idle
    <2>5. /\ objects \subseteq Keys /\ uploaded \subseteq Keys /\ named \subseteq Keys
          /\ reused \subseteq Keys /\ late \subseteq Handlers
          /\ disturbed \subseteq {"failure", "race", "unread"}
      BY DEF Init
    <2> QED
      BY <1>1, <1>2, <2>1, <2>2, <2>3, <2>4, <2>5, Zenon DEF Shape, TypeOK
  <1>4. Judged
    BY <1>2 DEF Judged, NoRow
  <1>5. Counted
    BY <1>1, <1>2 DEF Counted, FileCountHolds, Counts, NoRow, Idle
  <1>6. StoreInv
    BY <1>1, <1>2 DEF StoreInv, Owned, Seen, NoRow, Idle
  <1> QED
    BY <1>3, <1>4, <1>5, <1>6 DEF IInv

LEMMA Inductive == IInv /\ [Next]_vars => IInv'
  BY ShapeStep, JudgedStep, CountedStep, StoreStep DEF IInv

LEMMA Stores == IInv => OnceNamedFilesAreStored
  <1> SUFFICES ASSUME IInv, NEW k \in KeysOf(row.files), k \notin objects PROVE k \in reused
    BY DEF OnceNamedFilesAreStored
  <1>1. PICK f \in row.files : f.key = k
    BY DEF KeysOf
  <1>2. k \in Keys
    BY <1>1 DEF IInv, Shape, TypeOK, Rows, Files
  <1> QED
    BY <1>1, <1>2 DEF IInv, StoreInv, Owned

\* The variables keep their shape; a file of the submission is in the bucket, unless
\* two requests named it; the submission has a file and, unless two of the learner's
\* writes overlapped, no more than the code allows.
THEOREM SubmissionsAreSound == Spec => [](TypeOK /\ OnceNamedFilesAreStored /\ FileCountHolds)
  <1>1. Spec => []IInv
    BY InitInv, Inductive, PTL DEF Spec
  <1>2. IInv => TypeOK /\ OnceNamedFilesAreStored /\ FileCountHolds
    BY Stores DEF IInv, Shape, Counted
  <1> QED
    BY <1>1, <1>2, PTL

\* A submission has a file and at most as many as the code allows, unless two of
\* the learner's writes overlapped: each of them counts the files it has read.
THEOREM FileCountsHold == Spec => []FileCountHolds
  BY SubmissionsAreSound, PTL

\* An approved submission changes only by a reviewer, or by a request that read it
\* before the approval.
THEOREM ApprovalsAreKept == Spec => ApprovalsStand
  <1> DEFINE Excused == row.status = "APPROVED" /\ row' # row =>
                \E h \in Handlers : /\ handlers'[h] # handlers[h]
                                    /\ h \in late \/ handlers[h].pc = "review"
  <1>1. Spec => []IInv
    BY InitInv, Inductive, PTL DEF Spec
  <1>2. IInv /\ [Next]_vars => [Excused]_vars
    BY ApprovalStep DEF IInv
  <1>3. ApprovalsStand <=> [][Excused]_vars
    BY DEF ApprovalsStand
  <1> QED
    BY <1>1, <1>2, <1>3, PTL DEF Spec

\* An object that a request has named is on its way to be deleted once neither a file
\* of the submission nor a request names it, unless a statement failed, or a deletion
\* had read the files before an update added it.
THEOREM ReplacedFilesGo == Spec => []NothingIsLeftBehind
  <1> DEFINE Inv == IInv /\ Tidy /\ NothingIsLeftBehind
  <1>1. Init => Inv
    <2> SUFFICES ASSUME Init PROVE Inv
      OBVIOUS
    <2>1. \A h \in Handlers : handlers[h] = Idle
      BY DEF Init
    <2>2. Tidy
      BY <2>1 DEF Init, Tidy, Idle, NoRow
    <2>3. NothingIsLeftBehind
      BY DEF Init, NothingIsLeftBehind
    <2> QED
      BY <2>2, <2>3, InitInv
  <1>2. Inv /\ [Next]_vars => Inv'
    BY Inductive, TidyStep, NothingLeftStep DEF IInv
  <1> QED
    BY <1>1, <1>2, PTL DEF Spec

=============================================================================
