------------------------- MODULE ContentAdminProofs -------------------------
(***************************************************************************)
(* Proofs about ContentAdmin, for any rows, keys, inputs that the DTOs     *)
(* allow, requests in flight and failures:                                 *)
(*                                                                         *)
(*   ContentIsTyped       the tables keep their foreign keys, and requests *)
(*                        what their handlers checked;                     *)
(*   HandlersCheckEnough  windows, weights, slugs and places hold;         *)
(*   CheckedCodesFit      no code that was found free is refused;          *)
(*   NamedObjectsStay     rows name stored objects;                        *)
(*   ReplacedObjectsGo    what rows stop naming is removed;                *)
(*   ProgressIsKeptUp     progress is computed from the content as it is.  *)
(*                                                                         *)
(* Each speaks of the requests that nothing excuses.  The argument they    *)
(* share: while no two requests on a row overlapped, the row is as its     *)
(* handler read it (Unraced); while none on a topic or course did, so are  *)
(* the codes, the links and the slugs around it (Uncrowded).  Then a check *)
(* that held at the read holds at the write, the key that is removed is    *)
(* the one that the write replaces (KeysAreSafe, KeysAreRemoved), and the  *)
(* courses that are evaluated are those whose view it changed              *)
(* (ProgressIsDue).                                                        *)
(***************************************************************************)
EXTENDS ContentAdmin, TLAPS

-----------------------------------------------------------------------------
(* Types                                                                   *)

Ops == {"none", "createQuizzes", "updateQuiz", "deleteQuiz", "createTopic", "updateTopic",
        "deleteTopic", "createCourse", "updateCourse", "deleteCourse", "updateCourseTopics",
        "upsertRequirement"}
Ats == Pending \cup {"idle", "release", "evaluate"}

Puts == {None, Keep} \cup Seq(QuizRows) \cup QuizRows \cup TopicRows \cup TopicInputs
          \cup CourseInputs \cup Objects \cup Seq(Topics)
Seens == {None} \cup QuizRows \cup TopicRows \cup CourseRows \cup Nat \cup SUBSET LinkRows

Requests ==
    [op : Ops, at : Ats, row : Quizzes \cup Topics \cup Courses \cup {None},
     around : SUBSET (Topics \cup Courses), keys : SUBSET Objects, put : Puts, seen : Seens,
     trash : Keys, courses : SUBSET Courses]

Words == {"race", "crowd", "failure", "rejected", "shared", "cascade", "cleared", "attached", "reset"}

Tables ==
    /\ quizzes \in [Quizzes -> QuizRows] /\ topics \in [Topics -> TopicRows]
    /\ courses \in [Courses -> CourseRows] /\ links \in SUBSET LinkRows

Progress == [topics : SUBSET Topics, weights : Int \X Int]
Books ==
    /\ stored \in SUBSET Objects /\ named \in SUBSET Objects
    /\ evaluated \in [Courses -> Progress]
    /\ changes \in Nat /\ failures \in Nat /\ refused \in BOOLEAN /\ disturbed \in SUBSET Words

\* What the handlers have checked of the input they carry, and where it came from.
\* It speaks of one request, and not of the tables.
Is(r, op, ats) == r.op = op /\ r.at \in ats

Batched(r) ==
    Is(r, "createQuizzes", {"write"}) =>
        /\ r.put \in Seq(QuizRows) /\ \A i \in DOMAIN r.put : r.put[i].topic \in Topics
        /\ r.row = None
        /\ r.around = {r.put[i].topic : i \in DOMAIN r.put}
        /\ r.keys = {r.put[i].image : i \in DOMAIN r.put} \ {None}
QuizPut(r) ==
    Is(r, "updateQuiz", {"write"}) =>
        /\ r.row \in Quizzes /\ r.put \in QuizRows /\ r.put.topic \in Topics
        /\ r.seen \in QuizRows /\ r.seen # NoQuiz
        /\ r.around = {r.seen.topic, r.put.topic} /\ r.keys = {r.put.image} \ {None}
QuizDrop(r) ==
    Is(r, "deleteQuiz", {"write"}) =>
        /\ r.row \in Quizzes /\ r.seen \in QuizRows /\ r.seen # NoQuiz
        /\ r.around = {r.seen.topic} /\ r.keys = {}
TopicNew(r) ==
    Is(r, "createTopic", {"order", "write"}) =>
        /\ r.row = None /\ r.put \in NewTopics /\ WindowOrdered(r.put.starts, r.put.ends)
        /\ r.around = r.courses /\ (\E c \in Courses : r.courses = {c})
        /\ r.keys = {r.put.image} \ {None}
        /\ r.at = "write" => r.seen \in Nat
TopicPut(r) ==
    Is(r, "updateTopic", {"free", "write"}) =>
        /\ r.row \in Topics /\ r.put \in TopicPuts /\ r.seen \in TopicRows /\ r.seen # NoTopic
        /\ WindowOrdered(Set(r.put.starts, r.seen.starts), Set(r.put.ends, r.seen.ends))
        /\ r.keys = {r.put.image} \ {None, Keep}
        /\ r.trash = IF r.put.image \in {None, Keep} THEN None
                     ELSE Replaced(r.seen.image, r.put.image)
TopicDrop(r) ==
    Is(r, "deleteTopic", {"write"}) =>
        /\ r.row \in Topics /\ r.seen \in TopicRows /\ r.seen # NoTopic
        /\ r.around = r.courses /\ r.keys = {}
CourseNew(r) ==
    Is(r, "createCourse", {"write"}) =>
        /\ r.row \in Courses /\ r.put \in CourseInputs /\ r.put.project \in BOOLEAN
        /\ WeightsAccepted(r.put, r.put.project)
        /\ r.put.image \in Keys /\ r.keys = {r.put.image} \ {None}
CoursePut(r) ==
    Is(r, "updateCourse", {"free", "decide", "write"}) =>
        /\ r.row \in Courses /\ r.put \in CourseInputs
        /\ r.keys = {r.put.image} \ {None, Keep}
        /\ r.trash # None => r.put.image \notin {None, Keep, r.trash}
        /\ r.at = "write" => /\ r.seen \in CourseRows
                             /\ WeightsAccepted(r.put, Set(r.put.project, r.seen.project))
CourseDrop(r) ==
    Is(r, "deleteCourse", {"write"}) =>
        r.row \in Courses /\ r.seen \in CourseRows /\ r.keys = {}
ListPut(r) ==
    Is(r, "updateCourseTopics", {"order", "write"}) =>
        /\ r.row \in Courses /\ r.put \in TopicLists /\ r.courses = {r.row}
        /\ r.around = {r.put[i] : i \in DOMAIN r.put} /\ r.keys = {}
        /\ r.at = "write" => r.seen \in SUBSET LinkRows /\ \A l \in r.seen : l.course = r.row
BriefPut(r) ==
    /\ Is(r, "upsertRequirement", {"write", "release", "enable"}) =>
           r.row \in Courses /\ r.seen \in CourseRows
    /\ Is(r, "upsertRequirement", {"write"}) =>
           r.put \in BriefPuts /\ r.keys = {r.put} \ {None, Keep}
    /\ Is(r, "upsertRequirement", {"release"}) => r.courses = {}

\* The steps that each handler has.
Stages(r) ==
    /\ r.at = "idle" => r = Idle
    /\ r.at = "free" => r.op \in {"updateTopic", "updateCourse"} /\ r.trash # None
    /\ r.at = "decide" => r.op = "updateCourse"
    /\ r.at = "order" => r.op \in {"createTopic", "updateCourseTopics"}
    /\ r.at = "enable" => r.op = "upsertRequirement"
    /\ r.at = "release" => r.op # "updateCourse" /\ r.op # "updateTopic" /\ r.trash # None

Carried(r) ==
    /\ Stages(r)
    /\ Batched(r) /\ QuizPut(r) /\ QuizDrop(r)
    /\ TopicNew(r) /\ TopicPut(r) /\ TopicDrop(r)
    /\ CourseNew(r) /\ CoursePut(r) /\ CourseDrop(r) /\ ListPut(r) /\ BriefPut(r)

\* The foreign keys, and the unique index of links.
Linked ==
    /\ \A l \in links : courses[l.course].exists /\ HasTopic(l.topic)
    /\ \A l, k \in links : l.course = k.course /\ l.topic = k.topic => l = k
    /\ \A q \in Quizzes : quizzes[q] # NoQuiz =>
          quizzes[q].topic \in Topics /\ HasTopic(quizzes[q].topic)
    /\ \A t \in Topics : HasTopic(t) => topics[t].slug \in Slugs
    /\ \A c \in Courses : ~courses[c].exists => courses[c] = NoCourse

Requested == req \in [Admins -> Requests] /\ \A a \in Admins : Carried(req[a])

Shape == Tables /\ Linked /\ Books /\ Requested

-----------------------------------------------------------------------------
(* Requests that nobody disturbs                                           *)

\* The row that a request is about to write is as it read it, but a quiz may have
\* gone with its topic.
Fresh(r) ==
    /\ Is(r, "updateQuiz", {"write"}) \/ Is(r, "deleteQuiz", {"write"}) =>
          quizzes[r.row] \in {r.seen, NoQuiz}
    /\ Is(r, "updateTopic", {"free", "write"}) \/ Is(r, "deleteTopic", {"write"}) =>
          topics[r.row] = r.seen
    /\ Is(r, "updateCourse", {"free", "decide", "write"}) =>
          /\ courses[r.row].exists
          /\ IF r.trash # None THEN courses[r.row].image = r.trash
             ELSE courses[r.row].image = None \/ r.put.image \in {None, Keep, courses[r.row].image}
    /\ r.op \in {"updateCourse", "deleteCourse", "upsertRequirement"} /\ r.at = "write" =>
          courses[r.row] = r.seen /\ courses[r.row].exists

Unraced == "race" \notin disturbed => \A a \in Admins : Fresh(req[a])

\* What a request found about a topic, a course or their codes holds still.
NewCodes(r) ==
    Is(r, "createQuizzes", {"write"}) => \A i \in DOMAIN r.put :
        /\ \A p \in Quizzes : quizzes[p].topic = r.put[i].topic => quizzes[p].code # r.put[i].code
        /\ \A j \in 1..i-1 : r.put[j].topic = r.put[i].topic => r.put[j].code # r.put[i].code
NewCode(r) ==
    Is(r, "updateQuiz", {"write"}) => \A p \in Quizzes \ {r.row} :
        quizzes[p].topic = r.put.topic => quizzes[p].code # r.put.code
LastPlace(r) ==
    Is(r, "createTopic", {"order", "write"}) => \A c \in r.courses :
        /\ SlugFree(c, r.put.slug, None)
        /\ r.at = "write" => \A l \in LinksOf(c) : l.order <= r.seen
NewSlug(r) ==
    Is(r, "updateTopic", {"free", "write"}) /\ r.put.slug # Keep =>
        /\ CoursesOf(r.row) \subseteq r.around
        /\ \A c \in CoursesOf(r.row) : SlugFree(c, r.put.slug, r.row)
Settled(r) ==
    /\ NewCodes(r) /\ NewCode(r) /\ LastPlace(r) /\ NewSlug(r)
    /\ Is(r, "deleteTopic", {"write"}) => CoursesOf(r.row) \subseteq r.courses
    /\ Is(r, "updateCourseTopics", {"write"}) => LinksOf(r.row) \subseteq r.seen

Uncrowded == "crowd" \notin disturbed => \A a \in Admins : Settled(req[a])

-----------------------------------------------------------------------------
(* The properties, strengthened                                            *)

Windows == \A t \in Topics : WindowOrdered(topics[t].starts, topics[t].ends)
Weights == \A c \in Courses : /\ courses[c].topicWeight + courses[c].projectWeight = 100
                              /\ ~courses[c].project => courses[c].topicWeight = 100
Places == \A l, k \in links : l # k /\ l.course = k.course =>
             topics[l.topic].slug # topics[k.topic].slug /\ l.order # k.order

Checked ==
    /\ "race" \notin disturbed => Windows /\ Weights
    /\ disturbed \cap {"crowd", "attached"} = {} => Places

\* A key leaves the bucket only after a row has named it, and no row names a key
\* that is about to leave, but the row whose update removes it first.
Freeing(r) == Is(r, "updateTopic", {"free", "write"}) \/ Is(r, "updateCourse", {"free", "decide", "write"})
Freed == {req[a].trash : a \in {b \in Admins : Freeing(req[b])}}
Known == Named \subseteq named

Careful == disturbed \cap {"failure", "race", "shared", "rejected"} = {}
KeysAreSafe ==
    Careful => /\ NamedOnce
               /\ Named \subseteq stored \cup Freed
               /\ Objects \ named \subseteq stored
               /\ \A a \in Admins : req[a].at \in {"free", "release"} => req[a].trash \in named
               /\ \A a \in Admins : req[a].at = "release" => req[a].trash \notin Named

Tidy == disturbed \cap {"failure", "race", "cascade", "cleared"} = {}
KeysAreRemoved ==
    Tidy => /\ \A k \in (named \cap stored) \ Named :
                  \E a \in Admins : req[a].at = "release" /\ req[a].trash = k
            /\ \A a \in Admins : req[a].at \in {"order", "decide", "write"} => req[a].trash \notin stored

Calm == disturbed \cap {"failure", "race", "crowd", "reset"} = {}
ProgressIsDue ==
    Calm => \A c \in Courses : courses[c].exists =>
               \/ evaluated[c] = View(c)
               \/ \E a \in Admins : req[a].at \in {"release", "evaluate"} /\ c \in req[a].courses

-----------------------------------------------------------------------------
(* What a request carries                                                  *)

LEMMA EmptyRows ==
  /\ NoQuiz \in QuizRows /\ NoTopic \in TopicRows /\ NoCourse \in CourseRows
  /\ None \in Keys /\ None \notin Int
  BY NothingIsAName DEF NoQuiz, NoTopic, NoCourse, QuizRows, TopicRows, CourseRows, Keys, Bounds

\* What may be put in the fields of a request.
LEMMA Carriers ==
  /\ None \in Puts /\ None \in Seens
  /\ \A items \in Seq(QuizRows) : items \in Puts
  /\ \A put \in QuizRows \cup TopicRows \cup TopicInputs \cup CourseInputs : put \in Puts
  /\ \A brief \in Keys \cup {Keep} : brief \in Puts
  /\ \A list \in Seq(Topics) : list \in Puts
  /\ \A seen \in QuizRows \cup TopicRows \cup CourseRows \cup Nat : seen \in Seens
  /\ \A seen \in SUBSET LinkRows : seen \in Seens
  BY DEF Puts, Seens, Keys

LEMMA IdleIsCarried == Idle \in Requests /\ Carried(Idle)
  <1>1. Idle \in Requests
    BY Carriers, EmptyRows DEF Idle, Requests, Ops, Ats, Pending
  <1>2. Idle.op = "none" /\ Idle.at = "idle"
    BY DEF Idle
  <1> QED
    BY <1>1, <1>2 DEF Carried, Stages, Is, Batched, QuizPut, QuizDrop, TopicNew, TopicPut, TopicDrop,
                      CourseNew, CoursePut, CourseDrop, ListPut, BriefPut

\* After its write a request still holds what it removes and evaluates.
LEMMA RestIsCarried ==
  ASSUME NEW r \in Requests, NEW trash \in Keys, NEW cs \in SUBSET Courses,
         r.op \in {"updateCourse", "updateTopic"} => trash = None,
         r.op = "upsertRequirement" =>
             r.row \in Courses /\ r.seen \in CourseRows /\ (trash # None => cs = {})
  PROVE  Rest(r, trash, cs) \in Requests /\ Carried(Rest(r, trash, cs))
  <1>1. CASE trash # None
    <2> DEFINE x == [r EXCEPT !.at = "release", !.trash = trash, !.courses = cs]
    <2>1. x \in Requests
      BY DEF Requests, Ats
    <2>2. /\ x.op = r.op /\ x.at = "release" /\ x.trash = trash /\ x.courses = cs
          /\ x.row = r.row /\ x.seen = r.seen
      BY DEF Requests
    <2> HIDE DEF x
    <2>3. Carried(x)
      BY <1>1, <2>2 DEF Carried, Stages, Is, Batched, QuizPut, QuizDrop, TopicNew, TopicPut,
                        TopicDrop, CourseNew, CoursePut, CourseDrop, ListPut, BriefPut
    <2> QED
      BY <1>1, <2>1, <2>3 DEF Rest, x
  <1>2. CASE trash = None /\ cs # {}
    <2> DEFINE x == [r EXCEPT !.at = "evaluate", !.courses = cs]
    <2>1. x \in Requests
      BY DEF Requests, Ats
    <2>2. x.op = r.op /\ x.at = "evaluate"
      BY DEF Requests
    <2> HIDE DEF x
    <2>3. Carried(x)
      BY <2>2 DEF Carried, Stages, Is, Batched, QuizPut, QuizDrop, TopicNew, TopicPut,
                  TopicDrop, CourseNew, CoursePut, CourseDrop, ListPut, BriefPut
    <2> QED
      BY <1>2, <2>1, <2>3 DEF Rest, x
  <1>3. CASE trash = None /\ cs = {}
    BY <1>3, IdleIsCarried DEF Rest
  <1> QED
    BY <1>1, <1>2, <1>3

LEMMA GoKeeps ==
  ASSUME Requested, NEW a \in Admins, NEW r \in Requests, Carried(r), Go(a, r)
  PROVE  Requested' /\ req'[a] = r /\ \A b \in Admins \ {a} : req'[b] = req[b]
  <1>1. req' \in [Admins -> Requests] /\ req'[a] = r /\ \A b \in Admins \ {a} : req'[b] = req[b]
    BY DEF Requested, Go
  <1>2. \A b \in Admins : Carried(req'[b])
    BY <1>1 DEF Requested
  <1> QED
    BY <1>1, <1>2 DEF Requested

LEMMA WordsAreWords ==
  ASSUME NEW a
  PROVE  Overlaps(a) \subseteq {"race", "crowd"} /\ \A r : Sharing(r) \subseteq {"shared"}
  BY DEF Overlaps, Sharing

LEMMA BeginKeeps ==
  ASSUME Shape, NEW a \in Admins, NEW r \in Requests, Carried(r), Begin(a, r)
  PROVE  Shape'
  <1>1. Requested'
    BY GoKeeps DEF Shape, Begin
  <1>2. Books'
    <2>1. Sharing(r) \subseteq Words
      BY DEF Sharing, Words
    <2>2. changes' \in Nat /\ disturbed' \subseteq Words
      BY <2>1 DEF Shape, Books, Begin
    <2> QED
      BY <2>2 DEF Shape, Books, Begin
  <1>3. Tables' /\ Linked'
    BY DEF Shape, Begin, content, Tables, Linked, HasTopic
  <1> QED
    BY <1>1, <1>2, <1>3 DEF Shape

LEMMA CommitKeeps ==
  ASSUME Shape, NEW a \in Admins, NEW excuses \in SUBSET Words, Commit(a, excuses),
         Tables', Linked', evaluated' \in [Courses -> Progress],
         NEW r \in Requests, Carried(r), Go(a, r)
  PROVE  Shape'
  <1>1. Requested'
    BY GoKeeps DEF Shape
  <1>2. Named' \subseteq Objects
    BY DEF Named
  <1>3. Books'
    BY <1>2, WordsAreWords DEF Shape, Books, Commit, Words
  <1> QED
    BY <1>1, <1>3 DEF Shape

LEMMA RefuseKeeps ==
  ASSUME Shape, NEW a \in Admins, NEW byIndex \in BOOLEAN, Refuse(a, byIndex)
  PROVE  Shape'
  <1>1. Requested'
    BY GoKeeps, IdleIsCarried DEF Shape, Refuse, Stop
  <1>2. Books'
    BY WordsAreWords DEF Shape, Books, Refuse, Words
  <1>3. Tables' /\ Linked'
    BY DEF Shape, Refuse, content, Tables, Linked, HasTopic
  <1> QED
    BY <1>1, <1>2, <1>3 DEF Shape

-----------------------------------------------------------------------------
(* Requests that begin                                                     *)

\* What a handler knows when it has read.
Starts(r) ==
    /\ Carried(r) /\ Fresh(r) /\ Settled(r)
    /\ r.at \in Pending /\ r.keys \subseteq stored
    /\ IF r.at = "free" THEN r.trash \in Named ELSE r.trash = None

LEMMA CandidatesAreNumbers ==
  ASSUME NEW batch \in Batches, NEW code \in CodesOf(batch)
  PROVE  /\ batch \in Seq(QuizInputs) /\ code \in [DOMAIN batch -> Int]
         /\ \A i \in DOMAIN batch : code[i] \notin TakenBefore(batch, code, i)
  <1>1. batch \in Seq(QuizInputs)
    BY InputsAreValid
  <1> DEFINE most == 2 * (Cardinality(Quizzes) + Len(batch)) + 1
             range == (1..most \cup {batch[i].code : i \in DOMAIN batch}) \ {Keep}
  <1>2. range \subseteq Int
    <2>1. \A i \in DOMAIN batch : batch[i] \in QuizInputs
      BY <1>1
    <2>2. \A i \in DOMAIN batch : batch[i].code \in Int \cup {Keep}
      BY <2>1 DEF QuizInputs
    <2> QED
      BY <2>2
  <1>3. code \in [DOMAIN batch -> range]
    BY DEF CodesOf
  <1>4. \A i \in DOMAIN batch : code[i] \notin TakenBefore(batch, code, i)
    BY DEF CodesOf, NextCode
  <1> QED
    BY <1>1, <1>2, <1>3, <1>4

LEMMA NormalizedIsQuiz ==
  ASSUME NEW item \in QuizInputs, NEW code \in Int
  PROVE  /\ Normalized(item, code) \in QuizRows
         /\ Normalized(item, code).topic = item.topic /\ item.topic \in Topics
         /\ Normalized(item, code).code = IF item.code = Keep THEN code ELSE item.code
         /\ Normalized(item, code).image = IF item.image = Keep THEN None ELSE item.image
  <1>1. item.topic \in Topics /\ item.code \in Int \cup {Keep} /\ item.image \in Keys \cup {Keep}
    BY DEF QuizInputs
  <1> DEFINE c == Set(item.code, code)
             i == Set(item.image, None)
             x == [item EXCEPT !.code = c, !.image = i]
  <1>2. c \in Int /\ i \in Keys
    BY <1>1, EmptyRows DEF Set
  <1>3. x \in QuizInputs /\ x.topic = item.topic /\ x.code = c /\ x.image = i
    <2> HIDE DEF c, i
    <2> QED
      BY <1>2 DEF QuizInputs
  <1>4. x \in QuizRows
    <2> HIDE DEF c, i, x
    <2> QED
      BY <1>1, <1>2, <1>3 DEF QuizInputs, QuizRows
  <1> QED
    BY <1>1, <1>3, <1>4 DEF Normalized, Set

\* What has to be shown of a request of each handler.
LEMMA PartsOfQuizzes ==
  ASSUME NEW r
  PROVE  /\ r.op = "createQuizzes" =>
              /\ Stages(r) /\ Batched(r) => Carried(r)
              /\ Fresh(r) /\ (NewCodes(r) => Settled(r))
         /\ r.op = "updateQuiz" =>
              /\ Stages(r) /\ QuizPut(r) => Carried(r)
              /\ (r.at = "write" => quizzes[r.row] \in {r.seen, NoQuiz}) => Fresh(r)
              /\ NewCode(r) => Settled(r)
         /\ r.op = "deleteQuiz" =>
              /\ Stages(r) /\ QuizDrop(r) => Carried(r)
              /\ (r.at = "write" => quizzes[r.row] \in {r.seen, NoQuiz}) => Fresh(r)
              /\ Settled(r)
  BY DEF Carried, Is, Batched, QuizPut, QuizDrop, TopicNew, TopicPut, TopicDrop, CourseNew,
         CoursePut, CourseDrop, ListPut, BriefPut, Fresh, Settled, NewCodes, NewCode, LastPlace, NewSlug

LEMMA PartsOfTopics ==
  ASSUME NEW r
  PROVE  /\ r.op = "createTopic" =>
              /\ Stages(r) /\ TopicNew(r) => Carried(r)
              /\ Fresh(r) /\ (LastPlace(r) => Settled(r))
         /\ r.op = "updateTopic" =>
              /\ Stages(r) /\ TopicPut(r) => Carried(r)
              /\ (r.at \in {"free", "write"} => topics[r.row] = r.seen) => Fresh(r)
              /\ NewSlug(r) => Settled(r)
         /\ r.op = "deleteTopic" =>
              /\ Stages(r) /\ TopicDrop(r) => Carried(r)
              /\ (r.at = "write" => topics[r.row] = r.seen) => Fresh(r)
              /\ (r.at = "write" => CoursesOf(r.row) \subseteq r.courses) => Settled(r)
  BY DEF Carried, Is, Batched, QuizPut, QuizDrop, TopicNew, TopicPut, TopicDrop, CourseNew,
         CoursePut, CourseDrop, ListPut, BriefPut, Fresh, Settled, NewCodes, NewCode, LastPlace, NewSlug

LEMMA PartsOfCourses ==
  ASSUME NEW r
  PROVE  /\ r.op = "createCourse" => (Stages(r) /\ CourseNew(r) => Carried(r)) /\ Fresh(r) /\ Settled(r)
         /\ r.op = "updateCourse" => (Stages(r) /\ CoursePut(r) => Carried(r)) /\ Settled(r)
         /\ r.op = "deleteCourse" =>
              /\ Stages(r) /\ CourseDrop(r) => Carried(r)
              /\ (r.at = "write" => courses[r.row] = r.seen /\ courses[r.row].exists) => Fresh(r)
              /\ Settled(r)
         /\ r.op = "updateCourseTopics" =>
              /\ Stages(r) /\ ListPut(r) => Carried(r)
              /\ Fresh(r)
              /\ (r.at = "write" => LinksOf(r.row) \subseteq r.seen) => Settled(r)
         /\ r.op = "upsertRequirement" =>
              /\ Stages(r) /\ BriefPut(r) => Carried(r)
              /\ (r.at = "write" => courses[r.row] = r.seen /\ courses[r.row].exists) => Fresh(r)
              /\ Settled(r)
  BY DEF Carried, Is, Batched, QuizPut, QuizDrop, TopicNew, TopicPut, TopicDrop, CourseNew,
         CoursePut, CourseDrop, ListPut, BriefPut, Fresh, Settled, NewCodes, NewCode, LastPlace, NewSlug

LEMMA CreateQuizzesStarts ==
  ASSUME Shape, NEW a \in Admins, CreateQuizzes(a)
  PROVE  \E r \in Requests : Begin(a, r) /\ Starts(r)
  <1>0. PICK batch \in Batches : \E code \in CodesOf(batch) :
          LET items == [i \in DOMAIN batch |-> Normalized(batch[i], code[i])]
          IN  /\ \A i \in DOMAIN batch : HasTopic(batch[i].topic) /\ Verified(batch[i].image)
              /\ Begin(a, [Idle EXCEPT !.op = "createQuizzes", !.at = "write", !.put = items,
                                       !.around = {items[i].topic : i \in DOMAIN items},
                                       !.keys = {items[i].image : i \in DOMAIN items} \ {None}])
    BY DEF CreateQuizzes
  <1>1. PICK code \in CodesOf(batch) :
          LET items == [i \in DOMAIN batch |-> Normalized(batch[i], code[i])]
          IN  /\ \A i \in DOMAIN batch : HasTopic(batch[i].topic) /\ Verified(batch[i].image)
              /\ Begin(a, [Idle EXCEPT !.op = "createQuizzes", !.at = "write", !.put = items,
                                       !.around = {items[i].topic : i \in DOMAIN items},
                                       !.keys = {items[i].image : i \in DOMAIN items} \ {None}])
    BY <1>0
  <1> DEFINE items == [i \in DOMAIN batch |-> Normalized(batch[i], code[i])]
             around == {items[i].topic : i \in DOMAIN items}
             keys == {items[i].image : i \in DOMAIN items} \ {None}
             r == [Idle EXCEPT !.op = "createQuizzes", !.at = "write", !.put = items,
                               !.around = around, !.keys = keys]
  <1>2. /\ batch \in Seq(QuizInputs) /\ code \in [DOMAIN batch -> Int]
        /\ \A i \in DOMAIN batch : code[i] \notin TakenBefore(batch, code, i)
    BY CandidatesAreNumbers
  <1>3. ASSUME NEW i \in DOMAIN batch
        PROVE  /\ batch[i] \in QuizInputs /\ items[i] \in QuizRows
               /\ items[i].topic = batch[i].topic /\ items[i].topic \in Topics
               /\ items[i].code = code[i]
               /\ items[i].image = IF batch[i].image = Keep THEN None ELSE batch[i].image
    <2>1. batch[i] \in QuizInputs /\ code[i] \in Int
      BY <1>2
    <2>2. items[i] = Normalized(batch[i], code[i])
      OBVIOUS
    <2>3. batch[i].code # Keep => code[i] = batch[i].code
      BY DEF CodesOf
    <2> HIDE DEF items
    <2> QED
      BY <2>1, <2>2, <2>3, NormalizedIsQuiz
  <1>4. items \in Seq(QuizRows) /\ DOMAIN items = DOMAIN batch
    <2>1. DOMAIN batch = 1..Len(batch) /\ Len(batch) \in Nat
      BY <1>2
    <2>2. items \in [1..Len(batch) -> QuizRows]
      BY <1>3, <2>1
    <2> QED
      BY <2>1, <2>2
  <1> HIDE DEF items
  <1>5. around \subseteq Topics /\ keys \subseteq Objects /\ keys \subseteq stored
    <2>1. around \subseteq Topics
      BY <1>3, <1>4
    <2>2. keys \subseteq Objects
      BY <1>3, <1>4 DEF QuizRows, Keys
    <2>3. keys \subseteq stored
      <3> SUFFICES ASSUME NEW i \in DOMAIN batch, items[i].image # None PROVE items[i].image \in stored
        BY <1>4
      <3> QED
        BY <1>1, <1>3 DEF Verified
    <2> QED
      BY <2>1, <2>2, <2>3
  <1> HIDE DEF around, keys
  <1>6. /\ r.op = "createQuizzes" /\ r.at = "write" /\ r.row = None /\ r.put = items
        /\ r.around = around /\ r.keys = keys /\ r.trash = None /\ r \in Requests
    BY <1>4, <1>5, IdleIsCarried, Carriers DEF Idle, Requests, Ops, Ats, Pending
  <1>7. Begin(a, r)
    BY <1>1 DEF items, around, keys
  <1> HIDE DEF r
  <1>8. Stages(r) /\ Batched(r)
    BY <1>3, <1>4, <1>6 DEF Stages, Batched, around, keys
  <1>9. NewCodes(r)
    <2>1. ASSUME NEW i \in DOMAIN items
          PROVE  /\ \A p \in Quizzes : quizzes[p].topic = items[i].topic => quizzes[p].code # items[i].code
                 /\ \A j \in 1..i-1 : items[j].topic = items[i].topic => items[j].code # items[i].code
      <3>1. i \in DOMAIN batch /\ code[i] \notin TakenBefore(batch, code, i)
        BY <1>2, <1>4
      <3>2. \A j \in 1..i-1 : j \in DOMAIN batch
        BY <1>2, <3>1
      <3> QED
        BY <1>3, <3>1, <3>2 DEF TakenBefore, UsedCodes
    <2> QED
      BY <1>6, <2>1 DEF NewCodes
  <1>10. Carried(r) /\ Fresh(r) /\ Settled(r)
    BY <1>6, <1>8, <1>9, PartsOfQuizzes
  <1> QED
    BY <1>5, <1>6, <1>7, <1>10 DEF Starts, Pending

LEMMA UpdateQuizStarts ==
  ASSUME Shape, NEW a \in Admins, UpdateQuiz(a)
  PROVE  \E r \in Requests : Begin(a, r) /\ Starts(r)
  <1>1. PICK q \in Quizzes, put \in QuizPuts :
          LET new == Normalized(put, quizzes[q].code)
          IN  /\ quizzes[q] # NoQuiz /\ Fits(q, new) /\ Verified(new.image)
              /\ Begin(a, [Idle EXCEPT !.op = "updateQuiz", !.at = "write", !.row = q, !.put = new,
                                       !.seen = quizzes[q], !.keys = {new.image} \ {None},
                                       !.around = {quizzes[q].topic, new.topic}])
    BY DEF UpdateQuiz
  <1> DEFINE new == Normalized(put, quizzes[q].code)
             seen == quizzes[q]
             around == {seen.topic, new.topic}
             keys == {new.image} \ {None}
             r == [Idle EXCEPT !.op = "updateQuiz", !.at = "write", !.row = q, !.put = new,
                               !.seen = seen, !.keys = keys, !.around = around]
  <1>2. seen \in QuizRows /\ seen # NoQuiz /\ seen.topic \in Topics
    BY <1>1 DEF Shape, Tables, Linked
  <1>3. put \in QuizInputs /\ seen.code \in Int
    BY <1>2, InputsAreValid DEF QuizRows
  <1>4. new \in QuizRows /\ new.topic \in Topics /\ new.image \in Keys
    BY <1>3, NormalizedIsQuiz DEF QuizRows
  <1>5. Begin(a, r) /\ Fits(q, new) /\ Verified(new.image)
    BY <1>1
  <1>6. /\ around \subseteq Topics /\ keys \subseteq Objects /\ keys \subseteq stored
    <2> HIDE DEF new
    <2> QED
      BY <1>2, <1>4, <1>5, NothingIsAName DEF Keys, Verified
  <1> HIDE DEF new, seen
  <1>7. /\ r.op = "updateQuiz" /\ r.at = "write" /\ r.row = q /\ r.put = new /\ r.seen = seen
        /\ r.around = around /\ r.keys = keys /\ r.trash = None /\ r \in Requests
    <2> HIDE DEF around, keys
    <2> QED
      BY <1>2, <1>4, <1>6, IdleIsCarried, Carriers DEF Idle, Requests, Ops, Ats, Pending
  <1> HIDE DEF r
  <1>8. Stages(r) /\ QuizPut(r)
    BY <1>2, <1>4, <1>7 DEF Stages, QuizPut
  <1>9. NewCode(r)
    BY <1>5, <1>7 DEF NewCode, Fits
  <1>10. Carried(r) /\ Fresh(r) /\ Settled(r)
    BY <1>7, <1>8, <1>9, PartsOfQuizzes DEF seen
  <1> QED
    BY <1>5, <1>6, <1>7, <1>10 DEF Starts, Pending

LEMMA DeleteQuizStarts ==
  ASSUME Shape, NEW a \in Admins, DeleteQuiz(a)
  PROVE  \E r \in Requests : Begin(a, r) /\ Starts(r)
  <1>1. PICK q \in Quizzes :
          /\ quizzes[q] # NoQuiz
          /\ Begin(a, [Idle EXCEPT !.op = "deleteQuiz", !.at = "write", !.row = q,
                                   !.seen = quizzes[q], !.around = {quizzes[q].topic}])
    BY DEF DeleteQuiz
  <1> DEFINE seen == quizzes[q]
             r == [Idle EXCEPT !.op = "deleteQuiz", !.at = "write", !.row = q, !.seen = seen,
                               !.around = {seen.topic}]
  <1>2. seen \in QuizRows /\ seen # NoQuiz /\ seen.topic \in Topics
    BY <1>1 DEF Shape, Tables, Linked
  <1>3. Begin(a, r)
    BY <1>1
  <1> HIDE DEF seen
  <1>4. /\ r.op = "deleteQuiz" /\ r.at = "write" /\ r.row = q /\ r.seen = seen
        /\ r.around = {seen.topic} /\ r.keys = {} /\ r.trash = None /\ r \in Requests
    BY <1>2, IdleIsCarried, Carriers DEF Idle, Requests, Ops, Ats, Pending
  <1> HIDE DEF r
  <1>5. Stages(r) /\ QuizDrop(r)
    BY <1>2, <1>4 DEF Stages, QuizDrop
  <1>6. Carried(r) /\ Fresh(r) /\ Settled(r)
    BY <1>4, <1>5, PartsOfQuizzes DEF seen
  <1> QED
    BY <1>3, <1>4, <1>6 DEF Starts, Pending

LEMMA CreateTopicStarts ==
  ASSUME Shape, NEW a \in Admins, CreateTopic(a)
  PROVE  \E r \in Requests : Begin(a, r) /\ Starts(r)
  <1>1. PICK c \in Courses, new \in NewTopics :
          /\ SlugFree(c, new.slug, None) /\ WindowOrdered(new.starts, new.ends) /\ Verified(new.image)
          /\ Begin(a, [Idle EXCEPT !.op = "createTopic", !.at = "order", !.put = new,
                                   !.around = {c}, !.courses = {c}, !.keys = {new.image} \ {None}])
    BY DEF CreateTopic
  <1> DEFINE keys == {new.image} \ {None}
             r == [Idle EXCEPT !.op = "createTopic", !.at = "order", !.put = new,
                               !.around = {c}, !.courses = {c}, !.keys = keys]
  <1>2. new \in TopicRows /\ new.image \in Keys
    BY InputsAreValid DEF TopicRows
  <1>3. keys \subseteq Objects /\ keys \subseteq stored
    BY <1>1, <1>2, NothingIsAName DEF Keys, Verified
  <1> HIDE DEF keys
  <1>4. /\ r.op = "createTopic" /\ r.at = "order" /\ r.row = None /\ r.put = new
        /\ r.around = {c} /\ r.courses = {c} /\ r.keys = keys /\ r.trash = None /\ r \in Requests
    BY <1>2, <1>3, IdleIsCarried, Carriers DEF Idle, Requests, Ops, Ats, Pending
  <1>5. Begin(a, r)
    BY <1>1 DEF keys
  <1> HIDE DEF r
  <1>6. Stages(r) /\ TopicNew(r) /\ LastPlace(r)
    BY <1>1, <1>4 DEF Stages, TopicNew, LastPlace, keys
  <1>7. Carried(r) /\ Fresh(r) /\ Settled(r)
    BY <1>4, <1>6, PartsOfTopics
  <1> QED
    BY <1>3, <1>4, <1>5, <1>7 DEF Starts, Pending

LEMMA UpdateTopicStarts ==
  ASSUME Shape, NEW a \in Admins, UpdateTopic(a)
  PROVE  \E r \in Requests : Begin(a, r) /\ Starts(r)
  <1>1. PICK t \in Topics, put \in TopicPuts :
          LET old == topics[t]
              free == IF put.image \in {None, Keep} THEN None ELSE Replaced(old.image, put.image)
          IN  /\ HasTopic(t)
              /\ put.slug # Keep => \A c \in CoursesOf(t) : SlugFree(c, put.slug, t)
              /\ WindowOrdered(Set(put.starts, old.starts), Set(put.ends, old.ends))
              /\ Verified(put.image)
              /\ Begin(a, [Idle EXCEPT !.op = "updateTopic", !.row = t, !.put = put,
                                       !.at = IF free = None THEN "write" ELSE "free",
                                       !.seen = old, !.trash = free,
                                       !.around = IF put.slug = Keep THEN {} ELSE CoursesOf(t),
                                       !.keys = {put.image} \ {None, Keep}])
    BY DEF UpdateTopic
  <1> DEFINE old == topics[t]
             free == IF put.image \in {None, Keep} THEN None ELSE Replaced(old.image, put.image)
             at == IF free = None THEN "write" ELSE "free"
             around == IF put.slug = Keep THEN {} ELSE CoursesOf(t)
             keys == {put.image} \ {None, Keep}
             r == [Idle EXCEPT !.op = "updateTopic", !.row = t, !.put = put, !.at = at, !.seen = old,
                               !.trash = free, !.around = around, !.keys = keys]
  <1>2. old \in TopicRows /\ old # NoTopic /\ old.image \in Keys
    BY <1>1 DEF Shape, Tables, HasTopic, TopicRows
  <1>3. put \in TopicInputs /\ put.image \in Keys \cup {Keep}
    BY InputsAreValid DEF TopicInputs
  <1>4. free \in Keys /\ at \in {"write", "free"} /\ (free # None => free = old.image /\ free \in Objects)
    BY <1>2, EmptyRows DEF Replaced, Keys
  <1>5. around \subseteq Courses
    BY DEF CoursesOf, Shape, Tables, LinkRows
  <1>6. keys \subseteq Objects /\ keys \subseteq stored
    BY <1>1, <1>3 DEF Keys, Verified
  <1>7. Begin(a, r)
    BY <1>1
  <1>8. WindowOrdered(Set(put.starts, old.starts), Set(put.ends, old.ends))
    BY <1>1
  <1> HIDE DEF free, at, around, keys
  <1>9. /\ r.op = "updateTopic" /\ r.at = at /\ r.row = t /\ r.put = put /\ r.seen = old
        /\ r.around = around /\ r.keys = keys /\ r.trash = free /\ r \in Requests
    <2> HIDE DEF old
    <2> QED
      BY <1>2, <1>3, <1>4, <1>5, <1>6, IdleIsCarried, Carriers DEF Idle, Requests, Ops, Ats, Pending
  <1> HIDE DEF r
  <1>10. Stages(r)
    BY <1>4, <1>9 DEF Stages, at
  <1>11. TopicPut(r)
    BY <1>2, <1>8, <1>9 DEF TopicPut, free, keys
  <1>12. NewSlug(r)
    BY <1>1, <1>9 DEF NewSlug, around
  <1>13. Carried(r) /\ Fresh(r) /\ Settled(r)
    BY <1>9, <1>10, <1>11, <1>12, PartsOfTopics
  <1>14. free # None => free \in Named
    <2> SUFFICES ASSUME free # None PROVE free \in Named
      OBVIOUS
    <2>1. <<"image", t>> \in NamedBy(free) /\ free \in Objects
      BY <1>4 DEF NamedBy
    <2> QED
      BY <2>1 DEF Named
  <1>15. IF r.at = "free" THEN r.trash \in Named ELSE r.trash = None
    BY <1>9, <1>14 DEF at
  <1>16. r.at \in Pending
    BY <1>4, <1>9 DEF Pending
  <1> QED
    BY <1>6, <1>7, <1>9, <1>13, <1>15, <1>16 DEF Starts

LEMMA DeleteTopicStarts ==
  ASSUME Shape, NEW a \in Admins, DeleteTopic(a)
  PROVE  \E r \in Requests : Begin(a, r) /\ Starts(r)
  <1>1. PICK t \in Topics :
          /\ HasTopic(t)
          /\ Begin(a, [Idle EXCEPT !.op = "deleteTopic", !.at = "write", !.row = t,
                                   !.seen = topics[t], !.courses = CoursesOf(t),
                                   !.around = CoursesOf(t)])
    BY DEF DeleteTopic
  <1> DEFINE seen == topics[t]
             cs == CoursesOf(t)
             r == [Idle EXCEPT !.op = "deleteTopic", !.at = "write", !.row = t, !.seen = seen,
                               !.courses = cs, !.around = cs]
  <1>2. seen \in TopicRows /\ seen # NoTopic
    BY <1>1 DEF Shape, Tables, HasTopic
  <1>3. cs \subseteq Courses
    BY DEF CoursesOf, Shape, Tables, LinkRows
  <1>4. Begin(a, r)
    BY <1>1
  <1> HIDE DEF seen, cs
  <1>5. /\ r.op = "deleteTopic" /\ r.at = "write" /\ r.row = t /\ r.seen = seen
        /\ r.around = cs /\ r.courses = cs /\ r.keys = {} /\ r.trash = None /\ r \in Requests
    BY <1>2, <1>3, IdleIsCarried, Carriers DEF Idle, Requests, Ops, Ats, Pending
  <1> HIDE DEF r
  <1>6. Stages(r) /\ TopicDrop(r)
    BY <1>2, <1>5 DEF Stages, TopicDrop
  <1>7. Carried(r) /\ Fresh(r) /\ Settled(r)
    BY <1>5, <1>6, PartsOfTopics DEF seen, cs
  <1> QED
    BY <1>4, <1>5, <1>7 DEF Starts, Pending

LEMMA CreateCourseStarts ==
  ASSUME Shape, NEW a \in Admins, CreateCourse(a)
  PROVE  \E r \in Requests : Begin(a, r) /\ Starts(r)
  <1>1. PICK c \in Courses, put \in CoursePuts :
          LET project == put.project = TRUE
          IN  /\ WeightsAccepted(put, project) /\ Verified(put.image)
              /\ Begin(a, [Idle EXCEPT !.op = "createCourse", !.at = "write", !.row = c,
                                       !.put = [put EXCEPT !.project = project,
                                                           !.image = Set(@, None)],
                                       !.keys = {put.image} \ {None, Keep}])
    BY DEF CreateCourse
  <1> DEFINE project == put.project = TRUE
             image == Set(put.image, None)
             new == [put EXCEPT !.project = project, !.image = image]
             keys == {put.image} \ {None, Keep}
             r == [Idle EXCEPT !.op = "createCourse", !.at = "write", !.row = c, !.put = new,
                               !.keys = keys]
  <1>2. put \in CourseInputs /\ put.image \in Keys \cup {Keep}
    BY InputsAreValid DEF CourseInputs
  <1>3. image \in Keys /\ project \in BOOLEAN /\ keys = {image} \ {None}
    BY <1>2, EmptyRows, NothingIsAName DEF Set, Keys
  <1>4. keys \subseteq Objects /\ keys \subseteq stored
    BY <1>1, <1>2 DEF Keys, Verified
  <1>5. Begin(a, r) /\ WeightsAccepted(put, project)
    BY <1>1
  <1> HIDE DEF project, image, keys
  <1>6. /\ new \in CourseInputs /\ new.project = project /\ new.image = image
        /\ new.topicWeight = put.topicWeight /\ new.projectWeight = put.projectWeight
    BY <1>2, <1>3 DEF CourseInputs
  <1> HIDE DEF new
  <1>7. /\ r.op = "createCourse" /\ r.at = "write" /\ r.row = c /\ r.put = new
        /\ r.keys = keys /\ r.trash = None /\ r \in Requests
    BY <1>4, <1>6, IdleIsCarried, Carriers DEF Idle, Requests, Ops, Ats, Pending
  <1> HIDE DEF r
  <1>8. WeightsAccepted(new, project)
    BY <1>5, <1>6 DEF WeightsAccepted
  <1>9. Stages(r) /\ CourseNew(r)
    BY <1>3, <1>6, <1>7, <1>8 DEF Stages, CourseNew
  <1>10. Carried(r) /\ Fresh(r) /\ Settled(r)
    BY <1>7, <1>9, PartsOfCourses
  <1> QED
    BY <1>4, <1>5, <1>7, <1>10 DEF Starts, Pending

LEMMA UpdateCourseStarts ==
  ASSUME Shape, NEW a \in Admins, UpdateCourse(a)
  PROVE  \E r \in Requests : Begin(a, r) /\ Starts(r)
  <1>1. PICK c \in Courses, put \in CoursePuts :
          LET free == IF put.image \in {None, Keep} THEN None
                      ELSE Replaced(courses[c].image, put.image)
          IN  /\ courses[c].exists /\ Verified(put.image)
              /\ Begin(a, [Idle EXCEPT !.op = "updateCourse", !.row = c, !.put = put,
                                       !.at = IF free = None THEN "decide" ELSE "free",
                                       !.trash = free, !.keys = {put.image} \ {None, Keep}])
    BY DEF UpdateCourse
  <1> DEFINE old == courses[c]
             free == IF put.image \in {None, Keep} THEN None ELSE Replaced(old.image, put.image)
             at == IF free = None THEN "decide" ELSE "free"
             keys == {put.image} \ {None, Keep}
             r == [Idle EXCEPT !.op = "updateCourse", !.row = c, !.put = put, !.at = at,
                               !.trash = free, !.keys = keys]
  <1>2. old.exists /\ old.image \in Keys
    BY <1>1 DEF Shape, Tables, CourseRows
  <1>3. put \in CourseInputs /\ put.image \in Keys \cup {Keep}
    BY InputsAreValid DEF CourseInputs
  <1>4. /\ free \in Keys /\ at \in {"decide", "free"}
        /\ free # None => free = old.image /\ free \in Objects /\ put.image \notin {None, Keep, free}
        /\ free = None => old.image = None \/ put.image \in {None, Keep, old.image}
    BY <1>2, EmptyRows DEF Replaced, Keys
  <1>5. keys \subseteq Objects /\ keys \subseteq stored
    BY <1>1, <1>3 DEF Keys, Verified
  <1>6. Begin(a, r)
    BY <1>1
  <1> HIDE DEF free, at, keys
  <1>7. /\ r.op = "updateCourse" /\ r.at = at /\ r.row = c /\ r.put = put
        /\ r.keys = keys /\ r.trash = free /\ r \in Requests
    <2> HIDE DEF old
    <2> QED
      BY <1>3, <1>4, <1>5, IdleIsCarried, Carriers DEF Idle, Requests, Ops, Ats, Pending
  <1> HIDE DEF r
  <1>8. Stages(r) /\ CoursePut(r)
    BY <1>3, <1>4, <1>7 DEF Stages, CoursePut, at, keys
  <1>9. Fresh(r)
    BY <1>2, <1>4, <1>7 DEF Fresh, Is, at
  <1>10. Carried(r) /\ Settled(r)
    BY <1>7, <1>8, PartsOfCourses
  <1>11. free # None => free \in Named
    <2> SUFFICES ASSUME free # None PROVE free \in Named
      OBVIOUS
    <2>1. <<"image", c>> \in NamedBy(free) /\ free \in Objects
      BY <1>4 DEF NamedBy
    <2> QED
      BY <2>1 DEF Named
  <1>12. IF r.at = "free" THEN r.trash \in Named ELSE r.trash = None
    BY <1>7, <1>11 DEF at
  <1>13. r.at \in Pending
    BY <1>4, <1>7 DEF Pending
  <1> QED
    BY <1>5, <1>6, <1>7, <1>9, <1>10, <1>12, <1>13 DEF Starts

LEMMA DeleteCourseStarts ==
  ASSUME Shape, NEW a \in Admins, DeleteCourse(a)
  PROVE  \E r \in Requests : Begin(a, r) /\ Starts(r)
  <1>1. PICK c \in Courses :
          /\ courses[c].exists
          /\ Begin(a, [Idle EXCEPT !.op = "deleteCourse", !.at = "write", !.row = c,
                                   !.seen = courses[c]])
    BY DEF DeleteCourse
  <1> DEFINE seen == courses[c]
             r == [Idle EXCEPT !.op = "deleteCourse", !.at = "write", !.row = c, !.seen = seen]
  <1>2. seen \in CourseRows
    BY DEF Shape, Tables
  <1>3. Begin(a, r)
    BY <1>1
  <1> HIDE DEF seen
  <1>4. /\ r.op = "deleteCourse" /\ r.at = "write" /\ r.row = c /\ r.seen = seen
        /\ r.keys = {} /\ r.trash = None /\ r \in Requests
    BY <1>2, IdleIsCarried, Carriers DEF Idle, Requests, Ops, Ats, Pending
  <1> HIDE DEF r
  <1>5. Stages(r) /\ CourseDrop(r)
    BY <1>2, <1>4 DEF Stages, CourseDrop
  <1>6. Carried(r) /\ Fresh(r) /\ Settled(r)
    BY <1>1, <1>4, <1>5, PartsOfCourses DEF seen
  <1> QED
    BY <1>3, <1>4, <1>6 DEF Starts, Pending

LEMMA UpdateCourseTopicsStarts ==
  ASSUME Shape, NEW a \in Admins, UpdateCourseTopics(a)
  PROVE  \E r \in Requests : Begin(a, r) /\ Starts(r)
  <1>1. PICK c \in Courses, list \in TopicLists :
          Begin(a, [Idle EXCEPT !.op = "updateCourseTopics", !.at = "order", !.row = c,
                                !.put = list, !.courses = {c},
                                !.around = {list[i] : i \in DOMAIN list}])
    BY DEF UpdateCourseTopics
  <1> DEFINE around == {list[i] : i \in DOMAIN list}
             r == [Idle EXCEPT !.op = "updateCourseTopics", !.at = "order", !.row = c,
                               !.put = list, !.courses = {c}, !.around = around]
  <1>2. list \in Seq(Topics)
    BY InputsAreValid
  <1>3. around \subseteq Topics
    BY <1>2
  <1>4. Begin(a, r)
    BY <1>1
  <1> HIDE DEF around
  <1>5. /\ r.op = "updateCourseTopics" /\ r.at = "order" /\ r.row = c /\ r.put = list
        /\ r.courses = {c} /\ r.around = around
        /\ r.keys = {} /\ r.trash = None /\ r \in Requests
    BY <1>2, <1>3, IdleIsCarried, Carriers DEF Idle, Requests, Ops, Ats, Pending
  <1> HIDE DEF r
  <1>6. Stages(r) /\ ListPut(r)
    BY <1>5 DEF Stages, ListPut, around
  <1>7. Carried(r) /\ Fresh(r) /\ Settled(r)
    BY <1>5, <1>6, PartsOfCourses
  <1> QED
    BY <1>4, <1>5, <1>7 DEF Starts, Pending

LEMMA UpsertRequirementStarts ==
  ASSUME Shape, NEW a \in Admins, UpsertRequirement(a)
  PROVE  \E r \in Requests : Begin(a, r) /\ Starts(r)
  <1>1. PICK c \in Courses, brief \in BriefPuts :
          /\ courses[c].exists /\ Verified(brief)
          /\ Begin(a, [Idle EXCEPT !.op = "upsertRequirement", !.at = "write", !.row = c,
                                   !.put = brief, !.seen = courses[c],
                                   !.keys = {brief} \ {None, Keep}])
    BY DEF UpsertRequirement
  <1> DEFINE seen == courses[c]
             keys == {brief} \ {None, Keep}
             r == [Idle EXCEPT !.op = "upsertRequirement", !.at = "write", !.row = c,
                               !.put = brief, !.seen = seen, !.keys = keys]
  <1>2. seen \in CourseRows /\ brief \in Keys \cup {Keep}
    BY InputsAreValid DEF Shape, Tables
  <1>3. keys \subseteq Objects /\ keys \subseteq stored
    BY <1>1, <1>2 DEF Keys, Verified
  <1>4. Begin(a, r)
    BY <1>1
  <1> HIDE DEF seen, keys
  <1>5. /\ r.op = "upsertRequirement" /\ r.at = "write" /\ r.row = c /\ r.put = brief
        /\ r.seen = seen /\ r.keys = keys /\ r.trash = None /\ r \in Requests
    BY <1>2, <1>3, IdleIsCarried, Carriers DEF Idle, Requests, Ops, Ats, Pending
  <1> HIDE DEF r
  <1>6. Stages(r) /\ BriefPut(r)
    BY <1>2, <1>5 DEF Stages, BriefPut, Is, keys
  <1>7. Carried(r) /\ Fresh(r) /\ Settled(r)
    BY <1>1, <1>5, <1>6, PartsOfCourses DEF seen
  <1> QED
    BY <1>3, <1>4, <1>5, <1>7 DEF Starts, Pending

\* The handlers' first steps.
Opens(a) ==
    \/ CreateQuizzes(a) \/ UpdateQuiz(a) \/ DeleteQuiz(a)
    \/ CreateTopic(a) \/ UpdateTopic(a) \/ DeleteTopic(a)
    \/ CreateCourse(a) \/ UpdateCourse(a) \/ DeleteCourse(a)
    \/ UpdateCourseTopics(a) \/ UpsertRequirement(a)

LEMMA OpensStarts ==
  ASSUME Shape, NEW a \in Admins, Opens(a)
  PROVE  \E r \in Requests : Begin(a, r) /\ Starts(r)
  BY CreateQuizzesStarts, UpdateQuizStarts, DeleteQuizStarts, CreateTopicStarts, UpdateTopicStarts,
     DeleteTopicStarts, CreateCourseStarts, UpdateCourseStarts, DeleteCourseStarts,
     UpdateCourseTopicsStarts, UpsertRequirementStarts DEF Opens

-----------------------------------------------------------------------------
(* Requests that read on, remove, evaluate or fail                         *)

\* The steps after the first that leave the tables alone.
GoesOn(a) == OrderTopic(a) \/ DecideCourse(a) \/ Detach(a) \/ Remove(a) \/ Evaluate(a) \/ Fail(a)

\* What holds of a request that goes on to r.
Continues(a, r) ==
    /\ Go(a, r) /\ Carried(r)
    /\ Fresh(req[a]) => Fresh(r)
    /\ Settled(req[a]) => Settled(r)

LEMMA IdleIsFresh == Fresh(Idle) /\ Settled(Idle)
  BY DEF Idle, Fresh, Settled, Is, NewCodes, NewCode, LastPlace, NewSlug

LEMMA RestIsFresh ==
  ASSUME NEW r \in Requests, NEW trash, NEW cs
  PROVE  Fresh(Rest(r, trash, cs)) /\ Settled(Rest(r, trash, cs))
  <1>1. CASE trash # None
    <2> DEFINE x == [r EXCEPT !.at = "release", !.trash = trash, !.courses = cs]
    <2>1. x.at = "release"
      BY DEF Requests
    <2> HIDE DEF x
    <2>2. Fresh(x) /\ Settled(x)
      BY <2>1 DEF Fresh, Settled, Is, NewCodes, NewCode, LastPlace, NewSlug
    <2> QED
      BY <1>1, <2>2 DEF Rest, x
  <1>2. CASE trash = None /\ cs # {}
    <2> DEFINE x == [r EXCEPT !.at = "evaluate", !.courses = cs]
    <2>1. x.at = "evaluate"
      BY DEF Requests
    <2> HIDE DEF x
    <2>2. Fresh(x) /\ Settled(x)
      BY <2>1 DEF Fresh, Settled, Is, NewCodes, NewCode, LastPlace, NewSlug
    <2> QED
      BY <1>2, <2>2 DEF Rest, x
  <1>3. CASE trash = None /\ cs = {}
    BY <1>3, IdleIsFresh DEF Rest
  <1> QED
    BY <1>1, <1>2, <1>3

LEMMA OrderTopicContinues ==
  ASSUME Shape, NEW a \in Admins, OrderTopic(a)
  PROVE  \E r \in Requests : Continues(a, r)
  <1> DEFINE q == req[a]
  <1>0. PICK c \in q.courses : \E n : LastOrder(n, c) /\ Go(a, [q EXCEPT !.at = "write", !.seen = n])
    BY DEF OrderTopic
  <1>1. q.op = "createTopic" /\ q.at = "order" /\ q \in Requests /\ Carried(q)
    BY DEF OrderTopic, At, Shape, Requested
  <1>2. PICK n : LastOrder(n, c) /\ Go(a, [q EXCEPT !.at = "write", !.seen = n])
    BY <1>0
  <1> DEFINE r == [q EXCEPT !.at = "write", !.seen = n]
  <1>3. TopicNew(q) /\ Stages(q) /\ q.courses = {c} /\ c \in Courses
    BY <1>1, <1>2 DEF Carried, TopicNew, Is
  <1>4. n \in Nat /\ \A l \in LinksOf(c) : l.order <= n
    <2>1. \A l \in LinksOf(c) : l.order \in Nat
      BY DEF LinksOf, Shape, Tables, LinkRows
    <2> QED
      BY <1>2, <2>1 DEF LastOrder
  <1> HIDE DEF q
  <1>5. /\ r.op = q.op /\ r.at = "write" /\ r.row = q.row /\ r.put = q.put /\ r.seen = n
        /\ r.around = q.around /\ r.courses = q.courses /\ r.keys = q.keys /\ r \in Requests
    BY <1>1, <1>4, Carriers DEF Requests, Ats, Pending
  <1> HIDE DEF r
  <1>6. Stages(r) /\ TopicNew(r)
    BY <1>1, <1>3, <1>4, <1>5 DEF Stages, TopicNew, Is
  <1>7. Carried(r) /\ Fresh(r)
    BY <1>1, <1>5, <1>6, PartsOfTopics
  <1>8. Settled(q) => Settled(r)
    <2> SUFFICES ASSUME Settled(q) PROVE LastPlace(r)
      BY <1>1, <1>5, PartsOfTopics
    <2>1. LastPlace(q)
      BY DEF Settled
    <2> QED
      BY <1>1, <1>3, <1>4, <1>5, <2>1 DEF LastPlace, Is
  <1> QED
    BY <1>2, <1>5, <1>7, <1>8 DEF Continues, q, r

LEMMA DecideCourseContinues ==
  ASSUME Shape, NEW a \in Admins, DecideCourse(a)
  PROVE  \E r \in Requests : Continues(a, r)
  <1> DEFINE q == req[a]
             old == courses[q.row]
             r == [q EXCEPT !.at = "write", !.seen = old]
  <1>1. q.op = "updateCourse" /\ q.at = "decide" /\ q \in Requests /\ Carried(q)
    BY DEF DecideCourse, At, Shape, Requested
  <1>2. CoursePut(q) /\ q.row \in Courses
    BY <1>1 DEF Carried, CoursePut, Is
  <1>3. old \in CourseRows
    BY <1>2 DEF Shape, Tables
  <1>4. CASE /\ old.exists /\ WeightsAccepted(q.put, Set(q.put.project, old.project))
             /\ Go(a, r)
    <2> HIDE DEF q, old
    <2>1. /\ r.op = q.op /\ r.at = "write" /\ r.row = q.row /\ r.put = q.put /\ r.seen = old
          /\ r.keys = q.keys /\ r.trash = q.trash /\ r \in Requests
      BY <1>1, <1>3, Carriers DEF Requests, Ats, Pending
    <2> HIDE DEF r
    <2>2. Stages(r) /\ CoursePut(r)
      BY <1>1, <1>2, <1>3, <1>4, <2>1 DEF Stages, CoursePut, Is
    <2>3. Carried(r) /\ Settled(r)
      BY <1>1, <2>1, <2>2, PartsOfCourses
    <2>4. Fresh(q) => Fresh(r)
      BY <1>1, <1>4, <2>1 DEF Fresh, Is, old
    <2> QED
      BY <1>4, <2>1, <2>3, <2>4 DEF Continues, q
  <1>5. CASE Stop(a)
    BY <1>5, IdleIsCarried, IdleIsFresh DEF Continues, Stop
  <1> QED
    BY <1>4, <1>5 DEF DecideCourse

LEMMA DetachContinues ==
  ASSUME Shape, NEW a \in Admins, Detach(a)
  PROVE  \E r \in Requests : Continues(a, r)
  <1> DEFINE q == req[a]
             seen == LinksOf(q.row)
             r == [q EXCEPT !.at = "write", !.seen = seen]
  <1>1. q.op = "updateCourseTopics" /\ q.at = "order" /\ q \in Requests /\ Carried(q) /\ Go(a, r)
    BY DEF Detach, At, Shape, Requested
  <1>2. ListPut(q)
    BY DEF Carried, Shape, Requested
  <1>3. seen \in SUBSET LinkRows /\ \A l \in seen : l.course = q.row
    BY DEF LinksOf, Shape, Tables
  <1> HIDE DEF q, seen
  <1>4. /\ r.op = q.op /\ r.at = "write" /\ r.row = q.row /\ r.put = q.put /\ r.seen = seen
        /\ r.around = q.around /\ r.courses = q.courses /\ r.keys = q.keys /\ r \in Requests
    BY <1>1, <1>3, Carriers DEF Requests, Ats, Pending
  <1>5. Go(a, r)
    BY <1>1
  <1> HIDE DEF r
  <1>6. Stages(r) /\ ListPut(r)
    BY <1>1, <1>2, <1>3, <1>4 DEF Stages, ListPut, Is
  <1>7. Carried(r) /\ Fresh(r) /\ Settled(r)
    BY <1>1, <1>4, <1>6, PartsOfCourses DEF seen
  <1> QED
    BY <1>4, <1>5, <1>7 DEF Continues, q

LEMMA RemoveContinues ==
  ASSUME Shape, NEW a \in Admins, Remove(a)
  PROVE  \E r \in Requests : Continues(a, r)
  <1> DEFINE q == req[a]
             enable == q.op = "upsertRequirement" /\ ~q.seen.project
             at == IF q.op = "updateCourse" THEN "decide" ELSE "write"
  <1>1. /\ q \in Requests /\ Carried(q) /\ q.at \in {"free", "release"}
        /\ Go(a, IF q.at = "free" THEN [q EXCEPT !.at = at]
                 ELSE IF enable THEN [q EXCEPT !.at = "enable"] ELSE Rest(q, None, q.courses))
    BY DEF Remove, Shape, Requested
  <1>2. CASE q.at = "free"
    <2> DEFINE r == [q EXCEPT !.at = at]
    <2>1. Go(a, r)
      BY <1>1, <1>2
    <2>2. /\ q.op \in {"updateTopic", "updateCourse"}
          /\ q.op = "updateTopic" => at = "write"
          /\ q.op = "updateCourse" => at = "decide"
      BY <1>1, <1>2 DEF Carried, Stages
    <2> HIDE DEF at, q
    <2>3. /\ r.op = q.op /\ r.at = at /\ r.row = q.row /\ r.put = q.put /\ r.seen = q.seen
          /\ r.around = q.around /\ r.keys = q.keys /\ r.trash = q.trash /\ r \in Requests
      BY <1>1, <2>2 DEF Requests, Ats, Pending
    <2> HIDE DEF r
    <2>4. TopicPut(q) /\ CoursePut(q) /\ Stages(r)
      BY <1>1, <2>2, <2>3 DEF Carried, Stages
    <2>5. CASE q.op = "updateTopic"
      <3>1. TopicPut(r)
        BY <1>2, <2>2, <2>3, <2>4, <2>5 DEF TopicPut, Is
      <3>2. Fresh(q) => Fresh(r)
        BY <1>2, <2>2, <2>3, <2>5, PartsOfTopics DEF Fresh, Is
      <3>3. Settled(q) => Settled(r)
        BY <1>2, <2>2, <2>3, <2>5, PartsOfTopics DEF Settled, NewSlug, Is
      <3> QED
        BY <2>1, <2>3, <2>4, <2>5, <3>1, <3>2, <3>3, PartsOfTopics DEF Continues, q
    <2>6. CASE q.op = "updateCourse"
      <3>1. CoursePut(r)
        BY <1>2, <2>2, <2>3, <2>4, <2>6 DEF CoursePut, Is
      <3>2. Fresh(q) => Fresh(r)
        BY <1>2, <2>2, <2>3, <2>6 DEF Fresh, Is
      <3> QED
        BY <2>1, <2>3, <2>4, <2>6, <3>1, <3>2, PartsOfCourses DEF Continues, q
    <2> QED
      BY <2>2, <2>5, <2>6
  <1>3. CASE q.at = "release" /\ enable
    <2> DEFINE r == [q EXCEPT !.at = "enable"]
    <2>1. Go(a, r) /\ q.op = "upsertRequirement" /\ BriefPut(q)
      BY <1>1, <1>3 DEF Carried
    <2> HIDE DEF q
    <2>2. r.op = q.op /\ r.at = "enable" /\ r.row = q.row /\ r.seen = q.seen /\ r \in Requests
      BY <1>1 DEF Requests, Ats, Pending
    <2> HIDE DEF r
    <2>3. Stages(r) /\ BriefPut(r)
      BY <1>3, <2>1, <2>2 DEF Stages, BriefPut, Is
    <2> QED
      BY <2>1, <2>2, <2>3, PartsOfCourses DEF Continues
  <1>4. CASE q.at = "release" /\ ~enable
    <2>1. Go(a, Rest(q, None, q.courses))
      BY <1>1, <1>4
    <2>2. q.courses \in SUBSET Courses /\ None \in Keys
      BY <1>1, EmptyRows DEF Requests
    <2>3. q.op = "upsertRequirement" => q.row \in Courses /\ q.seen \in CourseRows
      BY <1>1, <1>4 DEF Carried, BriefPut, Is
    <2> HIDE DEF q
    <2> QED
      BY <1>1, <2>1, <2>2, <2>3, RestIsCarried, RestIsFresh DEF Continues
  <1> QED
    BY <1>1, <1>2, <1>3, <1>4

LEMMA GoesOnContinues ==
  ASSUME Shape, NEW a \in Admins, GoesOn(a)
  PROVE  /\ \E r \in Requests : Continues(a, r)
         /\ UNCHANGED content
         /\ stored' \subseteq stored /\ UNCHANGED <<named, refused>>
         /\ disturbed \subseteq disturbed' /\ disturbed' \subseteq Words
         /\ changes' \in Nat /\ failures' \in Nat
  <1>1. Evaluate(a) \/ Fail(a) => \E r \in Requests : Continues(a, r)
    BY IdleIsCarried, IdleIsFresh DEF Evaluate, Fail, Stop, Continues
  <1>2. \E r \in Requests : Continues(a, r)
    BY <1>1, OrderTopicContinues, DecideCourseContinues, DetachContinues, RemoveContinues DEF GoesOn
  <1>3. /\ UNCHANGED content /\ stored' \subseteq stored /\ UNCHANGED <<named, refused, changes>>
        /\ disturbed' \in {disturbed, disturbed \cup {"failure"}, disturbed \cup {"rejected"}}
        /\ failures' \in {failures, failures + 1}
    BY DEF GoesOn, OrderTopic, DecideCourse, Detach, Remove, Evaluate, Fail, SameTables
  <1>4. disturbed \subseteq Words /\ {"failure", "rejected"} \subseteq Words
    BY DEF Shape, Books, Words
  <1>5. changes \in Nat /\ failures \in Nat
    BY DEF Shape, Books
  <1> QED
    BY <1>2, <1>3, <1>4, <1>5

LEMMA GoesOnKeeps ==
  ASSUME Shape, NEW a \in Admins, GoesOn(a)
  PROVE  Shape'
  <1>1. Requested'
    BY GoesOnContinues, GoKeeps DEF Shape, Continues
  <1>2. Tables' /\ Linked'
    BY GoesOnContinues DEF Shape, content, Tables, Linked, HasTopic
  <1>3. evaluated' \in [Courses -> Progress]
    <2>1. \A c \in Courses : View(c) \in Progress
      BY DEF Shape, Tables, CourseRows, LinkRows, View, LinksOf, Progress
    <2>2. evaluated \in [Courses -> Progress]
      BY DEF Shape, Books
    <2> QED
      BY <2>1, <2>2 DEF GoesOn, OrderTopic, DecideCourse, Detach, Remove, Evaluate, Fail, SameTables
  <1>4. Books'
    BY <1>3, GoesOnContinues DEF Shape, Books
  <1> QED
    BY <1>1, <1>2, <1>4 DEF Shape

-----------------------------------------------------------------------------
(* Writes                                                                  *)

\* Rows that another request is about stay as they are, but that a quiz may go
\* with its topic.
RowsStay(a) ==
    \A b \in Admins \ {a} : \A x \in Rows(req[b]) \ Rows(req[a]) :
        /\ x \in Quizzes => quizzes'[x] \in {quizzes[x], NoQuiz}
        /\ x \in Topics => topics'[x] = topics[x]
        /\ x \in Courses => courses'[x] = courses[x]

\* A topic or course that another request is about gets no links, no codes and no
\* slugs.
Reach(r) == Rows(r) \cup r.around
LinksStay(c) ==
    /\ LinksOf(c)' \subseteq LinksOf(c)
    /\ \A l \in LinksOf(c)' : topics'[l.topic].slug = topics[l.topic].slug
CodesStay(t) ==
    /\ CoursesOf(t)' \subseteq CoursesOf(t)
    /\ \A p \in Quizzes : quizzes'[p].topic = t => quizzes'[p] = quizzes[p]
ReachStays(a) ==
    \A b \in Admins \ {a} : \A x \in Reach(req[b]) \ Reach(req[a]) :
        /\ x \in Courses => LinksStay(x)
        /\ x \in Topics => CodesStay(x)

\* What holds of a write.
Writes(a) == Shape' /\ RowsStay(a) /\ (Settled(req[a]) => ReachStays(a))

LEMMA SameContentStays ==
  ASSUME UNCHANGED content, NEW a
  PROVE  RowsStay(a) /\ ReachStays(a)
  BY DEF content, RowsStay, ReachStays, LinksStay, CodesStay, LinksOf, CoursesOf

LEMMA RefuseWrites ==
  ASSUME Shape, NEW a \in Admins, NEW byIndex \in BOOLEAN, Refuse(a, byIndex)
  PROVE  Writes(a)
  BY RefuseKeeps, SameContentStays DEF Writes, Refuse

\* Quizzes change alone.
LEMMA QuizzesWrite ==
  ASSUME Shape, NEW a \in Admins, UNCHANGED <<topics, courses, links, evaluated>>,
         quizzes' \in [Quizzes -> QuizRows],
         \A q \in Quizzes : quizzes'[q] # NoQuiz =>
             quizzes'[q].topic \in Topics /\ HasTopic(quizzes'[q].topic),
         \A b \in Admins \ {a} : \A x \in Rows(req[b]) \ Rows(req[a]) :
             x \in Quizzes => quizzes'[x] \in {quizzes[x], NoQuiz},
         \A q \in Quizzes : quizzes'[q] = quizzes[q] \/ quizzes'[q] = NoQuiz
                              \/ quizzes'[q].topic \in Reach(req[a]),
         NEW r \in Requests, Carried(r), Go(a, r), NEW excuses \in SUBSET Words, Commit(a, excuses)
  PROVE  Writes(a)
  <1>1. Tables' /\ evaluated' \in [Courses -> Progress]
    BY DEF Shape, Tables, Books
  <1>2. Linked'
    BY DEF Shape, Linked, HasTopic
  <1>3. Shape'
    BY <1>1, <1>2, CommitKeeps
  <1>4. RowsStay(a)
    BY DEF RowsStay
  <1>5. ASSUME NEW b \in Admins \ {a}, NEW x \in Reach(req[b]) \ Reach(req[a]), x \in Topics
        PROVE  CodesStay(x)
    <2>1. CoursesOf(x)' = CoursesOf(x)
      BY DEF CoursesOf
    <2>2. NoQuiz.topic # x
      BY <1>5, NothingIsAName DEF NoQuiz
    <2> QED
      BY <2>1, <2>2 DEF CodesStay
  <1>6. \A x : LinksStay(x)
    BY DEF LinksStay, LinksOf
  <1> QED
    BY <1>3, <1>4, <1>5, <1>6 DEF Writes, ReachStays

LEMMA WriteQuizzesWrites ==
  ASSUME Shape, NEW a \in Admins, WriteQuizzes(a)
  PROVE  Writes(a)
  <1> DEFINE items == req[a].put
             fits == \A i \in DOMAIN items :
                       /\ Fits(None, items[i])
                       /\ \A j \in 1..i-1 : items[j].topic = items[i].topic
                                              => items[j].code # items[i].code
  <1>1. /\ req[a].around = {items[i].topic : i \in DOMAIN items}
        /\ items \in Seq(QuizRows) /\ \A i \in DOMAIN items : items[i].topic \in Topics
    BY DEF WriteQuizzes, At, Shape, Requested, Carried, Batched, Is
  <1>2. CASE fits /\ ~Refuse(a, \A i \in DOMAIN items : HasTopic(items[i].topic))
    <2>1. PICK id \in [DOMAIN items -> {q \in Quizzes : quizzes[q] = NoQuiz /\ Unknown(q)}] :
            quizzes' = [q \in Quizzes |->
                          IF \E i \in DOMAIN items : id[i] = q
                          THEN items[CHOOSE i \in DOMAIN items : id[i] = q] ELSE quizzes[q]]
      BY <1>2 DEF WriteQuizzes
    <2>2. PICK excuses \in SUBSET Words : Commit(a, excuses)
      <3>1. {"shared"} \in SUBSET Words /\ {} \in SUBSET Words
        BY DEF Words
      <3> QED
        BY <1>2, <3>1 DEF WriteQuizzes
    <2>3. Stop(a) /\ UNCHANGED <<topics, courses, links, evaluated>>
      BY <1>2 DEF WriteQuizzes
    <2>4. ASSUME NEW q \in Quizzes
          PROVE  \/ quizzes'[q] = quizzes[q]
                 \/ /\ \E i \in DOMAIN items : quizzes'[q] = items[i]
                    /\ Unknown(q)
      <3>1. CASE \E i \in DOMAIN items : id[i] = q
        <4>1. PICK i \in DOMAIN items : i = CHOOSE j \in DOMAIN items : id[j] = q
          BY <3>1
        <4>2. id[i] = q /\ quizzes'[q] = items[i]
          BY <2>1, <3>1, <4>1
        <4> QED
          BY <4>2
      <3>2. CASE ~\E i \in DOMAIN items : id[i] = q
        BY <2>1, <3>2
      <3> QED
        BY <3>1, <3>2
    <2>5. quizzes' \in [Quizzes -> QuizRows]
      <3>1. \A q \in Quizzes : quizzes'[q] \in QuizRows
        BY <1>1, <2>4 DEF Shape, Tables
      <3> QED
        BY <2>1, <3>1
    <2>6. \A q \in Quizzes : quizzes'[q] # NoQuiz =>
             quizzes'[q].topic \in Topics /\ HasTopic(quizzes'[q].topic)
      BY <1>1, <1>2, <2>4 DEF Shape, Linked, Fits
    <2>7. \A b \in Admins \ {a} : \A x \in Rows(req[b]) \ Rows(req[a]) :
             x \in Quizzes => quizzes'[x] \in {quizzes[x], NoQuiz}
      BY <2>4 DEF Rows, Unknown
    <2>8. \A q \in Quizzes : quizzes'[q] = quizzes[q] \/ quizzes'[q] = NoQuiz
                               \/ quizzes'[q].topic \in Reach(req[a])
      BY <1>1, <2>4 DEF Reach
    <2> QED
      BY <2>2, <2>3, <2>5, <2>6, <2>7, <2>8, IdleIsCarried, QuizzesWrite DEF Stop
  <1> QED
    BY <1>2, RefuseWrites DEF WriteQuizzes

LEMMA WriteQuizWrites ==
  ASSUME Shape, NEW a \in Admins, WriteQuiz(a)
  PROVE  Writes(a)
  <1> DEFINE r == req[a]
  <1>1. r \in Requests /\ r.op = "updateQuiz" /\ QuizPut(r) /\ r.at = "write"
    BY DEF WriteQuiz, At, Shape, Requested, Carried
  <1>2. /\ r.row \in Quizzes /\ r.put \in QuizRows /\ r.put.topic \in Topics
        /\ r.seen \in QuizRows /\ r.around = {r.seen.topic, r.put.topic}
    BY <1>1 DEF QuizPut, Is
  <1>3. CASE /\ Fits(r.row, r.put) /\ quizzes' = [quizzes EXCEPT ![r.row] = r.put]
             /\ Go(a, Rest(r, Replaced(r.seen.image, r.put.image), {}))
             /\ UNCHANGED <<topics, courses, links, evaluated>> /\ Commit(a, {})
    <2>1. Replaced(r.seen.image, r.put.image) \in Keys
      BY <1>2, EmptyRows DEF Replaced, QuizRows
    <2>2. /\ Rest(r, Replaced(r.seen.image, r.put.image), {}) \in Requests
          /\ Carried(Rest(r, Replaced(r.seen.image, r.put.image), {}))
      BY <1>1, <2>1, RestIsCarried
    <2>3. quizzes' \in [Quizzes -> QuizRows]
          /\ \A q \in Quizzes : quizzes'[q] = IF q = r.row THEN r.put ELSE quizzes[q]
      BY <1>2, <1>3 DEF Shape, Tables
    <2>4. \A q \in Quizzes : quizzes'[q] # NoQuiz =>
             quizzes'[q].topic \in Topics /\ HasTopic(quizzes'[q].topic)
      BY <1>2, <1>3, <2>3 DEF Shape, Linked, Fits
    <2>5. r.row \in Rows(r)
      BY <1>2, NothingIsAName DEF Rows
    <2>6. \A b \in Admins \ {a} : \A x \in Rows(req[b]) \ Rows(req[a]) :
             x \in Quizzes => quizzes'[x] \in {quizzes[x], NoQuiz}
      BY <2>3, <2>5
    <2>7. \A q \in Quizzes : quizzes'[q] = quizzes[q] \/ quizzes'[q] = NoQuiz
                               \/ quizzes'[q].topic \in Reach(req[a])
      BY <1>2, <2>3 DEF Reach
    <2>8. {} \in SUBSET Words
      OBVIOUS
    <2> QED
      BY <1>3, <2>2, <2>3, <2>4, <2>6, <2>7, <2>8, QuizzesWrite
  <1> QED
    BY <1>3, RefuseWrites DEF WriteQuiz

LEMMA WriteQuizDeletionWrites ==
  ASSUME Shape, NEW a \in Admins, WriteQuizDeletion(a)
  PROVE  Writes(a)
  <1> DEFINE r == req[a]
             trash == r.seen.image
             cs == CoursesOf(r.seen.topic)
  <1>1. r \in Requests /\ r.op = "deleteQuiz" /\ QuizDrop(r) /\ r.at = "write"
    BY DEF WriteQuizDeletion, At, Shape, Requested, Carried
  <1>2. r.row \in Quizzes /\ trash \in Keys
    BY <1>1 DEF QuizDrop, Is, QuizRows
  <1>3. CASE /\ quizzes' = [quizzes EXCEPT ![r.row] = NoQuiz] /\ Go(a, Rest(r, trash, cs))
             /\ UNCHANGED <<topics, courses, links, evaluated>> /\ Commit(a, {})
    <2>1. cs \in SUBSET Courses
      BY DEF CoursesOf, Shape, Tables, LinkRows
    <2> HIDE DEF trash, cs
    <2>2. Rest(r, trash, cs) \in Requests /\ Carried(Rest(r, trash, cs))
      BY <1>1, <1>2, <2>1, RestIsCarried
    <2>3. quizzes' \in [Quizzes -> QuizRows]
          /\ \A q \in Quizzes : quizzes'[q] = IF q = r.row THEN NoQuiz ELSE quizzes[q]
      BY <1>2, <1>3, EmptyRows DEF Shape, Tables
    <2>4. \A q \in Quizzes : quizzes'[q] # NoQuiz =>
             quizzes'[q].topic \in Topics /\ HasTopic(quizzes'[q].topic)
      BY <2>3 DEF Shape, Linked
    <2>5. {} \in SUBSET Words
      OBVIOUS
    <2> QED
      BY <1>3, <2>2, <2>3, <2>4, <2>5, QuizzesWrite
  <1> QED
    BY <1>3, RefuseWrites DEF WriteQuizDeletion

LEMMA WriteTopicWrites ==
  ASSUME Shape, NEW a \in Admins, WriteTopic(a)
  PROVE  Writes(a)
  <1> DEFINE r == req[a]
  <1>1. r \in Requests /\ r.op = "createTopic" /\ TopicNew(r) /\ r.at = "write"
    BY DEF WriteTopic, At, Shape, Requested, Carried
  <1>2. /\ r.put \in TopicRows /\ r.put.slug \in Slugs /\ r.around = r.courses /\ r.courses \subseteq Courses
        /\ r.row = None /\ r.seen \in Nat
    BY <1>1, InputsAreValid DEF TopicNew, Is, TopicRows
  <1>3. ASSUME NEW c \in r.courses, courses[c].exists, NEW t \in Topics, ~HasTopic(t), Unknown(t),
               topics' = [topics EXCEPT ![t] = r.put],
               links' = links \cup {[course |-> c, topic |-> t, order |-> r.seen + 1, no |-> changes]},
               Go(a, Rest(r, None, {c})), UNCHANGED <<quizzes, courses, evaluated>>, Commit(a, {})
        PROVE  Writes(a)
    <2> DEFINE new == [course |-> c, topic |-> t, order |-> r.seen + 1, no |-> changes]
    <2>1. new \in LinkRows /\ new.course = c /\ new.topic = t /\ links' = links \cup {new}
      BY <1>2, <1>3 DEF LinkRows, Shape, Books
    <2> HIDE DEF new
    <2>2. Rest(r, None, {c}) \in Requests /\ Carried(Rest(r, None, {c}))
      BY <1>1, <1>2, <1>3, EmptyRows, RestIsCarried
    <2>3. /\ topics' \in [Topics -> TopicRows]
          /\ \A x \in Topics : topics'[x] = IF x = t THEN r.put ELSE topics[x]
      BY <1>2, <1>3 DEF Shape, Tables
    <2>4. Tables' /\ evaluated' \in [Courses -> Progress]
      BY <1>3, <2>1, <2>3 DEF Shape, Tables, Books
    <2>5. r.put # NoTopic
      BY <1>2, NothingIsAName DEF NoTopic
    <2>6. \A x \in Topics : HasTopic(x) => HasTopic(x)' /\ x # t
      BY <1>3, <2>3, <2>5 DEF HasTopic
    <2>7. \A l \in links : l \in LinkRows /\ l.topic # t
      BY <1>3 DEF Shape, Tables, Linked
    <2>8. Linked'
      <3>1. (\A l \in links : courses[l.course].exists /\ HasTopic(l.topic))'
        BY <1>2, <1>3, <2>1, <2>3, <2>5, <2>6, <2>7 DEF Shape, Linked, HasTopic, LinkRows
      <3>2. (\A l, k \in links : l.course = k.course /\ l.topic = k.topic => l = k)'
        BY <2>1, <2>7 DEF Shape, Linked
      <3>3. (\A q \in Quizzes : quizzes[q] # NoQuiz =>
                quizzes[q].topic \in Topics /\ HasTopic(quizzes[q].topic))'
        BY <1>3, <2>6 DEF Shape, Linked
      <3>4. (\A x \in Topics : HasTopic(x) => topics[x].slug \in Slugs)'
        BY <1>2, <2>3 DEF Shape, Linked, HasTopic
      <3>5. (\A x \in Courses : ~courses[x].exists => courses[x] = NoCourse)'
        BY <1>3 DEF Shape, Linked
      <3> QED
        BY <3>1, <3>2, <3>3, <3>4, <3>5 DEF Linked, HasTopic
    <2>9. Shape'
      BY <1>3, <2>2, <2>4, <2>8, CommitKeeps
    <2>10. RowsStay(a)
      BY <1>3, <2>3 DEF RowsStay, Rows, Unknown
    <2>11. ASSUME NEW b \in Admins \ {a}, NEW x \in Reach(req[b]) \ Reach(req[a])
           PROVE  (x \in Courses => LinksStay(x)) /\ (x \in Topics => CodesStay(x))
      <3>1. x # t /\ x # c
        BY <1>2, <1>3, <2>11 DEF Reach, Rows, Unknown
      <3>2. LinksOf(x)' = LinksOf(x) /\ CoursesOf(x)' = CoursesOf(x)
        BY <2>1, <3>1 DEF LinksOf, CoursesOf
      <3>3. \A l \in LinksOf(x) : topics'[l.topic] = topics[l.topic]
        BY <2>3, <2>7 DEF LinksOf, LinkRows
      <3> QED
        BY <1>3, <3>2, <3>3 DEF LinksStay, CodesStay
    <2> QED
      BY <2>9, <2>10, <2>11 DEF Writes, ReachStays
  <1> QED
    BY <1>3, RefuseWrites DEF WriteTopic

LEMMA WriteTopicUpdateWrites ==
  ASSUME Shape, NEW a \in Admins, WriteTopicUpdate(a)
  PROVE  Writes(a)
  <1> DEFINE r == req[a]
             t == r.row
             now == topics[t]
             new == [slug |-> Set(r.put.slug, now.slug), starts |-> Set(r.put.starts, now.starts),
                     ends |-> Set(r.put.ends, now.ends), image |-> Set(r.put.image, now.image)]
  <1>1. r \in Requests /\ r.op = "updateTopic" /\ TopicPut(r) /\ r.at = "write"
    BY DEF WriteTopicUpdate, At, Shape, Requested, Carried
  <1>2. t \in Topics /\ r.put \in TopicInputs /\ now \in TopicRows /\ t \in Rows(r)
    BY <1>1, InputsAreValid, NothingIsAName DEF TopicPut, Is, Shape, Tables, Rows
  <1>3. ASSUME HasTopic(t), topics' = [topics EXCEPT ![t] = new], Stop(a),
               UNCHANGED <<quizzes, courses, links, evaluated>>,
               NEW excuses \in SUBSET Words, Commit(a, excuses)
        PROVE  Writes(a)
    <2>1. now.slug \in Slugs
      BY <1>2, <1>3 DEF Shape, Linked
    <2>2. new \in TopicRows /\ new.slug = Set(r.put.slug, now.slug) /\ new.slug \in Slugs
      <3>1. /\ Set(r.put.slug, now.slug) \in Slugs /\ Set(r.put.starts, now.starts) \in Bounds
            /\ Set(r.put.ends, now.ends) \in Bounds /\ Set(r.put.image, now.image) \in Keys
        BY <1>2, <2>1 DEF Set, TopicInputs, TopicRows
      <3> QED
        BY <3>1 DEF TopicRows
    <2> HIDE DEF new, r, t
    <2>3. /\ topics' \in [Topics -> TopicRows]
          /\ \A x \in Topics : topics'[x] = IF x = t THEN new ELSE topics[x]
      BY <1>2, <1>3, <2>2 DEF Shape, Tables
    <2>4. Tables' /\ evaluated' \in [Courses -> Progress]
      BY <1>3, <2>3 DEF Shape, Tables, Books
    <2>5. new # NoTopic
      BY <2>2, NothingIsAName DEF NoTopic
    <2>6. \A x \in Topics : HasTopic(x) <=> HasTopic(x)'
      BY <1>3, <2>3, <2>5 DEF HasTopic
    <2>7. Linked'
      <3>1. \A l \in links : l.topic \in Topics
        BY DEF Shape, Tables, LinkRows
      <3> QED
        BY <1>3, <2>2, <2>3, <2>6, <3>1 DEF Shape, Linked, HasTopic
    <2>8. Shape'
      BY <1>3, <2>4, <2>7, CommitKeeps, IdleIsCarried DEF Stop
    <2>9. RowsStay(a)
      BY <1>2, <1>3, <2>3 DEF RowsStay, r, t
    <2>10. ASSUME Settled(r), NEW b \in Admins \ {a}, NEW x \in Reach(req[b]) \ Reach(r)
           PROVE  (x \in Courses => LinksStay(x)) /\ (x \in Topics => CodesStay(x))
      <3>1. LinksOf(x)' = LinksOf(x) /\ CoursesOf(x)' = CoursesOf(x)
        BY <1>3 DEF LinksOf, CoursesOf
      <3>2. ASSUME x \in Courses, NEW l \in LinksOf(x) PROVE topics'[l.topic].slug = topics[l.topic].slug
        <4>1. l \in links /\ l \in LinkRows /\ l.course = x
          BY <3>2 DEF LinksOf, Shape, Tables
        <4>2. CASE l.topic # t
          BY <2>3, <4>1, <4>2 DEF LinkRows
        <4>3. CASE l.topic = t /\ r.put.slug = Keep
          BY <1>2, <2>2, <2>3, <4>1, <4>3 DEF LinkRows, Set, t
        <4>4. CASE l.topic = t /\ r.put.slug # Keep
          <5>1. x \in CoursesOf(t)
            BY <4>1, <4>4 DEF CoursesOf
          <5>2. CoursesOf(t) \subseteq r.around
            BY <1>1, <2>10, <4>4 DEF Settled, NewSlug, Is, r, t
          <5> QED
            BY <2>10, <5>1, <5>2 DEF Reach
        <4> QED
          BY <4>2, <4>3, <4>4
      <3> QED
        BY <1>3, <3>1, <3>2 DEF LinksStay, CodesStay
    <2> QED
      BY <2>8, <2>9, <2>10 DEF Writes, ReachStays, r
  <1>4. ASSUME HasTopic(t), topics' = [topics EXCEPT ![t] = new], Stop(a),
               UNCHANGED <<quizzes, courses, links, evaluated>>,
               Commit(a, IF r.put.image = None /\ now.image # None THEN {"cleared"} ELSE {})
        PROVE  Writes(a)
    <2>1. {"cleared"} \in SUBSET Words /\ {} \in SUBSET Words
      BY DEF Words
    <2> HIDE DEF new
    <2> QED
      BY <1>3, <1>4, <2>1
  <1> QED
    BY <1>4, RefuseWrites DEF WriteTopicUpdate

LEMMA WriteTopicDeletionWrites ==
  ASSUME Shape, NEW a \in Admins, WriteTopicDeletion(a)
  PROVE  Writes(a)
  <1> DEFINE r == req[a]
             t == r.row
             gone == {q \in Quizzes : quizzes[q].topic = t}
             trash == r.seen.image
  <1>1. r \in Requests /\ r.op = "deleteTopic" /\ TopicDrop(r) /\ r.at = "write"
    BY DEF WriteTopicDeletion, At, Shape, Requested, Carried
  <1>2. t \in Topics /\ trash \in Keys /\ r.courses \in SUBSET Courses /\ t \in Rows(r)
    BY <1>1, NothingIsAName DEF TopicDrop, Is, Requests, TopicRows, Rows
  <1>3. ASSUME topics' = [topics EXCEPT ![t] = NoTopic],
               quizzes' = [q \in Quizzes |-> IF q \in gone THEN NoQuiz ELSE quizzes[q]],
               links' = {l \in links : l.topic # t},
               Go(a, Rest(r, trash, r.courses)), UNCHANGED <<courses, evaluated>>,
               NEW excuses \in SUBSET Words, Commit(a, excuses)
        PROVE  Writes(a)
    <2> HIDE DEF trash
    <2>1. Rest(r, trash, r.courses) \in Requests /\ Carried(Rest(r, trash, r.courses))
      BY <1>1, <1>2, RestIsCarried
    <2> HIDE DEF r, t
    <2>2. /\ topics' \in [Topics -> TopicRows]
          /\ \A x \in Topics : topics'[x] = IF x = t THEN NoTopic ELSE topics[x]
      BY <1>2, <1>3, EmptyRows DEF Shape, Tables
    <2>3. /\ quizzes' \in [Quizzes -> QuizRows]
          /\ \A q \in Quizzes : \/ quizzes'[q] = NoQuiz
                                \/ quizzes'[q] = quizzes[q] /\ quizzes[q].topic # t
      BY <1>3, EmptyRows DEF Shape, Tables
    <2>4. Tables' /\ evaluated' \in [Courses -> Progress]
      BY <1>3, <2>2, <2>3 DEF Shape, Tables, Books
    <2>5. \A x \in Topics \ {t} : HasTopic(x) => HasTopic(x)'
      BY <1>3, <2>2 DEF HasTopic
    <2>6. \A l \in links' : l \in links /\ l.topic # t /\ l \in LinkRows
      BY <1>3 DEF Shape, Tables
    <2>7. Linked'
      <3>1. (\A l \in links : courses[l.course].exists /\ HasTopic(l.topic))'
        BY <1>3, <2>5, <2>6 DEF Shape, Linked, LinkRows
      <3>2. (\A l, k \in links : l.course = k.course /\ l.topic = k.topic => l = k)'
        BY <2>6 DEF Shape, Linked
      <3>3. (\A q \in Quizzes : quizzes[q] # NoQuiz =>
                quizzes[q].topic \in Topics /\ HasTopic(quizzes[q].topic))'
        BY <2>3, <2>5 DEF Shape, Linked
      <3>4. (\A x \in Topics : HasTopic(x) => topics[x].slug \in Slugs)'
        BY <2>2 DEF Shape, Linked, HasTopic
      <3>5. (\A x \in Courses : ~courses[x].exists => courses[x] = NoCourse)'
        BY <1>3 DEF Shape, Linked
      <3> QED
        BY <3>1, <3>2, <3>3, <3>4, <3>5 DEF Linked, HasTopic
    <2>8. Shape'
      BY <1>3, <2>1, <2>4, <2>7, CommitKeeps
    <2>9. RowsStay(a)
      BY <1>2, <1>3, <2>2, <2>3 DEF RowsStay, r, t
    <2>10. ASSUME NEW b \in Admins \ {a}, NEW x \in Reach(req[b]) \ Reach(r)
           PROVE  (x \in Courses => LinksStay(x)) /\ (x \in Topics => CodesStay(x))
      <3>1. LinksOf(x)' \subseteq LinksOf(x) /\ CoursesOf(x)' \subseteq CoursesOf(x)
        BY <2>6 DEF LinksOf, CoursesOf
      <3>2. \A l \in LinksOf(x)' : topics'[l.topic].slug = topics[l.topic].slug
        BY <2>2, <2>6 DEF LinksOf, LinkRows
      <3>3. x \in Topics => NoQuiz.topic # x
        BY NothingIsAName DEF NoQuiz
      <3> QED
        BY <2>3, <3>1, <3>2, <3>3 DEF LinksStay, CodesStay
    <2> QED
      BY <2>8, <2>9, <2>10 DEF Writes, ReachStays, r
  <1>4. ASSUME topics' = [topics EXCEPT ![t] = NoTopic],
               quizzes' = [q \in Quizzes |-> IF q \in gone THEN NoQuiz ELSE quizzes[q]],
               links' = {l \in links : l.topic # t},
               Go(a, Rest(r, trash, r.courses)), UNCHANGED <<courses, evaluated>>,
               Commit(a, IF \E q \in gone : quizzes[q].image # None THEN {"cascade"} ELSE {})
        PROVE  Writes(a)
    <2>1. {"cascade"} \in SUBSET Words /\ {} \in SUBSET Words
      BY DEF Words
    <2> HIDE DEF trash, gone
    <2> QED
      BY <1>3, <1>4, <2>1
  <1> QED
    BY <1>4, RefuseWrites DEF WriteTopicDeletion

LEMMA NewCourseIsCourse ==
  ASSUME NEW put \in CourseInputs, NEW now \in CourseRows
  PROVE  LET default == IF put.project = Keep THEN <<now.topicWeight, now.projectWeight>>
                        ELSE IF put.project THEN <<50, 50>> ELSE <<100, 0>>
             new == NewCourse(put, now)
         IN  /\ new \in CourseRows /\ new.exists
             /\ new.project = Set(put.project, now.project)
             /\ new.topicWeight = Set(put.topicWeight, default[1])
             /\ new.projectWeight = Set(put.projectWeight, default[2])
             /\ new.image = Set(put.image, now.image)
             /\ new.required = now.required /\ new.brief = now.brief
  <1> DEFINE default == IF put.project = Keep THEN <<now.topicWeight, now.projectWeight>>
                        ELSE IF put.project THEN <<50, 50>> ELSE <<100, 0>>
             p == Set(put.project, now.project)
             t == Set(put.topicWeight, default[1])
             w == Set(put.projectWeight, default[2])
             i == Set(put.image, now.image)
             new == [now EXCEPT !.exists = TRUE, !.project = p, !.topicWeight = t,
                                !.projectWeight = w, !.image = i]
  <1>1. default[1] \in Int /\ default[2] \in Int
    BY DEF CourseRows
  <1>2. p \in BOOLEAN /\ t \in Int /\ w \in Int /\ i \in Keys
    <2> HIDE DEF default
    <2> QED
      BY <1>1 DEF Set, CourseRows, CourseInputs
  <1>3. NewCourse(put, now) = new
    BY DEF NewCourse
  <1> HIDE DEF p, t, w, i
  <1>4. /\ new \in CourseRows /\ new.exists /\ new.project = p /\ new.topicWeight = t
        /\ new.projectWeight = w /\ new.image = i
        /\ new.required = now.required /\ new.brief = now.brief
    BY <1>2 DEF CourseRows
  <1> QED
    BY <1>3, <1>4 DEF p, t, w, i

\* One course changes alone, and still exists.
LEMMA CourseWrites ==
  ASSUME Shape, NEW a \in Admins, NEW c \in Courses, c = req[a].row,
         NEW new \in CourseRows, new.exists, courses' = [courses EXCEPT ![c] = new],
         UNCHANGED <<quizzes, topics, links>>, evaluated' \in [Courses -> Progress],
         NEW r \in Requests, Carried(r), Go(a, r), NEW excuses \in SUBSET Words, Commit(a, excuses)
  PROVE  Writes(a)
  <1>1. courses' \in [Courses -> CourseRows] /\ \A x \in Courses : courses'[x] = IF x = c THEN new ELSE courses[x]
    BY DEF Shape, Tables
  <1>2. Tables'
    BY <1>1 DEF Shape, Tables
  <1>3. Linked'
    <2>1. \A l \in links : courses'[l.course].exists
      BY <1>1 DEF Shape, Linked, Tables, LinkRows
    <2>2. \A x \in Courses : ~courses'[x].exists => courses'[x] = NoCourse
      BY <1>1 DEF Shape, Linked
    <2> QED
      BY <2>1, <2>2 DEF Shape, Linked, HasTopic
  <1>4. Shape'
    BY <1>2, <1>3, CommitKeeps
  <1>5. c \in Rows(req[a])
    BY NothingIsAName DEF Rows
  <1>6. RowsStay(a)
    BY <1>1, <1>5 DEF RowsStay
  <1>7. ReachStays(a)
    BY DEF ReachStays, LinksStay, CodesStay, LinksOf, CoursesOf
  <1> QED
    BY <1>4, <1>6, <1>7 DEF Writes

LEMMA WriteCourseWrites ==
  ASSUME Shape, NEW a \in Admins, WriteCourse(a)
  PROVE  Writes(a)
  <1> DEFINE c == req[a].row
             new == NewCourse(req[a].put, NoCourse)
  <1>1. CourseNew(req[a]) /\ req[a].op = "createCourse" /\ req[a].at = "write"
    BY DEF WriteCourse, At, Shape, Requested, Carried
  <1>2. c \in Courses /\ req[a].put \in CourseInputs
    BY <1>1 DEF CourseNew, Is
  <1>3. new \in CourseRows /\ new.exists
    BY <1>2, EmptyRows, NewCourseIsCourse
  <1>4. /\ courses' = [courses EXCEPT ![c] = new] /\ Stop(a) /\ UNCHANGED <<quizzes, topics, links>>
        /\ evaluated' = [evaluated EXCEPT ![c] =
              [topics |-> {}, weights |-> <<new.topicWeight, new.projectWeight>>]]
        /\ Commit(a, {})
    BY DEF WriteCourse
  <1> HIDE DEF new
  <1>5. [topics |-> {}, weights |-> <<new.topicWeight, new.projectWeight>>] \in Progress
    BY <1>3 DEF Progress, CourseRows
  <1>6. evaluated' \in [Courses -> Progress]
    BY <1>4, <1>5 DEF Shape, Books
  <1>7. {} \in SUBSET Words
    OBVIOUS
  <1> QED
    BY <1>2, <1>3, <1>4, <1>6, <1>7, IdleIsCarried, CourseWrites DEF Stop

LEMMA WriteCourseUpdateWrites ==
  ASSUME Shape, NEW a \in Admins, WriteCourseUpdate(a)
  PROVE  Writes(a)
  <1> DEFINE r == req[a]
             c == r.row
             now == courses[c]
             new == NewCourse(r.put, now)
             cs == IF Noticed(r.put, r.seen) THEN {c} ELSE {}
             excuses == (IF r.put.image = None /\ now.image # None THEN {"cleared"} ELSE {})
                           \cup (IF /\ r.put.project # Keep
                                    /\ Keep \in {r.put.topicWeight, r.put.projectWeight}
                                    /\ cs = {} /\ new.topicWeight # now.topicWeight
                                 THEN {"reset"} ELSE {})
  <1>1. CoursePut(r) /\ r.op = "updateCourse" /\ r.at = "write" /\ r \in Requests
    BY DEF WriteCourseUpdate, At, Shape, Requested, Carried
  <1>2. c \in Courses /\ r.put \in CourseInputs
    BY <1>1 DEF CoursePut, Is
  <1>3. now \in CourseRows /\ cs \in SUBSET Courses
    BY <1>2 DEF Shape, Tables
  <1>4. new \in CourseRows /\ new.exists
    BY <1>2, <1>3, NewCourseIsCourse
  <1>5. CASE /\ courses' = [courses EXCEPT ![c] = new] /\ Go(a, Rest(r, None, cs))
             /\ UNCHANGED <<quizzes, topics, links, evaluated>> /\ Commit(a, excuses)
    <2>1. excuses \in SUBSET Words
      BY DEF Words
    <2> HIDE DEF excuses, new, cs
    <2>2. Rest(r, None, cs) \in Requests /\ Carried(Rest(r, None, cs))
      BY <1>1, <1>3, EmptyRows, RestIsCarried
    <2>3. evaluated' \in [Courses -> Progress]
      BY <1>5 DEF Shape, Books
    <2> QED
      BY <1>2, <1>4, <1>5, <2>1, <2>2, <2>3, CourseWrites
  <1> QED
    BY <1>5, RefuseWrites DEF WriteCourseUpdate

LEMMA WriteRequirementWrites ==
  ASSUME Shape, NEW a \in Admins, WriteRequirement(a)
  PROVE  Writes(a)
  <1> DEFINE r == req[a]
             c == r.row
             now == courses[c]
             brief == Set(r.put, now.brief)
             new == [now EXCEPT !.required = TRUE, !.brief = brief]
             next == Rest(r, BriefToDelete(r.seen.brief, r.put), {})
             enable == [r EXCEPT !.at = "enable"]
             go == IF next = Idle /\ ~r.seen.project THEN enable ELSE next
  <1>1. BriefPut(r) /\ r.op = "upsertRequirement" /\ r.at = "write" /\ r \in Requests
    BY DEF WriteRequirement, At, Shape, Requested, Carried
  <1>2. c \in Courses /\ r.put \in Keys \cup {Keep} /\ r.seen \in CourseRows
    BY <1>1, InputsAreValid DEF BriefPut, Is
  <1>3. now \in CourseRows
    BY <1>2 DEF Shape, Tables
  <1>4. brief \in Keys
    BY <1>2, <1>3 DEF Set, CourseRows
  <1>5. next \in Requests /\ Carried(next)
    <2>1. BriefToDelete(r.seen.brief, r.put) \in Keys
      BY <1>2, EmptyRows DEF BriefToDelete, Replaced, CourseRows
    <2> QED
      BY <1>1, <1>2, <2>1, RestIsCarried
  <1>6. enable \in Requests /\ Carried(enable)
    <2> HIDE DEF r
    <2>1. enable.op = r.op /\ enable.at = "enable" /\ enable.row = r.row /\ enable.seen = r.seen /\ enable \in Requests
      BY <1>1 DEF Requests, Ats, Pending
    <2> HIDE DEF enable
    <2>2. Stages(enable) /\ BriefPut(enable)
      BY <1>1, <1>2, <2>1 DEF Stages, BriefPut, Is
    <2> QED
      BY <1>1, <2>1, <2>2, PartsOfCourses
  <1>7. CASE /\ now.exists
             /\ courses' = [courses EXCEPT ![c].required = TRUE, ![c].brief = Set(r.put, @)]
             /\ Go(a, go) /\ UNCHANGED <<quizzes, topics, links, evaluated>> /\ Commit(a, {})
    <2> HIDE DEF brief
    <2>1. new \in CourseRows /\ new.exists
      BY <1>3, <1>4, <1>7 DEF CourseRows
    <2>2. courses' = [courses EXCEPT ![c] = new]
      BY <1>2, <1>7 DEF Shape, Tables, brief
    <2>3. go \in Requests /\ Carried(go) /\ {} \in SUBSET Words
      BY <1>5, <1>6
    <2>4. evaluated' \in [Courses -> Progress]
      BY <1>7 DEF Shape, Books
    <2> HIDE DEF new, go
    <2> QED
      BY <1>2, <1>7, <2>1, <2>2, <2>3, <2>4, CourseWrites
  <1> QED
    BY <1>7, RefuseWrites DEF WriteRequirement

LEMMA EnableProjectWrites ==
  ASSUME Shape, NEW a \in Admins, EnableProject(a)
  PROVE  Writes(a)
  <1> DEFINE r == req[a]
             c == r.row
             now == courses[c]
             new == [now EXCEPT !.project = TRUE, !.topicWeight = 50, !.projectWeight = 50]
  <1>1. BriefPut(r) /\ r.op = "upsertRequirement" /\ r.at = "enable" /\ r \in Requests
    BY DEF EnableProject, At, Shape, Requested, Carried
  <1>2. c \in Courses /\ r.seen \in CourseRows
    BY <1>1 DEF BriefPut, Is
  <1>3. now \in CourseRows
    BY <1>2 DEF Shape, Tables
  <1>4. CASE /\ now.exists
             /\ courses' = [courses EXCEPT ![c].project = TRUE, ![c].topicWeight = 50, ![c].projectWeight = 50]
             /\ Go(a, Rest(r, None, {c})) /\ UNCHANGED <<quizzes, topics, links, evaluated>> /\ Commit(a, {})
    <2>1. new \in CourseRows /\ new.exists
      <3>1. now.exists
        BY <1>4
      <3>2. 50 \in Int /\ TRUE \in BOOLEAN
        OBVIOUS
      <3> HIDE DEF now
      <3> QED
        BY <1>3, <3>1, <3>2 DEF CourseRows
    <2>2. courses' = [courses EXCEPT ![c] = new]
      BY <1>2, <1>4 DEF Shape, Tables
    <2>3. Rest(r, None, {c}) \in Requests /\ Carried(Rest(r, None, {c}))
      BY <1>1, <1>2, EmptyRows, RestIsCarried
    <2>4. evaluated' \in [Courses -> Progress] /\ {} \in SUBSET Words
      BY <1>4 DEF Shape, Books
    <2> HIDE DEF new
    <2> QED
      BY <1>2, <1>4, <2>1, <2>2, <2>3, <2>4, CourseWrites
  <1> QED
    BY <1>4, RefuseWrites DEF EnableProject

LEMMA WriteCourseDeletionWrites ==
  ASSUME Shape, NEW a \in Admins, WriteCourseDeletion(a)
  PROVE  Writes(a)
  <1> DEFINE r == req[a]
             c == r.row
             trash == r.seen.image
  <1>1. r \in Requests /\ r.op = "deleteCourse" /\ CourseDrop(r) /\ r.at = "write"
    BY DEF WriteCourseDeletion, At, Shape, Requested, Carried
  <1>2. c \in Courses /\ trash \in Keys /\ c \in Rows(r)
    BY <1>1, NothingIsAName DEF CourseDrop, Is, CourseRows, Rows
  <1>3. ASSUME courses' = [courses EXCEPT ![c] = NoCourse], links' = links \ LinksOf(c),
               Go(a, Rest(r, trash, {})), UNCHANGED <<quizzes, topics, evaluated>>,
               NEW excuses \in SUBSET Words, Commit(a, excuses)
        PROVE  Writes(a)
    <2> HIDE DEF trash
    <2>1. Rest(r, trash, {}) \in Requests /\ Carried(Rest(r, trash, {}))
      BY <1>1, <1>2, RestIsCarried
    <2> HIDE DEF r, c
    <2>2. /\ courses' \in [Courses -> CourseRows]
          /\ \A x \in Courses : courses'[x] = IF x = c THEN NoCourse ELSE courses[x]
      BY <1>2, <1>3, EmptyRows DEF Shape, Tables
    <2>3. Tables' /\ evaluated' \in [Courses -> Progress]
      BY <1>3, <2>2 DEF Shape, Tables, Books
    <2>4. \A l \in links' : l \in links /\ l.course # c /\ l \in LinkRows
      BY <1>3 DEF LinksOf, Shape, Tables
    <2>5. Linked'
      <3>1. \A l \in links' : courses'[l.course].exists
        BY <2>2, <2>4 DEF Shape, Linked, LinkRows
      <3>2. \A x \in Courses : ~courses'[x].exists => courses'[x] = NoCourse
        BY <2>2 DEF Shape, Linked
      <3> QED
        BY <1>3, <2>4, <3>1, <3>2 DEF Shape, Linked, HasTopic
    <2>6. Shape'
      BY <1>3, <2>1, <2>3, <2>5, CommitKeeps
    <2>7. RowsStay(a)
      BY <1>2, <1>3, <2>2 DEF RowsStay, r, c
    <2>8. ReachStays(a)
      <3>1. \A x : LinksOf(x)' \subseteq LinksOf(x) /\ CoursesOf(x)' \subseteq CoursesOf(x)
        BY <2>4 DEF LinksOf, CoursesOf
      <3> QED
        BY <1>3, <3>1 DEF ReachStays, LinksStay, CodesStay
    <2> QED
      BY <2>6, <2>7, <2>8 DEF Writes
  <1>4. {"cascade"} \in SUBSET Words /\ {} \in SUBSET Words
    BY DEF Words
  <1> QED
    BY <1>3, <1>4, RefuseWrites DEF WriteCourseDeletion

LEMMA AttachWrites ==
  ASSUME Shape, NEW a \in Admins, Attach(a)
  PROVE  Writes(a)
  <1> DEFINE r == req[a]
             c == r.row
             kept == links \ r.seen
             new == {[course |-> c, topic |-> r.put[i], order |-> i, no |-> changes] : i \in DOMAIN r.put}
  <1>1. r \in Requests /\ r.op = "updateCourseTopics" /\ ListPut(r) /\ r.at = "write"
    BY DEF Attach, At, Shape, Requested, Carried
  <1>2. /\ c \in Courses /\ r.put \in TopicLists /\ r.put \in Seq(Topics)
        /\ r.around = {r.put[i] : i \in DOMAIN r.put} /\ c \in Rows(r)
    BY <1>1, InputsAreValid, NothingIsAName DEF ListPut, Is, Rows
  <1>3. ASSUME courses[c].exists, \A l \in new : HasTopic(l.topic),
               \A l \in new, k \in kept : k.course = c => k.topic # l.topic,
               links' = kept \cup new, Go(a, Rest(r, None, {c})),
               UNCHANGED <<quizzes, topics, courses, evaluated>>,
               NEW excuses \in SUBSET Words, Commit(a, excuses)
        PROVE  Writes(a)
    <2>1. Rest(r, None, {c}) \in Requests /\ Carried(Rest(r, None, {c}))
      BY <1>1, <1>2, EmptyRows, RestIsCarried
    <2>2. \A l \in new : /\ l \in LinkRows /\ l.course = c /\ l.topic \in r.around
                         /\ l.order \in DOMAIN r.put /\ l.topic = r.put[l.order] /\ l.no = changes
      BY <1>2 DEF LinkRows, Shape, Books
    <2>3. \A l, k \in new : l.topic = k.topic => l = k
      <3> SUFFICES ASSUME NEW i \in DOMAIN r.put, NEW j \in DOMAIN r.put, r.put[i] = r.put[j] PROVE i = j
        OBVIOUS
      <3> QED
        BY <1>2, InputsAreValid
    <2> HIDE DEF new, kept, r, c
    <2>4. kept \subseteq links /\ links \subseteq LinkRows
      BY DEF kept, Shape, Tables
    <2>5. Tables' /\ evaluated' \in [Courses -> Progress]
      BY <1>3, <2>2, <2>4 DEF Shape, Tables, Books
    <2>6. Linked'
      <3>1. (\A l \in links : courses[l.course].exists /\ HasTopic(l.topic))'
        BY <1>3, <2>2, <2>4 DEF Shape, Linked, HasTopic
      <3>2. (\A l, k \in links : l.course = k.course /\ l.topic = k.topic => l = k)'
        BY <1>3, <2>2, <2>3, <2>4 DEF Shape, Linked
      <3> QED
        BY <1>3, <3>1, <3>2 DEF Shape, Linked, HasTopic
    <2>7. Shape'
      BY <1>3, <2>1, <2>5, <2>6, CommitKeeps
    <2>8. RowsStay(a)
      BY <1>3 DEF RowsStay
    <2>9. ASSUME NEW x, x \notin Reach(r)
          PROVE  LinksOf(x)' \subseteq LinksOf(x) /\ CoursesOf(x)' \subseteq CoursesOf(x)
      <3>1. \A l \in new : l.course # x /\ l.topic # x
        BY <1>2, <2>2, <2>9 DEF Reach
      <3> QED
        BY <1>3, <2>4, <3>1 DEF LinksOf, CoursesOf
    <2>10. ReachStays(a)
      BY <1>3, <2>9 DEF ReachStays, LinksStay, CodesStay, r
    <2> QED
      BY <2>7, <2>8, <2>10 DEF Writes
  <1>4. {"attached"} \in SUBSET Words /\ {} \in SUBSET Words
    BY DEF Words
  <1> QED
    BY <1>3, <1>4, RefuseWrites DEF Attach

\* The steps that may change the tables.
Changes(a) ==
    \/ WriteQuizzes(a) \/ WriteQuiz(a) \/ WriteQuizDeletion(a)
    \/ WriteTopic(a) \/ WriteTopicUpdate(a) \/ WriteTopicDeletion(a)
    \/ WriteCourse(a) \/ WriteCourseUpdate(a) \/ WriteCourseDeletion(a)
    \/ Attach(a) \/ WriteRequirement(a) \/ EnableProject(a)

LEMMA ChangesWrite == ASSUME Shape, NEW a \in Admins, Changes(a) PROVE Writes(a)
  BY WriteQuizzesWrites, WriteQuizWrites, WriteQuizDeletionWrites, WriteTopicWrites,
     WriteTopicUpdateWrites, WriteTopicDeletionWrites, WriteCourseWrites, WriteCourseUpdateWrites,
     WriteCourseDeletionWrites, AttachWrites, WriteRequirementWrites, EnableProjectWrites DEF Changes

-----------------------------------------------------------------------------
(* Every step keeps what requests carry                                    *)

LEMMA InitIsShaped == ASSUME Init PROVE Shape
  <1> PICK seed \in Seeds : /\ quizzes = seed.quizzes /\ topics = seed.topics
                            /\ courses = seed.courses /\ links = seed.links
    BY DEF Init
  <1>1. Sound(seed)
    BY SeedsAreSound
  <1>2. Tables
    BY <1>1 DEF Sound, Tables
  <1>3. Linked
    <2>1. \A l \in links : courses[l.course].exists /\ HasTopic(l.topic)
      BY <1>1 DEF Sound, HasTopic
    <2>2. \A l, k \in links : l.course = k.course /\ l.topic = k.topic => l = k
      BY <1>1 DEF Sound
    <2>3. \A q \in Quizzes : quizzes[q] # NoQuiz =>
             quizzes[q].topic \in Topics /\ HasTopic(quizzes[q].topic)
      BY <1>1, <1>2 DEF Sound, HasTopic, Tables, QuizRows
    <2>4. \A t \in Topics : HasTopic(t) => topics[t].slug \in Slugs
      <3> TAKE t \in Topics
      <3>1. seed.topics[t].slug = None => seed.topics[t] = NoTopic
        BY <1>1 DEF Sound
      <3>2. topics[t].slug \in Slugs \cup {None}
        BY <1>2 DEF Tables, TopicRows
      <3> QED
        BY <3>1, <3>2 DEF HasTopic
    <2>5. \A c \in Courses : ~courses[c].exists => courses[c] = NoCourse
      BY <1>1 DEF Sound
    <2> QED
      BY <2>1, <2>2, <2>3, <2>4, <2>5 DEF Linked
  <1>4. Books
    <2>1. \A c \in Courses : View(c) \in Progress
      BY <1>2 DEF Tables, CourseRows, LinkRows, View, LinksOf, Progress
    <2> QED
      BY <2>1, BoundsAreNaturals DEF Init, Books, Named, Words
  <1>5. Requested
    BY IdleIsCarried DEF Init, Requested
  <1> QED
    BY <1>2, <1>3, <1>4, <1>5 DEF Shape

LEMMA NextIsAStep == ASSUME Next PROVE \E a \in Admins : Opens(a) \/ GoesOn(a) \/ Changes(a)
  BY DEF Next, QuizStep, TopicStep, CourseStep, Opens, GoesOn, Changes

LEMMA StepsKeepShape == ASSUME Shape, [Next]_vars PROVE Shape'
  <1>1. CASE UNCHANGED vars
    BY <1>1 DEF vars, content, Shape, Tables, Linked, HasTopic, Books, Requested
  <1>2. CASE Next
    <2> PICK a \in Admins : Opens(a) \/ GoesOn(a) \/ Changes(a)
      BY <1>2, NextIsAStep
    <2>1. CASE Opens(a)
      BY <2>1, OpensStarts, BeginKeeps DEF Starts
    <2> QED
      BY <2>1, GoesOnKeeps, ChangesWrite DEF Writes
  <1> QED
    BY <1>1, <1>2

(* The tables keep their foreign keys and indexes, and every request carries *)
(* what its handler checked: a deletion's cascade, the primary keys of       *)
(* links, and the stages of course.service.ts and topic.service.ts.          *)
THEOREM ContentIsTyped == Spec => []Shape
  BY InitIsShaped, StepsKeepShape, PTL DEF Spec

-----------------------------------------------------------------------------
(* Requests that nobody disturbs                                           *)

\* A request past its write holds on to nothing.
Done(r) == r.at \in {"idle", "release", "evaluate", "enable"}

LEMMA DoneIsFresh == ASSUME NEW r, Done(r) PROVE Fresh(r) /\ Settled(r)
  BY DEF Done, Fresh, Settled, Is, NewCodes, NewCode, LastPlace, NewSlug

LEMMA RestIsDone == ASSUME NEW r \in Requests, NEW trash, NEW cs PROVE Done(Rest(r, trash, cs))
  BY DEF Done, Rest, Idle, Requests

LEMMA CommitOverlaps ==
  ASSUME NEW a \in Admins, disturbed \cup Overlaps(a) \subseteq disturbed'
  PROVE  /\ disturbed \subseteq disturbed'
         /\ "race" \notin disturbed' => \A b \in Admins \ {a} :
               req[b].at \in Pending => Rows(req[a]) \cap Rows(req[b]) = {}
         /\ "crowd" \notin disturbed' => \A b \in Admins \ {a} :
               req[b].at \in Pending => Reach(req[a]) \cap Reach(req[b]) = {}
  BY DEF Overlaps, Reach

\* After a write its request is done, and the others go on as they were.
LEMMA ChangesGo ==
  ASSUME Shape, NEW a \in Admins, Changes(a)
  PROVE  /\ req[a].at \in Pending
         /\ \E r : Go(a, r) /\ Done(r)
         /\ disturbed \cup Overlaps(a) \subseteq disturbed'
  <1>1. Done(Idle)
    BY DEF Done, Idle
  <1>2. \A trash, cs : Done(Rest(req[a], trash, cs))
    BY RestIsDone DEF Shape, Requested
  <1>3. Done([req[a] EXCEPT !.at = "enable"])
    BY DEF Done, Shape, Requested, Requests
  <1>4. CASE WriteQuizzes(a) \/ WriteQuiz(a) \/ WriteQuizDeletion(a)
    BY <1>1, <1>2, <1>4 DEF WriteQuizzes, WriteQuiz, WriteQuizDeletion, Stop, Refuse, Commit, At, Pending
  <1>5. CASE WriteTopic(a) \/ WriteTopicUpdate(a) \/ WriteTopicDeletion(a)
    BY <1>1, <1>2, <1>5 DEF WriteTopic, WriteTopicUpdate, WriteTopicDeletion, Stop, Refuse, Commit, At, Pending
  <1>6. CASE WriteCourse(a) \/ WriteCourseUpdate(a) \/ WriteCourseDeletion(a) \/ Attach(a)
    BY <1>1, <1>2, <1>6 DEF WriteCourse, WriteCourseUpdate, WriteCourseDeletion, Attach, Stop, Refuse, Commit, At, Pending
  <1>7. CASE WriteRequirement(a) \/ EnableProject(a)
    BY <1>1, <1>2, <1>3, <1>7 DEF WriteRequirement, EnableProject, Stop, Refuse, Commit, At, Pending
  <1> QED
    BY <1>4, <1>5, <1>6, <1>7 DEF Changes

LEMMA OthersGoOn ==
  ASSUME Shape, NEW a \in Admins, Changes(a), NEW b \in Admins \ {a}
  PROVE  req'[b] = req[b]
  BY ChangesGo DEF Shape, Requested, Go

LEMMA OthersStayFresh ==
  ASSUME Shape, NEW a \in Admins, RowsStay(a), NEW b \in Admins \ {a},
         req[b].at \in Pending => Rows(req[a]) \cap Rows(req[b]) = {},
         NEW r, r = req[b], Fresh(r)
  PROVE  Fresh(r)'
  <1> DEFINE x == r.row
  <1>1. Carried(r)
    BY DEF Shape, Requested
  <1>2. CASE ~Done(r)
    <2>1. r.at \in Pending
      BY <1>2 DEF Done, Shape, Requested, Requests, Ats, Pending
    <2>2. x # None => x \in Rows(req[b]) \ Rows(req[a])
      BY <2>1 DEF Rows
    <2>3. x \notin Quizzes \cup Topics \cup Courses \/ x # None
      BY NothingIsAName
    <2>4. /\ x \in Quizzes => quizzes'[x] \in {quizzes[x], NoQuiz}
          /\ x \in Topics => topics'[x] = topics[x]
          /\ x \in Courses => courses'[x] = courses[x]
      BY <2>2, <2>3 DEF RowsStay
    <2>5. /\ Is(r, "updateQuiz", {"write"}) \/ Is(r, "deleteQuiz", {"write"}) => x \in Quizzes
          /\ Is(r, "updateTopic", {"free", "write"}) \/ Is(r, "deleteTopic", {"write"}) => x \in Topics
      BY <1>1 DEF Carried, QuizPut, QuizDrop, TopicPut, TopicDrop, Is
    <2>6. /\ Is(r, "updateCourse", {"free", "decide", "write"}) => x \in Courses
          /\ r.op \in {"updateCourse", "deleteCourse", "upsertRequirement"} /\ r.at = "write" => x \in Courses
      BY <1>1 DEF Carried, CoursePut, CourseDrop, BriefPut, Is
    <2>7. (Is(r, "updateQuiz", {"write"}) \/ Is(r, "deleteQuiz", {"write"}) => quizzes[r.row] \in {r.seen, NoQuiz})'
      BY <2>4, <2>5 DEF Fresh, NoQuiz
    <2>8. (Is(r, "updateTopic", {"free", "write"}) \/ Is(r, "deleteTopic", {"write"}) => topics[r.row] = r.seen)'
      BY <2>4, <2>5 DEF Fresh
    <2>9. (Is(r, "updateCourse", {"free", "decide", "write"}) =>
             /\ courses[r.row].exists
             /\ IF r.trash # None THEN courses[r.row].image = r.trash
                ELSE courses[r.row].image = None \/ r.put.image \in {None, Keep, courses[r.row].image})'
      BY <2>4, <2>6 DEF Fresh
    <2>10. (r.op \in {"updateCourse", "deleteCourse", "upsertRequirement"} /\ r.at = "write" =>
               courses[r.row] = r.seen /\ courses[r.row].exists)'
      BY <2>4, <2>6 DEF Fresh
    <2> QED
      BY <2>7, <2>8, <2>9, <2>10 DEF Fresh
  <1>3. CASE Done(r)
    BY <1>3 DEF Done, Fresh, Is
  <1> QED
    BY <1>2, <1>3

LEMMA StepsKeepUnraced == ASSUME Shape, Unraced, [Next]_vars PROVE Unraced'
  <1> SUFFICES ASSUME "race" \notin disturbed', NEW b \in Admins PROVE Fresh(req[b])'
    BY DEF Unraced
  <1>1. ASSUME UNCHANGED content, NEW r, Fresh(r) PROVE Fresh(r)'
    BY <1>1 DEF content, Fresh, NoQuiz
  <1>2. CASE UNCHANGED vars
    <2>1. Fresh(req[b])
      BY <1>2 DEF vars, Unraced
    <2> QED
      BY <1>1, <1>2, <2>1 DEF vars, content, Fresh
  <1>3. CASE Next
    <2> PICK a \in Admins : Opens(a) \/ GoesOn(a) \/ Changes(a)
      BY <1>3, NextIsAStep
    <2>1. CASE Opens(a)
      <3> PICK r \in Requests : Begin(a, r) /\ Starts(r)
        BY <2>1, OpensStarts
      <3>1. Fresh(req'[b])
        BY DEF Begin, Starts, Go, Shape, Requested, Unraced
      <3>2. UNCHANGED content
        BY DEF Begin
      <3> QED
        BY <1>1, <3>1, <3>2 DEF content, Fresh
    <2>2. CASE GoesOn(a)
      <3> PICK r \in Requests : Continues(a, r)
        BY <2>2, GoesOnContinues
      <3>1. Fresh(req'[b])
        BY <2>2, GoesOnContinues DEF Continues, Go, Shape, Requested, Unraced
      <3>2. UNCHANGED content
        BY <2>2, GoesOnContinues
      <3> QED
        BY <1>1, <3>1, <3>2 DEF content, Fresh
    <2>3. CASE Changes(a)
      <3>1. Shape' /\ RowsStay(a)
        BY <2>3, ChangesWrite DEF Writes
      <3>2. CASE b = a
        <4>1. PICK r : Go(a, r) /\ Done(r)
          BY <2>3, ChangesGo
        <4>2. req'[b] = r
          BY <3>2, <4>1 DEF Go, Shape, Requested
        <4> QED
          BY <4>1, <4>2 DEF Done, Fresh, Is
      <3>3. CASE b # a
        <4>1. req'[b] = req[b]
          BY <2>3, <3>3, OthersGoOn
        <4>2. "race" \notin disturbed /\ (req[b].at \in Pending => Rows(req[a]) \cap Rows(req[b]) = {})
          BY <2>3, <3>3, ChangesGo, CommitOverlaps
        <4>3. PICK r : r = req[b]
          OBVIOUS
        <4>4. Fresh(r)
          BY <4>2, <4>3 DEF Unraced
        <4>5. Fresh(r)'
          BY <3>1, <3>3, <4>2, <4>3, <4>4, OthersStayFresh
        <4> QED
          BY <4>1, <4>3, <4>5 DEF Fresh
      <3> QED
        BY <3>2, <3>3
    <2> QED
      BY <2>1, <2>2, <2>3
  <1> QED
    BY <1>2, <1>3

LEMMA OthersStaySettled ==
  ASSUME Shape, Shape', NEW a \in Admins, ReachStays(a), NEW b \in Admins \ {a},
         req[b].at \in Pending => Reach(req[a]) \cap Reach(req[b]) = {},
         NEW r, r = req[b], Settled(r)
  PROVE  Settled(r)'
  <1>1. Carried(r) /\ r \in Requests
    BY DEF Shape, Requested
  <1>2. CASE ~Done(r)
    <2>1. r.at \in Pending
      BY <1>1, <1>2 DEF Done, Requests, Ats, Pending
    <2>2. \A x \in Reach(r) : (x \in Courses => LinksStay(x)) /\ (x \in Topics => CodesStay(x))
      BY <2>1 DEF ReachStays
    <2>3. NewCodes(r)'
      <3>1. Is(r, "createQuizzes", {"write"}) => \A i \in DOMAIN r.put : r.put[i].topic \in r.around \cap Topics
        BY <1>1 DEF Carried, Batched
      <3> QED
        BY <2>2, <3>1 DEF Settled, NewCodes, Reach, CodesStay, Is
    <2>4. NewCode(r)'
      <3>1. Is(r, "updateQuiz", {"write"}) => r.put.topic \in r.around \cap Topics
        BY <1>1 DEF Carried, QuizPut
      <3> QED
        BY <2>2, <3>1 DEF Settled, NewCode, Reach, CodesStay, Is
    <2>5. LastPlace(r)'
      <3>1. Is(r, "createTopic", {"order", "write"}) => r.courses \subseteq r.around \cap Courses
        BY <1>1 DEF Carried, TopicNew, Requests
      <3> QED
        BY <2>2, <3>1 DEF Settled, LastPlace, Reach, LinksStay, SlugFree, Is
    <2>6. NewSlug(r)'
      <3> SUFFICES ASSUME Is(r, "updateTopic", {"free", "write"}), r.put.slug # Keep
                   PROVE  /\ CoursesOf(r.row)' \subseteq r.around
                          /\ \A c \in CoursesOf(r.row)' : SlugFree(c, r.put.slug, r.row)'
        BY DEF NewSlug
      <3>1. r.row \in Topics /\ r.row \in Reach(r)
        BY <1>1, NothingIsAName DEF Carried, TopicPut, Reach, Rows
      <3>2. CoursesOf(r.row)' \subseteq CoursesOf(r.row) /\ CoursesOf(r.row) \subseteq r.around
        BY <2>2, <3>1 DEF CodesStay, Settled, NewSlug
      <3>3. \A c \in CoursesOf(r.row) : SlugFree(c, r.put.slug, r.row) /\ c \in Courses /\ c \in Reach(r)
        BY <3>2 DEF Settled, NewSlug, CoursesOf, Shape, Tables, LinkRows, Reach
      <3> QED
        BY <2>2, <3>2, <3>3 DEF LinksStay, SlugFree
    <2>7. Is(r, "deleteTopic", {"write"}) => CoursesOf(r.row)' \subseteq r.courses
      <3>1. Is(r, "deleteTopic", {"write"}) => r.row \in Topics /\ r.row \in Reach(r)
        BY <1>1, NothingIsAName DEF Carried, TopicDrop, Reach, Rows
      <3> QED
        BY <2>2, <3>1 DEF CodesStay, Settled
    <2>8. Is(r, "updateCourseTopics", {"write"}) => LinksOf(r.row)' \subseteq r.seen
      <3>1. Is(r, "updateCourseTopics", {"write"}) => r.row \in Courses /\ r.row \in Reach(r)
        BY <1>1, NothingIsAName DEF Carried, ListPut, Reach, Rows, Is
      <3> QED
        BY <2>2, <3>1 DEF LinksStay, Settled
    <2> QED
      BY <2>3, <2>4, <2>5, <2>6, <2>7, <2>8 DEF Settled
  <1>3. CASE Done(r)
    BY <1>3 DEF Done, Settled, Is, NewCodes, NewCode, LastPlace, NewSlug
  <1> QED
    BY <1>2, <1>3

LEMMA StepsKeepUncrowded == ASSUME Shape, Uncrowded, [Next]_vars PROVE Uncrowded'
  <1> SUFFICES ASSUME "crowd" \notin disturbed', NEW b \in Admins PROVE Settled(req[b])'
    BY DEF Uncrowded
  <1>1. ASSUME UNCHANGED content, NEW r, Settled(r) PROVE Settled(r)'
    BY <1>1 DEF content, Settled, NewCodes, NewCode, LastPlace, NewSlug, CoursesOf, LinksOf, SlugFree
  <1>2. CASE UNCHANGED vars
    <2>1. Settled(req'[b])
      BY <1>2 DEF vars, Uncrowded
    <2>2. UNCHANGED content
      BY <1>2 DEF vars
    <2> QED
      BY <1>1, <2>1, <2>2 DEF Settled, NewCodes, NewCode, LastPlace, NewSlug
  <1>3. CASE Next
    <2> PICK a \in Admins : Opens(a) \/ GoesOn(a) \/ Changes(a)
      BY <1>3, NextIsAStep
    <2>1. CASE Opens(a)
      <3> PICK r \in Requests : Begin(a, r) /\ Starts(r)
        BY <2>1, OpensStarts
      <3>1. Settled(req'[b])
        BY DEF Begin, Starts, Go, Shape, Requested, Uncrowded
      <3>2. UNCHANGED content
        BY DEF Begin
      <3> QED
        BY <1>1, <3>1, <3>2 DEF Settled, NewCodes, NewCode, LastPlace, NewSlug
    <2>2. CASE GoesOn(a)
      <3> PICK r \in Requests : Continues(a, r)
        BY <2>2, GoesOnContinues
      <3>1. Settled(req'[b])
        BY <2>2, GoesOnContinues DEF Continues, Go, Shape, Requested, Uncrowded
      <3>2. UNCHANGED content
        BY <2>2, GoesOnContinues
      <3> QED
        BY <1>1, <3>1, <3>2 DEF Settled, NewCodes, NewCode, LastPlace, NewSlug
    <2>3. CASE Changes(a)
      <3>1. CASE b = a
        <4>1. PICK r : Go(a, r) /\ Done(r)
          BY <2>3, ChangesGo
        <4>2. req'[b] = r
          BY <3>1, <4>1 DEF Go, Shape, Requested
        <4> QED
          BY <4>1, <4>2 DEF Done, Settled, Is, NewCodes, NewCode, LastPlace, NewSlug
      <3>2. CASE b # a
        <4>1. req'[b] = req[b]
          BY <2>3, <3>2, OthersGoOn
        <4>2. "crowd" \notin disturbed /\ (req[b].at \in Pending => Reach(req[a]) \cap Reach(req[b]) = {})
          BY <2>3, <3>2, ChangesGo, CommitOverlaps
        <4>3. Shape' /\ ReachStays(a)
          BY <2>3, <4>2, ChangesWrite DEF Writes, Uncrowded
        <4>4. PICK r : r = req[b]
          OBVIOUS
        <4>5. Settled(r)
          BY <4>2, <4>4 DEF Uncrowded
        <4>6. Settled(r)'
          BY <3>2, <4>2, <4>3, <4>4, <4>5, OthersStaySettled
        <4> QED
          BY <4>1, <4>4, <4>6 DEF Settled, NewCodes, NewCode, LastPlace, NewSlug
      <3> QED
        BY <3>1, <3>2
    <2> QED
      BY <2>1, <2>2, <2>3
  <1> QED
    BY <1>2, <1>3

-----------------------------------------------------------------------------
(* What handlers check                                                     *)

\* The tables that each write leaves alone.
LEMMA WritesElsewhere ==
  ASSUME NEW a \in Admins, Changes(a)
  PROVE  /\ UNCHANGED topics \/ WriteTopic(a) \/ WriteTopicUpdate(a) \/ WriteTopicDeletion(a)
         /\ \/ UNCHANGED courses \/ WriteCourse(a) \/ WriteCourseUpdate(a) \/ WriteCourseDeletion(a)
            \/ WriteRequirement(a) \/ EnableProject(a)
         /\ UNCHANGED links \/ WriteTopic(a) \/ WriteTopicDeletion(a) \/ WriteCourseDeletion(a) \/ Attach(a)
         /\ UNCHANGED quizzes \/ WriteQuizzes(a) \/ WriteQuiz(a) \/ WriteQuizDeletion(a) \/ WriteTopicDeletion(a)
  BY DEF Changes, Refuse, content, WriteQuizzes, WriteQuiz, WriteQuizDeletion, WriteTopic, WriteTopicUpdate,
         WriteTopicDeletion, WriteCourse, WriteCourseUpdate, WriteCourseDeletion, Attach, WriteRequirement,
         EnableProject

LEMMA WindowsStayOrdered ==
  ASSUME Shape, NEW a \in Admins, Changes(a), Fresh(req[a]), Windows
  PROVE  Windows'
  <1> DEFINE r == req[a]
  <1>1. Carried(r) /\ topics \in [Topics -> TopicRows]
    BY DEF Shape, Requested, Tables
  <1>2. ASSUME NEW t \in Topics, NEW new, topics' = [topics EXCEPT ![t] = new],
               WindowOrdered(new.starts, new.ends)
        PROVE  Windows'
    BY <1>1, <1>2 DEF Windows, WindowOrdered
  <1>3. CASE UNCHANGED topics
    BY <1>3 DEF Windows, WindowOrdered
  <1>4. CASE WriteTopic(a)
    <2>1. WindowOrdered(r.put.starts, r.put.ends)
      BY <1>1, <1>4 DEF WriteTopic, At, Carried, TopicNew, Is
    <2> QED
      BY <1>2, <1>3, <1>4, <2>1 DEF WriteTopic, Refuse, content
  <1>5. CASE WriteTopicUpdate(a) /\ ~UNCHANGED topics
    <2> DEFINE now == topics[r.row]
               new == [slug |-> Set(r.put.slug, now.slug), starts |-> Set(r.put.starts, now.starts),
                       ends |-> Set(r.put.ends, now.ends), image |-> Set(r.put.image, now.image)]
    <2>1. /\ r.row \in Topics /\ now = r.seen
          /\ WindowOrdered(Set(r.put.starts, r.seen.starts), Set(r.put.ends, r.seen.ends))
      BY <1>1, <1>5 DEF WriteTopicUpdate, At, Carried, TopicPut, Fresh, Is
    <2>2. topics' = [topics EXCEPT ![r.row] = new]
      BY <1>5 DEF WriteTopicUpdate, Refuse, content
    <2>3. WindowOrdered(new.starts, new.ends)
      BY <2>1
    <2> QED
      BY <1>2, <2>1, <2>2, <2>3
  <1>6. CASE WriteTopicDeletion(a) /\ ~UNCHANGED topics
    <2>1. r.row \in Topics
      BY <1>1, <1>6 DEF WriteTopicDeletion, At, Carried, TopicDrop, Is
    <2>2. topics' = [topics EXCEPT ![r.row] = NoTopic] /\ WindowOrdered(NoTopic.starts, NoTopic.ends)
      BY <1>6 DEF WriteTopicDeletion, Refuse, content, NoTopic, WindowOrdered
    <2> QED
      BY <1>2, <2>1, <2>2
  <1> QED
    BY <1>3, <1>4, <1>5, <1>6, WritesElsewhere

\* A course's weights, as they should be.
Balanced(course) ==
    course.topicWeight + course.projectWeight = 100 /\ (~course.project => course.topicWeight = 100)

LEMMA AcceptedWeightsBalance ==
  ASSUME NEW put \in CourseInputs, NEW now \in CourseRows, Balanced(now),
         WeightsAccepted(put, Set(put.project, now.project))
  PROVE  Balanced(NewCourse(put, now))
  <1> DEFINE default == IF put.project = Keep THEN <<now.topicWeight, now.projectWeight>>
                        ELSE IF put.project THEN <<50, 50>> ELSE <<100, 0>>
             new == NewCourse(put, now)
  <1>1. /\ new.project = Set(put.project, now.project)
        /\ new.topicWeight = Set(put.topicWeight, default[1])
        /\ new.projectWeight = Set(put.projectWeight, default[2])
    BY NewCourseIsCourse
  <1> SUFFICES Balanced(new)
    OBVIOUS
  <1> HIDE DEF new
  <1>2. new.project \in BOOLEAN /\ put.topicWeight \in Int \cup {Keep} /\ put.projectWeight \in Int \cup {Keep}
    BY <1>1 DEF Set, CourseInputs, CourseRows
  <1>3. CASE put.topicWeight = Keep /\ put.projectWeight = Keep
    <2>1. new.topicWeight = default[1] /\ new.projectWeight = default[2]
      BY <1>1, <1>3 DEF Set
    <2>2. CASE put.project = Keep
      BY <1>1, <2>1, <2>2 DEF Set, Balanced
    <2>3. CASE put.project # Keep
      <3>1. new.project = put.project
        BY <1>1, <2>3 DEF Set
      <3>2. IF new.project THEN new.topicWeight = 50 /\ new.projectWeight = 50
            ELSE new.topicWeight = 100 /\ new.projectWeight = 0
        BY <1>2, <2>1, <2>3, <3>1
      <3> QED
        BY <3>2 DEF Balanced
    <2> QED
      BY <2>2, <2>3
  <1>4. CASE ~(put.topicWeight = Keep /\ put.projectWeight = Keep)
    <2>1. /\ put.topicWeight # Keep /\ put.projectWeight # Keep
          /\ IF new.project THEN put.topicWeight + put.projectWeight = 100
             ELSE put.topicWeight = 100 /\ put.projectWeight = 0
      BY <1>1, <1>4 DEF WeightsAccepted
    <2>2. new.topicWeight = put.topicWeight /\ new.projectWeight = put.projectWeight
      BY <1>1, <2>1 DEF Set
    <2> QED
      BY <2>1, <2>2 DEF Balanced
  <1> QED
    BY <1>3, <1>4

LEMMA WeightsStayBalanced ==
  ASSUME Shape, NEW a \in Admins, Changes(a), Fresh(req[a]), Weights
  PROVE  Weights'
  <1> DEFINE r == req[a]
             c == r.row
  <1>1. Carried(r) /\ courses \in [Courses -> CourseRows]
    BY DEF Shape, Requested, Tables
  <1>2. ASSUME NEW x \in Courses, NEW new, courses' = [courses EXCEPT ![x] = new], Balanced(new)
        PROVE  Weights'
    BY <1>1, <1>2 DEF Weights, Balanced
  <1>3. CASE UNCHANGED courses
    BY <1>3 DEF Weights
  <1>4. \A x \in Courses : courses[x] \in CourseRows /\ Balanced(courses[x])
    BY <1>1 DEF Weights, Balanced
  <1>5. CASE WriteCourse(a)
    <2>1. c \in Courses /\ r.put \in CourseInputs /\ r.put.project \in BOOLEAN /\ WeightsAccepted(r.put, r.put.project)
      BY <1>1, <1>5 DEF WriteCourse, At, Carried, CourseNew, Is
    <2>2. Balanced(NoCourse)
      BY DEF Balanced, NoCourse
    <2>3. Set(r.put.project, NoCourse.project) = r.put.project
      BY <2>1, NothingIsAName DEF Set
    <2>4. Balanced(NewCourse(r.put, NoCourse))
      BY <2>1, <2>2, <2>3, AcceptedWeightsBalance, EmptyRows
    <2> QED
      BY <1>2, <1>5, <2>1, <2>4 DEF WriteCourse
  <1>6. CASE WriteCourseUpdate(a) /\ ~UNCHANGED courses
    <2>1. c \in Courses /\ r.put \in CourseInputs /\ WeightsAccepted(r.put, Set(r.put.project, r.seen.project))
      BY <1>1, <1>6 DEF WriteCourseUpdate, At, Carried, CoursePut, Is
    <2>2. courses[c] = r.seen
      BY <1>6 DEF WriteCourseUpdate, At, Fresh
    <2>3. Balanced(NewCourse(r.put, courses[c]))
      BY <1>4, <2>1, <2>2, AcceptedWeightsBalance
    <2> QED
      BY <1>2, <1>6, <2>1, <2>3 DEF WriteCourseUpdate, Refuse, content
  <1>7. CASE WriteCourseDeletion(a) /\ ~UNCHANGED courses
    <2>1. c \in Courses
      BY <1>1, <1>7 DEF WriteCourseDeletion, At, Carried, CourseDrop, Is
    <2>2. courses' = [courses EXCEPT ![c] = NoCourse] /\ Balanced(NoCourse)
      BY <1>7 DEF WriteCourseDeletion, Refuse, content, Balanced, NoCourse
    <2> QED
      BY <1>2, <2>1, <2>2
  <1>8. CASE WriteRequirement(a) /\ ~UNCHANGED courses
    <2>1. c \in Courses
      BY <1>1, <1>8 DEF WriteRequirement, At, Carried, BriefPut, Is
    <2>2. courses' = [courses EXCEPT ![c].required = TRUE, ![c].brief = Set(r.put, @)]
      BY <1>8 DEF WriteRequirement, Refuse, content
    <2>3. \A x \in Courses : /\ courses'[x].topicWeight = courses[x].topicWeight
                             /\ courses'[x].projectWeight = courses[x].projectWeight
                             /\ courses'[x].project = courses[x].project
      BY <1>1, <2>1, <2>2 DEF CourseRows
    <2> QED
      BY <2>3 DEF Weights
  <1>9. CASE EnableProject(a) /\ ~UNCHANGED courses
    <2>1. c \in Courses
      BY <1>1, <1>9 DEF EnableProject, At, Carried, BriefPut, Is
    <2>2. courses' = [courses EXCEPT ![c].project = TRUE, ![c].topicWeight = 50, ![c].projectWeight = 50]
      BY <1>9 DEF EnableProject, Refuse, content
    <2>3. Balanced(courses'[c])
      <3>1. courses'[c].topicWeight = 50 /\ courses'[c].projectWeight = 50 /\ courses'[c].project = TRUE
        BY <1>1, <2>1, <2>2 DEF CourseRows
      <3> QED
        BY <3>1 DEF Balanced
    <2>4. \A x \in Courses : courses'[x] = courses[x] \/ Balanced(courses'[x])
      BY <1>1, <2>2, <2>3
    <2> QED
      BY <1>4, <2>4 DEF Weights, Balanced
  <1> QED
    BY <1>3, <1>5, <1>6, <1>7, <1>8, <1>9, WritesElsewhere

LEMMA PlacesStay ==
  ASSUME Shape, Shape', NEW a \in Admins, Changes(a), Settled(req[a]), "attached" \notin disturbed', Places
  PROVE  Places'
  <1> DEFINE r == req[a]
  <1>1. /\ Carried(r) /\ topics \in [Topics -> TopicRows]
        /\ \A l \in links : l \in LinkRows /\ HasTopic(l.topic)
    BY DEF Shape, Requested, Tables, Linked
  <1>2. CASE UNCHANGED <<topics, links>>
    BY <1>2 DEF Places
  <1>3. CASE WriteTopic(a) /\ ~UNCHANGED <<topics, links>>
    <2>1. TopicNew(r) /\ LastPlace(r) /\ Is(r, "createTopic", {"order", "write"}) /\ r.at = "write"
      BY <1>1, <1>3 DEF WriteTopic, At, Carried, Settled, Is
    <2>2. PICK c \in r.courses : \E t \in Topics :
              /\ ~HasTopic(t) /\ topics' = [topics EXCEPT ![t] = r.put]
              /\ links' = links \cup {[course |-> c, topic |-> t, order |-> r.seen + 1, no |-> changes]}
      BY <1>3 DEF WriteTopic, Refuse, content
    <2>3. PICK t \in Topics :
              /\ ~HasTopic(t) /\ topics' = [topics EXCEPT ![t] = r.put]
              /\ links' = links \cup {[course |-> c, topic |-> t, order |-> r.seen + 1, no |-> changes]}
      BY <2>2
    <2> DEFINE new == [course |-> c, topic |-> t, order |-> r.seen + 1, no |-> changes]
    <2>4. new.course = c /\ new.topic = t /\ new.order = r.seen + 1 /\ links' = links \cup {new}
      BY <2>3
    <2> HIDE DEF new
    <2>5. r.seen \in Nat /\ \A l \in LinksOf(c) : topics[l.topic].slug # r.put.slug /\ l.order <= r.seen
      <3>1. r.seen \in Nat /\ SlugFree(c, r.put.slug, None) /\ \A l \in LinksOf(c) : l.order <= r.seen
        BY <2>1, <2>2 DEF TopicNew, LastPlace
      <3>2. \A l \in LinksOf(c) : l.topic # None
        BY <1>1, NothingIsAName DEF LinksOf, LinkRows
      <3> QED
        BY <3>1, <3>2 DEF SlugFree
    <2>6. \A l \in links : topics'[l.topic] = topics[l.topic] /\ l.order \in Nat
      BY <1>1, <2>3 DEF LinkRows
    <2>7. topics'[t] = r.put
      BY <1>1, <2>3
    <2>8. \A l \in links : l.course = c => topics'[l.topic].slug # topics'[t].slug /\ l.order # new.order
      BY <2>4, <2>5, <2>6, <2>7 DEF LinksOf
    <2> QED
      BY <2>4, <2>6, <2>8 DEF Places
  <1>4. CASE WriteTopicUpdate(a) /\ ~UNCHANGED <<topics, links>>
    <2> DEFINE t == r.row
               now == topics[t]
               new == [slug |-> Set(r.put.slug, now.slug), starts |-> Set(r.put.starts, now.starts),
                       ends |-> Set(r.put.ends, now.ends), image |-> Set(r.put.image, now.image)]
    <2>1. TopicPut(r) /\ NewSlug(r) /\ Is(r, "updateTopic", {"free", "write"}) /\ t \in Topics
      BY <1>1, <1>4 DEF WriteTopicUpdate, At, Carried, Settled, Is, TopicPut
    <2>2. UNCHANGED links /\ topics' = [topics EXCEPT ![t] = new]
      BY <1>4 DEF WriteTopicUpdate, Refuse, content
    <2>3. new.slug = Set(r.put.slug, now.slug)
      OBVIOUS
    <2> HIDE DEF new
    <2>4. CASE r.put.slug = Keep
      <3>1. \A x \in Topics : topics'[x].slug = topics[x].slug
        BY <1>1, <2>1, <2>2, <2>3, <2>4 DEF Set
      <3> QED
        BY <1>1, <2>2, <3>1 DEF Places, LinkRows
    <2>5. CASE r.put.slug # Keep
      <3>1. \A l, k \in links : l.course = k.course /\ l.topic # t /\ k.topic = t =>
               topics[l.topic].slug # r.put.slug
        BY <2>1, <2>5 DEF NewSlug, CoursesOf, SlugFree, LinksOf
      <3>2. \A l \in links : topics'[l.topic].slug = IF l.topic = t THEN r.put.slug ELSE topics[l.topic].slug
        BY <1>1, <2>1, <2>2, <2>3, <2>5 DEF Set, LinkRows
      <3>3. \A l, k \in links : l.course = k.course /\ l.topic = k.topic => l = k
        BY DEF Shape, Linked
      <3> QED
        BY <2>2, <3>1, <3>2, <3>3 DEF Places
    <2> QED
      BY <2>4, <2>5
  <1>5. CASE WriteTopicDeletion(a) /\ ~UNCHANGED <<topics, links>>
    <2>1. topics' = [topics EXCEPT ![r.row] = NoTopic] /\ links' = {l \in links : l.topic # r.row}
      BY <1>5 DEF WriteTopicDeletion, Refuse, content
    <2>2. \A l \in links' : l \in links /\ topics'[l.topic] = topics[l.topic]
      BY <1>1, <2>1 DEF LinkRows
    <2> QED
      BY <2>2 DEF Places
  <1>6. CASE WriteCourseDeletion(a)
    BY <1>6 DEF WriteCourseDeletion, Refuse, content, Places
  <1>7. CASE Attach(a) /\ ~UNCHANGED <<topics, links>>
    <2> DEFINE c == r.row
               kept == links \ r.seen
               new == {[course |-> c, topic |-> r.put[i], order |-> i, no |-> changes] : i \in DOMAIN r.put}
    <2>1. LinksOf(c) \subseteq r.seen
      BY <1>7 DEF Attach, At, Settled, Is
    <2>2. links' = kept \cup new /\ UNCHANGED topics
      BY <1>7 DEF Attach, Refuse, content
    <2>3. \A l \in new : l.course = c /\ l.topic = r.put[l.order] /\ l.no = changes
      OBVIOUS
    <2>4. \A l, k \in new : l.order = k.order => l = k
      OBVIOUS
    <2>5. \A l, k \in links' : l.course = c /\ k.course = c /\ l.topic # k.topic =>
             topics[l.topic].slug # topics[k.topic].slug
      BY <1>7, <2>2 DEF Attach, Commit, Refuse, content
    <2>6. \A l, k \in links' : l.course = k.course /\ l.topic = k.topic => l = k
      BY DEF Shape, Linked
    <2>7. \A l \in kept : l \in links /\ l.course # c
      BY <2>1 DEF LinksOf
    <2> HIDE DEF new, kept
    <2> QED
      BY <2>2, <2>3, <2>4, <2>5, <2>6, <2>7 DEF Places
  <1> QED
    BY <1>2, <1>3, <1>4, <1>5, <1>6, <1>7, WritesElsewhere

LEMMA StepsKeepChecked ==
  ASSUME Shape, Unraced, Uncrowded, Checked, [Next]_vars PROVE Checked'
  <1>1. ASSUME UNCHANGED content, disturbed \subseteq disturbed' PROVE Checked'
    BY <1>1 DEF content, Checked, Windows, Weights, Places
  <1>2. CASE UNCHANGED vars
    BY <1>1, <1>2 DEF vars
  <1>3. CASE Next
    <2> PICK a \in Admins : Opens(a) \/ GoesOn(a) \/ Changes(a)
      BY <1>3, NextIsAStep
    <2>1. CASE Opens(a)
      <3> PICK r \in Requests : Begin(a, r)
        BY <2>1, OpensStarts
      <3> QED
        BY <1>1 DEF Begin
    <2>2. CASE GoesOn(a)
      BY <1>1, <2>2, GoesOnContinues
    <2>3. CASE Changes(a)
      <3>1. disturbed \subseteq disturbed' /\ Shape'
        BY <2>3, ChangesGo, StepsKeepShape
      <3>2. "race" \notin disturbed' => Windows' /\ Weights'
        BY <2>3, <3>1, WindowsStayOrdered, WeightsStayBalanced DEF Unraced, Checked
      <3>3. disturbed' \cap {"crowd", "attached"} = {} => Places'
        <4> HAVE disturbed' \cap {"crowd", "attached"} = {}
        <4>1. Settled(req[a]) /\ Places /\ "attached" \notin disturbed'
          BY <3>1 DEF Uncrowded, Checked
        <4> QED
          BY <2>3, <3>1, <4>1, PlacesStay
      <3> QED
        BY <3>2, <3>3 DEF Checked
    <2> QED
      BY <2>1, <2>2, <2>3
  <1> QED
    BY <1>2, <1>3

LEMMA InitIsQuiet == ASSUME Init PROVE Unraced /\ Uncrowded /\ Checked
  <1>1. Unraced /\ Uncrowded
    BY IdleIsFresh DEF Init, Unraced, Uncrowded
  <1> PICK seed \in Seeds : /\ quizzes = seed.quizzes /\ topics = seed.topics
                            /\ courses = seed.courses /\ links = seed.links
    BY DEF Init
  <1>2. Sound(seed)
    BY SeedsAreSound
  <1>3. Windows /\ Weights
    BY <1>2 DEF Sound, Windows, Weights
  <1>4. Places
    BY <1>2 DEF Sound, Places
  <1> QED
    BY <1>1, <1>3, <1>4 DEF Checked

(* Topics' windows, courses' weights, and the slugs and places of a course's *)
(* topics hold whatever administrators do, but for requests that overlap:    *)
(* the checks of createTopic, updateTopic, createCourse, updateCourse and    *)
(* updateCourseTopics are enough for one request at a time.                  *)
THEOREM HandlersCheckEnough == Spec => []ChecksHold
  <1> DEFINE Inv == Shape /\ Unraced /\ Uncrowded /\ Checked
  <1>1. Init => Inv
    BY InitIsShaped, InitIsQuiet
  <1>2. Inv /\ [Next]_vars => Inv'
    BY StepsKeepShape, StepsKeepUnraced, StepsKeepUncrowded, StepsKeepChecked
  <1>3. Inv => ChecksHold
    BY DEF Checked, Windows, Weights, Places, ChecksHold
  <1> QED
    BY <1>1, <1>2, <1>3, PTL DEF Spec

-----------------------------------------------------------------------------
(* Codes                                                                   *)

\* An index refuses only the codes that others took meanwhile.
LEMMA RefusedCodesWereTaken ==
  ASSUME Shape, NEW a \in Admins, Changes(a), Settled(req[a]) PROVE UNCHANGED refused
  <1> DEFINE r == req[a]
  <1>1. Carried(r) /\ refused \in BOOLEAN
    BY DEF Shape, Requested, Books
  <1>2. CASE WriteQuizzes(a)
    <2>1. /\ Batched(r) /\ NewCodes(r) /\ Is(r, "createQuizzes", {"write"})
          /\ \A i \in DOMAIN r.put : r.put[i].topic \in Topics
      BY <1>1, <1>2 DEF WriteQuizzes, At, Carried, Settled, Batched, Is
    <2>2. (\A i \in DOMAIN r.put : HasTopic(r.put[i].topic)) =>
             \A i \in DOMAIN r.put :
               /\ Fits(None, r.put[i])
               /\ \A j \in 1..i-1 : r.put[j].topic = r.put[i].topic => r.put[j].code # r.put[i].code
      BY <2>1 DEF NewCodes, Fits
    <2> QED
      BY <1>1, <1>2, <2>2 DEF WriteQuizzes, Commit, Refuse
  <1>3. CASE WriteQuiz(a)
    <2>1. NewCode(r) /\ Is(r, "updateQuiz", {"write"})
      BY <1>3 DEF WriteQuiz, At, Settled, Is
    <2>2. HasTopic(r.put.topic) => Fits(r.row, r.put)
      BY <2>1 DEF NewCode, Fits
    <2> QED
      BY <1>1, <1>3, <2>2 DEF WriteQuiz, Commit, Refuse
  <1>4. CASE ~WriteQuizzes(a) /\ ~WriteQuiz(a)
    BY <1>1, <1>4 DEF Changes, Commit, Refuse, WriteQuizDeletion, WriteTopic, WriteTopicUpdate,
         WriteTopicDeletion, WriteCourse, WriteCourseUpdate, WriteCourseDeletion, Attach, WriteRequirement,
         EnableProject
  <1> QED
    BY <1>2, <1>3, <1>4

LEMMA StepsKeepCodes ==
  ASSUME Shape, Uncrowded, CodesFit, [Next]_vars PROVE CodesFit'
  <1>1. CASE UNCHANGED vars
    BY <1>1 DEF vars, CodesFit
  <1>2. CASE Next
    <2> PICK a \in Admins : Opens(a) \/ GoesOn(a) \/ Changes(a)
      BY <1>2, NextIsAStep
    <2>1. CASE Opens(a)
      <3> PICK r \in Requests : Begin(a, r)
        BY <2>1, OpensStarts
      <3> QED
        BY DEF Begin, CodesFit
    <2>2. CASE GoesOn(a)
      BY <2>2, GoesOnContinues DEF CodesFit
    <2>3. CASE Changes(a)
      BY <2>3, ChangesGo, RefusedCodesWereTaken DEF CodesFit, Uncrowded
    <2> QED
      BY <2>1, <2>2, <2>3
  <1> QED
    BY <1>1, <1>2

(* A quiz code that createQuizzes allocated, or that createQuiz or updateQuiz *)
(* found free, is refused by the index on (topicId, quizCode) only when       *)
(* another request on the topic came between the check and the write.         *)
THEOREM CheckedCodesFit == Spec => []CodesFit
  <1> DEFINE Inv == Shape /\ Uncrowded /\ CodesFit
  <1>1. Init => Inv
    BY InitIsShaped, InitIsQuiet DEF Init, CodesFit
  <1>2. Inv /\ [Next]_vars => Inv'
    BY StepsKeepShape, StepsKeepUncrowded, StepsKeepCodes
  <1> QED
    BY <1>1, <1>2, PTL DEF Spec

-----------------------------------------------------------------------------
(* The keys that rows name                                                 *)

LEMMA ColumnsOfAKey ==
  ASSUME NEW k
  PROVE  /\ \A q \in Quizzes : <<"image", q>> \in NamedBy(k) <=> quizzes[q].image = k
         /\ \A t \in Topics : <<"image", t>> \in NamedBy(k) <=> topics[t].image = k
         /\ \A c \in Courses : <<"image", c>> \in NamedBy(k) <=> courses[c].image = k
         /\ \A c \in Courses : <<"brief", c>> \in NamedBy(k) <=> courses[c].brief = k
  BY RowsAreDistinct DEF NamedBy

\* What a step may add to the columns that name a key, and what it takes away.
LEMMA NamedByGrows ==
  ASSUME NEW k, NEW new,
         \A q \in Quizzes : quizzes'[q].image = k => quizzes[q].image = k \/ <<"image", q>> \in new,
         \A t \in Topics : topics'[t].image = k => topics[t].image = k \/ <<"image", t>> \in new,
         \A c \in Courses : courses'[c].image = k => courses[c].image = k \/ <<"image", c>> \in new,
         \A c \in Courses : courses'[c].brief = k => courses[c].brief = k \/ <<"brief", c>> \in new
  PROVE  NamedBy(k)' \subseteq NamedBy(k) \cup new
  BY DEF NamedBy

LEMMA NotNamed ==
  ASSUME NEW k,
         \A q \in Quizzes : quizzes'[q].image # k,
         \A t \in Topics : topics'[t].image # k,
         \A c \in Courses : courses'[c].image # k /\ courses'[c].brief # k
  PROVE  NamedBy(k)' = {}
  BY DEF NamedBy

LEMMA NamedMeansColumn ==
  /\ \A k \in Objects : k \in Named <=> NamedBy(k) # {}
  /\ \A k \in Objects : k \in Named' <=> NamedBy(k)' # {}
  BY DEF Named

LEMMA SameRowsSameNames ==
  ASSUME UNCHANGED <<quizzes, topics, courses>>
  PROVE  Named' = Named /\ \A k : NamedBy(k)' = NamedBy(k)
  BY DEF Named, NamedBy

\* A write names its own keys, in its own column.
OwnNames(a) ==
    \A k \in Objects : NamedBy(k)' \subseteq
        NamedBy(k) \cup IF k \in req[a].keys THEN {Column(req[a])} ELSE {}

\* A new row's column is not the column of a request.
NewNames(a) ==
    "shared" \notin disturbed' => \A k \in Objects :
        \/ NamedBy(k)' \subseteq NamedBy(k)
        \/ k \in req[a].keys /\ k \notin named /\ \E x : NamedBy(k)' \subseteq NamedBy(k) \cup {x}

LEMMA CommitShares ==
  ASSUME NEW a \in Admins, NEW excuses, Commit(a, excuses), "shared" \notin disturbed'
  PROVE  /\ \A k \in req[a].keys \cap named : NamedBy(k) = {Column(req[a])}
         /\ "shared" \notin excuses
  BY DEF Commit, Sharing

LEMMA OwnNamesAreNew ==
  ASSUME NEW a \in Admins, NEW excuses, Commit(a, excuses), OwnNames(a)
  PROVE  NewNames(a)
  <1> SUFFICES ASSUME "shared" \notin disturbed', NEW k \in Objects
               PROVE  \/ NamedBy(k)' \subseteq NamedBy(k)
                      \/ k \in req[a].keys /\ k \notin named /\ \E x : NamedBy(k)' \subseteq NamedBy(k) \cup {x}
    BY DEF NewNames
  <1>1. NamedBy(k)' \subseteq NamedBy(k) \cup IF k \in req[a].keys THEN {Column(req[a])} ELSE {}
    BY DEF OwnNames
  <1>2. k \in req[a].keys /\ k \in named => NamedBy(k) = {Column(req[a])}
    BY CommitShares
  <1> QED
    BY <1>1, <1>2

LEMMA WriteQuizzesNames ==
  ASSUME Shape, NEW a \in Admins, WriteQuizzes(a)
  PROVE  NewNames(a)
  <1> DEFINE r == req[a]
             items == r.put
  <1>1. /\ r.op = "createQuizzes" /\ r.row = None
        /\ r.keys = {items[i].image : i \in DOMAIN items} \ {None}
    BY DEF WriteQuizzes, At, Shape, Requested, Carried, Batched, Is
  <1>2. CASE UNCHANGED <<quizzes, topics, courses>>
    BY <1>2, SameRowsSameNames DEF NewNames
  <1>3. CASE ~UNCHANGED <<quizzes, topics, courses>>
    <2>1. PICK id \in [DOMAIN items -> {q \in Quizzes : quizzes[q] = NoQuiz /\ Unknown(q)}] :
            /\ \A i, j \in DOMAIN items : id[i] = id[j] => i = j
            /\ quizzes' = [q \in Quizzes |->
                  IF \E i \in DOMAIN items : id[i] = q
                  THEN items[CHOOSE i \in DOMAIN items : id[i] = q] ELSE quizzes[q]]
      BY <1>3 DEF WriteQuizzes, Refuse, content
    <2>2. /\ UNCHANGED <<topics, courses>>
          /\ Commit(a, IF \E i, j \in DOMAIN items : i # j /\ items[i].image = items[j].image
                                                       /\ items[i].image # None
                       THEN {"shared"} ELSE {})
      BY <1>3 DEF WriteQuizzes, Refuse, content
    <2>3. \A q \in Quizzes : quizzes'[q] = quizzes[q] \/ \E i \in DOMAIN items : id[i] = q /\ quizzes'[q] = items[i]
      BY <2>1
    <2> SUFFICES ASSUME "shared" \notin disturbed', NEW k \in Objects
                 PROVE  \/ NamedBy(k)' \subseteq NamedBy(k)
                        \/ k \in r.keys /\ k \notin named /\ \E x : NamedBy(k)' \subseteq NamedBy(k) \cup {x}
      BY DEF NewNames
    <2>4. \A i, j \in DOMAIN items : i # j /\ items[i].image = items[j].image => items[i].image = None
      BY <2>2, CommitShares
    <2>5. CASE k \notin r.keys
      <3>1. \A q \in Quizzes : quizzes'[q].image = k => quizzes[q].image = k
        BY <1>1, <2>3, <2>5, NothingIsAName
      <3>2. NamedBy(k)' \subseteq NamedBy(k) \cup {}
        BY <2>2, <3>1, NamedByGrows
      <3> QED
        BY <3>2
    <2>6. CASE k \in r.keys
      <3>1. PICK i \in DOMAIN items : items[i].image = k
        BY <1>1, <2>6
      <3>2. \A j \in DOMAIN items : items[j].image = k => j = i
        BY <2>4, <3>1, NothingIsAName
      <3>3. \A q \in Quizzes : quizzes'[q].image = k => quizzes[q].image = k \/ <<"image", q>> \in {<<"image", id[i]>>}
        BY <2>3, <3>2
      <3>4. NamedBy(k)' \subseteq NamedBy(k) \cup {<<"image", id[i]>>}
        BY <2>2, <3>3, NamedByGrows
      <3>5. k \notin named
        <4> SUFFICES ASSUME k \in named PROVE FALSE
          OBVIOUS
        <4>1. NamedBy(k) = {<<"image", None>>}
          BY <1>1, <2>2, <2>6, CommitShares DEF Column
        <4>2. <<"image", None>> \notin NamedBy(k)
          BY NothingIsAName DEF NamedBy
        <4> QED
          BY <4>1, <4>2
      <3> QED
        BY <2>6, <3>4, <3>5
    <2> QED
      BY <2>5, <2>6
  <1> QED
    BY <1>2, <1>3

LEMMA WriteTopicNames ==
  ASSUME Shape, NEW a \in Admins, WriteTopic(a)
  PROVE  NewNames(a)
  <1> DEFINE r == req[a]
  <1>1. r.op = "createTopic" /\ r.row = None /\ r.keys = {r.put.image} \ {None}
    BY DEF WriteTopic, At, Shape, Requested, Carried, TopicNew, Is
  <1>2. CASE UNCHANGED <<quizzes, topics, courses>>
    BY <1>2, SameRowsSameNames DEF NewNames
  <1>3. CASE ~UNCHANGED <<quizzes, topics, courses>>
    <2>1. /\ \E t \in Topics : topics' = [topics EXCEPT ![t] = r.put]
          /\ UNCHANGED <<quizzes, courses>> /\ Commit(a, {})
      BY <1>3 DEF WriteTopic, Refuse, content
    <2>2. PICK t \in Topics : topics' = [topics EXCEPT ![t] = r.put]
      BY <2>1
    <2>3. \A x \in Topics : topics'[x] = IF x = t THEN r.put ELSE topics[x]
      BY <2>2 DEF Shape, Tables
    <2> SUFFICES ASSUME "shared" \notin disturbed', NEW k \in Objects
                 PROVE  \/ NamedBy(k)' \subseteq NamedBy(k)
                        \/ k \in r.keys /\ k \notin named /\ \E x : NamedBy(k)' \subseteq NamedBy(k) \cup {x}
      BY DEF NewNames
    <2>4. CASE k \notin r.keys
      <3>1. \A x \in Topics : topics'[x].image = k => topics[x].image = k
        BY <1>1, <2>3, <2>4, NothingIsAName
      <3>2. NamedBy(k)' \subseteq NamedBy(k) \cup {}
        BY <2>1, <3>1, NamedByGrows
      <3> QED
        BY <3>2
    <2>5. CASE k \in r.keys
      <3>1. \A x \in Topics : topics'[x].image = k => topics[x].image = k \/ <<"image", x>> \in {<<"image", t>>}
        BY <2>3
      <3>2. NamedBy(k)' \subseteq NamedBy(k) \cup {<<"image", t>>}
        BY <2>1, <3>1, NamedByGrows
      <3>3. k \notin named
        <4> SUFFICES ASSUME k \in named PROVE FALSE
          OBVIOUS
        <4>1. NamedBy(k) = {<<"image", None>>}
          BY <1>1, <2>1, <2>5, CommitShares DEF Column
        <4>2. <<"image", None>> \notin NamedBy(k)
          BY NothingIsAName DEF NamedBy
        <4> QED
          BY <4>1, <4>2
      <3> QED
        BY <2>5, <3>2, <3>3
    <2> QED
      BY <2>4, <2>5
  <1> QED
    BY <1>2, <1>3

\* A quiz's row is written.
LEMMA QuizRowNames ==
  ASSUME Shape, NEW a \in Admins, req[a].row \in Quizzes, req[a].op # "upsertRequirement",
         NEW new, quizzes' = [quizzes EXCEPT ![req[a].row] = new], new.image \in req[a].keys \cup {None},
         UNCHANGED <<topics, courses>>
  PROVE  OwnNames(a)
  <1> SUFFICES ASSUME NEW k \in Objects
               PROVE  NamedBy(k)' \subseteq NamedBy(k) \cup IF k \in req[a].keys THEN {Column(req[a])} ELSE {}
    BY DEF OwnNames
  <1>1. \A q \in Quizzes : quizzes'[q] = IF q = req[a].row THEN new ELSE quizzes[q]
    BY DEF Shape, Tables
  <1>2. Column(req[a]) = <<"image", req[a].row>> /\ k # None
    BY NothingIsAName DEF Column
  <1> DEFINE own == IF k \in req[a].keys THEN {Column(req[a])} ELSE {}
  <1>3. \A q \in Quizzes : quizzes'[q].image = k => quizzes[q].image = k \/ <<"image", q>> \in own
    BY <1>1, <1>2
  <1> HIDE DEF own
  <1>4. NamedBy(k)' \subseteq NamedBy(k) \cup own
    BY <1>3, NamedByGrows
  <1> QED
    BY <1>4 DEF own

\* A topic's row is written.
LEMMA TopicRowNames ==
  ASSUME Shape, NEW a \in Admins, req[a].row \in Topics, req[a].op # "upsertRequirement",
         NEW new, topics' = [topics EXCEPT ![req[a].row] = new],
         new.image \in req[a].keys \cup {None, topics[req[a].row].image},
         \A q \in Quizzes : quizzes'[q] = quizzes[q] \/ quizzes'[q] = NoQuiz, UNCHANGED courses
  PROVE  OwnNames(a)
  <1> SUFFICES ASSUME NEW k \in Objects
               PROVE  NamedBy(k)' \subseteq NamedBy(k) \cup IF k \in req[a].keys THEN {Column(req[a])} ELSE {}
    BY DEF OwnNames
  <1>1. \A t \in Topics : topics'[t] = IF t = req[a].row THEN new ELSE topics[t]
    BY DEF Shape, Tables
  <1>2. Column(req[a]) = <<"image", req[a].row>> /\ k # None
    BY NothingIsAName DEF Column
  <1> DEFINE own == IF k \in req[a].keys THEN {Column(req[a])} ELSE {}
  <1>3. \A t \in Topics : topics'[t].image = k => topics[t].image = k \/ <<"image", t>> \in own
    BY <1>1, <1>2
  <1>4. \A q \in Quizzes : quizzes'[q].image = k => quizzes[q].image = k
    BY <1>2 DEF NoQuiz
  <1> HIDE DEF own
  <1>5. NamedBy(k)' \subseteq NamedBy(k) \cup own
    BY <1>3, <1>4, NamedByGrows
  <1> QED
    BY <1>5 DEF own

\* A course's row is written.
LEMMA CourseRowNames ==
  ASSUME Shape, NEW a \in Admins, NEW c \in Courses, c = req[a].row,
         \A x \in Courses \ {c} : courses'[x] = courses[x],
         courses'[c].image \in {None, courses[c].image}
             \cup IF req[a].op = "upsertRequirement" THEN {} ELSE req[a].keys,
         courses'[c].brief \in {None, courses[c].brief}
             \cup IF req[a].op = "upsertRequirement" THEN req[a].keys ELSE {},
         UNCHANGED <<quizzes, topics>>
  PROVE  OwnNames(a)
  <1> SUFFICES ASSUME NEW k \in Objects
               PROVE  NamedBy(k)' \subseteq NamedBy(k) \cup IF k \in req[a].keys THEN {Column(req[a])} ELSE {}
    BY DEF OwnNames
  <1>1. Column(req[a]) = <<IF req[a].op = "upsertRequirement" THEN "brief" ELSE "image", c>> /\ k # None
    BY NothingIsAName DEF Column
  <1> DEFINE own == IF k \in req[a].keys THEN {Column(req[a])} ELSE {}
  <1>2. \A x \in Courses : courses'[x].image = k => courses[x].image = k \/ <<"image", x>> \in own
    BY <1>1
  <1>3. \A x \in Courses : courses'[x].brief = k => courses[x].brief = k \/ <<"brief", x>> \in own
    BY <1>1
  <1> HIDE DEF own
  <1>4. NamedBy(k)' \subseteq NamedBy(k) \cup own
    BY <1>2, <1>3, NamedByGrows
  <1> QED
    BY <1>4 DEF own

-----------------------------------------------------------------------------
(* The keys that writes replace                                            *)

\* One column changes from one key to another; others may only go in a cascade.
Rewrites(own, old, new) ==
    \A k \in Objects :
        /\ own \in NamedBy(k) <=> k = old
        /\ own \in NamedBy(k)' <=> k = new
        /\ NamedBy(k)' \ {own} \subseteq NamedBy(k)
        /\ "cascade" \notin disturbed' => NamedBy(k) \ {own} \subseteq NamedBy(k)'

\* What a write makes of the keys that rows stop naming: it removes them next, or
\* has removed them before.
Replaces(a) ==
    /\ NamedOnce => /\ req'[a].at = "release" => req'[a].trash \in Named \ Named'
                    /\ Freeing(req[a]) => req[a].trash \notin Named'
    /\ disturbed' \cap {"cascade", "cleared"} = {} =>
         \A k \in Named \ Named' : \/ req'[a].at = "release" /\ req'[a].trash = k
                                   \/ req[a].at = "write" /\ req[a].trash = k

Renames(a) == NewNames(a) /\ (Fresh(req[a]) => Replaces(a))

LEMMA RewriteReplaces ==
  ASSUME NEW a \in Admins, NEW own, NEW old \in Keys, NEW new \in Keys, Rewrites(own, old, new),
         req'[a].at = "release" => req'[a].trash = old /\ old \notin {None, new},
         Freeing(req[a]) => req[a].trash = None \/ (req[a].trash = old /\ old # new),
         old \notin {None, new} => \/ req'[a].at = "release"
                                   \/ req[a].at = "write" /\ req[a].trash = old
                                   \/ "cleared" \in disturbed'
  PROVE  Replaces(a)
  <1>1. ASSUME NamedOnce, old \notin {None, new} PROVE old \in Named \ Named'
    <2>1. old \in Objects /\ NamedBy(old) = {own}
      BY <1>1 DEF Keys, Rewrites, NamedOnce
    <2>2. NamedBy(old)' = {}
      BY <1>1, <2>1 DEF Rewrites
    <2> QED
      BY <2>1, <2>2, NamedMeansColumn
  <1>2. ASSUME NEW k \in Named \ Named', "cascade" \notin disturbed' PROVE k = old /\ old \notin {None, new}
    <2>1. k \in Objects /\ NamedBy(k) # {} /\ NamedBy(k)' = {}
      BY <1>2, NamedMeansColumn DEF Named
    <2>2. own \in NamedBy(k)
      BY <1>2, <2>1 DEF Rewrites
    <2> QED
      BY <2>1, <2>2, NothingIsAName DEF Rewrites
  <1>3. None \notin Named'
    BY NothingIsAName DEF Named
  <1> QED
    BY <1>1, <1>2, <1>3 DEF Replaces

LEMMA QuizRewrites ==
  ASSUME Shape, NEW q \in Quizzes, NEW new, quizzes' = [quizzes EXCEPT ![q] = new],
         UNCHANGED <<topics, courses>>
  PROVE  Rewrites(<<"image", q>>, quizzes[q].image, new.image)
  <1>1. \A p \in Quizzes : quizzes'[p] = IF p = q THEN new ELSE quizzes[p]
    BY DEF Shape, Tables
  <1> QED
    BY <1>1, RowsAreDistinct DEF Rewrites, NamedBy

LEMMA TopicRewrites ==
  ASSUME Shape, NEW t \in Topics, NEW new, topics' = [topics EXCEPT ![t] = new], UNCHANGED courses,
         \A q \in Quizzes : \/ quizzes'[q] = quizzes[q]
                            \/ /\ quizzes'[q] = NoQuiz
                               /\ quizzes[q].image # None => "cascade" \in disturbed'
  PROVE  Rewrites(<<"image", t>>, topics[t].image, new.image)
  <1>1. \A x \in Topics : topics'[x] = IF x = t THEN new ELSE topics[x]
    BY DEF Shape, Tables
  <1>2. NoQuiz.image = None /\ None \notin Objects
    BY NothingIsAName DEF NoQuiz
  <1> QED
    BY <1>1, <1>2, RowsAreDistinct DEF Rewrites, NamedBy

LEMMA CourseImageRewrites ==
  ASSUME Shape, NEW c \in Courses, \A x \in Courses \ {c} : courses'[x] = courses[x],
         \/ courses'[c].brief = courses[c].brief
         \/ courses'[c].brief = None /\ (courses[c].brief # None => "cascade" \in disturbed'),
         UNCHANGED <<quizzes, topics>>
  PROVE  Rewrites(<<"image", c>>, courses[c].image, courses'[c].image)
  <1>1. None \notin Objects
    BY NothingIsAName
  <1> QED
    BY <1>1, RowsAreDistinct DEF Rewrites, NamedBy

LEMMA CourseBriefRewrites ==
  ASSUME Shape, NEW c \in Courses, \A x \in Courses \ {c} : courses'[x] = courses[x],
         courses'[c].image = courses[c].image, UNCHANGED <<quizzes, topics>>
  PROVE  Rewrites(<<"brief", c>>, courses[c].brief, courses'[c].brief)
  BY RowsAreDistinct DEF Rewrites, NamedBy

LEMMA RestIs ==
  ASSUME NEW r \in Requests, NEW trash, NEW cs
  PROVE  /\ Rest(r, trash, cs).at = "release" <=> trash # None
         /\ trash # None => Rest(r, trash, cs).trash = trash /\ Rest(r, trash, cs).courses = cs
         /\ trash = None /\ cs # {} => Rest(r, trash, cs).at = "evaluate" /\ Rest(r, trash, cs).courses = cs
  BY DEF Rest, Requests, Idle

LEMMA NextRequest ==
  ASSUME Shape, NEW a \in Admins, NEW r, Go(a, r) PROVE req'[a] = r
  BY DEF Shape, Requested, Go

\* A write that the database refuses renames nothing.
LEMMA RefuseRenames ==
  ASSUME Shape, NEW a \in Admins, NEW byIndex, Refuse(a, byIndex), Fresh(req[a]) => ~Freeing(req[a])
  PROVE  Renames(a)
  <1>1. req'[a].at = "idle"
    BY NextRequest DEF Refuse, Stop, Idle
  <1>2. Named' = Named /\ \A k : NamedBy(k)' = NamedBy(k)
    BY SameRowsSameNames DEF Refuse, content
  <1> QED
    BY <1>1, <1>2 DEF Renames, NewNames, Replaces

\* A write that rewrites no column that names a key.
LEMMA AddingRenames ==
  ASSUME NEW a \in Admins, NewNames(a), ~Freeing(req[a]), req'[a].at # "release",
         \A k \in Objects : NamedBy(k) \subseteq NamedBy(k)'
  PROVE  Renames(a)
  <1>1. Named \subseteq Named'
    BY NamedMeansColumn DEF Named
  <1> QED
    BY <1>1 DEF Renames, Replaces

LEMMA WriteQuizRenames ==
  ASSUME Shape, NEW a \in Admins, WriteQuiz(a)
  PROVE  Renames(a)
  <1> DEFINE r == req[a]
             q == r.row
             trash == Replaced(r.seen.image, r.put.image)
  <1>1. r \in Requests /\ r.op = "updateQuiz" /\ r.at = "write" /\ QuizPut(r)
    BY DEF WriteQuiz, At, Shape, Requested, Carried
  <1>2. /\ q \in Quizzes /\ r.keys = {r.put.image} \ {None} /\ r.put.image \in Keys
        /\ r.seen.image \in Keys /\ quizzes[q].image \in Keys /\ ~Freeing(r)
    BY <1>1 DEF QuizPut, Is, QuizRows, Freeing, Shape, Tables
  <1>3. CASE /\ quizzes[q] # NoQuiz /\ quizzes' = [quizzes EXCEPT ![q] = r.put]
             /\ Go(a, Rest(r, trash, {})) /\ UNCHANGED <<topics, courses, links, evaluated>> /\ Commit(a, {})
    <2>1. OwnNames(a)
      BY <1>1, <1>2, <1>3, QuizRowNames
    <2>2. NewNames(a)
      BY <1>3, <2>1, OwnNamesAreNew
    <2>3. Rewrites(<<"image", q>>, quizzes[q].image, r.put.image)
      BY <1>2, <1>3, QuizRewrites
    <2>4. req'[a] = Rest(r, trash, {})
      BY <1>3, NextRequest
    <2>5. Fresh(r) => quizzes[q] = r.seen
      BY <1>1, <1>3 DEF Fresh, Is
    <2>6. (req'[a].at = "release" <=> trash # None) /\ (trash # None => req'[a].trash = trash)
      BY <1>1, <2>4, RestIs
    <2> HIDE DEF r
    <2>7. (trash # None => trash = r.seen.image) /\ (trash # None <=> r.seen.image \notin {None, r.put.image})
      BY DEF Replaced
    <2>8. Fresh(r) => Replaces(a)
      BY <1>2, <2>3, <2>5, <2>6, <2>7, RewriteReplaces DEF r
    <2> QED
      BY <2>2, <2>8 DEF Renames, r
  <1> QED
    BY <1>2, <1>3, RefuseRenames DEF WriteQuiz

LEMMA WriteQuizDeletionRenames ==
  ASSUME Shape, NEW a \in Admins, WriteQuizDeletion(a)
  PROVE  Renames(a)
  <1> DEFINE r == req[a]
             q == r.row
             cs == CoursesOf(r.seen.topic)
  <1>1. r \in Requests /\ r.op = "deleteQuiz" /\ r.at = "write" /\ QuizDrop(r)
    BY DEF WriteQuizDeletion, At, Shape, Requested, Carried
  <1>2. /\ q \in Quizzes /\ r.keys = {} /\ r.seen.image \in Keys /\ quizzes[q].image \in Keys /\ ~Freeing(r)
        /\ NoQuiz.image = None /\ None \in Keys
    BY <1>1, EmptyRows DEF QuizDrop, Is, QuizRows, Freeing, Shape, Tables, NoQuiz
  <1>3. CASE /\ quizzes[q] # NoQuiz /\ quizzes' = [quizzes EXCEPT ![q] = NoQuiz]
             /\ Go(a, Rest(r, r.seen.image, cs)) /\ UNCHANGED <<topics, courses, links, evaluated>>
             /\ Commit(a, {})
    <2> HIDE DEF cs
    <2>1. OwnNames(a)
      BY <1>1, <1>2, <1>3, QuizRowNames
    <2>2. NewNames(a)
      BY <1>3, <2>1, OwnNamesAreNew
    <2>3. Rewrites(<<"image", q>>, quizzes[q].image, None)
      BY <1>2, <1>3, QuizRewrites
    <2>4. req'[a] = Rest(r, r.seen.image, cs)
      BY <1>3, NextRequest
    <2>5. Fresh(r) => quizzes[q] = r.seen
      BY <1>1, <1>3 DEF Fresh, Is
    <2>6. (req'[a].at = "release" <=> r.seen.image # None) /\ (r.seen.image # None => req'[a].trash = r.seen.image)
      BY <1>1, <2>4, RestIs
    <2>7. Fresh(r) => Replaces(a)
      BY <1>2, <2>3, <2>5, <2>6, RewriteReplaces
    <2> QED
      BY <2>2, <2>7 DEF Renames
  <1> QED
    BY <1>2, <1>3, RefuseRenames DEF WriteQuizDeletion

LEMMA WriteTopicUpdateRenames ==
  ASSUME Shape, NEW a \in Admins, WriteTopicUpdate(a)
  PROVE  Renames(a)
  <1> DEFINE r == req[a]
             t == r.row
             now == topics[t]
             image == Set(r.put.image, now.image)
             new == [slug |-> Set(r.put.slug, now.slug), starts |-> Set(r.put.starts, now.starts),
                     ends |-> Set(r.put.ends, now.ends), image |-> image]
             excuses == IF r.put.image = None /\ now.image # None THEN {"cleared"} ELSE {}
  <1>1. r.op = "updateTopic" /\ r.at = "write" /\ TopicPut(r)
    BY DEF WriteTopicUpdate, At, Shape, Requested, Carried
  <1>2. /\ t \in Topics /\ r.keys = {r.put.image} \ {None, Keep} /\ r.put.image \in Keys \cup {Keep}
        /\ now.image \in Keys /\ r.seen # NoTopic
        /\ r.trash = IF r.put.image \in {None, Keep} THEN None ELSE Replaced(r.seen.image, r.put.image)
    BY <1>1, InputsAreValid DEF TopicPut, Is, TopicInputs, TopicRows, Shape, Tables
  <1>3. image \in Keys /\ image \in r.keys \cup {None, now.image} /\ new.image = image
    BY <1>2 DEF Set
  <1>4. Fresh(r) => now = r.seen
    BY <1>1 DEF Fresh, Is
  <1>5. CASE /\ HasTopic(t) /\ topics' = [topics EXCEPT ![t] = new] /\ Stop(a)
             /\ UNCHANGED <<quizzes, courses, links, evaluated>> /\ Commit(a, excuses)
    <2> HIDE DEF new
    <2>1. OwnNames(a)
      BY <1>1, <1>2, <1>3, <1>5, TopicRowNames
    <2>2. NewNames(a)
      BY <1>5, <2>1, OwnNamesAreNew
    <2>3. Rewrites(<<"image", t>>, now.image, image)
      BY <1>2, <1>3, <1>5, TopicRewrites
    <2>4. req'[a].at = "idle"
      BY <1>5, NextRequest DEF Stop, Idle
    <2>5. r.put.image = None /\ now.image # None => "cleared" \in disturbed'
      BY <1>5 DEF Commit
    <2> HIDE DEF image, now, r
    <2>6. Fresh(r) /\ r.trash # None => r.trash = now.image /\ now.image # image
      BY <1>2, <1>4 DEF Replaced, Set, image
    <2>7. Fresh(r) /\ now.image \notin {None, image} => r.trash = now.image \/ "cleared" \in disturbed'
      BY <1>2, <1>4, <2>5 DEF Replaced, Set, image
    <2>8. ASSUME Fresh(r) PROVE Replaces(a)
      <3>1. Freeing(req[a]) => req[a].trash = None \/ (req[a].trash = now.image /\ now.image # image)
        BY <2>8, <2>6 DEF r
      <3>2. now.image \notin {None, image} => \/ req'[a].at = "release"
                                              \/ req[a].at = "write" /\ req[a].trash = now.image
                                              \/ "cleared" \in disturbed'
        BY <2>8, <2>7, <1>1 DEF r
      <3> QED
        BY <1>2, <1>3, <2>8, <2>3, <2>4, <3>1, <3>2, RewriteReplaces
    <2> QED
      BY <2>2, <2>8 DEF Renames, r
  <1>6. ~HasTopic(t) => ~Fresh(r)
    BY <1>2, <1>4 DEF HasTopic
  <1> QED
    BY <1>5, <1>6, RefuseRenames DEF WriteTopicUpdate

LEMMA WriteTopicDeletionRenames ==
  ASSUME Shape, NEW a \in Admins, WriteTopicDeletion(a)
  PROVE  Renames(a)
  <1> DEFINE r == req[a]
             t == r.row
             gone == {q \in Quizzes : quizzes[q].topic = t}
             excuses == IF \E q \in gone : quizzes[q].image # None THEN {"cascade"} ELSE {}
  <1>1. r \in Requests /\ r.op = "deleteTopic" /\ r.at = "write" /\ TopicDrop(r)
    BY DEF WriteTopicDeletion, At, Shape, Requested, Carried
  <1>2. /\ t \in Topics /\ r.keys = {} /\ r.seen.image \in Keys /\ topics[t].image \in Keys /\ ~Freeing(r)
        /\ NoTopic.image = None /\ None \in Keys
    BY <1>1, EmptyRows DEF TopicDrop, Is, TopicRows, Freeing, Shape, Tables, NoTopic
  <1>3. CASE /\ topics' = [topics EXCEPT ![t] = NoTopic]
             /\ quizzes' = [q \in Quizzes |-> IF q \in gone THEN NoQuiz ELSE quizzes[q]]
             /\ Go(a, Rest(r, r.seen.image, r.courses)) /\ UNCHANGED <<courses, evaluated>>
             /\ Commit(a, excuses)
    <2>1. \A q \in Quizzes : \/ quizzes'[q] = quizzes[q]
                             \/ /\ quizzes'[q] = NoQuiz
                                /\ quizzes[q].image # None => "cascade" \in disturbed'
      BY <1>3 DEF Commit
    <2>2. OwnNames(a)
      BY <1>1, <1>2, <1>3, <2>1, TopicRowNames
    <2>3. NewNames(a)
      BY <1>3, <2>2, OwnNamesAreNew
    <2>4. Rewrites(<<"image", t>>, topics[t].image, None)
      BY <1>2, <1>3, <2>1, TopicRewrites
    <2>5. req'[a] = Rest(r, r.seen.image, r.courses)
      BY <1>3, NextRequest
    <2>6. Fresh(r) => topics[t] = r.seen
      BY <1>1 DEF Fresh, Is
    <2>7. (req'[a].at = "release" <=> r.seen.image # None) /\ (r.seen.image # None => req'[a].trash = r.seen.image)
      BY <1>1, <2>5, RestIs
    <2>8. Fresh(r) => Replaces(a)
      BY <1>2, <2>4, <2>6, <2>7, RewriteReplaces
    <2> QED
      BY <2>3, <2>8 DEF Renames
  <1> QED
    BY <1>2, <1>3, RefuseRenames DEF WriteTopicDeletion

LEMMA WriteCourseRenames ==
  ASSUME Shape, NEW a \in Admins, WriteCourse(a)
  PROVE  Renames(a)
  <1> DEFINE r == req[a]
             c == r.row
             new == NewCourse(r.put, NoCourse)
  <1>1. r.op = "createCourse" /\ r.at = "write" /\ CourseNew(r)
    BY DEF WriteCourse, At, Shape, Requested, Carried
  <1>2. /\ c \in Courses /\ r.put \in CourseInputs /\ r.put.image \in Keys /\ r.keys = {r.put.image} \ {None}
        /\ ~Freeing(r)
    BY <1>1 DEF CourseNew, Is, Freeing
  <1>3. courses[c] = NoCourse /\ NoCourse.image = None /\ NoCourse.brief = None
    BY <1>2 DEF WriteCourse, Shape, Linked, NoCourse
  <1>4. new.image \in r.keys \cup {None} /\ new.brief = None
    BY <1>2, <1>3, NewCourseIsCourse, EmptyRows DEF Set
  <1>5. courses' = [courses EXCEPT ![c] = new] /\ UNCHANGED <<quizzes, topics>> /\ Stop(a) /\ Commit(a, {})
    BY DEF WriteCourse
  <1> HIDE DEF new
  <1>6. \A x \in Courses : courses'[x] = IF x = c THEN new ELSE courses[x]
    BY <1>5 DEF Shape, Tables
  <1>7. NewNames(a)
    <2>1. OwnNames(a)
      BY <1>1, <1>2, <1>4, <1>5, <1>6, CourseRowNames
    <2> QED
      BY <1>5, <2>1, OwnNamesAreNew
  <1>8. \A k \in Objects : NamedBy(k) \subseteq NamedBy(k)'
    BY <1>3, <1>5, <1>6, NothingIsAName DEF NamedBy
  <1>9. req'[a].at = "idle"
    BY <1>5, NextRequest DEF Stop, Idle
  <1> QED
    BY <1>2, <1>7, <1>8, <1>9, AddingRenames

LEMMA WriteCourseUpdateRenames ==
  ASSUME Shape, NEW a \in Admins, WriteCourseUpdate(a)
  PROVE  Renames(a)
  <1> DEFINE r == req[a]
             c == r.row
             now == courses[c]
             new == NewCourse(r.put, now)
             image == Set(r.put.image, now.image)
             cs == IF Noticed(r.put, r.seen) THEN {c} ELSE {}
  <1>1. r \in Requests /\ r.op = "updateCourse" /\ r.at = "write" /\ CoursePut(r)
    BY DEF WriteCourseUpdate, At, Shape, Requested, Carried
  <1>2. /\ c \in Courses /\ r.put \in CourseInputs /\ r.keys = {r.put.image} \ {None, Keep}
        /\ r.put.image \in Keys \cup {Keep} /\ now \in CourseRows /\ now.image \in Keys
        /\ r.trash # None => r.put.image \notin {None, Keep, r.trash}
    BY <1>1 DEF CoursePut, Is, CourseInputs, CourseRows, Shape, Tables
  <1>3. image \in Keys /\ image \in r.keys \cup {None, now.image} /\ new.image = image /\ new.brief = now.brief
    BY <1>2, NewCourseIsCourse DEF Set
  <1>4. Fresh(r) =>
           /\ now.exists
           /\ IF r.trash # None THEN now.image = r.trash
              ELSE now.image = None \/ r.put.image \in {None, Keep, now.image}
    BY <1>1 DEF Fresh, Is
  <1>5. CASE /\ courses' = [courses EXCEPT ![c] = new] /\ Go(a, Rest(r, None, cs))
             /\ UNCHANGED <<quizzes, topics, links, evaluated>>
             /\ \E excuses : /\ Commit(a, excuses)
                             /\ r.put.image = None /\ now.image # None => "cleared" \in excuses
    <2> HIDE DEF new, cs, image
    <2>1. \A x \in Courses : courses'[x] = IF x = c THEN new ELSE courses[x]
      BY <1>5 DEF Shape, Tables
    <2>2. OwnNames(a)
      BY <1>1, <1>2, <1>3, <1>5, <2>1, CourseRowNames
    <2>3. NewNames(a)
      BY <1>5, <2>2, OwnNamesAreNew
    <2>4. Rewrites(<<"image", c>>, now.image, image)
      BY <1>2, <1>3, <1>5, <2>1, CourseImageRewrites
    <2>5. req'[a].at # "release"
      BY <1>1, <1>5, NextRequest, RestIs
    <2>6. r.put.image = None /\ now.image # None => "cleared" \in disturbed'
      BY <1>5 DEF Commit
    <2> HIDE DEF now, r
    <2>7. Fresh(r) /\ r.trash # None => r.trash = now.image /\ now.image # image
      BY <1>2, <1>4 DEF Set, image
    <2>8. Fresh(r) /\ now.image \notin {None, image} => r.trash = now.image \/ "cleared" \in disturbed'
      BY <1>2, <1>4, <2>6 DEF Set, image
    <2>9. ASSUME Fresh(r) PROVE Replaces(a)
      <3>1. Freeing(req[a]) => req[a].trash = None \/ (req[a].trash = now.image /\ now.image # image)
        BY <2>9, <2>7 DEF r
      <3>2. now.image \notin {None, image} => \/ req'[a].at = "release"
                                              \/ req[a].at = "write" /\ req[a].trash = now.image
                                              \/ "cleared" \in disturbed'
        BY <2>9, <2>8, <1>1 DEF r
      <3> QED
        BY <1>2, <1>3, <2>9, <2>4, <2>5, <3>1, <3>2, RewriteReplaces
    <2> QED
      BY <2>3, <2>9 DEF Renames, r
  <1>6. ~now.exists => ~Fresh(r)
    BY <1>4
  <1>7. now.exists /\ ~(\E byIndex : Refuse(a, byIndex)) =>
          /\ courses' = [courses EXCEPT ![c] = new] /\ Go(a, Rest(r, None, cs))
          /\ UNCHANGED <<quizzes, topics, links, evaluated>>
          /\ Commit(a, (IF r.put.image = None /\ now.image # None THEN {"cleared"} ELSE {})
                             \cup (IF /\ r.put.project # Keep
                                      /\ Keep \in {r.put.topicWeight, r.put.projectWeight}
                                      /\ cs = {} /\ new.topicWeight # now.topicWeight
                                   THEN {"reset"} ELSE {}))
    BY DEF WriteCourseUpdate
  <1>8. CASE now.exists
    <2>1. ~(\E byIndex : Refuse(a, byIndex)) => Renames(a)
      BY <1>5, <1>7, <1>8
    <2> QED
      BY <1>5, <1>8, <2>1 DEF WriteCourseUpdate
  <1>9. CASE ~now.exists
    BY <1>6, <1>9, RefuseRenames DEF WriteCourseUpdate
  <1> QED
    BY <1>8, <1>9

LEMMA WriteCourseDeletionRenames ==
  ASSUME Shape, NEW a \in Admins, WriteCourseDeletion(a)
  PROVE  Renames(a)
  <1> DEFINE r == req[a]
             c == r.row
             excuses == IF courses[c].brief # None THEN {"cascade"} ELSE {}
  <1>1. r \in Requests /\ r.op = "deleteCourse" /\ r.at = "write" /\ CourseDrop(r)
    BY DEF WriteCourseDeletion, At, Shape, Requested, Carried
  <1>2. /\ c \in Courses /\ r.keys = {} /\ r.seen.image \in Keys /\ courses[c].image \in Keys /\ ~Freeing(r)
        /\ NoCourse.image = None /\ NoCourse.brief = None /\ None \in Keys
    BY <1>1, EmptyRows DEF CourseDrop, Is, CourseRows, Freeing, Shape, Tables, NoCourse
  <1>3. CASE /\ courses' = [courses EXCEPT ![c] = NoCourse] /\ Go(a, Rest(r, r.seen.image, {}))
             /\ UNCHANGED <<quizzes, topics, evaluated>> /\ Commit(a, excuses)
    <2>1. \A x \in Courses : courses'[x] = IF x = c THEN NoCourse ELSE courses[x]
      BY <1>3 DEF Shape, Tables
    <2>2. OwnNames(a)
      BY <1>1, <1>2, <1>3, <2>1, CourseRowNames
    <2>3. NewNames(a)
      BY <1>3, <2>2, OwnNamesAreNew
    <2>4. courses[c].brief # None => "cascade" \in disturbed'
      BY <1>3 DEF Commit
    <2>5. Rewrites(<<"image", c>>, courses[c].image, None)
      BY <1>2, <1>3, <2>1, <2>4, CourseImageRewrites
    <2>6. req'[a] = Rest(r, r.seen.image, {})
      BY <1>3, NextRequest
    <2>7. Fresh(r) => courses[c] = r.seen
      BY <1>1 DEF Fresh, Is
    <2>8. (req'[a].at = "release" <=> r.seen.image # None) /\ (r.seen.image # None => req'[a].trash = r.seen.image)
      BY <1>1, <2>6, RestIs
    <2>9. Fresh(r) => Replaces(a)
      BY <1>2, <2>5, <2>7, <2>8, RewriteReplaces
    <2> QED
      BY <2>3, <2>9 DEF Renames
  <1> QED
    BY <1>2, <1>3, RefuseRenames DEF WriteCourseDeletion

LEMMA WriteRequirementRenames ==
  ASSUME Shape, NEW a \in Admins, WriteRequirement(a)
  PROVE  Renames(a)
  <1> DEFINE r == req[a]
             c == r.row
             now == courses[c]
             brief == Set(r.put, now.brief)
             trash == BriefToDelete(r.seen.brief, r.put)
             next == Rest(r, trash, {})
             go == IF next = Idle /\ ~r.seen.project THEN [r EXCEPT !.at = "enable"] ELSE next
  <1>1. r \in Requests /\ r.op = "upsertRequirement" /\ r.at = "write" /\ BriefPut(r)
    BY DEF WriteRequirement, At, Shape, Requested, Carried
  <1>2. /\ c \in Courses /\ r.put \in Keys \cup {Keep} /\ r.keys = {r.put} \ {None, Keep}
        /\ now \in CourseRows /\ now.brief \in Keys /\ r.seen.brief \in Keys /\ ~Freeing(r)
    BY <1>1, InputsAreValid DEF BriefPut, Is, CourseRows, Freeing, Shape, Tables
  <1>3. brief \in Keys /\ brief \in r.keys \cup {None, now.brief}
    BY <1>2 DEF Set
  <1>4. CASE /\ courses' = [courses EXCEPT ![c].required = TRUE, ![c].brief = Set(r.put, @)]
             /\ Go(a, go) /\ UNCHANGED <<quizzes, topics, links, evaluated>> /\ Commit(a, {})
    <2>1. /\ \A x \in Courses \ {c} : courses'[x] = courses[x]
          /\ courses'[c].image = now.image /\ courses'[c].brief = brief
      BY <1>2, <1>4 DEF Shape, Tables, CourseRows
    <2> HIDE DEF brief, trash, next
    <2>2. OwnNames(a)
      <3>1. UNCHANGED <<quizzes, topics>> /\ c = req[a].row /\ c \in Courses
        BY <1>2, <1>4
      <3>2. courses'[c].image \in {None, courses[c].image} \cup IF req[a].op = "upsertRequirement" THEN {} ELSE req[a].keys
        BY <2>1
      <3>3. courses'[c].brief \in {None, courses[c].brief} \cup IF req[a].op = "upsertRequirement" THEN req[a].keys ELSE {}
        BY <1>1, <1>3, <2>1
      <3> QED
        BY <2>1, <3>1, <3>2, <3>3, CourseRowNames
    <2>3. NewNames(a)
      BY <1>4, <2>2, OwnNamesAreNew
    <2>4. Rewrites(<<"brief", c>>, now.brief, brief)
      BY <1>2, <1>4, <2>1, CourseBriefRewrites
    <2>5. req'[a] = go
      BY <1>4, NextRequest
    <2>6. (next.at = "release" <=> trash # None) /\ (trash # None => next.trash = trash)
      BY <1>1, RestIs DEF next
    <2>7. (req'[a].at = "release" <=> trash # None) /\ (trash # None => req'[a].trash = trash)
      BY <1>1, <2>5, <2>6 DEF Idle, Requests
    <2>8. Fresh(r) => now = r.seen
      BY <1>1 DEF Fresh
    <2> HIDE DEF r, now, go
    <2>9. Fresh(r) => (trash # None => trash = now.brief) /\ (trash # None <=> now.brief \notin {None, brief})
      BY <1>2, <2>8 DEF trash, brief, BriefToDelete, Replaced, Set
    <2>10. ASSUME Fresh(r) PROVE Replaces(a)
      <3>1. now.brief \in Keys /\ brief \in Keys /\ ~Freeing(req[a])
        BY <1>2, <1>3 DEF r
      <3>2. (req'[a].at = "release" <=> now.brief \notin {None, brief})
            /\ (now.brief \notin {None, brief} => req'[a].trash = now.brief)
        BY <2>7, <2>9, <2>10
      <3> QED
        BY <2>4, <2>10, <3>1, <3>2, RewriteReplaces
    <2> QED
      BY <2>3, <2>10 DEF Renames, r
  <1> QED
    BY <1>2, <1>4, RefuseRenames DEF WriteRequirement

\* The image and the file of a course stay when its weights change.
LEMMA EnableProjectRenames ==
  ASSUME Shape, NEW a \in Admins, EnableProject(a)
  PROVE  Renames(a)
  <1> DEFINE r == req[a]
             c == r.row
  <1>1. r \in Requests /\ r.op = "upsertRequirement" /\ r.at = "enable" /\ c \in Courses /\ ~Freeing(r)
    BY DEF EnableProject, At, Shape, Requested, Carried, BriefPut, Is, Freeing
  <1>2. CASE /\ courses' = [courses EXCEPT ![c].project = TRUE, ![c].topicWeight = 50, ![c].projectWeight = 50]
             /\ Go(a, Rest(r, None, {c})) /\ UNCHANGED <<quizzes, topics, links, evaluated>> /\ Commit(a, {})
    <2>1. \A x \in Courses : courses'[x].image = courses[x].image /\ courses'[x].brief = courses[x].brief
      BY <1>1, <1>2 DEF Shape, Tables, CourseRows
    <2>2. \A k : NamedBy(k)' = NamedBy(k)
      BY <1>2, <2>1 DEF NamedBy
    <2>3. req'[a].at # "release"
      <3>1. req'[a] = Rest(r, None, {c})
        BY <1>2, NextRequest
      <3> HIDE DEF r
      <3>2. Rest(r, None, {c}).at # "release"
        BY <1>1, RestIs
      <3> QED
        BY <3>1, <3>2
    <2>4. NewNames(a)
      BY <2>2 DEF NewNames
    <2> QED
      BY <1>1, <2>2, <2>3, <2>4, AddingRenames
  <1> QED
    BY <1>1, <1>2, RefuseRenames DEF EnableProject

LEMMA AttachRenames ==
  ASSUME Shape, NEW a \in Admins, Attach(a)
  PROVE  Renames(a)
  <1> DEFINE r == req[a]
  <1>1. r \in Requests /\ ~Freeing(r)
    BY DEF Attach, At, Shape, Requested, Freeing, Is
  <1>2. CASE Go(a, Rest(r, None, {r.row})) /\ UNCHANGED <<quizzes, topics, courses>>
    <2>1. Named' = Named /\ \A k : NamedBy(k)' = NamedBy(k)
      BY <1>2, SameRowsSameNames
    <2>2. req'[a].at # "release"
      BY <1>1, <1>2, NextRequest, RestIs
    <2>3. NewNames(a)
      BY <2>1 DEF NewNames
    <2> QED
      BY <1>1, <2>1, <2>2, <2>3, AddingRenames
  <1> QED
    BY <1>1, <1>2, RefuseRenames DEF Attach

LEMMA WriteTopicRenames ==
  ASSUME Shape, NEW a \in Admins, WriteTopic(a)
  PROVE  Renames(a)
  <1>1. req[a] \in Requests /\ ~Freeing(req[a]) /\ topics \in [Topics -> TopicRows]
    BY DEF WriteTopic, At, Shape, Requested, Freeing, Is, Tables
  <1>2. CASE ~(\E byIndex : Refuse(a, byIndex))
    <2>1. /\ \E t \in Topics : ~HasTopic(t) /\ topics' = [topics EXCEPT ![t] = req[a].put]
          /\ \E c : Go(a, Rest(req[a], None, {c}))
          /\ UNCHANGED <<quizzes, courses>>
      BY <1>2 DEF WriteTopic
    <2>2. \A t \in Topics : topics[t].image \in Objects => topics'[t] = topics[t]
      BY <1>1, <2>1, NothingIsAName DEF HasTopic, NoTopic
    <2>3. \A k \in Objects : NamedBy(k) \subseteq NamedBy(k)'
      BY <2>1, <2>2 DEF NamedBy
    <2>4. req'[a].at # "release"
      BY <1>1, <2>1, NextRequest, RestIs
    <2> QED
      BY <1>1, <2>3, <2>4, AddingRenames, WriteTopicNames
  <1> QED
    BY <1>1, <1>2, RefuseRenames

LEMMA WriteQuizzesRenames ==
  ASSUME Shape, NEW a \in Admins, WriteQuizzes(a)
  PROVE  Renames(a)
  <1> DEFINE items == req[a].put
  <1>1. ~Freeing(req[a])
    BY DEF WriteQuizzes, At, Freeing, Is
  <1>2. CASE ~(\E byIndex : Refuse(a, byIndex))
    <2>1. /\ \E id \in [DOMAIN items -> {q \in Quizzes : quizzes[q] = NoQuiz /\ Unknown(q)}] :
                quizzes' = [q \in Quizzes |->
                      IF \E i \in DOMAIN items : id[i] = q
                      THEN items[CHOOSE i \in DOMAIN items : id[i] = q] ELSE quizzes[q]]
          /\ Stop(a) /\ UNCHANGED <<topics, courses>>
      BY <1>2 DEF WriteQuizzes
    <2>2. \A q \in Quizzes : quizzes[q].image \in Objects => quizzes'[q] = quizzes[q]
      BY <2>1, NothingIsAName DEF NoQuiz
    <2>3. \A k \in Objects : NamedBy(k) \subseteq NamedBy(k)'
      <3>1. UNCHANGED <<topics, courses>>
        BY <2>1
      <3> QED
        BY <2>2, <3>1 DEF NamedBy
    <2>4. req'[a].at # "release"
      BY <2>1, NextRequest DEF Stop, Idle
    <2> QED
      BY <1>1, <2>3, <2>4, AddingRenames, WriteQuizzesNames
  <1> QED
    BY <1>1, <1>2, RefuseRenames

LEMMA ChangesRename ==
  ASSUME Shape, NEW a \in Admins, Changes(a)
  PROVE  Renames(a)
  BY WriteQuizzesRenames, WriteQuizRenames, WriteQuizDeletionRenames, WriteTopicRenames,
     WriteTopicUpdateRenames, WriteTopicDeletionRenames, WriteCourseRenames, WriteCourseUpdateRenames,
     WriteCourseDeletionRenames, AttachRenames, WriteRequirementRenames, EnableProjectRenames DEF Changes

-----------------------------------------------------------------------------
(* Rows name what is stored                                                *)

\* What becomes of a request's removal when it goes on.
LEMMA GoesOnRemoves ==
  ASSUME Shape, NEW a \in Admins, GoesOn(a), "failure" \notin disturbed'
  PROVE  /\ stored' = stored \ (IF req[a].at \in {"free", "release"} THEN {req[a].trash} ELSE {})
         /\ req[a].at = "free" => Freeing(req[a])
         /\ req'[a].at \notin {"free", "release"}
         /\ req'[a].at \in {"order", "decide", "write"} =>
               req[a].at \in {"free", "order", "decide"} /\ req'[a].trash = req[a].trash
         /\ Freeing(req[a]) =>
               \/ req[a].trash = None
               \/ "rejected" \in disturbed'
               \/ Freeing(req'[a]) /\ req'[a].trash = req[a].trash
         /\ \A b \in Admins \ {a} : req'[b] = req[b]
  <1> DEFINE r == req[a]
  <1>1. r \in Requests /\ Stages(r)
    BY DEF Shape, Requested, Carried
  <1>2. \A b \in Admins \ {a} : req'[b] = req[b]
    BY GoesOnContinues DEF Continues, Go, Shape, Requested
  <1>3. CASE OrderTopic(a)
    <2>1. PICK n : Go(a, [r EXCEPT !.at = "write", !.seen = n])
      BY <1>3 DEF OrderTopic
    <2>2. req'[a] = [r EXCEPT !.at = "write", !.seen = n]
      BY <2>1, NextRequest
    <2>3. req'[a].at = "write" /\ req'[a].trash = r.trash
      BY <1>1, <2>2 DEF Requests
    <2> QED
      BY <1>2, <1>3, <2>3 DEF OrderTopic, At, SameTables, Freeing, Is
  <1>4. CASE Detach(a)
    <2>1. req'[a] = [r EXCEPT !.at = "write", !.seen = LinksOf(r.row)]
      BY <1>4, NextRequest DEF Detach
    <2>2. req'[a].at = "write" /\ req'[a].trash = r.trash
      BY <1>1, <2>1 DEF Requests
    <2> QED
      BY <1>2, <1>4, <2>2 DEF Detach, At, SameTables, Freeing, Is
  <1>5. CASE DecideCourse(a)
    <2>1. r.op = "updateCourse" /\ r.at = "decide" /\ UNCHANGED stored
      BY <1>5 DEF DecideCourse, At, SameTables
    <2>2. CASE Go(a, [r EXCEPT !.at = "write", !.seen = courses[r.row]])
      <3>1. req'[a] = [r EXCEPT !.at = "write", !.seen = courses[r.row]]
        BY <2>2, NextRequest
      <3>2. req'[a].at = "write" /\ req'[a].trash = r.trash /\ req'[a].op = r.op
        BY <1>1, <3>1 DEF Requests
      <3> QED
        BY <1>2, <2>1, <3>2 DEF Freeing, Is
    <2>3. CASE Stop(a) /\ (r.trash # None => "rejected" \in disturbed')
      <3>1. req'[a].at = "idle"
        BY <2>3, NextRequest DEF Stop, Idle
      <3> QED
        BY <1>2, <2>1, <2>3, <3>1
    <2> QED
      BY <1>5, <2>2, <2>3 DEF DecideCourse
  <1>6. CASE Remove(a)
    <2>1. r.at \in {"free", "release"} /\ stored' = stored \ {r.trash}
      BY <1>6 DEF Remove
    <2>2. CASE r.at = "free"
      <3> DEFINE at == IF r.op = "updateCourse" THEN "decide" ELSE "write"
      <3>1. req'[a] = [r EXCEPT !.at = at]
        BY <1>6, <2>2, NextRequest DEF Remove
      <3>2. r.op \in {"updateTopic", "updateCourse"}
        BY <1>1, <2>2 DEF Stages
      <3>3. req'[a].at = at /\ req'[a].trash = r.trash /\ req'[a].op = r.op
        BY <1>1, <3>1 DEF Requests
      <3> QED
        BY <1>2, <2>1, <2>2, <3>2, <3>3 DEF Freeing, Is
    <2>3. CASE r.at = "release"
      <3>1. req'[a] = [r EXCEPT !.at = "enable"] \/ req'[a] = Rest(r, None, r.courses)
        BY <1>6, <2>3, NextRequest DEF Remove
      <3>2. [r EXCEPT !.at = "enable"].at = "enable"
        BY <1>1 DEF Requests
      <3>3. Rest(r, None, r.courses).at # "release" /\ Done(Rest(r, None, r.courses))
        BY <1>1, RestIs, RestIsDone
      <3>4. req'[a].at \in {"enable", "evaluate", "idle"}
        BY <3>1, <3>2, <3>3 DEF Done
      <3> QED
        BY <1>2, <2>1, <2>3, <3>4 DEF Freeing, Is
    <2> QED
      BY <2>1, <2>2, <2>3
  <1>7. CASE Evaluate(a)
    <2>1. req'[a].at = "idle" /\ UNCHANGED stored /\ r.at = "evaluate"
      BY <1>7, NextRequest DEF Evaluate, Stop, Idle
    <2> QED
      BY <1>2, <2>1 DEF Freeing, Is
  <1>8. ~Fail(a)
    BY DEF Fail
  <1> QED
    BY <1>3, <1>4, <1>5, <1>6, <1>7, <1>8 DEF GoesOn

LEMMA ChangesName ==
  ASSUME Known, NEW a \in Admins, Changes(a)
  PROVE  UNCHANGED stored /\ named' = named \cup Named'
  <1>1. (\E excuses : Commit(a, excuses)) \/ (\E byIndex : Refuse(a, byIndex))
    BY DEF Changes, WriteQuizzes, WriteQuiz, WriteQuizDeletion, WriteTopic, WriteTopicUpdate,
           WriteTopicDeletion, WriteCourse, WriteCourseUpdate, WriteCourseDeletion, Attach,
           WriteRequirement, EnableProject
  <1>2. ASSUME NEW byIndex, Refuse(a, byIndex) PROVE UNCHANGED stored /\ named' = named \cup Named'
    <2>1. Named' = Named
      BY <1>2, SameRowsSameNames DEF Refuse, content
    <2> QED
      BY <1>2, <2>1 DEF Refuse, Known
  <1> QED
    BY <1>1, <1>2 DEF Commit

LEMMA StepsKeepKnown ==
  ASSUME Shape, Known, [Next]_vars PROVE Known'
  <1>1. ASSUME UNCHANGED <<content, named>> PROVE Known'
    BY <1>1, SameRowsSameNames DEF content, Known
  <1>2. CASE UNCHANGED vars
    BY <1>1, <1>2 DEF vars
  <1>3. CASE Next
    <2> PICK a \in Admins : Opens(a) \/ GoesOn(a) \/ Changes(a)
      BY <1>3, NextIsAStep
    <2>1. CASE Opens(a)
      BY <1>1, <2>1, OpensStarts DEF Begin
    <2>2. CASE GoesOn(a)
      BY <1>1, <2>2, GoesOnContinues
    <2>3. CASE Changes(a)
      BY <2>3, ChangesName DEF Known
    <2> QED
      BY <2>1, <2>2, <2>3
  <1> QED
    BY <1>2, <1>3

LEMMA OpensKeepsKeysSafe ==
  ASSUME Shape, Known, KeysAreSafe, NEW a \in Admins, Opens(a) PROVE KeysAreSafe'
  <1> PICK r \in Requests : Begin(a, r) /\ Starts(r)
    BY OpensStarts
  <1>1. /\ UNCHANGED <<content, stored, named>> /\ disturbed \subseteq disturbed'
        /\ req[a].at = "idle" /\ req'[a] = r /\ \A b \in Admins \ {a} : req'[b] = req[b]
    BY NextRequest DEF Begin, MayBegin, Go, Shape, Requested
  <1>2. Named' = Named /\ \A k : NamedBy(k)' = NamedBy(k)
    BY <1>1, SameRowsSameNames DEF content
  <1> SUFFICES ASSUME Careful' PROVE NamedOnce' /\ (Named \subseteq stored \cup Freed)'
                 /\ (Objects \ named \subseteq stored)'
                 /\ (\A b \in Admins : req[b].at \in {"free", "release"} => req[b].trash \in named)'
                 /\ (\A b \in Admins : req[b].at = "release" => req[b].trash \notin Named)'
    BY DEF KeysAreSafe
  <1>3. Careful
    BY <1>1 DEF Careful
  <1>4. Freed \subseteq Freed'
    BY <1>1 DEF Freed, Freeing, Is
  <1>5. r.at # "release" /\ (r.at = "free" => r.trash \in named)
    BY DEF Starts, Pending, Known
  <1> QED
    BY <1>1, <1>2, <1>3, <1>4, <1>5 DEF KeysAreSafe, NamedOnce

LEMMA GoesOnKeepsKeysSafe ==
  ASSUME Shape, KeysAreSafe, NEW a \in Admins, GoesOn(a) PROVE KeysAreSafe'
  <1> SUFFICES ASSUME Careful' PROVE NamedOnce' /\ (Named \subseteq stored \cup Freed)'
                 /\ (Objects \ named \subseteq stored)'
                 /\ (\A b \in Admins : req[b].at \in {"free", "release"} => req[b].trash \in named)'
                 /\ (\A b \in Admins : req[b].at = "release" => req[b].trash \notin Named)'
    BY DEF KeysAreSafe
  <1>1. UNCHANGED <<content, named>> /\ disturbed \subseteq disturbed'
    BY GoesOnContinues
  <1>2. Named' = Named /\ \A k : NamedBy(k)' = NamedBy(k)
    BY <1>1, SameRowsSameNames DEF content
  <1>3. Careful /\ "failure" \notin disturbed' /\ "rejected" \notin disturbed'
    BY <1>1 DEF Careful
  <1>4. /\ stored' = stored \ (IF req[a].at \in {"free", "release"} THEN {req[a].trash} ELSE {})
        /\ req[a].at = "free" => Freeing(req[a])
        /\ req'[a].at \notin {"free", "release"}
        /\ Freeing(req[a]) => req[a].trash = None \/ (Freeing(req'[a]) /\ req'[a].trash = req[a].trash)
        /\ \A b \in Admins \ {a} : req'[b] = req[b]
    BY <1>3, GoesOnRemoves
  <1>5. Freed \ {None} \subseteq Freed'
    BY <1>4 DEF Freed
  <1>6. None \notin Named /\ Named \subseteq Objects
    BY NothingIsAName DEF Named
  <1>7. req[a].at = "free" => req[a].trash \in Freed
    BY <1>4 DEF Freed
  <1>8. Named \subseteq stored' \cup Freed'
    BY <1>3, <1>4, <1>5, <1>6, <1>7 DEF KeysAreSafe
  <1>9. Objects \ named \subseteq stored'
    BY <1>3, <1>4 DEF KeysAreSafe
  <1> QED
    BY <1>1, <1>2, <1>3, <1>4, <1>8, <1>9 DEF KeysAreSafe, NamedOnce

LEMMA ChangesKeepsKeysSafe ==
  ASSUME Shape, Unraced, Known, KeysAreSafe, NEW a \in Admins, Changes(a) PROVE KeysAreSafe'
  <1> SUFFICES ASSUME Careful' PROVE NamedOnce' /\ (Named \subseteq stored \cup Freed)'
                 /\ (Objects \ named \subseteq stored)'
                 /\ (\A b \in Admins : req[b].at \in {"free", "release"} => req[b].trash \in named)'
                 /\ (\A b \in Admins : req[b].at = "release" => req[b].trash \notin Named)'
    BY DEF KeysAreSafe
  <1>1. UNCHANGED stored /\ named' = named \cup Named' /\ named \subseteq Objects
    BY ChangesName DEF Shape, Books
  <1>2. disturbed \subseteq disturbed'
    BY ChangesGo
  <1>3. Careful /\ Fresh(req[a]) /\ NamedOnce /\ "shared" \notin disturbed'
    BY <1>2 DEF Careful, Unraced, KeysAreSafe
  <1>4. Replaces(a) /\ \A k \in Objects : \/ NamedBy(k)' \subseteq NamedBy(k)
                                          \/ k \notin named /\ \E x : NamedBy(k)' \subseteq NamedBy(k) \cup {x}
    BY <1>3, ChangesRename DEF Renames, NewNames
  <1>5. \A k \in Objects : k \notin named => NamedBy(k) = {}
    BY NamedMeansColumn DEF Known
  <1>6. NamedOnce'
    <2> SUFFICES ASSUME NEW k \in Objects PROVE \A x, y \in NamedBy(k)' : x = y
      BY DEF NamedOnce
    <2>1. \A x, y \in NamedBy(k) : x = y
      BY <1>3 DEF NamedOnce
    <2> QED
      BY <1>4, <1>5, <2>1
  <1>7. \A b \in Admins \ {a} : req'[b] = req[b]
    BY OthersGoOn
  <1>8. req'[a].at \notin {"free"}
    BY ChangesGo, NextRequest DEF Done
  <1>9. Named' \subseteq stored \cup Freed'
    <2> SUFFICES ASSUME NEW k \in Named', k \notin stored PROVE k \in Freed'
      OBVIOUS
    <2>1. k \in Objects /\ k \in named
      BY <1>3 DEF KeysAreSafe, Named
    <2>2. NamedBy(k)' \subseteq NamedBy(k)
      BY <1>4, <2>1
    <2>3. k \in Named
      BY <2>1, <2>2, NamedMeansColumn
    <2>4. PICK b \in Admins : Freeing(req[b]) /\ req[b].trash = k
      BY <1>3, <2>3 DEF KeysAreSafe, Freed
    <2>5. b # a
      BY <1>3, <1>4, <2>4 DEF Replaces
    <2>6. req'[b] = req[b]
      BY <1>7, <2>5
    <2> QED
      BY <2>4, <2>6 DEF Freed
  <1>10. ASSUME NEW b \in Admins, req'[b].at \in {"free", "release"}
         PROVE  req'[b].trash \in named' /\ (req'[b].at = "release" => req'[b].trash \notin Named')
    <2>1. CASE b = a
      BY <1>1, <1>3, <1>4, <1>8, <1>10, <2>1 DEF Replaces, Known
    <2>2. CASE b # a
      <3>1. req'[b] = req[b] /\ req[b].trash \in named /\ req[b].trash \in Objects
        BY <1>1, <1>3, <1>7, <1>10, <2>2 DEF KeysAreSafe
      <3>2. req[b].at = "release" => req[b].trash \notin Named
        BY <1>3 DEF KeysAreSafe
      <3>3. NamedBy(req[b].trash)' \subseteq NamedBy(req[b].trash)
        BY <1>4, <3>1
      <3>4. req[b].at = "release" => req[b].trash \notin Named'
        BY <3>1, <3>2, <3>3, NamedMeansColumn
      <3> QED
        BY <1>1, <3>1, <3>4
    <2> QED
      BY <2>1, <2>2
  <1> QED
    BY <1>1, <1>3, <1>6, <1>9, <1>10 DEF KeysAreSafe

LEMMA StepsKeepKeysSafe ==
  ASSUME Shape, Unraced, Known, KeysAreSafe, [Next]_vars PROVE KeysAreSafe'
  <1>1. CASE UNCHANGED vars
    <2>1. UNCHANGED <<stored, named, req, disturbed>> /\ Named' = Named /\ \A k : NamedBy(k)' = NamedBy(k)
      BY <1>1, SameRowsSameNames DEF vars, content
    <2> QED
      BY <2>1 DEF KeysAreSafe, Careful, NamedOnce, Freed
  <1>2. CASE Next
    BY <1>2, NextIsAStep, OpensKeepsKeysSafe, GoesOnKeepsKeysSafe, ChangesKeepsKeysSafe
  <1> QED
    BY <1>1, <1>2

LEMMA InitIsSafe == ASSUME Init PROVE Known /\ KeysAreSafe
  <1>1. Named \subseteq Objects /\ \A a \in Admins : req[a].at = "idle"
    BY DEF Init, Named, Idle
  <1> QED
    BY <1>1 DEF Init, Known, KeysAreSafe

(* The image or file that a row names is in the bucket, but while an update   *)
(* that removed it is about to name another: the order of deleteRawFile and   *)
(* the writes of topics and courses, of quizzes and of requirements, whatever *)
(* the rows, the keys and the number of requests.                             *)
THEOREM NamedObjectsStay == Spec => []NamedObjectsAreStored
  <1> DEFINE Inv == Shape /\ Unraced /\ Known /\ KeysAreSafe
  <1>1. Init => Inv
    BY InitIsShaped, InitIsQuiet, InitIsSafe
  <1>2. Inv /\ [Next]_vars => Inv'
    BY StepsKeepShape, StepsKeepUnraced, StepsKeepKnown, StepsKeepKeysSafe
  <1>3. Inv => NamedObjectsAreStored
    BY DEF KeysAreSafe, Careful, NamedObjectsAreStored, Freed, Freeing, Is, Pending
  <1> QED
    BY <1>1, <1>2, <1>3, PTL DEF Spec

-----------------------------------------------------------------------------
(* What no row names any more is removed                                   *)

LEMMA OpensKeepsKeysRemoved ==
  ASSUME Shape, KeysAreRemoved, NEW a \in Admins, Opens(a) PROVE KeysAreRemoved'
  <1> PICK r \in Requests : Begin(a, r) /\ Starts(r)
    BY OpensStarts
  <1>1. /\ UNCHANGED <<content, stored, named>> /\ disturbed \subseteq disturbed'
        /\ req[a].at = "idle" /\ req'[a] = r /\ \A b \in Admins \ {a} : req'[b] = req[b]
    BY NextRequest DEF Begin, MayBegin, Go, Shape, Requested
  <1>2. Named' = Named
    BY <1>1, SameRowsSameNames DEF content
  <1> SUFFICES ASSUME Tidy'
               PROVE  /\ \A k \in (named' \cap stored') \ Named' :
                            \E b \in Admins : req'[b].at = "release" /\ req'[b].trash = k
                      /\ \A b \in Admins : req'[b].at \in {"order", "decide", "write"} =>
                            req'[b].trash \notin stored'
    BY DEF KeysAreRemoved
  <1>3. Tidy
    BY <1>1 DEF Tidy
  <1>4. r.at \in {"order", "decide", "write"} => r.trash \notin stored
    BY NothingIsAName DEF Starts, Shape, Books
  <1> QED
    BY <1>1, <1>2, <1>3, <1>4 DEF KeysAreRemoved

LEMMA GoesOnKeepsKeysRemoved ==
  ASSUME Shape, KeysAreRemoved, NEW a \in Admins, GoesOn(a) PROVE KeysAreRemoved'
  <1> SUFFICES ASSUME Tidy'
               PROVE  /\ \A k \in (named' \cap stored') \ Named' :
                            \E b \in Admins : req'[b].at = "release" /\ req'[b].trash = k
                      /\ \A b \in Admins : req'[b].at \in {"order", "decide", "write"} =>
                            req'[b].trash \notin stored'
    BY DEF KeysAreRemoved
  <1>1. UNCHANGED <<content, named>> /\ disturbed \subseteq disturbed'
    BY GoesOnContinues
  <1>2. Named' = Named
    BY <1>1, SameRowsSameNames DEF content
  <1>3. Tidy /\ "failure" \notin disturbed'
    BY <1>1 DEF Tidy
  <1>4. /\ stored' = stored \ (IF req[a].at \in {"free", "release"} THEN {req[a].trash} ELSE {})
        /\ req'[a].at \in {"order", "decide", "write"} =>
              req[a].at \in {"free", "order", "decide"} /\ req'[a].trash = req[a].trash
        /\ \A b \in Admins \ {a} : req'[b] = req[b]
    BY <1>3, GoesOnRemoves
  <1>5. ASSUME NEW k \in (named' \cap stored') \ Named'
        PROVE  \E b \in Admins : req'[b].at = "release" /\ req'[b].trash = k
    <2>1. k \in (named \cap stored) \ Named
      BY <1>1, <1>2, <1>4, <1>5
    <2>2. PICK b \in Admins : req[b].at = "release" /\ req[b].trash = k
      BY <1>3, <2>1 DEF KeysAreRemoved
    <2>3. b # a
      BY <1>4, <1>5, <2>2
    <2> QED
      BY <1>4, <2>2, <2>3
  <1>6. ASSUME NEW b \in Admins, req'[b].at \in {"order", "decide", "write"}
        PROVE  req'[b].trash \notin stored'
    <2>1. CASE b = a
      BY <1>3, <1>4, <1>6, <2>1 DEF KeysAreRemoved
    <2>2. CASE b # a
      BY <1>3, <1>4, <1>6, <2>2 DEF KeysAreRemoved
    <2> QED
      BY <2>1, <2>2
  <1> QED
    BY <1>5, <1>6

LEMMA ChangesKeepsKeysRemoved ==
  ASSUME Shape, Unraced, Known, KeysAreRemoved, NEW a \in Admins, Changes(a) PROVE KeysAreRemoved'
  <1> SUFFICES ASSUME Tidy'
               PROVE  /\ \A k \in (named' \cap stored') \ Named' :
                            \E b \in Admins : req'[b].at = "release" /\ req'[b].trash = k
                      /\ \A b \in Admins : req'[b].at \in {"order", "decide", "write"} =>
                            req'[b].trash \notin stored'
    BY DEF KeysAreRemoved
  <1>1. UNCHANGED stored /\ named' = named \cup Named'
    BY ChangesName
  <1>2. disturbed \subseteq disturbed' /\ req[a].at \in Pending /\ Done(req'[a])
    BY ChangesGo, NextRequest
  <1>3. Tidy /\ Fresh(req[a]) /\ disturbed' \cap {"cascade", "cleared"} = {}
    BY <1>2 DEF Tidy, Unraced
  <1>4. Replaces(a)
    BY <1>3, ChangesRename DEF Renames
  <1>5. \A b \in Admins \ {a} : req'[b] = req[b]
    BY OthersGoOn
  <1>6. ASSUME NEW k \in (named' \cap stored') \ Named'
        PROVE  \E b \in Admins : req'[b].at = "release" /\ req'[b].trash = k
    <2>1. k \in named /\ k \in stored
      BY <1>1, <1>6
    <2>2. CASE k \in Named
      <3>1. req[a].at = "write" => req[a].trash # k
        BY <1>3, <2>1 DEF KeysAreRemoved
      <3> QED
        BY <1>3, <1>4, <1>6, <2>2, <3>1 DEF Replaces
    <2>3. CASE k \notin Named
      <3>1. PICK b \in Admins : req[b].at = "release" /\ req[b].trash = k
        BY <1>3, <2>1, <2>3 DEF KeysAreRemoved
      <3>2. b # a
        BY <1>2, <3>1 DEF Pending
      <3> QED
        BY <1>5, <3>1, <3>2
    <2> QED
      BY <2>2, <2>3
  <1>7. ASSUME NEW b \in Admins, req'[b].at \in {"order", "decide", "write"}
        PROVE  req'[b].trash \notin stored'
    BY <1>1, <1>2, <1>3, <1>5, <1>7 DEF KeysAreRemoved, Done
  <1> QED
    BY <1>6, <1>7

LEMMA StepsKeepKeysRemoved ==
  ASSUME Shape, Unraced, Known, KeysAreRemoved, [Next]_vars PROVE KeysAreRemoved'
  <1>1. CASE UNCHANGED vars
    <2>1. UNCHANGED <<stored, named, req, disturbed>> /\ Named' = Named
      BY <1>1, SameRowsSameNames DEF vars, content
    <2> QED
      BY <2>1 DEF KeysAreRemoved, Tidy
  <1>2. CASE Next
    BY <1>2, NextIsAStep, OpensKeepsKeysRemoved, GoesOnKeepsKeysRemoved, ChangesKeepsKeysRemoved
  <1> QED
    BY <1>1, <1>2

(* An object that rows have stopped naming does not stay in the bucket once   *)
(* the requests are done: every update and deletion removes exactly what its  *)
(* write replaces, before it or after it, unless a removal fails or rows go   *)
(* in a cascade.                                                              *)
THEOREM ReplacedObjectsGo == Spec => []NothingIsLeftBehind
  <1> DEFINE Inv == Shape /\ Unraced /\ Known /\ KeysAreRemoved
  <1>1. Init => Inv
    <2>1. ASSUME Init PROVE KeysAreRemoved
      BY <2>1 DEF Init, KeysAreRemoved, Idle
    <2> QED
      BY <2>1, InitIsShaped, InitIsQuiet, InitIsSafe
  <1>2. Inv /\ [Next]_vars => Inv'
    BY StepsKeepShape, StepsKeepUnraced, StepsKeepKnown, StepsKeepKeysRemoved
  <1>3. Inv => NothingIsLeftBehind
    BY DEF KeysAreRemoved, Tidy, NothingIsLeftBehind, Quiet, Idle
  <1> QED
    BY <1>1, <1>2, <1>3, PTL DEF Spec

-----------------------------------------------------------------------------
(* Writes and the learners' progress                                       *)

\* A write leaves what the progress of a course is computed from, brings the
\* progress along, or leaves its request to evaluate the course.
Follows(a, c) ==
    courses'[c].exists =>
        \/ courses[c].exists /\ View(c)' = View(c) /\ evaluated'[c] = evaluated[c]
        \/ evaluated'[c] = View(c)'
        \/ req'[a].at \in {"release", "evaluate"} /\ c \in req'[a].courses

LEMMA ViewStays ==
  ASSUME NEW a \in Admins, NEW c \in Courses,
         courses'[c].exists = courses[c].exists,
         courses'[c].topicWeight = courses[c].topicWeight,
         courses'[c].projectWeight = courses[c].projectWeight,
         \A l \in links \cup links' : l.course = c => l \in links \cap links',
         evaluated' = evaluated
  PROVE  Follows(a, c)
  <1>1. LinksOf(c)' = LinksOf(c)
    BY DEF LinksOf
  <1>2. View(c)' = View(c)
    BY <1>1 DEF View
  <1> QED
    BY <1>2 DEF Follows

LEMMA SameCoursesFollow ==
  ASSUME UNCHANGED <<courses, links, evaluated>>, NEW a \in Admins, NEW c \in Courses
  PROVE  Follows(a, c)
  BY ViewStays

LEMMA RefuseFollows ==
  ASSUME NEW a \in Admins, NEW byIndex, Refuse(a, byIndex), NEW c \in Courses PROVE Follows(a, c)
  BY SameCoursesFollow DEF Refuse, content

\* The request goes on to evaluate courses.
LEMMA EvaluationFollows ==
  ASSUME Shape, NEW a \in Admins, NEW trash, NEW cs, Go(a, Rest(req[a], trash, cs)), NEW c \in cs
  PROVE  Follows(a, c)
  <1>1. req'[a] = Rest(req[a], trash, cs) /\ req[a] \in Requests
    BY NextRequest DEF Shape, Requested
  <1>2. req'[a].at \in {"release", "evaluate"} /\ c \in req'[a].courses
    BY <1>1, RestIs
  <1> QED
    BY <1>2 DEF Follows

LEMMA WriteTopicFollows ==
  ASSUME Shape, NEW a \in Admins, WriteTopic(a), NEW c \in Courses PROVE Follows(a, c)
  <1>1. ASSUME NEW x, NEW t, UNCHANGED <<courses, evaluated>>, Go(a, Rest(req[a], None, {x})),
               links' = links \cup {[course |-> x, topic |-> t, order |-> req[a].seen + 1, no |-> changes]}
        PROVE  Follows(a, c)
    <2>1. CASE c = x
      BY <1>1, <2>1, EvaluationFollows
    <2>2. CASE c # x
      BY <1>1, <2>2, ViewStays
    <2> QED
      BY <2>1, <2>2
  <1> QED
    BY <1>1, RefuseFollows DEF WriteTopic

LEMMA WriteTopicDeletionFollows ==
  ASSUME Shape, NEW a \in Admins, Settled(req[a]), WriteTopicDeletion(a), NEW c \in Courses
  PROVE  Follows(a, c)
  <1> DEFINE r == req[a]
  <1>1. r.op = "deleteTopic" /\ r.at = "write" /\ CoursesOf(r.row) \subseteq r.courses
    BY DEF WriteTopicDeletion, At, Settled, Is
  <1>2. CASE /\ links' = {l \in links : l.topic # r.row} /\ Go(a, Rest(r, r.seen.image, r.courses))
             /\ UNCHANGED <<courses, evaluated>>
    <2>1. CASE c \in r.courses
      BY <1>2, <2>1, EvaluationFollows
    <2>2. CASE c \notin r.courses
      <3>1. \A l \in links : l.course = c => l.topic # r.row
        BY <1>1, <2>2 DEF CoursesOf
      <3> QED
        BY <1>2, <3>1, ViewStays
    <2> QED
      BY <2>1, <2>2
  <1> QED
    BY <1>2, RefuseFollows DEF WriteTopicDeletion

LEMMA WriteCourseFollows ==
  ASSUME Shape, NEW a \in Admins, WriteCourse(a), NEW c \in Courses PROVE Follows(a, c)
  <1> DEFINE x == req[a].row
             new == NewCourse(req[a].put, NoCourse)
  <1>1. x \in Courses
    BY DEF WriteCourse, At, Shape, Requested, Carried, CourseNew, Is
  <1>2. /\ ~courses[x].exists /\ courses' = [courses EXCEPT ![x] = new] /\ links' = links
        /\ evaluated' = [evaluated EXCEPT ![x] =
              [topics |-> {}, weights |-> <<new.topicWeight, new.projectWeight>>]]
    BY DEF WriteCourse
  <1> HIDE DEF new
  <1>3. CASE c = x
    <2>1. courses'[c] = new
      BY <1>1, <1>2, <1>3 DEF Shape, Tables
    <2>2. LinksOf(c)' = {}
      BY <1>2, <1>3 DEF LinksOf, Shape, Linked
    <2>3. {l.topic : l \in LinksOf(c)'} = {}
      BY <2>2
    <2>4. View(c)' = [topics |-> {}, weights |-> <<new.topicWeight, new.projectWeight>>]
      BY <2>1, <2>3 DEF View
    <2>5. evaluated'[c] = [topics |-> {}, weights |-> <<new.topicWeight, new.projectWeight>>]
      BY <1>1, <1>2, <1>3 DEF Shape, Books
    <2> QED
      BY <2>4, <2>5 DEF Follows
  <1>4. CASE c # x
    <2>1. courses'[c] = courses[c] /\ evaluated'[c] = evaluated[c]
      BY <1>2, <1>4 DEF Shape, Tables, Books
    <2>2. View(c)' = View(c)
      BY <1>2, <2>1 DEF View, LinksOf
    <2> QED
      BY <2>1, <2>2 DEF Follows
  <1> QED
    BY <1>3, <1>4

\* Weights that an update does not notice stay, or go back to their defaults.
LEMMA UnnoticedWeightsStay ==
  ASSUME NEW put \in CourseInputs, NEW now \in CourseRows,
         now.topicWeight + now.projectWeight = 100,
         WeightsAccepted(put, Set(put.project, now.project)), ~Noticed(put, now),
         \/ put.project = Keep
         \/ Keep \notin {put.topicWeight, put.projectWeight}
         \/ NewCourse(put, now).topicWeight = now.topicWeight
  PROVE  /\ NewCourse(put, now).topicWeight = now.topicWeight
         /\ NewCourse(put, now).projectWeight = now.projectWeight
  <1> DEFINE default == IF put.project = Keep THEN <<now.topicWeight, now.projectWeight>>
                        ELSE IF put.project THEN <<50, 50>> ELSE <<100, 0>>
  <1>1. /\ NewCourse(put, now).topicWeight = Set(put.topicWeight, default[1])
        /\ NewCourse(put, now).projectWeight = Set(put.projectWeight, default[2])
    BY DEF NewCourse, CourseRows
  <1>2. /\ put.topicWeight \in {Keep, now.topicWeight}
        /\ put.projectWeight \in {Keep, now.projectWeight}
    BY DEF Noticed
  <1>3. put.topicWeight = Keep <=> put.projectWeight = Keep
    BY DEF WeightsAccepted
  <1>4. now.topicWeight \in Int /\ now.projectWeight \in Int
    BY DEF CourseRows
  <1>5. CASE put.topicWeight # Keep
    BY <1>1, <1>2, <1>3, <1>5 DEF Set
  <1>6. CASE put.topicWeight = Keep /\ put.project = Keep
    BY <1>1, <1>3, <1>6 DEF Set
  <1>7. CASE put.topicWeight = Keep /\ put.project # Keep
    <2>1. default[1] \in Int /\ default[2] \in Int /\ default[1] + default[2] = 100
      BY <1>7
    <2>2. Set(put.topicWeight, default[1]) = default[1] /\ Set(put.projectWeight, default[2]) = default[2]
      BY <1>3, <1>7 DEF Set
    <2>3. default[1] = now.topicWeight
      BY <1>1, <1>7, <2>2
    <2> HIDE DEF default
    <2>4. default[2] = now.projectWeight
      BY <1>4, <2>1, <2>3
    <2> QED
      BY <1>1, <2>2, <2>3, <2>4
  <1> QED
    BY <1>5, <1>6, <1>7

LEMMA WriteCourseUpdateFollows ==
  ASSUME Shape, Weights, "reset" \notin disturbed', NEW a \in Admins, Fresh(req[a]), WriteCourseUpdate(a),
         NEW c \in Courses
  PROVE  Follows(a, c)
  <1> DEFINE r == req[a]
             x == r.row
             now == courses[x]
             new == NewCourse(r.put, now)
             cs == IF Noticed(r.put, r.seen) THEN {x} ELSE {}
  <1>1. r.op = "updateCourse" /\ r.at = "write" /\ CoursePut(r)
    BY DEF WriteCourseUpdate, At, Shape, Requested, Carried
  <1>2. /\ x \in Courses /\ r.put \in CourseInputs /\ now \in CourseRows /\ now = r.seen /\ now.exists
        /\ WeightsAccepted(r.put, Set(r.put.project, r.seen.project))
    BY <1>1 DEF CoursePut, Is, Fresh, Shape, Tables
  <1>3. CASE /\ courses' = [courses EXCEPT ![x] = new] /\ Go(a, Rest(r, None, cs))
             /\ UNCHANGED <<links, evaluated>>
             /\ \E excuses : /\ Commit(a, excuses)
                             /\ \/ ~(/\ r.put.project # Keep
                                     /\ Keep \in {r.put.topicWeight, r.put.projectWeight}
                                     /\ cs = {} /\ new.topicWeight # now.topicWeight)
                                \/ "reset" \in excuses
    <2>1. \A y \in Courses : courses'[y] = IF y = x THEN new ELSE courses[y]
      BY <1>2, <1>3 DEF Shape, Tables
    <2>2. CASE c # x
      BY <1>3, <2>1, <2>2, ViewStays
    <2>3. CASE c = x /\ Noticed(r.put, r.seen)
      BY <1>3, <2>3, EvaluationFollows
    <2>4. CASE c = x /\ ~Noticed(r.put, r.seen)
      <3>1. \/ r.put.project = Keep
            \/ Keep \notin {r.put.topicWeight, r.put.projectWeight}
            \/ new.topicWeight = now.topicWeight
        BY <1>3, <2>4 DEF Commit
      <3>2. now.topicWeight + now.projectWeight = 100
        BY <1>2 DEF Weights
      <3>3. new.topicWeight = now.topicWeight /\ new.projectWeight = now.projectWeight
        BY <1>2, <2>4, <3>1, <3>2, UnnoticedWeightsStay
      <3>4. new.exists
        BY <1>2, NewCourseIsCourse
      <3> HIDE DEF new
      <3>5. /\ courses'[c].exists = courses[c].exists
            /\ courses'[c].topicWeight = courses[c].topicWeight
            /\ courses'[c].projectWeight = courses[c].projectWeight
        BY <1>2, <2>1, <2>4, <3>3, <3>4
      <3>6. links' = links /\ evaluated' = evaluated
        BY <1>3
      <3> QED
        BY <3>5, <3>6, ViewStays
    <2> QED
      BY <2>2, <2>3, <2>4
  <1>4. ASSUME ~(\E byIndex : Refuse(a, byIndex))
        PROVE  /\ courses' = [courses EXCEPT ![x] = new] /\ Go(a, Rest(r, None, cs))
               /\ UNCHANGED <<links, evaluated>>
               /\ Commit(a, (IF r.put.image = None /\ now.image # None THEN {"cleared"} ELSE {})
                             \cup (IF /\ r.put.project # Keep
                                      /\ Keep \in {r.put.topicWeight, r.put.projectWeight}
                                      /\ cs = {} /\ new.topicWeight # now.topicWeight
                                   THEN {"reset"} ELSE {}))
    BY <1>4 DEF WriteCourseUpdate
  <1>5. CASE ~(\E byIndex : Refuse(a, byIndex))
    BY <1>3, <1>4, <1>5
  <1> QED
    BY <1>5, RefuseFollows

LEMMA WriteCourseDeletionFollows ==
  ASSUME Shape, NEW a \in Admins, WriteCourseDeletion(a), NEW c \in Courses PROVE Follows(a, c)
  <1> DEFINE x == req[a].row
  <1>1. CASE courses' = [courses EXCEPT ![x] = NoCourse] /\ links' = links \ LinksOf(x) /\ evaluated' = evaluated
    <2>1. CASE c = x
      BY <1>1, <2>1 DEF Follows, NoCourse, Shape, Tables
    <2>2. CASE c # x
      <3>1. courses'[c] = courses[c]
        BY <1>1, <2>2 DEF Shape, Tables
      <3>2. \A l \in links \cup links' : l.course = c => l \in links \cap links'
        BY <1>1, <2>2 DEF LinksOf
      <3> QED
        BY <1>1, <3>1, <3>2, ViewStays
    <2> QED
      BY <2>1, <2>2
  <1> QED
    BY <1>1, RefuseFollows DEF WriteCourseDeletion

LEMMA AttachFollows ==
  ASSUME Shape, NEW a \in Admins, Attach(a), NEW c \in Courses PROVE Follows(a, c)
  <1> DEFINE r == req[a]
             new == {[course |-> r.row, topic |-> r.put[i], order |-> i, no |-> changes] : i \in DOMAIN r.put}
  <1>1. r.op = "updateCourseTopics" /\ r.at = "write" /\ ListPut(r)
    BY DEF Attach, At, Shape, Requested, Carried
  <1>2. \A l \in r.seen \cup new : l.course = r.row
    BY <1>1 DEF ListPut, Is
  <1>3. CASE /\ links' = (links \ r.seen) \cup new /\ Go(a, Rest(r, None, {r.row}))
             /\ UNCHANGED <<courses, evaluated>>
    <2> HIDE DEF new
    <2>1. CASE c = r.row
      BY <1>3, <2>1, EvaluationFollows
    <2>2. CASE c # r.row
      <3>1. \A l \in links \cup links' : l.course = c => l \in links \cap links'
        BY <1>2, <1>3, <2>2
      <3> QED
        BY <1>3, <3>1, ViewStays
    <2> QED
      BY <2>1, <2>2
  <1> QED
    BY <1>3, RefuseFollows DEF Attach

LEMMA WriteRequirementFollows ==
  ASSUME Shape, NEW a \in Admins, WriteRequirement(a), NEW c \in Courses PROVE Follows(a, c)
  <1> DEFINE x == req[a].row
  <1>1. ASSUME NEW brief, courses' = [courses EXCEPT ![x].required = TRUE, ![x].brief = brief],
               UNCHANGED <<links, evaluated>>
        PROVE  Follows(a, c)
    <2>1. /\ courses'[c].exists = courses[c].exists
          /\ courses'[c].topicWeight = courses[c].topicWeight
          /\ courses'[c].projectWeight = courses[c].projectWeight
      BY <1>1 DEF Shape, Tables, CourseRows
    <2> QED
      BY <1>1, <2>1, ViewStays
  <1>2. ASSUME ~(\E byIndex : Refuse(a, byIndex))
        PROVE  \E brief : /\ courses' = [courses EXCEPT ![x].required = TRUE, ![x].brief = brief]
                          /\ UNCHANGED <<links, evaluated>>
    BY <1>2 DEF WriteRequirement
  <1> QED
    BY <1>1, <1>2, RefuseFollows

LEMMA EnableProjectFollows ==
  ASSUME Shape, NEW a \in Admins, EnableProject(a), NEW c \in Courses PROVE Follows(a, c)
  <1> DEFINE x == req[a].row
  <1>1. CASE /\ courses' = [courses EXCEPT ![x].project = TRUE, ![x].topicWeight = 50, ![x].projectWeight = 50]
             /\ Go(a, Rest(req[a], None, {x})) /\ UNCHANGED <<links, evaluated>>
    <2>1. CASE c = x
      BY <1>1, <2>1, EvaluationFollows
    <2>2. CASE c # x
      <3>1. courses'[c] = courses[c]
        BY <1>1, <2>2 DEF Shape, Tables
      <3> QED
        BY <1>1, <3>1, ViewStays
    <2> QED
      BY <2>1, <2>2
  <1> QED
    BY <1>1, RefuseFollows DEF EnableProject

LEMMA ChangesFollow ==
  ASSUME Shape, Weights, "reset" \notin disturbed', NEW a \in Admins, Fresh(req[a]), Settled(req[a]), Changes(a),
         NEW c \in Courses
  PROVE  Follows(a, c)
  <1>1. CASE WriteQuizzes(a) \/ WriteQuiz(a) \/ WriteQuizDeletion(a) \/ WriteTopicUpdate(a)
    BY <1>1, SameCoursesFollow, RefuseFollows DEF WriteQuizzes, WriteQuiz, WriteQuizDeletion, WriteTopicUpdate
  <1> QED
    BY <1>1, WriteTopicFollows, WriteTopicDeletionFollows, WriteCourseFollows, WriteCourseUpdateFollows,
       WriteCourseDeletionFollows, AttachFollows, WriteRequirementFollows, EnableProjectFollows DEF Changes

\* What becomes of a request's evaluations when it goes on.
LEMMA GoesOnEvaluates ==
  ASSUME Shape, NEW a \in Admins, GoesOn(a), "failure" \notin disturbed', NEW c \in Courses
  PROVE  /\ evaluated'[c] \in {evaluated[c], View(c)}
         /\ req[a].at \in {"release", "evaluate"} /\ c \in req[a].courses =>
               \/ evaluated'[c] = View(c)
               \/ req'[a].at = "evaluate" /\ c \in req'[a].courses
  <1> DEFINE r == req[a]
  <1>1. r \in Requests /\ Carried(r)
    BY DEF Shape, Requested
  <1>2. ~Fail(a)
    BY DEF Fail
  <1>3. CASE OrderTopic(a) \/ DecideCourse(a) \/ Detach(a)
    BY <1>3 DEF OrderTopic, DecideCourse, Detach, At, SameTables
  <1>4. CASE Evaluate(a)
    <2>1. evaluated'[c] = IF c \in r.courses THEN View(c) ELSE evaluated[c]
      BY <1>4 DEF Evaluate
    <2> QED
      BY <1>4, <2>1 DEF Evaluate
  <1>5. CASE Remove(a)
    <2>1. evaluated' = evaluated
      BY <1>5 DEF Remove
    <2>2. CASE r.at = "free"
      BY <2>1, <2>2
    <2>3. CASE r.at = "release" /\ r.op = "upsertRequirement"
      <3>1. r.courses = {}
        BY <1>1, <2>3 DEF Carried, BriefPut, Is
      <3> QED
        BY <2>1, <2>3, <3>1
    <2>4. CASE r.at = "release" /\ r.op # "upsertRequirement"
      <3>1. req'[a] = Rest(r, None, r.courses)
        BY <1>5, <2>4, NextRequest DEF Remove
      <3>2. c \in r.courses => req'[a].at = "evaluate" /\ c \in req'[a].courses
        BY <1>1, <3>1, RestIs
      <3> QED
        BY <2>1, <2>4, <3>2
    <2> QED
      BY <1>5, <2>2, <2>3, <2>4 DEF Remove
  <1> QED
    BY <1>2, <1>3, <1>4, <1>5 DEF GoesOn

LEMMA SameContentSameView ==
  ASSUME UNCHANGED content, NEW c \in Courses
  PROVE  View(c)' = View(c) /\ courses'[c].exists = courses[c].exists
  BY DEF content, View, LinksOf

LEMMA StepsKeepProgress ==
  ASSUME Shape, Unraced, Uncrowded, Checked, ProgressIsDue, [Next]_vars PROVE ProgressIsDue'
  <1> SUFFICES ASSUME Calm', NEW c \in Courses, courses'[c].exists
               PROVE  \/ evaluated'[c] = View(c)'
                      \/ \E a \in Admins : req'[a].at \in {"release", "evaluate"} /\ c \in req'[a].courses
    BY DEF ProgressIsDue
  <1>1. CASE UNCHANGED vars
    <2>1. UNCHANGED <<content, evaluated, req, disturbed>>
      BY <1>1 DEF vars
    <2> QED
      BY <2>1, SameContentSameView DEF ProgressIsDue, Calm
  <1>2. CASE Next
    <2> PICK a \in Admins : Opens(a) \/ GoesOn(a) \/ Changes(a)
      BY <1>2, NextIsAStep
    <2>1. CASE Opens(a)
      <3> PICK r \in Requests : Begin(a, r) /\ Starts(r)
        BY <2>1, OpensStarts
      <3>1. /\ UNCHANGED <<content, evaluated>> /\ disturbed \subseteq disturbed'
            /\ req[a].at = "idle" /\ \A b \in Admins \ {a} : req'[b] = req[b]
        BY DEF Begin, MayBegin, Go, Shape, Requested
      <3>2. Calm
        BY <3>1 DEF Calm
      <3>3. \/ evaluated[c] = View(c)
            \/ \E b \in Admins : req[b].at \in {"release", "evaluate"} /\ c \in req[b].courses
        BY <3>1, <3>2, SameContentSameView DEF ProgressIsDue
      <3> QED
        BY <3>1, <3>3, SameContentSameView
    <2>2. CASE GoesOn(a)
      <3>1. UNCHANGED content /\ disturbed \subseteq disturbed' /\ \A b \in Admins \ {a} : req'[b] = req[b]
        BY <2>2, GoesOnContinues DEF Continues, Go, Shape, Requested
      <3>2. Calm /\ "failure" \notin disturbed'
        BY <3>1 DEF Calm
      <3>3. /\ evaluated'[c] \in {evaluated[c], View(c)}
            /\ req[a].at \in {"release", "evaluate"} /\ c \in req[a].courses =>
                  \/ evaluated'[c] = View(c)
                  \/ req'[a].at = "evaluate" /\ c \in req'[a].courses
        BY <2>2, <3>2, GoesOnEvaluates
      <3>4. \/ evaluated[c] = View(c)
            \/ \E b \in Admins : req[b].at \in {"release", "evaluate"} /\ c \in req[b].courses
        BY <3>1, <3>2, SameContentSameView DEF ProgressIsDue
      <3> QED
        BY <3>1, <3>3, <3>4, SameContentSameView
    <2>3. CASE Changes(a)
      <3>1. disturbed \subseteq disturbed' /\ req[a].at \in Pending
        BY <2>3, ChangesGo
      <3>2. Calm /\ Weights /\ Fresh(req[a]) /\ Settled(req[a]) /\ "reset" \notin disturbed'
        BY <3>1 DEF Calm, Checked, Unraced, Uncrowded
      <3>3. Follows(a, c)
        BY <2>3, <3>2, ChangesFollow
      <3>4. CASE courses[c].exists /\ View(c)' = View(c) /\ evaluated'[c] = evaluated[c]
        <4>1. CASE evaluated[c] = View(c)
          BY <3>4, <4>1
        <4>2. CASE \E b \in Admins : req[b].at \in {"release", "evaluate"} /\ c \in req[b].courses
          <5> PICK b \in Admins : req[b].at \in {"release", "evaluate"} /\ c \in req[b].courses
            BY <4>2
          <5>1. b # a
            BY <3>1 DEF Pending
          <5> QED
            BY <2>3, <5>1, OthersGoOn
        <4> QED
          BY <3>2, <3>4, <4>1, <4>2 DEF ProgressIsDue
      <3> QED
        BY <3>3, <3>4 DEF Follows
    <2> QED
      BY <2>1, <2>2, <2>3
  <1> QED
    BY <1>1, <1>2

(* Once requests are done, the learners' progress of every course is computed *)
(* from its topics and its weights as they are: each handler evaluates every  *)
(* course whose topics or weights its write changed.                          *)
THEOREM ProgressIsKeptUp == Spec => []ProgressFollowsContent
  <1> DEFINE Inv == Shape /\ Unraced /\ Uncrowded /\ Checked /\ ProgressIsDue
  <1>1. Init => Inv
    <2>1. ASSUME Init PROVE ProgressIsDue
      BY <2>1 DEF Init, ProgressIsDue
    <2> QED
      BY <2>1, InitIsShaped, InitIsQuiet
  <1>2. Inv /\ [Next]_vars => Inv'
    BY StepsKeepShape, StepsKeepUnraced, StepsKeepUncrowded, StepsKeepChecked, StepsKeepProgress
  <1>3. Inv => ProgressFollowsContent
    BY DEF ProgressIsDue, Calm, ProgressFollowsContent, Quiet, Idle
  <1> QED
    BY <1>1, <1>2, <1>3, PTL DEF Spec

=============================================================================
