---------------------------- MODULE ContentAdmin ----------------------------
(***************************************************************************)
(* What administrators do to the content: quizzes with their codes, topics *)
(* with their windows and slugs, courses with their weights, the links     *)
(* between them, and the images and files the rows name in the bucket.     *)
(*                                                                         *)
(* Every handler checks, and writes some statements later; only the code   *)
(* of a quiz and the pair of a link have an index behind the check.  An    *)
(* image that is replaced is removed after the write of a quiz or of a     *)
(* requirement, but before the write of a topic or of a course.            *)
(***************************************************************************)
EXTENDS Integers, Sequences, FiniteSets

CONSTANTS
    Admins,     \* request slots: how many handlers may be in flight at once
    Quizzes, Topics, Courses,
    Objects,    \* keys of images and requirement files
    Slugs,
    None,       \* no key, no slug, no bound
    Keep,       \* a field the request leaves out
    Seeds,      \* databases to start from
    Batches,    \* input of createQuiz and createQuizzes
    QuizPuts, NewTopics, TopicPuts, CoursePuts, BriefPuts, TopicLists,
    MaxChanges, \* bound on requests
    MaxFailures \* bound on failures

VARIABLES
    quizzes, topics, courses, links, \* the tables
    stored,    \* the keys stored in the bucket
    evaluated, \* per course, what its learners' progress was last computed from
    req,       \* per slot, the handler in flight
    changes,   \* how many requests began; numbers the links they make
    failures,  \* how many statements failed
    named,     \* history: keys that a row has named
    refused,   \* history: an index refused codes that their handler had checked
    disturbed  \* history: what excuses a property, a set of the words below

(* What excuses a property:                                                *)
(*   "race"       two requests that write the same row overlapped          *)
(*   "crowd"      or rows of the same topic or course                      *)
(*   "failure"    a statement failed, or the process died                  *)
(*   "rejected"   weights were refused after the old image was removed     *)
(*   "shared"     a request named a key that had been named before         *)
(*   "cascade"    a deletion took rows with it that named keys             *)
(*   "cleared"    a topic or course dropped its image                      *)
(*   "attached"   a list gave a course two topics of one slug              *)
(*   "reset"      weights went back to their defaults unnoticed            *)

content == <<quizzes, topics, courses, links>>
vars == <<content, stored, evaluated, req, changes, failures, named, refused, disturbed>>

-----------------------------------------------------------------------------

Keys == Objects \cup {None}
Bounds == Int \cup {None}
QuizRows == [topic : Topics \cup {None}, code : Int, image : Keys]
TopicRows == [slug : Slugs \cup {None}, starts : Bounds, ends : Bounds, image : Keys]
CourseRows == [exists : BOOLEAN, project : BOOLEAN, topicWeight : Int, projectWeight : Int,
               image : Keys, required : BOOLEAN, brief : Keys]
LinkRows == [course : Courses, topic : Topics, order : Nat, no : Nat]

\* The fields of the DTOs.
QuizInputs == [topic : Topics, code : Int \cup {Keep}, image : Keys \cup {Keep}]
TopicInputs == [slug : Slugs \cup {Keep}, starts : Bounds \cup {Keep}, ends : Bounds \cup {Keep},
                image : Keys \cup {Keep}]
CourseInputs == [project : BOOLEAN \cup {Keep}, topicWeight : Int \cup {Keep},
                 projectWeight : Int \cup {Keep}, image : Keys \cup {Keep}]

ASSUME NothingIsAName ==
    /\ None \notin Quizzes \cup Topics \cup Courses \cup Objects \cup Slugs \cup Int
    /\ Keep \notin Objects \cup Slugs \cup Int \cup BOOLEAN \cup {None}

ASSUME RowsAreDistinct ==
    Quizzes \cap Topics = {} /\ Quizzes \cap Courses = {} /\ Topics \cap Courses = {}

\* The handler drops the duplicates of a list of topics.
ASSUME InputsAreValid ==
    /\ Batches \subseteq Seq(QuizInputs)
    /\ QuizPuts \subseteq QuizInputs
    /\ NewTopics \subseteq {t \in TopicRows : t.slug # None}
    /\ TopicPuts \subseteq TopicInputs
    /\ CoursePuts \subseteq CourseInputs
    /\ BriefPuts \subseteq Keys \cup {Keep}
    /\ TopicLists \subseteq Seq(Topics)
    /\ \A list \in TopicLists : \A i, j \in DOMAIN list : list[i] = list[j] => i = j

ASSUME BoundsAreNaturals == MaxChanges \in Nat /\ MaxFailures \in Nat

NoQuiz == [topic |-> None, code |-> 0, image |-> None]
NoTopic == [slug |-> None, starts |-> None, ends |-> None, image |-> None]
NoCourse == [exists |-> FALSE, project |-> FALSE, topicWeight |-> 100, projectWeight |-> 0,
             image |-> None, required |-> FALSE, brief |-> None]
Idle == [op |-> "none", at |-> "idle", row |-> None, around |-> {}, keys |-> {},
         put |-> None, seen |-> None, trash |-> None, courses |-> {}]

HasTopic(t) == topics[t] # NoTopic
LinksOf(c) == {l \in links : l.course = c}
CoursesOf(t) == {l.course : l \in {k \in links : k.topic = t}}
View(c) == [topics |-> {l.topic : l \in LinksOf(c)},
            weights |-> <<courses[c].topicWeight, courses[c].projectWeight>>]

\* The columns that name a key.
NamedBy(k) ==
    {<<"image", q>> : q \in {q \in Quizzes : quizzes[q].image = k}}
        \cup {<<"image", t>> : t \in {t \in Topics : topics[t].image = k}}
        \cup {<<"image", c>> : c \in {c \in Courses : courses[c].image = k}}
        \cup {<<"brief", c>> : c \in {c \in Courses : courses[c].brief = k}}
Named == {k \in Objects : NamedBy(k) # {}}

\* assertImageWithinMaxBytes: the key that a request names must be stored.
Verified(k) == k \in stored \cup {None, Keep}
Set(new, old) == IF new = Keep THEN old ELSE new

\* Mutant: an image that is sent again unchanged is removed.
ReplacedAnyway(old, new) == old

\* Mutant: what an update replaces stays in the bucket.
NeverReplaced(old, new) == None

\* The old key, if there was one and the new one differs.
Replaced(old, new) == IF old \notin {None, new} THEN old ELSE None

-----------------------------------------------------------------------------
(* Codes of quizzes: n stands for the code q_n, three digits or more.      *)

UsedCodes(t) == {quizzes[q].code : q \in {p \in Quizzes : quizzes[p].topic = t}}

\* Mutant: the code after the number of used ones, used or not.
CountedCode(n, used) == n = Cardinality(used) + 1

\* The codes that the loop of allocateNextQuizCode tries.
Candidates(used) == Cardinality(used) + 1 .. 2 * Cardinality(used) + 5

NextCode(n, used) ==
    n \in Candidates(used) \ used /\ \A m \in Candidates(used) \ used : n <= m

\* normalizeQuizInput: an image that is left out is none, a code is given otherwise.
Normalized(item, code) ==
    [item EXCEPT !.code = Set(item.code, code), !.image = Set(item.image, None)]

\* Codes of a batch, in its order: given and free, or allocated among the used ones.
TakenBefore(batch, code, i) ==
    UsedCodes(batch[i].topic)
        \cup {code[j] : j \in {k \in 1..i-1 : batch[k].topic = batch[i].topic}}

CodesOf(batch) ==
    LET most == 2 * (Cardinality(Quizzes) + Len(batch)) + 1
        range == (1..most \cup {batch[i].code : i \in DOMAIN batch}) \ {Keep}
    IN  {code \in [DOMAIN batch -> range] :
           \A i \in DOMAIN batch :
             IF batch[i].code = Keep THEN NextCode(code[i], TakenBefore(batch, code, i))
             ELSE code[i] = batch[i].code /\ code[i] \notin TakenBefore(batch, code, i)}

\* The unique index on (topicId, quizCode), and the foreign key.
Fits(q, new) ==
    /\ HasTopic(new.topic)
    /\ \A p \in Quizzes \ {q} : quizzes[p].topic = new.topic => quizzes[p].code # new.code

-----------------------------------------------------------------------------
(* Weights of courses.                                                     *)

\* Mutant: one weight without the other is not checked.
HalfAccepted(put, project) ==
    put.topicWeight # Keep /\ put.projectWeight # Keep =>
        IF project THEN put.topicWeight + put.projectWeight = 100
        ELSE put.topicWeight = 100 /\ put.projectWeight = 0

\* assertCourseProgressWeights: both weights or none.
WeightsAccepted(put, project) ==
    put.topicWeight # Keep \/ put.projectWeight # Keep =>
        /\ put.topicWeight # Keep
        /\ put.projectWeight # Keep
        /\ IF project THEN put.topicWeight + put.projectWeight = 100
           ELSE put.topicWeight = 100 /\ put.projectWeight = 0

\* The row an update writes: a field that is left out stays as it is now, and
\* a project without weights takes the defaults.
NewCourse(put, now) ==
    LET default == IF put.project = Keep THEN <<now.topicWeight, now.projectWeight>>
                   ELSE IF put.project THEN <<50, 50>> ELSE <<100, 0>>
    IN  [now EXCEPT !.exists = TRUE, !.project = Set(put.project, @),
                    !.topicWeight = Set(put.topicWeight, default[1]),
                    !.projectWeight = Set(put.projectWeight, default[2]),
                    !.image = Set(put.image, @)]

\* Mutant: only a switch of the project counts.
NoticedSwitch(put, old) == put.project \notin {Keep, old.project}

\* updateCourse evaluates when the project is switched or a given weight
\* differs from the row it read.
Noticed(put, old) ==
    \/ put.project \notin {Keep, old.project}
    \/ put.topicWeight \notin {Keep, old.topicWeight}
    \/ put.projectWeight \notin {Keep, old.projectWeight}

WindowOrdered(starts, ends) == starts # None /\ ends # None => starts < ends

-----------------------------------------------------------------------------
(* How a request goes on.                                                  *)

At(a, op, at) == req[a].op = op /\ req[a].at = at
Go(a, r) == req' = [req EXCEPT ![a] = r]
Stop(a) == Go(a, Idle)

\* Steps before the last write of a request.
Pending == {"free", "decide", "order", "write", "enable"}

Rows(r) == {r.row} \ {None}

\* An identifier for a new row: no request in flight knows it.
Unknown(x) == \A b \in Admins : x \notin {req[b].row} \cup req[b].around

Overlaps(a) ==
    LET rivals == {b \in Admins \ {a} : req[b].at \in Pending}
    IN  (IF \E b \in rivals : Rows(req[a]) \cap Rows(req[b]) # {} THEN {"race"} ELSE {})
          \cup (IF \E b \in rivals : (Rows(req[a]) \cup req[a].around)
                                       \cap (Rows(req[b]) \cup req[b].around) # {}
                THEN {"crowd"} ELSE {})

\* A request names a key that a row has named, and not just its own column.
Column(r) == <<IF r.op = "upsertRequirement" THEN "brief" ELSE "image", r.row>>
Sharing(r) == IF \E k \in r.keys \cap named : NamedBy(k) # {Column(r)} THEN {"shared"} ELSE {}

\* Where a handler goes after its write: it removes what the write replaced,
\* then evaluates the courses.
Rest(r, trash, cs) ==
    IF trash # None THEN [r EXCEPT !.at = "release", !.trash = trash, !.courses = cs]
    ELSE IF cs # {} THEN [r EXCEPT !.at = "evaluate", !.courses = cs]
    ELSE Idle

MayBegin(a) == req[a].at = "idle" /\ changes < MaxChanges

Begin(a, r) ==
    /\ MayBegin(a)
    /\ changes' = changes + 1
    /\ Go(a, r)
    /\ disturbed' = disturbed \cup Sharing(r)
    /\ UNCHANGED <<content, stored, evaluated, failures, named, refused>>

\* A write is committed.  Conjoined after the primed tables.
Commit(a, excuses) ==
    /\ disturbed' = disturbed \cup Overlaps(a) \cup Sharing(req[a]) \cup excuses
    /\ named' = named \cup Named'
    /\ UNCHANGED <<stored, changes, failures, refused>>

\* The database refuses a write and the handler ends with an error.
Refuse(a, byIndex) ==
    /\ Stop(a)
    /\ refused' = (refused \/ byIndex)
    /\ disturbed' = disturbed \cup Overlaps(a)
    /\ UNCHANGED <<content, stored, evaluated, changes, failures, named>>

SameTables(a) == UNCHANGED <<content, stored, evaluated, changes, failures, named, refused>>

-----------------------------------------------------------------------------
(* Quizzes                                                                 *)

\* createQuiz, and createQuizzes for a batch: the codes are given out here.
CreateQuizzes(a) ==
    /\ MayBegin(a)
    /\ \E batch \in Batches : \E code \in CodesOf(batch) :
          LET items == [i \in DOMAIN batch |-> Normalized(batch[i], code[i])]
          IN  /\ \A i \in DOMAIN batch : HasTopic(batch[i].topic) /\ Verified(batch[i].image)
              /\ Begin(a, [Idle EXCEPT !.op = "createQuizzes", !.at = "write", !.put = items,
                                       !.around = {items[i].topic : i \in DOMAIN items},
                                       !.keys = {items[i].image : i \in DOMAIN items} \ {None}])

\* One transaction inserts the rows, and all of them or none.
WriteQuizzes(a) ==
    LET items == req[a].put
        fits == \A i \in DOMAIN items :
                  /\ Fits(None, items[i])
                  /\ \A j \in 1..i-1 : items[j].topic = items[i].topic
                                         => items[j].code # items[i].code
    IN  /\ At(a, "createQuizzes", "write")
        /\ \/ /\ fits
              /\ \E id \in [DOMAIN items -> {q \in Quizzes : quizzes[q] = NoQuiz /\ Unknown(q)}] :
                   /\ \A i, j \in DOMAIN items : id[i] = id[j] => i = j
                   /\ quizzes' = [q \in Quizzes |->
                         IF \E i \in DOMAIN items : id[i] = q
                         THEN items[CHOOSE i \in DOMAIN items : id[i] = q] ELSE quizzes[q]]
              /\ Stop(a)
              /\ UNCHANGED <<topics, courses, links, evaluated>>
              /\ Commit(a, IF \E i, j \in DOMAIN items : i # j /\ items[i].image = items[j].image
                                                           /\ items[i].image # None
                           THEN {"shared"} ELSE {})
           \/ /\ ~fits
              /\ Refuse(a, \A i \in DOMAIN items : HasTopic(items[i].topic))

\* PUT semantics: an image that is left out is dropped; a code is kept.
UpdateQuiz(a) ==
    \E q \in Quizzes, put \in QuizPuts :
        LET new == Normalized(put, quizzes[q].code)
        IN  /\ quizzes[q] # NoQuiz
            /\ Fits(q, new)
            /\ Verified(new.image)
            /\ Begin(a, [Idle EXCEPT !.op = "updateQuiz", !.at = "write", !.row = q, !.put = new,
                                     !.seen = quizzes[q], !.keys = {new.image} \ {None},
                                     !.around = {quizzes[q].topic, new.topic}])

WriteQuiz(a) ==
    LET r == req[a]
        fits == quizzes[r.row] # NoQuiz /\ Fits(r.row, r.put)
    IN  /\ At(a, "updateQuiz", "write")
        /\ \/ /\ fits
              /\ quizzes' = [quizzes EXCEPT ![r.row] = r.put]
              /\ Go(a, Rest(r, Replaced(r.seen.image, r.put.image), {}))
              /\ UNCHANGED <<topics, courses, links, evaluated>>
              /\ Commit(a, {})
           \/ /\ ~fits
              /\ Refuse(a, quizzes[r.row] # NoQuiz /\ HasTopic(r.put.topic))

DeleteQuiz(a) ==
    \E q \in Quizzes :
        /\ quizzes[q] # NoQuiz
        /\ Begin(a, [Idle EXCEPT !.op = "deleteQuiz", !.at = "write", !.row = q,
                                 !.seen = quizzes[q], !.around = {quizzes[q].topic}])

WriteQuizDeletion(a) ==
    LET r == req[a]
    IN  /\ At(a, "deleteQuiz", "write")
        /\ \/ /\ quizzes[r.row] # NoQuiz
              /\ quizzes' = [quizzes EXCEPT ![r.row] = NoQuiz]
              /\ Go(a, Rest(r, r.seen.image, CoursesOf(r.seen.topic)))
              /\ UNCHANGED <<topics, courses, links, evaluated>>
              /\ Commit(a, {})
           \/ /\ quizzes[r.row] = NoQuiz
              /\ Refuse(a, FALSE)

-----------------------------------------------------------------------------
(* Topics                                                                  *)

SlugFree(c, slug, t) == \A l \in LinksOf(c) : l.topic # t => topics[l.topic].slug # slug

LastOrder(n, c) ==
    LET orders == {0} \cup {l.order : l \in LinksOf(c)}
    IN  n \in orders /\ \A m \in orders : m <= n

CreateTopic(a) ==
    \E c \in Courses, new \in NewTopics :
        /\ courses[c].exists
        /\ SlugFree(c, new.slug, None)
        /\ WindowOrdered(new.starts, new.ends)
        /\ Verified(new.image)
        /\ Begin(a, [Idle EXCEPT !.op = "createTopic", !.at = "order", !.put = new,
                                 !.around = {c}, !.courses = {c},
                                 !.keys = {new.image} \ {None}])

\* The transaction reads the last place in the course, then inserts the link.
OrderTopic(a) ==
    /\ At(a, "createTopic", "order")
    /\ \E c \in req[a].courses : \E n \in {0} \cup {l.order : l \in LinksOf(c)} :
          LastOrder(n, c) /\ Go(a, [req[a] EXCEPT !.at = "write", !.seen = n])
    /\ UNCHANGED disturbed
    /\ SameTables(a)

WriteTopic(a) ==
    LET r == req[a]
    IN  /\ At(a, "createTopic", "write")
        /\ \E c \in r.courses :
             \/ /\ courses[c].exists
                /\ \E t \in Topics :
                     /\ ~HasTopic(t) /\ Unknown(t)
                     /\ topics' = [topics EXCEPT ![t] = r.put]
                     /\ links' = links \cup {[course |-> c, topic |-> t,
                                              order |-> r.seen + 1, no |-> changes]}
                /\ Go(a, Rest(r, None, {c}))
                /\ UNCHANGED <<quizzes, courses, evaluated>>
                /\ Commit(a, {})
             \/ /\ ~courses[c].exists
                /\ Refuse(a, FALSE)

\* The window is checked against the bounds read here.
UpdateTopic(a) ==
    \E t \in Topics, put \in TopicPuts :
        LET old == topics[t]
            free == IF put.image \in {None, Keep} THEN None ELSE Replaced(old.image, put.image)
        IN  /\ HasTopic(t)
            /\ put.slug # Keep => \A c \in CoursesOf(t) : SlugFree(c, put.slug, t)
            /\ WindowOrdered(Set(put.starts, old.starts), Set(put.ends, old.ends))
            /\ Verified(put.image)
            /\ Begin(a, [Idle EXCEPT !.op = "updateTopic", !.row = t, !.put = put,
                                     !.at = IF free = None THEN "write" ELSE "free",
                                     !.seen = old, !.trash = free,
                                     !.around = IF put.slug = Keep THEN {} ELSE CoursesOf(t),
                                     !.keys = {put.image} \ {None, Keep}])

WriteTopicUpdate(a) ==
    LET r == req[a]
        now == topics[r.row]
    IN  /\ At(a, "updateTopic", "write")
        /\ \/ /\ HasTopic(r.row)
              /\ topics' = [topics EXCEPT ![r.row] =
                    [slug |-> Set(r.put.slug, now.slug), starts |-> Set(r.put.starts, now.starts),
                     ends |-> Set(r.put.ends, now.ends), image |-> Set(r.put.image, now.image)]]
              /\ Stop(a)
              /\ UNCHANGED <<quizzes, courses, links, evaluated>>
              /\ Commit(a, IF r.put.image = None /\ now.image # None THEN {"cleared"} ELSE {})
           \/ /\ ~HasTopic(r.row)
              /\ Refuse(a, FALSE)

DeleteTopic(a) ==
    \E t \in Topics :
        /\ HasTopic(t)
        /\ Begin(a, [Idle EXCEPT !.op = "deleteTopic", !.at = "write", !.row = t,
                                 !.seen = topics[t], !.courses = CoursesOf(t),
                                 !.around = CoursesOf(t)])

\* The row's quizzes and links go with it.
WriteTopicDeletion(a) ==
    LET r == req[a]
        gone == {q \in Quizzes : quizzes[q].topic = r.row}
    IN  /\ At(a, "deleteTopic", "write")
        /\ \/ /\ HasTopic(r.row)
              /\ topics' = [topics EXCEPT ![r.row] = NoTopic]
              /\ quizzes' = [q \in Quizzes |-> IF q \in gone THEN NoQuiz ELSE quizzes[q]]
              /\ links' = {l \in links : l.topic # r.row}
              /\ Go(a, Rest(r, r.seen.image, r.courses))
              /\ UNCHANGED <<courses, evaluated>>
              /\ Commit(a, IF \E q \in gone : quizzes[q].image # None THEN {"cascade"} ELSE {})
           \/ /\ ~HasTopic(r.row)
              /\ Refuse(a, FALSE)

-----------------------------------------------------------------------------
(* Courses                                                                 *)

CreateCourse(a) ==
    \E c \in Courses, put \in CoursePuts :
        LET project == put.project = TRUE
        IN  /\ ~courses[c].exists /\ Unknown(c)
            /\ WeightsAccepted(put, project)
            /\ Verified(put.image)
            /\ Begin(a, [Idle EXCEPT !.op = "createCourse", !.at = "write", !.row = c,
                                     !.put = [put EXCEPT !.project = project,
                                                         !.image = Set(@, None)],
                                     !.keys = {put.image} \ {None, Keep}])

WriteCourse(a) ==
    LET c == req[a].row
        new == NewCourse(req[a].put, NoCourse)
    IN  /\ At(a, "createCourse", "write")
        /\ ~courses[c].exists
        /\ courses' = [courses EXCEPT ![c] = new]
        /\ Stop(a)
        /\ evaluated' = [evaluated EXCEPT ![c] =
              [topics |-> {}, weights |-> <<new.topicWeight, new.projectWeight>>]]
        /\ UNCHANGED <<quizzes, topics, links>>
        /\ Commit(a, {})

UpdateCourse(a) ==
    \E c \in Courses, put \in CoursePuts :
        LET free == IF put.image \in {None, Keep} THEN None
                    ELSE Replaced(courses[c].image, put.image)
        IN  /\ courses[c].exists
            /\ Verified(put.image)
            /\ Begin(a, [Idle EXCEPT !.op = "updateCourse", !.row = c, !.put = put,
                                     !.at = IF free = None THEN "decide" ELSE "free",
                                     !.trash = free, !.keys = {put.image} \ {None, Keep}])

\* The weights are checked against the row read here, after the old image is gone.
DecideCourse(a) ==
    LET r == req[a]
        old == courses[r.row]
        accepted == /\ old.exists
                    /\ WeightsAccepted(r.put, Set(r.put.project, old.project))
    IN  /\ At(a, "updateCourse", "decide")
        /\ \/ /\ accepted
              /\ Go(a, [r EXCEPT !.at = "write", !.seen = old])
              /\ UNCHANGED disturbed
           \/ /\ ~accepted
              /\ Stop(a)
              /\ disturbed' = IF r.trash = None THEN disturbed ELSE disturbed \cup {"rejected"}
        /\ SameTables(a)

WriteCourseUpdate(a) ==
    LET r == req[a]
        c == r.row
        now == courses[c]
        new == NewCourse(r.put, now)
        cs == IF Noticed(r.put, r.seen) THEN {c} ELSE {}
    IN  /\ At(a, "updateCourse", "write")
        /\ \/ /\ now.exists
              /\ courses' = [courses EXCEPT ![c] = new]
              /\ Go(a, Rest(r, None, cs))
              /\ UNCHANGED <<quizzes, topics, links, evaluated>>
              /\ Commit(a, (IF r.put.image = None /\ now.image # None THEN {"cleared"} ELSE {})
                             \cup (IF /\ r.put.project # Keep
                                      /\ Keep \in {r.put.topicWeight, r.put.projectWeight}
                                      /\ cs = {} /\ new.topicWeight # now.topicWeight
                                   THEN {"reset"} ELSE {}))
           \/ /\ ~now.exists
              /\ Refuse(a, FALSE)

DeleteCourse(a) ==
    \E c \in Courses :
        /\ courses[c].exists
        /\ Begin(a, [Idle EXCEPT !.op = "deleteCourse", !.at = "write", !.row = c,
                                 !.seen = courses[c]])

WriteCourseDeletion(a) ==
    LET r == req[a]
    IN  /\ At(a, "deleteCourse", "write")
        /\ \/ /\ courses[r.row].exists
              /\ courses' = [courses EXCEPT ![r.row] = NoCourse]
              /\ links' = links \ LinksOf(r.row)
              /\ Go(a, Rest(r, r.seen.image, {}))
              /\ UNCHANGED <<quizzes, topics, evaluated>>
              /\ Commit(a, IF courses[r.row].brief # None THEN {"cascade"} ELSE {})
           \/ /\ ~courses[r.row].exists
              /\ Refuse(a, FALSE)

UpdateCourseTopics(a) ==
    \E c \in Courses, list \in TopicLists :
        /\ courses[c].exists
        /\ \A i \in DOMAIN list : HasTopic(list[i])
        /\ Begin(a, [Idle EXCEPT !.op = "updateCourseTopics", !.at = "order", !.row = c,
                                 !.put = list, !.courses = {c},
                                 !.around = {list[i] : i \in DOMAIN list}])

\* deleteMany removes the links its statement sees.
Detach(a) ==
    /\ At(a, "updateCourseTopics", "order")
    /\ Go(a, [req[a] EXCEPT !.at = "write", !.seen = LinksOf(req[a].row)])
    /\ UNCHANGED disturbed
    /\ SameTables(a)

\* createMany; the unique index on (courseId, topicId) may refuse it.
Attach(a) ==
    LET r == req[a]
        c == r.row
        kept == links \ r.seen
        new == {[course |-> c, topic |-> r.put[i], order |-> i, no |-> changes] :
                   i \in DOMAIN r.put}
        fits == /\ courses[c].exists
                /\ \A l \in new : HasTopic(l.topic)
                /\ \A l \in new, k \in kept : k.course = c => k.topic # l.topic
    IN  /\ At(a, "updateCourseTopics", "write")
        /\ \/ /\ fits
              /\ links' = kept \cup new
              /\ Go(a, Rest(r, None, {c}))
              /\ UNCHANGED <<quizzes, topics, courses, evaluated>>
              /\ Commit(a, IF \E l, k \in links' : /\ l.course = c /\ k.course = c
                                                   /\ l.topic # k.topic
                                                   /\ topics[l.topic].slug = topics[k.topic].slug
                           THEN {"attached"} ELSE {})
           \/ /\ ~fits
              /\ Refuse(a, FALSE)

\* A requirement's file is kept, removed or replaced.
BriefToDelete(old, put) == IF put = Keep THEN None ELSE Replaced(old, put)

\* The course may yet have no project.
UpsertRequirement(a) ==
    \E c \in Courses, brief \in BriefPuts :
        /\ courses[c].exists
        /\ Verified(brief)
        /\ Begin(a, [Idle EXCEPT !.op = "upsertRequirement", !.at = "write", !.row = c,
                                 !.put = brief, !.seen = courses[c],
                                 !.keys = {brief} \ {None, Keep}])

WriteRequirement(a) ==
    LET r == req[a]
        now == courses[r.row]
        next == Rest(r, BriefToDelete(r.seen.brief, r.put), {})
    IN  /\ At(a, "upsertRequirement", "write")
        /\ \/ /\ now.exists
              /\ courses' = [courses EXCEPT ![r.row].required = TRUE,
                                            ![r.row].brief = Set(r.put, @)]
              /\ Go(a, IF next = Idle /\ ~r.seen.project THEN [r EXCEPT !.at = "enable"] ELSE next)
              /\ UNCHANGED <<quizzes, topics, links, evaluated>>
              /\ Commit(a, {})
           \/ /\ ~now.exists
              /\ Refuse(a, FALSE)

\* A course that was read without a project gets one, half the weight each.
EnableProject(a) ==
    LET r == req[a]
    IN  /\ At(a, "upsertRequirement", "enable")
        /\ \/ /\ courses[r.row].exists
              /\ courses' = [courses EXCEPT ![r.row].project = TRUE, ![r.row].topicWeight = 50,
                                            ![r.row].projectWeight = 50]
              /\ Go(a, Rest(r, None, {r.row}))
              /\ UNCHANGED <<quizzes, topics, links, evaluated>>
              /\ Commit(a, {})
           \/ /\ ~courses[r.row].exists
              /\ Refuse(a, FALSE)

-----------------------------------------------------------------------------
(* The bucket and the learners' progress                                   *)

\* removeObject; deleteRawFile and its callers only log a failure.
Remove(a) ==
    LET r == req[a]
        enable == r.op = "upsertRequirement" /\ ~r.seen.project
    IN  /\ r.at \in {"free", "release"}
        /\ \/ /\ stored' = stored \ {r.trash}
              /\ UNCHANGED <<failures, disturbed>>
           \/ /\ failures < MaxFailures
              /\ failures' = failures + 1
              /\ disturbed' = disturbed \cup {"failure"}
              /\ UNCHANGED stored
        /\ Go(a, IF r.at = "free"
                 THEN [r EXCEPT !.at = IF r.op = "updateCourse" THEN "decide" ELSE "write"]
                 ELSE IF enable THEN [r EXCEPT !.at = "enable"] ELSE Rest(r, None, r.courses))
        /\ UNCHANGED <<content, evaluated, changes, named, refused>>

\* reevaluateAllUsersForCourse, for each course of the request.
Evaluate(a) ==
    /\ req[a].at = "evaluate"
    /\ evaluated' = [c \in Courses |-> IF c \in req[a].courses THEN View(c) ELSE evaluated[c]]
    /\ Stop(a)
    /\ UNCHANGED <<content, stored, changes, failures, named, refused, disturbed>>

\* A statement throws, or the process dies; what was done stays.
Fail(a) ==
    /\ req[a].at # "idle"
    /\ failures < MaxFailures
    /\ failures' = failures + 1
    /\ Stop(a)
    /\ disturbed' = disturbed \cup {"failure"}
    /\ UNCHANGED <<content, stored, evaluated, changes, named, refused>>

-----------------------------------------------------------------------------

\* A database to start from: what administrators may have made of it.
Sound(seed) ==
    /\ seed.quizzes \in [Quizzes -> QuizRows]
    /\ seed.topics \in [Topics -> TopicRows]
    /\ seed.courses \in [Courses -> CourseRows]
    /\ seed.links \subseteq LinkRows
    /\ \A q \in Quizzes : seed.quizzes[q] # NoQuiz =>
          seed.quizzes[q].topic # None /\ seed.topics[seed.quizzes[q].topic] # NoTopic
    /\ \A t \in Topics : /\ WindowOrdered(seed.topics[t].starts, seed.topics[t].ends)
                         /\ seed.topics[t].slug = None => seed.topics[t] = NoTopic
    /\ \A c \in Courses :
          LET course == seed.courses[c]
          IN  /\ course.topicWeight + course.projectWeight = 100
              /\ ~course.project => course.topicWeight = 100
              /\ ~course.exists => course = NoCourse
    /\ \A l \in seed.links : seed.courses[l.course].exists /\ seed.topics[l.topic] # NoTopic
    /\ \A l, k \in seed.links : l # k /\ l.course = k.course =>
          seed.topics[l.topic].slug # seed.topics[k.topic].slug /\ l.order # k.order

\* No key is in two columns.
NamedOnce == \A k \in Objects : \A x, y \in NamedBy(k) : x = y

ASSUME SeedsAreSound == \A seed \in Seeds : Sound(seed)

Init ==
    /\ \E seed \in Seeds :
         /\ quizzes = seed.quizzes
         /\ topics = seed.topics
         /\ courses = seed.courses
         /\ links = seed.links
    /\ NamedOnce
    /\ stored = Objects
    /\ evaluated = [c \in Courses |-> View(c)]
    /\ req = [a \in Admins |-> Idle]
    /\ changes = 0
    /\ failures = 0
    /\ named = Named
    /\ refused = FALSE
    /\ disturbed = {}

QuizStep(a) ==
    CreateQuizzes(a) \/ WriteQuizzes(a) \/ UpdateQuiz(a) \/ WriteQuiz(a)
        \/ DeleteQuiz(a) \/ WriteQuizDeletion(a)

TopicStep(a) ==
    CreateTopic(a) \/ OrderTopic(a) \/ WriteTopic(a) \/ UpdateTopic(a) \/ WriteTopicUpdate(a)
        \/ DeleteTopic(a) \/ WriteTopicDeletion(a)

CourseStep(a) ==
    CreateCourse(a) \/ WriteCourse(a) \/ UpdateCourse(a) \/ DecideCourse(a)
        \/ WriteCourseUpdate(a) \/ DeleteCourse(a) \/ WriteCourseDeletion(a)
        \/ UpdateCourseTopics(a) \/ Detach(a) \/ Attach(a)
        \/ UpsertRequirement(a) \/ WriteRequirement(a) \/ EnableProject(a)

Next ==
    \E a \in Admins :
        QuizStep(a) \/ TopicStep(a) \/ CourseStep(a) \/ Remove(a) \/ Evaluate(a) \/ Fail(a)

Spec == Init /\ [][Next]_vars

-----------------------------------------------------------------------------
(* Properties                                                              *)

Quiet == \A a \in Admins : req[a] = Idle

\* What a handler checks before its write holds after it, unless another request
\* on the same row or course was under way: a topic's window opens before it
\* closes, weights add up to 100 and are all the topics' without a project, the
\* topics of a course differ in slug, unless a list brought two of one slug, and
\* in place.
ChecksHold ==
    /\ "race" \notin disturbed =>
         /\ \A t \in Topics : WindowOrdered(topics[t].starts, topics[t].ends)
         /\ \A c \in Courses :
              /\ courses[c].topicWeight + courses[c].projectWeight = 100
              /\ ~courses[c].project => courses[c].topicWeight = 100
    /\ disturbed \cap {"crowd", "attached"} = {} =>
         \A l, k \in links : l # k /\ l.course = k.course =>
             topics[l.topic].slug # topics[k.topic].slug /\ l.order # k.order

\* No write is refused for a code that its handler had found or made free,
\* unless another request on the topic was under way.
CodesFit == refused => "crowd" \in disturbed

\* The image or file of a row is in the bucket but while an update that removed
\* it is about to name another; unless a key was named again, two requests on the row
\* overlapped, or such an update stopped before its write.
NamedObjectsAreStored ==
    disturbed \cap {"failure", "race", "shared", "rejected"} = {} =>
        Named \subseteq stored \cup {req[a].trash : a \in {b \in Admins : req[b].at \in Pending}}

\* An object that rows have stopped naming is removed, unless a removal failed
\* or raced, or the row went in a cascade or dropped its image by itself.
NothingIsLeftBehind ==
    Quiet /\ disturbed \cap {"failure", "race", "cascade", "cleared"} = {} =>
        named \cap stored \subseteq Named

\* Once requests are done, the learners' progress of a course is computed from
\* its topics and weights as they are, unless a request failed or overlapped
\* another, or set the weights to their defaults without noticing.
ProgressFollowsContent ==
    Quiet /\ disturbed \cap {"failure", "race", "crowd", "reset"} = {} =>
        \A c \in Courses : courses[c].exists => evaluated[c] = View(c)

=============================================================================
