-------------------------- MODULE MCContentAdmin --------------------------
(* Constants for model checking ContentAdmin: one course with a project,   *)
(* one of its topics with one quiz, and a topic outside of it.             *)
EXTENDS ContentAdmin, TLC

CONSTANTS q1, q2, q3, t1, t2, t3, c1, c2, i1, i2, i3, i4, b1, b2, s1, s2

OneCourse ==
    {[quizzes |-> [q \in Quizzes |->
          IF q = q1 THEN [topic |-> t1, code |-> 2, image |-> i1] ELSE NoQuiz],
      topics |-> [t \in Topics |->
          CASE t = t1 -> [slug |-> s1, starts |-> 1, ends |-> 4, image |-> i2]
            [] t = t2 -> [slug |-> s1, starts |-> None, ends |-> None, image |-> None]
            [] OTHER -> NoTopic],
      courses |-> [c \in Courses |->
          IF c = c1 THEN [exists |-> TRUE, project |-> TRUE, topicWeight |-> 70,
                          projectWeight |-> 30, image |-> i3, required |-> TRUE, brief |-> b1]
          ELSE NoCourse],
      links |-> {[course |-> c1, topic |-> t1, order |-> 1, no |-> 0]}]}

Quiz(t, code, image) == [topic |-> t, code |-> code, image |-> image]

SmallBatches ==
    {<<Quiz(t1, Keep, i4)>>, <<Quiz(t1, 3, Keep), Quiz(t1, Keep, Keep)>>}
SmallQuizPuts == {Quiz(t1, Keep, i1), Quiz(t2, 3, i4)}
SmallNewTopics == {[slug |-> s2, starts |-> 1, ends |-> None, image |-> i4]}

Topic(slug, starts, ends, image) == [slug |-> slug, starts |-> starts, ends |-> ends, image |-> image]
SmallTopicPuts ==
    {Topic(s2, Keep, Keep, None), Topic(Keep, 3, Keep, Keep), Topic(Keep, Keep, 2, Keep),
     Topic(Keep, None, Keep, i4)}

Course(project, topicWeight, projectWeight, image) ==
    [project |-> project, topicWeight |-> topicWeight, projectWeight |-> projectWeight,
     image |-> image]
SmallCoursePuts ==
    {Course(Keep, 60, 40, Keep), Course(Keep, 100, 0, i4), Course(Keep, 60, Keep, i4),
     Course(TRUE, Keep, Keep, Keep), Course(FALSE, Keep, Keep, None)}

SmallBriefs == {Keep, None, b2}
SmallLists == {<<>>, <<t2, t1>>}

SameAdmins == Permutations(Admins)
=============================================================================
