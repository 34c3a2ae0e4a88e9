------------------------------ MODULE QuizPage ------------------------------
(***************************************************************************)
(* The page on which a learner takes a quiz.  A choice is shown at once    *)
(* and saved in the background: one loop per question posts the latest     *)
(* choice until what it sent is the latest, a save that failed is retried, *)
(* and the page says whether everything is saved.  A submission is graded  *)
(* by the server from the answers of the row.                              *)
(*                                                                         *)
(* One learner, one tab; what happens elsewhere can only close sessions.   *)
(***************************************************************************)
EXTENDS Naturals

CONSTANTS
    Questions, Choices,
    Sessions,   \* identifiers of session rows
    None,       \* no choice, question, session or result
    MaxChoices, \* bound on choices
    MaxFaults   \* bound on faults of the network or the server, and on late expiries

ASSUME NoneIsNothing == None \notin Questions \cup Choices \cup Sessions

VARIABLES
    sessions,  \* the session rows of the learner: status and answers
    ended,     \* the topic's window is over
    page,      \* the state of the page
    flight,    \* per session and question, the request of the running save loop
    strays,    \* saves at the server that no page waits for any more
    ask,       \* the request to submit, or how far a restart is
    choices,   \* how many choices were made
    faults,    \* how many faults happened
    sure,      \* history: the page said saved when it submitted, no choice since
    disturbed  \* history: what excuses a property, a set of the words below

(* What excuses a property, in the session that the page shows:            *)
(*   "forgotten"  a failed save took the place of another failed save      *)
(*   "overlap"    a save wrote back an older answer of another question    *)
(*   "late"       a save that the page had given up wrote over a newer one  *)

pageVars == <<sessions, ended, page, flight, strays, ask, choices, faults, sure, disturbed>>

Blank == [q \in Questions |-> None]
Landed == [session |-> None, latest |-> Blank, shown |-> Blank, failed |-> None,
           lost |-> FALSE, result |-> None]
NoSave == [at |-> "idle", sent |-> None, seen |-> Blank]
NoSaves == [q \in Questions |-> NoSave]
NoAsk == [at |-> "no", graded |-> Blank]

\* No save loop runs, of this session or of an earlier one: savingCount is 0.
NotSaving == \A s \in Sessions, q \in Questions : flight[s][q].at = "idle"

\* Mutant: saves under way do not count.
SaysSavedEarly == page.shown # Blank /\ page.failed = None /\ ~page.lost

\* saveLabel is "saved", and nothing tells that the session is lost.
SaysSaved == page.shown # Blank /\ page.failed = None /\ NotSaving /\ ~page.lost

-----------------------------------------------------------------------------
(* Choosing and saving                                                     *)

\* The page posts what it holds for q, unless its loop runs already.
Post(q, c) ==
    flight' = IF flight[page.session][q].at # "idle" THEN flight
              ELSE [flight EXCEPT ![page.session][q] = [NoSave EXCEPT !.at = "sent", !.sent = c]]

\* Keys choose even while a submission or a restart is under way.
Choose(q, c) ==
    /\ page.session # None /\ page.result = None /\ ~page.lost
    /\ choices < MaxChoices
    /\ choices' = choices + 1
    /\ page' = [page EXCEPT !.shown[q] = c, !.latest[q] = c]
    /\ Post(q, c)
    /\ sure' = FALSE
    /\ UNCHANGED <<sessions, ended, strays, ask, faults, disturbed>>

\* Every five seconds, when the network is back, or by the button.
Retry(q) ==
    /\ page.failed = q /\ ~page.lost
    /\ flight[page.session][q].at = "idle"
    /\ Post(q, page.latest[q])
    /\ UNCHANGED <<sessions, ended, page, strays, ask, choices, faults, sure, disturbed>>

\* What the server makes of a save: refused for good, refused, or under way.
Accepted(s) == sessions[s].status = "open" /\ ~ended
Verdict(s) == IF sessions[s].status # "open" THEN "lost" ELSE IF ended THEN "failed" ELSE "read"

SaveRead(s, q) ==
    /\ flight[s][q].at = "sent"
    /\ flight' = [flight EXCEPT ![s][q].at = Verdict(s),
                                ![s][q].seen = IF Accepted(s) THEN sessions[s].answers ELSE Blank]
    /\ UNCHANGED <<sessions, ended, page, strays, ask, choices, faults, sure, disturbed>>

\* The answers read, merged with the one sent; the row is named by its id alone.
Merge(s, save, q) == sessions' = [sessions EXCEPT ![s].answers = [save.seen EXCEPT ![q] = save.sent]]

\* The write takes back what another save wrote since the read.
Overlap(s, save, q) ==
    IF s = page.session /\ \E p \in Questions \ {q} : save.seen[p] # sessions[s].answers[p]
    THEN {"overlap"} ELSE {}

SaveWrite(s, q) ==
    /\ flight[s][q].at = "read"
    /\ Merge(s, flight[s][q], q)
    /\ flight' = [flight EXCEPT ![s][q].at = "saved", ![s][q].seen = Blank]
    /\ disturbed' = disturbed \cup Overlap(s, flight[s][q], q)
    /\ UNCHANGED <<ended, page, strays, ask, choices, faults, sure>>

\* Mutants of the answer to a save: the loop ends with what it sent; a success
\* leaves the failure; a loop of an earlier session is heard.
HeardOnce(s, q) == [flight EXCEPT ![s][q] = NoSave]
HeardUncleared(s, q) ==
    CASE flight[s][q].at = "lost" -> [page EXCEPT !.lost = TRUE]
      [] flight[s][q].at = "failed" -> [page EXCEPT !.failed = q]
      [] OTHER -> page
HeardEverywhere(s) == page.session # None

\* The loop belongs to the session that the page shows: latestChoice.current === choices.
OwnLoop(s) == page.session = s

\* After a save that came through, the loop posts again when the choice changed.
NextSave(s, q) ==
    IF OwnLoop(s) /\ flight[s][q].at = "saved" /\ page.latest[q] # flight[s][q].sent
    THEN [flight EXCEPT ![s][q] = [NoSave EXCEPT !.at = "sent", !.sent = page.latest[q]]]
    ELSE [flight EXCEPT ![s][q] = NoSave]

\* One failed save is remembered, and cleared by a success of its question.
AfterSave(s, q) ==
    CASE flight[s][q].at = "lost" -> [page EXCEPT !.lost = TRUE]
      [] flight[s][q].at = "failed" -> [page EXCEPT !.failed = q]
      [] OTHER -> [page EXCEPT !.failed = IF @ = q /\ NextSave(s, q)[s][q] = NoSave
                                          THEN None ELSE @]

Hear(s, q) ==
    /\ flight[s][q].at \in {"saved", "lost", "failed"}
    /\ flight' = NextSave(s, q)
    /\ page' = IF OwnLoop(s) THEN AfterSave(s, q) ELSE page
    /\ disturbed' = IF OwnLoop(s) /\ flight[s][q].at = "failed" /\ page.failed \notin {None, q}
                    THEN disturbed \cup {"forgotten"} ELSE disturbed
    /\ UNCHANGED <<sessions, ended, strays, ask, choices, faults, sure>>

\* The connection is lost, or the server fails: the page hears an error, and
\* the request may or may not go on.
Stray(s, q) == [session |-> s, quiz |-> q, save |-> flight[s][q]]

SaveFails(s, q) ==
    /\ flight[s][q].at \in {"sent", "read", "saved"}
    /\ faults < MaxFaults
    /\ faults' = faults + 1
    /\ flight' = [flight EXCEPT ![s][q].at = "failed", ![s][q].seen = Blank]
    /\ \/ UNCHANGED strays
       \/ flight[s][q].at # "saved" /\ strays' = strays \cup {Stray(s, q)}
    /\ UNCHANGED <<sessions, ended, page, ask, choices, sure, disturbed>>

StrayRead(x) ==
    /\ x.save.at = "sent"
    /\ strays' = (strays \ {x}) \cup
          (IF Accepted(x.session)
           THEN {[x EXCEPT !.save.at = "read", !.save.seen = sessions[x.session].answers]} ELSE {})
    /\ UNCHANGED <<sessions, ended, page, flight, ask, choices, faults, sure, disturbed>>

\* It writes an answer that the page does not show, or takes back one that the
\* page is about to be told is saved and may show again by then.
Late(x) ==
    LET loop == flight[x.session][x.quiz] IN
    IF /\ x.session = page.session
       /\ \/ x.save.sent # page.shown[x.quiz]
          \/ loop.at = "saved" /\ x.save.sent # loop.sent
    THEN {"late"} ELSE {}

StrayWrite(x) ==
    /\ x.save.at = "read"
    /\ Merge(x.session, x.save, x.quiz)
    /\ strays' = strays \ {x}
    /\ disturbed' = disturbed \cup Overlap(x.session, x.save, x.quiz) \cup Late(x)
    /\ UNCHANGED <<ended, page, flight, ask, choices, faults, sure>>

-----------------------------------------------------------------------------
(* Submitting, restarting, entering                                        *)

Submit ==
    /\ page.session # None /\ page.result = None
    /\ ask.at = "no"
    /\ ask' = [NoAsk EXCEPT !.at = "sent"]
    /\ sure' = SaysSaved
    /\ UNCHANGED <<sessions, ended, page, flight, strays, choices, faults, disturbed>>

\* An expired or abandoned session may be submitted, a submitted one may not.
SubmitRead ==
    /\ ask.at = "sent"
    /\ ask' = IF sessions[page.session].status = "submitted" THEN [ask EXCEPT !.at = "refused"]
              ELSE [at |-> "read", graded |-> sessions[page.session].answers]
    /\ UNCHANGED <<sessions, ended, page, flight, strays, choices, faults, sure, disturbed>>

SubmitClaim ==
    /\ ask.at = "read"
    /\ sessions' = [sessions EXCEPT ![page.session].status = "submitted"]
    /\ ask' = IF sessions[page.session].status = "submitted" THEN [NoAsk EXCEPT !.at = "refused"]
              ELSE [ask EXCEPT !.at = "done"]
    /\ UNCHANGED <<ended, page, flight, strays, choices, faults, sure, disturbed>>

HearSubmit ==
    /\ ask.at \in {"done", "refused"}
    /\ page' = IF ask.at = "done" THEN [page EXCEPT !.result = ask.graded] ELSE page
    /\ ask' = NoAsk
    /\ UNCHANGED <<sessions, ended, flight, strays, choices, faults, sure, disturbed>>

\* restartFresh: abandon the session, then enter; a submitted one is refused.
Restart ==
    /\ page.session # None /\ page.result = None
    /\ ask.at = "no"
    /\ ask' = [NoAsk EXCEPT !.at = "abandon"]
    /\ UNCHANGED <<sessions, ended, page, flight, strays, choices, faults, sure, disturbed>>

Abandon ==
    /\ ask.at = "abandon"
    /\ \/ /\ sessions[page.session].status # "submitted"
          /\ sessions' = [sessions EXCEPT ![page.session].status = "closed"]
          /\ ask' = [NoAsk EXCEPT !.at = "enter"]
       \/ /\ sessions[page.session].status = "submitted"
          /\ ask' = NoAsk
          /\ UNCHANGED sessions
    /\ UNCHANGED <<ended, page, flight, strays, choices, faults, sure, disturbed>>

\* The first session, one after a lost session, or one after a result.
Begin ==
    /\ page.session = None \/ page.lost \/ page.result # None
    /\ ask.at = "no"
    /\ ask' = [NoAsk EXCEPT !.at = "enter"]
    /\ UNCHANGED <<sessions, ended, page, flight, strays, choices, faults, sure, disturbed>>

\* The identifier of a new row: which of the unused ones does not matter.
Fresh == CHOOSE s \in Sessions : sessions[s].status = "absent"

\* startFresh, or load that resumes: the open session or a new one, as it is stored.
Enter ==
    /\ ask.at = "enter"
    /\ ask' = NoAsk
    /\ \/ /\ ended
          /\ UNCHANGED <<sessions, page, disturbed>>
       \/ /\ ~ended
          /\ \E s \in Sessions :
               /\ \/ sessions[s].status = "open"
                  \/ /\ sessions[s].status = "absent" /\ s = Fresh
                     /\ \A t \in Sessions : sessions[t].status # "open"
               /\ sessions' = [sessions EXCEPT ![s].status = "open"]
               /\ page' = [Landed EXCEPT !.session = s, !.shown = sessions[s].answers]
          /\ disturbed' = {}
    /\ UNCHANGED <<ended, flight, strays, choices, faults, sure>>

\* The request of a submission or a restart fails; a submission may have gone on.
AskFails ==
    /\ ask.at # "no"
    /\ faults < MaxFaults
    /\ faults' = faults + 1
    /\ ask' = NoAsk
    /\ \/ UNCHANGED sessions
       \/ /\ ask.at = "read"
          /\ sessions' = [sessions EXCEPT ![page.session].status = "submitted"]
    /\ UNCHANGED <<ended, page, flight, strays, choices, sure, disturbed>>

\* The page is closed and opened again: what it waited for may go on.
Reload ==
    /\ page.session # None
    /\ faults < MaxFaults
    /\ faults' = faults + 1
    /\ page' = Landed
    /\ flight' = [s \in Sessions |-> NoSaves]
    /\ \E S \in SUBSET {x \in {Stray(s, q) : s \in Sessions, q \in Questions} :
                            x.save.at \in {"sent", "read"}} : strays' = strays \cup S
    /\ ask' = NoAsk
    /\ \/ UNCHANGED sessions
       \/ /\ ask.at = "read"
          /\ sessions' = [sessions EXCEPT ![page.session].status = "submitted"]
    /\ UNCHANGED <<ended, choices, sure, disturbed>>

-----------------------------------------------------------------------------
(* Elsewhere                                                               *)

\* The cleanup job, or another tab, ends an open session.
Close(s) ==
    /\ sessions[s].status = "open"
    /\ sessions' = [sessions EXCEPT ![s].status = "closed"]
    /\ UNCHANGED <<ended, page, flight, strays, ask, choices, faults, sure, disturbed>>

\* A request that found the session overdue says so after its submission.
ExpireLate(s) ==
    /\ sessions[s].status = "submitted"
    /\ faults < MaxFaults
    /\ faults' = faults + 1
    /\ sessions' = [sessions EXCEPT ![s].status = "closed"]
    /\ UNCHANGED <<ended, page, flight, strays, ask, choices, sure, disturbed>>

TopicEnds ==
    /\ ~ended
    /\ ended' = TRUE
    /\ UNCHANGED <<sessions, page, flight, strays, ask, choices, faults, sure, disturbed>>

-----------------------------------------------------------------------------

PageInit ==
    /\ sessions = [s \in Sessions |-> [status |-> "absent", answers |-> Blank]]
    /\ ended = FALSE
    /\ page = Landed
    /\ flight = [s \in Sessions |-> NoSaves]
    /\ strays = {}
    /\ ask = NoAsk
    /\ choices = 0
    /\ faults = 0
    /\ sure = FALSE
    /\ disturbed = {}

Loop(s, q) == SaveRead(s, q) \/ SaveWrite(s, q) \/ Hear(s, q)

PageNext ==
    \/ \E q \in Questions, c \in Choices : Choose(q, c)
    \/ \E q \in Questions : Retry(q)
    \/ \E s \in Sessions, q \in Questions : Loop(s, q) \/ SaveFails(s, q)
    \/ \E x \in strays : StrayRead(x) \/ StrayWrite(x)
    \/ Submit \/ SubmitRead \/ SubmitClaim \/ HearSubmit
    \/ Restart \/ Abandon \/ Begin \/ Enter \/ AskFails \/ Reload
    \/ \E s \in Sessions : Close(s) \/ ExpireLate(s)
    \/ TopicEnds

PageSpec == PageInit /\ [][PageNext]_pageVars

\* Requests are answered, replies are heard, and the timer of the retry fires.
FairPageSpec ==
    /\ PageSpec
    /\ \A s \in Sessions, q \in Questions : WF_pageVars(Loop(s, q))
    /\ \A q \in Questions : WF_pageVars(Retry(q))

-----------------------------------------------------------------------------
(* Properties                                                              *)

Answers == [Questions -> Choices \cup {None}]
Loops == [at : {"idle", "sent", "read", "saved", "lost", "failed"},
          sent : Choices \cup {None}, seen : Answers]

PageTypeOK ==
    /\ sessions \in [Sessions -> [status : {"absent", "open", "closed", "submitted"},
                                  answers : Answers]]
    /\ ended \in BOOLEAN
    /\ page \in [session : Sessions \cup {None}, latest : Answers, shown : Answers,
                 failed : Questions \cup {None}, lost : BOOLEAN, result : Answers \cup {None}]
    /\ flight \in [Sessions -> [Questions -> Loops]]
    /\ strays \subseteq [session : Sessions, quiz : Questions, save : Loops]
    /\ ask \in [at : {"no", "sent", "read", "done", "refused", "abandon", "enter"},
                graded : Answers]
    /\ sure \in BOOLEAN
    /\ disturbed \subseteq {"forgotten", "overlap", "late"}

\* What the page shows as saved is what the row holds, but for failed saves that
\* were forgotten, answers that overlapping saves took back, and late saves.
SavedIsSaved ==
    SaysSaved /\ disturbed = {} => sessions[page.session].answers = page.shown

\* A learner who submits when the page says saved, and presses no key while it
\* submits, sees the result of the answers on the page.
GradedAsShown ==
    page.result # None /\ sure /\ disturbed = {} => page.result = page.shown

\* The page gives up a session only when the server will take no more of it: what
\* a save of an earlier session is told does not count.
LostIsLost == page.lost => sessions[page.session].status \in {"closed", "submitted"}

\* Once faults and choices end, every answer that is unsaved and remembered is
\* saved, unless the session or its topic is over.
SavesSettle ==
    (~NotSaving \/ page.failed # None) ~>
        (NotSaving /\ page.failed = None) \/ page.lost \/ ended

=============================================================================
