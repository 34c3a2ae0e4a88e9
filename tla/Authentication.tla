---------------------------- MODULE Authentication ----------------------------
(***************************************************************************)
(* Signed-in browsers: the cookies that the tabs of one browser share, the *)
(* requests that read the session, the refresh of an expired access token, *)
(* sign-in and sign-out, and the server's cache of validated tokens.       *)
(*                                                                         *)
(* Profiles, which owns the sessions, is outside: it hands out a new       *)
(* refresh token at every use and ends a session when an old one comes     *)
(* back.                                                                   *)
(***************************************************************************)
EXTENDS Integers, FiniteSets

CONSTANTS
    Tabs,
    Calls,        \* slots for requests to /auth/me in flight
    TabOf,        \* the tab of each slot
    None,
    MaxEvents     \* bound on tokens that expire, sign-ins, sign-outs and failures

ASSUME CallsHaveTabs == TabOf \in [Calls -> Tabs]
ASSUME NoneIsNoTab == None \notin Tabs

VARIABLES
    profiles,  \* the sessions: newest refresh token, and whether it goes on
    jar,       \* cookies: access token, refresh token, and whose sign-in is under way
    tabs,      \* what each tab knows of the user
    calls,     \* the requests in flight
    refreshes, \* per tab, refreshPromise
    loads,     \* access tokens being validated, as far as it is known
    orphans,   \* refresh requests under way that no tab waits for
    future,    \* the clock was set back: the time of the last refresh is to come
    cache,     \* access tokens that Redis vouches for
    logout,    \* the sign-out in flight
    events,
    reasons,   \* how often a token expired, a sign-in began, or Profiles did not vouch
    lost,      \* history: an answer to a refresh was lost
    gone       \* history: access tokens signed out with no load of them in flight

browser == <<jar, tabs, calls, refreshes, future>>
counts == <<events, reasons>>
vars == <<profiles, jar, tabs, calls, refreshes, loads, orphans, future, cache, logout,
          events, reasons, lost, gone>>

-----------------------------------------------------------------------------

Token(s, n) == [s |-> s, n |-> n]
NoToken == Token(0, 0)

Live(token) == token.s \in DOMAIN profiles /\ profiles[token.s].state = "live"
Newest(token) == Live(token) /\ profiles[token.s].latest = token.n

NoCall == [pc |-> "idle", token |-> NoToken, verdict |-> "none", retried |-> FALSE,
           late |-> "no", session |-> 0]
NoRefresh == [pc |-> "idle", token |-> NoToken, late |-> "no", outcome |-> "none"]
NoLogout == [pc |-> "idle", tab |-> None, access |-> NoToken, token |-> NoToken, overlap |-> FALSE]

Event == events < MaxEvents /\ events' = events + 1
Uncaused == Event /\ UNCHANGED reasons
Reason == Event /\ reasons' = reasons + 1

\* One session, and the tabs have just loaded.
Init ==
    /\ profiles = [s \in {1} |-> [latest |-> 1, state |-> "live"]]
    /\ jar = [access |-> Token(1, 1), refresh |-> Token(1, 1), flow |-> None]
    /\ tabs = [t \in Tabs |-> "loading"]
    /\ calls = [c \in Calls |-> NoCall]
    /\ refreshes = [t \in Tabs |-> NoRefresh]
    /\ loads = <<>>
    /\ orphans = {}
    /\ future = FALSE
    /\ cache = {}
    /\ logout = NoLogout
    /\ events = 0 /\ reasons = 0
    /\ lost = FALSE
    /\ gone = {}

-----------------------------------------------------------------------------
(* A request, and the guard that lets it in                                 *)

Sent(retried, late, cookies) ==
    [NoCall EXCEPT !.pc = "sent", !.token = cookies.access, !.retried = retried,
                   !.late = late, !.session = cookies.refresh.s]

\* reload: on mount, and when the tab is seen again.
Reload(c) ==
    /\ calls[c].pc = "idle"
    /\ tabs[TabOf[c]] # "away"
    /\ calls' = [calls EXCEPT ![c] = Sent(FALSE, IF future THEN "clock" ELSE "no", jar)]
    /\ UNCHANGED <<profiles, jar, tabs, refreshes, orphans, future, loads, cache, logout, counts, lost, gone>>

\* canActivate and getOrLoad: without a token there is no way in; else the request
\* waits for a load of its token, one that is under way or a new one.
Guard(c) ==
    LET token == calls[c].token
        loading == token \in DOMAIN loads
    IN
    /\ calls[c].pc = "sent"
    /\ \/ /\ token = NoToken
          /\ calls' = [calls EXCEPT ![c].pc = "answered", ![c].verdict = "bad"]
          /\ UNCHANGED <<loads, logout>>
       \/ /\ token # NoToken
          /\ calls' = [calls EXCEPT ![c].pc = "joined"]
          /\ loads' = IF loading THEN loads ELSE [x \in DOMAIN loads \cup {token} |->
                                                    IF x = token THEN "asked" ELSE loads[x]]
          /\ logout' = [logout EXCEPT !.overlap =
                          @ \/ (~loading /\ logout.pc = "revoke" /\ logout.access = token)]
    /\ UNCHANGED <<profiles, jar, tabs, refreshes, orphans, future, cache, counts, lost, gone>>

\* A load ends, and all that waited for it are answered.
Ends(token, verdict) ==
    /\ loads' = [x \in DOMAIN loads \ {token} |-> loads[x]]
    /\ calls' = [c \in Calls |->
                   IF calls[c].pc = "joined" /\ calls[c].token = token
                   THEN [calls[c] EXCEPT !.pc = "answered", !.verdict = verdict] ELSE calls[c]]

\* The cache knows the token, or Profiles is asked.
Load(token) ==
    /\ loads[token] = "asked"
    /\ \/ token \in cache /\ Ends(token, "ok") /\ UNCHANGED counts
       \/ /\ token \notin cache
          /\ loads' = [loads EXCEPT ![token] = IF Live(token) THEN "ok" ELSE "bad"]
          /\ UNCHANGED <<calls, counts>>
       \/ /\ token \notin cache
          /\ Reason
          /\ loads' = [loads EXCEPT ![token] = "outage"]
          /\ UNCHANGED calls
    /\ UNCHANGED <<profiles, jar, tabs, refreshes, orphans, future, cache, logout, lost, gone>>

\* The profile is stored, or the key deleted.
Loaded(token) ==
    /\ loads[token] # "asked"
    /\ cache' = IF loads[token] = "ok" THEN cache \cup {token} ELSE cache \ {token}
    /\ Ends(token, loads[token])
    /\ UNCHANGED <<profiles, jar, tabs, refreshes, orphans, future, logout, counts, lost, gone>>

\* Mutant: entries have no time to live.
ForgetNothing == FALSE /\ UNCHANGED vars

\* The time to live of an entry is over.  While the session goes on that would
\* only lead to the same answer.
Forget ==
    /\ \E token \in cache : ~Live(token) /\ cache' = cache \ {token}
    /\ UNCHANGED <<profiles, browser, loads, orphans, logout, counts, lost, gone>>

\* api and reload: whatever keeps the guard from letting a request in is a 401,
\* and the first one leads to a refresh.
Handle(c) ==
    LET t == TabOf[c]
        call == calls[c]
    IN
    /\ call.pc = "answered"
    /\ \/ /\ call.verdict = "ok"
          /\ tabs' = [tabs EXCEPT ![t] = "in"]
          /\ calls' = [calls EXCEPT ![c] = NoCall]
          /\ UNCHANGED refreshes
       \/ /\ call.verdict # "ok" /\ call.retried
          /\ tabs' = [tabs EXCEPT ![t] = "out"]
          /\ calls' = [calls EXCEPT ![c] = NoCall]
          /\ UNCHANGED refreshes
       \/ /\ call.verdict # "ok" /\ ~call.retried
          /\ calls' = [calls EXCEPT ![c].pc = "waiting"]
          /\ refreshes' = IF refreshes[t].pc # "idle" THEN refreshes
                          ELSE [refreshes EXCEPT ![t] = [NoRefresh EXCEPT !.pc = "queued", !.late = call.late]]
          /\ UNCHANGED tabs
    /\ UNCHANGED <<profiles, jar, orphans, future, loads, cache, logout, counts, lost, gone>>

-----------------------------------------------------------------------------
(* The refresh                                                              *)

Waiting(t) == {c \in Calls : TabOf[c] = t /\ calls[c].pc = "waiting"}

\* Those that waited for the refresh try again, or give up.
Resumed(t, outcome, late, cookies) ==
    [c \in Calls |->
       IF c \notin Waiting(t) THEN calls[c]
       ELSE IF outcome = "ok" THEN Sent(TRUE, late, cookies) ELSE NoCall]

\* Mutant: any failed refresh signs out.
ShownOnFailure(t, outcome) ==
    [tabs EXCEPT ![t] = IF Waiting(t) # {} /\ outcome # "ok" THEN "out" ELSE @]

\* A 401 signs out, whatever it stands for; a user who was not known yet stays
\* unknown.
Shown(t, outcome) ==
    [tabs EXCEPT ![t] =
       IF Waiting(t) # {} /\ (outcome \in {"denied", "mistaken"} \/ (outcome = "transient" /\ @ = "loading"))
       THEN "out" ELSE @]

\* Mutant: every tab for itself.
NoLock == TRUE

LockIsFree == \A t \in Tabs : refreshes[t].pc \notin {"asked", "answered"}

\* Mutant: a tab that waited for the lock refreshes again.
NeverRenewed(t) == FALSE

\* Another tab has refreshed since the request went out.
Renewed(t) == refreshes[t].late # "no"

\* Under the lock: nothing is left to do, or the request is sent.
Skip(t) ==
    /\ refreshes[t].pc = "queued" /\ LockIsFree
    /\ Renewed(t)
    /\ calls' = Resumed(t, "ok", refreshes[t].late, jar)
    /\ refreshes' = [refreshes EXCEPT ![t] = NoRefresh]
    /\ UNCHANGED <<profiles, jar, tabs, orphans, future, loads, cache, logout, counts, lost, gone>>

CallRefresh(t) ==
    /\ refreshes[t].pc = "queued" /\ LockIsFree
    /\ ~Renewed(t)
    /\ refreshes' = [refreshes EXCEPT ![t].pc = "asked", ![t].token = jar.refresh]
    /\ UNCHANGED <<profiles, jar, tabs, calls, orphans, future, loads, cache, logout, counts, lost, gone>>

\* Profiles: the newest token is replaced, an older one ends the session.
Presented(token) ==
    IF Newest(token) THEN [profiles EXCEPT ![token.s].latest = @ + 1]
    ELSE IF Live(token) THEN [profiles EXCEPT ![token.s].state = "replayed"]
    ELSE profiles

\* refresh on the server; a missing or refused token is a 401.
Rotate(t) ==
    LET token == refreshes[t].token IN
    /\ refreshes[t].pc = "asked"
    /\ profiles' = Presented(token)
    /\ refreshes' = [refreshes EXCEPT ![t].pc = "answered",
                       ![t].token = IF Newest(token) THEN Token(token.s, token.n + 1) ELSE NoToken,
                       ![t].outcome = IF Newest(token) THEN "ok" ELSE "denied"]
    /\ UNCHANGED <<jar, tabs, calls, orphans, future, loads, cache, logout, counts, lost, gone>>

\* throwUpstreamAuthError: Profiles fails, having done its work or not.  No answer
\* of it, or a status of 500 and more, is a 503 or 502; any other failure, a rate
\* limit among them, is a 401 that mistakes it for a refusal.
RotateFails(t) ==
    LET token == refreshes[t].token IN
    /\ refreshes[t].pc = "asked"
    /\ Uncaused
    /\ profiles' \in {profiles, Presented(token)}
    /\ \E outcome \in {"transient", "mistaken"} :
         refreshes' = [refreshes EXCEPT ![t].pc = "answered", ![t].token = NoToken, ![t].outcome = outcome]
    /\ lost' = TRUE
    /\ UNCHANGED <<jar, tabs, calls, orphans, future, loads, cache, logout, gone>>

\* The answer sets the cookies, and its time is noted for all tabs.
Settle(t) ==
    LET new == refreshes[t].token
        outcome == refreshes[t].outcome
        cookies == IF outcome = "ok" THEN [jar EXCEPT !.access = new, !.refresh = new] ELSE jar
        Marked(x) == IF outcome = "ok" /\ x.pc # "idle" /\ x.late = "no" THEN [x EXCEPT !.late = "yes"] ELSE x
        after == Resumed(t, outcome, "yes", cookies)
    IN
    /\ refreshes[t].pc = "answered"
    /\ jar' = cookies
    /\ future' = (future /\ outcome # "ok")
    /\ tabs' = Shown(t, outcome)
    /\ calls' = [c \in Calls |-> Marked(after[c])]
    /\ refreshes' = [u \in Tabs |-> IF u = t THEN NoRefresh ELSE Marked(refreshes[u])]
    /\ UNCHANGED <<profiles, orphans, loads, cache, logout, counts, lost, gone>>

\* A refresh the tab no longer waits for goes on without it.
Abandoned(t) == IF refreshes[t].pc = "asked" THEN orphans \cup {refreshes[t].token} ELSE orphans
LosesAnswer(t) == refreshes[t].pc = "asked" \/ refreshes[t].outcome = "ok"

\* The time is over, or the connection breaks.
GiveUp(t) ==
    /\ refreshes[t].pc \in {"asked", "answered"}
    /\ Uncaused
    /\ orphans' = Abandoned(t)
    /\ lost' = (lost \/ LosesAnswer(t))
    /\ tabs' = Shown(t, "transient")
    /\ calls' = Resumed(t, "transient", "no", jar)
    /\ refreshes' = [refreshes EXCEPT ![t] = NoRefresh]
    /\ UNCHANGED <<profiles, jar, future, loads, cache, logout, gone>>

Orphan ==
    /\ \E token \in orphans :
         /\ orphans' = orphans \ {token}
         /\ profiles' = Presented(token)
    /\ UNCHANGED <<browser, loads, cache, logout, counts, lost, gone>>

-----------------------------------------------------------------------------
(* Time                                                                     *)

\* The access cookie's lifetime is over.  It is longer than any request.
Expire ==
    /\ Reason
    /\ jar.access # NoToken
    /\ \A c \in Calls : ~calls[c].retried /\ calls[c].late # "yes"
    /\ jar' = [jar EXCEPT !.access = NoToken]
    /\ UNCHANGED <<profiles, tabs, calls, refreshes, orphans, future, loads, cache, logout, lost, gone>>

\* The clock is set back, past the last refresh, while nothing is in flight.
StepBack ==
    /\ ~future
    /\ Uncaused
    /\ \A c \in Calls : calls[c].pc = "idle"
    /\ future' = TRUE
    /\ UNCHANGED <<profiles, jar, tabs, calls, refreshes, orphans, loads, cache, logout, lost, gone>>

CatchUp ==
    /\ future
    /\ future' = FALSE
    /\ UNCHANGED <<profiles, jar, tabs, calls, refreshes, orphans, loads, cache, logout, counts, lost, gone>>

-----------------------------------------------------------------------------
(* Sign-out and sign-in                                                     *)

\* The page is left: what it had in flight is nobody's.
Leave(t) ==
    /\ calls' = [c \in Calls |-> IF TabOf[c] = t THEN NoCall ELSE calls[c]]
    /\ refreshes' = [refreshes EXCEPT ![t] = NoRefresh]
    /\ orphans' = Abandoned(t)
    /\ lost' = (lost \/ LosesAnswer(t))

Logout(t) ==
    /\ logout.pc = "idle" /\ tabs[t] = "in"
    /\ Uncaused
    /\ logout' = [pc |-> "delete", tab |-> t, access |-> jar.access, overlap |-> FALSE,
                  token |-> IF jar.refresh = NoToken THEN jar.access ELSE jar.refresh]
    /\ UNCHANGED <<profiles, browser, orphans, loads, cache, lost, gone>>

\* Mutant: the cache is left to its time to live.
Undeleted == cache

Deleted == cache \ {logout.access}

Delete ==
    /\ logout.pc = "delete"
    /\ cache' = Deleted
    /\ logout' = [logout EXCEPT !.pc = "revoke", !.overlap = logout.access \in DOMAIN loads]
    /\ UNCHANGED <<profiles, browser, loads, orphans, counts, lost, gone>>

\* Profiles ends the session of the token, or fails, which is only logged.
Revoke ==
    /\ logout.pc = "revoke"
    /\ logout' = [logout EXCEPT !.pc = "answered"]
    /\ \/ /\ profiles' = IF Live(logout.token)
                         THEN [profiles EXCEPT ![logout.token.s].state = "revoked"] ELSE profiles
          /\ gone' = IF logout.overlap \/ logout.access = NoToken THEN gone ELSE gone \cup {logout.access}
          /\ UNCHANGED counts
       \/ Uncaused /\ UNCHANGED <<profiles, gone>>
    /\ UNCHANGED <<browser, orphans, loads, cache, lost>>

\* The answer clears the cookies, and the tab loads the front page.
LoggedOut ==
    /\ logout.pc = "answered"
    /\ logout' = NoLogout
    /\ jar' = [access |-> NoToken, refresh |-> NoToken, flow |-> None]
    /\ tabs' = [tabs EXCEPT ![logout.tab] = "loading"]
    /\ Leave(logout.tab)
    /\ UNCHANGED <<profiles, future, loads, cache, counts, gone>>

\* The answer is lost, and the tab goes on.
LogoutLost ==
    /\ logout.pc = "answered"
    /\ Uncaused
    /\ logout' = NoLogout
    /\ UNCHANGED <<profiles, browser, orphans, loads, cache, lost, gone>>

\* startLogin: the cookies of the flow, and away to Profiles.
Login(t) ==
    /\ tabs[t] = "out"
    /\ Reason
    /\ tabs' = [tabs EXCEPT ![t] = "away"]
    /\ jar' = [jar EXCEPT !.flow = t]
    /\ Leave(t)
    /\ UNCHANGED <<profiles, future, loads, cache, logout, gone>>

\* finishLogin: only the flow that was started last matches the cookies; either
\* way they are cleared and the front page loads.
Callback(t) ==
    /\ tabs[t] = "away"
    /\ \/ /\ jar.flow = t
          /\ LET s == Cardinality(DOMAIN profiles) + 1 IN
             /\ profiles' = [x \in DOMAIN profiles \cup {s} |->
                               IF x = s THEN [latest |-> 1, state |-> "live"] ELSE profiles[x]]
             /\ jar' = [access |-> Token(s, 1), refresh |-> Token(s, 1), flow |-> None]
       \/ /\ jar' = [jar EXCEPT !.flow = None]
          /\ UNCHANGED profiles
    /\ tabs' = [tabs EXCEPT ![t] = "loading"]
    /\ UNCHANGED <<calls, refreshes, orphans, future, loads, cache, logout, counts, lost, gone>>

-----------------------------------------------------------------------------

Validate(token) == token \in DOMAIN loads /\ (Load(token) \/ Loaded(token))
Serve(c) == Guard(c) \/ (calls[c].pc = "joined" /\ Validate(calls[c].token)) \/ Handle(c)
Enter(t) == Skip(t) \/ CallRefresh(t)
Renew(t) == Enter(t) \/ Rotate(t) \/ Settle(t)
SigningOut == Delete \/ Revoke \/ LoggedOut

Next ==
    \/ \E c \in Calls : Reload(c) \/ Serve(c)
    \/ \E t \in Tabs : Renew(t) \/ RotateFails(t) \/ GiveUp(t) \/ Logout(t) \/ Login(t) \/ Callback(t)
    \/ \E token \in DOMAIN loads : Validate(token)
    \/ Orphan \/ Forget \/ Expire \/ StepBack \/ CatchUp
    \/ SigningOut \/ LogoutLost

Spec == Init /\ [][Next]_vars

\* Requests run on, the lock goes to those who wait in turn, cache entries and
\* clock offsets do not last, and the user comes back to every tab.
FairSpec ==
    /\ Spec
    /\ \A c \in Calls : WF_vars(Reload(c)) /\ WF_vars(Serve(c))
    /\ \A t \in Tabs : WF_vars(Renew(t)) /\ SF_vars(Enter(t))
    /\ WF_vars(SigningOut) /\ WF_vars(Orphan) /\ WF_vars(Forget) /\ WF_vars(CatchUp)

-----------------------------------------------------------------------------
(* Properties                                                               *)

Tokens == [s : 0..(MaxEvents + 1), n : 0..(MaxEvents + 1)]

\* The shape of the cookies, of what is in flight, and of the cache.
TypeOK ==
    /\ DOMAIN profiles \subseteq 1..(MaxEvents + 1)
    /\ jar \in [access : Tokens, refresh : Tokens, flow : Tabs \cup {None}]
    /\ tabs \in [Tabs -> {"loading", "in", "out", "away"}]
    /\ \A c \in Calls : calls[c].token \in Tokens /\ (calls[c].pc = "idle" => calls[c] = NoCall)
    /\ \A t \in Tabs : refreshes[t].pc # "idle" \/ Waiting(t) = {}
    /\ DOMAIN loads \subseteq Tokens \ {NoToken}
    /\ cache \subseteq Tokens \ {NoToken}
    /\ orphans \subseteq Tokens

\* No old refresh token reaches Profiles, however many tabs refresh at once,
\* unless the answer that brought the new one was lost.
ReplayNeedsLostAnswer ==
    \A s \in DOMAIN profiles : profiles[s].state = "replayed" => lost

\* The refresh tokens that refreshing has brought.
Rotated == UNION {{Token(s, n) : n \in 2..profiles[s].latest} : s \in DOMAIN profiles}

\* Tabs do not renew one after the other what one of them has renewed: there is
\* a reason for each new token.
RotationsHaveReasons == Cardinality(Rotated) <= reasons

\* A token that was signed out is not vouched for by the cache, unless a request
\* read it meanwhile.
SignedOutTokensAreForgotten == gone \cap cache = {}

\* A tab that knew the user takes the user for signed out.
SignsOut(t, c) ==
    /\ TabOf[c] = t /\ tabs[t] = "in" /\ tabs'[t] = "out"
    /\ calls[c] # NoCall /\ calls'[c] = NoCall

HasSession(s) == Newest(jar.refresh) /\ jar.refresh.s = s

\* A tab that knew the user shows a sign-in page only when the session is gone,
\* unless Profiles failed and the guard or the refresh answered that with a 401,
\* or the clock was set back.
SignOutIsReal ==
    [][\A t \in Tabs :
         tabs[t] = "in" /\ tabs'[t] = "out" =>
           \E c \in Calls : /\ SignsOut(t, c)
                            /\ \/ ~HasSession(calls[c].session)
                               \/ calls[c].verdict = "outage"
                               \/ calls[c].pc = "waiting" /\ refreshes[t].outcome = "mistaken"
                               \/ calls[c].late = "clock"]_vars

HasAccess == Live(jar.access) \/ Newest(jar.refresh)

\* In the end every tab shows whether the user is signed in.
TabsSettle ==
    <>[](\A t \in Tabs : tabs[t] # "away" => tabs[t] = (IF HasAccess THEN "in" ELSE "out"))

=============================================================================
