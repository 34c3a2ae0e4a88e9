------------------------ MODULE AuthenticationProofs ------------------------
(***************************************************************************)
(* Proofs about Authentication, for any number of tabs, of requests in     *)
(* flight and of events:                                                   *)
(*                                                                         *)
(*   NoNeedlessReplay     an old refresh token reaches Profiles only after *)
(*                        an answer was lost;                              *)
(*   SignOutsAreKept      a token that was signed out is not vouched for   *)
(*                        by the cache;                                    *)
(*   RefreshesHaveReasons no more refresh tokens are handed out than there *)
(*                        were reasons to ask for one;                     *)
(*   SignOutsAreReal      a tab that knew the user shows a sign-in page    *)
(*                        only when the session is gone.                   *)
(*                                                                         *)
(* The argument of the first: one tab at a time has a refresh under way;   *)
(* the token it sends is the newest of its session, and so is the one in   *)
(* the jar, unless an answer with a newer one is on its way.  Of the       *)
(* second: once revoked, a session is never live again, so that no load    *)
(* can find it so.  Of the third: a session gets its next token only if    *)
(* its newest refresh token is under way, or is in the jar while some      *)
(* request has seen its access token fail and no newer one.  The tokens    *)
(* handed out, those that such a refresh may still bring and a sign-in     *)
(* under way are never more than the reasons.  Of the fourth: only a       *)
(* token of a session that has ended is refused; a request sent again      *)
(* bears a token of the session that it remembers; and one that waits for  *)
(* a refused refresh was sent for that session, or for one already gone.   *)
(***************************************************************************)
EXTENDS Authentication, FiniteSetTheorems, TLAPS

-----------------------------------------------------------------------------
(* Types                                                                    *)

AnyToken == [s : Nat, n : Nat]
Lates == {"no", "yes", "clock"}
Verdicts == {"none", "ok", "bad", "outage"}

CallSlots ==
    [pc : {"idle", "sent", "joined", "answered", "waiting"}, token : AnyToken,
     verdict : Verdicts, retried : BOOLEAN, late : Lates, session : Nat]
RefreshSlots ==
    [pc : {"idle", "queued", "asked", "answered"}, token : AnyToken, late : Lates,
     outcome : {"none", "ok", "denied", "transient", "mistaken"}]
LogoutSlots ==
    [pc : {"idle", "delete", "revoke", "answered"}, tab : Tabs \cup {None},
     access : AnyToken, token : AnyToken, overlap : BOOLEAN]
Sessions == [latest : Nat, state : {"live", "replayed", "revoked"}]
Jars == [access : AnyToken, refresh : AnyToken, flow : Tabs \cup {None}]

SessionsOK ==
    /\ Cardinality(DOMAIN profiles) \in Nat
    /\ DOMAIN profiles = 1..Cardinality(DOMAIN profiles)
    /\ profiles \in [DOMAIN profiles -> Sessions]

LogoutOK == logout \in LogoutSlots /\ (logout.pc # "idle" => logout.tab \in Tabs)

Shape ==
    /\ SessionsOK
    /\ jar \in Jars
    /\ calls \in [Calls -> CallSlots]
    /\ refreshes \in [Tabs -> RefreshSlots]
    /\ LogoutOK
    /\ orphans \subseteq AnyToken
    /\ \A x \in DOMAIN loads : loads[x] \in {"asked"} \cup Verdicts

-----------------------------------------------------------------------------
(* Replays                                                                  *)

\* A token of a session that exists, or none.
Known(token) == token.s = 0 \/ token.s \in DOMAIN profiles

\* Presenting the token replays nothing.
Current(token) == Known(token) /\ (Live(token) => Newest(token))

InTurn(t) == refreshes[t].pc \in {"asked", "answered"}

OneInTurn == \A t, u \in Tabs : InTurn(t) /\ InTurn(u) => t = u

Bears(t) == refreshes[t].pc = "answered" /\ refreshes[t].outcome = "ok"

\* Without a lost answer, the tokens that may be sent are current.
TokensAreCurrent ==
    /\ orphans = {}
    /\ \A s \in DOMAIN profiles : profiles[s].state # "replayed"
    /\ \A t \in Tabs : refreshes[t].pc = "asked" => Current(refreshes[t].token)
    /\ \A t \in Tabs : Bears(t) => Current(refreshes[t].token)
    /\ Known(jar.refresh)
    /\ \/ Current(jar.refresh)
       \/ \E t \in Tabs : Bears(t) /\ refreshes[t].token.s = jar.refresh.s

ReplayInv == OneInTurn /\ (lost \/ TokensAreCurrent)

-----------------------------------------------------------------------------
(* Sign-outs                                                                *)

\* The access token goes with the refresh token.
Pairs ==
    /\ Known(jar.refresh)
    /\ jar.access # NoToken => jar.refresh.s = jar.access.s /\ jar.access.s \in DOMAIN profiles
    /\ logout.pc # "idle" /\ logout.access # NoToken =>
         logout.token.s = logout.access.s /\ logout.access.s \in DOMAIN profiles
    /\ \A t \in Tabs : Bears(t) => refreshes[t].token.s \in DOMAIN profiles

Forgotten(token) ==
    /\ token \notin cache
    /\ token \in DOMAIN loads => loads[token] # "ok"

GoneAreForgotten == \A x \in gone : Forgotten(x) /\ x.s \in DOMAIN profiles /\ ~Live(x)

\* The token that is signed out while no load of it is under way.
Leaving == logout.pc = "revoke" /\ ~logout.overlap
LeavingIsForgotten == Leaving => logout.access \notin cache /\ logout.access \notin DOMAIN loads

GoneInv == GoneAreForgotten /\ LeavingIsForgotten

IInv == Shape /\ ReplayInv /\ Pairs /\ GoneInv

-----------------------------------------------------------------------------
(* The types are kept                                                       *)

LEMMA NothingIs ==
  /\ NoToken \in AnyToken /\ NoCall \in CallSlots /\ NoRefresh \in RefreshSlots
  /\ NoLogout \in LogoutSlots
  <1>1. NoToken \in AnyToken
    BY DEF NoToken, Token, AnyToken
  <1> QED
    BY <1>1 DEF NoCall, NoRefresh, NoLogout, CallSlots, RefreshSlots, LogoutSlots, Lates, Verdicts

LEMMA SentIs ==
  ASSUME NEW r \in BOOLEAN, NEW l \in Lates, NEW j \in Jars
  PROVE  Sent(r, l, j) \in CallSlots
  <1>1. j.access \in AnyToken /\ j.refresh.s \in Nat
    BY DEF Jars, AnyToken
  <1>2. NoCall \in CallSlots
    BY NothingIs
  <1> HIDE DEF NoCall
  <1> QED
    BY <1>1, <1>2 DEF Sent, CallSlots

LEMMA ResumedIs ==
  ASSUME calls \in [Calls -> CallSlots], NEW t \in Tabs, NEW o, NEW l \in Lates, NEW j \in Jars
  PROVE  Resumed(t, o, l, j) \in [Calls -> CallSlots]
  <1>1. Sent(TRUE, l, j) \in CallSlots /\ NoCall \in CallSlots
    BY SentIs, NothingIs
  <1> QED
    BY <1>1 DEF Resumed

\* Sessions are only added, and none that has ended goes on again.
SessionsGrow ==
    /\ DOMAIN profiles \subseteq DOMAIN profiles'
    /\ \A s \in DOMAIN profiles : profiles[s].state # "live" => profiles'[s].state # "live"

LEMMA PresentedIs ==
  ASSUME SessionsOK, NEW x \in AnyToken
  PROVE  /\ Presented(x) \in [DOMAIN profiles -> Sessions]
         /\ DOMAIN Presented(x) = DOMAIN profiles
         /\ \A s \in DOMAIN profiles : profiles[s].state # "live" => Presented(x)[s] = profiles[s]
         /\ \A s \in DOMAIN profiles : s # x.s => Presented(x)[s] = profiles[s]
         /\ Newest(x) => /\ Presented(x)[x.s].latest = x.n + 1
                         /\ Presented(x)[x.s].state = profiles[x.s].state
         /\ ~Live(x) => Presented(x) = profiles
  BY DEF SessionsOK, Sessions, Presented, Newest, Live, AnyToken

LEMMA SessionsStep ==
  ASSUME Shape, [Next]_vars
  PROVE  SessionsOK' /\ SessionsGrow
  <1>1. SessionsOK /\ orphans \subseteq AnyToken /\ (\A t \in Tabs : refreshes[t].token \in AnyToken)
    BY DEF Shape, RefreshSlots
  <1>2. ASSUME NEW x \in AnyToken, profiles' = Presented(x) PROVE SessionsOK' /\ SessionsGrow
    BY <1>1, <1>2, PresentedIs DEF SessionsOK, SessionsGrow
  <1>3. CASE UNCHANGED profiles
    BY <1>1, <1>3 DEF SessionsOK, SessionsGrow
  <1>4. ASSUME NEW t \in Tabs, Rotate(t) \/ RotateFails(t) PROVE SessionsOK' /\ SessionsGrow
    BY <1>1, <1>2, <1>3, <1>4 DEF Rotate, RotateFails
  <1>5. CASE Orphan
    BY <1>1, <1>2, <1>5 DEF Orphan
  <1>6. CASE Revoke
    <2>1. CASE Live(logout.token) /\ profiles' = [profiles EXCEPT ![logout.token.s].state = "revoked"]
      BY <1>1, <2>1 DEF SessionsOK, SessionsGrow, Sessions, Live
    <2> QED
      BY <1>3, <1>6, <2>1 DEF Revoke
  <1>7. ASSUME NEW t \in Tabs, Callback(t) PROVE SessionsOK' /\ SessionsGrow
    <2> DEFINE s == Cardinality(DOMAIN profiles) + 1
    <2>1. CASE profiles' = [x \in DOMAIN profiles \cup {s} |->
                              IF x = s THEN [latest |-> 1, state |-> "live"] ELSE profiles[x]]
      <3>1. DOMAIN profiles \cup {s} = 1..s /\ s \notin DOMAIN profiles /\ s \in Nat
        BY <1>1 DEF SessionsOK
      <3>2. Cardinality(1..s) = s
        BY <3>1, FS_Interval
      <3>3. DOMAIN profiles' = 1..s
        BY <2>1, <3>1
      <3>4. profiles' \in [DOMAIN profiles' -> Sessions]
        BY <1>1, <2>1, <3>1 DEF SessionsOK, Sessions
      <3>5. \A x \in DOMAIN profiles : profiles'[x] = profiles[x]
        BY <2>1, <3>1
      <3> HIDE DEF s
      <3> QED
        BY <1>1, <3>1, <3>2, <3>3, <3>4, <3>5 DEF SessionsOK, SessionsGrow
    <2> QED
      BY <1>3, <1>7, <2>1 DEF Callback
  <1> QED
    BY <1>3, <1>4, <1>5, <1>6, <1>7
       DEF Next, Serve, Validate, Renew, Enter, SigningOut, vars, browser, Reload, Guard, Load, Loaded,
           Handle, Skip, CallRefresh, Settle, GiveUp, Logout, Login, Forget, Expire, StepBack,
           CatchUp, Delete, LoggedOut, LogoutLost

LEMMA JarStep == ASSUME Shape, [Next]_vars PROVE jar' \in Jars
  <1>1. /\ jar \in Jars /\ NoToken \in AnyToken
        /\ \A t \in Tabs : refreshes[t].token \in AnyToken
    BY NothingIs DEF Shape, RefreshSlots
  <1>2. CASE UNCHANGED jar
    BY <1>1, <1>2
  <1>3. ASSUME NEW t \in Tabs, Settle(t) PROVE jar' \in Jars
    BY <1>1, <1>3 DEF Settle, Jars
  <1>4. ASSUME NEW t \in Tabs, Login(t) PROVE jar' \in Jars
    BY <1>1, <1>4 DEF Login, Jars
  <1>5. ASSUME NEW t \in Tabs, Callback(t) PROVE jar' \in Jars
    <2>1. Token(Cardinality(DOMAIN profiles) + 1, 1) \in AnyToken
      BY DEF Shape, SessionsOK, Token, AnyToken
    <2> QED
      BY <1>1, <1>5, <2>1 DEF Callback, Jars
  <1>6. CASE Expire \/ LoggedOut
    BY <1>1, <1>6 DEF Expire, LoggedOut, Jars
  <1> QED
    BY <1>2, <1>3, <1>4, <1>5, <1>6
       DEF Next, Serve, Validate, Renew, Enter, SigningOut, vars, browser, Reload, Guard, Load, Loaded,
           Handle, Skip, CallRefresh, Rotate, RotateFails, GiveUp, Logout, Orphan, Forget, StepBack,
           CatchUp, Delete, Revoke, LogoutLost

LEMMA CallsStep == ASSUME Shape, [Next]_vars PROVE calls' \in [Calls -> CallSlots]
  <1>1. /\ calls \in [Calls -> CallSlots] /\ NoCall \in CallSlots /\ jar \in Jars /\ jar' \in Jars
        /\ \A t \in Tabs : refreshes[t].late \in Lates
        /\ \A x \in DOMAIN loads : loads[x] # "asked" => loads[x] \in Verdicts
        /\ "ok" \in Verdicts /\ "bad" \in Verdicts
        /\ "no" \in Lates /\ "yes" \in Lates /\ "clock" \in Lates
    BY NothingIs, JarStep DEF Shape, RefreshSlots, Verdicts, Lates
  <1>2. CASE UNCHANGED calls
    BY <1>1, <1>2
  <1>3. ASSUME NEW c \in Calls, Reload(c) PROVE calls' \in [Calls -> CallSlots]
    BY <1>1, <1>3, SentIs DEF Reload
  <1>4. ASSUME NEW c \in Calls, Guard(c) PROVE calls' \in [Calls -> CallSlots]
    BY <1>1, <1>4 DEF Guard, CallSlots
  <1>5. ASSUME NEW x, NEW v \in Verdicts, Ends(x, v) PROVE calls' \in [Calls -> CallSlots]
    BY <1>1, <1>5 DEF Ends, CallSlots
  <1>6. ASSUME NEW x \in DOMAIN loads, Load(x) \/ Loaded(x) PROVE calls' \in [Calls -> CallSlots]
    BY <1>1, <1>2, <1>5, <1>6 DEF Load, Loaded
  <1>7. ASSUME NEW c \in Calls, Handle(c) PROVE calls' \in [Calls -> CallSlots]
    BY <1>1, <1>7 DEF Handle, CallSlots
  <1>8. ASSUME NEW t \in Tabs, Skip(t) \/ GiveUp(t) PROVE calls' \in [Calls -> CallSlots]
    BY <1>1, <1>8, ResumedIs, SMTT(30) DEF Skip, GiveUp
  <1>9. ASSUME NEW t \in Tabs, Settle(t) PROVE calls' \in [Calls -> CallSlots]
    <2> DEFINE after == Resumed(t, refreshes[t].outcome, "yes", jar')
    <2>1. after \in [Calls -> CallSlots]
      BY <1>1, ResumedIs
    <2>2. \A c \in Calls : calls'[c] \in {after[c], [after[c] EXCEPT !.late = "yes"]}
      BY <1>9 DEF Settle
    <2>3. calls' = [c \in Calls |-> calls'[c]]
      BY <1>9 DEF Settle
    <2> HIDE DEF after
    <2>4. \A c \in Calls : calls'[c] \in CallSlots
      BY <1>1, <2>1, <2>2 DEF CallSlots
    <2> QED
      BY <2>3, <2>4
  <1>10. ASSUME NEW t, Leave(t) PROVE calls' \in [Calls -> CallSlots]
    BY <1>1, <1>10 DEF Leave
  <1> QED
    BY <1>2, <1>3, <1>4, <1>6, <1>7, <1>8, <1>9, <1>10
       DEF Next, Serve, Validate, Renew, Enter, SigningOut, vars, browser,
           CallRefresh, Rotate, RotateFails, Logout, Login, Callback, Orphan, Forget, Expire, StepBack,
           CatchUp, Delete, Revoke, LoggedOut, LogoutLost

LEMMA RefreshStep == ASSUME Shape, [Next]_vars PROVE refreshes' \in [Tabs -> RefreshSlots]
  <1>1. /\ refreshes \in [Tabs -> RefreshSlots] /\ NoRefresh \in RefreshSlots /\ jar \in Jars
        /\ \A c \in Calls : calls[c].late \in Lates
        /\ NoToken \in AnyToken /\ "yes" \in Lates
    BY NothingIs DEF Shape, CallSlots, Lates
  <1>2. CASE UNCHANGED refreshes
    BY <1>1, <1>2
  <1>3. ASSUME NEW c \in Calls, Handle(c) PROVE refreshes' \in [Tabs -> RefreshSlots]
    <2>1. TabOf[c] \in Tabs
      BY CallsHaveTabs
    <2>2. ASSUME NEW l \in Lates
          PROVE  [NoRefresh EXCEPT !.pc = "queued", !.late = l] \in RefreshSlots
      BY <1>1 DEF NoRefresh, RefreshSlots
    <2>3. [NoRefresh EXCEPT !.pc = "queued", !.late = calls[c].late] \in RefreshSlots
      BY <1>1, <2>2
    <2> QED
      BY <1>1, <1>3, <2>1, <2>3 DEF Handle
  <1>4. ASSUME NEW t \in Tabs, Skip(t) \/ GiveUp(t) PROVE refreshes' \in [Tabs -> RefreshSlots]
    BY <1>1, <1>4 DEF Skip, GiveUp
  <1>5. ASSUME NEW t \in Tabs, CallRefresh(t) PROVE refreshes' \in [Tabs -> RefreshSlots]
    BY <1>1, <1>5, ZenonT(40) DEF CallRefresh, RefreshSlots, Jars
  <1>6. ASSUME NEW t \in Tabs, Rotate(t) PROVE refreshes' \in [Tabs -> RefreshSlots]
    <2> DEFINE new == IF Newest(refreshes[t].token)
                      THEN Token(refreshes[t].token.s, refreshes[t].token.n + 1) ELSE NoToken
               o == IF Newest(refreshes[t].token) THEN "ok" ELSE "denied"
    <2>1. new \in AnyToken
      BY <1>1 DEF Token, AnyToken, RefreshSlots
    <2>2. refreshes' = [refreshes EXCEPT ![t].pc = "answered", ![t].token = new, ![t].outcome = o]
      BY <1>6 DEF Rotate
    <2>3. o \in {"ok", "denied"}
      OBVIOUS
    <2> HIDE DEF new, o
    <2> QED
      BY <1>1, <2>1, <2>2, <2>3, ZenonT(40) DEF RefreshSlots
  <1>7. ASSUME NEW t \in Tabs, RotateFails(t) PROVE refreshes' \in [Tabs -> RefreshSlots]
    <2>1. PICK o \in {"transient", "mistaken"} :
            refreshes' = [refreshes EXCEPT ![t].pc = "answered", ![t].token = NoToken, ![t].outcome = o]
      BY <1>7 DEF RotateFails
    <2> QED
      BY <1>1, <2>1, ZenonT(40) DEF RefreshSlots
  <1>8. ASSUME NEW t \in Tabs, Settle(t) PROVE refreshes' \in [Tabs -> RefreshSlots]
    <2>1. \A u \in Tabs : refreshes'[u] \in {NoRefresh, refreshes[u], [refreshes[u] EXCEPT !.late = "yes"]}
      BY <1>8 DEF Settle
    <2>2. \A u \in Tabs : refreshes'[u] \in RefreshSlots
      BY <1>1, <2>1 DEF RefreshSlots
    <2>3. refreshes' = [u \in Tabs |-> refreshes'[u]]
      BY <1>8 DEF Settle
    <2> QED
      BY <2>2, <2>3
  <1>9. ASSUME NEW t, Leave(t) PROVE refreshes' \in [Tabs -> RefreshSlots]
    BY <1>1, <1>9 DEF Leave
  <1> QED
    BY <1>2, <1>3, <1>4, <1>5, <1>6, <1>7, <1>8, <1>9
       DEF Next, Serve, Validate, Renew, Enter, SigningOut, vars, browser, Reload, Guard, Load, Loaded,
           Logout, Login, Callback, Orphan, Forget, Expire, StepBack, CatchUp, Delete, Revoke,
           LoggedOut, LogoutLost

LEMMA LogoutStep == ASSUME Shape, [Next]_vars PROVE LogoutOK'
  <1>1. /\ logout \in LogoutSlots /\ NoLogout \in LogoutSlots /\ jar \in Jars
        /\ logout.pc # "idle" => logout.tab \in Tabs
    BY NothingIs DEF Shape, LogoutOK
  <1>2. CASE UNCHANGED logout
    BY <1>1, <1>2 DEF LogoutOK
  <1>3. ASSUME NEW b \in BOOLEAN, logout.pc # "idle",
               logout' = [logout EXCEPT !.pc = "revoke", !.overlap = b] PROVE LogoutOK'
    BY <1>1, <1>3 DEF LogoutOK, LogoutSlots
  <1>4. ASSUME NEW c \in Calls, Guard(c) PROVE LogoutOK'
    BY <1>1, <1>4 DEF LogoutOK, Guard, LogoutSlots
  <1>5. ASSUME NEW t \in Tabs, Logout(t) PROVE LogoutOK'
    BY <1>1, <1>5 DEF LogoutOK, Logout, LogoutSlots, Jars
  <1>6. CASE Delete
    <2> DEFINE b == logout.access \in DOMAIN loads
    <2>1. b \in BOOLEAN
      OBVIOUS
    <2>2. logout.pc # "idle" /\ logout' = [logout EXCEPT !.pc = "revoke", !.overlap = b]
      BY <1>6 DEF Delete
    <2> HIDE DEF b
    <2> QED
      BY <1>3, <2>1, <2>2
  <1>7. CASE Revoke
    BY <1>1, <1>7 DEF LogoutOK, Revoke, LogoutSlots
  <1>8. CASE LoggedOut \/ LogoutLost
    <2>1. NoLogout.pc = "idle"
      BY DEF NoLogout
    <2> QED
      BY <1>1, <1>8, <2>1 DEF LogoutOK, LoggedOut, LogoutLost
  <1> QED
    BY <1>2, <1>4, <1>5, <1>6, <1>7, <1>8
       DEF Next, Serve, Validate, Renew, Enter, SigningOut, vars, browser, Reload, Load, Loaded, Handle,
           Skip, CallRefresh, Rotate, RotateFails, Settle, GiveUp, Login, Callback, Orphan, Forget,
           Expire, StepBack, CatchUp

\* How loads come and go.
LoadsMove ==
    \/ loads' = loads /\ cache' \subseteq cache
    \/ \E c \in Calls : Guard(c) /\ cache' = cache /\ \A x \in DOMAIN loads' :
         \/ x \in DOMAIN loads /\ loads'[x] = loads[x]
         \/ x = calls[c].token /\ loads'[x] = "asked"
    \/ \E y \in DOMAIN loads :
         /\ \A x \in DOMAIN loads' :
              /\ x \in DOMAIN loads
              /\ \/ loads'[x] = loads[x]
                 \/ loads'[x] \in {"bad", "outage"}
                 \/ loads'[x] = "ok" /\ x = y /\ Live(y) /\ y \notin cache
         /\ cache' \subseteq cache \/ (loads[y] = "ok" /\ cache' = cache \cup {y})

LEMMA LoadsStep == ASSUME [Next]_vars PROVE LoadsMove
  <1>1. CASE loads' = loads /\ cache' \subseteq cache
    BY <1>1 DEF LoadsMove
  <1>2. ASSUME NEW c \in Calls, Guard(c) PROVE LoadsMove
    BY <1>2 DEF Guard, LoadsMove
  <1>3. ASSUME NEW y \in DOMAIN loads, Load(y) PROVE LoadsMove
    BY <1>3 DEF Load, Ends, LoadsMove
  <1>4. ASSUME NEW y \in DOMAIN loads, Loaded(y) PROVE LoadsMove
    BY <1>4 DEF Loaded, Ends, LoadsMove
  <1> QED
    BY <1>1, <1>2, <1>3, <1>4
       DEF Next, Serve, Validate, Renew, Enter, SigningOut, vars, browser, Reload, Handle, Skip,
           CallRefresh, Rotate, RotateFails, Settle, GiveUp, Logout, Login, Callback, Orphan, Forget,
           Expire, StepBack, CatchUp, Delete, Deleted, Revoke, LoggedOut, LogoutLost

LEMMA OrphansStep == ASSUME Shape, [Next]_vars PROVE orphans' \subseteq AnyToken
  <1>1. /\ orphans \subseteq AnyToken /\ \A t \in Tabs : refreshes[t].token \in AnyToken
        /\ logout.pc # "idle" => logout.tab \in Tabs
    BY DEF Shape, RefreshSlots, LogoutOK
  <1>2. CASE UNCHANGED orphans \/ Orphan
    BY <1>1, <1>2 DEF Orphan
  <1>3. ASSUME NEW t \in Tabs, orphans' = Abandoned(t) PROVE orphans' \subseteq AnyToken
    BY <1>1, <1>3 DEF Abandoned
  <1>4. CASE LoggedOut
    BY <1>1, <1>4 DEF LoggedOut, Leave, Abandoned
  <1> QED
    BY <1>2, <1>3, <1>4, ZenonT(40)
       DEF Next, Serve, Validate, Renew, Enter, SigningOut, vars, browser, Reload, Guard, Load, Loaded,
           Handle, Skip, CallRefresh, Rotate, RotateFails, Settle, GiveUp, Logout, Login, Leave, Callback,
           Forget, Expire, StepBack, CatchUp, Delete, Revoke, LogoutLost

LEMMA ShapeStep == Shape /\ [Next]_vars => Shape'
  <1> SUFFICES ASSUME Shape, [Next]_vars PROVE Shape'
    OBVIOUS
  <1>1. \A x \in DOMAIN loads' : loads'[x] \in {"asked"} \cup Verdicts
    BY LoadsStep DEF LoadsMove, Shape, Verdicts
  <1> QED
    BY <1>1, SessionsStep, JarStep, CallsStep, RefreshStep, LogoutStep, OrphansStep DEF Shape

-----------------------------------------------------------------------------
(* No needless replay                                                       *)

Same(t) ==
    /\ refreshes'[t].pc = refreshes[t].pc /\ refreshes'[t].token = refreshes[t].token
    /\ refreshes'[t].outcome = refreshes[t].outcome
Rests(t) == refreshes'[t].pc \in {"idle", "queued"}

\* The sessions, as far as it matters which tokens are current.
TokensStay ==
    /\ \A x \in AnyToken : Known(x) => Known(x)'
    /\ \A x \in AnyToken : Current(x) => Current(x)'
    /\ \A s \in DOMAIN profiles' : profiles'[s].state # "replayed"

LEMMA StillCurrent ==
  ASSUME Shape, Shape', TokensAreCurrent, TokensStay, orphans' = {},
         \A t \in Tabs : Same(t) \/ Rests(t),
         \/ Current(jar.refresh)'
         \/ jar'.refresh = jar.refresh /\ \A t \in Tabs : Bears(t) => Same(t)
  PROVE  TokensAreCurrent'
  <1>1. /\ \A t \in Tabs : refreshes[t].token \in AnyToken /\ refreshes'[t].token \in AnyToken
        /\ jar.refresh \in AnyToken /\ jar'.refresh \in AnyToken
    BY DEF Shape, RefreshSlots, Jars
  <1>2. \A t \in Tabs : refreshes'[t].pc = "asked" => Current(refreshes[t].token)'
    <2>1. ASSUME NEW t \in Tabs, refreshes'[t].pc = "asked"
          PROVE  refreshes[t].pc = "asked" /\ refreshes'[t].token = refreshes[t].token
      BY <2>1 DEF Same, Rests
    <2>2. ASSUME NEW t \in Tabs, refreshes[t].pc = "asked"
          PROVE  Current(refreshes[t].token)
      BY <2>2 DEF TokensAreCurrent
    <2> QED
      BY <1>1, <2>1, <2>2 DEF TokensStay, Current, Known, Live, Newest
  <1>3. \A t \in Tabs : Bears(t)' => Current(refreshes[t].token)'
    <2>1. ASSUME NEW t \in Tabs, Bears(t)'
          PROVE  Bears(t) /\ refreshes'[t].token = refreshes[t].token
      BY <2>1 DEF Same, Rests, Bears
    <2>2. ASSUME NEW t \in Tabs, Bears(t)
          PROVE  Current(refreshes[t].token)
      BY <2>2 DEF TokensAreCurrent
    <2> QED
      BY <1>1, <2>1, <2>2 DEF TokensStay, Current, Known, Live, Newest
  <1>4. Known(jar.refresh)'
    BY <1>1 DEF TokensAreCurrent, TokensStay, Current, Known
  <1>5. \/ Current(jar.refresh)'
        \/ \E t \in Tabs : Bears(t)' /\ refreshes'[t].token.s = jar'.refresh.s
    <2>1. CASE jar'.refresh = jar.refresh /\ Current(jar.refresh)
      BY <1>1, <2>1 DEF TokensStay, Current, Known, Live, Newest
    <2>2. CASE jar'.refresh = jar.refresh /\ \A t \in Tabs : Bears(t) => Same(t)
      <3>1. ASSUME NEW t \in Tabs, Bears(t), refreshes[t].token.s = jar.refresh.s
            PROVE  Bears(t)' /\ refreshes'[t].token.s = jar'.refresh.s
        BY <2>2, <3>1 DEF Same, Bears
      <3> QED
        BY <2>1, <2>2, <3>1 DEF TokensAreCurrent
    <2> QED
      BY <2>2
  <1> QED
    BY <1>2, <1>3, <1>4, <1>5 DEF TokensAreCurrent, TokensStay

\* Steps that touch neither sessions nor the refresh token in the jar, and only let
\* a refresh wait or end.
Quiet ==
    /\ profiles' = profiles /\ jar'.refresh = jar.refresh /\ orphans' = orphans
    /\ \A t \in Tabs : Same(t) \/ (Rests(t) /\ ~Bears(t))

LEMMA QuietStaysCurrent ==
  ASSUME Shape, Shape', TokensAreCurrent, Quiet PROVE TokensAreCurrent'
  <1>1. TokensStay
    BY DEF TokensStay, TokensAreCurrent, Quiet, Known, Current, Live, Newest
  <1> QED
    BY <1>1, StillCurrent DEF Quiet, TokensAreCurrent

LEMMA QuietSteps ==
  ASSUME Shape,
         \/ UNCHANGED vars
         \/ \E c \in Calls : Reload(c) \/ Guard(c) \/ Handle(c)
         \/ \E x \in DOMAIN loads : Load(x) \/ Loaded(x)
         \/ \E t \in Tabs : Skip(t) \/ Logout(t)
         \/ Forget \/ Expire \/ StepBack \/ CatchUp \/ Delete \/ LogoutLost
  PROVE  Quiet /\ lost' = lost
  <1>1. refreshes \in [Tabs -> RefreshSlots] /\ jar \in Jars
    BY DEF Shape
  <1>2. CASE UNCHANGED <<profiles, jar, refreshes, orphans, lost>>
    BY <1>1, <1>2 DEF Quiet, Same
  <1>3. ASSUME NEW c \in Calls, Handle(c) PROVE Quiet /\ lost' = lost
    <2> DEFINE q == [NoRefresh EXCEPT !.pc = "queued", !.late = calls[c].late]
    <2>1. /\ UNCHANGED <<profiles, jar, orphans, lost>> /\ TabOf[c] \in Tabs
          /\ \/ refreshes' = refreshes
             \/ refreshes[TabOf[c]].pc = "idle" /\ refreshes' = [refreshes EXCEPT ![TabOf[c]] = q]
      BY <1>3, CallsHaveTabs DEF Handle
    <2>2. q.pc = "queued"
      BY DEF NoRefresh
    <2> HIDE DEF q
    <2> QED
      BY <1>1, <2>1, <2>2 DEF Quiet, Same, Rests, Bears
  <1>4. ASSUME NEW t \in Tabs, Skip(t) PROVE Quiet /\ lost' = lost
    BY <1>1, <1>4 DEF Skip, Quiet, Same, Rests, Bears, NoRefresh
  <1>5. CASE Expire
    BY <1>1, <1>5 DEF Expire, Quiet, Same, Jars
  <1> QED
    BY <1>2, <1>3, <1>4, <1>5
       DEF vars, browser, Reload, Guard, Load, Loaded, Logout, Forget, StepBack, CatchUp, Delete,
           LogoutLost

\* Whoever stops waiting, or leaves the page, without losing an answer.
LEMMA AbandonSteps ==
  ASSUME Shape, ~lost', NEW t \in Tabs, GiveUp(t) \/ Leave(t)
  PROVE  /\ orphans' = orphans /\ ~lost
         /\ \A u \in Tabs : Same(u) \/ (Rests(u) /\ ~Bears(u))
  <1>1. refreshes \in [Tabs -> RefreshSlots] /\ NoRefresh.pc = "idle"
    BY DEF Shape, NoRefresh
  <1>2. refreshes' = [refreshes EXCEPT ![t] = NoRefresh] /\ orphans' = Abandoned(t)
    BY DEF GiveUp, Leave
  <1>3. ~lost /\ ~LosesAnswer(t)
    BY DEF GiveUp, Leave
  <1> HIDE DEF NoRefresh
  <1> QED
    BY <1>1, <1>2, <1>3 DEF Abandoned, LosesAnswer, Same, Rests, Bears

LEMMA RotateStep ==
  ASSUME Shape, Shape', OneInTurn, TokensAreCurrent, NEW t \in Tabs, Rotate(t)
  PROVE  TokensAreCurrent'
  <1> DEFINE x == refreshes[t].token
  <1>1. /\ refreshes \in [Tabs -> RefreshSlots] /\ x \in AnyToken /\ jar.refresh \in AnyToken
        /\ SessionsOK
    BY DEF Shape, RefreshSlots, Jars
  <1>2. /\ jar' = jar /\ orphans' = {} /\ profiles' = Presented(x)
        /\ \A u \in Tabs \ {t} : refreshes'[u] = refreshes[u] /\ ~InTurn(u)
        /\ refreshes'[t].pc = "answered"
        /\ refreshes'[t].token = IF Newest(x) THEN Token(x.s, x.n + 1) ELSE NoToken
        /\ refreshes'[t].outcome = IF Newest(x) THEN "ok" ELSE "denied"
    BY <1>1 DEF Rotate, OneInTurn, InTurn, RefreshSlots, TokensAreCurrent
  <1>3. Current(x) /\ Current(jar.refresh) /\ Known(jar.refresh)
    <2>1. \A u \in Tabs : ~Bears(u)
      BY <1>2 DEF Rotate, Bears, InTurn
    <2> QED
      BY <2>1 DEF TokensAreCurrent, Rotate
  <1>4. \A u \in Tabs \ {t} : refreshes'[u].pc # "asked" /\ ~Bears(u)'
    BY <1>2 DEF InTurn, Bears
  <1>5. CASE ~Live(x)
    <2>1. profiles' = profiles /\ ~Newest(x)
      BY <1>1, <1>2, <1>5, PresentedIs DEF Newest
    <2>2. ~Bears(t)' /\ refreshes'[t].pc # "asked"
      BY <1>2, <2>1 DEF Bears
    <2>3. Current(jar.refresh)' /\ Known(jar.refresh)'
      BY <1>2, <1>3, <2>1 DEF Current, Known, Live, Newest
    <2> QED
      BY <1>2, <1>4, <2>1, <2>2, <2>3 DEF TokensAreCurrent
  <1>6. CASE Live(x)
    <2>1. Newest(x)
      BY <1>3, <1>6 DEF Current
    <2>2. /\ DOMAIN profiles' = DOMAIN profiles
          /\ \A s \in DOMAIN profiles : s # x.s => profiles'[s] = profiles[s]
          /\ profiles'[x.s].latest = x.n + 1 /\ profiles'[x.s].state = profiles[x.s].state
          /\ x.s \in DOMAIN profiles
      BY <1>1, <1>2, <1>6, <2>1, PresentedIs DEF Live
    <2>3. \A s \in DOMAIN profiles' : profiles'[s].state # "replayed"
      BY <2>2 DEF TokensAreCurrent
    <2>4. Bears(t)' /\ refreshes'[t].token.s = x.s /\ refreshes'[t].token.n = x.n + 1
      BY <1>2, <2>1 DEF Bears, Token
    <2>5. Current(refreshes[t].token)'
      BY <2>2, <2>4 DEF Current, Known, Live, Newest
    <2>6. Known(jar.refresh)'
      BY <1>2, <1>3, <2>2 DEF Known
    <2>7. jar.refresh.s # x.s => Current(jar.refresh)'
      BY <1>2, <1>3, <2>2 DEF Current, Known, Live, Newest
    <2> HIDE DEF x
    <2> QED
      BY <1>2, <1>4, <2>3, <2>4, <2>5, <2>6, <2>7 DEF TokensAreCurrent
  <1> QED
    BY <1>5, <1>6

LEMMA CurrentStep ==
  ASSUME Shape, Shape', OneInTurn, lost \/ TokensAreCurrent, [Next]_vars, ~lost'
  PROVE  TokensAreCurrent'
  <1>1. /\ refreshes \in [Tabs -> RefreshSlots] /\ jar \in Jars /\ SessionsOK /\ LogoutOK
        /\ 0 \notin DOMAIN profiles /\ 0 \notin DOMAIN profiles'
    BY DEF Shape, SessionsOK
  <1>2. CASE Quiet /\ lost' = lost
    BY <1>2, QuietStaysCurrent
  <1>3. ASSUME NEW t \in Tabs, GiveUp(t) PROVE TokensAreCurrent'
    <2>1. ~lost /\ Quiet
      BY <1>3, AbandonSteps DEF Quiet, GiveUp
    <2> QED
      BY <2>1, QuietStaysCurrent
  <1>4. ASSUME NEW t \in Tabs, Login(t) PROVE TokensAreCurrent'
    <2>1. ~lost /\ Quiet
      BY <1>1, <1>4, AbandonSteps DEF Quiet, Login, Jars
    <2> QED
      BY <2>1, QuietStaysCurrent
  <1>5. CASE LoggedOut
    <2>1. logout.tab \in Tabs /\ Leave(logout.tab) /\ profiles' = profiles /\ jar'.refresh = NoToken
      BY <1>1, <1>5 DEF LoggedOut, LogoutOK
    <2>2. ~lost /\ orphans' = orphans /\ \A u \in Tabs : Same(u) \/ Rests(u)
      BY <2>1, AbandonSteps
    <2>3. TokensStay
      BY <2>1, <2>2 DEF TokensStay, TokensAreCurrent, Known, Current, Live, Newest
    <2>4. Current(jar.refresh)'
      BY <1>1, <2>1 DEF Current, Known, Live, NoToken, Token
    <2> QED
      BY <2>2, <2>3, <2>4, StillCurrent DEF TokensAreCurrent
  <1>6. CASE Orphan
    BY <1>6 DEF Orphan, TokensAreCurrent
  <1>7. ASSUME NEW t \in Tabs, RotateFails(t) PROVE TokensAreCurrent'
    BY <1>7 DEF RotateFails
  <1>8. CASE Revoke
    <2>1. /\ UNCHANGED <<jar, refreshes, orphans, lost>>
          /\ \/ profiles' = profiles
             \/ profiles' = [profiles EXCEPT ![logout.token.s].state = "revoked"]
      BY <1>8 DEF Revoke, browser
    <2>2. TokensAreCurrent
      BY <2>1
    <2>3. /\ DOMAIN profiles' = DOMAIN profiles
          /\ \A s \in DOMAIN profiles :
               profiles'[s].latest = profiles[s].latest /\ profiles'[s].state \in {profiles[s].state, "revoked"}
      <3> DEFINE k == logout.token.s
      <3>1. \A s \in DOMAIN profiles : profiles[s] \in Sessions
        BY <1>1 DEF SessionsOK
      <3>2. CASE profiles' = [profiles EXCEPT ![k].state = "revoked"]
        <4>1. DOMAIN profiles' = DOMAIN profiles
          BY <3>2
        <4>2. \A s \in DOMAIN profiles :
                 profiles'[s] = IF s = k THEN [profiles[s] EXCEPT !.state = "revoked"] ELSE profiles[s]
          BY <1>1, <3>2 DEF SessionsOK
        <4> QED
          BY <3>1, <4>1, <4>2 DEF Sessions
      <3> QED
        BY <2>1, <3>2
    <2>4. TokensStay
      <3>1. \A s \in DOMAIN profiles : profiles'[s].state = "live" => profiles[s].state = "live"
        BY <2>3
      <3>2. \A s \in DOMAIN profiles' : profiles'[s].state # "replayed"
        BY <2>2, <2>3 DEF TokensAreCurrent
      <3> QED
        BY <2>3, <3>1, <3>2 DEF TokensStay, Known, Current, Live, Newest
    <2> QED
      BY <2>1, <2>2, <2>4, StillCurrent DEF Same, TokensAreCurrent
  <1>9. ASSUME NEW t \in Tabs, Callback(t) PROVE TokensAreCurrent'
    <2> DEFINE s == Cardinality(DOMAIN profiles) + 1
    <2>1. UNCHANGED <<refreshes, orphans, lost>>
      BY <1>9 DEF Callback
    <2>2. CASE profiles' = profiles /\ jar' = [jar EXCEPT !.flow = None]
      <3>1. Quiet
        BY <1>1, <2>1, <2>2 DEF Quiet, Same, Jars
      <3> QED
        BY <2>1, <3>1, QuietStaysCurrent
    <2>3. CASE /\ profiles' = [x \in DOMAIN profiles \cup {s} |->
                                 IF x = s THEN [latest |-> 1, state |-> "live"] ELSE profiles[x]]
               /\ jar'.refresh = Token(s, 1)
      <3>1. s \notin DOMAIN profiles /\ s # 0
        BY <1>1 DEF SessionsOK
      <3> HIDE DEF s
      <3>2. TokensStay
        BY <2>1, <2>3, <3>1 DEF TokensStay, TokensAreCurrent, Known, Current, Live, Newest
      <3>3. Current(jar.refresh)'
        BY <2>3 DEF Current, Known, Live, Newest, Token
      <3> QED
        BY <2>1, <3>2, <3>3, StillCurrent DEF Same, TokensAreCurrent
    <2> QED
      BY <1>9, <2>2, <2>3 DEF Callback
  <1>10. ASSUME NEW t \in Tabs, CallRefresh(t) PROVE TokensAreCurrent'
    <2>1. /\ UNCHANGED <<profiles, jar, orphans, lost>>
          /\ refreshes'[t].pc = "asked" /\ refreshes'[t].token = jar.refresh
          /\ \A u \in Tabs \ {t} : refreshes'[u] = refreshes[u]
      BY <1>1, <1>10 DEF CallRefresh, RefreshSlots
    <2>2. \A u \in Tabs : ~Bears(u)
      BY <1>10 DEF CallRefresh, LockIsFree, Bears
    <2>3. TokensAreCurrent /\ Current(jar.refresh)
      BY <2>1, <2>2 DEF TokensAreCurrent
    <2>4. \A u \in Tabs : ~Bears(u)'
      BY <2>1, <2>2 DEF Bears
    <2>5. Current(jar.refresh)' /\ Known(jar.refresh)'
      BY <2>1, <2>3 DEF Current, Known, Live, Newest
    <2>6. ASSUME NEW u \in Tabs, refreshes'[u].pc = "asked" PROVE Current(refreshes[u].token)'
      <3>1. CASE u = t
        BY <2>1, <2>5, <3>1 DEF Current, Known, Live, Newest
      <3>2. CASE u # t
        <4>1. refreshes'[u] = refreshes[u] /\ Current(refreshes[u].token)
          BY <2>1, <2>3, <2>6, <3>2 DEF TokensAreCurrent
        <4> QED
          BY <2>1, <4>1 DEF Current, Known, Live, Newest
      <3> QED
        BY <3>1, <3>2
    <2> QED
      BY <2>1, <2>3, <2>4, <2>5, <2>6 DEF TokensAreCurrent
  <1>11. ASSUME NEW t \in Tabs, Rotate(t) PROVE TokensAreCurrent'
    BY <1>11, RotateStep DEF Rotate
  <1>12. ASSUME NEW t \in Tabs, Settle(t) PROVE TokensAreCurrent'
    <2>1. /\ UNCHANGED <<profiles, orphans, lost>>
          /\ refreshes[t].pc = "answered" /\ refreshes'[t] = NoRefresh
          /\ \A u \in Tabs \ {t} : refreshes'[u] \in {refreshes[u], [refreshes[u] EXCEPT !.late = "yes"]}
          /\ \/ refreshes[t].outcome # "ok" /\ jar' = jar
             \/ Bears(t) /\ jar'.refresh = refreshes[t].token
      BY <1>1, <1>12 DEF Settle, Bears, Jars
    <2>2. Rests(t) /\ \A u \in Tabs \ {t} : Same(u)
      <3>1. Rests(t)
        BY <2>1 DEF Rests, NoRefresh
      <3> QED
        BY <1>1, <2>1, <3>1 DEF Same, RefreshSlots
    <2>3. CASE refreshes[t].outcome # "ok" /\ jar' = jar
      <3>1. Quiet
        BY <2>1, <2>2, <2>3 DEF Quiet, Bears
      <3> QED
        BY <2>1, <3>1, QuietStaysCurrent
    <2>4. CASE Bears(t) /\ jar'.refresh = refreshes[t].token
      <3>1. Current(jar.refresh)'
        BY <2>1, <2>4 DEF TokensAreCurrent, Current, Known, Live, Newest
      <3>2. TokensStay
        BY <2>1 DEF TokensStay, TokensAreCurrent, Known, Current, Live, Newest
      <3> QED
        BY <2>1, <2>2, <3>1, <3>2, StillCurrent DEF TokensAreCurrent
    <2> QED
      BY <2>1, <2>3, <2>4
  <1> QED
    BY <1>2, <1>3, <1>4, <1>5, <1>6, <1>7, <1>8, <1>9, <1>10, <1>11, <1>12, QuietSteps
       DEF Next, Serve, Validate, Renew, Enter, SigningOut

LEMMA OneInTurnStep == ASSUME Shape, OneInTurn, [Next]_vars PROVE OneInTurn'
  <1>1. refreshes \in [Tabs -> RefreshSlots] /\ LogoutOK
    BY DEF Shape
  <1>2. CASE \A t \in Tabs : InTurn(t)' => InTurn(t)
    BY <1>2 DEF OneInTurn
  <1>3. CASE Quiet
    BY <1>2, <1>3 DEF Quiet, Same, Rests, InTurn
  <1>4. ASSUME NEW t \in Tabs, GiveUp(t) \/ Leave(t) PROVE OneInTurn'
    <2>1. refreshes' = [refreshes EXCEPT ![t] = NoRefresh] /\ NoRefresh.pc = "idle"
      BY <1>4 DEF GiveUp, Leave, NoRefresh
    <2> HIDE DEF NoRefresh
    <2> QED
      BY <1>1, <1>2, <2>1 DEF InTurn
  <1>5. ASSUME NEW t \in Tabs, Settle(t) PROVE OneInTurn'
    <2>1. /\ refreshes'[t] = NoRefresh /\ NoRefresh.pc = "idle"
          /\ \A u \in Tabs \ {t} : refreshes'[u] \in {refreshes[u], [refreshes[u] EXCEPT !.late = "yes"]}
      BY <1>5 DEF Settle, NoRefresh
    <2>2. \A u \in Tabs \ {t} : refreshes'[u].pc = refreshes[u].pc
      BY <1>1, <2>1 DEF RefreshSlots
    <2> HIDE DEF NoRefresh
    <2> QED
      BY <1>2, <2>1, <2>2 DEF InTurn
  <1>6. ASSUME NEW t \in Tabs, Rotate(t) \/ RotateFails(t) PROVE OneInTurn'
    <2>1. InTurn(t) /\ \A u \in Tabs \ {t} : refreshes'[u] = refreshes[u]
      BY <1>1, <1>6 DEF Rotate, RotateFails, InTurn
    <2> QED
      BY <1>2, <2>1 DEF InTurn
  <1>7. ASSUME NEW t \in Tabs, CallRefresh(t) PROVE OneInTurn'
    <2>1. \A u \in Tabs \ {t} : refreshes'[u] = refreshes[u] /\ ~InTurn(u)
      BY <1>1, <1>7 DEF CallRefresh, LockIsFree, InTurn
    <2> QED
      BY <2>1 DEF OneInTurn, InTurn
  <1>8. ASSUME NEW t \in Tabs, Callback(t) PROVE OneInTurn'
    BY <1>2, <1>8 DEF Callback, InTurn
  <1>9. CASE Orphan \/ Revoke
    BY <1>2, <1>9 DEF Orphan, Revoke, browser, InTurn
  <1>10. CASE LoggedOut
    BY <1>1, <1>4, <1>10 DEF LoggedOut, LogoutOK
  <1>11. ASSUME NEW t \in Tabs, Login(t) PROVE OneInTurn'
    BY <1>4, <1>11 DEF Login
  <1> QED
    BY <1>3, <1>4, <1>5, <1>6, <1>7, <1>8, <1>9, <1>10, <1>11, QuietSteps
       DEF Next, Serve, Validate, Renew, Enter, SigningOut

-----------------------------------------------------------------------------
(* Sign-outs last                                                           *)

LEMMA BearersStep ==
  ASSUME Shape, Shape', Pairs, [Next]_vars, NEW t \in Tabs, Bears(t)'
  PROVE  refreshes'[t].token.s \in DOMAIN profiles'
  <1>1. /\ refreshes \in [Tabs -> RefreshSlots] /\ LogoutOK
        /\ DOMAIN profiles \subseteq DOMAIN profiles'
    BY SessionsStep DEF Shape, SessionsGrow
  <1>2. CASE Same(t)
    BY <1>1, <1>2 DEF Same, Bears, Pairs
  <1>3. ~Rests(t)
    BY DEF Rests, Bears
  <1>4. CASE Quiet
    BY <1>2, <1>3, <1>4 DEF Quiet
  <1>5. ASSUME NEW u \in Tabs, Rotate(u) PROVE refreshes'[t].token.s \in DOMAIN profiles'
    <2>1. CASE u = t
      <3>1. Newest(refreshes[t].token)
        BY <1>1, <1>5, <2>1 DEF Rotate, Bears, RefreshSlots
      <3>2. refreshes'[t].token.s = refreshes[t].token.s
        BY <1>1, <1>5, <2>1, <3>1 DEF Rotate, Token, RefreshSlots
      <3> QED
        BY <1>1, <3>1, <3>2 DEF Newest, Live
    <2>2. CASE u # t
      BY <1>1, <1>2, <1>5, <2>2 DEF Rotate, Same
    <2> QED
      BY <2>1, <2>2
  <1>6. ASSUME NEW u \in Tabs, RotateFails(u) \/ CallRefresh(u) PROVE refreshes'[t].token.s \in DOMAIN profiles'
    <2>1. u # t
      BY <1>1, <1>6 DEF RotateFails, CallRefresh, Bears, RefreshSlots
    <2> QED
      BY <1>1, <1>2, <1>6, <2>1 DEF RotateFails, CallRefresh, Same
  <1>7. ASSUME NEW u \in Tabs, Settle(u) PROVE Same(t)
    <2>1. u # t
      BY <1>7 DEF Settle, Bears, NoRefresh
    <2>2. refreshes'[t] \in {refreshes[t], [refreshes[t] EXCEPT !.late = "yes"]}
      BY <1>7, <2>1 DEF Settle
    <2> QED
      BY <1>1, <2>2 DEF Same, RefreshSlots
  <1>8. ASSUME NEW u \in Tabs, GiveUp(u) \/ Leave(u) PROVE Same(t)
    <2>1. refreshes' = [refreshes EXCEPT ![u] = NoRefresh] /\ NoRefresh.pc = "idle"
      BY <1>8 DEF GiveUp, Leave, NoRefresh
    <2> HIDE DEF NoRefresh
    <2> QED
      BY <1>1, <2>1 DEF Same, Bears
  <1>9. CASE UNCHANGED refreshes
    BY <1>2, <1>9 DEF Same
  <1>10. CASE Orphan \/ Revoke
    BY <1>9, <1>10 DEF Orphan, Revoke, browser
  <1>11. ASSUME NEW u \in Tabs, Callback(u) PROVE Same(t)
    BY <1>11 DEF Callback, Same
  <1>12. CASE LoggedOut
    BY <1>1, <1>2, <1>8, <1>12 DEF LoggedOut, LogoutOK
  <1>13. ASSUME NEW u \in Tabs, Login(u) PROVE Same(t)
    BY <1>8, <1>13 DEF Login
  <1> QED
    BY <1>2, <1>4, <1>5, <1>6, <1>7, <1>8, <1>10, <1>11, <1>12, <1>13, QuietSteps
       DEF Next, Serve, Validate, Renew, Enter, SigningOut

JarPairs ==
    /\ Known(jar.refresh)
    /\ jar.access # NoToken => jar.refresh.s = jar.access.s /\ jar.access.s \in DOMAIN profiles
LogoutPairs ==
    logout.pc # "idle" /\ logout.access # NoToken =>
        logout.token.s = logout.access.s /\ logout.access.s \in DOMAIN profiles

LEMMA JarPairsStep == ASSUME Shape, Shape', Pairs, [Next]_vars PROVE JarPairs'
  <1>1. jar \in Jars /\ JarPairs /\ DOMAIN profiles \subseteq DOMAIN profiles'
    BY SessionsStep DEF Shape, SessionsGrow, Pairs, JarPairs
  <1>2. CASE jar'.refresh = jar.refresh /\ jar'.access \in {jar.access, NoToken}
    BY <1>1, <1>2 DEF JarPairs, Known
  <1>3. CASE UNCHANGED jar
    BY <1>2, <1>3
  <1>4. ASSUME NEW t \in Tabs, Settle(t) PROVE JarPairs'
    <2>1. CASE Bears(t) /\ jar'.refresh = refreshes[t].token /\ jar'.access = refreshes[t].token
      BY <1>1, <2>1 DEF Pairs, JarPairs, Known
    <2> QED
      BY <1>1, <1>3, <1>4, <2>1 DEF Settle, Bears, Jars
  <1>5. ASSUME NEW t \in Tabs, Callback(t) PROVE JarPairs'
    <2> DEFINE s == Cardinality(DOMAIN profiles) + 1
    <2>1. CASE s \in DOMAIN profiles' /\ jar'.refresh = Token(s, 1) /\ jar'.access = Token(s, 1)
      BY <2>1 DEF JarPairs, Known, Token
    <2>2. CASE jar' = [jar EXCEPT !.flow = None]
      BY <1>1, <1>2, <2>2 DEF Jars
    <2> QED
      BY <1>5, <2>1, <2>2 DEF Callback
  <1>6. ASSUME NEW t \in Tabs, Login(t) PROVE JarPairs'
    BY <1>1, <1>2, <1>6 DEF Login, Jars
  <1>7. CASE Expire
    BY <1>1, <1>2, <1>7 DEF Expire, Jars
  <1>8. CASE LoggedOut
    BY <1>8 DEF LoggedOut, JarPairs, Known, NoToken, Token
  <1> QED
    BY <1>3, <1>4, <1>5, <1>6, <1>7, <1>8
       DEF Next, Serve, Validate, Renew, Enter, SigningOut, vars, browser, Reload, Guard, Load, Loaded,
           Handle, Skip, CallRefresh, Rotate, RotateFails, GiveUp, Logout, Orphan, Forget, StepBack,
           CatchUp, Delete, Revoke, LogoutLost

LEMMA LogoutPairsStep == ASSUME Shape, Shape', Pairs, [Next]_vars PROVE LogoutPairs'
  <1>1. logout \in LogoutSlots /\ LogoutPairs /\ DOMAIN profiles \subseteq DOMAIN profiles'
    BY SessionsStep DEF Shape, LogoutOK, SessionsGrow, Pairs, LogoutPairs
  <1>2. CASE /\ logout'.access = logout.access /\ logout'.token = logout.token
             /\ logout.pc = "idle" => logout'.pc = "idle"
    BY <1>1, <1>2 DEF LogoutPairs
  <1>3. CASE UNCHANGED logout
    BY <1>2, <1>3
  <1>4. ASSUME NEW c \in Calls, Guard(c) PROVE LogoutPairs'
    BY <1>1, <1>2, <1>4 DEF Guard, LogoutSlots
  <1>5. ASSUME NEW t \in Tabs, Logout(t) PROVE LogoutPairs'
    <2>1. /\ logout'.access = jar.access
          /\ logout'.token = IF jar.refresh = NoToken THEN jar.access ELSE jar.refresh
      BY <1>5 DEF Logout
    <2> QED
      BY <1>1, <2>1 DEF LogoutPairs, Pairs
  <1>6. CASE Delete
    BY <1>1, <1>2, <1>6 DEF Delete, LogoutSlots
  <1>7. CASE Revoke
    BY <1>1, <1>2, <1>7 DEF Revoke, LogoutSlots
  <1>8. CASE LoggedOut \/ LogoutLost
    BY <1>8 DEF LoggedOut, LogoutLost, LogoutPairs, NoLogout
  <1> QED
    BY <1>3, <1>4, <1>5, <1>6, <1>7, <1>8
       DEF Next, Serve, Validate, Renew, Enter, SigningOut, vars, browser, Reload, Load, Loaded, Handle,
           Skip, CallRefresh, Rotate, RotateFails, Settle, GiveUp, Login, Callback, Orphan, Forget,
           Expire, StepBack, CatchUp

LEMMA PairsStep == ASSUME Shape, Shape', Pairs, [Next]_vars PROVE Pairs'
  BY BearersStep, JarPairsStep, LogoutPairsStep DEF Pairs, JarPairs, LogoutPairs

LEMMA LeavingStep == ASSUME Shape, LeavingIsForgotten, [Next]_vars PROVE LeavingIsForgotten'
  <1>1. logout \in LogoutSlots
    BY DEF Shape, LogoutOK
  <1>2. CASE Delete
    BY <1>1, <1>2 DEF Delete, Deleted, LeavingIsForgotten, Leaving, LogoutSlots
  <1>3. ASSUME NEW c \in Calls, Guard(c) PROVE LeavingIsForgotten'
    <2>1. CASE loads' = loads /\ logout' = logout
      BY <1>3, <2>1 DEF Guard, LeavingIsForgotten, Leaving
    <2>2. CASE calls[c].token \in DOMAIN loads
      BY <1>1, <1>3, <2>2 DEF Guard, LeavingIsForgotten, Leaving, LogoutSlots
    <2>3. CASE calls[c].token \notin DOMAIN loads /\ DOMAIN loads' = DOMAIN loads \cup {calls[c].token}
      <3>1. /\ logout'.pc = logout.pc /\ logout'.access = logout.access /\ cache' = cache
            /\ logout.overlap => logout'.overlap
            /\ logout.pc = "revoke" /\ logout.access = calls[c].token => logout'.overlap
        BY <1>1, <1>3, <2>3 DEF Guard, LogoutSlots
      <3> QED
        BY <2>3, <3>1 DEF LeavingIsForgotten, Leaving
    <2> QED
      BY <1>3, <2>1, <2>2, <2>3 DEF Guard
  <1>4. CASE logout' = logout /\ DOMAIN loads' \subseteq DOMAIN loads
             /\ \E y \in DOMAIN loads : cache' \subseteq cache \cup {y}
    BY <1>4 DEF LeavingIsForgotten, Leaving
  <1>5. CASE logout' = logout /\ loads' = loads /\ cache' \subseteq cache
    BY <1>5 DEF LeavingIsForgotten, Leaving
  <1>6. ASSUME NEW y \in DOMAIN loads, Load(y) \/ Loaded(y) PROVE LeavingIsForgotten'
    <2>1. DOMAIN loads' \subseteq DOMAIN loads /\ cache' \subseteq cache \cup {y} /\ logout' = logout
      BY <1>6 DEF Load, Loaded, Ends
    <2> QED
      BY <1>4, <2>1
  <1>7. CASE logout'.pc # "revoke"
    BY <1>7 DEF LeavingIsForgotten, Leaving
  <1>8. CASE Revoke \/ LoggedOut \/ LogoutLost
    BY <1>1, <1>7, <1>8 DEF Revoke, LoggedOut, LogoutLost, NoLogout, LogoutSlots
  <1>9. ASSUME NEW t \in Tabs, Logout(t) PROVE LeavingIsForgotten'
    BY <1>7, <1>9 DEF Logout
  <1> QED
    BY <1>2, <1>3, <1>5, <1>6, <1>8, <1>9
       DEF Next, Serve, Validate, Renew, Enter, SigningOut, vars, browser, Reload, Handle,
           Skip, CallRefresh, Rotate, RotateFails, Settle, GiveUp, Login, Callback, Orphan, Forget,
           Expire, StepBack, CatchUp

\* Nothing brings back a token of a session that has ended.
LEMMA StaysForgotten ==
  ASSUME Shape, [Next]_vars, NEW x, Forgotten(x), x.s \in DOMAIN profiles, ~Live(x)
  PROVE  Forgotten(x)' /\ x.s \in DOMAIN profiles' /\ ~Live(x)'
  <1>1. x.s \in DOMAIN profiles' /\ ~Live(x)'
    BY SessionsStep DEF SessionsGrow, Live
  <1>2. Forgotten(x)'
    BY LoadsStep DEF LoadsMove, Forgotten
  <1> QED
    BY <1>1, <1>2

LEMMA GoneStep ==
  ASSUME Shape, Pairs, GoneAreForgotten, LeavingIsForgotten, [Next]_vars PROVE GoneAreForgotten'
  <1>1. CASE gone' = gone
    BY <1>1, StaysForgotten DEF GoneAreForgotten
  <1>2. CASE Revoke
    <2>1. CASE gone' = gone \cup {logout.access} /\ ~logout.overlap /\ logout.access # NoToken
               /\ profiles' = IF Live(logout.token)
                              THEN [profiles EXCEPT ![logout.token.s].state = "revoked"] ELSE profiles
      <3>0. PICK x : x = logout.access
        OBVIOUS
      <3>1. /\ x \notin cache /\ x \notin DOMAIN loads
            /\ logout.token.s = x.s /\ x.s \in DOMAIN profiles
        BY <1>2, <2>1, <3>0 DEF LeavingIsForgotten, Leaving, Revoke, Pairs
      <3>2. cache' = cache /\ loads' = loads
        BY <1>2 DEF Revoke
      <3>3. x.s \in DOMAIN profiles' /\ ~Live(x)'
        BY <2>1, <3>1 DEF Live, Shape, SessionsOK, Sessions
      <3>4. Forgotten(x)'
        BY <3>1, <3>2 DEF Forgotten
      <3>5. \A y \in gone : Forgotten(y)' /\ y.s \in DOMAIN profiles' /\ ~Live(y)'
        BY StaysForgotten DEF GoneAreForgotten
      <3> QED
        BY <2>1, <3>0, <3>3, <3>4, <3>5 DEF GoneAreForgotten
    <2> QED
      BY <1>1, <1>2, <2>1 DEF Revoke
  <1> QED
    BY <1>1, <1>2, ZenonT(40)
       DEF Next, Serve, Validate, Renew, Enter, SigningOut, vars, browser, Reload, Guard, Load, Loaded,
           Handle, Skip, CallRefresh, Rotate, RotateFails, Settle, GiveUp, Logout, Login, Callback,
           Orphan, Forget, Expire, StepBack, CatchUp, Delete, LoggedOut, LogoutLost

-----------------------------------------------------------------------------
(* What a step does to each part of the state                               *)

UnderWay(x) == \E t \in Tabs : refreshes[t].pc = "asked" /\ refreshes[t].token = x

CallMoves(c) ==
    LET old == calls[c]
        new == calls'[c]
    IN
    \/ new.pc = "idle" /\ new.token = NoToken /\ new.late = "no" /\ ~new.retried /\ new.session = 0
    \/ /\ new.pc = "sent" /\ new.retried /\ new.token = jar'.access /\ new.session = jar'.refresh.s
       /\ \/ new.late = "yes" /\ \E t \in Tabs : Settle(t) /\ Bears(t)
          \/ \E t \in Tabs : Skip(t) /\ new.late = refreshes[t].late
    \/ /\ new.pc = "sent" /\ ~new.retried /\ new.token = jar.access /\ new.session = jar.refresh.s
       /\ new.late # "yes" /\ UNCHANGED <<profiles, jar, loads>>
    \/ /\ new.token = old.token /\ new.retried = old.retried /\ new.session = old.session
       /\ \/ new.late = old.late
          \/ new.late = "yes" /\ old.late = "no" /\ \E t \in Tabs : Settle(t) /\ Bears(t)
       /\ \/ new.pc = old.pc /\ new.verdict = old.verdict
          \/ new.pc = "joined" /\ old.pc = "sent"
          \/ new.pc = "waiting"
          \/ /\ new.pc = "answered" /\ old.pc = "sent" /\ old.token = NoToken /\ new.verdict = "bad"
             /\ UNCHANGED <<profiles, jar>>
          \/ /\ new.pc = "answered" /\ old.pc = "joined" /\ UNCHANGED <<profiles, jar>>
             /\ old.token \in DOMAIN loads
             /\ new.verdict = "ok" \/ (loads[old.token] # "asked" /\ new.verdict = loads[old.token])

LoadMoves(x) ==
    \/ x \in DOMAIN loads /\ loads'[x] = loads[x]
    \/ \E c \in Calls : x = calls[c].token /\ loads'[x] = "asked"
    \/ x \in DOMAIN loads /\ loads'[x] = "ok"
    \/ x \in DOMAIN loads /\ loads'[x] = "bad" /\ ~Live(x)
    \/ /\ x \in DOMAIN loads /\ loads'[x] = "outage" /\ reasons' = reasons + 1
       /\ UNCHANGED <<profiles, jar, orphans, refreshes>>

Expires ==
    /\ jar' = [jar EXCEPT !.access = NoToken] /\ reasons' = reasons + 1 /\ UNCHANGED profiles
    /\ \A c \in Calls : calls[c].late # "yes"

JarMoves ==
    \/ jar' = jar
    \/ \E t \in Tabs : Settle(t) /\ Bears(t)
    \/ \E t \in Tabs : Login(t)
    \/ \E t \in Tabs : Callback(t)
    \/ Expires
    \/ jar'.access = NoToken /\ jar'.refresh = NoToken /\ jar'.flow = None /\ UNCHANGED profiles

RefreshMoves(t) ==
    LET old == refreshes[t]
        new == refreshes'[t]
    IN
    \/ new.pc = "idle" /\ new.token = NoToken
    \/ /\ new.pc = "queued" /\ new.token = NoToken
       /\ \E c \in Calls : /\ calls[c].pc = "answered" /\ calls[c].verdict # "ok" /\ ~calls[c].retried
                           /\ new.late = calls[c].late /\ calls'[c].late = calls[c].late
                           /\ TabOf[c] = t /\ calls'[c].pc = "waiting"
    \/ /\ new.pc = old.pc /\ new.token = old.token /\ new.outcome = old.outcome
       /\ new.late \in {old.late, "yes"}
    \/ /\ new.pc = "asked" /\ new.token = jar.refresh /\ old.pc = "queued" /\ old.late = "no"
       /\ UNCHANGED <<profiles, jar, orphans>>
    \/ /\ new.pc = "answered" /\ old.pc = "asked" /\ new.outcome # "ok" /\ new.token = NoToken
       /\ new.outcome = "denied" => ~Newest(old.token)
    \/ /\ new.pc = "answered" /\ new.outcome = "ok" /\ old.pc = "asked" /\ Newest(old.token)
       /\ new.token = Token(old.token.s, old.token.n + 1) /\ profiles' = Presented(old.token)
       /\ UNCHANGED <<jar, calls, loads, orphans>>

ProfilesMove ==
    \/ profiles' = profiles
    \/ \E x \in AnyToken : /\ x \in orphans \/ UnderWay(x)
                           /\ profiles' = Presented(x) /\ UNCHANGED <<jar, calls, loads, reasons>>
    \/ /\ DOMAIN profiles' = DOMAIN profiles
       /\ \A s \in DOMAIN profiles :
            /\ profiles'[s].latest = profiles[s].latest
            /\ profiles'[s].state = "live" => profiles[s].state = "live"
       /\ UNCHANGED <<jar, calls, loads, refreshes, orphans, reasons>>
    \/ \E t \in Tabs : Callback(t)

LEMMA CallsMove == ASSUME Shape, [Next]_vars PROVE \A c \in Calls : CallMoves(c)
  <1>1. /\ calls \in [Calls -> CallSlots] /\ \A c \in Calls : calls[c] \in CallSlots
        /\ NoCall.pc = "idle" /\ NoCall.token = NoToken /\ NoCall.late = "no" /\ ~NoCall.retried
        /\ NoCall.session = 0
    BY DEF Shape, NoCall
  <1>2. ASSUME UNCHANGED calls PROVE \A c \in Calls : CallMoves(c)
    BY <1>2 DEF CallMoves
  <1> HIDE DEF NoCall
  <1>3. ASSUME NEW c \in Calls, Reload(c) PROVE \A d \in Calls : CallMoves(d)
    <2>1. PICK l \in Lates : l # "yes" /\ calls' = [calls EXCEPT ![c] = Sent(FALSE, l, jar)]
      BY <1>3 DEF Reload, Lates
    <2>2. UNCHANGED <<profiles, jar, loads>>
      BY <1>3 DEF Reload
    <2>3. /\ calls'[c].pc = "sent" /\ calls'[c].token = jar.access /\ ~calls'[c].retried
          /\ calls'[c].late # "yes" /\ calls'[c].session = jar.refresh.s
          /\ \A d \in Calls \ {c} : calls'[d] = calls[d]
      BY <1>1, <2>1 DEF Sent, NoCall
    <2> QED
      BY <2>2, <2>3 DEF CallMoves
  <1>4. ASSUME NEW c \in Calls, Guard(c) PROVE \A d \in Calls : CallMoves(d)
    <2>1. \A d \in Calls \ {c} : calls'[d] = calls[d]
      BY <1>1, <1>4 DEF Guard
    <2>2. calls[c].pc = "sent" /\ UNCHANGED <<profiles, jar>>
      BY <1>4 DEF Guard
    <2>3. CASE calls' = [calls EXCEPT ![c].pc = "answered", ![c].verdict = "bad"] /\ calls[c].token = NoToken
      <3>1. /\ calls'[c].pc = "answered" /\ calls'[c].verdict = "bad" /\ calls'[c].token = calls[c].token
            /\ calls'[c].retried = calls[c].retried /\ calls'[c].late = calls[c].late
            /\ calls'[c].session = calls[c].session
        BY <1>1, <2>3 DEF CallSlots
      <3> QED
        BY <2>1, <2>2, <2>3, <3>1 DEF CallMoves
    <2>4. CASE calls' = [calls EXCEPT ![c].pc = "joined"]
      <3>1. /\ calls'[c].pc = "joined" /\ calls'[c].token = calls[c].token
            /\ calls'[c].retried = calls[c].retried /\ calls'[c].late = calls[c].late
            /\ calls'[c].session = calls[c].session
        BY <1>1, <2>4 DEF CallSlots
      <3> QED
        BY <2>1, <2>2, <3>1 DEF CallMoves
    <2> QED
      BY <1>4, <2>3, <2>4 DEF Guard
  <1>5. ASSUME NEW x \in DOMAIN loads, NEW v, v = "ok" \/ (loads[x] # "asked" /\ v = loads[x]),
               Ends(x, v), UNCHANGED <<profiles, jar>>, NEW d \in Calls
        PROVE  CallMoves(d)
    <2>1. calls'[d] = IF calls[d].pc = "joined" /\ calls[d].token = x
                      THEN [calls[d] EXCEPT !.pc = "answered", !.verdict = v] ELSE calls[d]
      BY <1>5 DEF Ends
    <2>2. CASE calls[d].pc = "joined" /\ calls[d].token = x
      <3>1. /\ calls'[d].pc = "answered" /\ calls'[d].token = x /\ calls'[d].verdict = v
            /\ calls'[d].retried = calls[d].retried /\ calls'[d].late = calls[d].late
            /\ calls'[d].session = calls[d].session
        BY <1>1, <2>1, <2>2 DEF CallSlots
      <3> QED
        BY <1>5, <2>2, <3>1 DEF CallMoves
    <2> QED
      BY <2>1, <2>2 DEF CallMoves
  <1>6. ASSUME NEW x \in DOMAIN loads, Load(x) \/ Loaded(x) PROVE \A c \in Calls : CallMoves(c)
    <2>1. CASE UNCHANGED calls
      BY <1>2, <2>1
    <2>2. CASE Load(x) /\ Ends(x, "ok")
      BY <1>5, <2>2 DEF Load
    <2>3. CASE Loaded(x)
      BY <1>5, <2>3 DEF Loaded
    <2> QED
      BY <1>6, <2>1, <2>2, <2>3 DEF Load
  <1>7. ASSUME NEW c \in Calls, Handle(c) PROVE \A d \in Calls : CallMoves(d)
    <2>1. CASE calls' = [calls EXCEPT ![c] = NoCall]
      BY <1>1, <2>1 DEF CallMoves
    <2>2. CASE calls' = [calls EXCEPT ![c].pc = "waiting"]
      <3>1. /\ calls'[c].pc = "waiting" /\ calls'[c].token = calls[c].token
            /\ calls'[c].retried = calls[c].retried /\ calls'[c].late = calls[c].late
            /\ calls'[c].session = calls[c].session
        BY <1>1, <2>2 DEF CallSlots
      <3> QED
        BY <1>1, <2>2, <3>1 DEF CallMoves
    <2> QED
      BY <1>7, <2>1, <2>2 DEF Handle
  <1>8. ASSUME NEW t \in Tabs, NEW o, NEW l \in Lates, NEW j, NEW c \in Calls
        PROVE  LET new == Resumed(t, o, l, j)[c] IN
               \/ new = calls[c]
               \/ new = NoCall
               \/ /\ o = "ok" /\ new.pc = "sent" /\ new.retried /\ new.late = l
                  /\ new.token = j.access /\ new.session = j.refresh.s
    <2>1. /\ Sent(TRUE, l, j).pc = "sent" /\ Sent(TRUE, l, j).retried /\ Sent(TRUE, l, j).late = l
          /\ Sent(TRUE, l, j).token = j.access /\ Sent(TRUE, l, j).session = j.refresh.s
      BY DEF Sent, NoCall
    <2>2. \/ Resumed(t, o, l, j)[c] \in {calls[c], NoCall}
          \/ o = "ok" /\ Resumed(t, o, l, j)[c] = Sent(TRUE, l, j)
      BY DEF Resumed
    <2> QED
      BY <2>1, <2>2
  <1>9. ASSUME NEW t \in Tabs, Skip(t) PROVE \A c \in Calls : CallMoves(c)
    <2>1. /\ calls' = Resumed(t, "ok", refreshes[t].late, jar) /\ refreshes[t].late \in Lates /\ jar' = jar
      BY <1>9 DEF Skip, Shape, RefreshSlots
    <2> QED
      BY <1>1, <1>8, <1>9, <2>1 DEF CallMoves
  <1>10. ASSUME NEW t \in Tabs, GiveUp(t) PROVE \A c \in Calls : CallMoves(c)
    <2>1. calls' = Resumed(t, "transient", "no", jar) /\ "no" \in Lates
      BY <1>10 DEF GiveUp, Lates
    <2> QED
      BY <1>1, <1>8, <2>1 DEF CallMoves
  <1>11. ASSUME NEW t \in Tabs, Settle(t) PROVE \A c \in Calls : CallMoves(c)
    <2> DEFINE o == refreshes[t].outcome
               after == Resumed(t, o, "yes", jar')
    <2>1. /\ o = "ok" => Bears(t)
          /\ \A c \in Calls : \/ calls'[c] = after[c]
                             \/ /\ o = "ok" /\ after[c].late = "no" /\ after[c].pc # "idle"
                                /\ calls'[c] = [after[c] EXCEPT !.late = "yes"]
      BY <1>11 DEF Settle, Bears
    <2>2. after \in [Calls -> CallSlots] /\ "yes" \in Lates
      BY <1>1, JarStep, ResumedIs DEF Lates
    <2>3. ASSUME NEW c \in Calls
          PROVE  \/ after[c] = calls[c]
                 \/ after[c] = NoCall
                 \/ /\ o = "ok" /\ after[c].pc = "sent" /\ after[c].retried /\ after[c].late = "yes"
                    /\ after[c].token = jar'.access /\ after[c].session = jar'.refresh.s
      BY <1>8, <2>2
    <2> HIDE DEF after, o
    <2>4. ASSUME NEW c \in Calls, after[c].late = "no", after[c].pc # "idle", o = "ok",
                 calls'[c] = [after[c] EXCEPT !.late = "yes"]
          PROVE  CallMoves(c)
      <3>1. /\ calls'[c].pc = after[c].pc /\ calls'[c].token = after[c].token
            /\ calls'[c].retried = after[c].retried /\ calls'[c].verdict = after[c].verdict
            /\ calls'[c].session = after[c].session /\ calls'[c].late = "yes"
        BY <2>2, <2>4 DEF CallSlots
      <3>2. Settle(t) /\ Bears(t) /\ after[c] = calls[c]
        BY <1>1, <1>11, <2>1, <2>3, <2>4
      <3> QED
        BY <2>4, <3>1, <3>2 DEF CallMoves
    <2>5. ASSUME NEW c \in Calls, calls'[c] = after[c] PROVE CallMoves(c)
      BY <1>1, <1>11, <2>1, <2>3, <2>5 DEF CallMoves
    <2> QED
      BY <2>1, <2>4, <2>5
  <1>12. ASSUME NEW t, Leave(t) PROVE \A c \in Calls : CallMoves(c)
    BY <1>1, <1>12 DEF Leave, CallMoves
  <1> QED
    BY <1>2, <1>3, <1>4, <1>6, <1>7, <1>9, <1>10, <1>11, <1>12
       DEF Next, Serve, Validate, Renew, Enter, SigningOut, vars, browser,
           CallRefresh, Rotate, RotateFails, Logout, Login, Callback, Orphan, Forget, Expire, StepBack,
           CatchUp, Delete, Revoke, LoggedOut, LogoutLost

LEMMA LoadsMoveOn == ASSUME [Next]_vars PROVE \A x \in DOMAIN loads' : LoadMoves(x)
  <1>1. ASSUME UNCHANGED loads PROVE \A x \in DOMAIN loads' : LoadMoves(x)
    BY <1>1 DEF LoadMoves
  <1>2. ASSUME NEW c \in Calls, Guard(c) PROVE \A x \in DOMAIN loads' : LoadMoves(x)
    BY <1>2 DEF Guard, LoadMoves
  <1>3. ASSUME NEW y \in DOMAIN loads, Load(y) PROVE \A x \in DOMAIN loads' : LoadMoves(x)
    BY <1>3 DEF Load, Ends, LoadMoves, Reason, Event
  <1>4. ASSUME NEW y \in DOMAIN loads, Loaded(y) PROVE \A x \in DOMAIN loads' : LoadMoves(x)
    BY <1>4 DEF Loaded, Ends, LoadMoves
  <1> QED
    BY <1>1, <1>2, <1>3, <1>4
       DEF Next, Serve, Validate, Renew, Enter, SigningOut, vars, browser, Reload, Handle, Skip,
           CallRefresh, Rotate, RotateFails, Settle, GiveUp, Logout, Login, Callback, Orphan, Forget,
           Expire, StepBack, CatchUp, Delete, Revoke, LoggedOut, LogoutLost

LEMMA JarsMove == ASSUME [Next]_vars PROVE JarMoves
  <1>1. ASSUME NEW t \in Tabs, Settle(t) PROVE JarMoves
    BY <1>1 DEF Settle, Bears, JarMoves
  <1>2. CASE LoggedOut \/ Expire
    BY <1>2 DEF LoggedOut, Expire, Expires, JarMoves, Reason
  <1> QED
    BY <1>1, <1>2
       DEF Next, Serve, Validate, Renew, Enter, SigningOut, vars, browser, Reload, Guard, Load, Loaded,
           Handle, Skip, CallRefresh, Rotate, RotateFails, GiveUp, Logout, Orphan, Forget, StepBack,
           CatchUp, Delete, Revoke, LogoutLost, JarMoves

LEMMA RefreshesMove == ASSUME Shape, [Next]_vars PROVE \A t \in Tabs : RefreshMoves(t)
  <1>1. /\ refreshes \in [Tabs -> RefreshSlots] /\ NoRefresh.pc = "idle" /\ NoRefresh.token = NoToken
        /\ \A t \in Tabs : refreshes[t] \in RefreshSlots
        /\ logout.pc # "idle" => logout.tab \in Tabs
    BY DEF Shape, NoRefresh, LogoutOK
  <1>2. ASSUME UNCHANGED refreshes PROVE \A t \in Tabs : RefreshMoves(t)
    BY <1>2 DEF RefreshMoves
  <1>3. ASSUME NEW c \in Calls, Handle(c) PROVE \A t \in Tabs : RefreshMoves(t)
    <2> DEFINE q == [NoRefresh EXCEPT !.pc = "queued", !.late = calls[c].late]
    <2>1. q.pc = "queued" /\ q.token = NoToken /\ q.late = calls[c].late
      BY DEF NoRefresh
    <2> HIDE DEF q, NoRefresh
    <2>2. CASE /\ refreshes' = [refreshes EXCEPT ![TabOf[c]] = q] /\ calls[c].pc = "answered"
               /\ calls[c].verdict # "ok" /\ ~calls[c].retried
               /\ calls' = [calls EXCEPT ![c].pc = "waiting"]
      <3>1. calls'[c].pc = "waiting" /\ calls'[c].late = calls[c].late
        BY <2>2 DEF Shape, CallSlots
      <3> QED
        BY <1>1, <2>1, <2>2, <3>1 DEF RefreshMoves
    <2> QED
      BY <1>2, <1>3, <2>2 DEF Handle, q
  <1> HIDE DEF NoRefresh
  <1>4. ASSUME NEW t \in Tabs, Skip(t) \/ GiveUp(t) \/ Leave(t) PROVE \A u \in Tabs : RefreshMoves(u)
    BY <1>1, <1>4 DEF Skip, GiveUp, Leave, RefreshMoves
  <1>5. ASSUME NEW t \in Tabs, CallRefresh(t) PROVE \A u \in Tabs : RefreshMoves(u)
    <2>1. /\ refreshes'[t].pc = "asked" /\ refreshes'[t].token = jar.refresh
          /\ refreshes[t].pc = "queued" /\ refreshes[t].late = "no" /\ UNCHANGED <<profiles, jar, orphans>>
          /\ \A u \in Tabs \ {t} : refreshes'[u] = refreshes[u]
      BY <1>1, <1>5 DEF CallRefresh, Renewed, RefreshSlots
    <2> QED
      BY <2>1 DEF RefreshMoves
  <1>6. ASSUME NEW t \in Tabs, Rotate(t) PROVE \A u \in Tabs : RefreshMoves(u)
    <2>1. /\ refreshes'[t].pc = "answered" /\ refreshes[t].pc = "asked"
          /\ refreshes'[t].token = IF Newest(refreshes[t].token)
                 THEN Token(refreshes[t].token.s, refreshes[t].token.n + 1) ELSE NoToken
          /\ refreshes'[t].outcome = IF Newest(refreshes[t].token) THEN "ok" ELSE "denied"
          /\ \A u \in Tabs \ {t} : refreshes'[u] = refreshes[u]
      BY <1>1, <1>6 DEF Rotate, RefreshSlots
    <2>2. profiles' = Presented(refreshes[t].token) /\ UNCHANGED <<jar, calls, loads, orphans>>
      BY <1>6 DEF Rotate
    <2> QED
      BY <2>1, <2>2 DEF RefreshMoves
  <1>7. ASSUME NEW t \in Tabs, RotateFails(t) PROVE \A u \in Tabs : RefreshMoves(u)
    <2>1. /\ refreshes[t].pc = "asked"
          /\ refreshes'[t].pc = "answered" /\ refreshes'[t].token = NoToken
          /\ refreshes'[t].outcome \in {"transient", "mistaken"}
          /\ \A u \in Tabs \ {t} : refreshes'[u] = refreshes[u]
      BY <1>1, <1>7 DEF RotateFails, RefreshSlots
    <2> QED
      BY <2>1 DEF RefreshMoves
  <1>8. ASSUME NEW t \in Tabs, Settle(t) PROVE \A u \in Tabs : RefreshMoves(u)
    <2>1. \A u \in Tabs : refreshes'[u] \in {NoRefresh, refreshes[u], [refreshes[u] EXCEPT !.late = "yes"]}
      BY <1>8 DEF Settle
    <2>2. ASSUME NEW u \in Tabs, refreshes'[u] = [refreshes[u] EXCEPT !.late = "yes"] PROVE RefreshMoves(u)
      <3>1. /\ refreshes'[u].pc = refreshes[u].pc /\ refreshes'[u].token = refreshes[u].token
            /\ refreshes'[u].outcome = refreshes[u].outcome /\ refreshes'[u].late = "yes"
        BY <1>1, <2>2 DEF RefreshSlots
      <3> QED
        BY <3>1 DEF RefreshMoves
    <2> QED
      BY <1>1, <2>1, <2>2 DEF RefreshMoves
  <1>9. CASE LoggedOut
    BY <1>1, <1>4, <1>9 DEF LoggedOut
  <1> QED
    BY <1>2, <1>3, <1>4, <1>5, <1>6, <1>7, <1>8, <1>9
       DEF Next, Serve, Validate, Renew, Enter, SigningOut, vars, browser, Reload, Guard, Load, Loaded,
           Logout, Login, Callback, Orphan, Forget, Expire, StepBack, CatchUp, Delete, Revoke,
           LogoutLost

LEMMA OrphansMove ==
  ASSUME Shape, [Next]_vars PROVE \A x \in orphans' : x \in orphans \/ UnderWay(x)
  <1>1. logout.pc # "idle" => logout.tab \in Tabs
    BY DEF Shape, LogoutOK
  <1>2. CASE UNCHANGED orphans \/ Orphan
    BY <1>2 DEF Orphan
  <1>3. ASSUME NEW t \in Tabs, orphans' = Abandoned(t) PROVE \A x \in orphans' : x \in orphans \/ UnderWay(x)
    BY <1>3 DEF Abandoned, UnderWay
  <1>4. CASE LoggedOut
    BY <1>1, <1>3, <1>4 DEF LoggedOut, Leave
  <1> QED
    BY <1>2, <1>3, <1>4, ZenonT(40)
       DEF Next, Serve, Validate, Renew, Enter, SigningOut, vars, browser, Reload, Guard, Load, Loaded,
           Handle, Skip, CallRefresh, Rotate, RotateFails, Settle, GiveUp, Logout, Login, Leave, Callback,
           Forget, Expire, StepBack, CatchUp, Delete, Revoke, LogoutLost

LEMMA SessionsMove == ASSUME Shape, [Next]_vars PROVE ProfilesMove
  <1>1. SessionsOK /\ orphans \subseteq AnyToken /\ (\A t \in Tabs : refreshes[t].token \in AnyToken)
    BY DEF Shape, RefreshSlots
  <1>2. CASE profiles' = profiles
    BY <1>2 DEF ProfilesMove
  <1>3. ASSUME NEW t \in Tabs, Rotate(t) \/ RotateFails(t) PROVE ProfilesMove
    <2>1. UnderWay(refreshes[t].token) /\ profiles' \in {profiles, Presented(refreshes[t].token)}
          /\ UNCHANGED <<jar, calls, loads, reasons>>
      BY <1>3 DEF UnderWay, Rotate, RotateFails, Uncaused, counts
    <2> QED
      BY <1>1, <2>1 DEF ProfilesMove
  <1>4. CASE Orphan
    BY <1>1, <1>4 DEF Orphan, ProfilesMove, browser, counts
  <1>5. CASE Revoke
    <2>1. CASE Live(logout.token) /\ profiles' = [profiles EXCEPT ![logout.token.s].state = "revoked"]
      <3>1. /\ DOMAIN profiles' = DOMAIN profiles
            /\ \A s \in DOMAIN profiles :
                 /\ profiles'[s].latest = profiles[s].latest
                 /\ profiles'[s].state = "live" => profiles[s].state = "live"
        BY <1>1, <2>1 DEF SessionsOK, Sessions, Live
      <3>2. UNCHANGED <<jar, calls, loads, refreshes, orphans, reasons>>
        BY <1>5 DEF Revoke, browser, counts, Uncaused
      <3> QED
        BY <3>1, <3>2 DEF ProfilesMove
    <2> QED
      BY <1>2, <1>5, <2>1 DEF Revoke
  <1> QED
    BY <1>2, <1>3, <1>4, <1>5
       DEF Next, Serve, Validate, Renew, Enter, SigningOut, vars, browser, Reload, Guard, Load, Loaded,
           Handle, Skip, CallRefresh, Settle, GiveUp, Logout, Login, Forget, Expire, StepBack,
           CatchUp, Delete, LoggedOut, LogoutLost, ProfilesMove

-----------------------------------------------------------------------------
(* Tokens that were handed out                                              *)

Issued(x) == x \in AnyToken /\ (x.s = 0 \/ (x.s \in DOMAIN profiles /\ x.n <= profiles[x.s].latest))

\* Every token that is kept somewhere was handed out.
TokensAreIssued ==
    /\ Issued(jar.access) /\ Issued(jar.refresh)
    /\ \A x \in orphans \cup DOMAIN loads : Issued(x)
    /\ \A c \in Calls : Issued(calls[c].token)
    /\ \A t \in Tabs : Issued(refreshes[t].token)

Unused(x) ==
    /\ x \notin orphans /\ x # jar.access /\ x \notin DOMAIN loads
    /\ \A c \in Calls : calls[c].token # x

\* A token on its way to the jar is nowhere else.
NewTokensAreUnused == \A t \in Tabs : Bears(t) => Unused(refreshes[t].token)

\* Only a token of a session that has ended is turned down.
LoadsAreTrue ==
    \A x \in DOMAIN loads :
        loads[x] \in {"asked", "ok", "bad", "outage"} /\ (loads[x] = "bad" => ~Live(x))

TokenInv == TokensAreIssued /\ NewTokensAreUnused /\ LoadsAreTrue

LEMMA CallbackIs ==
  ASSUME Shape, NEW t \in Tabs, Callback(t)
  PROVE  /\ UNCHANGED <<calls, refreshes, orphans, loads, reasons>> /\ jar'.flow = None
         /\ \A s \in DOMAIN profiles : s \in DOMAIN profiles' /\ profiles'[s] = profiles[s]
         /\ \/ UNCHANGED profiles /\ jar'.access = jar.access /\ jar'.refresh = jar.refresh
            \/ /\ jar.flow = t
               /\ \E s \in Nat : /\ s \notin DOMAIN profiles /\ s # 0
                                 /\ DOMAIN profiles' = DOMAIN profiles \cup {s} /\ profiles'[s].latest = 1
                                 /\ jar'.access = Token(s, 1) /\ jar'.refresh = Token(s, 1)
  <1> DEFINE s == Cardinality(DOMAIN profiles) + 1
  <1>1. jar \in Jars /\ s \in Nat /\ s # 0 /\ s \notin DOMAIN profiles
    BY DEF Shape, SessionsOK
  <1>2. UNCHANGED <<calls, refreshes, orphans, loads, reasons>>
    BY DEF Callback, counts
  <1>3. CASE /\ jar.flow = t
             /\ profiles' = [x \in DOMAIN profiles \cup {s} |->
                               IF x = s THEN [latest |-> 1, state |-> "live"] ELSE profiles[x]]
             /\ jar' = [access |-> Token(s, 1), refresh |-> Token(s, 1), flow |-> None]
    <2> HIDE DEF s
    <2>1. DOMAIN profiles' = DOMAIN profiles \cup {s} /\ profiles'[s].latest = 1
          /\ \A x \in DOMAIN profiles : profiles'[x] = profiles[x]
      BY <1>1, <1>3
    <2>2. jar'.access = Token(s, 1) /\ jar'.refresh = Token(s, 1) /\ jar'.flow = None
      BY <1>3
    <2> QED
      BY <1>1, <1>2, <1>3, <2>1, <2>2
  <1>4. CASE jar' = [jar EXCEPT !.flow = None] /\ UNCHANGED profiles
    BY <1>1, <1>2, <1>4 DEF Jars
  <1> QED
    BY <1>3, <1>4 DEF Callback

LEMMA LatestGrows ==
  ASSUME Shape, [Next]_vars, NEW s \in DOMAIN profiles
  PROVE  /\ s \in DOMAIN profiles' /\ profiles[s].latest \in Nat /\ profiles'[s].latest \in Nat
         /\ profiles[s].latest <= profiles'[s].latest
  <1>1. SessionsOK /\ SessionsOK' /\ s \in DOMAIN profiles'
    BY SessionsStep DEF Shape, SessionsGrow
  <1>2. profiles[s].latest \in Nat /\ profiles'[s].latest \in Nat
    BY <1>1 DEF SessionsOK, Sessions
  <1>3. ASSUME NEW x \in AnyToken, profiles' = Presented(x) PROVE profiles[s].latest <= profiles'[s].latest
    <2>1. CASE s = x.s /\ Newest(x)
      BY <1>1, <1>2, <1>3, <2>1, PresentedIs DEF Newest, Live, AnyToken
    <2>2. CASE s = x.s /\ ~Newest(x)
      BY <1>1, <1>2, <1>3, <2>2 DEF Presented, SessionsOK, Sessions
    <2>3. CASE s # x.s
      BY <1>1, <1>2, <1>3, <2>3, PresentedIs
    <2> QED
      BY <2>1, <2>2, <2>3
  <1>4. ASSUME NEW t \in Tabs, Callback(t) PROVE profiles'[s] = profiles[s]
    BY <1>4, CallbackIs
  <1> QED
    BY <1>1, <1>2, <1>3, <1>4, SessionsMove DEF ProfilesMove

LEMMA IssuedStays == ASSUME Shape, [Next]_vars, NEW x, Issued(x) PROVE Issued(x)'
  <1>1. CASE x.s = 0
    BY <1>1 DEF Issued
  <1>2. CASE x.s \in DOMAIN profiles
    BY <1>2, LatestGrows DEF Issued, AnyToken, Shape, SessionsOK
  <1> QED
    BY <1>1, <1>2 DEF Issued

LEMMA JarIssued ==
  ASSUME Shape, TokensAreIssued, [Next]_vars PROVE Issued(jar.access)' /\ Issued(jar.refresh)'
  <1>1. jar \in Jars /\ Issued(jar.access) /\ Issued(jar.refresh) /\ Issued(NoToken)'
    BY NothingIs DEF Shape, TokensAreIssued, Issued, NoToken, Token
  <1>2. CASE jar'.access \in {jar.access, NoToken} /\ jar'.refresh \in {jar.refresh, NoToken}
    BY <1>1, <1>2, IssuedStays
  <1>3. ASSUME NEW t \in Tabs, Settle(t), Bears(t) PROVE Issued(jar.access)' /\ Issued(jar.refresh)'
    <2>1. jar'.access = refreshes[t].token /\ jar'.refresh = refreshes[t].token
      BY <1>1, <1>3 DEF Settle, Bears, Jars
    <2> QED
      BY <2>1, IssuedStays DEF TokensAreIssued
  <1>4. ASSUME NEW t \in Tabs, Callback(t) PROVE Issued(jar.access)' /\ Issued(jar.refresh)'
    <2>1. CASE \E s \in Nat : /\ DOMAIN profiles' = DOMAIN profiles \cup {s} /\ profiles'[s].latest = 1
                              /\ jar'.access = Token(s, 1) /\ jar'.refresh = Token(s, 1)
      BY <2>1 DEF Issued, Token, AnyToken
    <2> QED
      BY <1>2, <1>4, <2>1, CallbackIs
  <1>5. ASSUME NEW t \in Tabs, Login(t) PROVE Issued(jar.access)' /\ Issued(jar.refresh)'
    <2>1. jar' = [jar EXCEPT !.flow = t]
      BY <1>5 DEF Login
    <2> QED
      BY <1>1, <1>2, <2>1 DEF Jars
  <1>6. CASE jar' = [jar EXCEPT !.access = NoToken]
    BY <1>1, <1>2, <1>6 DEF Jars
  <1> QED
    BY <1>1, <1>2, <1>3, <1>4, <1>5, <1>6, JarsMove DEF JarMoves, Expires

LEMMA TokensAreIssuedStep ==
  ASSUME Shape, TokensAreIssued, [Next]_vars PROVE TokensAreIssued'
  <1>1. Issued(jar.access)' /\ Issued(jar.refresh)' /\ Issued(jar.access) /\ Issued(jar.refresh)
    BY JarIssued DEF TokensAreIssued
  <1>2. Issued(NoToken)'
    BY NothingIs DEF Issued, NoToken, Token
  <1>3. ASSUME NEW c \in Calls PROVE Issued(calls[c].token)'
    <2>1. calls'[c].token \in {calls[c].token, NoToken, jar.access, jar'.access}
      BY CallsMove DEF CallMoves
    <2>2. Issued(calls[c].token)
      BY DEF TokensAreIssued
    <2>3. ASSUME NEW x, Issued(x), calls'[c].token = x PROVE Issued(calls[c].token)'
      BY <2>3, IssuedStays DEF Issued
    <2> QED
      BY <1>1, <1>2, <2>1, <2>2, <2>3 DEF Issued
  <1>4. ASSUME NEW t \in Tabs PROVE Issued(refreshes[t].token)'
    <2> DEFINE x == refreshes[t].token
    <2>1. Issued(x)
      BY DEF TokensAreIssued
    <2>2. CASE refreshes'[t].token \in {x, NoToken, jar.refresh}
      <3>1. ASSUME NEW y, Issued(y), refreshes'[t].token = y PROVE Issued(refreshes[t].token)'
        BY <3>1, IssuedStays DEF Issued
      <3> QED
        BY <1>1, <1>2, <2>1, <2>2, <3>1 DEF Issued
    <2>3. CASE Newest(x) /\ refreshes'[t].token = Token(x.s, x.n + 1) /\ profiles' = Presented(x)
      <3>1. x \in AnyToken /\ SessionsOK
        BY DEF Shape, RefreshSlots
      <3>2. profiles'[x.s].latest = x.n + 1 /\ x.s \in DOMAIN profiles'
        BY <2>3, <3>1, PresentedIs DEF Newest, Live
      <3>3. Token(x.s, x.n + 1) \in AnyToken
        BY <3>1 DEF Token, AnyToken
      <3>4. refreshes'[t].token.s = x.s /\ refreshes'[t].token.n = x.n + 1 /\ refreshes'[t].token \in AnyToken
        BY <2>3, <3>3 DEF Token
      <3> HIDE DEF x
      <3> QED
        BY <3>1, <3>2, <3>4 DEF Issued, AnyToken
    <2> QED
      BY <2>2, <2>3, RefreshesMove DEF RefreshMoves
  <1>5. ASSUME NEW x \in orphans' PROVE Issued(x)'
    <2>1. Issued(x)
      BY <1>5, OrphansMove DEF UnderWay, TokensAreIssued
    <2> QED
      BY <2>1, IssuedStays
  <1>6. ASSUME NEW x \in DOMAIN loads' PROVE Issued(x)'
    <2>1. Issued(x)
      BY <1>6, LoadsMoveOn DEF LoadMoves, TokensAreIssued
    <2> QED
      BY <2>1, IssuedStays
  <1> QED
    BY <1>1, <1>3, <1>4, <1>5, <1>6 DEF TokensAreIssued

LEMMA EndedStays ==
  ASSUME Shape, [Next]_vars, NEW x, Issued(x), ~Live(x) PROVE ~Live(x)'
  <1>1. SessionsOK' /\ SessionsGrow
    BY SessionsStep
  <1>2. CASE x.s = 0
    BY <1>1, <1>2 DEF SessionsOK, Live
  <1>3. CASE x.s \in DOMAIN profiles
    BY <1>1, <1>3 DEF SessionsGrow, Live
  <1> QED
    BY <1>2, <1>3 DEF Issued

LEMMA LoadsAreTrueStep ==
  ASSUME Shape, TokensAreIssued, LoadsAreTrue, [Next]_vars PROVE LoadsAreTrue'
  <1> SUFFICES ASSUME NEW x \in DOMAIN loads'
               PROVE  /\ loads'[x] \in {"asked", "ok", "bad", "outage"}
                      /\ loads'[x] = "bad" => ~Live(x)'
    BY DEF LoadsAreTrue, Live
  <1>1. x \in DOMAIN loads => Issued(x)
    BY DEF TokensAreIssued
  <1>2. x \in DOMAIN loads /\ ~Live(x) => ~Live(x)'
    BY <1>1, EndedStays
  <1> QED
    BY <1>2, LoadsMoveOn DEF LoadMoves, LoadsAreTrue

LEMMA NewTokensAreUnusedStep ==
  ASSUME Shape, Shape', Pairs, OneInTurn, TokenInv, [Next]_vars PROVE NewTokensAreUnused'
  <1> SUFFICES ASSUME NEW t \in Tabs, Bears(t)' PROVE Unused(refreshes[t].token)'
    BY DEF NewTokensAreUnused
  <1> DEFINE x == refreshes[t].token
             new == refreshes'[t].token
  <1>1. jar \in Jars /\ SessionsOK /\ x \in AnyToken /\ 0 \notin DOMAIN profiles
    BY DEF Shape, SessionsOK, RefreshSlots
  <1>2. CASE Bears(t) /\ new = x
    <2>1. Unused(x) /\ x.s \in DOMAIN profiles /\ x # NoToken
      BY <1>1, <1>2 DEF TokenInv, NewTokensAreUnused, Pairs, NoToken, Token
    <2>2. \A u \in Tabs : InTurn(u) => u = t
      BY <1>2 DEF OneInTurn, InTurn, Bears
    <2>3. x \notin orphans'
      <3>1. ~UnderWay(x)
        BY <1>2, <2>2 DEF UnderWay, InTurn, Bears
      <3> QED
        BY <2>1, <3>1, OrphansMove DEF Unused
    <2>4. x # jar'.access
      <3>1. ASSUME NEW u \in Tabs, Settle(u), Bears(u) PROVE FALSE
        <4>1. u = t
          BY <2>2, <3>1 DEF InTurn, Bears
        <4>2. refreshes'[t] = NoRefresh
          BY <3>1, <4>1 DEF Settle
        <4> QED
          BY <4>2 DEF Bears, NoRefresh
      <3>2. ASSUME NEW u \in Tabs, Callback(u) PROVE x # jar'.access
        <4>1. ASSUME NEW s, s \notin DOMAIN profiles PROVE Token(s, 1).s # x.s
          BY <2>1, <4>1 DEF Token
        <4> QED
          BY <2>1, <3>2, <4>1, CallbackIs DEF Unused
      <3>3. ASSUME NEW u \in Tabs, Login(u) PROVE jar'.access = jar.access
        BY <1>1, <3>3 DEF Login, Jars
      <3>4. CASE jar' = [jar EXCEPT !.access = NoToken]
        BY <1>1, <2>1, <3>4 DEF Jars
      <3> HIDE DEF x
      <3> QED
        BY <2>1, <3>1, <3>2, <3>3, <3>4, JarsMove DEF JarMoves, Expires, Unused
    <2>5. x \notin DOMAIN loads'
      BY <2>1, LoadsMoveOn DEF LoadMoves, Unused
    <2>6. \A c \in Calls : calls'[c].token # x
      BY <2>1, <2>4, CallsMove DEF CallMoves, Unused
    <2> QED
      BY <1>2, <2>3, <2>4, <2>5, <2>6 DEF Unused
  <1>3. CASE Newest(x) /\ new = Token(x.s, x.n + 1) /\ UNCHANGED <<jar, calls, loads, orphans>>
    <2>1. ~Issued(new)
      <3>1. new.s = x.s /\ new.n = x.n + 1 /\ x.n \in Nat /\ profiles[x.s].latest = x.n /\ x.s \in DOMAIN profiles
        BY <1>1, <1>3 DEF Token, AnyToken, Newest, Live
      <3> HIDE DEF new, x
      <3> QED
        BY <1>1, <3>1 DEF Issued
    <2> HIDE DEF new
    <2>2. /\ new \notin orphans /\ new # jar.access /\ new \notin DOMAIN loads
          /\ \A c \in Calls : calls[c].token # new
      BY <2>1 DEF TokenInv, TokensAreIssued
    <2> QED
      BY <1>3, <2>2 DEF Unused, new
  <1>4. \/ Bears(t) /\ new = x
        \/ Newest(x) /\ new = Token(x.s, x.n + 1) /\ UNCHANGED <<jar, calls, loads, orphans>>
    BY RefreshesMove DEF RefreshMoves, Bears
  <1> QED
    BY <1>2, <1>3, <1>4

LEMMA TokenStep ==
  ASSUME Shape, Shape', Pairs, OneInTurn, TokenInv, [Next]_vars PROVE TokenInv'
  BY TokensAreIssuedStep, LoadsAreTrueStep, NewTokensAreUnusedStep DEF TokenInv

-----------------------------------------------------------------------------
(* Reasons to refresh                                                       *)

\* A request that bears the token may be turned down although the session that the
\* jar holds goes on.
MayFail(x) == x.s # jar.refresh.s \/ (x \in DOMAIN loads /\ loads[x] = "outage")

\* A request, or a refresh not sent yet, that does not know of a newer token.
Failing(c) ==
    /\ calls[c].late = "no" /\ ~calls[c].retried
    /\ \/ calls[c].pc \in {"sent", "joined"} /\ MayFail(calls[c].token)
       \/ calls[c].pc = "answered" /\ calls[c].verdict # "ok"
Queued(t) == refreshes[t].pc = "queued" /\ refreshes[t].late = "no"

RefreshIsDue == MayFail(jar.access) \/ (\E c \in Calls : Failing(c)) \/ \E t \in Tabs : Queued(t)

\* A refresh token that Profiles may be asked to renew.
MayBeSent(x) == x \in orphans \/ UnderWay(x) \/ (x = jar.refresh /\ RefreshIsDue)

\* The tokens that may be handed out for it.
Coming ==
    {Token(s, profiles[s].latest + 1) :
       s \in {s \in DOMAIN profiles : /\ profiles[s].state = "live"
                                      /\ MayBeSent(Token(s, profiles[s].latest))}}

\* What reasons have to account for: the tokens that refreshing has brought or is
\* about to, and a sign-in under way, for which NoToken stands.
Due == Rotated \cup Coming \cup (IF jar.flow \in Tabs THEN {NoToken} ELSE {})

ReasonsSuffice == reasons \in Nat /\ IsFiniteSet(Due) /\ Cardinality(Due) <= reasons

LEMMA DueIs ==
  ASSUME NEW y
  PROVE  y \in Due <=>
           \/ \E s \in DOMAIN profiles : \E n \in 2..profiles[s].latest : y = Token(s, n)
           \/ \E s \in DOMAIN profiles : /\ profiles[s].state = "live" /\ y = Token(s, profiles[s].latest + 1)
                                         /\ MayBeSent(Token(s, profiles[s].latest))
           \/ y = NoToken /\ jar.flow \in Tabs
  <1>1. y \in Rotated <=> \E s \in DOMAIN profiles : \E n \in 2..profiles[s].latest : y = Token(s, n)
    BY DEF Rotated
  <1>2. y \in Coming <=>
          \E s \in DOMAIN profiles : /\ profiles[s].state = "live" /\ y = Token(s, profiles[s].latest + 1)
                                     /\ MayBeSent(Token(s, profiles[s].latest))
    BY DEF Coming
  <1> QED
    BY <1>1, <1>2 DEF Due

LEMMA DueNext ==
  ASSUME NEW y
  PROVE  y \in Due' <=>
           \/ \E s \in DOMAIN profiles' : \E n \in 2..profiles'[s].latest : y = Token(s, n)
           \/ \E s \in DOMAIN profiles' : /\ profiles'[s].state = "live" /\ y = Token(s, profiles'[s].latest + 1)
                                          /\ MayBeSent(Token(s, profiles[s].latest))'
           \/ y = NoToken /\ jar'.flow \in Tabs
  <1>1. y \in Rotated' <=> \E s \in DOMAIN profiles' : \E n \in 2..profiles'[s].latest : y = Token(s, n)
    BY DEF Rotated, Token
  <1>2. y \in Coming' <=>
          \E s \in DOMAIN profiles' : /\ profiles'[s].state = "live" /\ y = Token(s, profiles'[s].latest + 1)
                                      /\ MayBeSent(Token(s, profiles[s].latest))'
    BY DEF Coming, Token
  <1> QED
    BY <1>1, <1>2 DEF Due, NoToken, Token

Outage == reasons' = reasons + 1 /\ UNCHANGED <<profiles, jar>>

\* The answer that brings a new token leaves nothing that does not know of it.
LEMMA SettledIsKnown ==
  ASSUME Shape, TokenInv, NEW t \in Tabs, Settle(t), Bears(t)
  PROVE  ~RefreshIsDue'
  <1> DEFINE x == refreshes[t].token
  <1>1. jar \in Jars /\ x \in AnyToken /\ x \notin DOMAIN loads /\ refreshes \in [Tabs -> RefreshSlots]
    BY DEF Shape, TokenInv, NewTokensAreUnused, Unused, RefreshSlots
  <1>2. jar'.access = x /\ jar'.refresh = x /\ loads' = loads
    BY <1>1 DEF Settle, Bears, Jars
  <1>3. ~MayFail(jar.access)'
    BY <1>1, <1>2 DEF MayFail
  <1>4. ASSUME NEW c \in Calls PROVE ~Failing(c)'
    <2> DEFINE after == Resumed(t, refreshes[t].outcome, "yes", jar')[c]
    <2>1. after \in CallSlots
      <3>1. jar' \in Jars
        BY JarStep DEF Next, Renew
      <3> QED
        BY <3>1, ResumedIs DEF Shape, Lates
    <2>2. calls'[c] = IF after.pc # "idle" /\ after.late = "no" THEN [after EXCEPT !.late = "yes"] ELSE after
      BY DEF Settle, Bears
    <2> HIDE DEF after
    <2>3. calls'[c].late # "no" \/ calls'[c].pc = "idle"
      BY <2>1, <2>2 DEF CallSlots
    <2> QED
      BY <2>3 DEF Failing
  <1>5. ASSUME NEW u \in Tabs PROVE ~Queued(u)'
    <2>1. refreshes'[u] = IF u = t THEN NoRefresh
                          ELSE IF refreshes[u].pc # "idle" /\ refreshes[u].late = "no"
                               THEN [refreshes[u] EXCEPT !.late = "yes"] ELSE refreshes[u]
      BY DEF Settle, Bears
    <2>2. NoRefresh.pc = "idle" /\ refreshes[u] \in RefreshSlots
      BY <1>1 DEF NoRefresh
    <2> HIDE DEF NoRefresh
    <2>3. refreshes'[u].late # "no" \/ refreshes'[u].pc = "idle"
      BY <2>1, <2>2 DEF RefreshSlots
    <2> QED
      BY <2>3 DEF Queued
  <1> QED
    BY <1>3, <1>4, <1>5 DEF RefreshIsDue

\* Nothing else makes a refresh due but an access token that expires and a validation
\* that fails.
LEMMA DueForReason ==
  ASSUME Shape, TokenInv, [Next]_vars, jar'.refresh = jar.refresh, Live(jar.refresh),
         \A t \in Tabs : ~Callback(t) /\ ~(Settle(t) /\ Bears(t)),
         RefreshIsDue', ~Outage, ~Expires
  PROVE  RefreshIsDue
  <1>1. jar \in Jars /\ jar.refresh.s # 0 /\ jar.refresh # NoToken
    BY DEF Shape, SessionsOK, Live, NoToken, Token
  <1>2. jar'.access = jar.access
    <2>1. ASSUME NEW t \in Tabs, Login(t) PROVE jar'.access = jar.access
      BY <1>1, <2>1 DEF Login, Jars
    <2> QED
      BY <1>1, <2>1, JarsMove DEF JarMoves
  <1>3. ASSUME NEW x, MayFail(x)' PROVE MayFail(x)
    BY <1>3, LoadsMoveOn DEF LoadMoves, MayFail, Outage
  <1>4. ASSUME NEW c \in Calls, Failing(c)' PROVE RefreshIsDue
    <2> DEFINE x == calls[c].token
    <2>1. CASE calls'[c].pc = "sent" /\ calls'[c].token = jar.access /\ UNCHANGED <<profiles, jar, loads>>
      BY <1>4, <2>1 DEF Failing, MayFail, RefreshIsDue
    <2>2. CASE calls'[c].token = x /\ calls'[c].retried = calls[c].retried /\ calls'[c].late = calls[c].late
      <3>1. calls[c].late = "no" /\ ~calls[c].retried
        BY <1>4, <2>2 DEF Failing
      <3>2. CASE calls'[c].pc = calls[c].pc /\ calls'[c].verdict = calls[c].verdict
        BY <1>3, <1>4, <2>2, <3>2 DEF Failing, RefreshIsDue
      <3>3. CASE calls'[c].pc = "joined" /\ calls[c].pc = "sent"
        BY <1>3, <1>4, <2>2, <3>3 DEF Failing, RefreshIsDue
      <3>4. CASE calls[c].pc = "sent" /\ x = NoToken
        <4>1. MayFail(x)
          BY <1>1, <3>4 DEF MayFail, NoToken, Token
        <4> QED
          BY <3>1, <3>4, <4>1 DEF Failing, RefreshIsDue
      <3>5. CASE /\ calls'[c].pc = "answered" /\ calls[c].pc = "joined" /\ x \in DOMAIN loads
                 /\ calls'[c].verdict = "ok" \/ (loads[x] # "asked" /\ calls'[c].verdict = loads[x])
        <4>1. calls'[c].verdict # "ok" /\ loads[x] \in {"bad", "outage"}
          BY <1>4, <3>5 DEF Failing, TokenInv, LoadsAreTrue
        <4>2. MayFail(x)
          BY <3>5, <4>1 DEF MayFail, TokenInv, LoadsAreTrue, Live
        <4> QED
          BY <3>1, <3>5, <4>2 DEF Failing, RefreshIsDue
      <3>6. calls'[c].pc # "waiting"
        BY <1>4 DEF Failing
      <3> QED
        BY <1>4, <2>1, <3>2, <3>3, <3>4, <3>5, <3>6, CallsMove DEF CallMoves, Failing
    <2> QED
      BY <1>4, <2>1, <2>2, CallsMove DEF CallMoves, Failing
  <1>5. ASSUME NEW t \in Tabs, Queued(t)' PROVE RefreshIsDue
    <2>1. Queued(t) \/ \E c \in Calls : Failing(c)
      BY <1>5, RefreshesMove DEF RefreshMoves, Queued, Failing
    <2> QED
      BY <2>1 DEF RefreshIsDue
  <1>6. MayFail(jar.access)' => MayFail(jar.access)
    <2>1. MayFail(jar.access)' <=> \/ jar.access.s # jar'.refresh.s
                                   \/ jar.access \in DOMAIN loads' /\ loads'[jar.access] = "outage"
      BY <1>2 DEF MayFail
    <2> QED
      BY <1>3, <2>1 DEF MayFail
  <1> QED
    BY <1>4, <1>5, <1>6 DEF RefreshIsDue

LEMMA SentForReason ==
  ASSUME Shape, TokenInv, [Next]_vars, \A t \in Tabs : ~Callback(t),
         NEW x, Live(x), MayBeSent(x)'
  PROVE  MayBeSent(x) \/ (x = jar.refresh /\ (Outage \/ Expires))
  <1>1. jar \in Jars /\ x.s # 0 /\ x # NoToken
    BY DEF Shape, SessionsOK, Live, NoToken, Token
  <1>2. CASE x \in orphans'
    BY <1>2, OrphansMove DEF MayBeSent
  <1>3. ASSUME NEW t \in Tabs, refreshes'[t].pc = "asked", refreshes'[t].token = x PROVE MayBeSent(x)
    BY <1>3, RefreshesMove DEF RefreshMoves, MayBeSent, UnderWay, RefreshIsDue, Queued
  <1>4. CASE x = jar'.refresh /\ RefreshIsDue'
    <2>1. \A t \in Tabs : ~(Settle(t) /\ Bears(t))
      BY <1>4, SettledIsKnown
    <2>2. jar'.refresh = jar.refresh
      <3>1. ASSUME NEW t \in Tabs, Login(t) PROVE jar'.refresh = jar.refresh
        BY <1>1, <3>1 DEF Login, Jars
      <3>2. CASE Expires
        BY <1>1, <3>2 DEF Expires, Jars
      <3> QED
        BY <1>1, <1>4, <2>1, <3>1, <3>2, JarsMove DEF JarMoves
    <2> QED
      BY <1>4, <2>1, <2>2, DueForReason DEF MayBeSent
  <1>5. UnderWay(x)' => \E t \in Tabs : refreshes'[t].pc = "asked" /\ refreshes'[t].token = x
    BY DEF UnderWay
  <1> QED
    BY <1>2, <1>3, <1>4, <1>5 DEF MayBeSent

\* While no session gets a new token, only a new reason to refresh or a sign-in has to
\* be accounted for.
LEMMA DueGrows ==
  ASSUME Shape, Shape', NEW E,
         \A s \in DOMAIN profiles' : /\ s \in DOMAIN profiles /\ profiles'[s].latest = profiles[s].latest
                                     /\ profiles'[s].state = "live" => profiles[s].state = "live",
         \A x \in AnyToken : Live(x) /\ MayBeSent(x)' => MayBeSent(x) \/ Token(x.s, x.n + 1) \in E,
         jar'.flow \in Tabs => jar.flow \in Tabs \/ NoToken \in E
  PROVE  Due' \subseteq Due \cup E
  <1> SUFFICES ASSUME NEW y \in Due' PROVE y \in Due \/ y \in E
    OBVIOUS
  <1>1. CASE \E s \in DOMAIN profiles' : \E n \in 2..profiles'[s].latest : y = Token(s, n)
    BY <1>1, DueIs
  <1>2. ASSUME NEW s \in DOMAIN profiles', profiles'[s].state = "live",
               y = Token(s, profiles'[s].latest + 1), MayBeSent(Token(s, profiles[s].latest))'
        PROVE  y \in Due \/ y \in E
    <2> DEFINE x == Token(s, profiles[s].latest)
    <2>1. s \in DOMAIN profiles /\ profiles'[s].latest = profiles[s].latest /\ profiles[s].state = "live"
      BY <1>2
    <2>2. x \in AnyToken /\ x.s = s /\ x.n = profiles[s].latest
      BY <2>1 DEF Shape, SessionsOK, Sessions, Token, AnyToken
    <2>3. Live(x) /\ MayBeSent(x)'
      BY <1>2, <2>1, <2>2 DEF Live
    <2>4. MayBeSent(x) \/ y \in E
      BY <1>2, <2>1, <2>2, <2>3
    <2> QED
      BY <1>2, <2>1, <2>4, DueIs
  <1>3. CASE y = NoToken /\ jar'.flow \in Tabs
    BY <1>3, DueIs
  <1> QED
    BY <1>1, <1>2, <1>3, DueNext

\* A token that was to be handed out has been.
LEMMA DueWhenPresented ==
  ASSUME Shape, Shape', TokenInv, [Next]_vars, NEW x \in AnyToken, x \in orphans \/ UnderWay(x),
         profiles' = Presented(x), UNCHANGED <<jar, calls, loads>>,
         \A t \in Tabs : ~Callback(t), ~Outage, ~Expires
  PROVE  Due' \subseteq Due
  <1>1. SessionsOK /\ MayBeSent(x)
    BY DEF Shape, MayBeSent
  <1>2. ASSUME NEW y, Live(y), MayBeSent(y)' PROVE MayBeSent(y)
    BY <1>2, SentForReason
  <1>3. CASE Newest(x)
    <2>1. /\ x.s \in DOMAIN profiles /\ profiles[x.s].latest = x.n /\ profiles[x.s].state = "live"
          /\ x = Token(x.s, x.n) /\ x.s # 0 /\ x.n \in Nat
      BY <1>1, <1>3 DEF Newest, Live, Token, AnyToken, SessionsOK
    <2>2. /\ DOMAIN profiles' = DOMAIN profiles /\ profiles'[x.s].latest = x.n + 1
          /\ \A s \in DOMAIN profiles : s # x.s => profiles'[s] = profiles[s]
      BY <1>1, <1>3, <2>1, PresentedIs
    <2>3. Token(x.s, x.n + 1) \in Due
      BY <1>1, <2>1, DueIs
    <2> SUFFICES ASSUME NEW y \in Due' PROVE y \in Due
      OBVIOUS
    <2>4. ASSUME NEW s \in DOMAIN profiles', NEW n \in 2..profiles'[s].latest, y = Token(s, n) PROVE y \in Due
      <3>1. CASE s # x.s \/ n <= x.n
        BY <2>1, <2>2, <2>4, <3>1, DueIs
      <3>2. CASE s = x.s /\ n = x.n + 1
        BY <2>3, <2>4, <3>2
      <3> QED
        BY <2>1, <2>2, <2>4, <3>1, <3>2
    <2>5. ASSUME NEW s \in DOMAIN profiles', profiles'[s].state = "live",
                 y = Token(s, profiles'[s].latest + 1), MayBeSent(Token(s, profiles[s].latest))'
          PROVE  y \in Due
      <3> DEFINE z == Token(s, profiles'[s].latest)
      <3>0. z.s = s /\ z.n = profiles'[s].latest
        BY DEF Token
      <3>1. CASE s # x.s
        <4>1. profiles'[s] = profiles[s] /\ Live(z)
          BY <2>2, <2>5, <3>0, <3>1 DEF Live
        <4>2. MayBeSent(z)
          BY <1>2, <2>5, <4>1
        <4> QED
          BY <2>2, <2>5, <4>1, <4>2, DueIs
      <3>2. CASE s = x.s
        <4>1. Live(z)
          BY <2>1, <3>0, <3>2 DEF Live
        <4>2. MayBeSent(z)
          BY <1>2, <2>5, <4>1
        <4>3. Issued(z)
          BY <4>2 DEF MayBeSent, UnderWay, TokenInv, TokensAreIssued
        <4> QED
          BY <2>1, <2>2, <3>0, <3>2, <4>3 DEF Issued
      <3> QED
        BY <3>1, <3>2
    <2>6. CASE y = NoToken /\ jar'.flow \in Tabs
      BY <2>6, DueIs
    <2> QED
      BY <2>4, <2>5, <2>6, DueNext
  <1>4. CASE ~Newest(x)
    <2>1. /\ DOMAIN profiles' = DOMAIN profiles
          /\ \A s \in DOMAIN profiles :
               /\ profiles'[s].latest = profiles[s].latest
               /\ profiles'[s].state = "live" => profiles[s].state = "live"
      BY <1>1, <1>4 DEF Presented, SessionsOK, Sessions
    <2>2. Due' \subseteq Due \cup {}
      BY <1>2, <2>1, DueGrows
    <2> QED
      BY <2>2
  <1> QED
    BY <1>3, <1>4

\* A sign-in that ends lets one refresh of its session happen.
LEMMA DueAfterCallback ==
  ASSUME Shape, Shape', NEW t \in Tabs, Callback(t)
  PROVE  Due' \subseteq Due \/ \E y : NoToken \in Due /\ Due' \subseteq (Due \ {NoToken}) \cup {y}
  <1>1. /\ UNCHANGED <<calls, refreshes, orphans, loads>> /\ jar'.flow = None /\ None \notin Tabs
        /\ 0 \notin DOMAIN profiles'
    BY CallbackIs, NoneIsNoTab DEF Shape, SessionsOK
  <1>2. CASE UNCHANGED profiles /\ jar'.access = jar.access /\ jar'.refresh = jar.refresh
    <2>1. ASSUME NEW x \in AnyToken, MayBeSent(x)' PROVE MayBeSent(x)
      BY <1>1, <1>2, <2>1 DEF MayBeSent, UnderWay, RefreshIsDue, MayFail, Failing, Queued
    <2>2. Due' \subseteq Due \cup {}
      BY <1>1, <1>2, <2>1, DueGrows
    <2> QED
      BY <2>2
  <1>3. ASSUME jar.flow = t, NEW k \in Nat, k \notin DOMAIN profiles, k # 0,
               DOMAIN profiles' = DOMAIN profiles \cup {k}, profiles'[k].latest = 1, jar'.refresh = Token(k, 1),
               \A s \in DOMAIN profiles : profiles'[s] = profiles[s]
        PROVE  NoToken \in Due /\ Due' \subseteq (Due \ {NoToken}) \cup {Token(k, 2)}
    <2>1. NoToken \in Due
      BY <1>3, DueIs
    <2>2. ASSUME NEW s \in DOMAIN profiles', NEW n PROVE Token(s, n) # NoToken
      BY <1>1, <2>2 DEF Token, NoToken
    <2> SUFFICES ASSUME NEW y \in Due' PROVE y # NoToken /\ (y \in Due \/ y = Token(k, 2))
      BY <2>1
    <2>3. ASSUME NEW s \in DOMAIN profiles', NEW n \in 2..profiles'[s].latest, y = Token(s, n) PROVE y \in Due
      <3>1. s # k
        BY <1>3, <2>3
      <3> QED
        BY <1>3, <2>3, <3>1, DueIs
    <2>4. ASSUME NEW s \in DOMAIN profiles', profiles'[s].state = "live",
                 y = Token(s, profiles'[s].latest + 1), MayBeSent(Token(s, profiles[s].latest))'
          PROVE  y \in Due \/ y = Token(k, 2)
      <3>1. CASE s = k
        BY <1>3, <2>4, <3>1
      <3>2. CASE s # k
        <4> DEFINE z == Token(s, profiles[s].latest)
        <4>1. profiles'[s] = profiles[s] /\ s \in DOMAIN profiles
          BY <1>3, <3>2
        <4>2. z # jar'.refresh
          BY <1>3, <3>2 DEF Token
        <4>3. MayBeSent(z)
          BY <1>1, <2>4, <4>1, <4>2 DEF MayBeSent, UnderWay
        <4> QED
          BY <2>4, <4>1, <4>3, DueIs
      <3> QED
        BY <3>1, <3>2
    <2>5. CASE y = NoToken /\ jar'.flow \in Tabs
      BY <1>1, <2>5
    <2> QED
      BY <1>1, <2>2, <2>3, <2>4, <2>5, DueNext
  <1> QED
    BY <1>2, <1>3, CallbackIs

LEMMA ReasonsMove == ASSUME [Next]_vars PROVE reasons' \in {reasons, reasons + 1}
  <1>1. ASSUME NEW c \in Calls, Reload(c) \/ Serve(c) PROVE reasons' \in {reasons, reasons + 1}
    BY <1>1 DEF Reload, Serve, Guard, Handle, Validate, Load, Loaded, counts, Reason, Uncaused, Event
  <1>2. ASSUME NEW t \in Tabs, Renew(t) \/ RotateFails(t) \/ GiveUp(t)
        PROVE  reasons' \in {reasons, reasons + 1}
    BY <1>2 DEF Renew, Enter, Skip, CallRefresh, Rotate, RotateFails, Settle, GiveUp, counts,
                Reason, Uncaused, Event
  <1>3. ASSUME NEW t \in Tabs, Logout(t) \/ Login(t) \/ Callback(t)
        PROVE  reasons' \in {reasons, reasons + 1}
    BY <1>3 DEF Logout, Login, Callback, counts, Reason, Uncaused, Event
  <1>4. ASSUME NEW x \in DOMAIN loads, Validate(x) PROVE reasons' \in {reasons, reasons + 1}
    BY <1>4 DEF Validate, Load, Loaded, counts, Reason, Uncaused, Event
  <1>5. ASSUME Orphan \/ Forget \/ Expire \/ StepBack \/ CatchUp \/ SigningOut \/ LogoutLost
        PROVE  reasons' \in {reasons, reasons + 1}
    BY <1>5 DEF Orphan, Forget, Expire, StepBack, CatchUp, SigningOut, Delete, Revoke, LoggedOut,
                LogoutLost, counts, Reason, Uncaused, Event
  <1>6. UNCHANGED vars => reasons' \in {reasons, reasons + 1}
    BY DEF vars, counts
  <1> QED
    BY <1>1, <1>2, <1>3, <1>4, <1>5, <1>6 DEF Next

LEMMA FewerOrOneMore ==
  ASSUME NEW S, IsFiniteSet(S), NEW y, NEW T, T \subseteq S \cup {y}
  PROVE  /\ IsFiniteSet(T) /\ Cardinality(T) \in Nat /\ Cardinality(S) \in Nat
         /\ Cardinality(T) <= Cardinality(S) + 1
  <1>1. IsFiniteSet(S \cup {y}) /\ Cardinality(S \cup {y}) \in {Cardinality(S), Cardinality(S) + 1}
    BY FS_AddElement
  <1>2. /\ IsFiniteSet(T) /\ Cardinality(T) <= Cardinality(S \cup {y})
    BY <1>1, FS_Subset
  <1>3. Cardinality(T) \in Nat /\ Cardinality(S) \in Nat
    BY <1>2, FS_CardinalityType
  <1> QED
    BY <1>1, <1>2, <1>3

LEMMA OneForAnother ==
  ASSUME NEW S, IsFiniteSet(S), NEW a \in S, NEW y, NEW T, T \subseteq (S \ {a}) \cup {y}
  PROVE  /\ IsFiniteSet(T) /\ Cardinality(T) \in Nat /\ Cardinality(S) \in Nat
         /\ Cardinality(T) <= Cardinality(S)
  <1> DEFINE R == S \ {a}
  <1>1. IsFiniteSet(R) /\ Cardinality(R) = Cardinality(S) - 1 /\ Cardinality(S) \in Nat
    BY FS_RemoveElement, FS_CardinalityType
  <1>2. T \subseteq R \cup {y}
    OBVIOUS
  <1> HIDE DEF R
  <1>3. /\ IsFiniteSet(T) /\ Cardinality(T) \in Nat /\ Cardinality(R) \in Nat
        /\ Cardinality(T) <= Cardinality(R) + 1
    BY <1>1, <1>2, FewerOrOneMore
  <1> QED
    BY <1>1, <1>3

LEMMA ReasonsSufficeStep ==
  ASSUME Shape, Shape', TokenInv, ReasonsSuffice, [Next]_vars PROVE ReasonsSuffice'
  <1>1. jar \in Jars /\ reasons \in Nat /\ reasons' \in {reasons, reasons + 1} /\ None \notin Tabs
    BY ReasonsMove, NoneIsNoTab DEF Shape, ReasonsSuffice
  <1>2. ASSUME Due' \subseteq Due PROVE ReasonsSuffice'
    <2>1. IsFiniteSet(Due) /\ Cardinality(Due) <= reasons /\ Cardinality(Due) \in Nat
      BY FS_CardinalityType DEF ReasonsSuffice
    <2>2. IsFiniteSet(Due') /\ Cardinality(Due') <= Cardinality(Due) /\ Cardinality(Due') \in Nat
      BY <1>2, <2>1, FS_Subset, FS_CardinalityType
    <2> QED
      BY <1>1, <2>1, <2>2 DEF ReasonsSuffice
  <1>3. ASSUME NEW y, Due' \subseteq Due \cup {y}, reasons' = reasons + 1 PROVE ReasonsSuffice'
    <2>1. IsFiniteSet(Due) /\ Cardinality(Due) <= reasons
      BY DEF ReasonsSuffice
    <2>2. /\ IsFiniteSet(Due') /\ Cardinality(Due') \in Nat /\ Cardinality(Due) \in Nat
          /\ Cardinality(Due') <= Cardinality(Due) + 1
      BY <1>3, <2>1, FewerOrOneMore
    <2>3. reasons' \in Nat /\ Cardinality(Due') <= reasons'
      BY <1>1, <1>3, <2>1, <2>2
    <2> QED
      BY <2>2, <2>3 DEF ReasonsSuffice
  <1>4. ASSUME NEW y, NEW a \in Due, Due' \subseteq (Due \ {a}) \cup {y}, reasons' = reasons PROVE ReasonsSuffice'
    <2>1. IsFiniteSet(Due) /\ Cardinality(Due) <= reasons
      BY DEF ReasonsSuffice
    <2>2. /\ IsFiniteSet(Due') /\ Cardinality(Due') \in Nat /\ Cardinality(Due) \in Nat
          /\ Cardinality(Due') <= Cardinality(Due)
      BY <1>4, <2>1, OneForAnother
    <2>3. reasons' \in Nat /\ Cardinality(Due') <= reasons'
      BY <1>1, <1>4, <2>1, <2>2
    <2> QED
      BY <2>2, <2>3 DEF ReasonsSuffice
  <1>5. ASSUME NEW t \in Tabs, Callback(t) PROVE ReasonsSuffice'
    <2>1. reasons' = reasons
      BY <1>5, CallbackIs
    <2> QED
      BY <1>2, <1>4, <1>5, <2>1, DueAfterCallback
  <1>6. CASE \A t \in Tabs : ~Callback(t)
    <2>1. \A x \in AnyToken : Live(x) /\ MayBeSent(x)' =>
             MayBeSent(x) \/ (x = jar.refresh /\ (Outage \/ Expires))
      BY <1>6, SentForReason
    <2>2. CASE Outage \/ Expires
      <3> DEFINE y == Token(jar.refresh.s, jar.refresh.n + 1)
      <3>1. UNCHANGED profiles /\ jar'.flow = jar.flow /\ reasons' = reasons + 1
        BY <1>1, <2>2 DEF Outage, Expires, Jars
      <3>2. \A x \in AnyToken : Live(x) /\ MayBeSent(x)' => MayBeSent(x) \/ Token(x.s, x.n + 1) \in {y}
        BY <2>1
      <3> HIDE DEF y
      <3>3. Due' \subseteq Due \cup {y}
        BY <3>1, <3>2, DueGrows
      <3> QED
        BY <1>3, <3>1, <3>3
    <2>3. CASE ~Outage /\ ~Expires
      <3>1. \A x \in AnyToken : Live(x) /\ MayBeSent(x)' => MayBeSent(x)
        BY <2>1, <2>3
      <3>2. ASSUME NEW t \in Tabs, Login(t) PROVE ReasonsSuffice'
        <4>1. UNCHANGED profiles /\ reasons' = reasons + 1
          BY <3>2 DEF Login, Reason
        <4>2. Due' \subseteq Due \cup {NoToken}
          BY <3>1, <4>1, DueGrows
        <4> QED
          BY <1>3, <4>1, <4>2
      <3>3. CASE \A t \in Tabs : ~Login(t)
        <4>1. jar'.flow \in Tabs => jar.flow \in Tabs
          <5>1. ASSUME NEW t \in Tabs, Settle(t), Bears(t) PROVE jar'.flow = jar.flow
            BY <1>1, <5>1 DEF Settle, Bears, Jars
          <5> QED
            BY <1>1, <1>6, <2>3, <3>3, <5>1, JarsMove DEF JarMoves
        <4>2. ASSUME NEW x \in AnyToken, x \in orphans \/ UnderWay(x), profiles' = Presented(x),
                     UNCHANGED <<jar, calls, loads>>
              PROVE  ReasonsSuffice'
          BY <1>2, <1>6, <2>3, <4>2, DueWhenPresented
        <4>3. CASE \A s \in DOMAIN profiles' : /\ s \in DOMAIN profiles /\ profiles'[s].latest = profiles[s].latest
                                               /\ profiles'[s].state = "live" => profiles[s].state = "live"
          <5>1. Due' \subseteq Due \cup {}
            BY <3>1, <4>1, <4>3, DueGrows
          <5> QED
            BY <1>2, <5>1
        <4> QED
          BY <1>6, <4>2, <4>3, SessionsMove DEF ProfilesMove
      <3> QED
        BY <3>2, <3>3
    <2> QED
      BY <2>2, <2>3
  <1> QED
    BY <1>5, <1>6

LEMMA InitReasons == Init => TokenInv /\ ReasonsSuffice
  <1> SUFFICES ASSUME Init PROVE TokenInv /\ ReasonsSuffice
    OBVIOUS
  <1>1. /\ DOMAIN profiles = {1} /\ profiles[1].latest = 1 /\ DOMAIN loads = {} /\ orphans = {}
        /\ jar.access = Token(1, 1) /\ jar.refresh = Token(1, 1) /\ jar.flow = None
    BY DEF Init
  <1>2. /\ \A c \in Calls : calls[c].pc = "idle" /\ calls[c].token = NoToken
        /\ \A t \in Tabs : refreshes[t].pc = "idle" /\ refreshes[t].token = NoToken
    BY DEF Init, NoCall, NoRefresh
  <1>3. Issued(Token(1, 1)) /\ Issued(NoToken)
    BY <1>1 DEF Issued, NoToken, Token, AnyToken
  <1>4. TokenInv
    BY <1>1, <1>2, <1>3 DEF TokenInv, TokensAreIssued, NewTokensAreUnused, LoadsAreTrue, Bears
  <1>5. ~MayFail(jar.access)
    BY <1>1 DEF MayFail
  <1>6. \A x : ~MayBeSent(x)
    BY <1>1, <1>2, <1>5 DEF MayBeSent, UnderWay, RefreshIsDue, Failing, Queued
  <1>7. \A y : y \notin Due
    BY <1>1, <1>6, DueIs, NoneIsNoTab
  <1>8. Due = {}
    BY <1>7
  <1> QED
    BY <1>4, <1>8, FS_EmptySet DEF ReasonsSuffice, Init

-----------------------------------------------------------------------------
(* Why a request was turned down                                            *)

TabsOK == tabs \in [Tabs -> {"loading", "in", "out", "away"}]

\* Only the token of a session that has ended is refused.
AnswersAreTrue ==
    \A c \in Calls :
        calls[c].pc = "answered" =>
            /\ calls[c].verdict \in {"ok", "bad", "outage"}
            /\ calls[c].verdict = "bad" => ~Live(calls[c].token)

\* A request is sent again with a token of the session that the jar then held.
RetriesBearTheirSession ==
    \A c \in Calls :
        /\ calls[c].session = 0 \/ calls[c].session \in DOMAIN profiles
        /\ calls[c].retried =>
             \/ calls[c].late = "clock"
             \/ calls[c].late = "yes" /\ calls[c].token.s = calls[c].session

\* While a request knows that a token was renewed, the jar holds one or nothing.
RenewedIsThere ==
    (\E c \in Calls : calls[c].late = "yes") => jar.access # NoToken \/ jar.refresh = NoToken

\* A request waits for each refresh, and knows of the same renewals.
StartedBy(t) == \E c \in Waiting(t) : calls[c].late = refreshes[t].late
RefreshesAreStarted == \A t \in Tabs : refreshes[t].pc # "idle" => StartedBy(t)

\* A request waits for each refresh under way whose session, if the jar still has it,
\* is the one that it renews.
AskedFor(t) ==
    \E c \in Waiting(t) :
        /\ refreshes[t].pc = "asked" /\ HasSession(calls[c].session) => jar.refresh = refreshes[t].token
        /\ refreshes[t].pc = "answered" /\ refreshes[t].outcome = "denied" => ~HasSession(calls[c].session)
RefreshesAreAskedFor == \A t \in Tabs : InTurn(t) => AskedFor(t)

RefusalInv ==
    /\ TabsOK /\ AnswersAreTrue /\ RetriesBearTheirSession /\ RenewedIsThere
    /\ RefreshesAreStarted /\ RefreshesAreAskedFor

LEMMA OldStays ==
  ASSUME Shape, [Next]_vars, NEW x, Issued(x), ~Newest(x) PROVE ~Newest(x)'
  <1>1. CASE ~Live(x)
    BY <1>1, EndedStays DEF Newest, Live
  <1>2. CASE Live(x)
    <2>1. /\ x.s \in DOMAIN profiles /\ profiles[x.s].latest \in Nat /\ profiles'[x.s].latest \in Nat
          /\ profiles[x.s].latest <= profiles'[x.s].latest
      BY <1>2, LatestGrows DEF Live
    <2>2. x.n \in Nat /\ x.n <= profiles[x.s].latest /\ x.n # profiles[x.s].latest
      BY <1>2, <2>1 DEF Issued, AnyToken, Shape, SessionsOK, Newest
    <2> QED
      BY <2>1, <2>2 DEF Newest
  <1> QED
    BY <1>1, <1>2

\* The jar holds a session that it held before, with the same token, or a new one,
\* unless a refresh brings it.
LEMMA LostSessionsStay ==
  ASSUME Shape, TokenInv, [Next]_vars, \A t \in Tabs : ~(Settle(t) /\ Bears(t)),
         NEW s, s = 0 \/ s \in DOMAIN profiles, HasSession(s)'
  PROVE  HasSession(s) /\ jar'.refresh = jar.refresh
  <1>1. jar \in Jars /\ 0 \notin DOMAIN profiles' /\ s # 0
    BY SessionsStep DEF Shape, SessionsOK, HasSession, Newest, Live
  <1>2. jar'.refresh = jar.refresh
    <2>1. ASSUME NEW t \in Tabs, Login(t) PROVE jar'.refresh = jar.refresh
      BY <1>1, <2>1 DEF Login, Jars
    <2>2. ASSUME NEW t \in Tabs, Callback(t) PROVE jar'.refresh = jar.refresh
      <3>1. CASE \E k \in Nat : k \notin DOMAIN profiles /\ k # 0 /\ jar'.refresh = Token(k, 1)
        BY <1>1, <3>1 DEF HasSession, Token
      <3> QED
        BY <2>2, <3>1, CallbackIs
    <2>3. CASE Expires
      BY <1>1, <2>3 DEF Expires, Jars
    <2>4. CASE jar'.refresh = NoToken
      BY <1>1, <2>4 DEF HasSession, NoToken, Token
    <2> QED
      BY <2>1, <2>2, <2>3, <2>4, JarsMove DEF JarMoves
  <1>3. ASSUME NEW x, x = jar.refresh PROVE Newest(x)
    <2>1. Newest(x)' /\ Issued(x)
      BY <1>2, <1>3 DEF HasSession, Newest, Live, TokenInv, TokensAreIssued
    <2> QED
      BY <2>1, OldStays DEF Newest, Live
  <1> QED
    BY <1>2, <1>3 DEF HasSession

LEMMA AnswersAreTrueStep ==
  ASSUME Shape, TokenInv, AnswersAreTrue, [Next]_vars PROVE AnswersAreTrue'
  <1> SUFFICES ASSUME NEW c \in Calls, calls'[c].pc = "answered"
               PROVE  /\ calls'[c].verdict \in {"ok", "bad", "outage"}
                      /\ calls'[c].verdict = "bad" => ~Live(calls[c].token)'
    BY DEF AnswersAreTrue
  <1>1. calls'[c].token = calls[c].token /\ Issued(calls[c].token)
    BY CallsMove DEF CallMoves, TokenInv, TokensAreIssued
  <1>2. ~Live(calls[c].token) => ~Live(calls[c].token)'
    BY <1>1, EndedStays DEF Live
  <1>3. CASE calls[c].pc = "answered" /\ calls'[c].verdict = calls[c].verdict
    BY <1>2, <1>3 DEF AnswersAreTrue
  <1>4. CASE calls[c].token = NoToken /\ calls'[c].verdict = "bad"
    <2>1. ~Live(calls[c].token)
      BY <1>4 DEF Shape, SessionsOK, Live, NoToken, Token
    <2> QED
      BY <1>2, <1>4, <2>1
  <1>5. CASE /\ calls[c].token \in DOMAIN loads
             /\ \/ calls'[c].verdict = "ok"
                \/ loads[calls[c].token] # "asked" /\ calls'[c].verdict = loads[calls[c].token]
    BY <1>2, <1>5 DEF TokenInv, LoadsAreTrue
  <1> QED
    BY <1>3, <1>4, <1>5, CallsMove DEF CallMoves

LEMMA RetriesStep ==
  ASSUME Shape, TokenInv, Pairs, RetriesBearTheirSession, RenewedIsThere, RefreshesAreStarted, Shape', Pairs', [Next]_vars
  PROVE  RetriesBearTheirSession'
  <1> SUFFICES ASSUME NEW c \in Calls
               PROVE  /\ calls'[c].session = 0 \/ calls'[c].session \in DOMAIN profiles'
                      /\ calls'[c].retried =>
                           \/ calls'[c].late = "clock"
                           \/ calls'[c].late = "yes" /\ calls'[c].token.s = calls'[c].session
    BY DEF RetriesBearTheirSession
  <1>1. /\ \A s \in DOMAIN profiles : s \in DOMAIN profiles'
        /\ jar.refresh.s = 0 \/ jar.refresh.s \in DOMAIN profiles
        /\ jar'.refresh.s = 0 \/ jar'.refresh.s \in DOMAIN profiles'
        /\ calls[c].session = 0 \/ calls[c].session \in DOMAIN profiles
    BY SessionsStep DEF SessionsGrow, Pairs, Known, RetriesBearTheirSession
  <1>2. CASE ~calls'[c].retried
    BY <1>1, <1>2, CallsMove DEF CallMoves
  <1>3. CASE calls'[c].retried /\ calls[c].retried /\ calls'[c].session = calls[c].session
             /\ calls'[c].token = calls[c].token /\ calls'[c].late = calls[c].late
    BY <1>1, <1>3 DEF RetriesBearTheirSession
  <1>4. ASSUME calls'[c].token = jar'.access, calls'[c].session = jar'.refresh.s,
               NEW t \in Tabs, Settle(t), Bears(t), calls'[c].late = "yes"
        PROVE  calls'[c].token.s = calls'[c].session
    BY <1>4 DEF Settle, Bears, Shape, Jars
  <1>5. ASSUME calls'[c].token = jar'.access, calls'[c].session = jar'.refresh.s,
               NEW t \in Tabs, Skip(t), calls'[c].late = refreshes[t].late
        PROVE  \/ calls'[c].late = "clock"
               \/ calls'[c].late = "yes" /\ calls'[c].token.s = calls'[c].session
    <2>1. jar' = jar /\ refreshes[t].pc = "queued" /\ refreshes[t].late \in {"yes", "clock"}
      BY <1>5 DEF Skip, Renewed, Shape, RefreshSlots, Lates
    <2>2. CASE refreshes[t].late = "yes"
      <3>1. jar.access # NoToken \/ jar.refresh = NoToken
        BY <2>1, <2>2 DEF RefreshesAreStarted, StartedBy, Waiting, RenewedIsThere
      <3>2. CASE jar.access # NoToken
        BY <1>5, <2>1, <2>2, <3>2 DEF Pairs
      <3>3. CASE jar.access = NoToken /\ jar.refresh = NoToken
        BY <1>5, <2>1, <2>2, <3>3
      <3> QED
        BY <3>1, <3>2, <3>3
    <2> QED
      BY <1>5, <2>1, <2>2
  <1> QED
    BY <1>1, <1>2, <1>3, <1>4, <1>5, CallsMove DEF CallMoves, RetriesBearTheirSession

LEMMA RenewedIsThereStep ==
  ASSUME Shape, Pairs, RenewedIsThere, RefreshesAreStarted, [Next]_vars PROVE RenewedIsThere'
  <1>1. jar \in Jars /\ 0 \notin DOMAIN profiles
    BY DEF Shape, SessionsOK
  <1>2. ASSUME NEW t \in Tabs, Settle(t), Bears(t) PROVE jar'.access # NoToken
    <2>1. jar'.access = refreshes[t].token /\ refreshes[t].token.s \in DOMAIN profiles
      BY <1>1, <1>2 DEF Settle, Bears, Jars, Pairs
    <2> QED
      BY <1>1, <2>1 DEF NoToken, Token
  <1>3. CASE \A t \in Tabs : ~(Settle(t) /\ Bears(t))
    <2> SUFFICES ASSUME NEW c \in Calls, calls'[c].late = "yes"
                 PROVE  jar'.access # NoToken \/ jar'.refresh = NoToken
      BY DEF RenewedIsThere
    <2>1. \E d \in Calls : calls[d].late = "yes"
      <3>1. ASSUME NEW t \in Tabs, Skip(t), refreshes[t].late = "yes" PROVE \E d \in Calls : calls[d].late = "yes"
        BY <3>1 DEF Skip, RefreshesAreStarted, StartedBy, Waiting
      <3> QED
        BY <1>3, <3>1, CallsMove DEF CallMoves
    <2>2. jar.access # NoToken \/ jar.refresh = NoToken
      BY <2>1 DEF RenewedIsThere
    <2>3. ASSUME NEW t \in Tabs, Login(t) PROVE jar'.access = jar.access /\ jar'.refresh = jar.refresh
      BY <1>1, <2>3 DEF Login, Jars
    <2>4. ASSUME NEW t \in Tabs, Callback(t) PROVE jar'.access # NoToken \/ jar'.refresh = NoToken
      <3>1. CASE \E s \in Nat : s # 0 /\ jar'.access = Token(s, 1)
        BY <3>1 DEF Token, NoToken
      <3> QED
        BY <2>2, <2>4, <3>1, CallbackIs
    <2> QED
      BY <1>3, <2>1, <2>2, <2>3, <2>4, JarsMove DEF JarMoves, Expires
  <1> QED
    BY <1>2, <1>3 DEF RenewedIsThere

\* A request waits until its refresh ends, and hears of the same renewals.
LEMMA WaitersStay ==
  ASSUME Shape, [Next]_vars, NEW t \in Tabs, NEW c \in Waiting(t), refreshes'[t].pc # "idle"
  PROVE  /\ c \in Waiting(t)' /\ calls'[c].session = calls[c].session
         /\ calls[c].late = refreshes[t].late /\ refreshes[t].pc # "idle" => calls'[c].late = refreshes'[t].late
  <1>1. /\ c \in Calls /\ TabOf[c] = t /\ calls[c].pc = "waiting" /\ calls[c] \in CallSlots
        /\ calls \in [Calls -> CallSlots] /\ refreshes \in [Tabs -> RefreshSlots] /\ NoRefresh.pc = "idle"
        /\ logout.pc # "idle" => logout.tab \in Tabs
    BY DEF Waiting, Shape, LogoutOK, NoRefresh
  <1> DEFINE Goal == /\ c \in Waiting(t)' /\ calls'[c].session = calls[c].session
                     /\ calls[c].late = refreshes[t].late /\ refreshes[t].pc # "idle" =>
                          calls'[c].late = refreshes'[t].late
  <1>2. ASSUME calls'[c] = calls[c], refreshes[t].pc # "idle" => refreshes'[t].late = refreshes[t].late PROVE Goal
    BY <1>1, <1>2 DEF Waiting
  <1>3. ASSUME NEW d \in Calls, Guard(d) \/ Reload(d) PROVE Goal
    BY <1>1, <1>2, <1>3 DEF Guard, Reload
  <1>4. ASSUME NEW x \in DOMAIN loads, Load(x) \/ Loaded(x) PROVE Goal
    BY <1>1, <1>2, <1>4 DEF Load, Loaded, Ends
  <1>5. ASSUME NEW d \in Calls, Handle(d) PROVE Goal
    <2>1. c # d /\ calls'[c] = calls[c] /\ TabOf[d] \in Tabs
      BY <1>1, <1>5, CallsHaveTabs DEF Handle
    <2>2. refreshes[t].pc # "idle" => refreshes'[t] = refreshes[t]
      BY <1>1, <1>5, <2>1 DEF Handle
    <2> QED
      BY <1>2, <2>1, <2>2
  <1>6. ASSUME NEW u \in Tabs, Skip(u) \/ GiveUp(u) PROVE Goal
    BY <1>1, <1>2, <1>6 DEF Skip, GiveUp, Resumed, Waiting
  <1>7. ASSUME NEW u \in Tabs, CallRefresh(u) \/ Rotate(u) \/ RotateFails(u) PROVE Goal
    <2>1. refreshes'[t].late = refreshes[t].late
      BY <1>1, <1>7 DEF CallRefresh, Rotate, RotateFails, RefreshSlots
    <2> QED
      BY <1>2, <1>7, <2>1 DEF CallRefresh, Rotate, RotateFails
  <1>8. ASSUME NEW u \in Tabs, Settle(u) PROVE Goal
    <2> DEFINE o == refreshes[u].outcome
               Marked(x) == IF o = "ok" /\ x.pc # "idle" /\ x.late = "no" THEN [x EXCEPT !.late = "yes"] ELSE x
    <2>1. u # t /\ refreshes'[t] = Marked(refreshes[t])
      BY <1>1, <1>8 DEF Settle
    <2>2. calls'[c] = Marked(calls[c])
      BY <1>1, <1>8, <2>1 DEF Settle, Resumed, Waiting
    <2>3. /\ calls'[c].pc = "waiting" /\ calls'[c].session = calls[c].session
          /\ calls'[c].late = IF o = "ok" /\ calls[c].late = "no" THEN "yes" ELSE calls[c].late
      BY <1>1, <2>2 DEF CallSlots
    <2>4. refreshes[t].pc # "idle" =>
            refreshes'[t].late = IF o = "ok" /\ refreshes[t].late = "no" THEN "yes" ELSE refreshes[t].late
      BY <1>1, <2>1 DEF RefreshSlots
    <2> QED
      BY <1>1, <2>3, <2>4 DEF Waiting
  <1>9. ASSUME NEW u \in Tabs, Leave(u) PROVE Goal
    BY <1>1, <1>2, <1>9 DEF Leave
  <1>10. ASSUME UNCHANGED <<calls, refreshes>> PROVE Goal
    BY <1>2, <1>10
  <1>11. ASSUME LoggedOut PROVE Goal
    BY <1>1, <1>9, <1>11 DEF LoggedOut
  <1>12. ASSUME NEW u \in Tabs, Login(u) PROVE Goal
    BY <1>9, <1>12 DEF Login
  <1>13. ASSUME NEW u \in Tabs, Logout(u) \/ Callback(u) PROVE Goal
    BY <1>10, <1>13 DEF Logout, Callback, browser
  <1>14. ASSUME \/ Orphan \/ Forget \/ Expire \/ StepBack \/ CatchUp \/ Delete \/ Revoke \/ LogoutLost
                \/ UNCHANGED vars
         PROVE  Goal
    BY <1>10, <1>14 DEF Orphan, Forget, Expire, StepBack, CatchUp, Delete, Revoke, LogoutLost, vars, browser
  <1>15. Goal
    <2> HIDE DEF Goal
    <2>1. CASE \E d \in Calls : Reload(d) \/ Serve(d)
      BY <1>3, <1>4, <1>5, <2>1 DEF Serve, Validate
    <2>2. CASE \E u \in Tabs : Renew(u) \/ RotateFails(u) \/ GiveUp(u) \/ Logout(u) \/ Login(u) \/ Callback(u)
      BY <1>6, <1>7, <1>8, <1>12, <1>13, <2>2 DEF Renew, Enter
    <2> QED
      BY <1>4, <1>11, <1>14, <2>1, <2>2 DEF Next, Validate, SigningOut
  <1> QED
    BY <1>15

LEMMA RefreshesAreStartedStep ==
  ASSUME Shape, RefreshesAreStarted, [Next]_vars PROVE RefreshesAreStarted'
  <1> SUFFICES ASSUME NEW t \in Tabs, refreshes'[t].pc # "idle"
               PROVE  \E c \in Waiting(t)' : calls'[c].late = refreshes'[t].late
    BY DEF RefreshesAreStarted, StartedBy
  <1>1. CASE refreshes[t].pc # "idle"
    <2>1. PICK c \in Waiting(t) : calls[c].late = refreshes[t].late
      BY <1>1 DEF RefreshesAreStarted, StartedBy
    <2> QED
      BY <1>1, <2>1, WaitersStay
  <1>2. CASE refreshes[t].pc = "idle"
    BY <1>2, RefreshesMove DEF RefreshMoves, Waiting
  <1> QED
    BY <1>1, <1>2

LEMMA RefreshesAreAskedForStep ==
  ASSUME Shape, TokenInv, OneInTurn, RetriesBearTheirSession, RefreshesAreStarted, RefreshesAreAskedFor, [Next]_vars
  PROVE  RefreshesAreAskedFor'
  <1> SUFFICES ASSUME NEW t \in Tabs, InTurn(t)' PROVE AskedFor(t)'
    BY DEF RefreshesAreAskedFor
  <1> DEFINE old == refreshes[t]
             new == refreshes'[t]
  <1>1. new.pc \in {"asked", "answered"}
    BY DEF InTurn
  <1>2. SUFFICES \E c \in Waiting(t)' :
                   /\ new.pc = "asked" /\ HasSession(calls[c].session)' => jar'.refresh = new.token
                   /\ new.pc = "answered" /\ new.outcome = "denied" => ~HasSession(calls[c].session)'
    BY DEF AskedFor
  <1>3. ASSUME InTurn(t) PROVE \A u \in Tabs : ~(Settle(u) /\ Bears(u))
    BY <1>1, <1>3 DEF OneInTurn, InTurn, Bears, Settle, NoRefresh
  <1>4. ASSUME InTurn(t), NEW c \in Waiting(t), HasSession(calls[c].session)'
        PROVE  HasSession(calls[c].session) /\ jar'.refresh = jar.refresh /\ Newest(jar.refresh)
    <2>1. c \in Calls /\ calls'[c].session = calls[c].session
      BY <1>1, <1>4, WaitersStay DEF Waiting
    <2>2. PICK s : s = calls[c].session
      OBVIOUS
    <2>3. (s = 0 \/ s \in DOMAIN profiles) /\ HasSession(s)'
      BY <1>4, <2>1, <2>2 DEF RetriesBearTheirSession, HasSession
    <2>4. HasSession(s) /\ jar'.refresh = jar.refresh
      BY <1>3, <1>4, <2>3, LostSessionsStay
    <2> QED
      BY <2>2, <2>4 DEF HasSession
  <1>5. CASE new.pc = "asked" /\ new.token = jar.refresh /\ refreshes[t].pc = "queued" /\ jar' = jar
    <2>1. PICK c : c \in Waiting(t)
      BY <1>5 DEF RefreshesAreStarted, StartedBy
    <2>2. c \in Waiting(t)'
      BY <1>5, <2>1, WaitersStay
    <2> QED
      BY <1>5, <2>2
  <1>6. CASE InTurn(t)
    <2>1. PICK c \in Waiting(t) :
            /\ old.pc = "asked" /\ HasSession(calls[c].session) => jar.refresh = old.token
            /\ old.pc = "answered" /\ old.outcome = "denied" => ~HasSession(calls[c].session)
      BY <1>6 DEF RefreshesAreAskedFor, AskedFor
    <2>2. c \in Waiting(t)' /\ calls'[c].session = calls[c].session
      BY <1>1, WaitersStay
    <2>3. \/ new.pc = old.pc /\ new.token = old.token /\ new.outcome = old.outcome
          \/ new.pc = "answered" /\ old.pc = "asked" /\ (new.outcome = "denied" => ~Newest(old.token))
      BY <1>1, <1>6, RefreshesMove DEF RefreshMoves, InTurn
    <2>4. new.pc = "asked" /\ HasSession(calls[c].session)' => jar'.refresh = new.token
      BY <1>4, <1>6, <2>1, <2>3
    <2>5. new.pc = "answered" /\ new.outcome = "denied" => ~HasSession(calls[c].session)'
      BY <1>4, <1>6, <2>1, <2>3
    <2> QED
      BY <2>2, <2>4, <2>5
  <1> QED
    BY <1>1, <1>5, <1>6, RefreshesMove DEF RefreshMoves, InTurn

LEMMA TabsStep == ASSUME Shape, TabsOK, [Next]_vars PROVE TabsOK'
  <1>1. CASE UNCHANGED tabs
    BY <1>1 DEF TabsOK
  <1>2. ASSUME NEW u \in Tabs, NEW v \in {"loading", "in", "out", "away"}, tabs' = [tabs EXCEPT ![u] = v]
        PROVE  TabsOK'
    BY <1>2 DEF TabsOK
  <1>3. ASSUME NEW u \in Tabs, NEW o, tabs' = Shown(u, o) PROVE TabsOK'
    BY <1>3 DEF TabsOK, Shown
  <1>4. ASSUME NEW c \in Calls, Handle(c) PROVE TabsOK'
    BY <1>1, <1>2, <1>4, CallsHaveTabs DEF Handle
  <1>5. CASE LoggedOut
    BY <1>2, <1>5 DEF LoggedOut, Shape, LogoutOK
  <1> QED
    BY <1>1, <1>2, <1>3, <1>4, <1>5
       DEF Next, Serve, Validate, Renew, Enter, SigningOut, vars, browser, Reload, Guard, Load, Loaded,
           Skip, CallRefresh, Rotate, RotateFails, Settle, GiveUp, Logout, Login, Callback, Orphan, Forget,
           Expire, StepBack, CatchUp, Delete, Revoke, LogoutLost

LEMMA RefusalStep ==
  ASSUME IInv, IInv', TokenInv, RefusalInv, [Next]_vars PROVE RefusalInv'
  BY TabsStep, AnswersAreTrueStep, RetriesStep, RenewedIsThereStep, RefreshesAreStartedStep, RefreshesAreAskedForStep
     DEF IInv, ReplayInv, RefusalInv

LEMMA InitRefusal == Init => RefusalInv
  <1> SUFFICES ASSUME Init PROVE RefusalInv
    OBVIOUS
  <1>1. /\ \A c \in Calls : /\ calls[c].pc = "idle" /\ calls[c].session = 0 /\ ~calls[c].retried
                            /\ calls[c].late = "no"
        /\ \A t \in Tabs : refreshes[t].pc = "idle"
    BY DEF Init, NoCall, NoRefresh
  <1> QED
    BY <1>1 DEF RefusalInv, TabsOK, Init, AnswersAreTrue, RetriesBearTheirSession, RenewedIsThere, RefreshesAreStarted,
                RefreshesAreAskedFor, InTurn

\* Who takes a user for signed out has asked twice, or heard that there is nothing to renew.
LEMMA SigningOutIsReal ==
  ASSUME Shape, RefusalInv, [Next]_vars, NEW t \in Tabs, tabs[t] = "in", tabs'[t] = "out"
  PROVE  \E c \in Calls : /\ SignsOut(t, c)
                          /\ \/ ~HasSession(calls[c].session)
                             \/ calls[c].verdict = "outage"
                             \/ calls[c].pc = "waiting" /\ refreshes[t].outcome = "mistaken"
                             \/ calls[c].late = "clock"
  <1>1. /\ NoCall.pc = "idle" /\ calls \in [Calls -> CallSlots] /\ TabsOK
        /\ logout.pc # "idle" => logout.tab \in Tabs
    BY DEF NoCall, Shape, LogoutOK, RefusalInv
  <1>2. ASSUME NEW c \in Calls, Handle(c), tabs' = [tabs EXCEPT ![TabOf[c]] = "out"], TabOf[c] = t,
               calls' = [calls EXCEPT ![c] = NoCall], calls[c].verdict # "ok", calls[c].retried
        PROVE  /\ SignsOut(t, c)
               /\ \/ ~HasSession(calls[c].session)
                  \/ calls[c].verdict = "outage"
                  \/ calls[c].late = "clock"
    <2>1. SignsOut(t, c)
      BY <1>1, <1>2 DEF Handle, SignsOut
    <2>2. CASE calls[c].verdict = "bad" /\ calls[c].late = "yes"
      <3>1. ~Live(calls[c].token) /\ calls[c].token.s = calls[c].session
        BY <1>2, <2>2 DEF Handle, RefusalInv, AnswersAreTrue, RetriesBearTheirSession
      <3> QED
        BY <2>1, <3>1 DEF HasSession, Newest, Live
    <2> QED
      BY <1>2, <2>1, <2>2 DEF Handle, RefusalInv, AnswersAreTrue, RetriesBearTheirSession
  <1>3. ASSUME Settle(t), Waiting(t) # {}, refreshes[t].outcome = "denied"
        PROVE  \E c \in Calls : SignsOut(t, c) /\ ~HasSession(calls[c].session)
    <2>1. PICK c \in Waiting(t) : ~HasSession(calls[c].session)
      BY <1>3 DEF Settle, RefusalInv, RefreshesAreAskedFor, AskedFor, InTurn
    <2>2. calls'[c] = NoCall
      BY <1>3, <2>1 DEF Settle, Resumed, Waiting
    <2> QED
      BY <1>1, <2>1, <2>2 DEF SignsOut, Waiting
  <1>9. ASSUME Settle(t), Waiting(t) # {}, refreshes[t].outcome = "mistaken"
        PROVE  \E c \in Calls : /\ SignsOut(t, c)
                                /\ calls[c].pc = "waiting" /\ refreshes[t].outcome = "mistaken"
    <2>1. PICK c \in Waiting(t) : TRUE
      BY <1>9
    <2>2. calls'[c] = NoCall
      BY <1>9, <2>1 DEF Settle, Resumed, Waiting
    <2> QED
      BY <1>1, <1>9, <2>1, <2>2 DEF SignsOut, Waiting
  <1>4. ASSUME NEW u \in Tabs, Settle(u) \/ GiveUp(u)
        PROVE  Settle(t) /\ Waiting(t) # {} /\ refreshes[t].outcome \in {"denied", "mistaken"}
    <2>1. ASSUME NEW outcome, tabs' = Shown(u, outcome)
          PROVE  u = t /\ Waiting(t) # {} /\ outcome \in {"denied", "mistaken"}
      BY <1>1, <2>1 DEF Shown, TabsOK
    <2>2. CASE GiveUp(u)
      BY <2>1, <2>2 DEF GiveUp
    <2>3. CASE Settle(u)
      <3>1. tabs' = Shown(u, refreshes[u].outcome)
        BY <2>3 DEF Settle
      <3> QED
        BY <2>1, <2>3, <3>1
    <2> QED
      BY <1>4, <2>2, <2>3
  <1>5. ASSUME NEW c \in Calls, Handle(c)
        PROVE  /\ tabs' = [tabs EXCEPT ![TabOf[c]] = "out"] /\ TabOf[c] = t
               /\ calls' = [calls EXCEPT ![c] = NoCall] /\ calls[c].verdict # "ok" /\ calls[c].retried
    BY <1>1, <1>5, CallsHaveTabs DEF Handle, TabsOK
  <1>6. ASSUME NEW u \in Tabs, Login(u) \/ Callback(u) PROVE FALSE
    BY <1>1, <1>6 DEF Login, Callback, TabsOK
  <1>7. CASE LoggedOut
    BY <1>1, <1>7 DEF LoggedOut, TabsOK
  <1>8. tabs' # tabs
    OBVIOUS
  <1> QED
    BY <1>2, <1>3, <1>4, <1>5, <1>6, <1>7, <1>8, <1>9
       DEF Next, Serve, Validate, Renew, Enter, SigningOut, vars, browser, Reload, Guard, Load, Loaded,
           Skip, CallRefresh, Rotate, RotateFails, Logout, Orphan, Forget, Expire,
           StepBack, CatchUp, Delete, Revoke, LogoutLost

-----------------------------------------------------------------------------
(* The theorems                                                             *)

LEMMA InitInv == Init => IInv
  <1> SUFFICES ASSUME Init PROVE IInv
    OBVIOUS
  <1>1. DOMAIN profiles = 1..1 /\ profiles[1] = [latest |-> 1, state |-> "live"]
    BY DEF Init
  <1>2. SessionsOK
    <2>1. Cardinality(1..1) = 1
      <3>1. 1..1 = {1}
        OBVIOUS
      <3> QED
        BY <3>1, FS_Singleton, Zenon
    <2>2. profiles \in [DOMAIN profiles -> Sessions]
      BY DEF Init, Sessions
    <2> QED
      BY <1>1, <2>1, <2>2 DEF SessionsOK
  <1>3. jar \in Jars /\ jar.access = Token(1, 1) /\ jar.refresh = Token(1, 1)
    BY DEF Init, Jars, Token, AnyToken
  <1>4. /\ calls \in [Calls -> CallSlots] /\ refreshes \in [Tabs -> RefreshSlots]
        /\ logout \in LogoutSlots /\ DOMAIN loads = {}
    BY NothingIs DEF Init
  <1>5. (\A t \in Tabs : refreshes[t].pc = "idle") /\ logout.pc = "idle"
    BY DEF Init, NoRefresh, NoLogout
  <1>6. Shape
    BY <1>2, <1>3, <1>4, <1>5 DEF Init, Shape, LogoutOK
  <1>7. Current(jar.refresh) /\ Known(jar.refresh)
    BY <1>1, <1>3 DEF Current, Known, Live, Newest, Token
  <1>8. ReplayInv
    BY <1>1, <1>5, <1>7 DEF Init, ReplayInv, OneInTurn, InTurn, TokensAreCurrent, Bears
  <1>9. Pairs
    BY <1>1, <1>3, <1>5, <1>7 DEF Pairs, Bears, Token
  <1>10. GoneInv
    BY <1>5 DEF Init, GoneInv, GoneAreForgotten, LeavingIsForgotten, Leaving
  <1> QED
    BY <1>6, <1>8, <1>9, <1>10 DEF IInv

LEMMA Inductive == IInv /\ [Next]_vars => IInv'
  <1> SUFFICES ASSUME IInv, [Next]_vars PROVE IInv'
    OBVIOUS
  <1>1. Shape /\ Shape' /\ Pairs /\ OneInTurn /\ (lost \/ TokensAreCurrent)
        /\ GoneAreForgotten /\ LeavingIsForgotten
    BY ShapeStep DEF IInv, ReplayInv, GoneInv
  <1>2. ReplayInv'
    BY <1>1, OneInTurnStep, CurrentStep DEF ReplayInv
  <1>3. Pairs'
    BY <1>1, PairsStep
  <1>4. GoneInv'
    BY <1>1, GoneStep, LeavingStep DEF GoneInv
  <1> QED
    BY <1>1, <1>2, <1>3, <1>4 DEF IInv

\* An old refresh token reaches Profiles, which then ends the session, only after the
\* answer that brought the newer one was lost, however many tabs refresh at once
\* (refreshSession under navigator.locks).
THEOREM NoNeedlessReplay == Spec => []ReplayNeedsLostAnswer
  <1>1. Spec => []IInv
    BY InitInv, Inductive, PTL DEF Spec
  <1>2. IInv => ReplayNeedsLostAnswer
    BY DEF IInv, ReplayInv, TokensAreCurrent, ReplayNeedsLostAnswer
  <1> QED
    BY <1>1, <1>2, PTL

\* A token that was signed out with no load of it under way is never vouched for by
\* the cache again (logout, getOrLoad).
THEOREM SignOutsAreKept == Spec => []SignedOutTokensAreForgotten
  <1>1. Spec => []IInv
    BY InitInv, Inductive, PTL DEF Spec
  <1>2. IInv => SignedOutTokensAreForgotten
    BY DEF IInv, GoneInv, GoneAreForgotten, Forgotten, SignedOutTokensAreForgotten
  <1> QED
    BY <1>1, <1>2, PTL

\* However many tabs and requests find that the access token has expired, one of them
\* renews it: there are never more new refresh tokens than reasons to ask for one
\* (refreshSession, lastRefreshAt under navigator.locks).
THEOREM RefreshesHaveReasons == Spec => []RotationsHaveReasons
  <1> DEFINE Inv == IInv /\ TokenInv /\ ReasonsSuffice
  <1>1. Init => Inv
    BY InitInv, InitReasons
  <1>2. Inv /\ [Next]_vars => Inv'
    <2> SUFFICES ASSUME Inv, [Next]_vars PROVE Inv'
      OBVIOUS
    <2>1. IInv'
      BY Inductive
    <2>2. TokenInv'
      BY <2>1, TokenStep DEF IInv, ReplayInv
    <2>3. ReasonsSuffice'
      BY <2>1, ReasonsSufficeStep DEF IInv
    <2> QED
      BY <2>1, <2>2, <2>3
  <1>3. Inv => RotationsHaveReasons
    <2> SUFFICES ASSUME Inv PROVE RotationsHaveReasons
      OBVIOUS
    <2>1. Rotated \subseteq Due /\ IsFiniteSet(Due) /\ Cardinality(Due) <= reasons /\ reasons \in Nat
      BY DEF Due, ReasonsSuffice
    <2>2. /\ Cardinality(Rotated) <= Cardinality(Due)
          /\ Cardinality(Rotated) \in Nat /\ Cardinality(Due) \in Nat
      BY <2>1, FS_Subset, FS_CardinalityType
    <2> QED
      BY <2>1, <2>2 DEF RotationsHaveReasons
  <1> QED
    BY <1>1, <1>2, <1>3, PTL DEF Spec

\* A tab that knew the user shows a sign-in page only when the session is gone,
\* unless Profiles failed and the guard or throwUpstreamAuthError made a 401 of it, or
\* the clock was set back (api, reload: a 401 that the refreshed cookies do not cure,
\* or a refused refresh).
THEOREM SignOutsAreReal == Spec => SignOutIsReal
  <1> DEFINE Inv == IInv /\ TokenInv /\ RefusalInv
  <1>1. Init => Inv
    BY InitInv, InitReasons, InitRefusal
  <1>2. Inv /\ [Next]_vars => Inv'
    <2> SUFFICES ASSUME Inv, [Next]_vars PROVE Inv'
      OBVIOUS
    <2>1. IInv'
      BY Inductive
    <2>2. TokenInv'
      BY <2>1, TokenStep DEF IInv, ReplayInv
    <2>3. RefusalInv'
      BY <2>1, RefusalStep
    <2> QED
      BY <2>1, <2>2, <2>3
  <1>3. Inv /\ [Next]_vars =>
          [\A t \in Tabs :
             tabs[t] = "in" /\ tabs'[t] = "out" =>
               \E c \in Calls : /\ SignsOut(t, c)
                                /\ \/ ~HasSession(calls[c].session)
                                   \/ calls[c].verdict = "outage"
                                   \/ calls[c].pc = "waiting" /\ refreshes[t].outcome = "mistaken"
                                   \/ calls[c].late = "clock"]_vars
    BY SigningOutIsReal DEF IInv
  <1> QED
    BY <1>1, <1>2, <1>3, PTL DEF Spec, SignOutIsReal
=============================================================================
