------------------------------ MODULE SignedIn ------------------------------
(***************************************************************************)
(* A browser that is signed in: the two cookies, the auth store, and       *)
(* fetchWithAuth, through which the front makes every request of an        *)
(* account (shared/api/client/common.ts).  Composed with Accounts, which   *)
(* answers: call c of the page and job c of the server are the two ends of *)
(* one request.                                                            *)
(*                                                                         *)
(* A response sets its cookies and runs what awaits it in one step.  Time  *)
(* passes only while nothing is in flight, ten minutes at a time.          *)
(***************************************************************************)
EXTENDS Accounts

CONSTANTS
    Me,             \* whose browser it is
    MaxLoad         \* bound: requests, failures and pauses altogether

VARIABLES
    jar,            \* the cookies: access token, session, and what they have left
    call,           \* the calls of fetchWithAuth in flight
    isRefreshing,   \* a refresh is under way, as far as the page knows
    refreshPromise, \* the call that started it, 0 for null
    shown,          \* isAuthenticated of the store
    greeted,        \* AuthProvider asked for the profile since the page loaded
    leaving,        \* location.href was set and the page not left yet
    asked,          \* calls so far
    pauses,         \* pauses so far
    left,           \* history: who used the browser left, and signed in not again
    racing,         \* history: refreshes in flight when the answer came
    lateResets,     \* history: finally blocks that reset the refresh of another call
    unseen          \* history: the page shows a user whose cookies went unnoticed

\* 0 is the null of refreshPromise.
ASSUME BrowserAssumption == Me \in People /\ IsFiniteSet(Jobs) /\ 0 \notin Jobs

browserVars == <<jar, call, isRefreshing, refreshPromise, shown, greeted,
                 leaving, asked, pauses>>
history == <<left, racing, lateResets, unseen>>
svars == <<avars, browserVars, history>>

\* auth.controller.ts: maxAge of the cookies, in milliseconds.
AccessMaxAge == 60 * 10 * 1000
RefreshMaxAge == 60 * 60 * 24 * 7
SocialMaxAge == 60 * 60 * 24 * 7 * 1000
TenMinutes == 10 * 60 * 1000

Empty == [access |-> 0, refresh |-> 0, accessLeft |-> 0, refreshLeft |-> 0]
NoCall == [at |-> "idle", kind |-> "none", on |-> 0]
InFlight == {c \in Jobs : call[c].at # "idle"}
Renewing(c) == call[c].at = "renewing"
Leaves == {"signout", "withdraw"}
Shows == {"greet", "social"}

\* A browser whose user signed in through a provider some time ago, with the
\* page still open or opened anew.
Returning ==
    /\ users = [u \in Ids |-> IF u = 1
                  THEN [mail |-> mailOf[Me], name |-> NameOf[Me], pass |-> FALSE, is |-> TRUE]
                  ELSE NoUser]
    /\ owner = <<1>>
    /\ stored = {1}
    /\ mine = [q \in People |-> IF q = Me THEN {1} ELSE {}]
    /\ jar = [access |-> 0, refresh |-> 1, accessLeft |-> 0,
              refreshLeft |-> SocialMaxAge - TenMinutes]

SInit ==
    /\ \/ AInit /\ jar = Empty /\ shown = FALSE
       \/ /\ mailOf \in [People -> Mails]
          /\ codes = [m \in Mails |-> 0]
          /\ letter = [m \in Mails |-> 0]
          /\ revoked = {}
          /\ count = [o \in Throttled |-> 0]
          /\ job = [j \in Jobs |-> Idle]
          /\ lastCode = 0 /\ faults = 0 /\ visits = 0
          /\ moved = {} /\ unsure = {}
          /\ passed = [o \in Throttled |-> 0]
          /\ Returning
          /\ shown \in BOOLEAN
    /\ call = [c \in Jobs |-> NoCall]
    /\ isRefreshing = FALSE /\ refreshPromise = 0
    /\ greeted = shown /\ leaving = FALSE
    /\ asked = 0 /\ pauses = 0
    /\ left = FALSE /\ racing = {} /\ lateResets = 0 /\ unseen = FALSE

-----------------------------------------------------------------------------
(* Requests and responses.                                                 *)

OpOf(kind) == IF kind \in {"greet", "get"} THEN "profile" ELSE kind

\* What the cookies of a response make of the jar.
Cookies(c) ==
    CASE job[c].gives = "sets" ->
           [access |-> owner[job[c].session], refresh |-> job[c].session,
            accessLeft |-> AccessMaxAge,
            refreshLeft |-> IF job[c].op = "social" THEN SocialMaxAge ELSE RefreshMaxAge]
      [] job[c].gives = "clears" -> Empty
      [] job[c].gives = "clears access" -> [jar EXCEPT !.access = 0, !.accessLeft = 0]
      [] OTHER -> jar

\* The request of a call, sent with the cookies of jar r.
Asked(c, kind, r) ==
    Request(OpOf(kind), Me, r.access, r.refresh, mailOf[Me], NameOf[Me], 0)

\* finally: the page forgets the refresh, whoever's it is.
ForgetRefresh(c) ==
    /\ isRefreshing' = FALSE
    /\ refreshPromise' = 0
    /\ lateResets' = IF refreshPromise \notin {0, c} /\ Renewing(refreshPromise)
                     THEN lateResets + 1 ELSE lateResets

KeepRefresh == UNCHANGED <<isRefreshing, refreshPromise, lateResets>>

\* What the caller does with the response.
Returns(c, r) ==
    LET kind == call[c].kind
        ok == job[c].status = "ok" IN
    /\ jar' = r
    /\ call' = [call EXCEPT ![c] = NoCall]
    /\ job' = [job EXCEPT ![c] = Idle]
    /\ shown' = IF ok /\ kind \in Shows THEN TRUE
                ELSE IF kind = "greet" THEN FALSE ELSE shown
    /\ leaving' = (leaving \/ (ok /\ kind \in Leaves))
    /\ left' = IF kind \in Leaves /\ ok THEN TRUE ELSE left
    /\ racing' = IF kind \in Leaves /\ ok THEN {d \in Jobs : Renewing(d)} ELSE racing
    /\ unseen' = (unseen \/ (ok /\ kind \in Shows /\ r.refresh = 0))
    /\ UNCHANGED <<userVars, codeVars, sessionVars, throttleVars, inputs, greeted,
                   asked, pauses>>

-----------------------------------------------------------------------------
(* The page.                                                               *)

\* What the page asks: its own profile once (AuthProvider), to sign in, to
\* sign out or withdraw, and everything else, which is alike to fetchWithAuth.
Wanted(kind) ==
    CASE kind = "greet" -> ~greeted /\ ~shown
      [] kind = "social" -> ~shown /\ jar.refresh = 0 /\ InFlight = {}
      [] kind \in Leaves -> shown /\ \A c \in InFlight : call[c].kind \notin Leaves
      [] kind = "get" -> shown

\* clearUser empties the store before it signs out; the button of the
\* profile page does not.
Call(c, kind) ==
    /\ call[c].at = "idle" /\ At(c, "idle")
    /\ ~leaving /\ visits = 0
    /\ Wanted(kind)
    /\ asked' = asked + 1
    /\ greeted' = (greeted \/ kind = "greet")
    /\ call' = [call EXCEPT ![c] = [at |-> "first", kind |-> kind, on |-> 0]]
    /\ job' = [job EXCEPT ![c] = Asked(c, kind, jar)]
    /\ shown' \in IF kind = "signout" THEN {shown, FALSE} ELSE {shown}
    /\ left' = IF kind = "social" THEN FALSE ELSE left
    /\ UNCHANGED <<userVars, codeVars, sessionVars, throttleVars, inputs, faults,
                   jar, isRefreshing, refreshPromise, leaving, pauses, racing,
                   lateResets, unseen>>

\* The first response: 401 starts a refresh, or waits for the one under way;
\* anything else is the caller's.  The social callback is not called through
\* fetchWithAuth.
Responds(c) ==
    LET r == Cookies(c) IN
    /\ call[c].at = "first" /\ At(c, "answer")
    /\ IF job[c].status # "unauthorized" \/ call[c].kind = "social"
       THEN Returns(c, r) /\ KeepRefresh
       ELSE /\ jar' = r
            /\ \/ /\ ~isRefreshing
                  /\ isRefreshing' = TRUE
                  /\ refreshPromise' = c
                  /\ call' = [call EXCEPT ![c].at = "renewing"]
                  /\ job' = [job EXCEPT ![c] = Asked(c, "refresh", r)]
               \/ /\ isRefreshing
                  /\ UNCHANGED <<isRefreshing, refreshPromise>>
                  /\ IF Renewing(refreshPromise)
                     THEN /\ call' = [call EXCEPT ![c].at = "waiting", ![c].on = refreshPromise]
                          /\ job' = [job EXCEPT ![c] = Idle]
                     ELSE /\ call' = [call EXCEPT ![c].at = "again"]
                          /\ job' = [job EXCEPT ![c] = Asked(c, call[c].kind, r)]
            /\ UNCHANGED <<userVars, codeVars, sessionVars, throttleVars, inputs, shown,
                           greeted, leaving, asked, pauses, history>>
    /\ UNCHANGED faults

\* Those a refresh has an answer for: who started it and who waits for it.
WaitingFor(c) == {c} \union {d \in Jobs : call[d].at = "waiting" /\ call[d].on = c}
\* Mutant: those who wait are woken by the refresh the page remembers only.
IfRemembered(c) == IF refreshPromise = c THEN WaitingFor(c) ELSE {c}
Woken(c) == WaitingFor(c)

\* The refresh succeeded: all of them ask again.
Renewed(c) ==
    LET r == Cookies(c) IN
    /\ Renewing(c) /\ At(c, "answer") /\ job[c].status = "ok"
    /\ jar' = r
    /\ call' = [d \in Jobs |-> IF d \in Woken(c) THEN [call[d] EXCEPT !.at = "again", !.on = 0]
                               ELSE call[d]]
    /\ job' = [d \in Jobs |-> IF d \in Woken(c) THEN Asked(d, call[d].kind, r) ELSE job[d]]
    /\ UNCHANGED <<userVars, codeVars, sessionVars, throttleVars, inputs, faults,
                   isRefreshing, refreshPromise, shown, greeted, leaving, asked, pauses,
                   history>>

\* It failed, or its answer was lost: the store is cleared, and each of them
\* returns the 401 it had.
Clears == FALSE
\* Mutant: a refresh that failed leaves the store as it is.
ClearsNot == shown
ClearUserWithOutSignout == Clears

RenewFails(c) ==
    /\ Renewing(c) /\ At(c, "answer")
    /\ \/ /\ job[c].status # "ok" /\ jar' = Cookies(c) /\ UNCHANGED faults
       \/ /\ faults < MaxFaults /\ jar' = jar /\ faults' = faults + 1
    /\ call' = [d \in Jobs |-> IF d \in Woken(c) THEN NoCall ELSE call[d]]
    /\ job' = [d \in Jobs |-> IF d \in Woken(c) THEN Idle ELSE job[d]]
    /\ shown' = ClearUserWithOutSignout
    /\ ForgetRefresh(c)
    /\ UNCHANGED <<userVars, codeVars, sessionVars, throttleVars, inputs, greeted,
                   leaving, asked, pauses, left, racing, unseen>>

\* The second response is the caller's, whatever it is.
RespondsAgain(c) ==
    /\ call[c].at = "again" /\ At(c, "answer")
    /\ Returns(c, Cookies(c))
    /\ ForgetRefresh(c)
    /\ UNCHANGED faults

\* A response is lost: of the first request the caller has the error, of the
\* second the page believes the refresh failed.
Lost(c) ==
    /\ call[c].at \in {"first", "again"} /\ At(c, "answer")
    /\ faults < MaxFaults
    /\ faults' = faults + 1
    /\ call' = [call EXCEPT ![c] = NoCall]
    /\ job' = [job EXCEPT ![c] = Idle]
    /\ IF call[c].at = "again" THEN ForgetRefresh(c) /\ shown' = FALSE
       ELSE /\ KeepRefresh
            /\ shown' = IF call[c].kind = "greet" THEN FALSE ELSE shown
    /\ UNCHANGED <<userVars, codeVars, sessionVars, throttleVars, inputs, jar, greeted,
                   leaving, asked, pauses, left, racing, unseen>>

\* After signing out or withdrawing the page loads anew: what was in flight is
\* dropped, though the server goes on with it.
Unload ==
    /\ leaving
    /\ leaving' = FALSE /\ shown' = FALSE /\ greeted' = FALSE
    /\ isRefreshing' = FALSE /\ refreshPromise' = 0
    /\ call' = [c \in Jobs |-> NoCall]
    /\ UNCHANGED <<avars, jar, asked, pauses, history>>

Dropped(c) ==
    /\ call[c].at = "idle"
    /\ Answered(c)
    /\ UNCHANGED <<browserVars, history>>

\* Nothing is asked for ten minutes; a cookie whose time is up is gone.
Remaining(left_, has) == IF left_ > TenMinutes THEN has ELSE 0
Less(t) == IF t > TenMinutes THEN t - TenMinutes ELSE 0

Pause ==
    /\ InFlight = {} /\ ~leaving /\ jar # Empty
    /\ pauses' = pauses + 1
    /\ jar' = [access |-> Remaining(jar.accessLeft, jar.access),
               refresh |-> Remaining(jar.refreshLeft, jar.refresh),
               accessLeft |-> Less(jar.accessLeft), refreshLeft |-> Less(jar.refreshLeft)]
    /\ unseen' = (unseen \/ (shown /\ jar.refreshLeft <= TenMinutes))
    /\ UNCHANGED <<avars, call, isRefreshing, refreshPromise, shown, greeted, leaving,
                   asked, left, racing, lateResets>>

Kinds == {"greet", "social", "get"} \union Leaves

Load == asked + visits + faults + pauses

Steps ==
    \/ \E c \in Jobs :
         \/ \E kind \in Kinds : Call(c, kind)
         \/ Responds(c) \/ Renewed(c) \/ RenewFails(c) \/ RespondsAgain(c)
         \/ Lost(c) \/ Dropped(c)
         \/ Handles(c) /\ UNCHANGED <<browserVars, history>>
         \/ asked = 0 /\ jar = Empty /\ Requests(c) /\ UNCHANGED <<browserVars, history>>
    \/ Unload
    \/ Pause

\* The bound.
SNext == Steps /\ Load' <= MaxLoad

SSpec == SInit /\ [][SNext]_svars

-----------------------------------------------------------------------------
(* Properties.                                                             *)

\* The types: a cookie holds a session of the user it signs in for as long as it
\* lasts, and the two variables of common.ts are set and reset together.
STypeOK ==
    /\ jar.access \in 0..MaxUsers /\ jar.refresh \in 0..Len(owner)
    /\ jar.access = 0 <=> jar.accessLeft = 0
    /\ jar.refresh = 0 <=> jar.refreshLeft = 0
    /\ jar.access # 0 => jar.refresh # 0 /\ owner[jar.refresh] = jar.access
    /\ refreshPromise \in Jobs \union {0}
    /\ isRefreshing <=> refreshPromise # 0
    /\ stored \subseteq 1..Len(owner) /\ revoked \subseteq 1..Len(owner)
    /\ \A c \in Jobs : call[c].at \in {"first", "renewing", "again"} => ~At(c, "idle")

\* Calls share one refresh: who waits for a refresh waits for one that is under
\* way, and so is woken by it, and there is one at a time, and one more for each
\* that the finally block of an older call forgot (common.ts:85).
OneRefresh ==
    /\ \A c \in Jobs : call[c].at = "waiting" => Renewing(call[c].on)
    /\ Cardinality({c \in Jobs : Renewing(c)}) <= 1 + lateResets

\* Who signed out or withdrew is not signed in by the browser again, unless a
\* refresh was in flight when the answer came.
SignedOutStays == left /\ jar.refresh # 0 => racing # {}

\* With nothing in flight, a page shows a user only while the browser has a
\* session, unless the cookie ran out or a late answer shows who left.
ShownHasSession ==
    shown /\ InFlight = {} /\ ~leaving /\ ~unseen => jar.refresh # 0

=============================================================================
