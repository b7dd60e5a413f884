------------------------------ MODULE Accounts ------------------------------
(***************************************************************************)
(* Accounts, verification codes, sessions and the request limit of the     *)
(* server: auth.service.ts and auth.controller.ts, users.service.ts, the   *)
(* guards, and the two tokens.                                             *)
(*                                                                         *)
(* A request is a job; every await of a handler ends a step, and the steps *)
(* of different jobs interleave.  An access token is the account it names; *)
(* a refresh token is its session, and owner[s] the account it names.      *)
(* Passwords, hashes and codes of six digits are abstracted: a code is its *)
(* number, and an account either has a password or not.  What the keys in  *)
(* Redis live for is between 16 hours and 19 years (the lifetimes are      *)
(* written in milliseconds and given to SETEX as seconds), so none of them *)
(* expires here.                                                           *)
(***************************************************************************)
EXTENDS Integers, Sequences, FiniteSets

CONSTANTS
    People,         \* who signs in
    NameOf,         \* the name a person has at the social provider
    Mails,          \* mail addresses
    Jobs,           \* requests handled at a time
    Limit,          \* maxRequests of ThrottleGuard
    MaxUsers,       \* bound: accounts ever made
    MaxSessions,    \* bound: sessions ever made
    MaxCodes,       \* bound: codes ever sent
    MaxFaults,      \* bound: failures of Redis, the database, mail or network
    MaxVisits,      \* bound: requests made other than by the browser
    MaxAtOnce       \* bound: such requests handled at a time

VARIABLES
    users,      \* the users table: account -> row, or NoUser
    mailOf,     \* the mail a person has at the social provider, or NoMail
    codes,      \* EMAIL_VERIFICATION: mail -> code, 0 if none
    letter,     \* the last code that arrived in a mailbox, 0 if none
    owner,      \* the account each session ever made was made for
    stored,     \* the sessions with a REFRESH_TOKEN key
    revoked,    \* the sessions with a REFRESH_BLACKLIST key
    count,      \* throttle:<ip>:<endpoint>, of one ip
    job,        \* the requests being handled
    lastCode,   \* the codes made so far are 1 to lastCode
    faults,     \* failures so far
    visits,     \* requests made so far other than by the browser
    mine,       \* history: the accounts a person was signed in to
    moved,      \* history: accounts whose mail was changed by their user
    unsure,     \* history: mails two codes were sent to at once, or one in vain
    passed      \* history: requests let in by ThrottleGuard, by endpoint

userVars == <<users, mine, moved>>
codeVars == <<codes, letter, lastCode, unsure>>
sessionVars == <<owner, stored, revoked>>
throttleVars == <<count, passed>>
inputs == <<mailOf, visits>>
avars == <<userVars, codeVars, sessionVars, throttleVars, inputs, job, faults>>

Ids == 1..MaxUsers
\* The empty strings: of the mail, the name and the person of a request.
NoMail == "no mail"
NoName == "no name"
Nobody == "nobody"
NoUser == [mail |-> NoMail, name |-> NoName, pass |-> FALSE, is |-> FALSE]
AllMails == Mails \union {NoMail}
Names == {NameOf[p] : p \in People}

\* Accounts are made, and everybody has a name.
ASSUME AccountsAssumption == MaxUsers \in Nat \ {0} /\ NoName \notin Names

\* The endpoints, and which of them each guard protects.
Ops == {"signup", "signin", "signout", "refresh", "send", "verify", "reset",
        "social", "withdraw", "profile", "update", "delete"}
Throttled == Ops \ {"social", "profile", "update", "delete"}
Guarded == {"signout", "withdraw", "profile", "update", "delete"}

Idle == [op |-> "none", at |-> "idle", by |-> Nobody, user |-> 0, session |-> 0,
         mail |-> NoMail, name |-> NoName, code |-> 0, seen |-> 0,
         status |-> "none", gives |-> "nothing"]

At(j, step) == job[j].at = step
Exists(u) == u # 0 /\ users[u].is
WithMail(m) == {u \in Ids : users[u].is /\ users[u].mail = m}
WithName(n) == {u \in Ids : users[u].is /\ users[u].name = n}

AInit ==
    /\ users = [u \in Ids |-> NoUser]
    /\ mailOf \in [People -> AllMails]
    /\ codes = [m \in Mails |-> 0]
    /\ letter = [m \in Mails |-> 0]
    /\ owner = << >>
    /\ stored = {}
    /\ revoked = {}
    /\ count = [o \in Throttled |-> 0]
    /\ job = [j \in Jobs |-> Idle]
    /\ lastCode = 0
    /\ faults = 0
    /\ visits = 0
    /\ mine = [p \in People |-> {}]
    /\ moved = {}
    /\ unsure = {}
    /\ passed = [o \in Throttled |-> 0]

-----------------------------------------------------------------------------
(* How a handler goes on, and how it ends: a status, and what the response *)
(* does to the cookies of the browser.                                     *)

Body(op) ==
    CASE op \in {"signup", "signin", "refresh", "reset", "social", "withdraw",
                 "profile", "update"} -> "find"
      [] op = "signout" -> "revoke"
      [] op = "send" -> "code"
      [] op = "verify" -> "check"
      [] op = "delete" -> "remove"

AfterThrottle(op) == IF op \in Guarded THEN "guard" ELSE Body(op)

Goto(j, step) == job' = [job EXCEPT ![j].at = step]

Answer(j, status, gives) ==
    job' = [job EXCEPT ![j].at = "answer", ![j].status = status, ![j].gives = gives]

Refused(j) == Answer(j, "refused", "nothing")

\* A request, sent with an access token of user u (0 without one) and the
\* refresh cookie s (0 without one).
Request(op, p, u, s, m, n, c) ==
    [op |-> op, at |-> IF op \in Throttled THEN "throttle" ELSE AfterThrottle(op), by |-> p,
     user |-> u, session |-> s, mail |-> m, name |-> n, code |-> c, seen |-> 0,
     status |-> "none", gives |-> "nothing"]

Arrives(j, op, p, u, s, m, n, c) ==
    /\ At(j, "idle")
    /\ job' = [job EXCEPT ![j] = Request(op, p, u, s, m, n, c)]

-----------------------------------------------------------------------------
(* Guards.                                                                 *)

\* ThrottleGuard reads the count ...
ReadCount(j) ==
    /\ At(j, "throttle")
    /\ IF count[job[j].op] >= Limit
       THEN Refused(j)
       ELSE job' = [job EXCEPT ![j].seen = count[job[j].op], ![j].at = "count"]
    /\ UNCHANGED <<userVars, codeVars, sessionVars, throttleVars, inputs,
                   faults>>

\* ... and sets it, after the await, to what it read and one more.
SetCount(j) ==
    LET op == job[j].op IN
    /\ At(j, "count")
    /\ count' = [count EXCEPT ![op] = job[j].seen + 1]
    /\ passed' = [passed EXCEPT ![op] = @ + 1]
    /\ Goto(j, AfterThrottle(op))
    /\ UNCHANGED <<userVars, codeVars, sessionVars, inputs, faults>>

\* JwtAuthGuard: the account the access token names must be in the table.
Validate(j) ==
    /\ At(j, "guard")
    /\ IF Exists(job[j].user)
       THEN Goto(j, Body(job[j].op))
       ELSE Answer(j, "unauthorized", "clears access")
    /\ UNCHANGED <<userVars, codeVars, sessionVars, throttleVars, inputs,
                   faults>>

-----------------------------------------------------------------------------
(* Looking the account up.                                                 *)

\* signUp: neither the mail nor the name may be taken.
FindTaken(j) ==
    /\ job[j].op = "signup"
    /\ IF WithMail(job[j].mail) \union WithName(job[j].name) # {}
       THEN Refused(j)
       ELSE Goto(j, "check")

\* signIn: a mail nobody has, or an account without a password.
FindByMail(j) ==
    /\ job[j].op = "signin"
    /\ \/ \E u \in WithMail(job[j].mail) :
             /\ users[u].pass
             /\ job' = [job EXCEPT ![j].user = u, ![j].at = "session"]
       \/ /\ \A u \in WithMail(job[j].mail) : ~users[u].pass
          /\ Answer(j, "unauthorized", "nothing")

\* resetPassword
FindForReset(j) ==
    /\ job[j].op = "reset"
    /\ \/ \E u \in WithMail(job[j].mail) :
             job' = [job EXCEPT ![j].user = u, ![j].at = "check"]
       \/ WithMail(job[j].mail) = {} /\ Refused(j)

\* The account of somebody a provider vouches for is the one with the mail
\* the provider tells, '' if it tells none.
Account(j) == WithMail(job[j].mail)

\* socialLogin
FindForSocial(j) ==
    /\ job[j].op = "social"
    /\ \/ \E u \in Account(j) :
             job' = [job EXCEPT ![j].user = u, ![j].at = "session"]
       \/ Account(j) = {} /\ Goto(j, "save")

\* refreshToken: without a cookie 400, and nothing is cleared; without an
\* account 401, and both cookies are.
FindForRefresh(j) ==
    /\ job[j].op = "refresh"
    /\ IF job[j].session = 0
       THEN Refused(j)
       ELSE LET u == owner[job[j].session] IN
            IF Exists(u)
            THEN job' = [job EXCEPT ![j].user = u, ![j].at = "blacklist"]
            ELSE Answer(j, "unauthorized", "clears")

\* withdrawAccount, findById and updateUser of the account the guard found.
FindOwn(j) ==
    /\ job[j].op \in {"withdraw", "profile", "update"}
    /\ IF ~Exists(job[j].user) THEN Refused(j)
       ELSE CASE job[j].op = "withdraw" -> Goto(j, "remove")
              [] job[j].op = "profile" -> Answer(j, "ok", "nothing")
              [] job[j].op = "update" -> Goto(j, "taken")

Find(j) ==
    /\ At(j, "find")
    /\ \/ FindTaken(j) \/ FindByMail(j) \/ FindForReset(j)
       \/ FindForSocial(j) \/ FindForRefresh(j) \/ FindOwn(j)
    /\ UNCHANGED <<userVars, codeVars, sessionVars, throttleVars, inputs,
                   faults>>

-----------------------------------------------------------------------------
(* Codes.                                                                  *)

Sending(m) == {j \in Jobs : At(j, "mail") /\ job[j].mail = m}

\* sendVerificationCode overwrites the code ...
SaveCode(j) ==
    LET m == job[j].mail
        c == lastCode + 1 IN
    /\ At(j, "code")
    /\ c <= MaxCodes
    /\ lastCode' = c
    /\ codes' = [codes EXCEPT ![m] = c]
    /\ unsure' = IF Sending(m) = {} THEN unsure \ {m} ELSE unsure \union {m}
    /\ job' = [job EXCEPT ![j].at = "mail", ![j].code = c]
    /\ UNCHANGED <<userVars, letter, sessionVars, throttleVars, inputs,
                   faults>>

\* ... and then mails it.
SendMail(j) ==
    /\ At(j, "mail")
    /\ letter' = [letter EXCEPT ![job[j].mail] = job[j].code]
    /\ Answer(j, "ok", "nothing")
    /\ UNCHANGED <<userVars, codes, lastCode, unsure, sessionVars,
                   throttleVars, inputs, faults>>

\* signUp, verifyEmailNumber and resetPassword compare; a code that was
\* accepted stays.
CheckCode(j) ==
    LET c == codes[job[j].mail] IN
    /\ At(j, "check")
    /\ IF c = 0 \/ c # job[j].code THEN Refused(j)
       ELSE CASE job[j].op = "signup" -> Goto(j, "save")
              [] job[j].op = "verify" -> Answer(j, "ok", "nothing")
              [] job[j].op = "reset" -> Goto(j, "password")
    /\ UNCHANGED <<userVars, codeVars, sessionVars, throttleVars, inputs,
                   faults>>

-----------------------------------------------------------------------------
(* The users table; its two unique indexes refuse what the look-ups missed.*)

IndexHolds(u, m, n) == /\ WithMail(m) \subseteq {u}
                       /\ WithName(n) \subseteq {u}
\* Mutant: the index of mails is missing.
NameIndexHolds(u, m, n) == WithName(n) \subseteq {u}
MayWrite(u, m, n) == IndexHolds(u, m, n)

NextId == 1 + Cardinality({u \in Ids : users[u] # NoUser})

\* signUp and socialLogin make a row.
SaveUser(j) ==
    /\ At(j, "save")
    /\ IF ~MayWrite(0, job[j].mail, job[j].name)
       THEN /\ Refused(j)
            /\ UNCHANGED <<users, mine>>
       ELSE /\ NextId \in Ids
            /\ users' = [users EXCEPT ![NextId] =
                           [mail |-> job[j].mail, name |-> job[j].name,
                            pass |-> job[j].op = "signup", is |-> TRUE]]
            /\ mine' = [mine EXCEPT ![job[j].by] = @ \union {NextId}]
            /\ IF job[j].op = "signup" THEN Answer(j, "ok", "nothing")
               ELSE job' = [job EXCEPT ![j].user = NextId, ![j].at = "session"]
    /\ UNCHANGED <<moved, codeVars, sessionVars, throttleVars, inputs, faults>>

\* resetPassword writes by id; a row that is gone makes no difference.
SetPassword(j) ==
    LET u == job[j].user IN
    /\ At(j, "password")
    /\ users' = IF Exists(u) THEN [users EXCEPT ![u].pass = TRUE] ELSE users
    /\ Answer(j, "ok", "nothing")
    /\ UNCHANGED <<mine, moved, codeVars, sessionVars, throttleVars, inputs,
                   faults>>

\* updateUser looks whether somebody else has the new name or the new mail ...
Taken(j) ==
    LET u == job[j].user
        others == (WithName(job[j].name) \union WithMail(job[j].mail)) \ {u} IN
    /\ At(j, "taken")
    /\ IF others # {} THEN Refused(j) ELSE Goto(j, "update")
    /\ UNCHANGED <<userVars, codeVars, sessionVars, throttleVars, inputs,
                   faults>>

\* ... and writes them.
Update(j) ==
    LET u == job[j].user  m == job[j].mail  n == job[j].name IN
    /\ At(j, "update")
    /\ IF ~Exists(u) \/ ~MayWrite(u, m, n)
       THEN Refused(j) /\ UNCHANGED <<users, moved>>
       ELSE /\ users' = [users EXCEPT ![u].mail = m, ![u].name = n]
            /\ moved' = IF m = users[u].mail THEN moved ELSE moved \union {u}
            /\ Answer(j, "ok", "nothing")
    /\ UNCHANGED <<mine, codeVars, sessionVars, throttleVars, inputs, faults>>

\* withdrawAccount and deleteUser remove the row; the id stays used.
Remove(j) ==
    LET u == job[j].user IN
    /\ At(j, "remove")
    /\ users' = [users EXCEPT ![u].is = FALSE]
    /\ CASE job[j].op = "withdraw" ->
              job' = [job EXCEPT ![j].at = "forget", ![j].mail = users[u].mail]
         [] job[j].op = "delete" ->
              IF Exists(u) THEN Answer(j, "ok", "nothing") ELSE Refused(j)
    /\ UNCHANGED <<mine, moved, codeVars, sessionVars, throttleVars, inputs,
                   faults>>

\* withdrawAccount forgets the code.  The sessions of the account stay.
ForgetCode(j) ==
    LET m == job[j].mail IN
    /\ At(j, "forget")
    /\ codes' = IF m = NoMail THEN codes ELSE [codes EXCEPT ![m] = 0]
    /\ Answer(j, "ok", "clears")
    /\ UNCHANGED <<userVars, letter, lastCode, unsure, sessionVars,
                   throttleVars, inputs, faults>>

-----------------------------------------------------------------------------
(* Sessions.                                                               *)

\* refreshToken: what signOut revoked is not renewed.
OnBlacklist(j) == job[j].session \in revoked

ReadBlacklist(j) ==
    /\ At(j, "blacklist")
    /\ IF OnBlacklist(j) THEN Answer(j, "unauthorized", "clears")
       ELSE Goto(j, "session")
    /\ UNCHANGED <<userVars, codeVars, sessionVars, throttleVars, inputs,
                   faults>>

\* signIn, refreshToken and socialLogin make a session of its own id, which
\* replaces none, and give both cookies.
StoreSession(j) ==
    LET s == Len(owner) + 1 IN
    /\ At(j, "session")
    /\ s <= MaxSessions
    /\ owner' = Append(owner, job[j].user)
    /\ stored' = stored \union {s}
    /\ mine' = IF job[j].op = "refresh" THEN mine
               ELSE [mine EXCEPT ![job[j].by] = @ \union {job[j].user}]
    /\ job' = [job EXCEPT ![j].at = "answer", ![j].status = "ok",
                          ![j].gives = "sets", ![j].session = s]
    /\ UNCHANGED <<users, moved, codeVars, revoked, throttleVars, inputs,
                   faults>>

\* signOut puts the session on the blacklist; without a cookie it fails ...
Revoke(j) ==
    LET s == job[j].session IN
    /\ At(j, "revoke")
    /\ IF s = 0 THEN Refused(j) /\ UNCHANGED revoked
       ELSE revoked' = revoked \union {s} /\ Goto(j, "drop")
    /\ UNCHANGED <<userVars, codeVars, owner, stored, throttleVars, inputs,
                   faults>>

\* ... and deletes its key.
BothCookies == "clears"
\* Mutant: the response clears the access cookie only.
AccessCookie == "clears access"
SignOutClears == BothCookies

DropSession(j) ==
    /\ At(j, "drop")
    /\ stored' = stored \ {job[j].session}
    /\ Answer(j, "ok", SignOutClears)
    /\ UNCHANGED <<userVars, codeVars, owner, revoked, throttleVars, inputs,
                   faults>>

-----------------------------------------------------------------------------
(* A failure of Redis, the database or the mail server ends the handler:   *)
(* 500.  The controller of refresh clears the cookies on any error, the    *)
(* JwtAuthGuard the access cookie, and withdrawAccount swallows the last.  *)

Fails(j) ==
    LET step == job[j].at  op == job[j].op IN
    /\ step \notin {"idle", "answer"}
    /\ faults < MaxFaults
    /\ faults' = faults + 1
    /\ unsure' = IF step = "mail" THEN unsure \union {job[j].mail} ELSE unsure
    /\ CASE step = "forget" -> Answer(j, "ok", "clears")
         [] step = "guard" -> Answer(j, "refused", "clears access")
         [] op = "refresh" /\ step \in {"find", "blacklist", "session"} /\ job[j].session # 0 ->
              Answer(j, "refused", "clears")
         [] OTHER -> Refused(j)
    /\ UNCHANGED <<userVars, codes, letter, lastCode, sessionVars,
                   throttleVars, inputs>>

\* What a handler does next.
Handles(j) ==
    \/ ReadCount(j) \/ SetCount(j) \/ Validate(j) \/ Find(j)
    \/ SaveCode(j) \/ SendMail(j) \/ CheckCode(j)
    \/ SaveUser(j) \/ SetPassword(j) \/ Taken(j) \/ Update(j) \/ Remove(j)
    \/ ForgetCode(j) \/ ReadBlacklist(j) \/ StoreSession(j) \/ Revoke(j)
    \/ DropSession(j) \/ Fails(j)

-----------------------------------------------------------------------------
(* The requests people make, one handler's answer at a time.               *)

Visit(j, op, p, u, m, n, c) ==
    /\ visits < MaxVisits
    /\ Cardinality({k \in Jobs : ~At(k, "idle")}) < MaxAtOnce
    /\ visits' = visits + 1
    /\ Arrives(j, op, p, u, 0, m, n, c)
    /\ UNCHANGED <<userVars, codeVars, sessionVars, throttleVars, mailOf, faults>>

\* Sign-up, codes and passwords, with the code of the last letter.
ByMail(j, p) ==
    LET m == mailOf[p] IN
    /\ m # NoMail
    /\ \/ Visit(j, "send", p, 0, m, NoName, 0)
       \/ Visit(j, "signin", p, 0, m, NoName, 0)
       \/ \E op \in {"signup", "verify", "reset"} :
             letter[m] # 0 /\ Visit(j, op, p, 0, m, NameOf[p], letter[m])

\* The provider tells the server who it is.
SocialCallback(j, p) == Visit(j, "social", p, 0, mailOf[p], NameOf[p], 0)

\* With an access token of an account: the profile, a new name or a new
\* mail, and the two ways to leave.  An update may say no mail only by not
\* changing it.
OfAccount(j, p) ==
    \E u \in mine[p] :
      \/ \E op \in {"profile", "delete", "withdraw"} : Visit(j, op, p, u, NoMail, NoName, 0)
      \/ \E n \in Names : Visit(j, "update", p, u, users[u].mail, n, 0)
      \/ \E m \in Mails : Visit(j, "update", p, u, m, users[u].name, 0)

Requests(j) == \E p \in People : ByMail(j, p) \/ SocialCallback(j, p) \/ OfAccount(j, p)

Answered(j) ==
    /\ At(j, "answer")
    /\ job' = [job EXCEPT ![j] = Idle]
    /\ UNCHANGED <<userVars, codeVars, sessionVars, throttleVars, inputs, faults>>

ANext == \E j \in Jobs : Requests(j) \/ Handles(j) \/ Answered(j)

ASpec == AInit /\ [][ANext]_avars

-----------------------------------------------------------------------------
(* Properties.                                                             *)

\* A person and an account belong to each other: two people are signed in to one
\* account only if their providers tell the same mail, which two whose providers
\* tell none do (socialLogin looks accounts up by mail alone), and whoever signs
\* in again is in the account of before, unless it is gone. So signing up, signing
\* in and the social callback never make a second account for one mail, however
\* they interleave. Both unless somebody gave the account another mail.
OneAccountEach ==
    \A p, q \in People : \A u \in mine[p] \ moved, v \in mine[q] \ moved :
        /\ u = v => p = q \/ mailOf[p] = mailOf[q]
        /\ p = q /\ users[u].is /\ users[v].is => u = v

\* The code of the letter that came last is the one the server compares with
\* (or there is none, after a withdrawal), unless a letter is on its way, two
\* were sent at once, or the last could not be sent.
LastLetterCounts ==
    \A m \in Mails :
        letter[m] # 0 /\ Sending(m) = {} /\ m \notin unsure
            => codes[m] \in {0, letter[m]}

\* An endpoint refuses requests only after it let in as many as its limit:
\* requests that read the count at once are counted as one, and none twice.
RefusesLate == \A o \in Throttled : count[o] <= passed[o]

=============================================================================
