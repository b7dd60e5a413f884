---------------------------- MODULE AccountsProofs ----------------------------
(***************************************************************************)
(* Theorems about SignedIn, and so about Accounts, for every set of people *)
(* and mails, every number of requests handled at a time, and every bound. *)
(*                                                                         *)
(* Every step is a step of one handler, which leaves the browser alone, or *)
(* an exchange between the two, which leaves the tables and keys of the    *)
(* server alone and gives a job to a new request or takes it away.         *)
(*                                                                         *)
(* Whether a browser is signed in when it should be rests on what may      *)
(* still bring it a session: only responses to requests on the way         *)
(* (Matching, SigningAlone, Gone).                                         *)
(***************************************************************************)
EXTENDS SignedIn, FiniteSetTheorems, SequenceTheorems, TLAPS

\* The points a request passes.
Route(op, at) ==
    \/ op \in Ops \union {"none"} /\ at = "idle"
    \/ op \in Ops /\ at = "answer"
    \/ op \in Throttled /\ at \in {"throttle", "count"}
    \/ op \in Guarded /\ at = "guard"
    \/ op \in Ops \ {"signout", "send", "verify", "delete"} /\ at = "find"
    \/ op \in {"signup", "verify", "reset"} /\ at = "check"
    \/ op \in {"signup", "social"} /\ at = "save"
    \/ op \in {"signin", "social", "refresh"} /\ at = "session"
    \/ op = "send" /\ at \in {"code", "mail"}
    \/ op = "reset" /\ at = "password"
    \/ op = "update" /\ at \in {"taken", "update"}
    \/ op = "withdraw" /\ at \in {"remove", "forget"}
    \/ op = "delete" /\ at = "remove"
    \/ op = "refresh" /\ at = "blacklist"
    \/ op = "signout" /\ at \in {"revoke", "drop"}

Points == {"idle", "throttle", "count", "guard", "find", "check", "code", "mail", "save",
           "password", "taken", "update", "remove", "forget", "blacklist", "session",
           "revoke", "drop", "answer"}
JobType ==
    [op : Ops \union {"none"}, at : Points, by : People \union {Nobody}, user : 0..MaxUsers,
     session : Nat, mail : AllMails, name : Names \union {NoName}, code : Nat, seen : Nat,
     status : {"none", "ok", "refused", "unauthorized"},
     gives : {"nothing", "sets", "clears", "clears access"}]
Row == [mail : AllMails, name : Names, pass : BOOLEAN, is : BOOLEAN]

Types ==
    /\ users \in [Ids -> Row \union {NoUser}]
    /\ mailOf \in [People -> AllMails]
    /\ codes \in [Mails -> Nat] /\ letter \in [Mails -> Nat] /\ lastCode \in Nat
    /\ owner \in Seq(Ids)
    /\ stored \subseteq 1..Len(owner) /\ revoked \subseteq 1..Len(owner)
    /\ count \in [Throttled -> Nat] /\ passed \in [Throttled -> Nat]
    /\ job \in [Jobs -> JobType]
    /\ mine \in [People -> SUBSET Ids] /\ moved \subseteq Ids

\* What a request carries from one step to the next.
Resetting(r) == r.op = "reset" /\ r.at = "check"
OfAnAccount == {"remove", "taken", "update", "password", "session", "blacklist"}
WellFormed(r) ==
    /\ Route(r.op, r.at)
    /\ r.session <= Len(owner)
    /\ r.at # "idle" => r.by \in People
    /\ r.at # "idle" /\ r.op \in {"signup", "signin", "reset", "social"} => r.mail = mailOf[r.by]
    /\ r.at # "idle" /\ r.op \in {"signup", "social", "update"} => r.name \in Names
    /\ r.at \in OfAnAccount \/ Resetting(r) => r.user \in Ids /\ users[r.user] \in Row
    /\ r.at = "session" /\ r.op \in {"signin", "social"} =>
          r.user \in moved \/ users[r.user].mail = r.mail
    /\ r.at # "answer" => r.gives = "nothing"
    /\ r.gives = "sets" => r.session \in 1..Len(owner) /\ r.op \in {"signin", "social", "refresh"}
    /\ r.at = "answer" /\ r.op \in Leaves /\ r.status = "ok" => r.gives = "clears"

Carried == \A j \in Jobs : WellFormed(job[j])

\* The rows ever made are the first so many.
Made == \E k \in 0..MaxUsers : \A u \in Ids : users[u] \in Row <=> u <= k

\* Who is signed in to an account has its mail, and a mail has one account.
Theirs == \A p \in People : \A u \in mine[p] :
              users[u] \in Row /\ (u \in moved \/ users[u].mail = mailOf[p])
Index == \A u, v \in Ids :
             users[u].is /\ users[v].is /\ users[u].mail = users[v].mail => u = v
Registry == Made /\ Theirs /\ Index

\* A new request.
IsNew(r) == /\ r \in JobType /\ WellFormed(r)
            /\ r.at \in {"throttle", "guard", "find"} /\ r.seen = 0 /\ r.status = "none"

Server == Types /\ Carried

\* What no step of the server takes back.
Grows ==
    /\ \A u \in Ids : users[u] \in Row =>
          users'[u] \in Row /\ (u \in moved' \/ users'[u].mail = users[u].mail)
    /\ moved \subseteq moved'
    /\ Len(owner) <= Len(owner') /\ \A s \in 1..Len(owner) : owner'[s] = owner[s]
    /\ mailOf' = mailOf

-----------------------------------------------------------------------------
(* Records                                                                 *)

LEMMA IdleFits == Types => Idle \in JobType /\ WellFormed(Idle)
<1>1. Idle \in JobType
  <2>1. 0 \in 0..MaxUsers /\ NoMail \in AllMails
    BY AccountsAssumption DEF AllMails
  <2> QED BY <2>1 DEF Idle, JobType, Points
<1>2. Idle.op = "none" /\ Idle.at = "idle" /\ Idle.session = 0 /\ Idle.gives = "nothing"
  BY DEF Idle
<1>3. Types => Len(owner) \in Nat
  BY LenProperties DEF Types
<1> QED
  BY <1>1, <1>2, <1>3 DEF WellFormed, Route, OfAnAccount, Resetting, Leaves

\* What a request carries stays right while the server grows.
LEMMA Keeps ==
    ASSUME Types, Types', Grows, NEW r \in JobType, WellFormed(r)
    PROVE  WellFormed(r)'
<1>1. r.session \in Nat /\ Len(owner) \in Nat /\ Len(owner') \in Nat
  BY LenProperties DEF Types, JobType
<1>2. r.at \in OfAnAccount \/ Resetting(r) => r.user \in Ids /\ users'[r.user] \in Row
  BY DEF WellFormed, Grows
<1>3. r.at = "session" /\ r.op \in {"signin", "social"} =>
          r.user \in moved' \/ users'[r.user].mail = r.mail
  BY DEF WellFormed, Grows, OfAnAccount
<1> QED
  BY <1>1, <1>2, <1>3 DEF WellFormed, Grows

\* A step that changes one request.
LEMMA OneMoves ==
    ASSUME Server, Types', Grows, NEW j \in Jobs, NEW r \in JobType, WellFormed(r)',
           job' = [job EXCEPT ![j] = r]
    PROVE  Carried'
<1> SUFFICES ASSUME NEW k \in Jobs PROVE WellFormed(job[k])'
  BY DEF Carried
<1>1. CASE k = j
  <2>1. job'[k] = r
    BY <1>1 DEF Server, Types
  <2> QED BY <2>1 DEF WellFormed
<1>2. CASE k # j
  <2>1. job'[k] = job[k]
    BY <1>2 DEF Server, Types
  <2>2. PICK q \in JobType : q = job[k]
    BY DEF Server, Types
  <2>3. WellFormed(q)
    BY <2>2 DEF Server, Carried
  <2>4. WellFormed(q)'
    BY <2>3, Keeps DEF Server
  <2> QED BY <2>1, <2>2, <2>4 DEF WellFormed
<1> QED BY <1>1, <1>2

\* The forms the next value of a request takes.
LEMMA GotoMoves ==
    ASSUME Types, NEW j \in Jobs, NEW q \in JobType, q = job[j],
           NEW step \in Points, Goto(j, step)
    PROVE  /\ [q EXCEPT !.at = step] \in JobType
           /\ job' = [job EXCEPT ![j] = [q EXCEPT !.at = step]]
<1>1. [q EXCEPT !.at = step] \in JobType
  BY DEF JobType
<1>2. job' = [job EXCEPT ![j] = [job[j] EXCEPT !.at = step]]
  BY DEF Goto
<1> QED BY <1>1, <1>2

Answers(q, status, gives) == [q EXCEPT !.at = "answer", !.status = status, !.gives = gives]

LEMMA AnswerTyped ==
    ASSUME NEW q \in JobType,
           NEW status \in {"ok", "refused", "unauthorized"},
           NEW gives \in {"nothing", "clears", "clears access"}
    PROVE  Answers(q, status, gives) \in JobType
<1>. "answer" \in Points
  BY DEF Points
<1>1. \A x \in JobType : [x EXCEPT !.at = "answer"] \in JobType
  BY DEF JobType
<1>2. \A x \in JobType : [x EXCEPT !.status = status] \in JobType
  BY DEF JobType
<1>3. \A x \in JobType : [x EXCEPT !.gives = gives] \in JobType
  BY DEF JobType
<1>4. Answers(q, status, gives)
        = [[[q EXCEPT !.at = "answer"] EXCEPT !.status = status] EXCEPT !.gives = gives]
  BY DEF Answers
<1> QED BY <1>1, <1>2, <1>3, <1>4

\* An answer fits unless somebody who leaves is told it worked and keeps his cookies.
LEMMA AnswerFits ==
    ASSUME Types, NEW q \in JobType, WellFormed(q), q.at # "idle",
           NEW status \in {"ok", "refused", "unauthorized"},
           NEW gives \in {"nothing", "clears", "clears access"},
           status = "ok" /\ q.op \in Leaves => gives = "clears"
    PROVE  WellFormed(Answers(q, status, gives))
<1> DEFINE r == Answers(q, status, gives)
<1>1. r.at = "answer" /\ r.status = status /\ r.gives = gives /\ r.op = q.op /\ r.by = q.by
        /\ r.session = q.session /\ r.mail = q.mail /\ r.name = q.name
  BY DEF Answers, JobType
<1>2. q.op \in Ops
  BY DEF WellFormed, Route, Ops, Throttled, Guarded
<1> QED
  BY <1>1, <1>2 DEF WellFormed, Route, OfAnAccount, Resetting

\* The request of one handler changes, and nothing else that Types is about.
Still == UNCHANGED <<users, mailOf, codes, letter, lastCode, owner, stored, revoked, count,
                     passed, mine, moved>>

LEMMA StillTyped ==
    ASSUME Types, Still, job' \in [Jobs -> JobType]
    PROVE  Types' /\ Grows
<1>1. Types'
  BY DEF Types, Still
<1>2. Len(owner) \in Nat
  BY LenProperties DEF Types
<1> QED BY <1>1, <1>2 DEF Grows, Still

LEMMA StillMoves ==
    ASSUME Server, Still, NEW j \in Jobs, NEW r \in JobType, WellFormed(r),
           job' = [job EXCEPT ![j] = r]
    PROVE  Server' /\ Grows
<1>1. job' \in [Jobs -> JobType]
  BY DEF Server, Types
<1>2. Types' /\ Grows
  BY <1>1, StillTyped DEF Server
<1>3. WellFormed(r)'
  BY <1>2, Keeps DEF Server
<1> QED BY <1>2, <1>3, OneMoves DEF Server

LEMMA GotoFits ==
    ASSUME Types, NEW q \in JobType, WellFormed(q), q.at \notin {"idle", "answer"},
           NEW step \in Points \ {"idle", "answer"}, Route(q.op, step),
           step \in OfAnAccount => q.user \in Ids /\ users[q.user] \in Row,
           step # "session", step = "check" => q.op # "reset"
    PROVE  WellFormed([q EXCEPT !.at = step])
<1> DEFINE r == [q EXCEPT !.at = step]
<1>1. r.at = step /\ r.gives = q.gives /\ r.op = q.op /\ r.by = q.by /\ r.user = q.user
        /\ r.session = q.session /\ r.mail = q.mail /\ r.name = q.name
  BY DEF JobType
<1> QED
  BY <1>1 DEF WellFormed, Resetting

\* Both ways a request goes on without changing anything else.
LEMMA Goes ==
    ASSUME Server, NEW j \in Jobs, Still, job[j].at \notin {"idle", "answer"},
           NEW step \in Points \ {"idle", "answer", "session"}, Goto(j, step),
           Route(job[j].op, step), step = "check" => job[j].op # "reset",
           step \in OfAnAccount => job[j].user \in Ids /\ users[job[j].user] \in Row
    PROVE  Server' /\ Grows
<1>1. PICK q \in JobType : q = job[j]
  BY DEF Server, Types
<1>2. WellFormed(q)
  BY <1>1 DEF Server, Carried
<1>3. WellFormed([q EXCEPT !.at = step])
  BY <1>1, <1>2, GotoFits DEF Server
<1> QED BY <1>1, <1>3, GotoMoves, StillMoves DEF Server

LEMMA GivesUp ==
    ASSUME Server, NEW j \in Jobs, Still, job[j].at # "idle",
           NEW status \in {"ok", "refused", "unauthorized"},
           NEW gives \in {"nothing", "clears", "clears access"},
           status = "ok" /\ job[j].op \in Leaves => gives = "clears",
           Answer(j, status, gives)
    PROVE  Server' /\ Grows
<1>1. PICK q \in JobType : q = job[j]
  BY DEF Server, Types
<1>2. WellFormed(q)
  BY <1>1 DEF Server, Carried
<1>3. WellFormed(Answers(q, status, gives))
  BY <1>1, <1>2, AnswerFits DEF Server
<1>4. PICK r \in JobType : r = Answers(q, status, gives)
  BY AnswerTyped
<1>5. job' = [job EXCEPT ![j] = r]
  BY <1>1, <1>4 DEF Answer, Answers, Server, Types
<1>6. WellFormed(r)
  BY <1>3, <1>4
<1> QED BY <1>5, <1>6, StillMoves

LEMMA Existing ==
    ASSUME Types, NEW u \in 0..MaxUsers, Exists(u)
    PROVE  u \in Ids /\ users[u] \in Row
<1>1. u \in Ids
  BY AccountsAssumption DEF Exists, Ids
<1>2. ~NoUser.is
  BY DEF NoUser
<1> QED BY <1>1, <1>2 DEF Exists, Types

LEMMA RowsAre ==
    ASSUME Types, NEW u \in Ids, users[u].is
    PROVE  users[u] \in Row /\ u \in 0..MaxUsers
<1>1. ~NoUser.is
  BY DEF NoUser
<1> QED BY <1>1, AccountsAssumption DEF Types, Ids

\* The first step of a handler after the guards.
LEMMA BodyFits ==
    ASSUME NEW op \in Ops
    PROVE  /\ op \in Guarded => Route(op, Body(op)) /\ Body(op) \in {"find", "revoke", "remove"}
           /\ op \in Throttled => /\ Route(op, AfterThrottle(op))
                                  /\ AfterThrottle(op) \in {"guard", "find", "code", "check"}
BY DEF Body, AfterThrottle, Ops, Guarded, Throttled, Route

LEMMA ReadCountKeeps ==
    ASSUME Server, NEW j \in Jobs, ReadCount(j)
    PROVE  Server' /\ Grows
<1>1. Still /\ job[j].at = "throttle"
  BY DEF ReadCount, Still, At, userVars, codeVars, sessionVars, throttleVars, inputs
<1>2. CASE Refused(j)
  BY <1>1, <1>2, GivesUp DEF Refused
<1>3. CASE job' = [job EXCEPT ![j].seen = count[job[j].op], ![j].at = "count"]
  <2>1. PICK q \in JobType : q = job[j]
    BY DEF Server, Types
  <2>2. WellFormed(q) /\ q.at = "throttle"
    BY <1>1, <2>1 DEF Server, Carried
  <2>3. q.op \in Throttled
    BY <2>2 DEF WellFormed, Route
  <2>4. PICK n \in Nat : n = count[q.op]
    BY <2>3 DEF Server, Types
  <2> DEFINE r == [[q EXCEPT !.seen = n] EXCEPT !.at = "count"]
  <2>5. [q EXCEPT !.seen = n] \in JobType
    BY DEF JobType
  <2>6. r \in JobType
    <3> "count" \in Points
      BY DEF Points
    <3> QED BY <2>5 DEF JobType
  <2>7. r.at = "count" /\ r.gives = q.gives /\ r.op = q.op /\ r.by = q.by
          /\ r.session = q.session /\ r.mail = q.mail /\ r.name = q.name
    BY DEF JobType
  <2>8. WellFormed(r)
    BY <2>2, <2>3, <2>7 DEF WellFormed, Route, OfAnAccount, Resetting
  <2>9. job' = [job EXCEPT ![j] = r]
    BY <1>3, <2>1, <2>4 DEF Server, Types
  <2> QED BY <1>1, <2>6, <2>8, <2>9, StillMoves
<1> QED BY <1>2, <1>3 DEF ReadCount

LEMMA ValidateKeeps ==
    ASSUME Server, NEW j \in Jobs, Validate(j)
    PROVE  Server' /\ Grows
<1>1. Still /\ job[j].at = "guard"
  BY DEF Validate, Still, At, userVars, codeVars, sessionVars, throttleVars, inputs
<1>2. CASE Answer(j, "unauthorized", "clears access")
  BY <1>1, <1>2, GivesUp
<1>3. CASE Exists(job[j].user) /\ Goto(j, Body(job[j].op))
  <2>1. job[j] \in JobType /\ job[j].op \in Guarded
    BY <1>1 DEF Server, Types, Carried, WellFormed, Route
  <2>2. job[j].user \in Ids /\ users[job[j].user] \in Row
    <3>1. PICK u \in 0..MaxUsers : u = job[j].user
      BY <2>1 DEF JobType
    <3> QED BY <1>3, <3>1, Existing DEF Server
  <2>3. PICK op \in Guarded : op = job[j].op
    BY <2>1
  <2>4. op \in Ops /\ Route(op, Body(op)) /\ Body(op) \in {"find", "revoke", "remove"}
    BY BodyFits DEF Guarded, Ops
  <2>5. PICK step \in {"find", "revoke", "remove"} : step = Body(op)
    BY <2>4
  <2>6. step \in Points \ {"idle", "answer", "session"}
    BY DEF Points
  <2> QED BY <1>1, <1>3, <2>2, <2>3, <2>4, <2>5, <2>6, Goes
<1> QED BY <1>2, <1>3 DEF Validate

\* A look-up that finds an account and goes on with it.
LEMMA FindsAnAccount ==
    ASSUME Server, NEW j \in Jobs, Still, job[j].at = "find", NEW u \in Ids, users[u].is,
           NEW step \in {"session", "check", "blacklist"}, Route(job[j].op, step),
           step = "session" => users[u].mail = job[j].mail,
           job' = [job EXCEPT ![j].user = u, ![j].at = step]
    PROVE  Server' /\ Grows
<1>1. PICK q \in JobType : q = job[j]
  BY DEF Server, Types
<1>2. WellFormed(q) /\ q.at = "find"
  BY <1>1 DEF Server, Carried
<1>3. users[u] \in Row /\ u \in 0..MaxUsers
  BY RowsAre DEF Server
<1>4. [q EXCEPT !.user = u] \in JobType
  BY <1>3 DEF JobType
<1>5. step \in Points
  BY DEF Points
<1>6. PICK r \in JobType : r = [[q EXCEPT !.user = u] EXCEPT !.at = step]
  BY <1>4, <1>5 DEF JobType
<1>7. r.at = step /\ r.gives = q.gives /\ r.op = q.op /\ r.by = q.by /\ r.user = u
        /\ r.session = q.session /\ r.mail = q.mail /\ r.name = q.name
  BY <1>6 DEF JobType
<1>8. WellFormed(r)
  BY <1>1, <1>2, <1>3, <1>7 DEF WellFormed, Resetting
<1>9. job' = [job EXCEPT ![j] = r]
  BY <1>1, <1>6 DEF Server, Types
<1> QED BY <1>8, <1>9, StillMoves

LEMMA FindKeeps ==
    ASSUME Server, NEW j \in Jobs, Find(j)
    PROVE  Server' /\ Grows
<1>1. Still /\ job[j].at = "find"
  BY DEF Find, Still, At, userVars, codeVars, sessionVars, throttleVars, inputs
<1>2. job[j] \in JobType /\ Route(job[j].op, "find")
  BY <1>1 DEF Server, Types, Carried, WellFormed
<1>3. {"session", "check", "save", "blacklist", "remove", "taken"} \subseteq Points
  BY DEF Points
<1>4. CASE FindTaken(j)
  <2>1. CASE Refused(j)
    BY <1>1, <2>1, GivesUp DEF Refused
  <2>2. CASE Goto(j, "check")
    <3>1. Route(job[j].op, "check") /\ job[j].op # "reset"
      BY <1>4 DEF FindTaken, Route
    <3> QED BY <1>1, <1>3, <2>2, <3>1, Goes DEF OfAnAccount
  <2> QED BY <1>4, <2>1, <2>2 DEF FindTaken
<1>5. CASE FindByMail(j)
  <2>1. CASE Answer(j, "unauthorized", "nothing")
    BY <1>1, <2>1, GivesUp
  <2>2. ASSUME NEW u \in WithMail(job[j].mail),
               job' = [job EXCEPT ![j].user = u, ![j].at = "session"]
        PROVE  Server' /\ Grows
    <3>1. u \in Ids /\ users[u].is /\ users[u].mail = job[j].mail
      BY DEF WithMail
    <3>2. Route(job[j].op, "session")
      BY <1>5 DEF FindByMail, Route
    <3> QED BY <1>1, <2>2, <3>1, <3>2, FindsAnAccount
  <2> QED BY <1>5, <2>1, <2>2 DEF FindByMail
<1>6. CASE FindForReset(j)
  <2>1. CASE Refused(j)
    BY <1>1, <2>1, GivesUp DEF Refused
  <2>2. ASSUME NEW u \in WithMail(job[j].mail),
               job' = [job EXCEPT ![j].user = u, ![j].at = "check"]
        PROVE  Server' /\ Grows
    <3>1. u \in Ids /\ users[u].is
      BY DEF WithMail
    <3>2. Route(job[j].op, "check")
      BY <1>6 DEF FindForReset, Route
    <3> QED BY <1>1, <2>2, <3>1, <3>2, FindsAnAccount
  <2> QED BY <1>6, <2>1, <2>2 DEF FindForReset
<1>7. CASE FindForSocial(j)
  <2>1. CASE Goto(j, "save")
    <3>1. Route(job[j].op, "save")
      BY <1>7 DEF FindForSocial, Route
    <3> QED BY <1>1, <1>3, <2>1, <3>1, Goes DEF OfAnAccount
  <2>2. ASSUME NEW u \in WithMail(job[j].mail),
               job' = [job EXCEPT ![j].user = u, ![j].at = "session"]
        PROVE  Server' /\ Grows
    <3>1. u \in Ids /\ users[u].is /\ users[u].mail = job[j].mail
      BY DEF WithMail
    <3>2. Route(job[j].op, "session")
      BY <1>7 DEF FindForSocial, Route
    <3> QED BY <1>1, <2>2, <3>1, <3>2, FindsAnAccount
  <2> QED BY <1>7, <2>1, <2>2 DEF FindForSocial, Account
<1>8. CASE FindForRefresh(j)
  <2>1. job[j].op = "refresh"
    BY <1>8 DEF FindForRefresh
  <2>2. CASE Refused(j)
    BY <1>1, <2>2, GivesUp DEF Refused
  <2>3. CASE Answer(j, "unauthorized", "clears")
    BY <1>1, <2>3, GivesUp
  <2>4. CASE /\ job[j].session # 0 /\ Exists(owner[job[j].session])
             /\ job' = [job EXCEPT ![j].user = owner[job[j].session], ![j].at = "blacklist"]
    <3>1. job[j].session \in 1..Len(owner)
      <4>1. job[j].session \in Nat /\ job[j].session <= Len(owner)
        BY <1>2 DEF Server, Carried, WellFormed, JobType
      <4>2. Len(owner) \in Nat
        BY LenProperties DEF Server, Types
      <4> QED BY <2>4, <4>1, <4>2
    <3>2. PICK u \in Ids : u = owner[job[j].session]
      BY <3>1, ElementOfSeq DEF Server, Types
    <3>3. users[u].is
      BY <2>4, <3>2 DEF Exists
    <3>4. Route(job[j].op, "blacklist")
      BY <2>1 DEF Route
    <3> QED BY <1>1, <2>4, <3>2, <3>3, <3>4, FindsAnAccount
  <2> QED BY <1>8, <2>2, <2>3, <2>4 DEF FindForRefresh
<1>9. CASE FindOwn(j)
  <2>1. CASE Refused(j)
    BY <1>1, <2>1, GivesUp DEF Refused
  <2>2. CASE job[j].op = "profile" /\ Answer(j, "ok", "nothing")
    BY <1>1, <2>2, GivesUp DEF Leaves
  <2>3. CASE Exists(job[j].user) /\ job[j].op = "withdraw" /\ Goto(j, "remove")
    <3>1. PICK u \in 0..MaxUsers : u = job[j].user
      BY <1>2 DEF JobType
    <3>2. u \in Ids /\ users[u] \in Row
      BY <2>3, <3>1, Existing DEF Server
    <3>3. Route(job[j].op, "remove")
      BY <2>3 DEF Route
    <3> QED BY <1>1, <1>3, <2>3, <3>1, <3>2, <3>3, Goes
  <2>4. CASE Exists(job[j].user) /\ job[j].op = "update" /\ Goto(j, "taken")
    <3>1. PICK u \in 0..MaxUsers : u = job[j].user
      BY <1>2 DEF JobType
    <3>2. u \in Ids /\ users[u] \in Row
      BY <2>4, <3>1, Existing DEF Server
    <3>3. Route(job[j].op, "taken")
      BY <2>4 DEF Route
    <3> QED BY <1>1, <1>3, <2>4, <3>1, <3>2, <3>3, Goes
  <2> QED BY <1>9, <2>1, <2>2, <2>3, <2>4 DEF FindOwn
<1> QED BY <1>4, <1>5, <1>6, <1>7, <1>8, <1>9 DEF Find

LEMMA CheckCodeKeeps ==
    ASSUME Server, NEW j \in Jobs, CheckCode(j)
    PROVE  Server' /\ Grows
<1>1. Still /\ job[j].at = "check"
  BY DEF CheckCode, Still, At, userVars, codeVars, sessionVars, throttleVars, inputs
<1>2. job[j] \in JobType /\ Route(job[j].op, "check")
  BY <1>1 DEF Server, Types, Carried, WellFormed
<1>3. CASE Refused(j)
  BY <1>1, <1>3, GivesUp DEF Refused
<1>4. CASE job[j].op = "signup" /\ Goto(j, "save")
  BY <1>1, <1>4, Goes DEF Route, OfAnAccount, Points
<1>5. CASE job[j].op = "verify" /\ Answer(j, "ok", "nothing")
  BY <1>1, <1>5, GivesUp DEF Leaves
<1>6. CASE job[j].op = "reset" /\ Goto(j, "password")
  <2>1. job[j].user \in Ids /\ users[job[j].user] \in Row
    BY <1>1, <1>6 DEF Server, Carried, WellFormed, Resetting
  <2> QED BY <1>1, <1>6, <2>1, Goes DEF Route, Points
<1>7. job[j].op \in {"signup", "verify", "reset"}
  BY <1>2 DEF Route
<1> QED BY <1>3, <1>4, <1>5, <1>6, <1>7 DEF CheckCode

LEMMA TakenKeeps ==
    ASSUME Server, NEW j \in Jobs, Taken(j)
    PROVE  Server' /\ Grows
<1>1. Still /\ job[j].at = "taken"
  BY DEF Taken, Still, At, userVars, codeVars, sessionVars, throttleVars, inputs
<1>2. /\ job[j] \in JobType /\ job[j].op = "update"
      /\ job[j].user \in Ids /\ users[job[j].user] \in Row
  BY <1>1 DEF Server, Types, Carried, WellFormed, Route, OfAnAccount
<1>3. CASE Refused(j)
  BY <1>1, <1>3, GivesUp DEF Refused
<1>4. CASE Goto(j, "update")
  BY <1>1, <1>2, <1>4, Goes DEF Route, Points
<1> QED BY <1>3, <1>4 DEF Taken

\* A refresh that goes on has its account.
LEMMA ReadBlacklistKeeps ==
    ASSUME Server, NEW j \in Jobs, ReadBlacklist(j)
    PROVE  Server' /\ Grows
<1>1. Still /\ job[j].at = "blacklist"
  BY DEF ReadBlacklist, Still, At, userVars, codeVars, sessionVars, throttleVars, inputs
<1>2. CASE Answer(j, "unauthorized", "clears")
  BY <1>1, <1>2, GivesUp
<1>3. CASE Goto(j, "session")
  <2>1. PICK q \in JobType : q = job[j]
    BY DEF Server, Types
  <2>2. WellFormed(q) /\ q.at = "blacklist" /\ q.op = "refresh"
    BY <1>1, <2>1 DEF Server, Carried, WellFormed, Route
  <2>3. "session" \in Points
    BY DEF Points
  <2>4. PICK r \in JobType : r = [q EXCEPT !.at = "session"]
    BY <2>3 DEF JobType
  <2>5. r.at = "session" /\ r.gives = q.gives /\ r.op = q.op /\ r.by = q.by
          /\ r.user = q.user /\ r.session = q.session /\ r.mail = q.mail /\ r.name = q.name
    BY <2>4 DEF JobType
  <2>6. WellFormed(r)
    BY <2>2, <2>5 DEF WellFormed, Route, OfAnAccount, Resetting
  <2>7. job' = [job EXCEPT ![j] = r]
    BY <1>3, <2>1, <2>4 DEF Goto, Server, Types
  <2> QED BY <1>1, <2>6, <2>7, StillMoves
<1> QED BY <1>2, <1>3 DEF ReadBlacklist

LEMMA FailsKeeps ==
    ASSUME Server, NEW j \in Jobs, Fails(j)
    PROVE  Server' /\ Grows
<1>1. Still /\ job[j].at \notin {"idle", "answer"}
  BY DEF Fails, Still, userVars, codeVars, sessionVars, throttleVars, inputs
<1>2. CASE Answer(j, "ok", "clears")
  BY <1>1, <1>2, GivesUp
<1>3. CASE Answer(j, "refused", "clears access")
  BY <1>1, <1>3, GivesUp
<1>4. CASE Answer(j, "refused", "clears")
  BY <1>1, <1>4, GivesUp
<1>5. CASE Refused(j)
  BY <1>1, <1>5, GivesUp DEF Refused
<1> QED BY <1>2, <1>3, <1>4, <1>5 DEF Fails

-----------------------------------------------------------------------------
(* Steps that write tables and keys                                        *)

\* A request that moves to another step of its handler; the tables have grown.
LEMMA Writes ==
    ASSUME Server, NEW j \in Jobs, NEW q \in JobType, q = job[j], NEW r \in JobType,
           job' = [job EXCEPT ![j] = r],
           WellFormed(r), job' \in [Jobs -> JobType] => Types' /\ Grows
    PROVE  Server' /\ Grows
<1>1. Types' /\ Grows
  BY DEF Server, Types
<1>2. WellFormed(r)'
  BY <1>1, Keeps DEF Server
<1> QED BY <1>1, <1>2, OneMoves DEF Server

LEMMA SetCountKeeps ==
    ASSUME Server, NEW j \in Jobs, SetCount(j)
    PROVE  Server' /\ Grows
<1>1. job[j].at = "count" /\ Goto(j, AfterThrottle(job[j].op))
  BY DEF SetCount, At
<1>2. PICK q \in JobType : q = job[j]
  BY DEF Server, Types
<1>3. WellFormed(q) /\ q.at = "count"
  BY <1>1, <1>2 DEF Server, Carried
<1>4. PICK op \in Throttled : op = q.op
  BY <1>3 DEF WellFormed, Route
<1>5. op \in Ops /\ Route(op, AfterThrottle(op))
        /\ AfterThrottle(op) \in {"guard", "find", "code", "check"}
  BY BodyFits DEF Throttled
<1>6. PICK step \in {"guard", "find", "code", "check"} : step = AfterThrottle(op)
  BY <1>5
<1>7. step \in Points \ {"idle", "answer"} /\ step # "session" /\ step \notin OfAnAccount
  BY DEF Points, OfAnAccount
<1>8. step = "check" => op # "reset"
  BY <1>6 DEF AfterThrottle, Body, Guarded
<1>9. WellFormed([q EXCEPT !.at = step])
  BY <1>3, <1>4, <1>5, <1>6, <1>7, <1>8, GotoFits DEF Server
<1>10. PICK r \in JobType : r = [q EXCEPT !.at = step]
  BY <1>7 DEF JobType
<1>11. job' = [job EXCEPT ![j] = r]
  BY <1>1, <1>2, <1>4, <1>6, <1>10 DEF Goto
<1>12. ASSUME job' \in [Jobs -> JobType] PROVE Types' /\ Grows
  <2>1. q.seen + 1 \in Nat
    <3>1. q.seen \in Nat
      BY DEF JobType
    <3> QED BY <3>1
  <2>2. count' = [count EXCEPT ![op] = q.seen + 1] /\ passed' = [passed EXCEPT ![op] = @ + 1]
    BY <1>2, <1>4 DEF SetCount
  <2>3. count' \in [Throttled -> Nat]
    BY <2>1, <2>2 DEF Server, Types
  <2>4. passed' \in [Throttled -> Nat]
    BY <2>2 DEF Server, Types
  <2>5. UNCHANGED <<users, mailOf, codes, letter, lastCode, owner, stored, revoked, mine, moved>>
    BY DEF SetCount, userVars, codeVars, sessionVars, inputs
  <2>6. Len(owner) \in Nat
    BY LenProperties DEF Server, Types
  <2> QED BY <1>12, <2>3, <2>4, <2>5, <2>6 DEF Server, Types, Grows
<1> QED BY <1>2, <1>9, <1>10, <1>11, <1>12, Writes

LEMMA SaveCodeKeeps ==
    ASSUME Server, NEW j \in Jobs, SaveCode(j)
    PROVE  Server' /\ Grows
<1>1. PICK q \in JobType : q = job[j]
  BY DEF Server, Types
<1>2. WellFormed(q) /\ q.at = "code" /\ q.op = "send"
  BY <1>1 DEF Server, Carried, SaveCode, At, WellFormed, Route
<1>3. PICK c \in Nat : c = lastCode + 1
  BY DEF Server, Types
<1>4. [q EXCEPT !.at = "mail"] \in JobType
  BY DEF JobType, Points
<1>5. PICK r \in JobType : r = [[q EXCEPT !.at = "mail"] EXCEPT !.code = c]
  BY <1>4 DEF JobType
<1>6. r.at = "mail" /\ r.gives = q.gives /\ r.op = q.op /\ r.by = q.by /\ r.user = q.user
        /\ r.session = q.session /\ r.mail = q.mail /\ r.name = q.name
  BY <1>5 DEF JobType
<1>7. WellFormed(r)
  BY <1>2, <1>6 DEF WellFormed, Route, OfAnAccount, Resetting
<1>8. job' = [job EXCEPT ![j] = r]
  BY <1>1, <1>3, <1>5 DEF SaveCode, Server, Types
<1>9. ASSUME job' \in [Jobs -> JobType] PROVE Types' /\ Grows
  <2>1. lastCode' = c /\ codes' = [codes EXCEPT ![q.mail] = c]
    BY <1>1, <1>3 DEF SaveCode
  <2>2. codes' \in [Mails -> Nat]
    BY <2>1 DEF Server, Types
  <2>3. UNCHANGED <<users, mailOf, letter, owner, stored, revoked, count, passed, mine, moved>>
    BY DEF SaveCode, userVars, sessionVars, throttleVars, inputs
  <2>4. Len(owner) \in Nat
    BY LenProperties DEF Server, Types
  <2> QED BY <1>9, <2>1, <2>2, <2>3, <2>4 DEF Server, Types, Grows
<1> QED BY <1>1, <1>7, <1>8, <1>9, Writes

\* An answer of a step that writes.
LEMMA AnswersAfterwards ==
    ASSUME Server, NEW j \in Jobs, job[j].at # "idle",
           NEW status \in {"ok", "refused", "unauthorized"},
           NEW gives \in {"nothing", "clears", "clears access"},
           status = "ok" /\ job[j].op \in Leaves => gives = "clears",
           Answer(j, status, gives), job' \in [Jobs -> JobType] => Types' /\ Grows
    PROVE  Server' /\ Grows
<1>1. PICK q \in JobType : q = job[j]
  BY DEF Server, Types
<1>2. WellFormed(q)
  BY <1>1 DEF Server, Carried
<1>3. WellFormed(Answers(q, status, gives))
  BY <1>1, <1>2, AnswerFits DEF Server
<1>4. PICK r \in JobType : r = Answers(q, status, gives)
  BY AnswerTyped
<1>5. job' = [job EXCEPT ![j] = r]
  BY <1>1, <1>4 DEF Answer, Answers, Server, Types
<1>6. WellFormed(r)
  BY <1>3, <1>4
<1> QED BY <1>1, <1>5, <1>6, Writes

LEMMA SendMailKeeps ==
    ASSUME Server, NEW j \in Jobs, SendMail(j)
    PROVE  Server' /\ Grows
<1>1. job[j].at = "mail" /\ Answer(j, "ok", "nothing")
  BY DEF SendMail, At
<1>2. job[j].op = "send"
  BY <1>1 DEF Server, Carried, WellFormed, Route
<1>3. ASSUME job' \in [Jobs -> JobType] PROVE Types' /\ Grows
  <2>1. job[j].code \in Nat
    BY DEF Server, Types, JobType
  <2>2. letter' \in [Mails -> Nat]
    BY <2>1 DEF SendMail, Server, Types
  <2>3. UNCHANGED <<users, mailOf, codes, lastCode, owner, stored, revoked, count, passed,
                    mine, moved>>
    BY DEF SendMail, userVars, sessionVars, throttleVars, inputs
  <2>4. Len(owner) \in Nat
    BY LenProperties DEF Server, Types
  <2> QED BY <1>3, <2>2, <2>3, <2>4 DEF Server, Types, Grows
<1> QED BY <1>1, <1>2, <1>3, AnswersAfterwards DEF Leaves

LEMMA ForgetCodeKeeps ==
    ASSUME Server, NEW j \in Jobs, ForgetCode(j)
    PROVE  Server' /\ Grows
<1>1. job[j].at = "forget" /\ Answer(j, "ok", "clears")
  BY DEF ForgetCode, At
<1>2. ASSUME job' \in [Jobs -> JobType] PROVE Types' /\ Grows
  <2>1. codes' \in [Mails -> Nat]
    BY DEF ForgetCode, Server, Types
  <2>2. UNCHANGED <<users, mailOf, letter, lastCode, owner, stored, revoked, count, passed,
                    mine, moved>>
    BY DEF ForgetCode, userVars, sessionVars, throttleVars, inputs
  <2>3. Len(owner) \in Nat
    BY LenProperties DEF Server, Types
  <2> QED BY <1>2, <2>1, <2>2, <2>3 DEF Server, Types, Grows
<1> QED BY <1>1, <1>2, AnswersAfterwards

LEMMA SetPasswordKeeps ==
    ASSUME Server, NEW j \in Jobs, SetPassword(j)
    PROVE  Server' /\ Grows
<1>1. job[j].at = "password" /\ Answer(j, "ok", "nothing")
  BY DEF SetPassword, At
<1>2. job[j].op = "reset" /\ job[j].user \in Ids /\ users[job[j].user] \in Row
  BY <1>1 DEF Server, Carried, WellFormed, Route, OfAnAccount
<1>3. PICK u \in Ids : u = job[j].user
  BY <1>2
<1>4. users' = users \/ users' = [users EXCEPT ![u] = [users[u] EXCEPT !.pass = TRUE]]
  BY <1>3 DEF SetPassword
<1>5. [users[u] EXCEPT !.pass = TRUE] \in Row
        /\ [users[u] EXCEPT !.pass = TRUE].mail = users[u].mail
  BY <1>2, <1>3 DEF Row
<1>6. ASSUME job' \in [Jobs -> JobType] PROVE Types' /\ Grows
  <2>1. users' \in [Ids -> Row \union {NoUser}]
    BY <1>4, <1>5 DEF Server, Types
  <2>2. UNCHANGED <<mailOf, codes, letter, lastCode, owner, stored, revoked, count, passed,
                    mine, moved>>
    BY DEF SetPassword, codeVars, sessionVars, throttleVars, inputs
  <2>3. Len(owner) \in Nat
    BY LenProperties DEF Server, Types
  <2>4. \A v \in Ids : users[v] \in Row => users'[v] \in Row /\ users'[v].mail = users[v].mail
    BY <1>4, <1>5 DEF Server, Types
  <2> QED BY <1>6, <2>1, <2>2, <2>3, <2>4 DEF Server, Types, Grows
<1> QED BY <1>1, <1>2, <1>6, AnswersAfterwards DEF Leaves

LEMMA UpdateKeeps ==
    ASSUME Server, NEW j \in Jobs, Update(j)
    PROVE  Server' /\ Grows
<1>1. job[j].at = "update"
  BY DEF Update, At
<1>2. /\ job[j].op = "update" /\ job[j].user \in Ids /\ users[job[j].user] \in Row
      /\ job[j].name \in Names /\ job[j].mail \in AllMails
  BY <1>1 DEF Server, Types, JobType, Carried, WellFormed, Route, OfAnAccount
<1>3. PICK u \in Ids, m \in AllMails, n \in Names :
        u = job[j].user /\ m = job[j].mail /\ n = job[j].name
  BY <1>2
<1>4. CASE Refused(j) /\ UNCHANGED <<users, moved>>
  <2>1. Still
    BY <1>4 DEF Update, Still, codeVars, sessionVars, throttleVars, inputs
  <2> QED BY <1>1, <1>4, <2>1, GivesUp DEF Refused
<1>5. CASE /\ users' = [users EXCEPT ![u].mail = m, ![u].name = n]
           /\ moved' = IF m = users[u].mail THEN moved ELSE moved \union {u}
           /\ Answer(j, "ok", "nothing")
  <2>1. ASSUME job' \in [Jobs -> JobType] PROVE Types' /\ Grows
    <3>1. users' = [users EXCEPT ![u] = [users[u] EXCEPT !.mail = m, !.name = n]]
      BY <1>5 DEF Server, Types
    <3>2. [users[u] EXCEPT !.mail = m, !.name = n] \in Row
            /\ [users[u] EXCEPT !.mail = m, !.name = n].mail = m
      BY <1>2, <1>3 DEF Row
    <3>3. users' \in [Ids -> Row \union {NoUser}]
      BY <3>1, <3>2 DEF Server, Types
    <3>4. UNCHANGED <<mailOf, codes, letter, lastCode, owner, stored, revoked, count, passed,
                      mine>>
      BY DEF Update, codeVars, sessionVars, throttleVars, inputs
    <3>5. Len(owner) \in Nat
      BY LenProperties DEF Server, Types
    <3>6. moved \subseteq moved' /\ moved' \subseteq Ids /\ (u \in moved' \/ m = users[u].mail)
      BY <1>5 DEF Server, Types
    <3>7. \A v \in Ids : users[v] \in Row =>
              users'[v] \in Row /\ (v \in moved' \/ users'[v].mail = users[v].mail)
      BY <3>1, <3>2, <3>6 DEF Server, Types
    <3> QED BY <2>1, <3>3, <3>4, <3>5, <3>6, <3>7 DEF Server, Types, Grows
  <2> QED BY <1>1, <1>2, <1>5, <2>1, AnswersAfterwards DEF Leaves
<1> QED BY <1>3, <1>4, <1>5 DEF Update

LEMMA TheNextId ==
    ASSUME Types, Made, NextId \in Ids
    PROVE  \E k \in 0..MaxUsers :
             /\ NextId = k + 1
             /\ \A u \in Ids : users[u] \in Row <=> u <= k
<1>1. PICK k \in 0..MaxUsers : \A u \in Ids : users[u] \in Row <=> u <= k
  BY DEF Made
<1>2. \A u \in Ids : users[u] # NoUser <=> users[u] \in Row
  <2>1. NoUser \notin Row
    BY AccountsAssumption DEF NoUser, Row
  <2> QED BY <2>1 DEF Types
<1>3. {u \in Ids : users[u] # NoUser} = 1..k
  BY <1>1, <1>2, AccountsAssumption DEF Ids
<1>4. Cardinality(1..k) = k
  BY FS_Interval
<1>5. NextId = 1 + Cardinality(1..k)
  BY <1>3, Zenon DEF NextId
<1> QED BY <1>1, <1>4, <1>5

LEMMA SaveUserKeeps ==
    ASSUME Server, Made, NEW j \in Jobs, SaveUser(j)
    PROVE  Server' /\ Grows
<1>1. PICK q \in JobType : q = job[j]
  BY DEF Server, Types
<1>2. WellFormed(q) /\ q.at = "save" /\ q.op \in {"signup", "social"}
  BY <1>1 DEF Server, Carried, SaveUser, At, WellFormed, Route
<1>3. q.by \in People /\ q.name \in Names /\ q.mail \in AllMails
  BY <1>2 DEF WellFormed, JobType
<1>4. CASE Refused(j) /\ UNCHANGED <<users, mine>>
  <2>1. Still
    BY <1>4 DEF SaveUser, Still, codeVars, sessionVars, throttleVars, inputs
  <2> QED BY <1>1, <1>2, <1>4, <2>1, GivesUp DEF Refused
<1>5. CASE NextId \in Ids /\ ~(Refused(j) /\ UNCHANGED <<users, mine>>)
  <2>1. PICK u \in Ids : u = NextId
    BY <1>5
  <2>2. users[u] \notin Row
    <3>1. PICK k \in 0..MaxUsers : NextId = k + 1 /\ \A v \in Ids : users[v] \in Row <=> v <= k
      BY <1>5, TheNextId DEF Server
    <3> QED BY <2>1, <3>1
  <2>3. PICK row \in Row : row = [mail |-> q.mail, name |-> q.name,
                                 pass |-> q.op = "signup", is |-> TRUE]
    <3>1. PICK b \in BOOLEAN : b = (q.op = "signup")
      OBVIOUS
    <3>2. [mail |-> q.mail, name |-> q.name, pass |-> b, is |-> TRUE] \in Row
      BY <1>3 DEF Row
    <3> QED BY <3>1, <3>2
  <2>4. /\ users' = [users EXCEPT ![u] = row]
        /\ mine' = [mine EXCEPT ![q.by] = @ \union {u}]
        /\ IF q.op = "signup" THEN Answer(j, "ok", "nothing")
           ELSE job' = [job EXCEPT ![j].user = u, ![j].at = "session"]
    BY <1>1, <1>5, <2>1, <2>3 DEF SaveUser
  <2>5. ASSUME job' \in [Jobs -> JobType] PROVE Types' /\ Grows
    <3>1. users' \in [Ids -> Row \union {NoUser}]
      BY <2>4 DEF Server, Types
    <3>2. mine' \in [People -> SUBSET Ids]
      BY <1>3, <2>4 DEF Server, Types
    <3>3. UNCHANGED <<mailOf, codes, letter, lastCode, owner, stored, revoked, count, passed,
                      moved>>
      BY DEF SaveUser, codeVars, sessionVars, throttleVars, inputs
    <3>4. Len(owner) \in Nat
      BY LenProperties DEF Server, Types
    <3>5. \A v \in Ids : users[v] \in Row => users'[v] = users[v]
      BY <2>2, <2>4 DEF Server, Types
    <3> QED BY <2>5, <3>1, <3>2, <3>3, <3>4, <3>5 DEF Server, Types, Grows
  <2>6. CASE q.op = "signup"
    BY <1>1, <1>2, <2>4, <2>5, <2>6, AnswersAfterwards DEF Leaves
  <2>7. CASE q.op = "social"
    <3>1. u \in 0..MaxUsers /\ "session" \in Points
      BY AccountsAssumption DEF Ids, Points
    <3>2. [q EXCEPT !.user = u] \in JobType
      BY <3>1 DEF JobType
    <3>3. PICK r \in JobType : r = [[q EXCEPT !.user = u] EXCEPT !.at = "session"]
      BY <3>1, <3>2 DEF JobType
    <3>4. r.at = "session" /\ r.gives = q.gives /\ r.op = q.op /\ r.by = q.by /\ r.user = u
            /\ r.session = q.session /\ r.mail = q.mail /\ r.name = q.name
      BY <3>3 DEF JobType
    <3>5. job' = [job EXCEPT ![j] = r]
      BY <1>1, <2>4, <2>7, <3>3 DEF Server, Types
    <3>6. job' \in [Jobs -> JobType]
      BY <3>5 DEF Server, Types
    <3>7. Types' /\ Grows
      BY <2>5, <3>6
    <3>8. users'[u] = row /\ row.mail = q.mail /\ UNCHANGED <<owner, mailOf>>
      BY <2>3, <2>4 DEF SaveUser, Server, Types, sessionVars, inputs
    <3>9. WellFormed(r)'
      <4>1. /\ Route(r.op, r.at) /\ r.gives = "nothing" /\ r.by \in People /\ r.name \in Names
            /\ r.session <= Len(owner') /\ r.mail = mailOf'[r.by] /\ users'[r.user] \in Row
            /\ users'[r.user].mail = r.mail
        BY <1>2, <1>3, <2>7, <3>4, <3>8 DEF WellFormed, Route
      <4> QED BY <3>4, <4>1 DEF WellFormed
    <3> QED BY <3>5, <3>7, <3>9, OneMoves DEF Server
  <2> QED BY <1>2, <2>6, <2>7
<1> QED BY <1>4, <1>5 DEF SaveUser

LEMMA RemoveKeeps ==
    ASSUME Server, NEW j \in Jobs, Remove(j)
    PROVE  Server' /\ Grows
<1>1. PICK q \in JobType : q = job[j]
  BY DEF Server, Types
<1>2. /\ WellFormed(q) /\ q.at = "remove" /\ q.op \in {"withdraw", "delete"}
      /\ q.user \in Ids /\ users[q.user] \in Row
  BY <1>1 DEF Server, Carried, Remove, At, WellFormed, Route, OfAnAccount
<1>3. PICK u \in Ids, row \in Row : u = q.user /\ row = users[u]
  BY <1>2
<1>4. PICK gone \in Row : gone = [row EXCEPT !.is = FALSE]
  BY DEF Row
<1>5. gone.mail = row.mail /\ row.mail \in AllMails
  BY <1>4 DEF Row
<1>6. users' = [users EXCEPT ![u] = gone]
  BY <1>1, <1>3, <1>4 DEF Remove, Server, Types
<1>7. ASSUME job' \in [Jobs -> JobType] PROVE Types' /\ Grows
  <2>1. users' \in [Ids -> Row \union {NoUser}]
    BY <1>6 DEF Server, Types
  <2>2. UNCHANGED <<mailOf, codes, letter, lastCode, owner, stored, revoked, count, passed,
                    mine, moved>>
    BY DEF Remove, codeVars, sessionVars, throttleVars, inputs
  <2>3. Len(owner) \in Nat
    BY LenProperties DEF Server, Types
  <2>4. \A v \in Ids : users[v] \in Row => users'[v] \in Row /\ users'[v].mail = users[v].mail
    BY <1>3, <1>5, <1>6 DEF Server, Types
  <2> QED BY <1>7, <2>1, <2>2, <2>3, <2>4 DEF Server, Types, Grows
<1>8. CASE q.op = "withdraw"
  <2>1. job' = [job EXCEPT ![j].at = "forget", ![j].mail = row.mail]
    BY <1>1, <1>3, <1>8 DEF Remove
  <2>2. [q EXCEPT !.at = "forget"] \in JobType
    <3> "forget" \in Points
      BY DEF Points
    <3> QED BY DEF JobType
  <2>3. PICK r \in JobType : r = [[q EXCEPT !.at = "forget"] EXCEPT !.mail = row.mail]
    BY <1>5, <2>2 DEF JobType
  <2>4. r.at = "forget" /\ r.gives = q.gives /\ r.op = q.op /\ r.by = q.by
          /\ r.session = q.session
    BY <2>3 DEF JobType
  <2>5. WellFormed(r)
    BY <1>2, <1>8, <2>4 DEF WellFormed, Route, OfAnAccount, Resetting
  <2>6. job' = [job EXCEPT ![j] = r]
    BY <1>1, <2>1, <2>3 DEF Server, Types
  <2> QED BY <1>1, <1>7, <2>5, <2>6, Writes
<1>9. CASE q.op = "delete"
  <2>1. Answer(j, "ok", "nothing") \/ Refused(j)
    BY <1>1, <1>9 DEF Remove
  <2> QED BY <1>1, <1>2, <1>7, <1>9, <2>1, AnswersAfterwards DEF Leaves, Refused
<1> QED BY <1>2, <1>8, <1>9

\* A session more is the last.
LEMMA OneSessionMore ==
    ASSUME Types, NEW u \in Ids, owner' = Append(owner, u)
    PROVE  /\ owner' \in Seq(Ids) /\ Len(owner) \in Nat /\ Len(owner') = Len(owner) + 1
           /\ \A s \in 1..Len(owner) : owner'[s] = owner[s]
           /\ owner'[Len(owner) + 1] = u
BY AppendProperties, LenProperties DEF Types

LEMMA StoreSessionKeeps ==
    ASSUME Server, NEW j \in Jobs, StoreSession(j)
    PROVE  Server' /\ Grows
<1>1. PICK q \in JobType : q = job[j]
  BY DEF Server, Types
<1>2. /\ WellFormed(q) /\ q.at = "session" /\ q.op \in {"signin", "social", "refresh"}
      /\ q.user \in Ids /\ users[q.user] \in Row /\ q.by \in People
  BY <1>1 DEF Server, Carried, StoreSession, At, WellFormed, Route, OfAnAccount
<1>3. PICK u \in Ids : u = q.user
  BY <1>2
<1>4. owner' = Append(owner, u)
  BY <1>1, <1>3 DEF StoreSession
<1>5. /\ owner' \in Seq(Ids) /\ Len(owner) \in Nat /\ Len(owner') = Len(owner) + 1
  BY <1>4, OneSessionMore DEF Server
<1>6. PICK s \in Nat : s = Len(owner) + 1
  BY <1>5
<1>7. /\ stored' = stored \union {s} /\ UNCHANGED revoked
      /\ mine' = IF q.op = "refresh" THEN mine ELSE [mine EXCEPT ![q.by] = @ \union {u}]
      /\ job' = [job EXCEPT ![j].at = "answer", ![j].status = "ok",
                            ![j].gives = "sets", ![j].session = s]
  BY <1>1, <1>3, <1>6 DEF StoreSession
<1>8. \A x \in JobType : [x EXCEPT !.at = "answer"] \in JobType
  <2> "answer" \in Points
    BY DEF Points
  <2> QED BY DEF JobType
<1>9. \A x \in JobType : [x EXCEPT !.status = "ok"] \in JobType
  BY DEF JobType
<1>10. \A x \in JobType : [x EXCEPT !.gives = "sets"] \in JobType
  BY DEF JobType
<1>11. \A x \in JobType : [x EXCEPT !.session = s] \in JobType
  BY DEF JobType
<1>12. PICK r \in JobType : r = [[[[q EXCEPT !.at = "answer"] EXCEPT !.status = "ok"]
                                  EXCEPT !.gives = "sets"] EXCEPT !.session = s]
  BY <1>8, <1>9, <1>10, <1>11
<1>13. r.at = "answer" /\ r.gives = "sets" /\ r.op = q.op /\ r.by = q.by /\ r.user = q.user
         /\ r.session = s /\ r.mail = q.mail /\ r.name = q.name
  BY <1>12 DEF JobType
<1>14. job' = [job EXCEPT ![j] = r]
  BY <1>1, <1>7, <1>12 DEF Server, Types
<1>15. job' \in [Jobs -> JobType]
  BY <1>14 DEF Server, Types
<1>16. UNCHANGED <<users, mailOf, codes, letter, lastCode, count, passed, moved>>
  BY DEF StoreSession, codeVars, throttleVars, inputs
<1>17. Types'
  <2>1. mine' \in [People -> SUBSET Ids]
    BY <1>7 DEF Server, Types
  <2>2. stored' \subseteq 1..Len(owner') /\ revoked' \subseteq 1..Len(owner')
    BY <1>5, <1>6, <1>7 DEF Server, Types
  <2> QED BY <1>5, <1>15, <1>16, <2>1, <2>2 DEF Server, Types
<1>18. Grows
  <2>1. \A s1 \in 1..Len(owner) : owner'[s1] = owner[s1]
    BY <1>4, OneSessionMore DEF Server
  <2> QED BY <1>5, <1>16, <2>1 DEF Grows
<1>19. WellFormed(r)'
  <2>1. r.session <= Len(owner') /\ r.session \in 1..Len(owner')
    BY <1>5, <1>6, <1>13
  <2>2. Route(r.op, r.at) /\ r.op \notin Leaves
    BY <1>2, <1>13 DEF Route, Ops, Leaves
  <2> QED BY <1>2, <1>13, <1>16, <2>1, <2>2 DEF WellFormed, OfAnAccount, Resetting
<1> QED BY <1>14, <1>17, <1>18, <1>19, OneMoves DEF Server

LEMMA RevokeKeeps ==
    ASSUME Server, NEW j \in Jobs, Revoke(j)
    PROVE  Server' /\ Grows
<1>1. PICK q \in JobType : q = job[j]
  BY DEF Server, Types
<1>2. WellFormed(q) /\ q.at = "revoke" /\ q.op = "signout"
  BY <1>1 DEF Server, Carried, Revoke, At, WellFormed, Route
<1>3. CASE Refused(j) /\ UNCHANGED revoked
  <2>1. Still
    BY <1>3 DEF Revoke, Still, userVars, codeVars, throttleVars, inputs
  <2> QED BY <1>1, <1>2, <1>3, <2>1, GivesUp DEF Refused
<1>4. CASE q.session # 0 /\ revoked' = revoked \union {q.session} /\ Goto(j, "drop")
  <2>1. "drop" \in Points \ {"idle", "answer"} /\ "drop" \notin OfAnAccount
    BY DEF Points, OfAnAccount
  <2>2. PICK r \in JobType : r = [q EXCEPT !.at = "drop"]
    BY <2>1 DEF JobType
  <2>3. WellFormed(r)
    BY <1>2, <2>1, <2>2, GotoFits DEF Server, Route
  <2>4. job' = [job EXCEPT ![j] = r]
    BY <1>1, <1>4, <2>2 DEF Goto
  <2>5. ASSUME job' \in [Jobs -> JobType] PROVE Types' /\ Grows
    <3>1. q.session \in Nat /\ Len(owner) \in Nat
      BY LenProperties DEF Server, Types, JobType
    <3>2. q.session \in 1..Len(owner)
      BY <1>2, <1>4, <3>1 DEF WellFormed
    <3>3. UNCHANGED <<users, mailOf, codes, letter, lastCode, owner, stored, count, passed,
                      mine, moved>>
      BY DEF Revoke, userVars, codeVars, throttleVars, inputs
    <3>4. revoked' \subseteq 1..Len(owner)
      BY <1>4, <3>2 DEF Server, Types
    <3> QED BY <2>5, <3>1, <3>3, <3>4 DEF Server, Types, Grows
  <2> QED BY <1>1, <2>3, <2>4, <2>5, Writes
<1> QED BY <1>1, <1>3, <1>4 DEF Revoke

LEMMA DropSessionKeeps ==
    ASSUME Server, NEW j \in Jobs, DropSession(j)
    PROVE  Server' /\ Grows
<1>1. job[j].at = "drop" /\ Answer(j, "ok", "clears")
  BY DEF DropSession, At, SignOutClears, BothCookies
<1>2. ASSUME job' \in [Jobs -> JobType] PROVE Types' /\ Grows
  <2>1. UNCHANGED <<users, mailOf, codes, letter, lastCode, owner, revoked, count, passed,
                    mine, moved>> /\ stored' \subseteq stored
    BY DEF DropSession, userVars, codeVars, throttleVars, inputs
  <2>2. Len(owner) \in Nat
    BY LenProperties DEF Server, Types
  <2> QED BY <1>2, <2>1, <2>2 DEF Server, Types, Grows
<1> QED BY <1>1, <1>2, AnswersAfterwards

LEMMA HandlesKeeps ==
    ASSUME Server, Made, NEW j \in Jobs, Handles(j)
    PROVE  Server' /\ Grows
BY ReadCountKeeps, SetCountKeeps, ValidateKeeps, FindKeeps, SaveCodeKeeps, SendMailKeeps,
   CheckCodeKeeps, SaveUserKeeps, SetPasswordKeeps, TakenKeeps, UpdateKeeps, RemoveKeeps,
   ForgetCodeKeeps, ReadBlacklistKeeps, StoreSessionKeeps, RevokeKeeps, DropSessionKeeps,
   FailsKeeps DEF Handles

-----------------------------------------------------------------------------
(* The browser and what it exchanges with the server                       *)

CallType == [at : {"idle", "first", "renewing", "waiting", "again"},
             kind : Kinds \union {"none"}, on : Jobs \union {0}]
JarType == [access : 0..MaxUsers, refresh : Nat, accessLeft : {0, AccessMaxAge},
            refreshLeft : Nat]

\* A cookie holds a session of the user it signs in for as long as it lasts.
JarFits(r) ==
    /\ r \in JarType /\ r.refresh <= Len(owner)
    /\ r.access = 0 <=> r.accessLeft = 0
    /\ r.refresh = 0 <=> r.refreshLeft = 0
    /\ r.access # 0 => r.refresh # 0 /\ owner[r.refresh] = r.access

Page ==
    /\ call \in [Jobs -> CallType]
    /\ \A c \in Jobs : call[c].at # "idle" => call[c].kind \in Kinds
    /\ \A c \in Jobs : call[c].at \in {"first", "renewing", "again"} => job[c].at # "idle"
    /\ isRefreshing \in BOOLEAN /\ shown \in BOOLEAN /\ leaving \in BOOLEAN
    /\ \A c \in Jobs : call[c].at = "waiting" => job[c].at = "idle"
    /\ asked \in Nat /\ (asked = 0 => \A c \in Jobs : call[c].at = "idle")
    /\ lateResets \in Nat
    /\ refreshPromise \in Jobs \union {0} /\ (isRefreshing <=> refreshPromise # 0)

Browser == JarFits(jar) /\ Page

LEMMA FirstStep ==
    ASSUME NEW op \in Ops
    PROVE  LET at == IF op \in Throttled THEN "throttle" ELSE AfterThrottle(op)
           IN  Route(op, at) /\ at \in {"throttle", "guard", "find"}
BY DEF Ops, Throttled, Guarded, AfterThrottle, Body, Route

LEMMA RequestIsNew ==
    ASSUME Types, NEW op \in Ops, NEW p \in People, NEW u \in 0..MaxUsers, NEW s \in Nat,
           s <= Len(owner), NEW m \in AllMails, NEW n \in Names \union {NoName}, NEW c \in Nat,
           op \in {"signup", "signin", "reset", "social"} => m = mailOf[p],
           op \in {"signup", "social", "update"} => n \in Names
    PROVE  IsNew(Request(op, p, u, s, m, n, c))
<1>1. PICK at \in {"throttle", "guard", "find"} :
        at = (IF op \in Throttled THEN "throttle" ELSE AfterThrottle(op)) /\ Route(op, at)
  BY FirstStep
<1>2. at \in Points
  BY DEF Points
<1>3. PICK r : r = [op |-> op, at |-> at, by |-> p, user |-> u, session |-> s, mail |-> m,
                    name |-> n, code |-> c, seen |-> 0, status |-> "none", gives |-> "nothing"]
  OBVIOUS
<1>4. r \in JobType
  BY <1>2, <1>3 DEF JobType
<1>5. r.op = op /\ r.at = at /\ r.by = p /\ r.session = s /\ r.mail = m /\ r.name = n
        /\ r.gives = "nothing" /\ r.seen = 0 /\ r.status = "none"
  BY <1>3
<1>6. WellFormed(r)
  BY <1>1, <1>5 DEF WellFormed, OfAnAccount, Resetting
<1>7. IsNew(r)
  BY <1>1, <1>4, <1>5, <1>6 DEF IsNew
<1> QED BY <1>1, <1>3, <1>7 DEF Request

\* A request of the page.
LEMMA AskedIsNew ==
    ASSUME Types, NEW c, NEW kind \in Kinds \union {"refresh"}, NEW r \in JarType,
           r.refresh <= Len(owner)
    PROVE  IsNew(Asked(c, kind, r))
<1>1. OpOf(kind) \in {"profile", "social", "signout", "withdraw", "refresh"}
  BY DEF OpOf, Kinds, Leaves
<1>2. PICK op \in Ops : op = OpOf(kind) /\ op \in {"profile", "social", "signout", "withdraw", "refresh"}
  BY <1>1 DEF Ops
<1>3. PICK m \in AllMails, n \in Names : m = mailOf[Me] /\ n = NameOf[Me]
  BY BrowserAssumption DEF Types, Names
<1>4. r.access \in 0..MaxUsers /\ r.refresh \in Nat
  BY DEF JarType
<1>5. IsNew(Request(op, Me, r.access, r.refresh, m, n, 0))
  BY <1>2, <1>3, <1>4, BrowserAssumption, RequestIsNew
<1>6. Asked(c, kind, r) = Request(op, Me, r.access, r.refresh, m, n, 0)
  BY <1>2, <1>3 DEF Asked
<1> QED BY <1>5, <1>6

\* A request of a visitor.
Placed(j, p) ==
    \E op \in Ops, u \in 0..MaxUsers, m \in AllMails, n \in Names \union {NoName}, c \in Nat :
        /\ op \in {"signup", "signin", "reset", "social"} => m = mailOf[p]
        /\ op \in {"signup", "social", "update"} => n \in Names
        /\ job' = [job EXCEPT ![j] = Request(op, p, u, 0, m, n, c)]

LEMMA PlacedIsNew ==
    ASSUME Types, NEW j \in Jobs, NEW p \in People, Placed(j, p)
    PROVE  \E r \in JobType : IsNew(r) /\ job' = [job EXCEPT ![j] = r]
<1>1. 0 <= Len(owner)
  BY LenProperties DEF Types
<1>2. PICK op \in Ops, u \in 0..MaxUsers, m \in AllMails, n \in Names \union {NoName}, c \in Nat :
        /\ op \in {"signup", "signin", "reset", "social"} => m = mailOf[p]
        /\ op \in {"signup", "social", "update"} => n \in Names
        /\ job' = [job EXCEPT ![j] = Request(op, p, u, 0, m, n, c)]
  BY DEF Placed
<1>3. IsNew(Request(op, p, u, 0, m, n, c))
  BY <1>1, <1>2, RequestIsNew
<1>4. PICK r : r = Request(op, p, u, 0, m, n, c)
  OBVIOUS
<1> QED BY <1>2, <1>3, <1>4 DEF IsNew

LEMMA RequestsAreNew ==
    ASSUME Types, NEW j \in Jobs, Requests(j),
           \A p \in People : \A u \in mine[p] : users[u] \in Row
    PROVE  /\ \E r \in JobType : IsNew(r) /\ job' = [job EXCEPT ![j] = r]
           /\ UNCHANGED <<userVars, codeVars, sessionVars, throttleVars, mailOf>>
<1>1. UNCHANGED <<userVars, codeVars, sessionVars, throttleVars, mailOf>>
  BY DEF Requests, ByMail, SocialCallback, OfAccount, Visit
<1>2. PICK p \in People : ByMail(j, p) \/ SocialCallback(j, p) \/ OfAccount(j, p)
  BY DEF Requests
<1>3. mailOf[p] \in AllMails /\ NameOf[p] \in Names
  BY DEF Types, Names
<1>4. 0 \in 0..MaxUsers /\ NoMail \in AllMails /\ Mails \subseteq AllMails
        /\ NoName \in Names \union {NoName}
  BY AccountsAssumption DEF AllMails
<1>5. CASE ByMail(j, p)
  <2>1. ASSUME job' = [job EXCEPT ![j] = Request("send", p, 0, 0, mailOf[p], NoName, 0)]
        PROVE  Placed(j, p)
    <3> "send" \in Ops
      BY DEF Ops
    <3> QED BY <1>3, <1>4, <2>1 DEF Placed
  <2>2. ASSUME job' = [job EXCEPT ![j] = Request("signin", p, 0, 0, mailOf[p], NoName, 0)]
        PROVE  Placed(j, p)
    <3> "signin" \in Ops
      BY DEF Ops
    <3> QED BY <1>3, <1>4, <2>2 DEF Placed
  <2>3. ASSUME NEW op \in {"signup", "verify", "reset"},
               job' = [job EXCEPT ![j] = Request(op, p, 0, 0, mailOf[p], NameOf[p], letter[mailOf[p]])]
        PROVE  Placed(j, p)
    <3>1. letter[mailOf[p]] \in Nat
      BY <1>3, <1>5 DEF ByMail, AllMails, Types
    <3>2. op \in Ops
      BY DEF Ops
    <3> QED BY <1>3, <1>4, <2>3, <3>1, <3>2 DEF Placed
  <2>4. Placed(j, p)
    BY <1>5, <2>1, <2>2, <2>3 DEF ByMail, Visit, Arrives
  <2> QED BY <1>1, <2>4, PlacedIsNew
<1>6. CASE SocialCallback(j, p)
  <2>1. job' = [job EXCEPT ![j] = Request("social", p, 0, 0, mailOf[p], NameOf[p], 0)]
    BY <1>6 DEF SocialCallback, Visit, Arrives
  <2>2. "social" \in Ops
    BY DEF Ops
  <2>3. Placed(j, p)
    BY <1>3, <1>4, <2>1, <2>2 DEF Placed
  <2> QED BY <1>1, <2>3, PlacedIsNew
<1>7. CASE OfAccount(j, p)
  <2>1. PICK u \in mine[p] :
          \/ \E op \in {"profile", "delete", "withdraw"} : Visit(j, op, p, u, NoMail, NoName, 0)
          \/ \E n \in Names : Visit(j, "update", p, u, users[u].mail, n, 0)
          \/ \E m \in Mails : Visit(j, "update", p, u, m, users[u].name, 0)
    BY <1>7 DEF OfAccount
  <2>2. users[u] \in Row /\ u \in 0..MaxUsers
    BY <2>1, AccountsAssumption DEF Types, Ids
  <2>3. users[u].mail \in AllMails /\ users[u].name \in Names
    BY <2>2 DEF Row
  <2>4. ASSUME NEW op \in {"profile", "delete", "withdraw"},
               job' = [job EXCEPT ![j] = Request(op, p, u, 0, NoMail, NoName, 0)]
        PROVE  Placed(j, p)
    <3> op \in Ops
      BY DEF Ops
    <3> QED BY <1>4, <2>2, <2>4 DEF Placed
  <2>5. ASSUME NEW n \in Names,
               job' = [job EXCEPT ![j] = Request("update", p, u, 0, users[u].mail, n, 0)]
        PROVE  Placed(j, p)
    <3> "update" \in Ops
      BY DEF Ops
    <3> QED BY <2>2, <2>3, <2>5 DEF Placed
  <2>6. ASSUME NEW m \in Mails,
               job' = [job EXCEPT ![j] = Request("update", p, u, 0, m, users[u].name, 0)]
        PROVE  Placed(j, p)
    <3> "update" \in Ops
      BY DEF Ops
    <3> QED BY <1>4, <2>2, <2>3, <2>6 DEF Placed
  <2>7. Placed(j, p)
    BY <2>1, <2>4, <2>5, <2>6 DEF Visit, Arrives
  <2> QED BY <1>1, <2>7, PlacedIsNew
<1> QED BY <1>1, <1>2, <1>5, <1>6, <1>7

Changes(j) ==
    \/ job'[j] = job[j]
    \/ job[j].at \in {"idle", "answer"} /\ (job'[j] = Idle \/ IsNew(job'[j]))

\* Requests come and go, and everything else of the server stays.
Exchange ==
    /\ UNCHANGED <<userVars, codeVars, sessionVars, throttleVars, mailOf>>
    /\ job' \in [Jobs -> JobType]
    /\ \A j \in Jobs : Changes(j)

LEMMA ExchangeKeeps ==
    ASSUME Server, Exchange
    PROVE  Server' /\ Grows
<1>1. Still
  BY DEF Exchange, Still, userVars, codeVars, sessionVars, throttleVars
<1>2. Types' /\ Grows
  BY <1>1, StillTyped DEF Server, Exchange
<1>3. ASSUME NEW j \in Jobs PROVE WellFormed(job[j])'
  <2>1. PICK r \in JobType : r = job'[j]
    BY DEF Exchange
  <2>2. WellFormed(r)
    <3>1. CASE r = job[j]
      BY <3>1 DEF Server, Carried
    <3>2. CASE r = Idle
      BY <3>2, IdleFits DEF Server
    <3>3. CASE IsNew(r)
      BY <3>3 DEF IsNew
    <3> QED BY <2>1, <3>1, <3>2, <3>3 DEF Exchange, Changes
  <2>3. WellFormed(r)'
    BY <1>2, <2>2, Keeps DEF Server
  <2> QED BY <2>1, <2>3 DEF WellFormed
<1> QED BY <1>2, <1>3 DEF Server, Carried

LEMMA VisitExchanges ==
    ASSUME Server, NEW j \in Jobs, Requests(j),
           \A p \in People : \A u \in mine[p] : users[u] \in Row
    PROVE  Exchange
<1>1. PICK r \in JobType : IsNew(r) /\ job' = [job EXCEPT ![j] = r]
  BY RequestsAreNew DEF Server
<1>2. UNCHANGED <<userVars, codeVars, sessionVars, throttleVars, mailOf>>
  BY RequestsAreNew DEF Server
<1>3. job[j].at = "idle"
  BY DEF Requests, ByMail, SocialCallback, OfAccount, Visit, Arrives, At
<1>4. \A k \in Jobs : job'[k] = job[k] \/ (k = j /\ IsNew(job'[k]))
  BY <1>1 DEF Server, Types
<1>5. job' \in [Jobs -> JobType]
  BY <1>1 DEF Server, Types
<1>6. \A k \in Jobs : Changes(k)
  BY <1>3, <1>4 DEF Changes
<1> QED BY <1>2, <1>5, <1>6 DEF Exchange

-----------------------------------------------------------------------------
(* The cookies                                                             *)

LEMMA EmptyFits == Types => JarFits(Empty)
<1>1. Types => Len(owner) \in Nat
  BY LenProperties DEF Types
<1>2. Empty \in JarType
  BY AccountsAssumption DEF Empty, JarType
<1> QED BY <1>1, <1>2 DEF JarFits, Empty

LEMMA CookiesFit ==
    ASSUME Server, Browser, NEW c \in Jobs
    PROVE  JarFits(Cookies(c))
<1>1. CASE job[c].gives = "sets"
  <2>1. PICK s \in 1..Len(owner) : s = job[c].session
    BY <1>1 DEF Server, Carried, WellFormed
  <2>2. PICK u \in Ids : u = owner[s]
    BY ElementOfSeq DEF Server, Types
  <2>3. PICK left0 \in {SocialMaxAge, RefreshMaxAge} :
          left0 = (IF job[c].op = "social" THEN SocialMaxAge ELSE RefreshMaxAge)
    OBVIOUS
  <2>4. left0 \in Nat /\ left0 # 0 /\ AccessMaxAge # 0
    BY <2>3 DEF SocialMaxAge, RefreshMaxAge, AccessMaxAge
  <2>5. Len(owner) \in Nat /\ u \in 0..MaxUsers /\ u # 0 /\ s \in Nat /\ s # 0 /\ s <= Len(owner)
    BY LenProperties, AccountsAssumption DEF Server, Types, Ids
  <2>6. PICK r \in JarType : r = [access |-> u, refresh |-> s, accessLeft |-> AccessMaxAge,
                                 refreshLeft |-> left0]
    BY <2>4, <2>5 DEF JarType
  <2>7. JarFits(r)
    BY <2>2, <2>4, <2>5, <2>6 DEF JarFits
  <2> QED BY <1>1, <2>1, <2>2, <2>3, <2>6, <2>7 DEF Cookies
<1>2. CASE job[c].gives = "clears"
  BY <1>2, EmptyFits DEF Cookies, Server
<1>3. CASE job[c].gives = "clears access"
  <2>1. JarFits(jar)
    BY DEF Browser
  <2>2. PICK r0 \in JarType : r0 = jar
    BY DEF Browser, JarFits
  <2>3. [r0 EXCEPT !.access = 0] \in JarType
    BY AccountsAssumption DEF JarType
  <2>4. PICK r \in JarType : r = [[r0 EXCEPT !.access = 0] EXCEPT !.accessLeft = 0]
    BY <2>3 DEF JarType
  <2>5. r.access = 0 /\ r.accessLeft = 0 /\ r.refresh = r0.refresh /\ r.refreshLeft = r0.refreshLeft
    BY <2>4 DEF JarType
  <2>6. JarFits(r)
    BY <2>1, <2>2, <2>5 DEF JarFits
  <2>7. Cookies(c) = r
    BY <1>3, <2>2, <2>4 DEF Cookies
  <2> QED BY <2>6, <2>7
<1>4. CASE job[c].gives = "nothing"
  BY <1>4 DEF Cookies, Browser
<1>5. job[c].gives \in {"nothing", "sets", "clears", "clears access"}
  BY DEF Server, Types, JobType
<1> QED BY <1>1, <1>2, <1>3, <1>4, <1>5

LEMMA JarMoves ==
    ASSUME NEW r, JarFits(r), jar' = r, owner' = owner
    PROVE  JarFits(jar)'
BY DEF JarFits

-----------------------------------------------------------------------------
(* The steps of the page                                                   *)

TablesStay == UNCHANGED <<userVars, codeVars, sessionVars, throttleVars, mailOf>>

LEMMA OneExchange ==
    ASSUME Server, NEW c \in Jobs, NEW r, r = Idle \/ IsNew(r), job' = [job EXCEPT ![c] = r],
           job[c].at \in {"idle", "answer"}, TablesStay
    PROVE  Exchange
<1>1. r \in JobType
  BY IdleFits DEF Server, IsNew
<1>2. job' \in [Jobs -> JobType]
  BY <1>1 DEF Server, Types
<1>3. \A k \in Jobs : Changes(k)
  BY DEF Changes, Server, Types
<1> QED BY <1>2, <1>3 DEF Exchange, TablesStay

\* What the page asks with a jar that fits.
LEMMA AskedFits ==
    ASSUME Server, NEW c \in Jobs, NEW kind \in Kinds \union {"refresh"}, NEW r, JarFits(r)
    PROVE  IsNew(Asked(c, kind, r)) /\ Asked(c, kind, r).at # "idle"
<1>1. IsNew(Asked(c, kind, r))
  BY AskedIsNew DEF Server, JarFits
<1>2. PICK q : q = Asked(c, kind, r)
  OBVIOUS
<1>3. IsNew(q) => q.at # "idle"
  BY DEF IsNew
<1> QED BY <1>1, <1>2, <1>3

LEMMA CallKeeps ==
    ASSUME Server, Browser, NEW c \in Jobs, NEW kind \in Kinds, Call(c, kind)
    PROVE  Exchange /\ Browser'
<1>1. TablesStay /\ UNCHANGED <<jar, isRefreshing, refreshPromise, leaving, lateResets>>
  BY DEF Call, TablesStay, inputs
<1>2. PICK jr : jr = jar
  OBVIOUS
<1>3. JarFits(jr)
  BY <1>2 DEF Browser
<1>4. PICK r \in JobType : r = Asked(c, kind, jr) /\ IsNew(r) /\ r.at # "idle"
  BY <1>3, AskedFits DEF IsNew
<1>5. job' = [job EXCEPT ![c] = r]
  BY <1>2, <1>4 DEF Call, Asked
<1>6. Exchange
  BY <1>1, <1>4, <1>5, OneExchange DEF Call, At
<1>7. JarFits(jar)'
  BY <1>1, <1>2, <1>3, JarMoves DEF TablesStay, sessionVars
<1>8. Page'
  <2>1. PICK it \in CallType : it = [at |-> "first", kind |-> kind, on |-> 0]
    BY DEF CallType
  <2>2. call' = [call EXCEPT ![c] = it] /\ it.at = "first" /\ it.kind \in Kinds
    BY <2>1 DEF Call
  <2>3. shown' \in BOOLEAN
    BY DEF Call, Browser, Page
  <2>4. call' \in [Jobs -> CallType]
    BY <2>2 DEF Browser, Page
  <2>5. \A d \in Jobs : call'[d].at # "idle" => call'[d].kind \in Kinds
    BY <2>2 DEF Browser, Page
  <2>6. \A d \in Jobs : call'[d].at \in {"first", "renewing", "again"} => job'[d].at # "idle"
    BY <1>4, <1>5, <2>2 DEF Browser, Page, Server, Types
  <2>7. \A d \in Jobs : call'[d].at = "waiting" => job'[d].at = "idle"
    BY <1>5, <2>2 DEF Browser, Page, Server, Types
  <2>8. asked' \in Nat /\ asked' # 0
    BY DEF Call, Browser, Page
  <2> QED BY <1>1, <2>3, <2>4, <2>5, <2>6, <2>7, <2>8 DEF Browser, Page
<1> QED BY <1>6, <1>7, <1>8 DEF Browser

\* A call that is over.
LEMMA Ends ==
    ASSUME Server, Browser, NEW c \in Jobs, NEW r, JarFits(r), jar' = r,
           call' = [call EXCEPT ![c] = NoCall], job' = [job EXCEPT ![c] = Idle],
           job[c].at = "answer", TablesStay, UNCHANGED asked,
           shown' \in BOOLEAN, leaving' \in BOOLEAN, lateResets' \in Nat,
           \/ UNCHANGED <<isRefreshing, refreshPromise>>
           \/ isRefreshing' = FALSE /\ refreshPromise' = 0
    PROVE  Exchange /\ Browser'
<1>1. Exchange
  BY OneExchange
<1>2. JarFits(jar)'
  BY JarMoves DEF TablesStay, sessionVars
<1>3. NoCall \in CallType /\ NoCall.at = "idle"
  BY DEF NoCall, CallType
<1>4. call' \in [Jobs -> CallType]
  BY <1>3 DEF Browser, Page
<1>5. \A d \in Jobs : call'[d].at # "idle" => call'[d].kind \in Kinds
  BY <1>3 DEF Browser, Page
<1>6. \A d \in Jobs : call'[d].at \in {"first", "renewing", "again"} => job'[d].at # "idle"
  BY <1>3 DEF Browser, Page, Server, Types
<1>7. isRefreshing' \in BOOLEAN /\ refreshPromise' \in Jobs \union {0}
        /\ (isRefreshing' <=> refreshPromise' # 0)
  <2>1. CASE UNCHANGED <<isRefreshing, refreshPromise>>
    BY <2>1 DEF Browser, Page
  <2>2. CASE isRefreshing' = FALSE /\ refreshPromise' = 0
    BY <2>2
  <2> QED BY <2>1, <2>2
<1>8. \A d \in Jobs : call'[d].at = "waiting" => job'[d].at = "idle"
  BY <1>3 DEF Browser, Page, Server, Types
<1>9. asked' \in Nat /\ (asked' = 0 => \A d \in Jobs : call'[d].at = "idle")
  BY <1>3 DEF Browser, Page
<1> QED BY <1>1, <1>2, <1>4, <1>5, <1>6, <1>7, <1>8, <1>9 DEF Browser, Page

LEMMA RespondsAgainKeeps ==
    ASSUME Server, Browser, NEW c \in Jobs, RespondsAgain(c)
    PROVE  Exchange /\ Browser'
<1>1. PICK r : r = Cookies(c)
  OBVIOUS
<1>2. JarFits(r)
  BY <1>1, CookiesFit
<1>3. /\ jar' = r /\ call' = [call EXCEPT ![c] = NoCall] /\ job' = [job EXCEPT ![c] = Idle]
      /\ TablesStay /\ UNCHANGED asked /\ job[c].at = "answer"
  BY <1>1 DEF RespondsAgain, Returns, TablesStay, inputs, At
<1>4. shown' \in BOOLEAN /\ leaving' \in BOOLEAN
  BY DEF RespondsAgain, Returns, Browser, Page
<1>5. lateResets' \in Nat /\ isRefreshing' = FALSE /\ refreshPromise' = 0
  BY DEF RespondsAgain, ForgetRefresh, Browser, Page
<1> QED BY <1>2, <1>3, <1>4, <1>5, Ends

LEMMA LostKeeps ==
    ASSUME Server, Browser, NEW c \in Jobs, Lost(c)
    PROVE  Exchange /\ Browser'
<1>1. PICK r : r = jar
  OBVIOUS
<1>2. JarFits(r)
  BY <1>1 DEF Browser
<1>3. /\ jar' = r /\ call' = [call EXCEPT ![c] = NoCall] /\ job' = [job EXCEPT ![c] = Idle]
      /\ TablesStay /\ UNCHANGED asked /\ job[c].at = "answer"
  BY <1>1 DEF Lost, TablesStay, inputs, At
<1>4. shown' \in BOOLEAN /\ leaving' \in BOOLEAN
  BY DEF Lost, Browser, Page
<1>5. /\ lateResets' \in Nat
      /\ \/ UNCHANGED <<isRefreshing, refreshPromise>>
         \/ isRefreshing' = FALSE /\ refreshPromise' = 0
  <2>1. CASE call[c].at = "again"
    BY <2>1 DEF Lost, ForgetRefresh, Browser, Page
  <2>2. CASE call[c].at # "again"
    BY <2>2 DEF Lost, KeepRefresh, Browser, Page
  <2> QED BY <2>1, <2>2
<1> QED BY <1>2, <1>3, <1>4, <1>5, Ends

LEMMA CallMoves ==
    ASSUME NEW it \in CallType, NEW at \in {"first", "renewing", "waiting", "again"}
    PROVE  /\ [it EXCEPT !.at = at] \in CallType
           /\ [it EXCEPT !.at = at].kind = it.kind /\ [it EXCEPT !.at = at].at = at
<1>1. PICK points : points = {"idle", "first", "renewing", "waiting", "again"}
  OBVIOUS
<1>2. at \in points /\ CallType = [at : points, kind : Kinds \union {"none"}, on : Jobs \union {0}]
  BY <1>1 DEF CallType
<1> QED BY <1>2

LEMMA CallWaits ==
    ASSUME NEW it \in CallType, NEW on \in Jobs \union {0}
    PROVE  [it EXCEPT !.on = on] \in CallType
BY DEF CallType

\* A call that stays in flight with another state and another request.
LEMMA GoesOn ==
    ASSUME Server, Browser, NEW c \in Jobs, NEW r, JarFits(r), jar' = r,
           NEW it \in CallType, it.kind \in Kinds, call' = [call EXCEPT ![c] = it],
           NEW q, q = Idle \/ IsNew(q), job' = [job EXCEPT ![c] = q],
           it.at \in {"first", "renewing", "again"} => q.at # "idle",
           it.at # "idle", it.at = "waiting" => q.at = "idle",
           job[c].at = "answer", call[c].at # "idle",
           TablesStay, UNCHANGED <<shown, leaving, asked, lateResets>>,
           isRefreshing' \in BOOLEAN, refreshPromise' \in Jobs \union {0},
           isRefreshing' <=> refreshPromise' # 0
    PROVE  Exchange /\ Browser'
<1>1. Exchange
  BY OneExchange
<1>2. JarFits(jar)'
  BY JarMoves DEF TablesStay, sessionVars
<1>3. call' \in [Jobs -> CallType]
  BY DEF Browser, Page
<1>4. \A d \in Jobs : call'[d].at # "idle" => call'[d].kind \in Kinds
  BY DEF Browser, Page
<1>5. \A d \in Jobs : call'[d].at \in {"first", "renewing", "again"} => job'[d].at # "idle"
  BY DEF Browser, Page, Server, Types
<1>6. shown' \in BOOLEAN /\ leaving' \in BOOLEAN /\ lateResets' \in Nat
  BY DEF Browser, Page
<1>7. \A d \in Jobs : call'[d].at = "waiting" => job'[d].at = "idle"
  BY DEF Browser, Page, Server, Types
<1>8. asked' \in Nat /\ asked' # 0
  BY DEF Browser, Page
<1> QED BY <1>1, <1>2, <1>3, <1>4, <1>5, <1>6, <1>7, <1>8 DEF Browser, Page

LEMMA RespondsKeeps ==
    ASSUME Server, Browser, NEW c \in Jobs, Responds(c)
    PROVE  Exchange /\ Browser'
<1>1. PICK r : r = Cookies(c)
  OBVIOUS
<1>2. JarFits(r)
  BY <1>1, CookiesFit
<1>3. PICK it \in CallType : it = call[c] /\ it.at = "first" /\ it.kind \in Kinds
  BY DEF Responds, Browser, Page
<1>4. CASE Returns(c, r) /\ KeepRefresh
  <2>1. /\ jar' = r /\ call' = [call EXCEPT ![c] = NoCall] /\ job' = [job EXCEPT ![c] = Idle]
        /\ TablesStay /\ UNCHANGED asked /\ job[c].at = "answer"
    BY <1>4 DEF Responds, Returns, TablesStay, inputs, At
  <2>2. shown' \in BOOLEAN /\ leaving' \in BOOLEAN
    BY <1>4 DEF Returns, Browser, Page
  <2>3. lateResets' \in Nat /\ UNCHANGED <<isRefreshing, refreshPromise>>
    BY <1>4 DEF KeepRefresh, Browser, Page
  <2> QED BY <1>2, <2>1, <2>2, <2>3, Ends
<1>5. CASE ~(Returns(c, r) /\ KeepRefresh)
  <2>1. /\ jar' = r /\ TablesStay /\ UNCHANGED <<shown, leaving, asked, lateResets>>
        /\ job[c].at = "answer"
    BY <1>1, <1>5 DEF Responds, TablesStay, inputs, history, At
  <2>2. CASE /\ ~isRefreshing /\ isRefreshing' = TRUE /\ refreshPromise' = c
             /\ call' = [call EXCEPT ![c].at = "renewing"]
             /\ job' = [job EXCEPT ![c] = Asked(c, "refresh", r)]
    <3>1. PICK q : q = Asked(c, "refresh", r) /\ IsNew(q) /\ q.at # "idle"
      BY <1>2, AskedFits
    <3>2. PICK new \in CallType : new = [it EXCEPT !.at = "renewing"]
                                   /\ new.kind = it.kind /\ new.at = "renewing"
      BY CallMoves
    <3>3. call' = [call EXCEPT ![c] = new]
      BY <1>3, <2>2, <3>2 DEF Browser, Page
    <3>4. c # 0
      BY BrowserAssumption
    <3> QED BY <1>2, <1>3, <2>1, <2>2, <3>1, <3>2, <3>3, <3>4, GoesOn
  <2>3. CASE /\ isRefreshing /\ UNCHANGED <<isRefreshing, refreshPromise>>
             /\ call' = [call EXCEPT ![c].at = "waiting", ![c].on = refreshPromise]
             /\ job' = [job EXCEPT ![c] = Idle]
    <3>1. PICK p \in Jobs \union {0} : p = refreshPromise
      BY DEF Browser, Page
    <3>2. [it EXCEPT !.at = "waiting"] \in CallType
      BY CallMoves
    <3>3. PICK new \in CallType : new = [[it EXCEPT !.at = "waiting"] EXCEPT !.on = p]
      BY <3>1, <3>2, CallWaits
    <3>4. new.kind = it.kind /\ new.at = "waiting"
      BY <3>3 DEF CallType
    <3>5. call' = [call EXCEPT ![c] = new]
      BY <1>3, <2>3, <3>1, <3>3 DEF Browser, Page
    <3>6. /\ isRefreshing' \in BOOLEAN /\ refreshPromise' \in Jobs \union {0}
          /\ (isRefreshing' <=> refreshPromise' # 0)
      BY <2>3 DEF Browser, Page
    <3>7. PICK q : q = Idle /\ q.at = "idle"
      <4> Idle.at = "idle"
        BY DEF Idle
      <4> QED OBVIOUS
    <3> QED BY <1>2, <1>3, <2>1, <2>3, <3>4, <3>5, <3>6, <3>7, GoesOn
  <2>4. CASE /\ isRefreshing /\ UNCHANGED <<isRefreshing, refreshPromise>>
             /\ call' = [call EXCEPT ![c].at = "again"]
             /\ job' = [job EXCEPT ![c] = Asked(c, call[c].kind, r)]
    <3>1. PICK q : q = Asked(c, it.kind, r) /\ IsNew(q) /\ q.at # "idle"
      BY <1>2, <1>3, AskedFits
    <3>2. PICK new \in CallType : new = [it EXCEPT !.at = "again"]
                                   /\ new.kind = it.kind /\ new.at = "again"
      BY CallMoves
    <3>3. call' = [call EXCEPT ![c] = new]
      BY <1>3, <2>4, <3>2 DEF Browser, Page
    <3>4. /\ isRefreshing' \in BOOLEAN /\ refreshPromise' \in Jobs \union {0}
          /\ (isRefreshing' <=> refreshPromise' # 0)
      BY <2>4 DEF Browser, Page
    <3>5. job' = [job EXCEPT ![c] = q]
      BY <1>3, <2>4, <3>1
    <3> QED BY <1>2, <1>3, <2>1, <3>1, <3>2, <3>3, <3>4, <3>5, GoesOn
  <2> QED BY <1>1, <1>5, <2>2, <2>3, <2>4 DEF Responds
<1> QED BY <1>4, <1>5

LEMMA RenewedKeeps ==
    ASSUME Server, Browser, NEW c \in Jobs, Renewed(c)
    PROVE  Exchange /\ Browser'
<1>1. PICK r : r = Cookies(c)
  OBVIOUS
<1>2. JarFits(r)
  BY <1>1, CookiesFit
<1>3. /\ jar' = r /\ TablesStay
      /\ UNCHANGED <<isRefreshing, refreshPromise, shown, leaving, asked, lateResets>>
  BY <1>1 DEF Renewed, TablesStay, inputs, history
<1>4. JarFits(jar)'
  BY <1>2, <1>3, JarMoves DEF TablesStay, sessionVars
<1>5. \A d \in Woken(c) : /\ d \in Jobs /\ call[d].kind \in Kinds /\ call[d].at # "idle"
                         /\ job[d].at \in {"idle", "answer"}
  BY DEF Woken, WaitingFor, Renewed, Renewing, Browser, Page, At
<1>6. \A d \in Jobs : call'[d] = IF d \in Woken(c) THEN [call[d] EXCEPT !.at = "again", !.on = 0]
                                 ELSE call[d]
  BY DEF Renewed
<1>7. \A d \in Jobs : job'[d] = IF d \in Woken(c) THEN Asked(d, call[d].kind, r) ELSE job[d]
  BY <1>1 DEF Renewed
<1>8. ASSUME NEW d \in Woken(c)
      PROVE  /\ IsNew(job'[d]) /\ job'[d] \in JobType /\ job'[d].at # "idle"
             /\ call'[d] \in CallType /\ call'[d].kind \in Kinds /\ call'[d].at = "again"
  <2>1. PICK it \in CallType : it = call[d] /\ it.kind \in Kinds
    BY <1>5 DEF Browser, Page
  <2>2. PICK q : q = Asked(d, it.kind, r) /\ IsNew(q) /\ q.at # "idle"
    BY <1>2, <1>5, <2>1, AskedFits
  <2>3. job'[d] = q
    BY <1>5, <1>7, <2>1, <2>2
  <2>4. [it EXCEPT !.at = "again"] \in CallType
    BY CallMoves
  <2>5. PICK new \in CallType : new = [[it EXCEPT !.at = "again"] EXCEPT !.on = 0]
    BY <2>4, CallWaits
  <2>6. new.kind = it.kind /\ new.at = "again"
    BY <2>5 DEF CallType
  <2>7. call'[d] = new
    BY <1>5, <1>6, <2>1, <2>5
  <2> QED BY <2>1, <2>2, <2>3, <2>6, <2>7 DEF IsNew
<1>9. job' \in [Jobs -> JobType]
  <2>1. \A d \in Jobs : job'[d] \in JobType
    BY <1>7, <1>8 DEF Server, Types
  <2> QED BY <2>1 DEF Renewed
<1>10. Exchange
  <2>1. \A d \in Jobs : Changes(d)
    BY <1>5, <1>7, <1>8 DEF Changes
  <2> QED BY <1>3, <1>9, <2>1 DEF Exchange, TablesStay
<1>11. call' \in [Jobs -> CallType]
  <2>1. \A d \in Jobs : call'[d] \in CallType
    <3>1. \A d \in Jobs : d \notin Woken(c) => call'[d] \in CallType
      BY <1>6 DEF Browser, Page
    <3> QED BY <1>8, <3>1
  <2> QED BY <2>1 DEF Renewed
<1>12. \A d \in Jobs : call'[d].at # "idle" => call'[d].kind \in Kinds
  BY <1>6, <1>8 DEF Browser, Page
<1>13. \A d \in Jobs : call'[d].at \in {"first", "renewing", "again"} => job'[d].at # "idle"
  BY <1>6, <1>7, <1>8 DEF Browser, Page
<1>14. \A d \in Jobs : call'[d].at = "waiting" => job'[d].at = "idle"
  BY <1>6, <1>7, <1>8 DEF Browser, Page
<1>15. asked' \in Nat /\ (asked' = 0 => \A d \in Jobs : call'[d].at = "idle")
  BY <1>3, <1>5, <1>6 DEF Browser, Page
<1> QED BY <1>3, <1>4, <1>10, <1>11, <1>12, <1>13, <1>14, <1>15 DEF Browser, Page

LEMMA RenewFailsKeeps ==
    ASSUME Server, Browser, NEW c \in Jobs, RenewFails(c)
    PROVE  Exchange /\ Browser'
<1>1. PICK r : r = jar' /\ r \in {Cookies(c), jar}
  BY DEF RenewFails
<1>2. JarFits(r)
  BY <1>1, CookiesFit DEF Browser
<1>3. TablesStay /\ UNCHANGED <<leaving, asked>> /\ shown' \in BOOLEAN
  BY DEF RenewFails, TablesStay, inputs, ClearUserWithOutSignout, Clears
<1>4. JarFits(jar)'
  BY <1>1, <1>2, <1>3, JarMoves DEF TablesStay, sessionVars
<1>5. \A d \in Jobs : call'[d] = (IF d \in Woken(c) THEN NoCall ELSE call[d])
                    /\ job'[d] = (IF d \in Woken(c) THEN Idle ELSE job[d])
  BY DEF RenewFails
<1>6. NoCall \in CallType /\ NoCall.at = "idle" /\ Idle \in JobType
  BY IdleFits DEF NoCall, CallType, Server
<1>7. job' \in [Jobs -> JobType] /\ call' \in [Jobs -> CallType]
  <2>1. \A d \in Jobs : job'[d] \in JobType /\ call'[d] \in CallType
    BY <1>5, <1>6 DEF Server, Types, Browser, Page
  <2> QED BY <2>1 DEF RenewFails
<1>8. Exchange
  <2>1. \A d \in Woken(c) \cap Jobs : job[d].at \in {"idle", "answer"}
    BY DEF Woken, WaitingFor, RenewFails, Browser, Page, At
  <2>2. \A d \in Jobs : Changes(d)
    BY <1>5, <2>1 DEF Changes
  <2> QED BY <1>3, <1>7, <2>2 DEF Exchange, TablesStay
<1>9. \A d \in Jobs : call'[d].at # "idle" => call'[d].kind \in Kinds
  BY <1>5, <1>6 DEF Browser, Page
<1>10. \A d \in Jobs : call'[d].at \in {"first", "renewing", "again"} => job'[d].at # "idle"
  BY <1>5, <1>6 DEF Browser, Page
<1>11. lateResets' \in Nat /\ isRefreshing' = FALSE /\ refreshPromise' = 0
  BY DEF RenewFails, ForgetRefresh, Browser, Page
<1>12. \A d \in Jobs : call'[d].at = "waiting" => job'[d].at = "idle"
  BY <1>5, <1>6 DEF Browser, Page
<1>13. asked' \in Nat /\ (asked' = 0 => \A d \in Jobs : call'[d].at = "idle")
  BY <1>3, <1>5, <1>6 DEF Browser, Page
<1> QED BY <1>3, <1>4, <1>7, <1>8, <1>9, <1>10, <1>11, <1>12, <1>13 DEF Browser, Page

-----------------------------------------------------------------------------
(* Accounts and people                                                     *)

\* The rows stay the same ones, and nobody is signed in to another.
LEMMA RegistryStays ==
    ASSUME Types, Types', Grows, Registry, UNCHANGED mine,
           \A u \in Ids : users'[u] \in Row => users[u] \in Row,
           \A u \in Ids : users'[u].is => users[u].is /\ users'[u].mail = users[u].mail
    PROVE  Registry'
<1>1. Made'
  <2>1. PICK k \in 0..MaxUsers : \A u \in Ids : users[u] \in Row <=> u <= k
    BY DEF Registry, Made
  <2>2. \A u \in Ids : users'[u] \in Row <=> u <= k
    BY <2>1 DEF Grows
  <2> QED BY <2>2 DEF Made
<1>2. Theirs'
  BY DEF Registry, Theirs, Grows, Types
<1>3. Index'
  BY DEF Registry, Index
<1> QED BY <1>1, <1>2, <1>3 DEF Registry

\* What an account is written with is taken by nobody else.
LEMMA MayWriteIs ==
    ASSUME NEW u, NEW m, NEW n
    PROVE  MayWrite(u, m, n) => \A v \in Ids : users[v].is /\ users[v].mail = m => v = u
BY DEF MayWrite, IndexHolds, WithMail

LEMMA SaveUserRegisters ==
    ASSUME Server, Registry, NEW j \in Jobs, SaveUser(j), Types', Grows
    PROVE  Registry'
<1>1. CASE UNCHANGED <<users, mine>>
  BY <1>1, RegistryStays DEF Server
<1>2. CASE ~UNCHANGED <<users, mine>>
  <2>1. PICK q \in JobType : q = job[j] /\ q.at = "save" /\ WellFormed(q) /\ q.by \in People
    BY DEF Server, Types, Carried, SaveUser, At, WellFormed
  <2>2. NextId \in Ids /\ MayWrite(0, q.mail, q.name)
    BY <1>2, <2>1 DEF SaveUser
  <2>3. PICK u \in Ids, k \in 0..MaxUsers :
          u = NextId /\ u = k + 1 /\ \A v \in Ids : users[v] \in Row <=> v <= k
    BY <2>2, TheNextId DEF Server, Registry
  <2>4. PICK b \in BOOLEAN : b = (q.op = "signup")
    OBVIOUS
  <2>5. q.mail \in AllMails /\ q.name \in Names /\ q.mail = mailOf[q.by]
    BY <2>1 DEF WellFormed, JobType, Route
  <2>6. PICK row \in Row : row = [mail |-> q.mail, name |-> q.name, pass |-> b, is |-> TRUE]
    BY <2>5 DEF Row
  <2>7. users' = [users EXCEPT ![u] = row] /\ mine' = [mine EXCEPT ![q.by] = @ \union {u}]
    BY <1>2, <2>1, <2>3, <2>4, <2>6 DEF SaveUser
  <2>8. row.mail = q.mail /\ users'[u] = row /\ \A v \in Ids : v # u => users'[v] = users[v]
    BY <2>6, <2>7 DEF Server, Types
  <2>9. UNCHANGED <<moved, mailOf>>
    BY DEF SaveUser, inputs
  <2>10. Made'
    <3>1. k + 1 \in 0..MaxUsers
      BY <2>3, AccountsAssumption DEF Ids
    <3>2. \A v \in Ids : users'[v] \in Row <=> v <= k + 1
      BY <2>3, <2>8 DEF Ids
    <3> QED BY <3>1, <3>2 DEF Made
  <2>11. Theirs'
    <3> SUFFICES ASSUME NEW p \in People, NEW v \in mine'[p]
                 PROVE  users'[v] \in Row /\ (v \in moved' \/ users'[v].mail = mailOf'[p])
      BY DEF Theirs
    <3>1. v \in Ids
      BY DEF Types
    <3>2. CASE v \in mine[p]
      BY <2>9, <3>1, <3>2 DEF Registry, Theirs, Grows
    <3>3. CASE v \notin mine[p]
      <4>1. p = q.by /\ v = u
        BY <2>7, <3>3 DEF Server, Types
      <4> QED BY <2>5, <2>8, <2>9, <4>1
    <3> QED BY <3>2, <3>3
  <2>12. Index'
    <3>1. \A v \in Ids : ~(users[v].is /\ users[v].mail = q.mail)
      BY <2>2, MayWriteIs, AccountsAssumption DEF Ids
    <3> QED BY <2>8, <3>1 DEF Registry, Index
  <2> QED BY <2>10, <2>11, <2>12 DEF Registry
<1> QED BY <1>1, <1>2

LEMMA UpdateRegisters ==
    ASSUME Server, Registry, NEW j \in Jobs, Update(j), Types', Grows
    PROVE  Registry'
<1>1. UNCHANGED mine
  BY DEF Update
<1>2. CASE UNCHANGED users
  BY <1>1, <1>2, RegistryStays DEF Server
<1>3. CASE ~UNCHANGED users
  <2>1. /\ job[j].user \in Ids /\ users[job[j].user] \in Row
        /\ job[j].mail \in AllMails /\ job[j].name \in Names
    BY DEF Server, Types, JobType, Carried, WellFormed, OfAnAccount, Update, At, Route
  <2>2. PICK u \in Ids, m \in AllMails, n \in Names :
          u = job[j].user /\ m = job[j].mail /\ n = job[j].name
    BY <2>1
  <2>3. MayWrite(u, m, n) /\ users' = [users EXCEPT ![u].mail = m, ![u].name = n]
    BY <1>3, <2>2 DEF Update
  <2>4. PICK row \in Row : row = users[u]
    BY <2>1, <2>2
  <2>5. PICK new \in Row : new = [row EXCEPT !.mail = m, !.name = n]
    BY DEF Row
  <2>6. new.mail = m /\ new.is = row.is
    BY <2>5 DEF Row
  <2>7. users'[u] = new /\ \A v \in Ids : v # u => users'[v] = users[v]
    BY <2>3, <2>4, <2>5 DEF Server, Types
  <2>8. Made'
    <3>1. PICK k \in 0..MaxUsers : \A v \in Ids : users[v] \in Row <=> v <= k
      BY DEF Registry, Made
    <3>2. \A v \in Ids : users'[v] \in Row <=> v <= k
      BY <2>4, <2>7, <3>1
    <3> QED BY <3>2 DEF Made
  <2>9. Theirs'
    BY <1>1 DEF Registry, Theirs, Grows, Types, Server
  <2>10. Index'
    <3>1. \A v \in Ids : users[v].is /\ users[v].mail = m => v = u
      BY <2>3, MayWriteIs
    <3> QED BY <2>6, <2>7, <3>1 DEF Registry, Index
  <2> QED BY <2>8, <2>9, <2>10 DEF Registry
<1> QED BY <1>2, <1>3

LEMMA RowWrittenRegisters ==
    ASSUME Server, Registry, NEW j \in Jobs, SetPassword(j) \/ Remove(j), Types', Grows
    PROVE  Registry'
<1>1. UNCHANGED mine
  BY DEF SetPassword, Remove
<1>2. job[j].user \in Ids /\ users[job[j].user] \in Row
  BY DEF Server, Carried, WellFormed, OfAnAccount, SetPassword, Remove, At
<1>3. PICK u \in Ids, row \in Row : u = job[j].user /\ row = users[u]
  BY <1>2
<1>4. PICK new \in Row : /\ \A v \in Ids : v # u => users'[v] = users[v]
                         /\ users'[u] = new /\ new.mail = row.mail /\ (new.is => row.is)
  <2>1. [row EXCEPT !.is = FALSE] \in Row /\ [row EXCEPT !.pass = TRUE] \in Row
    BY DEF Row
  <2>2. CASE Remove(j)
    BY <1>3, <2>1, <2>2 DEF Remove, Row, Server, Types
  <2>3. CASE SetPassword(j) /\ users' = users
    BY <1>3, <2>3
  <2>4. CASE SetPassword(j) /\ users' # users
    <3>1. users' = [users EXCEPT ![u] = [row EXCEPT !.pass = TRUE]]
      BY <1>3, <2>4 DEF SetPassword, Server, Types
    <3> QED BY <2>1, <3>1 DEF Row, Server, Types
  <2> QED BY <2>2, <2>3, <2>4
<1>5. \A v \in Ids : users'[v] \in Row => users[v] \in Row
  BY <1>3, <1>4
<1>6. \A v \in Ids : users'[v].is => users[v].is /\ users'[v].mail = users[v].mail
  BY <1>3, <1>4
<1> QED BY <1>1, <1>5, <1>6, RegistryStays DEF Server

LEMMA StoreSessionRegisters ==
    ASSUME Server, Registry, NEW j \in Jobs, StoreSession(j), Types', Grows
    PROVE  Registry'
<1>1. PICK q \in JobType : q = job[j] /\ WellFormed(q) /\ q.at = "session"
  BY DEF Server, Types, Carried, StoreSession, At
<1>2. /\ q.op \in {"signin", "social", "refresh"} /\ q.user \in Ids /\ users[q.user] \in Row
      /\ q.by \in People
  BY <1>1 DEF WellFormed, Route, OfAnAccount
<1>3. q.op # "refresh" => q.user \in moved \/ users[q.user].mail = mailOf[q.by]
  BY <1>1, <1>2 DEF WellFormed
<1>4. UNCHANGED <<users, moved, mailOf>>
  BY DEF StoreSession, inputs
<1>5. mine' = IF q.op = "refresh" THEN mine ELSE [mine EXCEPT ![q.by] = @ \union {q.user}]
  BY <1>1 DEF StoreSession
<1>6. Theirs'
  <2> SUFFICES ASSUME NEW p \in People, NEW v \in mine'[p]
               PROVE  users'[v] \in Row /\ (v \in moved' \/ users'[v].mail = mailOf'[p])
    BY DEF Theirs
  <2>1. CASE v \in mine[p]
    BY <1>4, <2>1 DEF Registry, Theirs
  <2>2. CASE v \notin mine[p]
    <3>1. q.op # "refresh" /\ p = q.by /\ v = q.user
      BY <1>5, <2>2 DEF Server, Types
    <3> QED BY <1>2, <1>3, <1>4, <3>1
  <2> QED BY <2>1, <2>2
<1> QED BY <1>4, <1>6 DEF Registry, Made, Index

LEMMA HandlesRegisters ==
    ASSUME Server, Registry, NEW j \in Jobs, Handles(j), Types', Grows
    PROVE  Registry'
<1>1. CASE UNCHANGED userVars
  BY <1>1, RegistryStays DEF userVars, Server
<1>2. CASE SaveUser(j) \/ Update(j) \/ SetPassword(j) \/ Remove(j) \/ StoreSession(j)
  BY <1>2, SaveUserRegisters, UpdateRegisters, RowWrittenRegisters, StoreSessionRegisters
<1>3. UNCHANGED userVars \/ SaveUser(j) \/ Update(j) \/ SetPassword(j) \/ Remove(j) \/ StoreSession(j)
  BY DEF Handles, ReadCount, SetCount, Validate, Find, SaveCode, SendMail, CheckCode, Taken,
         ForgetCode, ReadBlacklist, Revoke, DropSession, Fails
<1> QED BY <1>1, <1>2, <1>3

-----------------------------------------------------------------------------
(* The invariant                                                           *)

SInv == Server /\ Browser /\ Registry

LEMMA JarKeeps ==
    ASSUME Types, Types', Grows, JarFits(jar), UNCHANGED jar
    PROVE  JarFits(jar)'
<1>1. PICK r \in JarType : r = jar
  BY DEF JarFits
<1>2. Len(owner) \in Nat /\ Len(owner') \in Nat /\ r.refresh \in Nat
  BY LenProperties DEF Types, JarType
<1>3. r.refresh # 0 => owner'[r.refresh] = owner[r.refresh]
  BY <1>1, <1>2 DEF JarFits, Grows
<1> QED BY <1>1, <1>2, <1>3 DEF JarFits, Grows

\* A handler moves its own request, and does not drop it. Where to is told apart
\* for the two steps between which something is remembered.
Others(j) == \A d \in Jobs : d # j => job'[d] = job[d]
Alone(j) == Others(j) /\ job'[j].at \notin {"idle", "count", "mail"}
Counts(j) == /\ Others(j) /\ job'[j].at = "count"
             /\ job'[j].op = job[j].op /\ job'[j].seen = count[job[j].op]
Mailing(j) == /\ Others(j) /\ job'[j].at = "mail"
              /\ job'[j].mail = job[j].mail /\ job'[j].code = lastCode + 1

LEMMA GotoAlone ==
    ASSUME Types, NEW j \in Jobs, NEW step, step \notin {"idle", "count", "mail"}, Goto(j, step)
    PROVE  Alone(j)
<1>1. PICK q \in JobType : q = job[j]
  BY DEF Types
<1>2. [q EXCEPT !.at = step].at = step
  BY DEF JobType
<1> QED BY <1>1, <1>2 DEF Goto, Alone, Others, Types

LEMMA AnswerAlone ==
    ASSUME Types, NEW j \in Jobs, NEW status, NEW gives, Answer(j, status, gives)
    PROVE  Alone(j)
<1>1. PICK q \in JobType : q = job[j]
  BY DEF Types
<1>2. [q EXCEPT !.at = "answer", !.status = status, !.gives = gives].at = "answer"
  BY DEF JobType
<1> QED BY <1>1, <1>2 DEF Answer, Alone, Others, Types

LEMMA RefusedAlone ==
    ASSUME Types, NEW j \in Jobs, Refused(j)
    PROVE  Alone(j)
BY AnswerAlone DEF Refused

LEMMA CarriedOnAlone ==
    ASSUME Types, NEW j \in Jobs, NEW v, NEW step \in {"session", "check", "blacklist", "forget"},
           \/ job' = [job EXCEPT ![j].user = v, ![j].at = step]
           \/ job' = [job EXCEPT ![j].at = step, ![j].mail = v]
    PROVE  Alone(j)
<1>1. PICK q \in JobType : q = job[j]
  BY DEF Types
<1>2. /\ [q EXCEPT !.user = v, !.at = step].at = step
      /\ [q EXCEPT !.at = step, !.mail = v].at = step
  BY DEF JobType
<1> QED BY <1>1, <1>2 DEF Alone, Others, Types

LEMMA FindAlone ==
    ASSUME Server, NEW j \in Jobs, Find(j)
    PROVE  Alone(j)
<1>1. Types /\ Route(job[j].op, "find")
  BY DEF Server, Carried, WellFormed, Find, At
<1>2. FindTaken(j) => Alone(j)
  BY <1>1, GotoAlone, RefusedAlone DEF FindTaken
<1>3. FindByMail(j) => Alone(j)
  BY <1>1, AnswerAlone, CarriedOnAlone DEF FindByMail
<1>4. FindForReset(j) => Alone(j)
  BY <1>1, RefusedAlone, CarriedOnAlone DEF FindForReset
<1>5. FindForSocial(j) => Alone(j)
  BY <1>1, GotoAlone, CarriedOnAlone DEF FindForSocial
<1>6. ASSUME FindForRefresh(j) PROVE Alone(j)
  <2>1. PICK u : u = owner[job[j].session]
    OBVIOUS
  <2> QED BY <1>1, <1>6, <2>1, AnswerAlone, RefusedAlone, CarriedOnAlone DEF FindForRefresh
<1>7. FindOwn(j) => Alone(j)
  BY <1>1, GotoAlone, AnswerAlone, RefusedAlone DEF FindOwn
<1> QED BY <1>2, <1>3, <1>4, <1>5, <1>6, <1>7 DEF Find

LEMMA HandlesAlone ==
    ASSUME Server, NEW j \in Jobs, Handles(j)
    PROVE  Alone(j) \/ (ReadCount(j) /\ Counts(j)) \/ (SaveCode(j) /\ Mailing(j))
<1>1. Types /\ WellFormed(job[j])
  BY DEF Server, Carried
<1>2. ASSUME ReadCount(j) PROVE Alone(j) \/ Counts(j)
  <2>1. PICK q \in JobType : q = job[j]
    BY <1>1 DEF Types
  <2>2. PICK n : n = count[q.op]
    OBVIOUS
  <2>3. PICK r : r = [q EXCEPT !.seen = n, !.at = "count"]
    OBVIOUS
  <2>4. r.at = "count" /\ r.seen = n /\ r.op = q.op
    BY <2>3 DEF JobType
  <2>5. Refused(j) \/ job' = [job EXCEPT ![j] = r]
    BY <1>1, <1>2, <2>1, <2>2, <2>3 DEF ReadCount, Types
  <2> QED BY <1>1, <2>1, <2>2, <2>4, <2>5, RefusedAlone DEF Counts, Others, Types
<1>3. ASSUME SetCount(j) \/ Validate(j) PROVE Alone(j)
  <2>1. PICK op : op = job[j].op
    OBVIOUS
  <2>2. SetCount(j) => op \in Throttled /\ Throttled \subseteq Ops
    BY <1>1, <2>1 DEF SetCount, At, WellFormed, Route, Throttled
  <2>3. Validate(j) => op \in Guarded /\ Guarded \subseteq Ops
    BY <1>1, <2>1 DEF Validate, At, WellFormed, Route, Guarded, Ops
  <2>4. SetCount(j) => AfterThrottle(op) \notin {"idle", "count", "mail"}
    BY <2>2, BodyFits
  <2>5. Validate(j) => Body(op) \notin {"idle", "count", "mail"}
    BY <2>3, BodyFits
  <2>6. PICK a, b : a = AfterThrottle(op) /\ b = Body(op)
    OBVIOUS
  <2>7. SetCount(j) => Alone(j)
    BY <1>1, <2>1, <2>4, <2>6, GotoAlone DEF SetCount
  <2>8. Validate(j) => Alone(j)
    BY <1>1, <2>1, <2>5, <2>6, GotoAlone, AnswerAlone DEF Validate
  <2> QED BY <1>3, <2>7, <2>8
<1>4. ASSUME SaveCode(j) PROVE Mailing(j)
  <2>1. PICK q \in JobType : q = job[j]
    BY <1>1 DEF Types
  <2>2. PICK n : n = lastCode + 1
    OBVIOUS
  <2>3. PICK r : r = [q EXCEPT !.at = "mail", !.code = n]
    OBVIOUS
  <2>4. r.at = "mail" /\ r.code = n /\ r.mail = q.mail
    BY <2>3 DEF JobType
  <2>5. job' = [job EXCEPT ![j] = r]
    BY <1>1, <1>4, <2>1, <2>2, <2>3 DEF SaveCode, Types
  <2> QED BY <1>1, <2>1, <2>2, <2>4, <2>5 DEF Mailing, Others, Types
<1>5. CheckCode(j) => Alone(j)
  BY <1>1, GotoAlone, AnswerAlone, RefusedAlone DEF CheckCode, At, WellFormed, Route
<1>6. ASSUME SaveUser(j) PROVE Alone(j)
  <2>1. PICK u : u = NextId
    OBVIOUS
  <2> QED BY <1>1, <1>6, <2>1, AnswerAlone, RefusedAlone, CarriedOnAlone DEF SaveUser
<1>7. ASSUME Remove(j) PROVE Alone(j)
  <2>1. PICK m : m = users[job[j].user].mail
    OBVIOUS
  <2>2. job[j].op \in {"withdraw", "delete"}
    BY <1>1, <1>7 DEF Remove, At, WellFormed, Route
  <2> QED BY <1>1, <1>7, <2>1, <2>2, AnswerAlone, RefusedAlone, CarriedOnAlone DEF Remove
<1>8. ASSUME StoreSession(j) PROVE Alone(j)
  <2>1. PICK q \in JobType : q = job[j]
    BY <1>1 DEF Types
  <2>2. PICK s : s = Len(owner) + 1
    OBVIOUS
  <2>3. [q EXCEPT !.at = "answer", !.status = "ok", !.gives = "sets", !.session = s].at = "answer"
    BY DEF JobType
  <2> QED BY <1>1, <1>8, <2>1, <2>2, <2>3 DEF StoreSession, Alone, Others, Types
<1>9. Fails(j) => Alone(j)
  BY <1>1, AnswerAlone, RefusedAlone DEF Fails
<1>10. SendMail(j) \/ SetPassword(j) \/ Taken(j) \/ Update(j) \/ ForgetCode(j) => Alone(j)
  BY <1>1, GotoAlone, AnswerAlone, RefusedAlone
     DEF SendMail, SetPassword, Taken, Update, ForgetCode
<1>11. ReadBlacklist(j) \/ Revoke(j) \/ DropSession(j) => Alone(j)
  BY <1>1, GotoAlone, AnswerAlone, RefusedAlone DEF ReadBlacklist, Revoke, DropSession
<1> QED BY <1>2, <1>3, <1>4, <1>5, <1>6, <1>7, <1>8, <1>9, <1>10, <1>11, FindAlone DEF Handles

LEMMA HandlesAwake ==
    ASSUME NEW j \in Jobs, Handles(j)
    PROVE  job[j].at # "idle"
BY DEF Handles, ReadCount, SetCount, Validate, Find, SaveCode, SendMail, CheckCode, SaveUser,
       SetPassword, Taken, Update, Remove, ForgetCode, ReadBlacklist, StoreSession, Revoke,
       DropSession, Fails, At

LEMMA HandlesPage ==
    ASSUME Server, Browser, Server', Grows, NEW j \in Jobs, Handles(j),
           UNCHANGED <<browserVars, history>>
    PROVE  Browser'
<1>1. UNCHANGED <<jar, call, isRefreshing, refreshPromise, shown, leaving, asked, lateResets>>
  BY DEF browserVars, history
<1>2. JarFits(jar)'
  BY <1>1, JarKeeps DEF Server, Browser
<1>3. \A d \in Jobs : job[d].at # "idle" => job'[d].at # "idle"
  BY HandlesAlone DEF Alone, Counts, Mailing, Others
<1>4. \A d \in Jobs : job[d].at = "idle" => job'[d] = job[d]
  <2>1. job[j].at # "idle"
    BY HandlesAwake
  <2> QED BY <2>1, HandlesAlone DEF Alone, Counts, Mailing, Others
<1>5. Page'
  BY <1>1, <1>3, <1>4 DEF Browser, Page
<1> QED BY <1>2, <1>5 DEF Browser

LEMMA UnloadKeeps ==
    ASSUME Server, Browser, Unload
    PROVE  Exchange /\ Browser'
<1>1. TablesStay /\ UNCHANGED <<job, jar, asked, lateResets>>
  BY DEF Unload, TablesStay, avars, inputs, history
<1>2. Exchange
  BY <1>1 DEF Exchange, Changes, TablesStay, Server, Types
<1>3. JarFits(jar)'
  BY <1>1 DEF Browser, JarFits, TablesStay, sessionVars
<1>4. NoCall \in CallType /\ NoCall.at = "idle"
  BY DEF NoCall, CallType
<1>5. call' \in [Jobs -> CallType] /\ \A c \in Jobs : call'[c].at = "idle"
  BY <1>4 DEF Unload
<1>6. shown' = FALSE /\ leaving' = FALSE /\ isRefreshing' = FALSE /\ refreshPromise' = 0
  BY DEF Unload
<1> QED BY <1>1, <1>2, <1>3, <1>5, <1>6 DEF Browser, Page

LEMMA PauseKeeps ==
    ASSUME Server, Browser, Pause
    PROVE  Exchange /\ Browser'
<1>1. TablesStay /\ UNCHANGED <<job, call, isRefreshing, refreshPromise, shown, leaving, asked, lateResets>>
  BY DEF Pause, TablesStay, avars, inputs
<1>2. Exchange
  BY <1>1 DEF Exchange, Changes, TablesStay, Server, Types
<1>3. PICK r \in JarType : r = jar
  BY DEF Browser, JarFits
<1>4. /\ r.access \in 0..MaxUsers /\ r.refresh \in Nat /\ r.accessLeft \in {0, 600000}
      /\ r.refreshLeft \in Nat
  BY DEF JarType, AccessMaxAge
<1>5. TenMinutes = 600000
  BY DEF TenMinutes
<1>6. Remaining(r.accessLeft, r.access) = 0 /\ Less(r.accessLeft) = 0
  BY <1>4, <1>5 DEF Remaining, Less
<1>7. PICK k \in Nat, t \in Nat : /\ k = Remaining(r.refreshLeft, r.refresh) /\ t = Less(r.refreshLeft)
                                /\ k \in {0, r.refresh} /\ (k = 0 <=> t = 0)
  <2>1. r.refresh = 0 <=> r.refreshLeft = 0
    BY <1>3 DEF Browser, JarFits
  <2> QED BY <1>4, <1>5, <2>1 DEF Remaining, Less
<1>8. PICK new \in JarType : new = [access |-> 0, refresh |-> k, accessLeft |-> 0, refreshLeft |-> t]
  <2>1. 0 \in 0..MaxUsers
    BY AccountsAssumption
  <2> QED BY <2>1 DEF JarType
<1>9. jar' = new
  BY <1>3, <1>6, <1>7, <1>8 DEF Pause
<1>10. JarFits(new)
  <2>1. 0 <= Len(owner) /\ r.refresh <= Len(owner)
    BY <1>3, LenProperties DEF Server, Types, Browser, JarFits
  <2> QED BY <1>7, <1>8, <2>1 DEF JarFits
<1>11. JarFits(jar)'
  BY <1>1, <1>9, <1>10, JarMoves DEF TablesStay, sessionVars
<1> QED BY <1>1, <1>2, <1>11 DEF Browser, Page

LEMMA DroppedKeeps ==
    ASSUME Server, Browser, NEW c \in Jobs, Dropped(c)
    PROVE  Exchange /\ Browser'
<1>1. /\ TablesStay /\ job' = [job EXCEPT ![c] = Idle] /\ call[c].at = "idle"
      /\ UNCHANGED <<jar, call, isRefreshing, refreshPromise, shown, leaving, asked, lateResets>>
      /\ job[c].at = "answer"
  BY DEF Dropped, Answered, TablesStay, browserVars, history, inputs, At
<1>2. PICK q : q = Idle
  OBVIOUS
<1>3. Exchange
  BY <1>1, <1>2, OneExchange
<1>4. JarFits(jar)'
  BY <1>1 DEF Browser, JarFits, TablesStay, sessionVars
<1>5. \A d \in Jobs : call'[d].at \in {"first", "renewing", "again"} => job'[d].at # "idle"
  BY <1>1 DEF Browser, Page, Server, Types
<1>6. \A d \in Jobs : call'[d].at = "waiting" => job'[d].at = "idle"
  BY <1>1 DEF Browser, Page, Server, Types
<1> QED BY <1>1, <1>3, <1>4, <1>5, <1>6 DEF Browser, Page

LEMMA VisitKeeps ==
    ASSUME Server, Browser, Registry, NEW c \in Jobs, asked = 0, Requests(c),
           UNCHANGED <<browserVars, history>>
    PROVE  Exchange /\ Browser'
<1>1. PICK r \in JobType : IsNew(r) /\ job' = [job EXCEPT ![c] = r]
  BY RequestsAreNew DEF Server, Registry, Theirs
<1>2. Exchange
  BY VisitExchanges DEF Registry, Theirs
<1>3. UNCHANGED <<jar, call, isRefreshing, refreshPromise, shown, leaving, asked, lateResets>>
  BY DEF browserVars, history
<1>4. JarFits(jar)'
  BY <1>2, <1>3 DEF Browser, JarFits, Exchange, sessionVars
<1>5. \A d \in Jobs : job[d].at # "idle" => job'[d].at # "idle"
  BY <1>1 DEF IsNew, Server, Types
<1>6. Page'
  BY <1>3, <1>5 DEF Browser, Page
<1> QED BY <1>2, <1>4, <1>6 DEF Browser

\* Every step is an exchange or a step of one handler.
LEMMA EveryStep ==
    ASSUME SInv, SNext
    PROVE  \/ Exchange /\ Browser'
           \/ \E j \in Jobs : Handles(j) /\ UNCHANGED <<browserVars, history>>
BY CallKeeps, RespondsKeeps, RenewedKeeps, RenewFailsKeeps, RespondsAgainKeeps, LostKeeps,
   DroppedKeeps, VisitKeeps, UnloadKeeps, PauseKeeps DEF SInv, SNext, Steps

LEMMA ExchangeRegisters ==
    ASSUME Server, Registry, Exchange
    PROVE  Registry'
<1>1. Types' /\ Grows /\ UNCHANGED <<users, mine, moved>>
  BY ExchangeKeeps DEF Exchange, userVars, Server
<1> QED BY <1>1, RegistryStays DEF Server

LEMMA SInvKeeps ==
    ASSUME SInv, [SNext]_svars
    PROVE  SInv'
<1>1. CASE Exchange /\ Browser'
  BY <1>1, ExchangeKeeps, ExchangeRegisters DEF SInv
<1>2. ASSUME NEW j \in Jobs, Handles(j), UNCHANGED <<browserVars, history>> PROVE SInv'
  <2>1. Server' /\ Grows
    BY <1>2, HandlesKeeps DEF SInv, Registry
  <2> QED BY <1>2, <2>1, HandlesPage, HandlesRegisters DEF SInv, Server
<1>3. CASE UNCHANGED svars
  <2>1. UNCHANGED <<users, mailOf, codes, letter, owner, stored, revoked, count, job, lastCode,
                    mine, moved, passed, jar, call, isRefreshing, refreshPromise, shown, leaving,
                    asked, lateResets>>
    BY <1>3 DEF svars, avars, userVars, codeVars, sessionVars, throttleVars, inputs, browserVars,
                history
  <2>2. Server'
    BY <2>1 DEF SInv, Server, Types, Carried, WellFormed
  <2>3. Browser'
    BY <2>1 DEF SInv, Browser, JarFits, Page
  <2>4. Registry'
    BY <2>1 DEF SInv, Registry, Made, Theirs, Index
  <2> QED BY <2>2, <2>3, <2>4 DEF SInv
<1> QED BY <1>1, <1>2, <1>3, EveryStep

LEMMA Begins == SInit => SInv
<1> SUFFICES ASSUME SInit PROVE SInv
  OBVIOUS
<1>1. Idle \in JobType /\ Idle.at = "idle" /\ Idle.op = "none" /\ Idle.session = 0
        /\ Idle.gives = "nothing"
  <2>1. 0 \in 0..MaxUsers /\ NoMail \in AllMails
    BY AccountsAssumption DEF AllMails
  <2> QED BY <2>1 DEF Idle, JobType, Points
<1>2. NoCall \in CallType /\ NoCall.at = "idle"
  BY DEF NoCall, CallType
<1>3. ~NoUser.is /\ NoUser \notin Row
  BY AccountsAssumption DEF NoUser, Row
<1>4. Page
  BY <1>1, <1>2 DEF SInit, Page
<1>5. job = [j \in Jobs |-> Idle] /\ codes = [m \in Mails |-> 0] /\ letter = [m \in Mails |-> 0]
        /\ lastCode = 0 /\ count = [o \in Throttled |-> 0] /\ passed = [o \in Throttled |-> 0]
        /\ moved = {} /\ revoked = {}
  BY DEF SInit, AInit
<1>6. ASSUME Types PROVE Server
  <2>1. Len(owner) \in Nat
    BY <1>6, LenProperties DEF Types
  <2>2. WellFormed(Idle)
    BY <1>6, IdleFits
  <2>3. PICK r : r = Idle
    OBVIOUS
  <2>4. WellFormed(r) /\ \A j \in Jobs : job[j] = r
    BY <1>5, <2>2, <2>3
  <2> QED BY <1>6, <2>4 DEF Server, Carried
<1>7. CASE AInit /\ jar = Empty
  <2>1. Types
    <3>1. owner \in Seq(Ids) /\ stored = {}
      BY <1>7 DEF AInit
    <3>2. users \in [Ids -> Row \union {NoUser}] /\ mailOf \in [People -> AllMails]
            /\ mine \in [People -> SUBSET Ids]
      BY <1>7 DEF AInit
    <3> QED BY <1>1, <1>5, <3>1, <3>2 DEF Types
  <2>2. Registry
    <3>1. 0 \in 0..MaxUsers /\ \A u \in Ids : ~(u <= 0) /\ users[u] = NoUser
      BY <1>7, AccountsAssumption DEF AInit, Ids
    <3> QED BY <1>3, <1>7, <3>1 DEF Registry, Made, Theirs, Index, AInit
  <2> QED BY <1>4, <1>6, <1>7, <2>1, <2>2, EmptyFits DEF SInv, Browser
<1>8. CASE Returning /\ mailOf \in [People -> Mails]
  <2>1. 1 \in Ids /\ Me \in People
    BY AccountsAssumption, BrowserAssumption DEF Ids
  <2>2. PICK row \in Row : row = [mail |-> mailOf[Me], name |-> NameOf[Me], pass |-> FALSE, is |-> TRUE]
    <3>1. mailOf[Me] \in AllMails /\ NameOf[Me] \in Names
      BY <1>8, <2>1 DEF AllMails, Names
    <3> QED BY <3>1 DEF Row
  <2>3. users = [u \in Ids |-> IF u = 1 THEN row ELSE NoUser] /\ owner = <<1>> /\ stored = {1}
          /\ mine = [q \in People |-> IF q = Me THEN {1} ELSE {}]
    BY <1>8, <2>2 DEF Returning
  <2>4. owner \in Seq(Ids) /\ Len(owner) = 1 /\ owner[1] = 1
    BY <2>1, <2>3
  <2>5. Types
    <3>1. users \in [Ids -> Row \union {NoUser}] /\ mine \in [People -> SUBSET Ids]
      BY <2>1, <2>3
    <3>2. mailOf \in [People -> AllMails]
      BY <1>8 DEF AllMails
    <3> QED BY <1>1, <1>5, <2>3, <2>4, <3>1, <3>2 DEF Types
  <2>6. JarFits(jar)
    <3>1. PICK t \in Nat : t = SocialMaxAge - TenMinutes /\ t # 0
      BY DEF SocialMaxAge, TenMinutes
    <3>2. jar = [access |-> 0, refresh |-> 1, accessLeft |-> 0, refreshLeft |-> t]
      BY <1>8, <3>1 DEF Returning
    <3>3. 0 \in 0..MaxUsers
      BY AccountsAssumption
    <3>4. jar \in JarType
      BY <3>2, <3>3 DEF JarType
    <3> QED BY <2>4, <3>1, <3>2, <3>4 DEF JarFits
  <2>7. Registry
    <3>1. 1 \in 0..MaxUsers /\ \A u \in Ids : users[u] \in Row <=> u <= 1
      BY <1>3, <2>3, AccountsAssumption DEF Ids
    <3>2. Theirs
      <4>1. \A p \in People : \A u \in mine[p] : p = Me /\ u = 1
        BY <2>3
      <4>2. users[1] = row /\ row.mail = mailOf[Me]
        BY <2>1, <2>2, <2>3
      <4> QED BY <4>1, <4>2 DEF Theirs
    <3>3. Index
      BY <1>3, <2>3 DEF Index
    <3> QED BY <3>1, <3>2, <3>3 DEF Registry, Made
  <2> QED BY <1>4, <1>6, <2>5, <2>6, <2>7 DEF SInv, Browser
<1> QED BY <1>7, <1>8 DEF SInit

THEOREM Invariance == SSpec => []SInv
<1>1. SInv /\ [SNext]_svars => SInv'
  BY SInvKeeps
<1> QED BY <1>1, Begins, PTL DEF SSpec

\* The types of the browser: a cookie holds a session of the user it signs in for
\* as long as it lasts, the two variables of common.ts are set and reset together,
\* and whoever awaits a response has a request at the server.
THEOREM BrowserTypeCorrect == SSpec => []STypeOK
<1>1. SInv => STypeOK
  BY DEF SInv, Server, Browser, JarFits, JarType, Page, Types, STypeOK, At
<1> QED BY <1>1, Invariance, PTL

\* One account for each person and mail, however sign-up, sign-in and the social
\* callback interleave (auth.service.ts, users.service.ts): the unique indexes and
\* the look-up by mail suffice.
THEOREM PersonHasOneAccount == SSpec => []OneAccountEach
<1>1. ASSUME SInv PROVE OneAccountEach
  <2> SUFFICES ASSUME NEW p \in People, NEW q \in People,
                      NEW u \in mine[p] \ moved, NEW v \in mine[q] \ moved
               PROVE  /\ u = v => p = q \/ mailOf[p] = mailOf[q]
                      /\ p = q /\ users[u].is /\ users[v].is => u = v
    BY DEF OneAccountEach
  <2>1. users[u].mail = mailOf[p] /\ users[v].mail = mailOf[q]
    BY <1>1 DEF SInv, Registry, Theirs
  <2>2. u \in Ids /\ v \in Ids
    BY <1>1 DEF SInv, Server, Types
  <2> QED BY <1>1, <2>1, <2>2 DEF SInv, Registry, Index
<1> QED BY <1>1, Invariance, PTL

-----------------------------------------------------------------------------
(* The request limit                                                       *)

\* What a request read of the count is not more than were let in since.
Counted ==
    /\ RefusesLate
    /\ \A j \in Jobs : job[j].at = "count" => job[j].seen <= passed[job[j].op]

LEMMA CountedStays ==
    ASSUME Counted, UNCHANGED throttleVars,
           \A j \in Jobs : job'[j].at = "count" =>
              job'[j] = job[j] \/ job'[j].seen <= passed[job'[j].op]
    PROVE  Counted'
BY DEF Counted, RefusesLate, throttleVars

LEMMA SetCountCounts ==
    ASSUME Server, Counted, NEW j \in Jobs, SetCount(j), Alone(j)
    PROVE  Counted'
<1>1. PICK q \in JobType : q = job[j]
  BY DEF Server, Types
<1>2. PICK op \in Throttled : op = q.op
  BY <1>1 DEF SetCount, At, Server, Carried, WellFormed, Route
<1>3. q.seen \in Nat
  BY DEF JobType
<1>4. q.seen <= passed[op]
  BY <1>1, <1>2 DEF SetCount, At, Counted
<1>5. count' = [count EXCEPT ![op] = q.seen + 1] /\ passed' = [passed EXCEPT ![op] = @ + 1]
  BY <1>1, <1>2 DEF SetCount
<1>6. \A o \in Throttled : passed[o] \in Nat /\ passed'[o] \in Nat /\ passed[o] <= passed'[o]
  BY <1>5 DEF Server, Types
<1>7. RefusesLate'
  <2>1. count'[op] <= passed'[op]
    BY <1>3, <1>4, <1>5 DEF Server, Types
  <2>2. \A o \in Throttled : o # op => count'[o] <= passed'[o]
    BY <1>5 DEF Server, Types, Counted, RefusesLate
  <2> QED BY <2>1, <2>2 DEF RefusesLate
<1>8. ASSUME NEW d \in Jobs, job'[d].at = "count" PROVE job'[d].seen <= passed'[job'[d].op]
  <2>1. job'[d] = job[d]
    BY <1>8 DEF Alone, Others
  <2>2. PICK it \in JobType : it = job[d]
    BY DEF Server, Types
  <2>3. it.op \in Throttled /\ it.seen \in Nat /\ it.seen <= passed[it.op]
    <3>1. it.at = "count" /\ Route(it.op, it.at)
      BY <1>8, <2>1, <2>2 DEF Server, Carried, WellFormed
    <3>2. it.seen \in Nat
      BY DEF JobType
    <3> QED BY <2>2, <3>1, <3>2 DEF Route, Counted
  <2> QED BY <1>6, <2>1, <2>2, <2>3
<1> QED BY <1>7, <1>8 DEF Counted

LEMMA HandlesCounts ==
    ASSUME Server, Counted, NEW j \in Jobs, Handles(j)
    PROVE  Counted'
<1>1. CASE SetCount(j)
  <2>1. Alone(j)
    BY <1>1, HandlesAlone DEF ReadCount, SetCount, SaveCode, At
  <2> QED BY <1>1, <2>1, SetCountCounts
<1>2. CASE ReadCount(j) /\ Counts(j)
  <2>1. PICK op \in Throttled : op = job[j].op
    BY <1>2 DEF ReadCount, At, Server, Carried, WellFormed, Route
  <2>2. job'[j].seen <= passed[job'[j].op]
    BY <1>2, <2>1 DEF Counts, Counted, RefusesLate
  <2> QED BY <1>2, <2>2, CountedStays DEF ReadCount, Counts, Others
<1>3. CASE ~SetCount(j) /\ ~(ReadCount(j) /\ Counts(j))
  <2>1. job'[j].at # "count" /\ Others(j)
    BY <1>3, HandlesAlone DEF Alone, Mailing
  <2>2. UNCHANGED throttleVars
    BY <1>3 DEF Handles, ReadCount, Validate, Find, SaveCode, SendMail, CheckCode, SaveUser,
                SetPassword, Taken, Update, Remove, ForgetCode, ReadBlacklist, StoreSession,
                Revoke, DropSession, Fails
  <2> QED BY <2>1, <2>2, CountedStays DEF Others
<1> QED BY <1>1, <1>2, <1>3

LEMMA ExchangeCounts ==
    ASSUME Server, Counted, Exchange
    PROVE  Counted'
<1>1. Idle.at = "idle"
  BY DEF Idle
<1>2. \A j \in Jobs : job'[j].at = "count" => job'[j] = job[j]
  BY <1>1 DEF Exchange, Changes, IsNew
<1> QED BY <1>2, CountedStays DEF Exchange

\* ThrottleGuard (throttle.guard.ts:18-28) refuses only who comes after as many as
\* the limit: two requests that read the count at once count as one, none as two.
THEOREM NobodyRefusedEarly == SSpec => []RefusesLate
<1>1. SInit => Counted
  <2>1. Idle.at = "idle"
    BY DEF Idle
  <2> QED BY <2>1 DEF SInit, AInit, Counted, RefusesLate
<1>2. ASSUME SInv, Counted, [SNext]_svars PROVE Counted'
  <2>1. CASE Exchange
    BY <1>2, <2>1, ExchangeCounts DEF SInv
  <2>2. ASSUME NEW j \in Jobs, Handles(j) PROVE Counted'
    BY <1>2, <2>2, HandlesCounts DEF SInv
  <2>3. CASE UNCHANGED svars
    BY <1>2, <2>3, CountedStays DEF svars, avars
  <2> QED BY <1>2, <2>1, <2>2, <2>3, EveryStep
<1>3. Counted => RefusesLate
  BY DEF Counted
<1> QED BY <1>1, <1>2, <1>3, Invariance, PTL DEF SSpec

-----------------------------------------------------------------------------
(* The letters                                                             *)

OnItsWay(j, m) == job[j].at = "mail" /\ job[j].mail = m

\* One letter at most is on its way, with the code the server compares with; when
\* it has arrived that is the code of the letter.
Settled(m) ==
    /\ \A j, k \in Jobs : OnItsWay(j, m) /\ OnItsWay(k, m) => j = k
    /\ \A j \in Jobs : OnItsWay(j, m) => codes[m] \in {0, job[j].code}
    /\ (\A j \in Jobs : ~OnItsWay(j, m)) /\ letter[m] # 0 => codes[m] \in {0, letter[m]}

Letters == \A m \in Mails : m \notin unsure => Settled(m)

LEMMA SettledStays ==
    ASSUME NEW m, Settled(m), letter'[m] = letter[m], codes'[m] \in {0, codes[m]},
           \A d \in Jobs : /\ OnItsWay(d, m)' <=> OnItsWay(d, m)
                           /\ OnItsWay(d, m) => job'[d].code = job[d].code
    PROVE  Settled(m)'
BY DEF Settled

\* A step of a handler that neither makes a code nor sends one.
LEMMA LettersStay ==
    ASSUME Letters, NEW j \in Jobs, Others(j), job[j].at # "mail", job'[j].at # "mail",
           letter' = letter, unsure' = unsure, \A m \in Mails : codes'[m] \in {0, codes[m]}
    PROVE  Letters'
<1>1. \A d \in Jobs : d # j => job'[d] = job[d]
  BY DEF Others
<1>2. ASSUME NEW m \in Mails, m \notin unsure PROVE Settled(m)'
  <2>1. \A d \in Jobs : /\ OnItsWay(d, m)' <=> OnItsWay(d, m)
                        /\ OnItsWay(d, m) => job'[d].code = job[d].code
    BY <1>1 DEF OnItsWay
  <2> QED BY <1>2, <2>1, SettledStays DEF Letters
<1> QED BY <1>2 DEF Letters

LEMMA SaveCodeSettles ==
    ASSUME Server, Letters, NEW j \in Jobs, SaveCode(j), Mailing(j)
    PROVE  Letters'
<1>1. PICK m0 : m0 = job[j].mail
  OBVIOUS
<1>2. PICK c : c = lastCode + 1
  OBVIOUS
<1>3. /\ job'[j].at = "mail" /\ job'[j].mail = m0 /\ job'[j].code = c
      /\ \A d \in Jobs : d # j => job'[d] = job[d]
  BY <1>1, <1>2 DEF Mailing, Others
<1>4. /\ codes' = [codes EXCEPT ![m0] = c] /\ letter' = letter /\ job[j].at = "code"
      /\ unsure' = IF Sending(m0) = {} THEN unsure \ {m0} ELSE unsure \union {m0}
  BY <1>1, <1>2 DEF SaveCode, At
<1>5. ASSUME NEW m \in Mails, m \notin unsure' PROVE Settled(m)'
  <2>1. CASE m = m0
    <3>1. \A d \in Jobs : ~(job[d].at = "mail" /\ job[d].mail = m)
      BY <1>4, <1>5, <2>1 DEF Sending, At
    <3>2. \A d \in Jobs : OnItsWay(d, m)' <=> d = j
      BY <1>3, <2>1, <3>1 DEF OnItsWay
    <3>3. codes'[m] = c
      BY <1>4, <2>1 DEF Server, Types
    <3> QED BY <1>3, <3>2, <3>3 DEF Settled
  <2>2. CASE m # m0
    <3>1. Settled(m) /\ codes'[m] = codes[m]
      BY <1>4, <1>5, <2>2 DEF Letters, Server, Types
    <3>2. \A d \in Jobs : /\ OnItsWay(d, m)' <=> OnItsWay(d, m)
                          /\ OnItsWay(d, m) => job'[d].code = job[d].code
      BY <1>3, <1>4, <2>2 DEF OnItsWay
    <3> QED BY <1>4, <3>1, <3>2, SettledStays
  <2> QED BY <2>1, <2>2
<1> QED BY <1>5 DEF Letters

LEMMA SendMailSettles ==
    ASSUME Server, Letters, NEW j \in Jobs, SendMail(j), Alone(j)
    PROVE  Letters'
<1>1. PICK m0 : m0 = job[j].mail
  OBVIOUS
<1>2. /\ job'[j].at # "mail" /\ job[j].at = "mail"
      /\ \A d \in Jobs : d # j => job'[d] = job[d]
  BY DEF Alone, Others, SendMail, At
<1>3. letter' = [letter EXCEPT ![m0] = job[j].code] /\ codes' = codes /\ unsure' = unsure
  BY <1>1 DEF SendMail
<1>4. ASSUME NEW m \in Mails, m \notin unsure PROVE Settled(m)'
  <2>1. CASE m = m0
    <3>1. OnItsWay(j, m) /\ Settled(m)
      BY <1>1, <1>2, <1>4, <2>1 DEF OnItsWay, Letters
    <3>2. \A d \in Jobs : ~OnItsWay(d, m)'
      BY <1>2, <3>1 DEF OnItsWay, Settled
    <3>3. letter'[m] = job[j].code /\ codes'[m] \in {0, job[j].code}
      BY <1>3, <2>1, <3>1 DEF Settled, Server, Types
    <3> QED BY <3>2, <3>3 DEF Settled
  <2>2. CASE m # m0
    <3>1. Settled(m) /\ letter'[m] = letter[m] /\ codes'[m] = codes[m]
      BY <1>3, <1>4, <2>2 DEF Letters, Server, Types
    <3>2. \A d \in Jobs : /\ OnItsWay(d, m)' <=> OnItsWay(d, m)
                          /\ OnItsWay(d, m) => job'[d].code = job[d].code
      BY <1>1, <1>2, <2>2 DEF OnItsWay
    <3> QED BY <3>1, <3>2, SettledStays
  <2> QED BY <2>1, <2>2
<1> QED BY <1>3, <1>4 DEF Letters

LEMMA FailsSettles ==
    ASSUME Server, Letters, NEW j \in Jobs, Fails(j), Alone(j)
    PROVE  Letters'
<1>1. PICK m0 : m0 = job[j].mail
  OBVIOUS
<1>2. job'[j].at # "mail" /\ \A d \in Jobs : d # j => job'[d] = job[d]
  BY DEF Alone, Others
<1>3. /\ codes' = codes /\ letter' = letter
      /\ unsure' = IF job[j].at = "mail" THEN unsure \union {m0} ELSE unsure
  BY <1>1 DEF Fails
<1>4. ASSUME NEW m \in Mails, m \notin unsure' PROVE Settled(m)'
  <2>1. Settled(m) /\ ~OnItsWay(j, m)
    BY <1>1, <1>3, <1>4 DEF Letters, OnItsWay
  <2>2. \A d \in Jobs : /\ OnItsWay(d, m)' <=> OnItsWay(d, m)
                        /\ OnItsWay(d, m) => job'[d].code = job[d].code
    BY <1>2, <2>1 DEF OnItsWay
  <2> QED BY <1>3, <2>1, <2>2, SettledStays
<1> QED BY <1>4 DEF Letters

LEMMA ForgetCodeSettles ==
    ASSUME Server, Letters, NEW j \in Jobs, ForgetCode(j), Alone(j)
    PROVE  Letters'
<1>1. codes' = (IF job[j].mail = NoMail THEN codes ELSE [codes EXCEPT ![job[j].mail] = 0])
        /\ letter' = letter /\ unsure' = unsure /\ job[j].at = "forget"
  BY DEF ForgetCode, At
<1>2. \A m \in Mails : codes'[m] \in {0, codes[m]}
  BY <1>1 DEF Server, Types
<1> QED BY <1>1, <1>2, LettersStay DEF Alone

LEMMA HandlesSettles ==
    ASSUME Server, Letters, NEW j \in Jobs, Handles(j)
    PROVE  Letters'
<1>1. CASE SaveCode(j)
  <2>1. Mailing(j)
    <3>1. PICK q \in JobType : q = job[j]
      BY DEF Server, Types
    <3>2. PICK n : n = lastCode + 1
      OBVIOUS
    <3>3. PICK r : r = [q EXCEPT !.at = "mail", !.code = n]
      OBVIOUS
    <3>4. r.at = "mail" /\ r.code = n /\ r.mail = q.mail
      BY <3>3 DEF JobType
    <3>5. job' = [job EXCEPT ![j] = r]
      BY <1>1, <3>1, <3>2, <3>3 DEF SaveCode, Server, Types
    <3> QED BY <3>1, <3>2, <3>4, <3>5 DEF Mailing, Others, Server, Types
  <2> QED BY <1>1, <2>1, SaveCodeSettles
<1>2. CASE ~SaveCode(j)
  <2>1. Alone(j) \/ (ReadCount(j) /\ Counts(j))
    BY <1>2, HandlesAlone
  <2>2. CASE ReadCount(j) /\ Counts(j)
    <3>1. job[j].at # "mail" /\ UNCHANGED <<codes, letter, unsure>>
      BY <2>2 DEF ReadCount, At, codeVars
    <3> QED BY <2>2, <3>1, LettersStay DEF Counts
  <2>3. CASE Alone(j)
    <3>1. CASE SendMail(j) \/ Fails(j) \/ ForgetCode(j)
      BY <2>3, <3>1, SendMailSettles, FailsSettles, ForgetCodeSettles
    <3>2. CASE ~(SendMail(j) \/ Fails(j) \/ ForgetCode(j))
      <4>1. UNCHANGED codeVars /\ job[j].at # "mail"
        BY <1>2, <3>2
           DEF Handles, ReadCount, SetCount, Validate, Find, CheckCode, SaveUser, SetPassword,
               Taken, Update, Remove, ReadBlacklist, StoreSession, Revoke, DropSession, At
      <4>2. UNCHANGED <<codes, letter, unsure>>
        BY <4>1 DEF codeVars
      <4> QED BY <2>3, <4>1, <4>2, LettersStay DEF Alone
    <3> QED BY <3>1, <3>2
  <2> QED BY <2>1, <2>2, <2>3
<1> QED BY <1>1, <1>2

LEMMA ExchangeSettles ==
    ASSUME Server, Letters, Exchange
    PROVE  Letters'
<1>1. Idle.at = "idle"
  BY DEF Idle
<1>2. UNCHANGED <<codes, letter, unsure>>
  BY DEF Exchange, codeVars
<1>3. ASSUME NEW m \in Mails, m \notin unsure PROVE Settled(m)'
  <2>1. \A d \in Jobs : /\ OnItsWay(d, m)' <=> OnItsWay(d, m)
                        /\ OnItsWay(d, m) => job'[d].code = job[d].code
    BY <1>1 DEF Exchange, Changes, IsNew, OnItsWay
  <2> QED BY <1>2, <1>3, <2>1, SettledStays DEF Letters
<1> QED BY <1>2, <1>3 DEF Letters

\* The code in the letter that came last is the one sendVerificationCode stored
\* (auth.service.ts, saved before it is mailed), whatever requests interleave: but
\* for a withdrawal, two letters at once, or one that could not be sent.
THEOREM LettersCount == SSpec => []LastLetterCounts
<1>1. SInit => Letters
  <2>1. Idle.at = "idle"
    BY DEF Idle
  <2> QED BY <2>1 DEF SInit, AInit, Letters, Settled, OnItsWay
<1>2. ASSUME SInv, Letters, [SNext]_svars PROVE Letters'
  <2>1. CASE Exchange
    BY <1>2, <2>1, ExchangeSettles DEF SInv
  <2>2. ASSUME NEW j \in Jobs, Handles(j) PROVE Letters'
    BY <1>2, <2>2, HandlesSettles DEF SInv
  <2>3. CASE UNCHANGED svars
    BY <1>2, <2>3 DEF svars, avars, codeVars, Letters, Settled, OnItsWay
  <2> QED BY <1>2, <2>1, <2>2, <2>3, EveryStep
<1>3. Letters => LastLetterCounts
  BY DEF Letters, Settled, OnItsWay, LastLetterCounts, Sending, At
<1> QED BY <1>1, <1>2, <1>3, Invariance, PTL DEF SSpec

-----------------------------------------------------------------------------
(* The refreshes                                                           *)

Refreshing == {c \in Jobs : Renewing(c)}
Untold == Refreshing \ {refreshPromise}

\* Who waits, waits for a refresh under way; of those the page does not remember,
\* a finally block forgot each.
Shared ==
    /\ \A c \in Jobs : call[c].at = "waiting" => call[c].on \in Refreshing
    /\ Cardinality(Untold) <= lateResets

LEMMA Counting ==
    /\ IsFiniteSet(Refreshing) /\ Cardinality(Refreshing) \in Nat
    /\ IsFiniteSet(Untold) /\ Cardinality(Untold) \in Nat
    /\ Cardinality(Refreshing) <= Cardinality(Untold) + 1
    /\ refreshPromise \notin Refreshing => Refreshing = Untold
<1>1. IsFiniteSet(Refreshing) /\ IsFiniteSet(Untold)
  BY BrowserAssumption, FS_Subset DEF Refreshing, Untold
<1>2. Cardinality(Refreshing) \in Nat /\ Cardinality(Untold) \in Nat
  BY <1>1, FS_CardinalityType
<1>3. PICK w : w = Untold \union {refreshPromise}
  OBVIOUS
<1>4. IsFiniteSet(w) /\ Cardinality(w) \in {Cardinality(Untold), Cardinality(Untold) + 1}
  BY <1>1, <1>3, FS_AddElement
<1>5. Refreshing \subseteq w
  BY <1>3 DEF Untold
<1>6. Cardinality(Refreshing) <= Cardinality(w)
  BY <1>4, <1>5, FS_Subset
<1>7. Cardinality(w) <= Cardinality(Untold) + 1
  BY <1>2, <1>4
<1>8. Cardinality(Refreshing) <= Cardinality(Untold) + 1
  BY <1>2, <1>4, <1>6, <1>7
<1> QED BY <1>1, <1>2, <1>8 DEF Untold

\* No more refreshes that nobody remembers, and whoever waits still does so for one.
LEMMA SharedStays ==
    ASSUME Shared, Page, lateResets' = lateResets, Untold' \subseteq Untold,
           \A c \in Jobs : call'[c].at = "waiting" => call'[c].on \in Refreshing'
    PROVE  Shared'
<1>1. Cardinality(Untold') <= Cardinality(Untold) /\ Cardinality(Untold') \in Nat
  <2>1. PICK a, b : a = Untold /\ b = Untold'
    OBVIOUS
  <2>2. IsFiniteSet(a) /\ b \subseteq a
    BY <2>1, Counting
  <2>3. Cardinality(b) <= Cardinality(a) /\ Cardinality(b) \in Nat
    BY <2>2, FS_Subset, FS_CardinalityType
  <2> QED BY <2>1, <2>3
<1>2. Cardinality(Untold)' <= lateResets'
  BY <1>1, Counting DEF Shared, Page
<1> QED BY <1>2 DEF Shared

\* The finally block counts the refresh it makes the page forget.
LEMMA Forgets ==
    ASSUME Shared, Page, NEW c \in Jobs, ForgetRefresh(c),
           Refreshing' \subseteq Refreshing, c \notin Refreshing',
           \A d \in Jobs : call'[d].at = "waiting" => call'[d].on \in Refreshing'
    PROVE  Shared'
<1>1. refreshPromise' = 0 /\ Untold' \subseteq Refreshing
  BY DEF ForgetRefresh, Untold
<1>2. PICK a, b, r : a = Refreshing /\ b = Untold' /\ r = Untold
  OBVIOUS
<1>3. /\ IsFiniteSet(a) /\ IsFiniteSet(r) /\ Cardinality(a) \in Nat /\ Cardinality(r) \in Nat
      /\ Cardinality(a) <= Cardinality(r) + 1 /\ b \subseteq a
      /\ Cardinality(r) <= lateResets /\ lateResets \in Nat
  BY <1>1, <1>2, Counting DEF Shared, Page
<1>4. Cardinality(b) <= Cardinality(a) /\ Cardinality(b) \in Nat
  BY <1>3, FS_Subset, FS_CardinalityType
<1>5. CASE refreshPromise \notin {0, c} /\ Renewing(refreshPromise)
  <2>1. lateResets' = lateResets + 1
    BY <1>5 DEF ForgetRefresh
  <2>2. Cardinality(b) <= lateResets'
    BY <1>3, <1>4, <2>1
  <2> QED BY <1>2, <2>2 DEF Shared
<1>6. CASE ~(refreshPromise \notin {0, c} /\ Renewing(refreshPromise))
  <2>1. lateResets' = lateResets
    BY <1>6 DEF ForgetRefresh
  <2>2. Refreshing' \subseteq Untold
    BY <1>6, BrowserAssumption DEF Untold, Refreshing
  <2>3. Untold' \subseteq Untold
    BY <2>2 DEF Untold
  <2> QED BY <2>1, <2>3, SharedStays
<1> QED BY <1>5, <1>6

\* A call that goes from one point to another, neither of them a refresh.
LEMMA OtherCall ==
    ASSUME Page, NEW c \in Jobs, NEW new, call[c].at # "renewing", new.at # "renewing",
           call' = [call EXCEPT ![c] = new]
    PROVE  /\ Refreshing' = Refreshing
           /\ \A d \in Jobs : d # c => call'[d] = call[d]
           /\ call'[c] = new
BY DEF Page, Refreshing, Renewing

LEMMA CallShares ==
    ASSUME Shared, Page, NEW c \in Jobs, NEW kind, Call(c, kind)
    PROVE  Shared'
<1>1. PICK new : new = [at |-> "first", kind |-> kind, on |-> 0]
  OBVIOUS
<1>2. call[c].at = "idle" /\ call' = [call EXCEPT ![c] = new] /\ new.at = "first"
        /\ UNCHANGED <<refreshPromise, lateResets>>
  BY <1>1 DEF Call
<1>3. Untold' \subseteq Untold
  BY <1>2, OtherCall DEF Untold
<1>4. \A d \in Jobs : call'[d].at = "waiting" => call'[d].on \in Refreshing'
  BY <1>2, OtherCall DEF Shared
<1> QED BY <1>2, <1>3, <1>4, SharedStays

\* A call that ends.
LEMMA EndShares ==
    ASSUME Shared, Page, NEW c \in Jobs, call[c].at \in {"first", "again"},
           call' = [call EXCEPT ![c] = NoCall],
           ForgetRefresh(c) \/ KeepRefresh
    PROVE  Shared'
<1>1. PICK new \in {NoCall} : new.at = "idle" /\ call' = [call EXCEPT ![c] = new]
  BY DEF NoCall
<1>2. /\ Refreshing' = Refreshing /\ call'[c] = new
      /\ \A d \in Jobs : d # c => call'[d] = call[d]
  <2>1. call[c].at # "renewing" /\ new.at # "renewing"
    BY <1>1
  <2> QED BY <1>1, <2>1, OtherCall
<1>3. \A d \in Jobs : call'[d].at = "waiting" => call'[d].on \in Refreshing'
  BY <1>1, <1>2 DEF Shared
<1>4. CASE ForgetRefresh(c)
  <2>1. c \notin Refreshing
    BY DEF Refreshing, Renewing
  <2> QED BY <1>2, <1>3, <1>4, <2>1, Forgets
<1>5. CASE KeepRefresh
  BY <1>2, <1>3, <1>5, SharedStays DEF KeepRefresh, Untold
<1> QED BY <1>4, <1>5

LEMMA RespondsShares ==
    ASSUME Shared, Page, NEW c \in Jobs, Responds(c)
    PROVE  Shared'
<1>1. call[c].at = "first" /\ lateResets \in Nat
  BY DEF Responds, Page
<1>2. CASE call' = [call EXCEPT ![c] = NoCall] /\ KeepRefresh
  BY <1>1, <1>2, EndShares
<1>3. PICK it \in CallType : it = call[c]
  BY DEF Page
<1>4. CASE /\ ~isRefreshing /\ refreshPromise' = c /\ lateResets' = lateResets
           /\ call' = [call EXCEPT ![c].at = "renewing"]
  <2>1. PICK new \in {[it EXCEPT !.at = "renewing"]} : new.at = "renewing"
    BY DEF CallType
  <2>2. \A d \in Jobs : call'[d] = IF d = c THEN new ELSE call[d]
    BY <1>3, <1>4, <2>1 DEF Page
  <2>3. Refreshing' = Refreshing \union {c} /\ c \notin Refreshing
    BY <1>1, <2>1, <2>2 DEF Refreshing, Renewing
  <2>4. refreshPromise \notin Refreshing
    BY <1>4, BrowserAssumption DEF Page, Refreshing
  <2>5. Untold' \subseteq Untold
    BY <1>4, <2>3, <2>4 DEF Untold
  <2>6. \A d \in Jobs : call'[d].at = "waiting" => call'[d].on \in Refreshing'
    BY <2>1, <2>2, <2>3 DEF Shared
  <2> QED BY <1>4, <2>5, <2>6, SharedStays
<1>5. CASE /\ UNCHANGED <<refreshPromise, lateResets>>
           /\ Renewing(refreshPromise) /\ isRefreshing
           /\ call' = [call EXCEPT ![c].at = "waiting", ![c].on = refreshPromise]
  <2>1. PICK p : p = refreshPromise
    OBVIOUS
  <2>2. PICK new \in {[it EXCEPT !.at = "waiting", !.on = p]} : new.at = "waiting" /\ new.on = p
    BY DEF CallType
  <2>3. call' = [call EXCEPT ![c] = new]
    BY <1>3, <1>5, <2>1, <2>2 DEF Page
  <2>4. p \in Refreshing
    BY <1>5, <2>1 DEF Page, Refreshing
  <2>5. Refreshing' = Refreshing /\ call'[c] = new /\ \A d \in Jobs : d # c => call'[d] = call[d]
    BY <1>1, <2>2, <2>3, OtherCall
  <2>6. \A d \in Jobs : call'[d].at = "waiting" => call'[d].on \in Refreshing'
    BY <2>2, <2>4, <2>5 DEF Shared
  <2> QED BY <1>5, <2>5, <2>6, SharedStays DEF Untold
<1>6. CASE /\ UNCHANGED <<refreshPromise, lateResets>> /\ call' = [call EXCEPT ![c].at = "again"]
  <2>1. PICK new \in {[it EXCEPT !.at = "again"]} : new.at = "again"
    BY DEF CallType
  <2>2. call' = [call EXCEPT ![c] = new]
    BY <1>3, <1>6, <2>1 DEF Page
  <2>3. Refreshing' = Refreshing /\ call'[c] = new /\ \A d \in Jobs : d # c => call'[d] = call[d]
    BY <1>1, <2>1, <2>2, OtherCall
  <2>4. \A d \in Jobs : call'[d].at = "waiting" => call'[d].on \in Refreshing'
    BY <2>1, <2>3 DEF Shared
  <2> QED BY <1>6, <2>3, <2>4, SharedStays DEF Untold
<1> QED BY <1>2, <1>4, <1>5, <1>6 DEF Responds, Returns, history

LEMMA RenewedShares ==
    ASSUME Shared, Page, NEW c \in Jobs, Renewed(c)
    PROVE  Shared'
<1>1. /\ Renewing(c) /\ UNCHANGED <<refreshPromise, lateResets>>
      /\ \A d \in Jobs : call'[d] = IF d \in WaitingFor(c)
                                    THEN [call[d] EXCEPT !.at = "again", !.on = 0] ELSE call[d]
  BY DEF Renewed, Woken, history
<1>2. \A d \in WaitingFor(c) : d \in Jobs /\ call'[d].at = "again"
  <2> SUFFICES ASSUME NEW d \in WaitingFor(c) PROVE d \in Jobs /\ call'[d].at = "again"
    OBVIOUS
  <2>1. d \in Jobs
    BY DEF WaitingFor
  <2>2. PICK it \in CallType : it = call[d]
    BY <2>1 DEF Page
  <2>3. [it EXCEPT !.at = "again", !.on = 0].at = "again"
    BY DEF CallType
  <2> QED BY <1>1, <2>1, <2>2, <2>3
<1>3. Refreshing' = Refreshing \ {c}
  BY <1>1, <1>2 DEF Refreshing, Renewing, WaitingFor
<1>4. \A d \in Jobs : call'[d].at = "waiting" => call'[d].on \in Refreshing'
  BY <1>1, <1>2, <1>3 DEF Shared, WaitingFor
<1> QED BY <1>1, <1>3, <1>4, SharedStays DEF Untold

LEMMA RenewFailsShares ==
    ASSUME Shared, Page, NEW c \in Jobs, RenewFails(c)
    PROVE  Shared'
<1>1. /\ Renewing(c) /\ ForgetRefresh(c) /\ NoCall.at = "idle"
      /\ \A d \in Jobs : call'[d] = IF d \in WaitingFor(c) THEN NoCall ELSE call[d]
  BY DEF RenewFails, Woken, NoCall
<1>2. Refreshing' = Refreshing \ {c}
  BY <1>1 DEF Refreshing, Renewing, WaitingFor
<1>3. \A d \in Jobs : call'[d].at = "waiting" => call'[d].on \in Refreshing'
  BY <1>1, <1>2 DEF Shared, WaitingFor
<1> QED BY <1>1, <1>2, <1>3, Forgets

LEMMA UnloadShares ==
    ASSUME Shared, Page, Unload
    PROVE  Shared'
<1>1. NoCall.at = "idle" /\ lateResets' = lateResets /\ \A c \in Jobs : call'[c] = NoCall
  BY DEF Unload, NoCall, history
<1>2. Refreshing' = {}
  BY <1>1 DEF Refreshing, Renewing
<1>3. Untold' \subseteq Untold
  BY <1>2 DEF Untold
<1> QED BY <1>1, <1>3, SharedStays

LEMMA NothingShared ==
    ASSUME Shared, UNCHANGED <<call, refreshPromise, lateResets>>
    PROVE  Shared'
BY DEF Shared, Refreshing, Untold, Renewing

\* Calls that find their access token expired share one refresh (common.ts:53-90):
\* who waits is woken, and a second refresh runs beside the first only when the
\* finally block of an older call reset the two variables.
THEOREM RefreshIsShared == SSpec => []OneRefresh
<1>1. SInit => Shared
  <2>1. ASSUME SInit PROVE Refreshing = {} /\ lateResets = 0
                           /\ \A c \in Jobs : call[c].at = "idle"
    BY <2>1 DEF SInit, NoCall, Refreshing, Renewing
  <2>2. ASSUME Refreshing = {} PROVE Cardinality(Untold) = 0
    <3>1. Untold = {}
      BY <2>2 DEF Untold
    <3> QED BY <3>1, FS_EmptySet
  <2> QED BY <2>1, <2>2 DEF Shared
<1>2. ASSUME SInv, Shared, [SNext]_svars PROVE Shared'
  <2> Page
    BY <1>2 DEF SInv, Browser
  <2>1. ASSUME NEW c \in Jobs, NEW kind \in Kinds, Call(c, kind) PROVE Shared'
    BY <1>2, <2>1, CallShares
  <2>2. ASSUME NEW c \in Jobs, Responds(c) PROVE Shared'
    BY <1>2, <2>2, RespondsShares
  <2>3. ASSUME NEW c \in Jobs, Renewed(c) PROVE Shared'
    BY <1>2, <2>3, RenewedShares
  <2>4. ASSUME NEW c \in Jobs, RenewFails(c) PROVE Shared'
    BY <1>2, <2>4, RenewFailsShares
  <2>5. ASSUME NEW c \in Jobs, RespondsAgain(c) PROVE Shared'
    BY <1>2, <2>5, EndShares DEF RespondsAgain, Returns
  <2>6. ASSUME NEW c \in Jobs, Lost(c) PROVE Shared'
    BY <1>2, <2>6, EndShares DEF Lost
  <2>7. CASE Unload
    BY <1>2, <2>7, UnloadShares
  <2>8. CASE UNCHANGED <<call, refreshPromise, lateResets>>
    BY <1>2, <2>8, NothingShared
  <2>9. ASSUME NEW c \in Jobs, Dropped(c) \/ UNCHANGED <<browserVars, history>>
        PROVE  UNCHANGED <<call, refreshPromise, lateResets>>
    BY <2>9 DEF Dropped, browserVars, history
  <2>10. Pause \/ UNCHANGED svars => UNCHANGED <<call, refreshPromise, lateResets>>
    BY DEF Pause, svars, browserVars, history
  <2> QED BY <1>2, <2>1, <2>2, <2>3, <2>4, <2>5, <2>6, <2>7, <2>8, <2>9, <2>10 DEF SNext, Steps
<1>3. SInv /\ Shared => OneRefresh
  <2> SUFFICES ASSUME SInv, Shared PROVE OneRefresh
    OBVIOUS
  <2>1. Cardinality(Refreshing) <= 1 + lateResets
    BY Counting DEF Shared, SInv, Browser, Page
  <2> QED BY <2>1 DEF Shared, OneRefresh, Refreshing
<1> QED BY <1>1, <1>2, <1>3, Invariance, PTL DEF SSpec

-----------------------------------------------------------------------------
(* Who left stays out                                                      *)

\* What a request without a token, or without a session, is never answered, and when a
\* response takes the session away.
Honest(r) ==
    /\ r.op = "profile" /\ r.user = 0 => r.status # "ok"
    /\ r.op = "refresh" /\ r.session = 0 => r.at \notin {"blacklist", "session"} /\ r.status # "ok"
    /\ r.gives = "clears" => \/ r.op \in Leaves /\ r.status = "ok"
                             \/ r.op = "refresh" /\ r.status # "ok"

Awaited(c) == call[c].at \in {"first", "renewing", "again"}

\* A request is of the call that awaits it.
Matching ==
    \A c \in Jobs :
        /\ Honest(job[c])
        /\ call[c].at \in {"first", "again"} => job[c].op = OpOf(call[c].kind)
        /\ Renewing(c) => job[c].op = "refresh"
        /\ call[c].at \in {"renewing", "waiting", "again"} => call[c].kind # "social"

\* While somebody signs in, the page shows nobody and nothing else can sign anybody in:
\* beside it the page asks for the profile at most, without a cookie.
Signing(c) == call[c].at # "idle" /\ call[c].kind = "social"
SigningAlone ==
    \A c \in Jobs : Signing(c) =>
        /\ ~shown /\ ~left /\ jar.refresh = 0
        /\ \A d \in Jobs \ {c} : call[d].at # "idle" =>
              /\ call[d].kind = "greet"
              /\ Awaited(d) => job[d].user = 0 /\ job[d].session = 0

\* Who left is out, and the refreshes since have no session.
Gone ==
    left /\ racing = {} =>
        jar.refresh = 0 /\ \A c \in Jobs : Renewing(c) => job[c].session = 0

\* ShownHasSession, also with calls in flight.
Visible == shown /\ ~leaving /\ ~unseen => jar.refresh # 0

Leaving == Matching /\ SigningAlone /\ Gone /\ Visible

\* How a handler treats its request.
Behaves(q, r) ==
    /\ r.op = q.op /\ Honest(r)
    /\ q.op = "refresh" /\ q.session = 0 => r.session = 0
    /\ q.op \in {"profile", "refresh"} /\ q.user = 0 /\ q.session = 0 => r.user = 0 /\ r.session = 0

LEMMA GotoBehaves ==
    ASSUME Server, NEW j \in Jobs, Honest(job[j]), NEW step, Goto(j, step),
           job[j].gives = "nothing",
           job[j].op = "refresh" /\ job[j].session = 0 => step \notin {"blacklist", "session"}
    PROVE  Behaves(job[j], job'[j])
<1>1. PICK q \in JobType : q = job[j]
  BY DEF Server, Types
<1>2. PICK r : r = [q EXCEPT !.at = step]
  OBVIOUS
<1>3. /\ r.op = q.op /\ r.at = step /\ r.user = q.user /\ r.session = q.session
      /\ r.status = q.status /\ r.gives = q.gives
  BY <1>2 DEF JobType
<1>4. job'[j] = r
  BY <1>1, <1>2 DEF Goto, Server, Types
<1>5. Honest(r)
  BY <1>1, <1>3 DEF Honest
<1> QED BY <1>1, <1>3, <1>4, <1>5 DEF Behaves

LEMMA AnswerBehaves ==
    ASSUME Server, NEW j \in Jobs, NEW status, NEW gives, Answer(j, status, gives),
           job[j].op = "profile" /\ job[j].user = 0 => status # "ok",
           job[j].op = "refresh" => status # "ok",
           gives = "clears" => \/ job[j].op \in Leaves /\ status = "ok"
                               \/ job[j].op = "refresh" /\ status # "ok"
    PROVE  Behaves(job[j], job'[j])
<1>1. PICK q \in JobType : q = job[j]
  BY DEF Server, Types
<1>2. PICK r : r = [q EXCEPT !.at = "answer", !.status = status, !.gives = gives]
  OBVIOUS
<1>3. /\ r.op = q.op /\ r.at = "answer" /\ r.user = q.user /\ r.session = q.session
      /\ r.status = status /\ r.gives = gives
  BY <1>2 DEF JobType
<1>4. job'[j] = r
  BY <1>1, <1>2 DEF Answer, Server, Types
<1>5. Honest(r)
  BY <1>1, <1>3 DEF Honest
<1> QED BY <1>1, <1>3, <1>4, <1>5 DEF Behaves

LEMMA RefusedBehaves ==
    ASSUME Server, NEW j \in Jobs, Refused(j)
    PROVE  Behaves(job[j], job'[j])
BY AnswerBehaves DEF Refused

\* The account is found and carried on.
LEMMA CarriedOnBehaves ==
    ASSUME Server, NEW j \in Jobs, Honest(job[j]), job[j].gives = "nothing",
           NEW u, NEW step \in {"session", "check", "blacklist"},
           job' = [job EXCEPT ![j].user = u, ![j].at = step],
           job[j].op # "profile", job[j].op = "refresh" => job[j].session # 0
    PROVE  Behaves(job[j], job'[j])
<1>1. PICK q \in JobType : q = job[j]
  BY DEF Server, Types
<1>2. PICK r : r = [q EXCEPT !.user = u, !.at = step]
  OBVIOUS
<1>3. /\ r.op = q.op /\ r.session = q.session /\ r.status = q.status /\ r.gives = q.gives
  BY <1>2 DEF JobType
<1>4. job'[j] = r
  BY <1>1, <1>2 DEF Server, Types
<1>5. Honest(r)
  BY <1>1, <1>3 DEF Honest
<1> QED BY <1>1, <1>3, <1>4, <1>5 DEF Behaves

LEMMA FindBehaves ==
    ASSUME Server, NEW j \in Jobs, Honest(job[j]), Find(j)
    PROVE  Behaves(job[j], job'[j])
<1>1. Types /\ job[j].gives = "nothing"
  BY DEF Server, Carried, WellFormed, Find, At
<1>2. FindTaken(j) => Behaves(job[j], job'[j])
  BY <1>1, GotoBehaves, RefusedBehaves DEF FindTaken
<1> DEFINE Carries(step) == \E u : job' = [job EXCEPT ![j].user = u, ![j].at = step]
<1>3. ASSUME NEW step \in {"session", "check"}, Carries(step), job[j].op \notin {"profile", "refresh"}
      PROVE  Behaves(job[j], job'[j])
  <2>1. PICK u : job' = [job EXCEPT ![j].user = u, ![j].at = step]
    BY <1>3
  <2> QED BY <1>1, <1>3, <2>1, CarriedOnBehaves
<1>4. FindByMail(j) => Behaves(job[j], job'[j])
  <2>1. FindByMail(j) => /\ job[j].op = "signin"
                         /\ Carries("session") \/ Answer(j, "unauthorized", "nothing")
    BY DEF FindByMail
  <2> QED BY <1>3, <2>1, AnswerBehaves
<1>5. FindForReset(j) => Behaves(job[j], job'[j])
  <2>1. FindForReset(j) => job[j].op = "reset" /\ (Carries("check") \/ Refused(j))
    BY DEF FindForReset
  <2> QED BY <1>3, <2>1, RefusedBehaves
<1>6. FindForSocial(j) => Behaves(job[j], job'[j])
  <2>1. FindForSocial(j) => job[j].op = "social" /\ (Carries("session") \/ Goto(j, "save"))
    BY DEF FindForSocial
  <2> QED BY <1>1, <1>3, <2>1, GotoBehaves
<1>7. ASSUME FindForRefresh(j) PROVE Behaves(job[j], job'[j])
  <2>1. PICK u : u = owner[job[j].session]
    OBVIOUS
  <2>2. CASE job[j].session = 0
    BY <1>7, <2>2, RefusedBehaves DEF FindForRefresh
  <2>3. CASE job[j].session # 0 /\ Exists(u)
    <3>1. job' = [job EXCEPT ![j].user = u, ![j].at = "blacklist"]
      BY <1>7, <2>1, <2>3 DEF FindForRefresh
    <3> QED BY <1>1, <1>7, <2>3, <3>1, CarriedOnBehaves DEF FindForRefresh
  <2>4. CASE job[j].session # 0 /\ ~Exists(u)
    <3>1. Answer(j, "unauthorized", "clears")
      BY <1>7, <2>1, <2>4 DEF FindForRefresh
    <3> QED BY <1>1, <1>7, <3>1, AnswerBehaves DEF FindForRefresh
  <2> QED BY <2>2, <2>3, <2>4
<1>8. FindOwn(j) => Behaves(job[j], job'[j])
  BY <1>1, GotoBehaves, AnswerBehaves, RefusedBehaves DEF FindOwn, Exists
<1> QED BY <1>2, <1>4, <1>5, <1>6, <1>7, <1>8 DEF Find

LEMMA HandlesBehaves ==
    ASSUME Server, NEW j \in Jobs, Honest(job[j]), Handles(j)
    PROVE  Others(j) /\ Behaves(job[j], job'[j])
<1>1. Types /\ WellFormed(job[j]) /\ job[j].at \notin {"idle", "answer"}
  BY DEF Server, Carried, Handles, ReadCount, SetCount, Validate, Find, SaveCode, SendMail,
         CheckCode, SaveUser, SetPassword, Taken, Update, Remove, ForgetCode, ReadBlacklist,
         StoreSession, Revoke, DropSession, Fails, At
<1>2. PICK q \in JobType : q = job[j]
  BY <1>1 DEF Types
<1>3. q.gives = "nothing" /\ Route(q.op, q.at) /\ Honest(q)
  BY <1>1, <1>2 DEF WellFormed
<1>4. Others(j)
  BY HandlesAlone DEF Alone, Counts, Mailing
<1> DEFINE Good == Behaves(job[j], job'[j])
<1>5. ASSUME ReadCount(j) PROVE Good
  <2>1. CASE Refused(j)
    BY <2>1, RefusedBehaves
  <2>2. CASE ~Refused(j)
    <3>1. PICK n : n = count[q.op]
      OBVIOUS
    <3>2. PICK r : r = [q EXCEPT !.seen = n, !.at = "count"]
      OBVIOUS
    <3>3. /\ r.op = q.op /\ r.at = "count" /\ r.user = q.user /\ r.session = q.session
          /\ r.status = q.status /\ r.gives = q.gives
      BY <3>2 DEF JobType
    <3>4. job'[j] = r
      BY <1>1, <1>2, <1>5, <2>2, <3>1, <3>2 DEF ReadCount, Types
    <3>5. Honest(r)
      BY <1>3, <3>3 DEF Honest
    <3> QED BY <1>2, <3>3, <3>4, <3>5 DEF Behaves
  <2> QED BY <2>1, <2>2
<1>6. ASSUME SetCount(j) \/ Validate(j) PROVE Good
  <2>1. Body("refresh") = "find" /\ AfterThrottle("refresh") = "find" /\ "refresh" \notin Guarded
    BY DEF Body, AfterThrottle, Guarded
  <2>2. PICK a, b : a = AfterThrottle(q.op) /\ b = Body(q.op)
    OBVIOUS
  <2>3. q.op = "refresh" => a = "find" /\ b = "find"
    BY <2>1, <2>2
  <2>4. Goto(j, a) \/ Goto(j, b) \/ Answer(j, "unauthorized", "clears access")
    BY <1>2, <1>6, <2>2 DEF SetCount, Validate
  <2> QED BY <1>2, <1>3, <2>3, <2>4, GotoBehaves, AnswerBehaves
<1>7. ASSUME SaveCode(j) PROVE Good
  <2>1. PICK n : n = lastCode + 1
    OBVIOUS
  <2>2. PICK r : r = [q EXCEPT !.at = "mail", !.code = n]
    OBVIOUS
  <2>3. /\ r.op = q.op /\ r.at = "mail" /\ r.user = q.user /\ r.session = q.session
        /\ r.status = q.status /\ r.gives = q.gives
    BY <2>2 DEF JobType
  <2>4. job'[j] = r
    BY <1>1, <1>2, <1>7, <2>1, <2>2 DEF SaveCode, Types
  <2>5. Honest(r)
    BY <1>3, <2>3 DEF Honest
  <2> QED BY <1>2, <2>3, <2>4, <2>5 DEF Behaves
<1>8. ASSUME SendMail(j) \/ SetPassword(j) \/ Taken(j) \/ Update(j) \/ ForgetCode(j) PROVE Good
  <2>1. q.op \in {"send", "reset", "update", "withdraw"} /\ (ForgetCode(j) => q.op = "withdraw")
    BY <1>2, <1>3, <1>8 DEF Route, SendMail, SetPassword, Taken, Update, ForgetCode, At
  <2> QED BY <1>2, <1>3, <1>8, <2>1, GotoBehaves, AnswerBehaves, RefusedBehaves
          DEF SendMail, SetPassword, Taken, Update, ForgetCode, Leaves
<1>9. ASSUME CheckCode(j) PROVE Good
  <2>1. q.op \in {"signup", "verify", "reset"}
    BY <1>2, <1>3, <1>9 DEF Route, CheckCode, At
  <2> QED BY <1>2, <1>3, <1>9, <2>1, GotoBehaves, AnswerBehaves, RefusedBehaves DEF CheckCode
<1>10. ASSUME SaveUser(j) PROVE Good
  <2>1. PICK u : u = NextId
    OBVIOUS
  <2>2. q.op \in {"signup", "social"}
    BY <1>2, <1>3, <1>10 DEF Route, SaveUser, At
  <2>3. \/ Refused(j) \/ Answer(j, "ok", "nothing")
        \/ job' = [job EXCEPT ![j].user = u, ![j].at = "session"]
    BY <1>10, <2>1 DEF SaveUser
  <2>4. job' = [job EXCEPT ![j].user = u, ![j].at = "session"] => Good
    BY <1>2, <1>3, <2>2, CarriedOnBehaves
  <2> QED BY <1>2, <2>2, <2>3, <2>4, AnswerBehaves, RefusedBehaves
<1>11. ASSUME Remove(j) PROVE Good
  <2>1. q.op \in {"withdraw", "delete"}
    BY <1>2, <1>3, <1>11 DEF Route, Remove, At
  <2>2. CASE q.op = "delete"
    BY <1>2, <1>3, <1>11, <2>2, AnswerBehaves, RefusedBehaves DEF Remove
  <2>3. CASE q.op = "withdraw"
    <3>1. PICK m : m = users[q.user].mail
      OBVIOUS
    <3>2. PICK r : r = [q EXCEPT !.at = "forget", !.mail = m]
      OBVIOUS
    <3>3. /\ r.op = q.op /\ r.at = "forget" /\ r.user = q.user /\ r.session = q.session
          /\ r.status = q.status /\ r.gives = q.gives
      BY <3>2 DEF JobType
    <3>4. job'[j] = r
      BY <1>1, <1>2, <1>11, <2>3, <3>1, <3>2 DEF Remove, Types
    <3>5. Honest(r)
      BY <1>3, <3>3 DEF Honest
    <3> QED BY <1>2, <3>3, <3>4, <3>5 DEF Behaves
  <2> QED BY <2>1, <2>2, <2>3
<1>12. ASSUME ReadBlacklist(j) PROVE Good
  <2>1. q.op = "refresh" /\ q.session # 0
    BY <1>2, <1>3, <1>12 DEF Route, ReadBlacklist, At, Honest
  <2> QED BY <1>2, <1>3, <1>12, <2>1, GotoBehaves, AnswerBehaves DEF ReadBlacklist
<1>13. ASSUME StoreSession(j) PROVE Good
  <2>1. q.op \in {"signin", "social", "refresh"} /\ (q.op = "refresh" => q.session # 0)
    BY <1>2, <1>3, <1>13 DEF Route, StoreSession, At, Honest
  <2>2. PICK n \in Nat : n = Len(owner)
    BY <1>1, LenProperties DEF Types
  <2>3. PICK r : r = [q EXCEPT !.at = "answer", !.status = "ok", !.gives = "sets", !.session = n + 1]
    OBVIOUS
  <2>4. r.op = q.op /\ r.gives = "sets" /\ r.session # 0
    <3>1. PICK k \in Nat : k = n + 1 /\ k # 0
      OBVIOUS
    <3> QED BY <2>3, <3>1 DEF JobType
  <2>5. job'[j] = r
    BY <1>1, <1>2, <1>13, <2>2, <2>3 DEF StoreSession, Types
  <2>6. Honest(r)
    BY <2>1, <2>4 DEF Honest
  <2> QED BY <1>2, <2>1, <2>4, <2>5, <2>6 DEF Behaves
<1>14. ASSUME Revoke(j) \/ DropSession(j) PROVE Good
  <2>1. q.op = "signout"
    BY <1>2, <1>3, <1>14 DEF Route, Revoke, DropSession, At
  <2> QED BY <1>2, <1>3, <1>14, <2>1, GotoBehaves, AnswerBehaves, RefusedBehaves
          DEF Revoke, DropSession, SignOutClears, BothCookies, Leaves
<1>15. ASSUME Fails(j) PROVE Good
  <2>1. q.at = "forget" => q.op = "withdraw"
    BY <1>3 DEF Route
  <2> QED BY <1>2, <1>3, <1>15, <2>1, AnswerBehaves, RefusedBehaves DEF Fails, Leaves
<1> QED BY <1>4, <1>5, <1>6, <1>7, <1>8, <1>9, <1>10, <1>11, <1>12, <1>13, <1>14, <1>15, FindBehaves
        DEF Handles

LEMMA IdleHonest == Honest(Idle) /\ Idle.op = "none" /\ Idle.at = "idle" /\ NoCall.at = "idle"
BY DEF Honest, Idle, NoCall

LEMMA NewHonest == ASSUME NEW r, IsNew(r) PROVE Honest(r)
BY DEF IsNew, WellFormed, Honest

\* The operation of a call.
LEMMA OpIs ==
    /\ \A kind \in Kinds : /\ OpOf(kind) # "refresh"
                           /\ OpOf(kind) \in Leaves => kind = OpOf(kind)
                           /\ kind \in Leaves => OpOf(kind) = kind
                           /\ kind # "social" => OpOf(kind) \notin {"signin", "social"}
    /\ OpOf("greet") = "profile" /\ OpOf("refresh") = "refresh"
    /\ "profile" \notin Leaves /\ "refresh" \notin Leaves /\ Shows \cap Leaves = {}
    /\ "social" \notin Leaves
BY DEF Kinds, OpOf, Leaves, Shows

LEMMA AskedIs ==
    ASSUME Server, NEW c \in Jobs, NEW kind \in Kinds \union {"refresh"}, NEW r, JarFits(r)
    PROVE  \E q \in JobType : /\ q = Asked(c, kind, r) /\ Honest(q) /\ q.op = OpOf(kind)
                              /\ q.user = r.access /\ q.session = r.refresh
<1>1. PICK q \in JobType : q = Asked(c, kind, r) /\ IsNew(q)
  BY AskedFits DEF IsNew
<1>2. q.op = OpOf(kind) /\ q.user = r.access /\ q.session = r.refresh
  BY <1>1 DEF Asked, Request
<1> QED BY <1>1, <1>2, NewHonest

LEMMA CookieOf ==
    ASSUME SInv, NEW c \in Jobs
    PROVE  /\ JarFits(Cookies(c))
           /\ job[c].gives = "sets" => /\ Cookies(c).refresh # 0 /\ job[c].session # 0
                                       /\ job[c].op \in {"signin", "social", "refresh"}
           /\ job[c].gives = "clears" => Cookies(c).refresh = 0
           /\ job[c].gives \notin {"sets", "clears"} => Cookies(c).refresh = jar.refresh
<1>1. JarFits(Cookies(c))
  BY CookiesFit DEF SInv
<1>2. ASSUME job[c].gives = "sets"
      PROVE  Cookies(c).refresh # 0 /\ job[c].session # 0
             /\ job[c].op \in {"signin", "social", "refresh"}
  <2>1. PICK s \in 1..Len(owner) : s = job[c].session
    BY <1>2 DEF SInv, Server, Carried, WellFormed
  <2>2. s # 0
    BY <2>1, LenProperties DEF SInv, Server, Types
  <2>3. Cookies(c).refresh = s
    BY <1>2, <2>1 DEF Cookies
  <2> QED BY <1>2, <2>1, <2>2, <2>3 DEF SInv, Server, Carried, WellFormed
<1>3. job[c].gives = "clears" => Cookies(c).refresh = 0
  BY DEF Cookies, Empty
<1>4. PICK r \in JarType : r = jar
  BY DEF SInv, Browser, JarFits
<1>5. [r EXCEPT !.access = 0, !.accessLeft = 0].refresh = r.refresh
  BY DEF JarType
<1>6. job[c].gives \notin {"sets", "clears"} => Cookies(c) \in {jar, [r EXCEPT !.access = 0, !.accessLeft = 0]}
  BY <1>4 DEF Cookies
<1> QED BY <1>1, <1>2, <1>3, <1>4, <1>5, <1>6

\* Without a session there is no token.
LEMMA NoToken == ASSUME NEW r, JarFits(r), r.refresh = 0 PROVE r.access = 0
BY DEF JarFits

LEMMA CallLeaves ==
    ASSUME SInv, Leaving, NEW c \in Jobs, NEW kind \in Kinds, Call(c, kind)
    PROVE  Leaving'
<1>1. PICK jr : jr = jar /\ JarFits(jr)
  BY DEF SInv, Browser
<1>2. PICK q \in JobType : /\ q = Asked(c, kind, jr) /\ Honest(q) /\ q.op = OpOf(kind)
                           /\ q.user = jr.access /\ q.session = jr.refresh
  BY <1>1, AskedIs DEF SInv
<1>3. PICK it : it = [at |-> "first", kind |-> kind, on |-> 0]
  OBVIOUS
<1>4. /\ call' = [call EXCEPT ![c] = it] /\ job' = [job EXCEPT ![c] = q] /\ call[c].at = "idle"
      /\ UNCHANGED <<jar, leaving, racing, unseen>> /\ ~leaving
      /\ shown' \in (IF kind = "signout" THEN {shown, FALSE} ELSE {shown})
      /\ left' = (IF kind = "social" THEN FALSE ELSE left)
  BY <1>1, <1>2, <1>3 DEF Call, Asked
<1>5. /\ call'[c] = it /\ job'[c] = q /\ it.at = "first" /\ it.kind = kind
      /\ \A d \in Jobs : d # c => call'[d] = call[d] /\ job'[d] = job[d]
  BY <1>3, <1>4 DEF SInv, Server, Browser, Page, Types
<1>6. Matching'
  BY <1>2, <1>5 DEF Leaving, Matching, Renewing
<1>7. ASSUME NEW x \in Jobs, Signing(x)'
      PROVE  /\ ~shown' /\ ~left' /\ jar'.refresh = 0
             /\ \A d \in Jobs \ {x} : call'[d].at # "idle" =>
                   /\ call'[d].kind = "greet"
                   /\ Awaited(d)' => job'[d].user = 0 /\ job'[d].session = 0
  <2>1. CASE kind = "social"
    <3>1. ~shown /\ jar.refresh = 0 /\ \A d \in Jobs : call[d].at = "idle"
      BY <2>1 DEF Call, Wanted, InFlight, Leaves
    <3>2. x = c
      BY <1>5, <1>7, <3>1 DEF Signing
    <3> QED BY <1>4, <1>5, <2>1, <3>1, <3>2
  <2>2. CASE kind # "social"
    <3>1. x # c /\ Signing(x)
      BY <1>5, <1>7, <2>2 DEF Signing
    <3>2. ~shown /\ ~left /\ jar.refresh = 0
      BY <3>1 DEF Leaving, SigningAlone
    <3>3. kind = "greet"
      BY <2>2, <3>2 DEF Call, Wanted, Kinds, Leaves
    <3>4. q.user = 0 /\ q.session = 0
      BY <1>1, <1>2, <3>2, NoToken
    <3>5. \A d \in Jobs \ {x} : d # c /\ call[d].at # "idle" =>
              call[d].kind = "greet" /\ (Awaited(d) => job[d].user = 0 /\ job[d].session = 0)
      BY <3>1 DEF Leaving, SigningAlone
    <3> QED BY <1>4, <1>5, <3>2, <3>3, <3>4, <3>5 DEF Awaited
  <2> QED BY <2>1, <2>2
<1>8. Gone'
  BY <1>4, <1>5 DEF Leaving, Gone, Renewing
<1>9. Visible'
  BY <1>4 DEF Leaving, Visible
<1> QED BY <1>6, <1>7, <1>8, <1>9 DEF Leaving, SigningAlone

\* A call that ends.
LEMMA EndOf ==
    ASSUME SInv, Leaving, NEW c \in Jobs,
           call' = [call EXCEPT ![c] = NoCall], job' = [job EXCEPT ![c] = Idle]
    PROVE  /\ \A d \in Jobs : d # c => call'[d] = call[d] /\ job'[d] = job[d]
           /\ call'[c].at = "idle" /\ Matching'
<1>1. PICK it, q : it = NoCall /\ q = Idle /\ it.at = "idle" /\ Honest(q)
  BY IdleHonest
<1>2. /\ call'[c] = it /\ job'[c] = q
      /\ \A d \in Jobs : d # c => call'[d] = call[d] /\ job'[d] = job[d]
  BY <1>1 DEF SInv, Server, Browser, Page, Types
<1>3. Matching'
  BY <1>1, <1>2 DEF Leaving, Matching, Renewing
<1> QED BY <1>1, <1>2, <1>3

\* What a call with somebody signing in beside it was answered.
LEMMA Beside ==
    ASSUME SInv, Leaving, NEW x \in Jobs, Signing(x), NEW c \in Jobs, c # x, Awaited(c)
    PROVE  /\ call[c].kind = "greet" /\ job[c].user = 0 /\ job[c].session = 0
           /\ job[c].op \in {"profile", "refresh"} /\ job[c].status # "ok"
           /\ Cookies(c).refresh = 0 /\ Cookies(c).access = 0
<1>1. call[c].kind = "greet" /\ job[c].user = 0 /\ job[c].session = 0 /\ jar.refresh = 0
  BY DEF Leaving, SigningAlone, Awaited
<1>2. job[c].op \in {"profile", "refresh"} /\ Honest(job[c])
  BY <1>1, OpIs DEF Leaving, Matching, Awaited, Renewing
<1>3. job[c].status # "ok"
  BY <1>1, <1>2 DEF Honest
<1>4. Cookies(c).refresh = 0
  BY <1>1, CookieOf
<1> QED BY <1>1, <1>2, <1>3, <1>4, CookieOf, NoToken

LEMMA ReturnsLeaves ==
    ASSUME SInv, Leaving, NEW c \in Jobs, call[c].at \in {"first", "again"},
           job[c].at = "answer", Returns(c, Cookies(c))
    PROVE  Leaving'
<1>1. PICK kind \in Kinds : kind = call[c].kind /\ job[c].op = OpOf(kind)
  BY DEF SInv, Browser, Page, Leaving, Matching
<1>2. PICK r : r = Cookies(c)
  OBVIOUS
<1>3. /\ call' = [call EXCEPT ![c] = NoCall] /\ job' = [job EXCEPT ![c] = Idle] /\ jar' = r
      /\ shown' = (IF job[c].status = "ok" /\ kind \in Shows THEN TRUE
                   ELSE IF kind = "greet" THEN FALSE ELSE shown)
      /\ leaving' = (leaving \/ (job[c].status = "ok" /\ kind \in Leaves))
      /\ left' = IF kind \in Leaves /\ job[c].status = "ok" THEN TRUE ELSE left
      /\ racing' = IF kind \in Leaves /\ job[c].status = "ok" THEN {d \in Jobs : Renewing(d)} ELSE racing
      /\ unseen' = (unseen \/ (job[c].status = "ok" /\ kind \in Shows /\ r.refresh = 0))
  BY <1>1, <1>2 DEF Returns
<1>4. /\ \A d \in Jobs : d # c => call'[d] = call[d] /\ job'[d] = job[d]
      /\ call'[c].at = "idle" /\ Matching'
  BY <1>3, EndOf
<1>5. ASSUME NEW x \in Jobs, Signing(x)'
      PROVE  /\ ~shown' /\ ~left' /\ jar'.refresh = 0
             /\ \A d \in Jobs \ {x} : call'[d].at # "idle" =>
                   /\ call'[d].kind = "greet"
                   /\ Awaited(d)' => job'[d].user = 0 /\ job'[d].session = 0
  <2>1. x # c /\ Signing(x)
    BY <1>4, <1>5 DEF Signing
  <2>2. kind = "greet" /\ job[c].status # "ok" /\ r.refresh = 0
    BY <1>1, <1>2, <2>1, Beside DEF Awaited
  <2> QED BY <1>3, <1>4, <2>1, <2>2, OpIs DEF Leaving, SigningAlone, Awaited
<1>6. Gone'
  <2>1. CASE kind \in Leaves /\ job[c].status = "ok"
    <3>1. job[c].gives = "clears"
      BY <1>1, <2>1, OpIs DEF SInv, Server, Carried, WellFormed
    <3> QED BY <1>2, <1>3, <1>4, <2>1, <3>1, CookieOf DEF Gone, Renewing
  <2>2. CASE ~(kind \in Leaves /\ job[c].status = "ok")
    <3>1. SUFFICES ASSUME left, racing = {} PROVE r.refresh = 0
      BY <1>3, <1>4, <2>2 DEF Leaving, Gone, Renewing
    <3>2. jar.refresh = 0 /\ kind # "social"
      BY <1>1, <3>1 DEF Leaving, Gone, SigningAlone, Signing
    <3>3. job[c].gives # "sets"
      BY <1>1, <3>2, OpIs, CookieOf
    <3> QED BY <1>2, <3>2, <3>3, CookieOf
  <2> QED BY <2>1, <2>2
<1>7. Visible'
  <2> SUFFICES ASSUME shown', ~leaving', ~unseen' PROVE r.refresh # 0
    BY <1>3 DEF Visible
  <2>1. CASE job[c].status = "ok" /\ kind \in Shows
    BY <1>3, <2>1
  <2>2. CASE ~(job[c].status = "ok" /\ kind \in Shows)
    <3>1. jar.refresh # 0
      BY <1>3, <2>2 DEF Leaving, Visible
    <3>2. job[c].gives # "clears"
      BY <1>1, <1>3, OpIs DEF Leaving, Matching, Honest
    <3> QED BY <1>2, <3>1, <3>2, CookieOf
  <2> QED BY <2>1, <2>2
<1> QED BY <1>4, <1>5, <1>6, <1>7 DEF Leaving, SigningAlone

\* The first response was a 401: the call starts a refresh, waits for one, or asks again.
LEMMA GoesOnLeaves ==
    ASSUME SInv, Leaving, NEW c \in Jobs, call[c].at = "first", call[c].kind # "social",
           job[c].status = "unauthorized",
           jar' = Cookies(c), NEW it, call' = [call EXCEPT ![c] = it], it.kind = call[c].kind,
           it.at \in {"renewing", "waiting", "again"},
           NEW q, job' = [job EXCEPT ![c] = q], Honest(q),
           it.at # "waiting" => q.user = Cookies(c).access /\ q.session = Cookies(c).refresh,
           it.at = "again" => q.op = OpOf(it.kind),
           it.at = "renewing" => q.op = "refresh",
           UNCHANGED <<shown, leaving, left, racing, unseen>>
    PROVE  Leaving'
<1>1. PICK kind \in Kinds : kind = call[c].kind /\ job[c].op = OpOf(kind) /\ kind # "social"
  BY DEF SInv, Browser, Page, Leaving, Matching
<1>2. PICK r : r = Cookies(c)
  OBVIOUS
<1>3. /\ call'[c] = it /\ job'[c] = q
      /\ \A d \in Jobs : d # c => call'[d] = call[d] /\ job'[d] = job[d]
  BY DEF SInv, Server, Browser, Page, Types
<1>4. Matching'
  BY <1>1, <1>3 DEF Leaving, Matching, Renewing
<1>5. job[c].gives \notin {"sets", "clears"}
  BY <1>1, OpIs, CookieOf DEF Leaving, Matching, Honest
<1>6. r.refresh = jar.refresh
  BY <1>2, <1>5, CookieOf
<1>7. ASSUME NEW x \in Jobs, Signing(x)'
      PROVE  /\ ~shown' /\ ~left' /\ jar'.refresh = 0
             /\ \A d \in Jobs \ {x} : call'[d].at # "idle" =>
                   /\ call'[d].kind = "greet"
                   /\ Awaited(d)' => job'[d].user = 0 /\ job'[d].session = 0
  <2>1. x # c /\ Signing(x)
    BY <1>1, <1>3, <1>7 DEF Signing
  <2>2. kind = "greet" /\ r.refresh = 0 /\ r.access = 0
    BY <1>1, <1>2, <2>1, Beside DEF Awaited
  <2>3. ~shown' /\ ~left' /\ jar'.refresh = 0
    BY <1>2, <2>1, <2>2 DEF Leaving, SigningAlone
  <2>4. ASSUME NEW d \in Jobs \ {x}, call'[d].at # "idle"
        PROVE  /\ call'[d].kind = "greet"
               /\ Awaited(d)' => job'[d].user = 0 /\ job'[d].session = 0
    <3>1. CASE d = c
      BY <1>1, <1>2, <1>3, <2>2, <3>1 DEF Awaited
    <3>2. CASE d # c
      BY <1>3, <2>1, <2>4, <3>2 DEF Leaving, SigningAlone, Awaited
    <3> QED BY <3>1, <3>2
  <2> QED BY <2>3, <2>4
<1>8. Gone'
  BY <1>2, <1>3, <1>6 DEF Leaving, Gone, Renewing
<1>9. Visible'
  BY <1>2, <1>6 DEF Leaving, Visible
<1> QED BY <1>4, <1>7, <1>8, <1>9 DEF Leaving, SigningAlone

LEMMA RespondsLeaves ==
    ASSUME SInv, Leaving, NEW c \in Jobs, Responds(c)
    PROVE  Leaving'
<1>1. CASE Returns(c, Cookies(c))
  BY <1>1, ReturnsLeaves DEF Responds, At
<1>2. CASE ~Returns(c, Cookies(c))
  <2>1. PICK it \in CallType : it = call[c] /\ it.at = "first" /\ it.kind \in Kinds
    BY DEF Responds, SInv, Browser, Page
  <2>2. PICK r : r = Cookies(c) /\ JarFits(r)
    BY CookieOf
  <2>3. /\ call[c].kind # "social" /\ job[c].status = "unauthorized" /\ jar' = Cookies(c)
        /\ UNCHANGED <<shown, leaving, left, racing, unseen>>
    BY <1>2, <2>1 DEF Responds, history
  <2>4. CASE /\ call' = [call EXCEPT ![c].at = "renewing"]
             /\ job' = [job EXCEPT ![c] = Asked(c, "refresh", r)]
    <3>1. PICK q \in JobType : /\ q = Asked(c, "refresh", r) /\ Honest(q) /\ q.op = OpOf("refresh")
                               /\ q.user = r.access /\ q.session = r.refresh
      BY <2>2, AskedIs DEF SInv
    <3>2. PICK new \in CallType : new = [it EXCEPT !.at = "renewing"]
                                   /\ new.kind = it.kind /\ new.at = "renewing"
      BY CallMoves
    <3>3. call' = [call EXCEPT ![c] = new]
      BY <2>1, <2>4, <3>2 DEF SInv, Browser, Page
    <3>4. job' = [job EXCEPT ![c] = q] /\ q.op = "refresh"
      BY <2>4, <3>1, OpIs
    <3> QED BY <2>1, <2>2, <2>3, <3>1, <3>2, <3>3, <3>4, GoesOnLeaves
  <2>5. CASE /\ call' = [call EXCEPT ![c].at = "waiting", ![c].on = refreshPromise]
             /\ job' = [job EXCEPT ![c] = Idle]
    <3>1. PICK p \in Jobs \union {0} : p = refreshPromise
      BY DEF SInv, Browser, Page
    <3>2. PICK new : new = [it EXCEPT !.at = "waiting", !.on = p]
      OBVIOUS
    <3>3. new.kind = it.kind /\ new.at = "waiting"
      BY <3>2 DEF CallType
    <3>4. call' = [call EXCEPT ![c] = new]
      BY <2>1, <2>5, <3>1, <3>2 DEF SInv, Browser, Page
    <3>5. PICK q : q = Idle /\ Honest(q)
      BY IdleHonest
    <3> QED BY <2>1, <2>3, <2>5, <3>3, <3>4, <3>5, GoesOnLeaves
  <2>6. CASE /\ call' = [call EXCEPT ![c].at = "again"]
             /\ job' = [job EXCEPT ![c] = Asked(c, call[c].kind, r)]
    <3>1. PICK q \in JobType : /\ q = Asked(c, it.kind, r) /\ Honest(q) /\ q.op = OpOf(it.kind)
                               /\ q.user = r.access /\ q.session = r.refresh
      BY <2>1, <2>2, AskedIs DEF SInv
    <3>2. PICK new \in CallType : new = [it EXCEPT !.at = "again"]
                                   /\ new.kind = it.kind /\ new.at = "again"
      BY CallMoves
    <3>3. call' = [call EXCEPT ![c] = new]
      BY <2>1, <2>6, <3>2 DEF SInv, Browser, Page
    <3>4. job' = [job EXCEPT ![c] = q]
      BY <2>1, <2>6, <3>1
    <3> QED BY <2>1, <2>2, <2>3, <3>1, <3>2, <3>3, <3>4, GoesOnLeaves
  <2> QED BY <1>2, <2>2, <2>4, <2>5, <2>6 DEF Responds
<1> QED BY <1>1, <1>2

LEMMA RenewedLeaves ==
    ASSUME SInv, Leaving, NEW c \in Jobs, Renewed(c)
    PROVE  Leaving'
<1>1. PICK r : r = Cookies(c) /\ JarFits(r)
  BY CookieOf
<1>2. /\ Renewing(c) /\ job[c].status = "ok" /\ jar' = r
      /\ UNCHANGED <<shown, leaving, left, racing, unseen>>
      /\ \A d \in Jobs : call'[d] = IF d \in WaitingFor(c)
                                    THEN [call[d] EXCEPT !.at = "again", !.on = 0] ELSE call[d]
      /\ \A d \in Jobs : job'[d] = IF d \in WaitingFor(c) THEN Asked(d, call[d].kind, r) ELSE job[d]
  BY <1>1 DEF Renewed, Woken, history
<1>3. job[c].op = "refresh" /\ job[c].session # 0 /\ job[c].gives # "clears"
  BY <1>2, OpIs DEF Leaving, Matching, Honest
<1>4. ASSUME NEW d \in WaitingFor(c)
      PROVE  /\ d \in Jobs /\ call'[d].at = "again" /\ call'[d].kind = call[d].kind
             /\ call[d].kind # "social" /\ call[d].at \in {"renewing", "waiting"}
             /\ Honest(job'[d]) /\ job'[d].op = OpOf(call[d].kind)
  <2>1. d \in Jobs /\ call[d].at \in {"renewing", "waiting"}
    BY <1>2 DEF WaitingFor, Renewing
  <2>2. PICK it \in CallType : it = call[d] /\ it.kind \in Kinds
    BY <2>1 DEF SInv, Browser, Page
  <2>3. PICK new : new = [it EXCEPT !.at = "again", !.on = 0]
    OBVIOUS
  <2>4. new.at = "again" /\ new.kind = it.kind
    BY <2>3 DEF CallType
  <2>5. PICK q \in JobType : q = Asked(d, it.kind, r) /\ Honest(q) /\ q.op = OpOf(it.kind)
    BY <1>1, <2>1, <2>2, AskedIs DEF SInv
  <2>6. call'[d] = new /\ job'[d] = q
    BY <1>2, <2>1, <2>2, <2>3, <2>5
  <2>7. call[d].kind # "social"
    BY <2>1 DEF Leaving, Matching
  <2> QED BY <2>1, <2>2, <2>4, <2>5, <2>6, <2>7
<1>5. Matching'
  <2> SUFFICES ASSUME NEW d \in Jobs
               PROVE  /\ Honest(job'[d])
                      /\ call'[d].at \in {"first", "again"} => job'[d].op = OpOf(call'[d].kind)
                      /\ call'[d].at = "renewing" => job'[d].op = "refresh"
                      /\ call'[d].at \in {"renewing", "waiting", "again"} => call'[d].kind # "social"
    BY DEF Matching, Renewing
  <2>1. CASE d \in WaitingFor(c)
    BY <1>4, <2>1
  <2>2. CASE d \notin WaitingFor(c)
    BY <1>2, <2>2 DEF Leaving, Matching, Renewing
  <2> QED BY <2>1, <2>2
<1>6. ASSUME NEW x \in Jobs, Signing(x)' PROVE FALSE
  <2>1. call'[x].at # "idle" /\ call'[x].kind = "social"
    BY <1>6 DEF Signing
  <2>2. x \notin WaitingFor(c)
    BY <1>4, <2>1
  <2>3. Signing(x) /\ x # c
    BY <1>2, <2>1, <2>2 DEF Signing, WaitingFor
  <2> QED BY <1>2, <1>3, <2>3, Beside DEF Awaited, Renewing
<1>7. Gone'
  BY <1>2, <1>3 DEF Leaving, Gone
<1>8. Visible'
  BY <1>1, <1>2, <1>3, CookieOf DEF Leaving, Visible
<1> QED BY <1>5, <1>6, <1>7, <1>8 DEF Leaving, SigningAlone

LEMMA RenewFailsLeaves ==
    ASSUME SInv, Leaving, NEW c \in Jobs, RenewFails(c)
    PROVE  Leaving'
<1>1. /\ Renewing(c) /\ jar' \in {Cookies(c), jar} /\ shown' = FALSE
      /\ UNCHANGED <<leaving, left, racing, unseen>> /\ NoCall.at = "idle"
      /\ \A d \in Jobs : /\ call'[d] = IF d \in WaitingFor(c) THEN NoCall ELSE call[d]
                         /\ job'[d] = IF d \in WaitingFor(c) THEN Idle ELSE job[d]
  BY DEF RenewFails, Woken, ClearUserWithOutSignout, Clears, NoCall
<1>2. Matching'
  <2> SUFFICES ASSUME NEW d \in Jobs
               PROVE  /\ Honest(job'[d])
                      /\ call'[d].at \in {"first", "again"} => job'[d].op = OpOf(call'[d].kind)
                      /\ call'[d].at = "renewing" => job'[d].op = "refresh"
                      /\ call'[d].at \in {"renewing", "waiting", "again"} => call'[d].kind # "social"
    BY DEF Matching, Renewing
  <2>1. CASE d \in WaitingFor(c)
    <3>1. PICK q : q = Idle /\ Honest(q)
      BY IdleHonest
    <3> QED BY <1>1, <2>1, <3>1
  <2>2. CASE d \notin WaitingFor(c)
    BY <1>1, <2>2 DEF Leaving, Matching, Renewing
  <2> QED BY <2>1, <2>2
<1>3. ASSUME NEW x \in Jobs, Signing(x)'
      PROVE  /\ ~left' /\ jar'.refresh = 0
             /\ \A d \in Jobs \ {x} : call'[d].at # "idle" =>
                   /\ call'[d].kind = "greet"
                   /\ Awaited(d)' => job'[d].user = 0 /\ job'[d].session = 0
  <2>1. Signing(x) /\ x \notin WaitingFor(c) /\ x # c
    BY <1>1, <1>3 DEF Signing, WaitingFor
  <2>2. Cookies(c).refresh = 0
    BY <1>1, <2>1, Beside DEF Awaited, Renewing
  <2>3. ~left' /\ jar'.refresh = 0
    BY <1>1, <2>1, <2>2 DEF Leaving, SigningAlone
  <2>4. \A d \in Jobs : call'[d].at # "idle" => call'[d] = call[d] /\ job'[d] = job[d]
    BY <1>1
  <2> QED BY <2>1, <2>3, <2>4 DEF Leaving, SigningAlone, Awaited
<1>4. Gone'
  <2>1. \A d \in Jobs : call'[d].at = "renewing" => call[d].at = "renewing" /\ job'[d] = job[d]
    BY <1>1
  <2>2. job[c].session = 0 => job[c].gives # "sets"
    BY CookieOf
  <2>3. job[c].session = 0 /\ jar.refresh = 0 => Cookies(c).refresh = 0
    BY <2>2, CookieOf
  <2> QED BY <1>1, <2>1, <2>3 DEF Leaving, Gone, Renewing
<1>5. Visible'
  BY <1>1 DEF Visible
<1> QED BY <1>1, <1>2, <1>3, <1>4, <1>5 DEF Leaving, SigningAlone

\* Nothing that signs in or out happens, and calls may end.
LEMMA NothingLeaves ==
    ASSUME SInv, Leaving, Matching', UNCHANGED <<leaving, left, racing, unseen>>,
           shown' = shown \/ shown' = FALSE, jar'.refresh \in {0, jar.refresh},
           shown' /\ ~unseen => jar'.refresh = jar.refresh,
           \A d \in Jobs : call'[d].at # "idle" => call'[d] = call[d],
           \A d \in Jobs : Awaited(d)' =>
              /\ job[d].user = 0 /\ job[d].session = 0 => job'[d].user = 0 /\ job'[d].session = 0
              /\ Renewing(d) /\ job[d].session = 0 => job'[d].session = 0
    PROVE  Leaving'
<1>1. SigningAlone'
  BY DEF Leaving, SigningAlone, Signing, Awaited
<1>2. Gone'
  BY DEF Leaving, Gone, Renewing, Awaited
<1>3. Visible'
  BY DEF Leaving, Visible
<1> QED BY <1>1, <1>2, <1>3 DEF Leaving

LEMMA LostLeaves ==
    ASSUME SInv, Leaving, NEW c \in Jobs, Lost(c)
    PROVE  Leaving'
<1>1. /\ call' = [call EXCEPT ![c] = NoCall] /\ job' = [job EXCEPT ![c] = Idle]
      /\ UNCHANGED <<jar, leaving, left, racing, unseen>> /\ (shown' = shown \/ shown' = FALSE)
  BY DEF Lost
<1>2. /\ \A d \in Jobs : d # c => call'[d] = call[d] /\ job'[d] = job[d]
      /\ call'[c].at = "idle" /\ Matching'
  BY <1>1, EndOf
<1> QED BY <1>1, <1>2, NothingLeaves DEF Awaited

LEMMA UnloadLeaves == ASSUME SInv, Leaving, Unload PROVE Leaving'
<1>1. /\ UNCHANGED <<job, jar, left, racing, unseen>> /\ shown' = FALSE
      /\ \A c \in Jobs : call'[c].at = "idle"
  BY IdleHonest DEF Unload, avars, history
<1>2. Matching' /\ SigningAlone' /\ Gone'
  BY <1>1 DEF Leaving, Matching, Renewing, SigningAlone, Signing, Gone
<1> QED BY <1>1, <1>2 DEF Leaving, Visible

LEMMA PauseLeaves == ASSUME SInv, Leaving, Pause PROVE Leaving'
<1>1. /\ UNCHANGED <<job, call, shown, leaving, left, racing>>
      /\ unseen' = (unseen \/ (shown /\ jar.refreshLeft <= TenMinutes))
      /\ jar'.refresh = Remaining(jar.refreshLeft, jar.refresh)
      /\ \A c \in Jobs : call[c].at = "idle"
  BY DEF Pause, avars, InFlight
<1>2. jar.refreshLeft \in Nat /\ TenMinutes \in Nat
  BY DEF SInv, Browser, JarFits, JarType, TenMinutes
<1>3. jar.refreshLeft <= TenMinutes \/ jar'.refresh = jar.refresh
  BY <1>1, <1>2 DEF Remaining
<1>4. jar'.refresh \in {0, jar.refresh}
  BY <1>1 DEF Remaining
<1>5. jar'.refresh \in {0, jar.refresh} /\ (shown' /\ ~unseen' => jar'.refresh = jar.refresh)
  BY <1>1, <1>3, <1>4
<1>6. Matching'
  BY <1>1 DEF Leaving, Matching, Renewing
<1>7. SigningAlone' /\ Gone' /\ Visible'
  BY <1>1, <1>5 DEF Leaving, SigningAlone, Signing, Gone, Renewing, Visible
<1> QED BY <1>6, <1>7 DEF Leaving

LEMMA DroppedLeaves == ASSUME SInv, Leaving, NEW c \in Jobs, Dropped(c) PROVE Leaving'
<1>1. /\ job' = [job EXCEPT ![c] = Idle] /\ call[c].at = "idle"
      /\ UNCHANGED <<jar, call, shown, leaving, left, racing, unseen>>
  BY DEF Dropped, Answered, browserVars, history
<1>2. PICK q : q = Idle /\ Honest(q)
  BY IdleHonest
<1>3. job'[c] = q /\ \A d \in Jobs : d # c => job'[d] = job[d]
  BY <1>1, <1>2 DEF SInv, Server, Types
<1>4. Matching'
  BY <1>1, <1>2, <1>3 DEF Leaving, Matching, Renewing
<1> QED BY <1>1, <1>3, <1>4, NothingLeaves DEF Awaited

LEMMA VisitLeaves ==
    ASSUME SInv, Leaving, NEW c \in Jobs, asked = 0, Requests(c), UNCHANGED <<browserVars, history>>
    PROVE  Leaving'
<1>1. PICK r \in JobType : IsNew(r) /\ job' = [job EXCEPT ![c] = r]
  BY RequestsAreNew DEF SInv, Server, Registry, Theirs
<1>2. /\ \A d \in Jobs : call[d].at = "idle"
      /\ UNCHANGED <<jar, call, shown, leaving, left, racing, unseen>>
  BY DEF SInv, Browser, Page, browserVars, history
<1>3. job'[c] = r /\ Honest(r) /\ \A d \in Jobs : d # c => job'[d] = job[d]
  BY <1>1, NewHonest DEF SInv, Server, Types
<1>4. Matching'
  BY <1>2, <1>3 DEF Leaving, Matching, Renewing
<1> QED BY <1>2, <1>4, NothingLeaves DEF Awaited

LEMMA HandlesLeaves ==
    ASSUME SInv, Leaving, NEW j \in Jobs, Handles(j), UNCHANGED <<browserVars, history>>
    PROVE  Leaving'
<1>1. UNCHANGED <<jar, call, shown, leaving, left, racing, unseen>>
  BY DEF browserVars, history
<1>2. (\A d \in Jobs : d # j => job'[d] = job[d]) /\ Behaves(job[j], job'[j])
  BY HandlesBehaves DEF SInv, Leaving, Matching, Others
<1>3. Matching'
  BY <1>1, <1>2 DEF Leaving, Matching, Renewing, Behaves
<1>4. ASSUME NEW d \in Jobs, Awaited(d)
      PROVE  /\ Renewing(d) /\ job[d].session = 0 => job'[d].session = 0
             /\ call[d].kind = "greet" /\ job[d].user = 0 /\ job[d].session = 0 =>
                   job'[d].user = 0 /\ job'[d].session = 0
  <2>1. CASE d # j
    BY <1>2, <2>1
  <2>2. CASE d = j
    <3>1. /\ Renewing(j) => job[j].op = "refresh"
          /\ call[j].kind = "greet" => job[j].op \in {"profile", "refresh"}
      BY <1>4, <2>2, OpIs DEF Leaving, Matching, Awaited, Renewing
    <3> QED BY <1>2, <2>2, <3>1 DEF Behaves
  <2> QED BY <2>1, <2>2
<1>5. SigningAlone'
  BY <1>1, <1>4 DEF Leaving, SigningAlone, Signing, Awaited
<1>6. Gone' /\ Visible'
  BY <1>1, <1>4 DEF Leaving, Gone, Visible, Renewing, Awaited
<1> QED BY <1>3, <1>5, <1>6 DEF Leaving

LEMMA LeavingKeeps == ASSUME SInv, Leaving, [SNext]_svars PROVE Leaving'
<1>1. CASE UNCHANGED svars
  <2>1. UNCHANGED <<job, jar, call, shown, leaving, left, racing, unseen>>
    BY <1>1 DEF svars, avars, browserVars, history
  <2> QED BY <2>1 DEF Leaving, Matching, SigningAlone, Signing, Gone, Visible, Renewing, Awaited
<1>2. ASSUME NEW c \in Jobs, RespondsAgain(c) PROVE Leaving'
  BY <1>2, ReturnsLeaves DEF RespondsAgain, At
<1>3. ASSUME NEW c \in Jobs, NEW kind \in Kinds, Call(c, kind) PROVE Leaving'
  BY <1>3, CallLeaves
<1> QED BY <1>1, <1>2, <1>3, RespondsLeaves, RenewedLeaves, RenewFailsLeaves, LostLeaves, UnloadLeaves,
           PauseLeaves, DroppedLeaves, VisitLeaves, HandlesLeaves DEF SNext, Steps

LEMMA LeavingBegins == SInit => Leaving
<1> SUFFICES ASSUME SInit PROVE Leaving
  OBVIOUS
<1>1. /\ job = [j \in Jobs |-> Idle] /\ call = [c \in Jobs |-> NoCall] /\ left = FALSE
  BY DEF SInit, AInit
<1>2. shown => jar.refresh # 0
  BY DEF SInit, Returning
<1>3. Matching
  BY <1>1, IdleHonest DEF Matching, Renewing
<1>4. SigningAlone
  BY <1>1, IdleHonest DEF SigningAlone, Signing
<1> QED BY <1>1, <1>2, <1>3, <1>4 DEF Leaving, Gone, Visible

LEMMA LeavingAlways == SSpec => []Leaving
<1>1. SInv /\ Leaving /\ [SNext]_svars => Leaving'
  BY LeavingKeeps
<1> QED BY <1>1, LeavingBegins, Invariance, PTL DEF SSpec

\* Who signed out or withdrew is not signed in by the browser again, though requests
\* made before are still answered and their callers ask again (common.ts): only a
\* refresh in flight when the answer came can bring a session back.
THEOREM WhoLeftStaysOut == SSpec => []SignedOutStays
<1>1. Leaving => SignedOutStays
  BY DEF Leaving, Gone, SignedOutStays
<1> QED BY <1>1, LeavingAlways, PTL

\* The page shows a user only while the browser has a session (the auth store, which
\* every failed refresh clears): but for a cookie that ran out unnoticed, or a profile
\* that came after its user left.
THEOREM ShownIsSignedIn == SSpec => []ShownHasSession
<1>1. Leaving => ShownHasSession
  BY DEF Leaving, Visible, ShownHasSession
<1> QED BY <1>1, LeavingAlways, PTL

=============================================================================
