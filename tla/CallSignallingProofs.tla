------------------------- MODULE CallSignallingProofs -------------------------
(***************************************************************************)
(* Theorems about calls for every set of users and rooms and every number  *)
(* of handlers: the keys in Redis keep their shape, nobody is in a call    *)
(* who did not start or accept one, and handlers that never met leave keys *)
(* that agree.                                                             *)
(*                                                                         *)
(* A handler decides once and then sends commands whatever happens         *)
(* meanwhile, so the first invariant is about commands as well as keys: a  *)
(* value that Fits a key now fits it whenever it is written, because       *)
(* consent is never taken back.                                            *)
(*                                                                         *)
(* That the keys agree is not so while commands are under way. What holds  *)
(* then is that they will agree once the commands of the one handler at    *)
(* work are through (EndsIn), and that what it has read is so still        *)
(* (Knows).                                                                *)
(***************************************************************************)
EXTENDS CallSignalling, FiniteSetTheorems, SequenceTheorems, TLAPS

RoomKeys == {"room:call:request", "room:call:request:backup", "room:call:active"}
UserKeys == {"user:call:request", "user:call:active", "user:call:response"}

\* A value a key may have.
Fits(k, v) ==
    /\ k[1] \in RoomKeys => v \in SUBSET Users
    /\ k[1] \in UserKeys => v \in SUBSET Rooms /\ IsFiniteSet(v)
    /\ k[1] = "room:call:active" => Cardinality(v) # 1
    /\ k[1] # "room:call:active" => Cardinality(v) <= 1
    /\ k[1] \in {"room:call:active", "room:call:request"} => \A u \in v : <<u, k[2]>> \in consented

Commands ==
    {c \in [keys : SUBSET Keys, value : SUBSET (Users \union Rooms)] :
        \A k \in c.keys : Fits(k, c.value)}

TaskType == [pc : Phases, user : Users \union {Nobody}, room : Rooms \union {Nowhere}, n : 0 .. 5,
             seen : SUBSET Users, todo : Seq(Commands)]

\* What a handler knows on its way.
Sound(t) ==
    /\ t \in TaskType
    /\ t.pc \in {"ask", "ring", "accept", "reject", "end"} => t.user \in Users /\ t.room \in Rooms
    /\ t.pc = "expire" => t.room \in Rooms
    /\ t.pc = "ask" => t.n \in 1 .. 5
    /\ t.pc = "accept" => <<t.user, t.room>> \in consented
    /\ t.pc = "accept" /\ t.n = 3 => Fits(Request(t.room), t.seen)
    /\ t.pc = "end" /\ t.n = 2 => Fits(Active(t.room), t.seen)
    /\ t.pc = "run" => t.todo # <<>>

Stored == db = [k \in Keys |-> db[k]] /\ \A k \in Keys : Fits(k, db[k])
Serving == task = [h \in Handlers |-> task[h]] /\ \A h \in Handlers : Sound(task[h])
Outside ==
    /\ online \union closing \subseteq Users
    /\ incoming \subseteq Users \X Users \X Rooms
    /\ expired \subseteq Rooms

CInv == Stored /\ Serving /\ Outside

-----------------------------------------------------------------------------
(* Keys, values and commands                                               *)

LEMMA KeyForms ==
    /\ \A r \in Rooms : Request(r) \in Keys /\ Backup(r) \in Keys /\ Active(r) \in Keys
    /\ \A u \in Users : UserRequest(u) \in Keys /\ UserActive(u) \in Keys /\ UserResponse(u) \in Keys
BY DEF Keys, Request, Backup, Active, UserRequest, UserActive, UserResponse

LEMMA NothingFits == ASSUME NEW k PROVE Fits(k, {})
<1>1. IsFiniteSet({}) /\ Cardinality({}) = 0
    BY FS_EmptySet
<1> QED
    BY <1>1 DEF Fits

LEMMA OneFits ==
    /\ \A r \in Rooms, u \in Users : <<u, r>> \in consented => Fits(Request(r), {u})
    /\ \A r \in Rooms, u \in Users : Fits(Backup(r), {u})
    /\ \A u \in Users, r \in Rooms :
         Fits(UserRequest(u), {r}) /\ Fits(UserActive(u), {r}) /\ Fits(UserResponse(u), {r})
<1>1. \A x : IsFiniteSet({x}) /\ Cardinality({x}) = 1
    BY FS_Singleton
<1>2. /\ \A r \in Rooms, u \in Users : <<u, r>> \in consented => Fits(Request(r), {u})
      /\ \A r \in Rooms, u \in Users : Fits(Backup(r), {u})
    BY <1>1 DEF Fits, Request, Backup, RoomKeys, UserKeys
<1>3. ASSUME NEW u \in Users, NEW r \in Rooms
      PROVE  Fits(UserRequest(u), {r}) /\ Fits(UserActive(u), {r}) /\ Fits(UserResponse(u), {r})
    <2>1. IsFiniteSet({r}) /\ Cardinality({r}) = 1
        BY <1>1
    <2> QED
        BY <2>1 DEF Fits, UserRequest, UserActive, UserResponse, RoomKeys, UserKeys
<1> QED
    BY <1>2, <1>3

LEMMA DeletionIsCommand == ASSUME NEW keys \in SUBSET Keys PROVE Put(keys, {}) \in Commands
BY NothingFits DEF Put, Commands

LEMMA WriteIsCommand ==
    ASSUME NEW k \in Keys, NEW v \in SUBSET (Users \union Rooms), Fits(k, v)
    PROVE  Put({k}, v) \in Commands
BY DEF Put, Commands

LEMMA SeqGrows == ASSUME NEW S, NEW T, S \subseteq T PROVE Seq(S) \subseteq Seq(T)
OBVIOUS

\* Consent is never taken back.
LEMMA FitsStays ==
    ASSUME consented \subseteq consented', NEW k, NEW v, Fits(k, v) PROVE Fits(k, v)'
BY DEF Fits

LEMMA StoredStays ==
    ASSUME Stored, UNCHANGED db, consented \subseteq consented' PROVE Stored'
<1>1. \A k, v : Fits(k, v) => Fits(k, v)'
    BY FitsStays
<1> QED
    BY <1>1 DEF Stored

LEMMA CommandsStay == ASSUME consented \subseteq consented' PROVE Commands \subseteq Commands'
BY FitsStays DEF Commands

LEMMA SoundStays == ASSUME consented \subseteq consented', NEW t, Sound(t) PROVE Sound(t)'
<1>1. t \in TaskType'
    BY CommandsStay, SeqGrows DEF Sound, TaskType
<1>2. \A k, v : Fits(k, v) => Fits(k, v)'
    BY FitsStays
<1> QED
    BY <1>1, <1>2 DEF Sound, Request, Active

-----------------------------------------------------------------------------
(* A handler takes a step and writes nothing                               *)

LEMMA TaskStep ==
    ASSUME CInv, NEW h \in Handlers, NEW t, Sound(t)', task' = [task EXCEPT ![h] = t],
           UNCHANGED db, consented \subseteq consented', Outside'
    PROVE  CInv'
<1>1. Stored'
    BY StoredStays DEF CInv, Stored
<1>2. Serving'
    BY SoundStays DEF CInv, Serving
<1> QED
    BY <1>1, <1>2 DEF CInv

LEMMA IdleIsSound == Sound(Idle)
BY DEF Sound, Idle, TaskType, Phases

LEMMA TaskIsSound == ASSUME CInv, NEW h \in Handlers PROVE Sound(task[h]) /\ task[h] \in TaskType
BY DEF CInv, Serving, Sound

\* The handler has these commands left to send.
LEMMA RunStep ==
    ASSUME CInv, NEW h \in Handlers, NEW commands, commands \in Seq(Commands)', Run(h, commands),
           UNCHANGED db, consented \subseteq consented', Outside'
    PROVE  CInv'
<1>1. CASE commands = <<>>
    <2>1. Sound(Idle)'
        BY IdleIsSound, SoundStays
    <2> QED
        BY <1>1, <2>1, TaskStep DEF Run
<1>2. CASE commands # <<>>
    <2>1. task[h] \in TaskType'
        BY TaskIsSound, SoundStays DEF Sound
    <2>2. PICK t : t = [task[h] EXCEPT !.pc = "run", !.todo = commands]
        OBVIOUS
    <2>3. t.pc = "run" /\ t.todo = commands /\ t \in TaskType'
        BY <2>1, <2>2 DEF TaskType, Phases
    <2>4. Sound(t)'
        BY <1>2, <2>3 DEF Sound
    <2>5. task' = [task EXCEPT ![h] = t]
        BY <1>2, <2>2 DEF Run, CInv, Serving
    <2> QED
        BY <2>4, <2>5, TaskStep
<1> QED
    BY <1>1, <1>2

LEMMA RunOn ==
    ASSUME CInv, NEW h \in Handlers, NEW commands \in Seq(Commands), Run(h, commands),
           UNCHANGED <<db, consented, online, closing, incoming, expired>>
    PROVE  CInv'
<1>1. commands \in Seq(Commands)'
    BY CommandsStay, SeqGrows
<1>2. Outside'
    BY DEF CInv, Outside
<1> QED
    BY <1>1, <1>2, RunStep

\* A handler starts.
LEMMA StartStep ==
    ASSUME CInv, NEW h \in Handlers, NEW pc \in {"ask", "accept", "reject", "end", "expire"},
           NEW u \in Users \union {Nobody}, NEW r \in Rooms, Start(h, pc, u, r),
           pc # "expire" => u \in Users, pc = "accept" => <<u, r>> \in consented',
           UNCHANGED db, consented \subseteq consented', Outside'
    PROVE  CInv'
<1>1. PICK t : t = [Idle EXCEPT !.pc = pc, !.user = u, !.room = r, !.n = 1]
    OBVIOUS
<1>2. t = [pc |-> pc, user |-> u, room |-> r, n |-> 1, seen |-> {}, todo |-> <<>>]
    BY <1>1 DEF Idle
<1>3. /\ t.pc = pc /\ t.user = u /\ t.room = r /\ t.n = 1
      /\ t \in TaskType'
    BY <1>2 DEF TaskType, Phases
<1>4. Sound(t)'
    BY <1>3 DEF Sound
<1>5. task' = [task EXCEPT ![h] = t]
    BY <1>1 DEF Start
<1> QED
    BY <1>4, <1>5, TaskStep

LEMMA Untouched ==
    ASSUME CInv, UNCHANGED <<db, task>>, consented \subseteq consented', Outside'
    PROVE  CInv'
BY StoredStays, SoundStays DEF CInv, Stored, Serving

-----------------------------------------------------------------------------
(* Commands                                                                *)

LEMMA ExecuteKeeps == ASSUME CInv, NEW h \in Handlers, Execute(h) PROVE CInv'
<1>1. task[h].pc = "run" /\ task[h].todo \in Seq(Commands) /\ task[h].todo # <<>>
    BY TaskIsSound DEF Execute, Sound, TaskType
<1>2. PICK c \in Commands : c = Head(task[h].todo)
    BY <1>1, HeadTailProperties
<1>3. PICK rest \in Seq(Commands) : rest = Tail(task[h].todo)
    BY <1>1, HeadTailProperties
<1>4. /\ db' = [k \in Keys |-> IF k \in c.keys THEN c.value ELSE db[k]]
      /\ Run(h, rest) /\ UNCHANGED <<online, closing, incoming, expired, consented>>
    BY <1>2, <1>3 DEF Execute, history
<1>5. \A k \in c.keys : Fits(k, c.value)
    BY DEF Commands
<1>6. Stored'
    <2>1. \A k \in Keys : Fits(k, db'[k])
        BY <1>4, <1>5 DEF CInv, Stored
    <2>2. \A k, v : Fits(k, v) => Fits(k, v)'
        BY <1>4, FitsStays
    <2>3. db' = [k \in Keys |-> db'[k]]
        BY <1>4
    <2> QED
        BY <2>1, <2>2, <2>3 DEF Stored
<1>7. Outside'
    BY <1>4 DEF CInv, Outside
<1>8. Serving'
    <2>1. CASE rest = <<>>
        BY <1>4, <2>1, IdleIsSound, SoundStays DEF Run, CInv, Serving
    <2>2. CASE rest # <<>>
        <3>1. PICK t \in TaskType : t = [task[h] EXCEPT !.pc = "run", !.todo = rest]
            BY TaskIsSound DEF TaskType, Phases
        <3>2. t.pc = "run" /\ t.todo = rest
            BY <3>1, TaskIsSound DEF TaskType
        <3>3. Sound(t)
            BY <2>2, <3>2 DEF Sound
        <3>4. task' = [task EXCEPT ![h] = t]
            BY <1>4, <2>2, <3>1 DEF Run, CInv, Serving
        <3> QED
            BY <1>4, <3>3, <3>4, SoundStays DEF CInv, Serving
    <2> QED
        BY <2>1, <2>2
<1> QED
    BY <1>6, <1>7, <1>8 DEF CInv

\* A key goes, by expiry or by a command of its own.
LEMMA ForgetKeeps ==
    ASSUME CInv, NEW k \in Keys, db' = [db EXCEPT ![k] = {}], UNCHANGED <<task, consented>>, Outside'
    PROVE  CInv'
<1>1. \A q, v : Fits(q, v) => Fits(q, v)'
    BY FitsStays
<1>2. Stored'
    BY <1>1, NothingFits DEF CInv, Stored
<1> QED
    BY <1>2, SoundStays DEF CInv, Serving

-----------------------------------------------------------------------------
(* Requests and answers                                                    *)

LEMMA AskKeeps ==
    ASSUME CInv, NEW h \in Handlers, NEW u \in Users, NEW r \in Rooms, Ask(h, u, r) \/ End(h, u, r)
    PROVE  CInv'
<1>1. UNCHANGED <<db, consented>> /\ Outside'
    BY DEF Ask, End, CInv, Outside
<1> QED
    BY <1>1, StartStep DEF Ask, End

LEMMA AskGoesOn == ASSUME CInv, NEW h \in Handlers, AskRefused(h) \/ AskNext(h) PROVE CInv'
<1>1. UNCHANGED <<db, consented>> /\ Outside'
    BY DEF AskRefused, AskNext, CInv, Outside, history
<1>2. CASE AskRefused(h)
    BY <1>1, <1>2, IdleIsSound, SoundStays, TaskStep DEF AskRefused
<1>3. CASE AskNext(h)
    <2> DEFINE n == IF task[h].n < 5 THEN task[h].n + 1 ELSE task[h].n
               pc == IF task[h].n < 5 THEN "ask" ELSE "ring"
    <2>1. task[h].pc = "ask" /\ task[h].n \in 1 .. 5
        BY <1>3, TaskIsSound DEF AskNext, Sound
    <2>2. PICK t \in TaskType : t = [task[h] EXCEPT !.n = n, !.pc = pc]
        <3>1. n \in 0 .. 5 /\ pc \in Phases
            BY <2>1 DEF Phases
        <3> QED
            BY <3>1, TaskIsSound DEF TaskType
    <2>3. t.n = n /\ t.pc = pc /\ t.user = task[h].user /\ t.room = task[h].room
        BY <2>2, TaskIsSound DEF TaskType
    <2>4. Sound(t)
        <3>1. pc \in {"ask", "ring"} /\ n \in 1 .. 5
            BY <2>1
        <3>2. task[h].user \in Users /\ task[h].room \in Rooms
            BY <2>1, TaskIsSound DEF Sound
        <3> QED
            BY <2>3, <3>1, <3>2 DEF Sound
    <2>5. task' = [task EXCEPT ![h] = t]
        BY <1>3, <2>2 DEF AskNext, CInv, Serving
    <2> QED
        BY <1>1, <2>4, <2>5, SoundStays, TaskStep
<1> QED
    BY <1>2, <1>3

LEMMA RingKeeps == ASSUME CInv, NEW h \in Handlers, Ring(h) PROVE CInv'
<1>1. PICK u \in Users : u = task[h].user
    BY TaskIsSound DEF Ring, Sound
<1>2. PICK r \in Rooms : r = task[h].room
    BY TaskIsSound DEF Ring, Sound
<1>3. PICK ringing \in SUBSET Users : ringing = (online \intersect Members[r]) \ {u}
    BY DEF CInv, Outside
<1>4. /\ consented' = consented \union {<<u, r>>} /\ UNCHANGED <<db, online, closing, expired>>
      /\ incoming' = incoming \union {<<v, u, r>> : v \in ringing}
      /\ Run(h, <<Put({UserResponse(v) : v \in ringing}, {r}), Put({Request(r)}, {u}),
                  Put({Backup(r)}, {u}), Put({UserRequest(u)}, {r})>>)
    BY <1>1, <1>2, <1>3 DEF Ring
<1>5. Outside'
    BY <1>4 DEF CInv, Outside
<1>6. /\ Put({UserResponse(v) : v \in ringing}, {r}) \in Commands'
      /\ Put({Request(r)}, {u}) \in Commands'
      /\ Put({Backup(r)}, {u}) \in Commands'
      /\ Put({UserRequest(u)}, {r}) \in Commands'
    <2>1. /\ \A v \in Users : Fits(UserResponse(v), {r})' /\ Fits(UserRequest(u), {r})'
          /\ Fits(Backup(r), {u})' /\ Fits(Request(r), {u})'
        <3>1. Cardinality({u}) = 1 /\ Cardinality({r}) = 1 /\ IsFiniteSet({r})
            BY FS_Singleton
        <3> QED
            BY <1>4, <3>1 DEF Fits, Request, Backup, UserRequest, UserResponse, RoomKeys, UserKeys
    <2> QED
        BY <2>1, KeyForms DEF Put, Commands
<1>7. PICK commands : commands = <<Put({UserResponse(v) : v \in ringing}, {r}), Put({Request(r)}, {u}),
                                   Put({Backup(r)}, {u}), Put({UserRequest(u)}, {r})>>
    OBVIOUS
<1>8. commands \in Seq(Commands)'
    BY <1>6, <1>7
<1> QED
    BY <1>4, <1>5, <1>7, <1>8, RunStep

LEMMA AnswerKeeps ==
    ASSUME CInv, NEW h \in Handlers, NEW u \in Users, NEW c \in Users, NEW r \in Rooms,
           NEW accepted \in BOOLEAN, Answer(h, u, c, r, accepted)
    PROVE  CInv'
<1>1. /\ UNCHANGED db /\ consented \subseteq consented' /\ Outside'
      /\ accepted => <<u, r>> \in consented'
    BY DEF Answer, CInv, Outside
<1>2. CASE c \in online
    <2>1. PICK pc \in {"accept", "reject"} : pc = IF accepted THEN "accept" ELSE "reject"
        OBVIOUS
    <2> QED
        BY <1>1, <1>2, <2>1, StartStep DEF Answer
<1>3. CASE c \notin online
    BY <1>1, <1>3, Untouched DEF Answer
<1> QED
    BY <1>2, <1>3

LEMMA AnswerUnmarkKeeps == ASSUME CInv, NEW h \in Handlers, AnswerUnmark(h) PROVE CInv'
<1>1. PICK u \in Users : u = task[h].user
    BY TaskIsSound DEF AnswerUnmark, Sound
<1>2. UNCHANGED consented /\ Outside' /\ db' = [db EXCEPT ![UserResponse(u)] = {}]
    BY <1>1 DEF AnswerUnmark, CInv, Outside, history
<1>3. PICK t : t = IF task[h].pc = "accept" THEN [task[h] EXCEPT !.n = 2] ELSE Idle
    OBVIOUS
<1>4. Sound(t)
    <2>1. CASE task[h].pc = "accept"
        <3>1. t.n = 2 /\ t.pc = "accept" /\ t.user = task[h].user /\ t.room = task[h].room
            BY <1>3, <2>1, TaskIsSound DEF TaskType
        <3>2. t \in TaskType
            BY <1>3, <2>1, TaskIsSound DEF TaskType
        <3> QED
            BY <2>1, <3>1, <3>2, TaskIsSound DEF Sound
    <2>2. CASE task[h].pc # "accept"
        BY <1>3, <2>2, IdleIsSound
    <2> QED
        BY <2>1, <2>2
<1>5. task' = [task EXCEPT ![h] = t]
    BY <1>3 DEF AnswerUnmark, CInv, Serving
<1>6. Serving'
    BY <1>2, <1>4, <1>5, SoundStays DEF CInv, Serving
<1>7. Stored'
    <2>1. \A k, v : Fits(k, v) => Fits(k, v)'
        BY <1>2, FitsStays
    <2> QED
        BY <1>2, <2>1, NothingFits, KeyForms DEF CInv, Stored
<1> QED
    BY <1>2, <1>6, <1>7 DEF CInv

LEMMA AcceptReadKeeps == ASSUME CInv, NEW h \in Handlers, AcceptRead(h) PROVE CInv'
<1>1. task[h].pc = "accept" /\ Sound(task[h]) /\ task[h].room \in Rooms /\ task[h].user \in Users
    BY TaskIsSound DEF AcceptRead, Sound
<1>2. PICK seen \in SUBSET Users : seen = db[Request(task[h].room)] /\ Fits(Request(task[h].room), seen)
    BY <1>1, KeyForms DEF CInv, Stored, Fits, Request, RoomKeys
<1>3. PICK t : t = [task[h] EXCEPT !.seen = seen, !.n = 3]
    OBVIOUS
<1>4. /\ t.pc = "accept" /\ t.n = 3 /\ t.seen = seen /\ t.user = task[h].user /\ t.room = task[h].room
      /\ t \in TaskType
    <2>1. PICK old \in TaskType : old = task[h]
        BY TaskIsSound
    <2>2. t = [old EXCEPT !.seen = seen, !.n = 3]
        BY <1>3, <2>1
    <2>3. t \in TaskType
        <3>1. 3 \in 0 .. 5
            OBVIOUS
        <3>2. \A n \in 0 .. 5 : [old EXCEPT !.seen = seen, !.n = n] \in TaskType
            BY DEF TaskType
        <3> QED
            BY <2>2, <3>1, <3>2
    <2>4. /\ t.seen = seen /\ t.n = 3
          /\ t.pc = old.pc /\ t.user = old.user /\ t.room = old.room
        BY <2>2 DEF TaskType
    <2> QED
        BY <1>1, <2>1, <2>3, <2>4
<1>5. Sound(t)
    BY <1>1, <1>2, <1>4 DEF Sound
<1>6. task' = [task EXCEPT ![h] = t] /\ UNCHANGED <<db, consented>> /\ Outside'
    BY <1>2, <1>3 DEF AcceptRead, CInv, Serving, Outside, history
<1> QED
    BY <1>5, <1>6, SoundStays, TaskStep

LEMMA EndReadKeeps == ASSUME CInv, NEW h \in Handlers, EndRead(h) PROVE CInv'
<1>1. task[h].pc = "end" /\ Sound(task[h]) /\ task[h].room \in Rooms /\ task[h].user \in Users
    BY TaskIsSound DEF EndRead, Sound
<1>2. PICK seen \in SUBSET Users : seen = db[Active(task[h].room)] /\ Fits(Active(task[h].room), seen)
    BY <1>1, KeyForms DEF CInv, Stored, Fits, Active, RoomKeys
<1>3. PICK t : t = [task[h] EXCEPT !.seen = seen, !.n = 2]
    OBVIOUS
<1>4. /\ t.pc = "end" /\ t.n = 2 /\ t.seen = seen /\ t.user = task[h].user /\ t.room = task[h].room
      /\ t \in TaskType
    <2>1. PICK old \in TaskType : old = task[h]
        BY TaskIsSound
    <2>2. t = [old EXCEPT !.seen = seen, !.n = 2]
        BY <1>3, <2>1
    <2>3. t \in TaskType
        <3>1. 2 \in 0 .. 5
            OBVIOUS
        <3>2. \A n \in 0 .. 5 : [old EXCEPT !.seen = seen, !.n = n] \in TaskType
            BY DEF TaskType
        <3> QED
            BY <2>2, <3>1, <3>2
    <2>4. /\ t.seen = seen /\ t.n = 2
          /\ t.pc = old.pc /\ t.user = old.user /\ t.room = old.room
        BY <2>2 DEF TaskType
    <2> QED
        BY <1>1, <2>1, <2>3, <2>4
<1>5. Sound(t)
    BY <1>1, <1>2, <1>4 DEF Sound
<1>6. task' = [task EXCEPT ![h] = t] /\ UNCHANGED <<db, consented>> /\ Outside'
    BY <1>2, <1>3 DEF EndRead, CInv, Serving, Outside, history
<1> QED
    BY <1>5, <1>6, SoundStays, TaskStep

-----------------------------------------------------------------------------
(* Joining and ending                                                      *)

\* A call has two participants: a caller who asked, another who accepted.
LEMMA TwoFit ==
    ASSUME NEW r \in Rooms, NEW c \in Users, NEW u \in Users, c # u,
           <<c, r>> \in consented, <<u, r>> \in consented
    PROVE  Fits(Active(r), {c, u})
<1>1. Cardinality({c, u}) = 2
  <2>1. IsFiniteSet({c}) /\ Cardinality({c}) = 1
    BY FS_Singleton
  <2>2. Cardinality({c} \union {u}) = 2
    BY <2>1, FS_AddElement
  <2> QED
    BY <2>2, {c} \union {u} = {c, u}
<1> QED
    BY <1>1 DEF Fits, Active, RoomKeys, UserKeys

\* ... and stays a call when one more joins.
LEMMA MoreFit ==
    ASSUME NEW r \in Rooms, NEW s, Fits(Active(r), s), s # {}, NEW u \in Users, u \notin s,
           <<u, r>> \in consented
    PROVE  Fits(Active(r), s \union {u})
<1>1. s \in SUBSET Users /\ Cardinality(s) # 1
    BY DEF Fits, Active, RoomKeys
<1>2. IsFiniteSet(s) /\ Cardinality(s) \in Nat
    BY <1>1, CallAssumption, FS_Subset, FS_CardinalityType
<1>3. Cardinality(s \union {u}) = Cardinality(s) + 1
    BY <1>2, FS_AddElement
<1>4. Cardinality(s) # 0
    BY <1>2, FS_EmptySet
<1>5. Cardinality(s \union {u}) # 1
    BY <1>2, <1>3, <1>4
<1> QED
    BY <1>1, <1>5 DEF Fits, Active, RoomKeys, UserKeys

LEMMA AcceptJoinKeeps == ASSUME CInv, NEW h \in Handlers, AcceptJoin(h) PROVE CInv'
<1>1. /\ task[h].pc = "accept" /\ task[h].n = 3 /\ task[h].user \in Users /\ task[h].room \in Rooms
      /\ <<task[h].user, task[h].room>> \in consented /\ Fits(Request(task[h].room), task[h].seen)
    BY TaskIsSound DEF AcceptJoin, Sound
<1>2. PICK u \in Users, r \in Rooms : u = task[h].user /\ r = task[h].room
    BY <1>1
<1>3. PICK request : request = task[h].seen
    OBVIOUS
<1>4. PICK participants : participants = db[Active(r)]
    OBVIOUS
<1>5. /\ <<u, r>> \in consented
      /\ request \in SUBSET Users /\ \A c \in request : <<c, r>> \in consented
      /\ Fits(Active(r), participants) /\ participants \in SUBSET Users
    BY <1>1, <1>2, <1>3, <1>4, KeyForms DEF Fits, Request, Active, RoomKeys, CInv, Stored
<1>6. PICK commands : commands = AcceptCommands(request, participants, u, r)
    OBVIOUS
<1>7. <<>> \in Seq(Commands)
    OBVIOUS
<1>8. ASSUME NEW c \in request PROVE JoinRequesting(c, u, r) \in Seq(Commands)
    <2>1. CASE c = u
        BY <1>7, <2>1 DEF JoinRequesting
    <2>2. CASE c # u
        <3>1. Put({Active(r)}, {c, u}) \in Commands
            BY <1>5, <1>8, <2>2, TwoFit, KeyForms, WriteIsCommand
        <3>2. Put({UserActive(c)}, {r}) \in Commands /\ Put({UserActive(u)}, {r}) \in Commands
            BY <1>5, <1>8, OneFits, KeyForms, WriteIsCommand
        <3>3. /\ Del(Request(r)) \in Commands /\ Del(Backup(r)) \in Commands
              /\ Del(UserRequest(c)) \in Commands
            BY <1>5, <1>8, KeyForms, DeletionIsCommand DEF Del
        <3> QED
            BY <2>2, <3>1, <3>2, <3>3 DEF JoinRequesting
    <2> QED
        BY <2>1, <2>2
<1>9. participants # {} => JoinActive(participants, u, r) \in Seq(Commands)
    <2>1. CASE u \in participants
        BY <1>7, <2>1 DEF JoinActive
    <2>2. CASE u \notin participants /\ participants # {}
        <3>1. Put({Active(r)}, participants \union {u}) \in Commands
            BY <1>5, <2>2, MoreFit, KeyForms, WriteIsCommand
        <3>2. Put({UserActive(u)}, {r}) \in Commands
            BY OneFits, KeyForms, WriteIsCommand
        <3> QED
            BY <2>2, <3>1, <3>2 DEF JoinActive
    <2> QED
        BY <2>1, <2>2
<1>10. commands \in Seq(Commands)
    BY <1>6, <1>7, <1>8, <1>9 DEF AcceptCommands
<1>11. /\ Run(h, commands)
       /\ UNCHANGED <<db, consented, online, closing, incoming, expired>>
    BY <1>2, <1>3, <1>4, <1>6 DEF AcceptJoin
<1> QED
    BY <1>10, <1>11, RunOn

LEMMA JoinedCommands ==
    ASSUME NEW p, NEW q, p \in Seq(Commands), q \in Seq(Commands) PROVE p \o q \in Seq(Commands)
<1>1. PICK C : C = Commands
    OBVIOUS
<1> QED
    BY <1>1, ConcatProperties

\* Whoever ends a call deletes keys, and a leaver writes back what was read.
LEMMA FreeingIsCommands ==
    ASSUME NEW S \in SUBSET Users, NEW order \in Orders(S) PROVE Freeing(order) \in Seq(Commands)
<1>1. PICK n \in Nat : n = Cardinality(S)
    BY CallAssumption, FS_Subset, FS_CardinalityType
<1>2. order \in [1 .. n -> Users] /\ Len(order) = n
    BY <1>1 DEF Orders
<1>3. ASSUME NEW i \in 1 .. 2 * n
      PROVE  (IF i % 2 = 1 THEN UserActive(order[(i + 1) \div 2])
                           ELSE UserRequest(order[i \div 2])) \in Keys
    <2>1. CASE i % 2 = 1
        <3>1. (i + 1) \div 2 \in 1 .. n
            BY <2>1
        <3> QED
            BY <1>2, <2>1, <3>1, KeyForms
    <2>2. CASE i % 2 # 1
        <3>1. i \div 2 \in 1 .. n
            BY <2>2
        <3> QED
            BY <1>2, <2>2, <3>1, KeyForms
    <2> QED
        BY <2>1, <2>2
<1>4. \A k \in Keys : Del(k) \in Commands
    BY DeletionIsCommand DEF Del
<1>5. Freeing(order) \in [1 .. 2 * n -> Commands]
    BY <1>2, <1>3, <1>4 DEF Freeing
<1> QED
    BY <1>5, 2 * n \in Nat

LEMMA EndingIsCommands ==
    ASSUME NEW S \in SUBSET Users, NEW u \in Users, NEW r \in Rooms, Fits(Active(r), S),
           NEW p \in CallEndings(S, u, r)
    PROVE  p \in Seq(Commands)
<1>1. CASE p = <<>>
    BY <1>1
<1>2. ASSUME NEW order \in Orders(S) PROVE EndCompletely(order, r) \in Seq(Commands)
    <2>1. <<Del(Active(r))>> \in Seq(Commands)
        BY KeyForms, DeletionIsCommand DEF Del
    <2>2. {UserResponse(order[i]) : i \in DOMAIN order} \in SUBSET Keys
        <3>1. \A i \in DOMAIN order : order[i] \in Users
            BY <1>2 DEF Orders
        <3> QED
            BY <3>1, KeyForms
    <2>3. <<Put({UserResponse(order[i]) : i \in DOMAIN order}, {})>> \in Seq(Commands)
        BY <2>2, DeletionIsCommand
    <2>4. PICK a \in Seq(Commands), b \in Seq(Commands), c \in Seq(Commands) :
            /\ a = <<Del(Active(r))>> /\ b = Freeing(order)
            /\ c = <<Put({UserResponse(order[i]) : i \in DOMAIN order}, {})>>
        BY <2>1, <2>3, FreeingIsCommands
    <2>5. PICK ab \in Seq(Commands) : ab = a \o b
        BY JoinedCommands
    <2>6. ab \o c \in Seq(Commands)
        BY JoinedCommands
    <2> QED
        BY <2>4, <2>5, <2>6 DEF EndCompletely
<1>3. LeaveCall(S, u, r) \in Seq(Commands)
    <2>1. Put({Active(r)}, S) \in Commands
        BY KeyForms, WriteIsCommand
    <2>2. Del(UserActive(u)) \in Commands /\ Del(UserRequest(u)) \in Commands
        BY KeyForms, DeletionIsCommand DEF Del
    <2> QED
        BY <2>1, <2>2 DEF LeaveCall
<1> QED
    BY <1>1, <1>2, <1>3 DEF CallEndings

LEMMA EndDecideKeeps == ASSUME CInv, NEW h \in Handlers, EndDecide(h) PROVE CInv'
<1>1. /\ task[h].user \in Users /\ task[h].room \in Rooms /\ task[h].seen \in SUBSET Users
      /\ Fits(Active(task[h].room), task[h].seen)
    BY TaskIsSound DEF EndDecide, Sound, TaskType
<1>2. PICK u \in Users, r \in Rooms, participants \in SUBSET Users :
        u = task[h].user /\ r = task[h].room /\ participants = task[h].seen
    BY <1>1
<1>3. Fits(Active(r), participants)
    BY <1>1, <1>2
<1>4. PICK request \in SUBSET Users : request = db[Request(r)]
    BY KeyForms DEF CInv, Stored, Fits, Request, RoomKeys
<1>5. UNCHANGED <<db, consented, online, closing, incoming, expired>>
    BY DEF EndDecide
<1>6. CASE Run(h, <<>>)
    <2>1. PICK commands : commands = <<>>
        OBVIOUS
    <2>2. commands \in Seq(Commands)
        BY <2>1
    <2> QED
        BY <1>5, <1>6, <2>1, <2>2, RunOn
<1>7. ASSUME NEW p \in CallEndings(participants, u, r),
             NEW q \in IF request = {} THEN {<<>>} ELSE {EndRequest(c, u, r) : c \in request},
             Run(h, p \o q)
      PROVE  CInv'
    <2>1. p \in Seq(Commands)
        BY <1>3, EndingIsCommands
    <2>2. q \in Seq(Commands)
        <3>1. CASE q = <<>>
            BY <3>1
        <3>2. ASSUME NEW c \in request PROVE EndRequest(c, u, r) \in Seq(Commands)
            BY KeyForms, DeletionIsCommand DEF EndRequest, Del
        <3> QED
            BY <3>1, <3>2
    <2>3. PICK commands \in Seq(Commands) : commands = p \o q
        BY <2>1, <2>2, JoinedCommands
    <2> QED
        BY <1>5, <1>7, <2>3, RunOn
<1> QED
    BY <1>2, <1>4, <1>6, <1>7 DEF EndDecide

-----------------------------------------------------------------------------
(* Expiry, sockets and crashes                                             *)

LEMMA ExpireDecideKeeps == ASSUME CInv, NEW h \in Handlers, ExpireDecide(h) PROVE CInv'
<1>1. PICK r \in Rooms : r = task[h].room
    BY TaskIsSound DEF ExpireDecide, Sound
<1>2. PICK backup \in SUBSET Users : backup = db[Backup(r)]
    BY KeyForms DEF CInv, Stored, Fits, Backup, RoomKeys
<1>3. PICK c : c = CHOOSE v \in backup : TRUE
    OBVIOUS
<1>4. PICK commands : commands = IF backup = {} THEN <<>>
                                 ELSE <<Put({UserResponse(v) : v \in Members[r] \ {c}}, {}),
                                        Del(UserRequest(c)), Del(Backup(r))>>
    OBVIOUS
<1>5. commands \in Seq(Commands)
    <2>1. CASE backup = {}
        BY <1>4, <2>1
    <2>2. CASE backup # {}
        <3>1. c \in Users
            BY <1>3, <2>2
        <3>2. {UserResponse(v) : v \in Members[r] \ {c}} \in SUBSET Keys
            BY CallAssumption, KeyForms
        <3>3. /\ Put({UserResponse(v) : v \in Members[r] \ {c}}, {}) \in Commands
              /\ Del(UserRequest(c)) \in Commands /\ Del(Backup(r)) \in Commands
            BY <3>1, <3>2, KeyForms, DeletionIsCommand DEF Del
        <3> QED
            BY <1>4, <2>2, <3>3
    <2> QED
        BY <2>1, <2>2
<1>6. Run(h, commands) /\ UNCHANGED <<db, consented, online, closing, incoming, expired>>
    BY <1>1, <1>2, <1>3, <1>4 DEF ExpireDecide, history
<1> QED
    BY <1>5, <1>6, RunOn

LEMMA SocketsKeep ==
    ASSUME CInv, NEW u \in Users, Disconnect(u) \/ Connect(u) PROVE CInv'
<1>1. UNCHANGED <<db, task, consented>> /\ Outside'
    <2>1. CASE Disconnect(u)
        BY <2>1 DEF Disconnect, CInv, Outside, history
    <2>2. CASE Connect(u)
        BY <2>2 DEF Connect, CInv, Outside, history
    <2> QED
        BY <2>1, <2>2
<1> QED
    BY <1>1, Untouched

LEMMA OnDisconnectKeeps == ASSUME CInv, NEW h \in Handlers, NEW u \in Users, OnDisconnect(h, u) PROVE CInv'
<1>1. UNCHANGED <<db, consented>> /\ Outside'
    BY DEF OnDisconnect, CInv, Outside
<1>2. db[UserActive(u)] \subseteq Rooms
    BY KeyForms DEF CInv, Stored, Fits, UserActive, UserKeys
<1> QED
    BY <1>1, <1>2, StartStep, Untouched DEF OnDisconnect

LEMMA KeyGone ==
    ASSUME CInv,
           \/ \E u \in Users : ExpireUserRequest(u)
           \/ \E r \in Rooms : ExpireRequest(r) \/ ExpireBackup(r)
           \/ \E k \in Keys : ExpireCall(k)
    PROVE  CInv'
<1>1. ASSUME NEW u \in Users, ExpireUserRequest(u) PROVE CInv'
    <2>1. Outside'
        BY <1>1 DEF ExpireUserRequest, CInv, Outside, history
    <2> QED
        BY <1>1, <2>1, KeyForms, ForgetKeeps DEF ExpireUserRequest, history
<1>2. ASSUME NEW r \in Rooms, ExpireRequest(r) PROVE CInv'
    <2>1. Outside'
        BY <1>2 DEF ExpireRequest, CInv, Outside
    <2> QED
        BY <1>2, <2>1, KeyForms, ForgetKeeps DEF ExpireRequest
<1>3. ASSUME NEW r \in Rooms, ExpireBackup(r) PROVE CInv'
    <2>1. Outside'
        BY <1>3 DEF ExpireBackup, CInv, Outside, history
    <2> QED
        BY <1>3, <2>1, KeyForms, ForgetKeeps DEF ExpireBackup, history
<1>4. ASSUME NEW k \in Keys, ExpireCall(k) PROVE CInv'
    <2>1. Outside'
        BY <1>4 DEF ExpireCall, CInv, Outside
    <2> QED
        BY <1>4, <2>1, ForgetKeeps DEF ExpireCall
<1> QED
    BY <1>1, <1>2, <1>3, <1>4

LEMMA OnExpiredKeeps == ASSUME CInv, NEW h \in Handlers, NEW r \in Rooms, OnExpired(h, r) PROVE CInv'
<1>1. UNCHANGED <<db, consented>> /\ Outside'
    BY DEF OnExpired, CInv, Outside
<1> QED
    BY <1>1, StartStep DEF OnExpired

LEMMA CrashKeeps == ASSUME CInv, Crash PROVE CInv'
<1>1. UNCHANGED <<db, consented>> /\ Outside'
    BY DEF Crash, CInv, Outside
<1>2. Stored'
    BY <1>1, StoredStays DEF CInv
<1>3. Serving'
    BY <1>1, IdleIsSound, SoundStays DEF Crash, Serving
<1> QED
    BY <1>1, <1>2, <1>3 DEF CInv

-----------------------------------------------------------------------------
(* The theorems                                                            *)

LEMMA InitHolds == ASSUME Init PROVE CInv
BY NothingFits, IdleIsSound DEF Init, CInv, Stored, Serving, Outside

LEMMA StepKeeps == ASSUME CInv, [Next]_vars PROVE CInv'
<1>1. CASE UNCHANGED vars
    <2>1. UNCHANGED <<db, task, consented>> /\ Outside'
        BY <1>1 DEF vars, history, CInv, Outside
    <2> QED
        BY <2>1, Untouched
<1>2. ASSUME NEW h \in Handlers, HandlerStep(h) PROVE CInv'
    BY <1>2, ExecuteKeeps, AskGoesOn, RingKeeps, AnswerUnmarkKeeps, AcceptReadKeeps, AcceptJoinKeeps,
       EndReadKeeps, EndDecideKeeps, ExpireDecideKeeps DEF HandlerStep
<1>3. /\ \A h \in Handlers, u \in Users, r \in Rooms : Ask(h, u, r) \/ End(h, u, r) => CInv'
      /\ \A h \in Handlers, r \in Rooms : OnExpired(h, r) => CInv'
    BY AskKeeps, OnExpiredKeeps
<1>4. ASSUME NEW h \in Handlers, NEW u \in Users, NEW c \in Users, NEW r \in Rooms, NEW yes \in BOOLEAN,
             Answer(h, u, c, r, yes)
      PROVE  CInv'
    BY <1>4, AnswerKeeps
<1>5. ASSUME NEW h \in Handlers, NEW u \in Users, OnDisconnect(h, u) PROVE CInv'
    BY <1>5, OnDisconnectKeeps
<1>6. ASSUME NEW u \in Users, Disconnect(u) \/ Connect(u) PROVE CInv'
    BY <1>6, SocketsKeep
<1> QED
    BY <1>1, <1>2, <1>3, <1>4, <1>5, <1>6, KeyGone, CrashKeeps DEF Next

LEMMA InvariantHolds == Spec => []CInv
<1>1. Init => CInv
    BY InitHolds
<1>2. CInv /\ [Next]_vars => CInv'
    BY StepKeeps
<1> QED
    BY <1>1, <1>2, PTL DEF Spec

\* Keys and handlers keep their shape: a room key holds users and a user key
\* at most one room, and no call has a single participant.
THEOREM CallsTypeCorrect == Spec => []TypeOK
<1>1. CInv => TypeOK
    <2> SUFFICES ASSUME CInv PROVE TypeOK
        OBVIOUS
    <2>1. DOMAIN db = Keys
        BY DEF CInv, Stored
    <2>2. \A k \in Keys : Fits(k, db[k])
        BY DEF CInv, Stored
    <2>3. \A r \in Rooms : Fits(Request(r), db[Request(r)]) /\ Fits(Backup(r), db[Backup(r)])
                           /\ Fits(Active(r), db[Active(r)])
        BY <2>2, KeyForms
    <2>4. \A u \in Users : Fits(UserRequest(u), db[UserRequest(u)]) /\ Fits(UserActive(u), db[UserActive(u)])
                           /\ Fits(UserResponse(u), db[UserResponse(u)])
        BY <2>2, KeyForms
    <2>5. \A r \in Rooms :
            /\ db[Request(r)] \subseteq Users /\ Cardinality(db[Request(r)]) <= 1
            /\ db[Backup(r)] \subseteq Users /\ Cardinality(db[Backup(r)]) <= 1
            /\ db[Active(r)] \subseteq Users /\ Cardinality(db[Active(r)]) # 1
        BY <2>3 DEF Fits, Request, Backup, Active, RoomKeys
    <2>6. \A u \in Users : \A key \in {UserRequest(u), UserActive(u), UserResponse(u)} :
            db[key] \subseteq Rooms /\ Cardinality(db[key]) <= 1
        BY <2>4 DEF Fits, UserRequest, UserActive, UserResponse, UserKeys
    <2>7. \A h \in Handlers : task[h].pc \in Phases
        BY TaskIsSound DEF TaskType
    <2> QED
        BY <2>1, <2>5, <2>6, <2>7 DEF TypeOK, CInv, Outside
<1> QED
    BY <1>1, InvariantHolds, PTL

\* Whatever joins, expiries and crashes interleave, whoever Redis holds as a
\* participant of a call or of a request started or accepted a call there.
THEOREM OnlyWhoConsented == Spec => []ParticipantsConsented
<1>1. CInv => ParticipantsConsented
    <2> SUFFICES ASSUME CInv PROVE ParticipantsConsented
        OBVIOUS
    <2>1. \A r \in Rooms : Fits(Request(r), db[Request(r)]) /\ Fits(Active(r), db[Active(r)])
        BY KeyForms DEF CInv, Stored
    <2> QED
        BY <2>1 DEF Fits, Request, Active, ParticipantsConsented
<1> QED
    BY <1>1, InvariantHolds, PTL

-----------------------------------------------------------------------------
(* Handlers that never met                                                 *)

\* After the commands c, sent to the keys d, k has the value v.
Settles(c, d, k, v) ==
    /\ \A i \in 1 .. Len(c) : k \in c[i].keys => c[i].value = v
    /\ (\A i \in 1 .. Len(c) : k \notin c[i].keys) => d[k] = v

\* ... and all keys together have the values f.
EndsIn(c, d, f) == \A k \in Keys : Settles(c, d, k, f[k])

Elsewhere(u, r) == \E q \in Rooms \ {r} : <<u, q>> \in consented

\* The keys of room r agree; in the rooms E the request has just expired.
AgreeAt(f, E, r) ==
    /\ r \notin E => f[Backup(r)] = f[Request(r)]
    /\ r \in E => f[Request(r)] = {}
    /\ f[Request(r)] # {} => f[Active(r)] = {}
    /\ \A u \in Users :
        /\ u \in f[Backup(r)] => <<u, r>> \in consented
        /\ u \in f[Request(r)] => Elsewhere(u, r) \/ f[UserRequest(u)] = {r}
        /\ f[UserRequest(u)] = {r} => u \in f[Backup(r)]
        /\ f[UserActive(u)] = {r} => u \in f[Active(r)]
        /\ u \in f[Active(r)] =>
              <<u, r>> \in left \/ Elsewhere(u, r) \/ f[UserActive(u)] = {r}

Agree(f, E) == \A r \in Rooms : AgreeAt(f, E, r)

\* The rooms whose request has expired, and is not cleared up after.
Gone(t) == IF t.pc = "expire" THEN expired \union {t.room} ELSE expired

\* A request is saved before its caller's mark, and commands are about the
\* request of one room.
Marks(c) ==
    \A i \in 1 .. Len(c), q \in Rooms, u \in Users :
        Request(q) \in c[i].keys /\ u \in c[i].value =>
            \E j \in i + 1 .. Len(c) : UserRequest(u) \in c[j].keys

OfRoom(c, r) ==
    \A i \in 1 .. Len(c), q \in Rooms :
        Request(q) \in c[i].keys \/ Backup(q) \in c[i].keys => q = r

\* What a handler that meets no other has read is so still.
Knows(t) ==
    /\ t.pc = "run" => Marks(t.todo) /\ OfRoom(t.todo, t.room)
    /\ t.pc # "run" => t.todo = <<>>
    /\ t.pc \in {"ask", "ring", "accept", "reject", "end"} => expired = {}
    /\ t.pc = "ask" => \A i \in 1 .. t.n - 1 : db[Obstacles(t.user, t.room)[i]] = {}
    /\ t.pc = "ring" => \A i \in 1 .. 5 : db[Obstacles(t.user, t.room)[i]] = {}
    /\ t.pc = "accept" /\ t.n = 3 => t.seen = db[Request(t.room)]
    /\ t.pc = "end" => t.user \in db[Active(t.room)] \union db[Request(t.room)]
    /\ t.pc = "end" /\ t.n = 2 => t.seen = db[Active(t.room)]

\* With a handler at work, the keys agree once its commands are through.
AtWork(t) == Knows(t) /\ \E f : EndsIn(t.todo, db, f) /\ Agree(f, Gone(t))

Alone ==
    /\ \A h, k \in Handlers : Busy(h) /\ Busy(k) => h = k
    /\ \A h \in Handlers : Busy(h) => AtWork(task[h])
    /\ (\A h \in Handlers : ~Busy(h)) => Agree(db, expired)

AInv == ~disturbed => Alone

LEMMA KeysDiffer ==
    ASSUME NEW r, NEW q, NEW u, NEW v
    PROVE  /\ Request(r) # Backup(q) /\ Request(r) # Active(q) /\ Backup(r) # Active(q)
           /\ Request(r) # UserRequest(u) /\ Request(r) # UserActive(u) /\ Request(r) # UserResponse(u)
           /\ Backup(r) # UserRequest(u) /\ Backup(r) # UserActive(u) /\ Backup(r) # UserResponse(u)
           /\ Active(r) # UserRequest(u) /\ Active(r) # UserActive(u) /\ Active(r) # UserResponse(u)
           /\ UserRequest(u) # UserActive(v) /\ UserRequest(u) # UserResponse(v)
           /\ UserActive(u) # UserResponse(v)
           /\ Request(r) = Request(q) => r = q
           /\ Backup(r) = Backup(q) => r = q
           /\ Active(r) = Active(q) => r = q
           /\ UserRequest(u) = UserRequest(v) => u = v
           /\ UserActive(u) = UserActive(v) => u = v
BY DEF Request, Backup, Active, UserRequest, UserActive, UserResponse

\* What the keys hold, by their kind.
LEMMA StoredKinds ==
    ASSUME CInv
    PROVE  /\ db = [k \in Keys |-> db[k]]
           /\ \A r \in Rooms : /\ db[Request(r)] \in SUBSET Users /\ db[Backup(r)] \in SUBSET Users
                               /\ db[Active(r)] \in SUBSET Users
                               /\ \A u \in db[Request(r)] \union db[Active(r)] : <<u, r>> \in consented
           /\ \A u \in Users : db[UserRequest(u)] \in SUBSET Rooms /\ db[UserActive(u)] \in SUBSET Rooms
<1>1. /\ \A r \in Rooms : /\ Fits(Request(r), db[Request(r)]) /\ Fits(Active(r), db[Active(r)])
                          /\ Fits(Backup(r), db[Backup(r)])
      /\ \A u \in Users : Fits(UserRequest(u), db[UserRequest(u)]) /\ Fits(UserActive(u), db[UserActive(u)])
    BY KeyForms DEF CInv, Stored
<1> QED
    BY <1>1 DEF Fits, Request, Backup, Active, UserRequest, UserActive, RoomKeys, UserKeys, CInv, Stored

\* A value that one element at most can be in.
LEMMA AtMostOne == ASSUME NEW S, NEW T, S \in SUBSET T, IsFiniteSet(T), Cardinality(S) <= 1, NEW c \in S
                   PROVE  S = {c}
<1>1. IsFiniteSet(S) /\ Cardinality(S) \in Nat
    BY FS_Subset, FS_CardinalityType
<1>2. Cardinality(S) = 1
    BY <1>1, FS_EmptySet
<1>3. PICK x : S = {x}
    BY <1>1, <1>2, FS_Singleton
<1> QED
    BY <1>3

LEMMA RequestIsOne ==
    ASSUME CInv, NEW r \in Rooms
    PROVE  /\ \A c \in db[Request(r)] : db[Request(r)] = {c}
           /\ \A c \in db[Backup(r)] : db[Backup(r)] = {c}
<1>1. Fits(Request(r), db[Request(r)]) /\ Fits(Backup(r), db[Backup(r)])
    BY KeyForms DEF CInv, Stored
<1>2. /\ db[Request(r)] \in SUBSET Users /\ Cardinality(db[Request(r)]) <= 1
      /\ db[Backup(r)] \in SUBSET Users /\ Cardinality(db[Backup(r)]) <= 1
    BY <1>1 DEF Fits, Request, Backup, RoomKeys
<1> QED
    BY <1>2, AtMostOne, CallAssumption

\* What agrees does so with any value of the marks of who is rung, and goes on
\* to while consent and leaving are only added to.
LEMMA AgreeSame ==
    ASSUME NEW f, NEW g, NEW E, Agree(f, E), consented \subseteq consented', left \subseteq left',
           \A r \in Rooms : f[Request(r)] = g[Request(r)] /\ f[Backup(r)] = g[Backup(r)]
                            /\ f[Active(r)] = g[Active(r)],
           \A u \in Users :
             f[UserRequest(u)] = g[UserRequest(u)] /\ f[UserActive(u)] = g[UserActive(u)]
    PROVE  Agree(g, E)'
BY DEF Agree, AgreeAt, Elsewhere

LEMMA AgreeStays ==
    ASSUME NEW f, NEW E, Agree(f, E), consented \subseteq consented', left \subseteq left'
    PROVE  Agree(f, E)'
BY AgreeSame
\* With no command left, the keys are what they end in.
LEMMA EndsNow == ASSUME NEW d, NEW f, EndsIn(<<>>, d, f) PROVE \A k \in Keys : f[k] = d[k]
BY DEF EndsIn, Settles

LEMMA NothingToSend == ASSUME NEW d PROVE EndsIn(<<>>, d, d)
BY DEF EndsIn, Settles

\* Sending the first command leaves the end as it is.
LEMMA SendFirst ==
    ASSUME NEW S, NEW c \in Seq(S), c # <<>>, NEW d, NEW e, NEW f, EndsIn(c, d, f),
           e = [k \in Keys |-> IF k \in Head(c).keys THEN Head(c).value ELSE d[k]]
    PROVE  EndsIn(Tail(c), e, f)
<1>1. /\ Len(c) \in Nat /\ Len(c) >= 1 /\ Len(Tail(c)) = Len(c) - 1 /\ Head(c) = c[1]
      /\ \A i \in 1 .. Len(Tail(c)) : Tail(c)[i] = c[i + 1]
    BY HeadTailProperties
<1>2. ASSUME NEW k \in Keys PROVE Settles(Tail(c), e, k, f[k])
    <2>1. Settles(c, d, k, f[k])
        BY DEF EndsIn
    <2>2. ASSUME NEW i \in 1 .. Len(Tail(c)), k \in Tail(c)[i].keys PROVE Tail(c)[i].value = f[k]
        <3>1. i + 1 \in 1 .. Len(c) /\ Tail(c)[i] = c[i + 1]
            BY <1>1
        <3> QED
            BY <2>1, <2>2, <3>1 DEF Settles
    <2>3. ASSUME \A i \in 1 .. Len(Tail(c)) : k \notin Tail(c)[i].keys PROVE e[k] = f[k]
        <3>1. CASE k \in c[1].keys
            <4>1. 1 \in 1 .. Len(c)
                BY <1>1
            <4> QED
                BY <1>1, <2>1, <3>1, <4>1 DEF Settles
        <3>2. CASE k \notin c[1].keys
            <4>1. ASSUME NEW i \in 1 .. Len(c) PROVE k \notin c[i].keys
                <5>1. CASE i = 1
                    BY <3>2, <5>1
                <5>2. CASE i # 1
                    <6>1. i - 1 \in 1 .. Len(Tail(c)) /\ Tail(c)[i - 1] = c[i]
                        BY <1>1, <5>2
                    <6> QED
                        BY <2>3, <6>1
                <5> QED
                    BY <5>1, <5>2
            <4> QED
                BY <1>1, <2>1, <3>2, <4>1 DEF Settles
        <3> QED
            BY <3>1, <3>2
    <2> QED
        BY <2>2, <2>3 DEF Settles
<1> QED
    BY <1>2 DEF EndsIn

\* What a command of the rest is about it was about before.
LEMMA RestOfCommands ==
    ASSUME NEW S, NEW c \in Seq(S), c # <<>>, NEW r, Marks(c), OfRoom(c, r)
    PROVE  Marks(Tail(c)) /\ OfRoom(Tail(c), r)
<1>1. /\ Len(c) \in Nat /\ Len(c) >= 1 /\ Len(Tail(c)) = Len(c) - 1
      /\ \A i \in 1 .. Len(Tail(c)) : Tail(c)[i] = c[i + 1] /\ i + 1 \in 1 .. Len(c)
    BY HeadTailProperties
<1>2. ASSUME NEW i \in 1 .. Len(Tail(c)), NEW q \in Rooms, NEW u \in Users,
             Request(q) \in Tail(c)[i].keys, u \in Tail(c)[i].value
      PROVE  \E j \in i + 1 .. Len(Tail(c)) : UserRequest(u) \in Tail(c)[j].keys
    <2>1. PICK j \in (i + 1) + 1 .. Len(c) : UserRequest(u) \in c[j].keys
        BY <1>1, <1>2 DEF Marks
    <2>2. j - 1 \in i + 1 .. Len(Tail(c)) /\ j - 1 \in 1 .. Len(Tail(c))
        BY <1>1, <2>1
    <2>3. Tail(c)[j - 1] = c[j]
        BY <1>1, <2>2
    <2> QED
        BY <2>1, <2>2, <2>3
<1>3. OfRoom(Tail(c), r)
    BY <1>1 DEF OfRoom
<1> QED
    BY <1>2, <1>3 DEF Marks

-----------------------------------------------------------------------------
(* Steps of a handler that meets no other                                  *)

\* Slot h is the one at work before and after the step, or comes to rest.
LEMMA OneAtWork ==
    ASSUME CInv, NEW h \in Handlers, NEW t, task' = [task EXCEPT ![h] = t],
           \A k \in Handlers : Busy(k) => k = h,
           t.pc # "idle" => AtWork(t)',
           t.pc = "idle" => Agree(db, expired)'
    PROVE  Alone'
<1>1. task'[h] = t /\ \A k \in Handlers : k # h => task'[k] = task[k]
    BY DEF CInv, Serving
<1>2. \A k \in Handlers : Busy(k)' => k = h
    BY <1>1 DEF Busy
<1>3. ASSUME NEW k \in Handlers, Busy(k)' PROVE AtWork(task[k])'
    <2>1. k = h
        BY <1>2, <1>3
    <2>2. t.pc # "idle"
        BY <1>1, <1>3, <2>1 DEF Busy
    <2> QED
        BY <1>1, <2>1, <2>2 DEF AtWork, Knows, Gone
<1>4. ASSUME \A k \in Handlers : ~Busy(k)' PROVE Agree(db, expired)'
    BY <1>1, <1>4 DEF Busy
<1> QED
    BY <1>2, <1>3, <1>4 DEF Alone

LEMMA BusyAlone ==
    ASSUME Alone, NEW h \in Handlers, Busy(h)
    PROVE  (\A k \in Handlers : Busy(k) => k = h) /\ AtWork(task[h])
BY DEF Alone

\* Before it sends commands, a handler finds the keys in agreement.
LEMMA AgreeNow ==
    ASSUME Alone, NEW h \in Handlers, task[h].pc \notin {"idle", "run"}
    PROVE  Agree(db, Gone(task[h])) /\ Knows(task[h])
<1>1. AtWork(task[h]) /\ task[h].todo = <<>>
    BY BusyAlone DEF Busy, AtWork, Knows
<1>2. PICK f : EndsIn(<<>>, db, f) /\ Agree(f, Gone(task[h]))
    BY <1>1 DEF AtWork
<1>3. PICK d : d = db
    OBVIOUS
<1>4. \A k \in Keys : f[k] = d[k]
    BY <1>2, <1>3, EndsNow
<1> QED
    BY <1>1, <1>2, <1>3, <1>4, KeyForms DEF AtWork, Agree, AgreeAt

\* Keys, consent and handlers stay: so does the agreement.
LEMMA NothingRests ==
    ASSUME Alone, UNCHANGED <<db, task, expired>>, consented \subseteq consented', left \subseteq left'
    PROVE  Alone'
<1>1. ASSUME NEW t, AtWork(t) PROVE AtWork(t)'
    <2>1. PICK E : E = Gone(t)
        OBVIOUS
    <2>2. PICK f : EndsIn(t.todo, db, f) /\ Agree(f, E)
        BY <1>1, <2>1 DEF AtWork
    <2>3. Agree(f, E)' /\ E = Gone(t)'
        BY <2>1, <2>2, AgreeStays DEF Gone
    <2>4. Knows(t)' /\ EndsIn(t.todo, db, f)'
        BY <1>1, <2>2 DEF AtWork, Knows, EndsIn, Settles
    <2> QED
        BY <2>3, <2>4 DEF AtWork
<1>2. Agree(db, expired) => Agree(db, expired)'
    <2>1. PICK f, E : f = db /\ E = expired
        OBVIOUS
    <2>2. Agree(f, E) => Agree(f, E)'
        BY AgreeStays
    <2> QED
        BY <2>1, <2>2
<1> QED
    BY <1>1, <1>2 DEF Alone, Busy
\* A handler starts while no other runs.
LEMMA StartRests ==
    ASSUME CInv, Alone, NEW h \in Handlers,
           NEW pc \in {"ask", "accept", "reject", "end", "expire"}, NEW u, NEW r,
           Start(h, pc, u, r), ~disturbed', UNCHANGED db,
           consented \subseteq consented', left \subseteq left',
           pc # "expire" => UNCHANGED expired,
           pc = "expire" => r \in expired /\ expired' = expired \ {r},
           pc = "end" => u \in db[Active(r)] \union db[Request(r)]
    PROVE  Alone'
<1>1. /\ \A k \in Handlers : ~Busy(k)
      /\ pc # "expire" => expired = {}
    BY DEF Start
<1>2. PICK t : t = [Idle EXCEPT !.pc = pc, !.user = u, !.room = r, !.n = 1]
    OBVIOUS
<1>3. t.pc = pc /\ t.user = u /\ t.room = r /\ t.n = 1 /\ t.todo = <<>>
    BY <1>2 DEF Idle
<1>4. task' = [task EXCEPT ![h] = t]
    BY <1>2 DEF Start
<1>5. Knows(t)'
    BY <1>1, <1>3 DEF Knows
<1>6. PICK f, E : f = db /\ E = expired
    OBVIOUS
<1>7. Agree(f, E)'
    BY <1>1, <1>6, AgreeStays DEF Alone
<1>8. Gone(t)' = E
    BY <1>1, <1>3, <1>6 DEF Gone
<1>9. EndsIn(t.todo, db, f)'
    BY <1>3, <1>6, NothingToSend
<1>10. AtWork(t)'
    BY <1>5, <1>7, <1>8, <1>9 DEF AtWork
<1> QED
    BY <1>1, <1>3, <1>4, <1>10, OneAtWork

\* A handler decides without a command.
LEMMA LocalRests ==
    ASSUME CInv, Alone, NEW h \in Handlers, task[h].pc \notin {"idle", "run", "expire"},
           NEW t, task' = [task EXCEPT ![h] = t], UNCHANGED <<expired, consented, left>>,
           \A k \in Keys : (\E u \in Users : k = UserResponse(u)) \/ db'[k] = db[k],
           t.pc # "expire", t.pc # "idle" => Knows(t)', t.todo = <<>>
    PROVE  Alone'
<1>1. Agree(db, Gone(task[h])) /\ \A k \in Handlers : Busy(k) => k = h
    BY AgreeNow, BusyAlone DEF Busy
<1>2. PICK f, g, E : f = db /\ g = db' /\ E = expired
    OBVIOUS
<1>3. Agree(f, E)
    BY <1>1, <1>2 DEF Gone
<1>4. /\ \A r \in Rooms : f[Request(r)] = g[Request(r)] /\ f[Backup(r)] = g[Backup(r)]
                          /\ f[Active(r)] = g[Active(r)]
      /\ \A u \in Users :
            f[UserRequest(u)] = g[UserRequest(u)] /\ f[UserActive(u)] = g[UserActive(u)]
    BY <1>2, KeyForms, KeysDiffer
<1>5. Agree(g, E)'
    BY <1>3, <1>4, AgreeSame
<1>6. t.pc # "idle" => AtWork(t)'
    <2>1. EndsIn(t.todo, db, g)'
        BY <1>2, NothingToSend
    <2>2. Gone(t)' = E
        BY <1>2 DEF Gone
    <2> QED
        BY <1>5, <2>1, <2>2 DEF AtWork
<1> QED
    BY <1>1, <1>2, <1>5, <1>6, OneAtWork

\* A handler decides, and has these commands to send.
LEMMA RunRests ==
    ASSUME CInv, Alone, NEW h \in Handlers, Busy(h), NEW c, Run(h, c), UNCHANGED <<db, expired>>,
           Marks(c), OfRoom(c, task[h].room),
           NEW f, EndsIn(c, db, f), NEW E, E = expired, Agree(f, E)'
    PROVE  Alone'
<1>1. \A k \in Handlers : Busy(k) => k = h
    BY BusyAlone
<1>2. CASE c = <<>>
    <2>1. PICK g : g = db
        OBVIOUS
    <2>2. \A k \in Keys : f[k] = g[k]
        BY <1>2, <2>1, EndsNow
    <2>3. Agree(g, E)'
        BY <2>2, KeyForms DEF Agree, AgreeAt
    <2>4. Idle.pc = "idle"
        BY DEF Idle
    <2>5. task' = [task EXCEPT ![h] = Idle]
        BY <1>2 DEF Run
    <2> QED
        BY <1>1, <2>1, <2>3, <2>4, <2>5, OneAtWork
<1>3. CASE c # <<>>
    <2>1. PICK t : t = [task[h] EXCEPT !.pc = "run", !.todo = c]
        OBVIOUS
    <2>2. t.pc = "run" /\ t.todo = c /\ t.room = task[h].room
        BY <2>1, TaskIsSound DEF TaskType
    <2>3. task' = [task EXCEPT ![h] = t]
        BY <1>3, <2>1 DEF Run, CInv, Serving
    <2>4. Knows(t)'
        BY <2>2 DEF Knows, Marks, OfRoom
    <2>5. EndsIn(t.todo, db, f)' /\ Gone(t)' = E
        BY <2>2 DEF EndsIn, Settles, Gone
    <2>6. AtWork(t)'
        BY <2>4, <2>5 DEF AtWork
    <2> QED
        BY <1>1, <2>2, <2>3, <2>6, OneAtWork
<1> QED
    BY <1>2, <1>3

LEMMA ExecuteRests == ASSUME CInv, Alone, NEW h \in Handlers, Execute(h) PROVE Alone'
<1>1. task[h].pc = "run" /\ task[h].todo \in Seq(Commands) /\ task[h].todo # <<>> /\ Busy(h)
    BY TaskIsSound DEF Execute, Sound, TaskType, Busy
<1>2. PICK C : C = Commands
    OBVIOUS
<1>3. PICK c \in Seq(C) : c = task[h].todo /\ c # <<>>
    BY <1>1, <1>2
<1>4. PICK r : r = task[h].room
    OBVIOUS
<1>5. PICK E : E = expired
    OBVIOUS
<1>6. PICK f : EndsIn(c, db, f) /\ Agree(f, E)
    BY <1>1, <1>3, <1>5, BusyAlone DEF AtWork, Gone
<1>7. Marks(c) /\ OfRoom(c, r)
    BY <1>1, <1>3, <1>4, BusyAlone DEF AtWork, Knows
<1>8. PICK rest : rest = Tail(c)
    OBVIOUS
<1>9. Marks(rest) /\ OfRoom(rest, r)
    BY <1>3, <1>7, <1>8, RestOfCommands
<1>10. PICK d, e : d = db /\ e = db'
    OBVIOUS
<1>11. e = [k \in Keys |-> IF k \in Head(c).keys THEN Head(c).value ELSE d[k]]
    BY <1>3, <1>10 DEF Execute
<1>12. EndsIn(rest, e, f)
    BY <1>3, <1>6, <1>8, <1>10, <1>11, SendFirst
<1>13. Run(h, rest) /\ UNCHANGED <<expired, consented, left>>
    BY <1>3, <1>8 DEF Execute, history
<1>14. Agree(f, E)'
    BY <1>6, <1>13, AgreeStays
<1>15. \A k \in Handlers : Busy(k) => k = h
    BY <1>1, BusyAlone
<1>16. CASE rest = <<>>
    <2>1. \A k \in Keys : f[k] = e[k]
        BY <1>12, <1>16, EndsNow
    <2>2. Agree(e, E)'
        BY <1>14, <2>1, KeyForms DEF Agree, AgreeAt
    <2>3. Idle.pc = "idle"
        BY DEF Idle
    <2>4. task' = [task EXCEPT ![h] = Idle]
        BY <1>13, <1>16 DEF Run
    <2> QED
        BY <1>5, <1>10, <1>13, <1>15, <2>2, <2>3, <2>4, OneAtWork
<1>17. CASE rest # <<>>
    <2>1. PICK t : t = [task[h] EXCEPT !.pc = "run", !.todo = rest]
        OBVIOUS
    <2>2. t.pc = "run" /\ t.todo = rest /\ t.room = r
        BY <1>4, <2>1, TaskIsSound DEF TaskType
    <2>3. task' = [task EXCEPT ![h] = t]
        BY <1>13, <1>17, <2>1 DEF Run, CInv, Serving
    <2>4. Knows(t)'
        BY <1>9, <2>2 DEF Knows, Marks, OfRoom
    <2>5. EndsIn(t.todo, db, f)' /\ Gone(t)' = E
        BY <1>5, <1>10, <1>12, <1>13, <2>2 DEF EndsIn, Settles, Gone
    <2>6. AtWork(t)'
        BY <1>14, <2>4, <2>5 DEF AtWork
    <2> QED
        BY <1>15, <2>2, <2>3, <2>6, OneAtWork
<1> QED
    BY <1>16, <1>17

-----------------------------------------------------------------------------
(* Handlers start                                                          *)

\* A user's own call is one call at most.
LEMMA CallIsOne ==
    ASSUME CInv, NEW u \in Users, NEW r \in db[UserActive(u)]
    PROVE  r \in Rooms /\ db[UserActive(u)] = {r}
<1>1. PICK v : v = db[UserActive(u)]
    OBVIOUS
<1>2. Fits(UserActive(u), v)
    BY <1>1, KeyForms DEF CInv, Stored
<1>3. v \in SUBSET Rooms /\ IsFiniteSet(v) /\ Cardinality(v) <= 1
    BY <1>2 DEF Fits, UserActive, UserKeys
<1>4. v \in SUBSET v
    OBVIOUS
<1> QED
    BY <1>1, <1>3, <1>4, AtMostOne

LEMMA AskRests ==
    ASSUME CInv, Alone, NEW h \in Handlers, NEW u \in Users, NEW r \in Rooms,
           Ask(h, u, r) \/ End(h, u, r), ~disturbed'
    PROVE  Alone'
<1>1. UNCHANGED <<db, expired, consented, left>>
    BY DEF Ask, End
<1>2. CASE Ask(h, u, r)
    <2>1. Start(h, "ask", u, r)
        BY <1>2 DEF Ask
    <2> QED
        BY <1>1, <2>1, StartRests
<1>3. CASE End(h, u, r)
    <2>1. Start(h, "end", u, r) /\ u \in db[Active(r)] \union db[Request(r)]
        BY <1>3 DEF End, ShowsCall
    <2> QED
        BY <1>1, <2>1, StartRests
<1> QED
    BY <1>2, <1>3

LEMMA AnswerRests ==
    ASSUME CInv, Alone, NEW h \in Handlers, NEW u \in Users, NEW c \in Users, NEW r \in Rooms,
           NEW accepted \in BOOLEAN, Answer(h, u, c, r, accepted), ~disturbed'
    PROVE  Alone'
<1>1. UNCHANGED <<db, expired, left>> /\ consented \subseteq consented'
    BY DEF Answer
<1>2. CASE c \in online
    <2>1. PICK pc \in {"accept", "reject"} : pc = IF accepted THEN "accept" ELSE "reject"
        OBVIOUS
    <2>2. Start(h, pc, u, r)
        BY <1>2, <2>1 DEF Answer
    <2> QED
        BY <1>1, <2>2, StartRests
<1>3. CASE c \notin online
    BY <1>1, <1>3, NothingRests DEF Answer
<1> QED
    BY <1>2, <1>3

\* With all at rest, who is marked as being in a call is in it.
LEMMA OnDisconnectRests ==
    ASSUME CInv, Alone, NEW h \in Handlers, NEW u \in Users, OnDisconnect(h, u), ~disturbed'
    PROVE  Alone'
<1>1. UNCHANGED <<db, expired, consented, left>>
    BY DEF OnDisconnect
<1>2. CASE db[UserActive(u)] = {}
    BY <1>1, <1>2, NothingRests DEF OnDisconnect
<1>3. ASSUME NEW r \in db[UserActive(u)], Start(h, "end", u, r) PROVE Alone'
    <2>1. r \in Rooms /\ db[UserActive(u)] = {r}
        BY CallIsOne
    <2>2. Agree(db, expired)
        BY <1>3 DEF Start, Alone
    <2>3. u \in db[Active(r)]
        BY <2>1, <2>2 DEF Agree, AgreeAt
    <2> QED
        BY <1>1, <1>3, <2>3, StartRests
<1> QED
    BY <1>2, <1>3 DEF OnDisconnect

LEMMA OnExpiredRests ==
    ASSUME CInv, Alone, NEW h \in Handlers, NEW r \in Rooms, OnExpired(h, r), ~disturbed'
    PROVE  Alone'
<1>1. /\ UNCHANGED <<db, consented, left>> /\ r \in expired /\ expired' = expired \ {r}
      /\ Start(h, "expire", Nobody, r)
    BY DEF OnExpired
<1> QED
    BY <1>1, StartRests
-----------------------------------------------------------------------------
(* Handlers read                                                           *)

\* What is found not to stand in the way does not while no other handler runs.
LEMMA AskGoesOnAlone ==
    ASSUME CInv, Alone, NEW h \in Handlers, AskRefused(h) \/ AskNext(h) PROVE Alone'
<1>1. UNCHANGED <<db, expired, consented, left>> /\ task[h].pc = "ask"
    BY DEF AskRefused, AskNext, history
<1>2. CASE AskRefused(h)
    <2>1. PICK t : t = Idle
        OBVIOUS
    <2>2. t.pc = "idle" /\ t.todo = <<>> /\ task' = [task EXCEPT ![h] = t]
        BY <1>2, <2>1 DEF AskRefused, Idle
    <2> QED
        BY <1>1, <2>2, LocalRests
<1>3. CASE AskNext(h)
    <2>1. PICK n \in 1 .. 5, old \in TaskType : n = task[h].n /\ old = task[h]
        BY <1>1, TaskIsSound DEF Sound
    <2>2. PICK t : t = [old EXCEPT !.n = IF n < 5 THEN n + 1 ELSE n, !.pc = IF n < 5 THEN "ask" ELSE "ring"]
        OBVIOUS
    <2>3. /\ t.n = (IF n < 5 THEN n + 1 ELSE n) /\ t.pc = (IF n < 5 THEN "ask" ELSE "ring")
          /\ t.user = old.user /\ t.room = old.room /\ t.todo = old.todo
        BY <2>2 DEF TaskType
    <2>4. task' = [task EXCEPT ![h] = t]
        BY <1>3, <2>1, <2>2 DEF AskNext, CInv, Serving
    <2>5. Knows(old) /\ expired = {} /\ old.todo = <<>>
        BY <1>1, <2>1, AgreeNow DEF Knows
    <2>6. \A i \in 1 .. n : db[Obstacles(t.user, t.room)[i]] = {}
        <3>1. \A i \in 1 .. n - 1 : db[Obstacles(t.user, t.room)[i]] = {}
            BY <1>1, <2>1, <2>3, <2>5 DEF Knows
        <3>2. db[Obstacles(t.user, t.room)[n]] = {}
            BY <1>3, <2>1, <2>3 DEF AskNext, Obstacle
        <3> QED
            BY <2>1, <3>1, <3>2
    <2>7. Knows(t)'
        <3>1. CASE n < 5
            <4>1. t.n - 1 = n /\ t.pc = "ask"
                BY <2>3, <3>1
            <4> QED
                BY <1>1, <2>3, <2>5, <2>6, <4>1 DEF Knows, Obstacles
        <3>2. CASE n = 5
            <4>1. t.pc = "ring"
                BY <2>3, <3>2
            <4> QED
                BY <1>1, <2>3, <2>5, <2>6, <3>2, <4>1 DEF Knows, Obstacles
        <3> QED
            BY <2>1, <3>1, <3>2
    <2>8. t.todo = <<>> /\ t.pc # "expire"
        BY <2>3, <2>5
    <2> QED
        BY <1>1, <2>4, <2>7, <2>8, LocalRests
<1> QED
    BY <1>2, <1>3

LEMMA AcceptReadRests == ASSUME CInv, Alone, NEW h \in Handlers, AcceptRead(h) PROVE Alone'
<1>1. UNCHANGED <<db, expired, consented, left>> /\ task[h].pc = "accept"
    BY DEF AcceptRead, history
<1>2. PICK old \in TaskType : old = task[h]
    BY TaskIsSound
<1>3. PICK seen : seen = db[Request(old.room)]
    OBVIOUS
<1>4. PICK t : t = [old EXCEPT !.seen = seen, !.n = 3]
    OBVIOUS
<1>5. /\ t.pc = "accept" /\ t.n = 3 /\ t.seen = seen
      /\ t.user = old.user /\ t.room = old.room /\ t.todo = old.todo
    BY <1>1, <1>2, <1>4 DEF TaskType
<1>6. task' = [task EXCEPT ![h] = t]
    BY <1>2, <1>3, <1>4 DEF AcceptRead, CInv, Serving
<1>7. expired = {} /\ old.todo = <<>>
    BY <1>1, <1>2, AgreeNow DEF Knows
<1>8. Knows(t)'
    BY <1>1, <1>3, <1>5, <1>7 DEF Knows
<1> QED
    BY <1>1, <1>5, <1>6, <1>7, <1>8, LocalRests

LEMMA EndReadRests == ASSUME CInv, Alone, NEW h \in Handlers, EndRead(h) PROVE Alone'
<1>1. UNCHANGED <<db, expired, consented, left>> /\ task[h].pc = "end"
    BY DEF EndRead, history
<1>2. PICK old \in TaskType : old = task[h]
    BY TaskIsSound
<1>3. PICK seen : seen = db[Active(old.room)]
    OBVIOUS
<1>4. PICK t : t = [old EXCEPT !.seen = seen, !.n = 2]
    OBVIOUS
<1>5. /\ t.pc = "end" /\ t.n = 2 /\ t.seen = seen
      /\ t.user = old.user /\ t.room = old.room /\ t.todo = old.todo
    BY <1>1, <1>2, <1>4 DEF TaskType
<1>6. task' = [task EXCEPT ![h] = t]
    BY <1>2, <1>3, <1>4 DEF EndRead, CInv, Serving
<1>7. expired = {} /\ old.todo = <<>> /\ old.user \in db[Active(old.room)] \union db[Request(old.room)]
    BY <1>1, <1>2, AgreeNow DEF Knows
<1>8. Knows(t)'
    BY <1>1, <1>3, <1>5, <1>7 DEF Knows
<1> QED
    BY <1>1, <1>5, <1>6, <1>7, <1>8, LocalRests

\* The mark of who is rung is no part of what agrees.
LEMMA AnswerUnmarkRests == ASSUME CInv, Alone, NEW h \in Handlers, AnswerUnmark(h) PROVE Alone'
<1>1. UNCHANGED <<expired, consented, left>> /\ task[h].pc \in {"accept", "reject"}
    BY DEF AnswerUnmark, history
<1>2. PICK u \in Users : u = task[h].user
    BY <1>1, TaskIsSound DEF Sound
<1>3. \A k \in Keys : (\E v \in Users : k = UserResponse(v)) \/ db'[k] = db[k]
    <2>1. db' = [db EXCEPT ![UserResponse(u)] = {}]
        BY <1>2 DEF AnswerUnmark
    <2> QED
        BY <2>1, StoredKinds
<1>4. CASE task[h].pc = "reject"
    <2>1. PICK t : t = Idle
        OBVIOUS
    <2>2. t.pc = "idle" /\ t.todo = <<>> /\ task' = [task EXCEPT ![h] = t]
        BY <1>4, <2>1 DEF AnswerUnmark, Idle, CInv, Serving
    <2> QED
        BY <1>1, <1>3, <2>2, LocalRests
<1>5. CASE task[h].pc = "accept"
    <2>1. PICK old \in TaskType : old = task[h]
        BY TaskIsSound
    <2>2. PICK t : t = [old EXCEPT !.n = 2]
        OBVIOUS
    <2>3. t.pc = "accept" /\ t.n = 2 /\ t.todo = old.todo
        BY <1>5, <2>1, <2>2 DEF TaskType
    <2>4. task' = [task EXCEPT ![h] = t]
        BY <1>5, <2>1, <2>2 DEF AnswerUnmark, CInv, Serving
    <2>5. expired = {} /\ old.todo = <<>>
        BY <1>5, <2>1, AgreeNow DEF Knows
    <2>6. Knows(t)'
        BY <1>1, <2>3, <2>5 DEF Knows
    <2> QED
        BY <1>1, <1>3, <2>3, <2>4, <2>5, <2>6, LocalRests
<1> QED
    BY <1>1, <1>4, <1>5
-----------------------------------------------------------------------------
(* Handlers decide                                                         *)

\* A request where nothing stood in the way.
LEMMA RingRests == ASSUME CInv, Alone, NEW h \in Handlers, Ring(h) PROVE Alone'
<1>1. PICK u \in Users, r \in Rooms : u = task[h].user /\ r = task[h].room
    BY TaskIsSound DEF Ring, Sound
<1>2. PICK ringing \in SUBSET Users : ringing = (online \intersect Members[r]) \ {u}
    BY DEF CInv, Outside
<1>3. PICK c : c = <<Put({UserResponse(v) : v \in ringing}, {r}), Put({Request(r)}, {u}),
                     Put({Backup(r)}, {u}), Put({UserRequest(u)}, {r})>>
    OBVIOUS
<1>4. /\ UNCHANGED <<db, expired, left>> /\ consented' = consented \union {<<u, r>>}
      /\ Run(h, c) /\ task[h].pc = "ring" /\ Busy(h)
    BY <1>1, <1>2, <1>3 DEF Ring, Busy
<1>5. PICK d, E : d = db /\ E = expired
    OBVIOUS
<1>6. Knows(task[h]) /\ Agree(d, E) /\ E = {}
    BY <1>4, <1>5, AgreeNow DEF Gone, Knows
<1>7. d[Request(r)] = {} /\ d[Active(r)] = {} /\ d[UserRequest(u)] = {} /\ d[Backup(r)] = {}
    <2>1. \A i \in 1 .. 5 : d[Obstacles(u, r)[i]] = {}
        BY <1>1, <1>4, <1>5, <1>6 DEF Knows
    <2>2. 1 \in 1 .. 5 /\ 2 \in 1 .. 5 /\ 4 \in 1 .. 5
        OBVIOUS
    <2>3. d[Obstacles(u, r)[1]] = {} /\ d[Obstacles(u, r)[2]] = {} /\ d[Obstacles(u, r)[4]] = {}
        BY <2>1, <2>2
    <2> QED
        BY <1>6, <2>3 DEF Obstacles, Agree, AgreeAt
<1>8. PICK f : f = [k \in Keys |-> IF k \in {UserResponse(v) : v \in ringing} THEN {r}
                                   ELSE IF k \in {Request(r), Backup(r)} THEN {u}
                                   ELSE IF k = UserRequest(u) THEN {r} ELSE d[k]]
    OBVIOUS
<1>9. /\ Len(c) = 4
      /\ c[1].keys = {UserResponse(v) : v \in ringing} /\ c[1].value = {r}
      /\ c[2].keys = {Request(r)} /\ c[2].value = {u}
      /\ c[3].keys = {Backup(r)} /\ c[3].value = {u}
      /\ c[4].keys = {UserRequest(u)} /\ c[4].value = {r}
    BY <1>3 DEF Put
<1>10. EndsIn(c, d, f)
    <2>1. ASSUME NEW k \in Keys PROVE Settles(c, d, k, f[k])
        <3>1. ASSUME NEW i \in 1 .. 4, k \in c[i].keys PROVE c[i].value = f[k]
            <4>1. CASE i = 1
                BY <1>8, <1>9, <3>1, <4>1
            <4>2. CASE i \in {2, 3}
                <5>1. k \in {Request(r), Backup(r)} /\ c[i].value = {u}
                    BY <1>9, <3>1, <4>2
                <5>2. k \notin {UserResponse(v) : v \in ringing}
                    BY <5>1, KeysDiffer
                <5> QED
                    BY <1>8, <5>1, <5>2
            <4>3. CASE i = 4
                <5>1. k = UserRequest(u) /\ c[i].value = {r}
                    BY <1>9, <3>1, <4>3
                <5> QED
                    BY <1>8, <5>1, KeysDiffer
            <4> QED
                BY <4>1, <4>2, <4>3
        <3>2. ASSUME \A i \in 1 .. 4 : k \notin c[i].keys PROVE d[k] = f[k]
            <4>1. k \notin c[1].keys /\ k \notin c[2].keys /\ k \notin c[3].keys /\ k \notin c[4].keys
                BY <3>2, 1 \in 1 .. 4, 2 \in 1 .. 4, 3 \in 1 .. 4, 4 \in 1 .. 4
            <4> QED
                BY <1>8, <1>9, <4>1
        <3> QED
            BY <1>9, <3>1, <3>2 DEF Settles
    <2> QED
        BY <2>1 DEF EndsIn
<1>11. /\ \A q \in Rooms : /\ f[Request(q)] = IF q = r THEN {u} ELSE d[Request(q)]
                           /\ f[Backup(q)] = IF q = r THEN {u} ELSE d[Backup(q)]
                           /\ f[Active(q)] = d[Active(q)]
       /\ \A v \in Users : /\ f[UserRequest(v)] = IF v = u THEN {r} ELSE d[UserRequest(v)]
                           /\ f[UserActive(v)] = d[UserActive(v)]
    BY <1>8, KeyForms, KeysDiffer
<1>12. Agree(f, E)'
    <2>1. Agree(d, E)'
        BY <1>4, <1>6, AgreeStays
    <2>2. <<u, r>> \in consented'
        BY <1>4
    <2>3. ASSUME NEW q \in Rooms PROVE AgreeAt(f, E, q)'
        <3>1. AgreeAt(d, E, q)'
            BY <2>1 DEF Agree
        <3>2. CASE q = r
            BY <1>6, <1>7, <1>11, <2>2, <3>1, <3>2 DEF AgreeAt
        <3>3. CASE q # r
            <4>1. /\ f[Request(q)] = d[Request(q)] /\ f[Backup(q)] = d[Backup(q)]
                  /\ f[Active(q)] = d[Active(q)]
                  /\ f[UserRequest(u)] = {r} /\ {r} # {q} /\ d[UserRequest(u)] # {q}
                BY <1>7, <1>11, <3>3
            <4> QED
                BY <1>6, <1>11, <3>1, <4>1 DEF AgreeAt
        <3> QED
            BY <3>2, <3>3
    <2> QED
        BY <2>3 DEF Agree
<1>13. Marks(c) /\ OfRoom(c, r)
    <2>1. ASSUME NEW i \in 1 .. 4, NEW q \in Rooms, Request(q) \in c[i].keys \/ Backup(q) \in c[i].keys
          PROVE  q = r /\ (Request(q) \in c[i].keys => i = 2)
        <3>1. i = 1 \/ i = 2 \/ i = 3 \/ i = 4
            OBVIOUS
        <3>2. i # 1
            <4>1. \A v \in Users : Request(q) # UserResponse(v) /\ Backup(q) # UserResponse(v)
                BY KeysDiffer
            <4>2. Request(q) \notin {UserResponse(v) : v \in ringing}
                  /\ Backup(q) \notin {UserResponse(v) : v \in ringing}
                BY <4>1
            <4> QED
                BY <1>9, <2>1, <4>2
        <3>3. CASE i = 2
            BY <1>9, <2>1, <3>3, KeysDiffer
        <3>4. CASE i = 3 \/ i = 4
            BY <1>9, <2>1, <3>4, KeysDiffer
        <3> QED
            BY <3>1, <3>2, <3>3, <3>4
    <2>2. 4 \in 2 + 1 .. 4
        OBVIOUS
    <2> QED
        BY <1>9, <2>1, <2>2 DEF Marks, OfRoom
<1> QED
    BY <1>1, <1>4, <1>5, <1>10, <1>12, <1>13, RunRests
\* The request of c becomes a call of c and u.
LEMMA JoinRequestingRests ==
    ASSUME CInv, Alone, NEW h \in Handlers, AcceptJoin(h),
           NEW u \in Users, NEW r \in Rooms, u = task[h].user, r = task[h].room,
           NEW b \in Users, b # u, task[h].seen = {b}
    PROVE  Alone'
<1>1. PICK c : c = JoinRequesting(b, u, r)
    OBVIOUS
<1>2. /\ c # <<>> /\ Len(c) = 6
      /\ c[1].keys = {Active(r)} /\ c[1].value = {b, u}
      /\ c[2].keys = {UserActive(b)} /\ c[2].value = {r}
      /\ c[3].keys = {UserActive(u)} /\ c[3].value = {r}
      /\ c[4].keys = {Request(r)} /\ c[4].value = {}
      /\ c[5].keys = {Backup(r)} /\ c[5].value = {}
      /\ c[6].keys = {UserRequest(b)} /\ c[6].value = {}
    BY <1>1 DEF JoinRequesting, Put, Del
<1>3. /\ UNCHANGED <<db, expired, consented>> /\ left' = left \ {<<u, r>>} /\ Run(h, c)
      /\ task[h].pc = "accept" /\ task[h].n = 3 /\ Busy(h)
    <2>1. AcceptCommands({b}, db[Active(r)], u, r) = c
        <3>1. (CHOOSE x \in {b} : TRUE) = b
            OBVIOUS
        <3> QED
            BY <1>1, <3>1 DEF AcceptCommands
    <2> QED
        BY <1>2, <2>1 DEF AcceptJoin, Busy
<1>4. PICK d, E : d = db /\ E = expired
    OBVIOUS
<1>5. Knows(task[h]) /\ Agree(d, E) /\ E = {} /\ d[Request(r)] = {b}
    BY <1>3, <1>4, AgreeNow DEF Gone, Knows
<1>6. <<b, r>> \in consented /\ <<u, r>> \in consented
    BY <1>3, <1>4, <1>5, StoredKinds, TaskIsSound DEF Sound
<1>7. PICK f : f = [k \in Keys |-> IF k = Active(r) THEN {b, u}
                                   ELSE IF k \in {UserActive(b), UserActive(u)} THEN {r}
                                   ELSE IF k \in {Request(r), Backup(r), UserRequest(b)} THEN {} ELSE d[k]]
    OBVIOUS
<1>8. EndsIn(c, d, f)
    <2>1. ASSUME NEW k \in Keys PROVE Settles(c, d, k, f[k])
        <3>1. ASSUME NEW i \in 1 .. 6, k \in c[i].keys PROVE c[i].value = f[k]
            <4>1. CASE i = 1
                BY <1>2, <1>7, <3>1, <4>1
            <4>2. CASE i \in {2, 3}
                <5>1. k \in {UserActive(b), UserActive(u)} /\ c[i].value = {r}
                    BY <1>2, <3>1, <4>2
                <5>2. k # Active(r)
                    BY <5>1, KeysDiffer
                <5> QED
                    BY <1>7, <5>1, <5>2
            <4>3. CASE i \in {4, 5, 6}
                <5>1. k \in {Request(r), Backup(r), UserRequest(b)} /\ c[i].value = {}
                    BY <1>2, <3>1, <4>3
                <5>2. k # Active(r) /\ k \notin {UserActive(b), UserActive(u)}
                    BY <5>1, KeysDiffer
                <5> QED
                    BY <1>7, <5>1, <5>2
            <4> QED
                BY <4>1, <4>2, <4>3
        <3>2. ASSUME \A i \in 1 .. 6 : k \notin c[i].keys PROVE d[k] = f[k]
            <4>1. /\ k \notin c[1].keys /\ k \notin c[2].keys /\ k \notin c[3].keys
                  /\ k \notin c[4].keys /\ k \notin c[5].keys /\ k \notin c[6].keys
                BY <3>2, 1 \in 1 .. 6, 2 \in 1 .. 6, 3 \in 1 .. 6, 4 \in 1 .. 6, 5 \in 1 .. 6, 6 \in 1 .. 6
            <4> QED
                BY <1>2, <1>7, <4>1
        <3> QED
            BY <1>2, <3>1, <3>2 DEF Settles
    <2> QED
        BY <2>1 DEF EndsIn
<1>9. /\ \A q \in Rooms : /\ f[Request(q)] = IF q = r THEN {} ELSE d[Request(q)]
                          /\ f[Backup(q)] = IF q = r THEN {} ELSE d[Backup(q)]
                          /\ f[Active(q)] = IF q = r THEN {b, u} ELSE d[Active(q)]
      /\ \A v \in Users : /\ f[UserRequest(v)] = IF v = b THEN {} ELSE d[UserRequest(v)]
                          /\ f[UserActive(v)] = IF v \in {b, u} THEN {r} ELSE d[UserActive(v)]
    BY <1>7, KeyForms, KeysDiffer
<1>10. Agree(f, E)'
    <2>1. ASSUME NEW q \in Rooms PROVE AgreeAt(f, E, q)'
        <3>1. AgreeAt(d, E, q)
            BY <1>5 DEF Agree
        <3>2. CASE q = r
            <4>1. d[Active(r)] = {} /\ d[Backup(r)] = {b}
                BY <1>5, <3>1, <3>2 DEF AgreeAt
            <4> QED
                BY <1>5, <1>9, <3>1, <3>2, <4>1 DEF AgreeAt
        <3>3. CASE q # r
            <4>1. /\ f[Request(q)] = d[Request(q)] /\ f[Backup(q)] = d[Backup(q)]
                  /\ f[Active(q)] = d[Active(q)] /\ {r} # {q}
                BY <1>9, <3>3
            <4>2. Elsewhere(b, q)' /\ Elsewhere(u, q)' /\ \A v : Elsewhere(v, q) => Elsewhere(v, q)'
                BY <1>3, <1>6, <3>3 DEF Elsewhere
            <4>3. \A v \in Users : <<v, q>> \in left => <<v, q>> \in left'
                BY <1>3, <3>3
            <4> QED
                BY <1>3, <1>5, <1>9, <3>1, <4>1, <4>2, <4>3 DEF AgreeAt
        <3> QED
            BY <3>2, <3>3
    <2> QED
        BY <2>1 DEF Agree
<1>11. Marks(c) /\ OfRoom(c, r)
    <2>1. ASSUME NEW i \in 1 .. 6, NEW q \in Rooms, Request(q) \in c[i].keys \/ Backup(q) \in c[i].keys
          PROVE  q = r /\ c[i].value = {}
        <3>1. i \in {1, 2, 3} \/ i = 4 \/ i = 5 \/ i = 6
            OBVIOUS
        <3> QED
            BY <1>2, <2>1, <3>1, KeysDiffer
    <2> QED
        BY <1>2, <2>1 DEF Marks, OfRoom
<1> QED
    BY <1>3, <1>4, <1>8, <1>10, <1>11, RunRests

\* One more participant of a call.
LEMMA JoinActiveRests ==
    ASSUME CInv, Alone, NEW h \in Handlers, AcceptJoin(h),
           NEW u \in Users, NEW r \in Rooms, u = task[h].user, r = task[h].room,
           NEW P, P = db[Active(r)], P # {}, u \notin P, task[h].seen = {}
    PROVE  Alone'
<1>1. PICK c : c = JoinActive(P, u, r)
    OBVIOUS
<1>2. /\ c # <<>> /\ Len(c) = 2
      /\ c[1].keys = {Active(r)} /\ c[1].value = P \union {u}
      /\ c[2].keys = {UserActive(u)} /\ c[2].value = {r}
    BY <1>1 DEF JoinActive, Put
<1>3. /\ UNCHANGED <<db, expired, consented>> /\ left' = left \ {<<u, r>>} /\ Run(h, c)
      /\ task[h].pc = "accept" /\ task[h].n = 3 /\ Busy(h)
    <2>1. AcceptCommands({}, P, u, r) = c
        BY <1>1 DEF AcceptCommands
    <2> QED
        BY <1>2, <2>1 DEF AcceptJoin, Busy
<1>4. PICK d, E : d = db /\ E = expired
    OBVIOUS
<1>5. Knows(task[h]) /\ Agree(d, E) /\ E = {} /\ d[Request(r)] = {} /\ d[Active(r)] = P
    BY <1>3, <1>4, AgreeNow DEF Gone, Knows
<1>6. <<u, r>> \in consented
    BY <1>3, TaskIsSound DEF Sound
<1>7. PICK f : f = [k \in Keys |-> IF k = Active(r) THEN P \union {u}
                                   ELSE IF k = UserActive(u) THEN {r} ELSE d[k]]
    OBVIOUS
<1>8. EndsIn(c, d, f)
    <2>1. ASSUME NEW k \in Keys PROVE Settles(c, d, k, f[k])
        <3>1. ASSUME NEW i \in 1 .. 2, k \in c[i].keys PROVE c[i].value = f[k]
            <4>1. CASE i = 1
                BY <1>2, <1>7, <3>1, <4>1
            <4>2. CASE i = 2
                <5>1. k = UserActive(u) /\ k # Active(r)
                    BY <1>2, <3>1, <4>2, KeysDiffer
                <5> QED
                    BY <1>2, <1>7, <4>2, <5>1
            <4> QED
                BY <4>1, <4>2
        <3>2. ASSUME \A i \in 1 .. 2 : k \notin c[i].keys PROVE d[k] = f[k]
            BY <1>2, <1>7, <3>2, 1 \in 1 .. 2, 2 \in 1 .. 2
        <3> QED
            BY <1>2, <3>1, <3>2 DEF Settles
    <2> QED
        BY <2>1 DEF EndsIn
<1>9. /\ \A q \in Rooms : /\ f[Request(q)] = d[Request(q)] /\ f[Backup(q)] = d[Backup(q)]
                          /\ f[Active(q)] = IF q = r THEN P \union {u} ELSE d[Active(q)]
      /\ \A v \in Users : /\ f[UserRequest(v)] = d[UserRequest(v)]
                          /\ f[UserActive(v)] = IF v = u THEN {r} ELSE d[UserActive(v)]
    BY <1>7, KeyForms, KeysDiffer
<1>10. Agree(f, E)'
    <2>1. ASSUME NEW q \in Rooms PROVE AgreeAt(f, E, q)'
        <3>1. AgreeAt(d, E, q) /\ \A v : Elsewhere(v, q) => Elsewhere(v, q)'
            BY <1>3, <1>5 DEF Agree, Elsewhere
        <3>2. CASE q = r
            <4>1. \A v \in P : <<v, r>> \in left => <<v, r>> \in left'
                BY <1>3
            <4> QED
                BY <1>3, <1>5, <1>9, <3>1, <3>2, <4>1 DEF AgreeAt
        <3>3. CASE q # r
            <4>1. Elsewhere(u, q)' /\ {r} # {q} /\ f[Active(q)] = d[Active(q)]
                BY <1>3, <1>6, <1>9, <3>3 DEF Elsewhere
            <4>2. \A v \in Users : <<v, q>> \in left => <<v, q>> \in left'
                BY <1>3, <3>3
            <4> QED
                BY <1>3, <1>5, <1>9, <3>1, <4>1, <4>2 DEF AgreeAt
        <3> QED
            BY <3>2, <3>3
    <2> QED
        BY <2>1 DEF Agree
<1>11. Marks(c) /\ OfRoom(c, r)
    <2>1. ASSUME NEW i \in 1 .. 2, NEW q \in Rooms PROVE Request(q) \notin c[i].keys /\ Backup(q) \notin c[i].keys
        <3>1. i = 1 \/ i = 2
            OBVIOUS
        <3> QED
            BY <1>2, <3>1, KeysDiffer
    <2> QED
        BY <1>2, <2>1 DEF Marks, OfRoom
<1> QED
    BY <1>3, <1>4, <1>8, <1>10, <1>11, RunRests

\* A handler with nothing to send.
LEMMA StopRests ==
    ASSUME CInv, Alone, NEW h \in Handlers, task[h].pc \notin {"idle", "run", "expire"}, Run(h, <<>>),
           UNCHANGED <<db, expired, consented, left>>
    PROVE  Alone'
<1>1. PICK t : t = Idle
    OBVIOUS
<1>2. t.pc = "idle" /\ t.todo = <<>> /\ task' = [task EXCEPT ![h] = t]
    BY <1>1 DEF Run, Idle
<1> QED
    BY <1>2, LocalRests

LEMMA AcceptJoinRests == ASSUME CInv, Alone, NEW h \in Handlers, AcceptJoin(h) PROVE Alone'
<1>1. /\ task[h].pc = "accept" /\ task[h].n = 3 /\ UNCHANGED <<db, expired, consented>>
    BY DEF AcceptJoin
<1>2. PICK u \in Users, r \in Rooms : u = task[h].user /\ r = task[h].room
    BY <1>1, TaskIsSound DEF Sound
<1>3. PICK request \in SUBSET Users, P \in SUBSET Users : request = task[h].seen /\ request = db[Request(r)] /\ P = db[Active(r)]
    BY <1>1, <1>2, StoredKinds, AgreeNow DEF Knows
<1>4. CASE AcceptCommands(request, P, u, r) = <<>>
    <2>1. Run(h, <<>>) /\ UNCHANGED left
        BY <1>2, <1>3, <1>4 DEF AcceptJoin
    <2> QED
        BY <1>1, <2>1, StopRests
<1>5. CASE AcceptCommands(request, P, u, r) # <<>> /\ request # {}
    <2>1. PICK b \in request : b = CHOOSE x \in request : TRUE
        BY <1>5
    <2>2. request = {b}
        BY <1>3, RequestIsOne
    <2>3. b # u
        BY <1>5, <2>1 DEF AcceptCommands, JoinRequesting
    <2> QED
        BY <1>2, <1>3, <2>2, <2>3, JoinRequestingRests
<1>6. CASE AcceptCommands(request, P, u, r) # <<>> /\ request = {}
    <2>1. P # {} /\ u \notin P
        BY <1>6 DEF AcceptCommands, JoinActive
    <2> QED
        BY <1>2, <1>3, <1>6, <2>1, JoinActiveRests
<1> QED
    BY <1>4, <1>5, <1>6
\* The backup goes last, once the mark of its user is cleared.
LEMMA ExpireDecideRests == ASSUME CInv, Alone, NEW h \in Handlers, ExpireDecide(h) PROVE Alone'
<1>1. /\ task[h].pc = "expire" /\ Busy(h) /\ UNCHANGED <<db, expired, consented, left>>
    BY DEF ExpireDecide, Busy, history
<1>2. PICK r \in Rooms : r = task[h].room
    BY <1>1, TaskIsSound DEF Sound
<1>3. PICK d, E : d = db /\ E = expired
    OBVIOUS
<1>4. Agree(d, E \union {r})
    BY <1>1, <1>2, <1>3, AgreeNow DEF Gone
<1>5. CASE d[Backup(r)] = {}
    <2>1. PICK c : c = <<>>
        OBVIOUS
    <2>2. Run(h, c) /\ Len(c) = 0
        BY <1>2, <1>3, <1>5, <2>1 DEF ExpireDecide
    <2>3. Marks(c) /\ OfRoom(c, r)
        BY <2>2 DEF Marks, OfRoom
    <2>4. Agree(d, E)
        BY <1>4, <1>5 DEF Agree, AgreeAt
    <2>5. Agree(d, E)'
        BY <1>1, <2>4, AgreeStays
    <2>6. EndsIn(c, d, d)
        BY <2>1, NothingToSend
    <2> QED
        BY <1>1, <1>2, <1>3, <2>2, <2>3, <2>5, <2>6, RunRests
<1>6. CASE d[Backup(r)] # {}
    <2>1. PICK B \in SUBSET Users : B = d[Backup(r)]
        BY <1>3, StoredKinds
    <2>2. PICK b \in B : b = CHOOSE x \in B : TRUE
        BY <1>6, <2>1
    <2>3. d[Backup(r)] = {b} /\ <<b, r>> \in consented /\ d[Request(r)] = {}
        BY <1>3, <1>4, <2>1, <2>2, RequestIsOne DEF Agree, AgreeAt
    <2>4. PICK rung : rung = {UserResponse(v) : v \in Members[r] \ {b}}
        OBVIOUS
    <2>5. PICK c : c = <<Put(rung, {}), Del(UserRequest(b)), Del(Backup(r))>>
        OBVIOUS
    <2>6. /\ Len(c) = 3
          /\ c[1].keys = rung /\ c[1].value = {}
          /\ c[2].keys = {UserRequest(b)} /\ c[2].value = {}
          /\ c[3].keys = {Backup(r)} /\ c[3].value = {}
        BY <2>5 DEF Put, Del
    <2>7. Run(h, c)
        BY <1>2, <1>3, <1>6, <2>1, <2>2, <2>4, <2>5 DEF ExpireDecide
    <2>8. PICK f : f = [k \in Keys |-> IF k \in rung \/ k \in {UserRequest(b), Backup(r)} THEN {} ELSE d[k]]
        OBVIOUS
    <2>9. EndsIn(c, d, f)
        <3>1. ASSUME NEW k \in Keys PROVE Settles(c, d, k, f[k])
            <4>1. ASSUME NEW i \in 1 .. 3, k \in c[i].keys PROVE c[i].value = f[k]
                <5>1. i = 1 \/ i = 2 \/ i = 3
                    OBVIOUS
                <5> QED
                    BY <2>6, <2>8, <4>1, <5>1
            <4>2. ASSUME \A i \in 1 .. 3 : k \notin c[i].keys PROVE d[k] = f[k]
                BY <2>6, <2>8, <4>2, 1 \in 1 .. 3, 2 \in 1 .. 3, 3 \in 1 .. 3
            <4> QED
                BY <2>6, <4>1, <4>2 DEF Settles
        <3> QED
            BY <3>1 DEF EndsIn
    <2>10. /\ \A q \in Rooms : /\ f[Request(q)] = d[Request(q)]
                               /\ f[Backup(q)] = IF q = r THEN {} ELSE d[Backup(q)]
                               /\ f[Active(q)] = d[Active(q)]
           /\ \A v \in Users : /\ f[UserRequest(v)] = IF v = b THEN {} ELSE d[UserRequest(v)]
                               /\ f[UserActive(v)] = d[UserActive(v)]
        BY <2>4, <2>8, KeyForms, KeysDiffer
    <2>11. Agree(f, E)
        <3>1. ASSUME NEW q \in Rooms PROVE AgreeAt(f, E, q)
            <4>1. AgreeAt(d, E \union {r}, q)
                BY <1>4 DEF Agree
            <4>2. CASE q = r
                BY <2>3, <2>10, <4>1, <4>2 DEF AgreeAt
            <4>3. CASE q # r
                <5>1. /\ f[Request(q)] = d[Request(q)] /\ f[Backup(q)] = d[Backup(q)]
                      /\ f[Active(q)] = d[Active(q)] /\ Elsewhere(b, q)
                    BY <2>3, <2>10, <4>3 DEF Elsewhere
                <5> QED
                    BY <2>10, <4>1, <4>3, <5>1 DEF AgreeAt
            <4> QED
                BY <4>2, <4>3
        <3> QED
            BY <3>1 DEF Agree
    <2>12. Agree(f, E)'
        BY <1>1, <2>11, AgreeStays
    <2>13. Marks(c) /\ OfRoom(c, r)
        <3>1. ASSUME NEW i \in 1 .. 3, NEW q \in Rooms, Request(q) \in c[i].keys \/ Backup(q) \in c[i].keys
              PROVE  q = r /\ c[i].value = {}
            <4>1. CASE i = 1
                <5>1. \/ Request(q) \in {UserResponse(v) : v \in Members[r] \ {b}}
                      \/ Backup(q) \in {UserResponse(v) : v \in Members[r] \ {b}}
                    BY <2>4, <2>6, <3>1, <4>1
                <5> QED
                    BY <5>1, KeysDiffer
            <4>2. CASE i = 2
                BY <2>6, <3>1, <4>2, KeysDiffer
            <4>3. CASE i = 3
                BY <2>6, <3>1, <4>3, KeysDiffer
            <4> QED
                BY <4>1, <4>2, <4>3
        <3> QED
            BY <2>6, <3>1 DEF Marks, OfRoom
    <2> QED
        BY <1>1, <1>2, <1>3, <2>7, <2>9, <2>12, <2>13, RunRests
<1> QED
    BY <1>5, <1>6
-----------------------------------------------------------------------------
(* Handlers end                                                            *)

\* Commands that delete the keys K between them.
LEMMA Deletions ==
    ASSUME NEW c, Len(c) \in Nat, NEW K, NEW d, NEW f,
           f = [k \in Keys |-> IF k \in K THEN {} ELSE d[k]],
           \A i \in 1 .. Len(c) : c[i].value = {} /\ c[i].keys \subseteq K,
           \A k \in K : \E i \in 1 .. Len(c) : k \in c[i].keys
    PROVE  EndsIn(c, d, f)
<1>1. ASSUME NEW k \in Keys PROVE Settles(c, d, k, f[k])
    <2>1. CASE k \in K
        <3>1. f[k] = {}
            BY <2>1
        <3> QED
            BY <2>1, <3>1 DEF Settles
    <2>2. CASE k \notin K
        <3>1. f[k] = d[k] /\ \A i \in 1 .. Len(c) : k \notin c[i].keys
            BY <2>2
        <3> QED
            BY <3>1 DEF Settles
    <2> QED
        BY <2>1, <2>2
<1> QED
    BY <1>1 DEF EndsIn

\* Everybody comes up in an order.
LEMMA OrderIsOnto ==
    ASSUME NEW S \in SUBSET Users, NEW order \in Orders(S)
    PROVE  /\ Cardinality(S) \in Nat /\ Len(order) = Cardinality(S) /\ DOMAIN order = 1 .. Cardinality(S)
           /\ \A i \in 1 .. Cardinality(S) : order[i] \in S
           /\ \A v \in S : \E i \in 1 .. Cardinality(S) : order[i] = v
<1>1. IsFiniteSet(S)
    BY CallAssumption, FS_Subset
<1>2. PICK n \in Nat : n = Cardinality(S)
    BY <1>1, FS_CardinalityType
<1>3. order \in [1 .. n -> S] /\ \A i, j \in 1 .. n : i # j => order[i] # order[j]
    BY <1>2 DEF Orders
<1>4. order \in Injection(1 .. n, S)
    BY <1>3 DEF Injection, IsInjective
<1>5. Cardinality(1 .. n) = n
    <2>1. 1 \in Int /\ n \in Int
        OBVIOUS
    <2>2. Cardinality(1 .. n) = IF 1 > n THEN 0 ELSE n - 1 + 1
        BY <2>1, FS_Interval
    <2> QED
        BY <2>2
<1>6. order \in Surjection(1 .. n, S)
    BY <1>1, <1>2, <1>4, <1>5, FS_Injection
<1>7. \A v \in S : \E i \in 1 .. n : order[i] = v
    BY <1>6 DEF Surjection
<1> QED
    BY <1>2, <1>3, <1>7

\* The call and every participant's own keys go.
EndedKeys(P, r) ==
    {Active(r)} \union {UserActive(v) : v \in P} \union {UserRequest(v) : v \in P}
                \union {UserResponse(v) : v \in P}

LEMMA EndCompletelyDeletes ==
    ASSUME NEW P \in SUBSET Users, NEW r \in Rooms, NEW order \in Orders(P),
           NEW c, c = EndCompletely(order, r)
    PROVE  /\ Len(c) \in Nat
           /\ \A i \in 1 .. Len(c) : c[i].value = {} /\ c[i].keys \subseteq EndedKeys(P, r)
           /\ \A k \in EndedKeys(P, r) : \E i \in 1 .. Len(c) : k \in c[i].keys
<1>1. PICK n \in Nat : n = Cardinality(P) /\ Len(order) = n /\ DOMAIN order = 1 .. n
    BY OrderIsOnto
<1>2. (\A i \in 1 .. n : order[i] \in P) /\ (\A v \in P : \E i \in 1 .. n : order[i] = v)
    BY <1>1, OrderIsOnto
<1>3. PICK w \in Seq(Commands) : w = Freeing(order)
    BY FreeingIsCommands
<1>4. /\ Len(w) = 2 * n
      /\ \A i \in 1 .. 2 * n : w[i] = Del(IF i % 2 = 1 THEN UserActive(order[(i + 1) \div 2])
                                                        ELSE UserRequest(order[i \div 2]))
    <2>1. DOMAIN w = 1 .. 2 * n
        BY <1>1, <1>3 DEF Freeing
    <2>2. Len(w) = 2 * n
        BY <1>3, <2>1, LenProperties
    <2> QED
        BY <1>1, <1>3, <2>2 DEF Freeing
<1>5. PICK rung : rung = {UserResponse(order[i]) : i \in DOMAIN order}
    OBVIOUS
<1>6. /\ Len(c) = 2 * n + 2 /\ c[1] = Del(Active(r)) /\ c[2 * n + 2] = Put(rung, {})
      /\ \A i \in 1 .. 2 * n : c[i + 1] = w[i]
    <2>1. /\ Del(Active(r)) \in Commands /\ Put(rung, {}) \in Commands
        <3>1. rung \in SUBSET Keys
            BY <1>1, <1>2, <1>5, KeyForms
        <3> QED
            BY <3>1, KeyForms, DeletionIsCommand DEF Del
    <2>2. PICK a \in Seq(Commands), b \in Seq(Commands) : a = <<Del(Active(r))>> /\ b = <<Put(rung, {})>>
        <3>1. PICK x \in Commands, y \in Commands : x = Del(Active(r)) /\ y = Put(rung, {})
            BY <2>1
        <3>2. <<x>> \in Seq(Commands) /\ <<y>> \in Seq(Commands)
            OBVIOUS
        <3> QED
            BY <3>1, <3>2
    <2>3. Len(a) = 1 /\ a[1] = Del(Active(r)) /\ Len(b) = 1 /\ b[1] = Put(rung, {})
        BY <2>2
    <2>4. PICK C : C = Commands
        OBVIOUS
    <2>5. a \in Seq(C) /\ w \in Seq(C) /\ b \in Seq(C)
        BY <2>4
    <2>6. PICK aw \in Seq(C) : aw = a \o w
        BY <2>5, ConcatProperties
    <2>7. /\ Len(aw) = 1 + 2 * n
          /\ \A i \in 1 .. 1 + 2 * n : aw[i] = IF i <= 1 THEN a[i] ELSE w[i - 1]
        BY <1>4, <2>3, <2>5, <2>6, ConcatProperties
    <2>8. c = aw \o b
        BY <1>3, <1>5, <2>2, <2>6 DEF EndCompletely
    <2>9. /\ Len(c) = (1 + 2 * n) + 1
          /\ \A i \in 1 .. (1 + 2 * n) + 1 : c[i] = IF i <= 1 + 2 * n THEN aw[i] ELSE b[i - (1 + 2 * n)]
        <3>1. PICK m \in Nat : m = 1 + 2 * n
            OBVIOUS
        <3>2. Len(aw) = m /\ Len(b) = 1
            BY <2>3, <2>7, <3>1
        <3>3. /\ Len(aw \o b) = m + 1
              /\ \A i \in 1 .. m + 1 : (aw \o b)[i] = IF i <= m THEN aw[i] ELSE b[i - m]
            <4>1. /\ Len(aw \o b) = Len(aw) + Len(b)
                  /\ \A i \in 1 .. Len(aw) + Len(b) : (aw \o b)[i] = IF i <= Len(aw) THEN aw[i] ELSE b[i - Len(aw)]
                BY <2>5, <2>6, ConcatProperties
            <4> QED
                BY <3>2, <4>1
        <3> QED
            BY <2>8, <3>1, <3>3
    <2>10. c[1] = Del(Active(r))
        BY <2>3, <2>7, <2>9
    <2>11. c[2 * n + 2] = Put(rung, {})
        BY <2>3, <2>9
    <2>12. ASSUME NEW i \in 1 .. 2 * n PROVE c[i + 1] = w[i]
        <3>1. i + 1 \in 1 .. 1 + 2 * n /\ i + 1 \in 1 .. (1 + 2 * n) + 1 /\ ~(i + 1 <= 1) /\ i + 1 <= 1 + 2 * n
            OBVIOUS
        <3>2. c[i + 1] = aw[i + 1] /\ aw[i + 1] = w[(i + 1) - 1]
            BY <2>7, <2>9, <3>1
        <3> QED
            BY <3>2
    <2> QED
        BY <2>9, <2>10, <2>11, <2>12
<1>7. ASSUME NEW i \in 1 .. 2 * n PROVE w[i].value = {} /\ w[i].keys \subseteq EndedKeys(P, r)
    <2>1. CASE i % 2 = 1
        <3>1. (i + 1) \div 2 \in 1 .. n
            BY <2>1
        <3>2. w[i] = Del(UserActive(order[(i + 1) \div 2])) /\ order[(i + 1) \div 2] \in P
            BY <1>2, <1>4, <2>1, <3>1
        <3> QED
            BY <3>2 DEF Del, Put, EndedKeys
    <2>2. CASE i % 2 # 1
        <3>1. i \div 2 \in 1 .. n
            BY <2>2
        <3>2. w[i] = Del(UserRequest(order[i \div 2])) /\ order[i \div 2] \in P
            BY <1>2, <1>4, <2>2, <3>1
        <3> QED
            BY <3>2 DEF Del, Put, EndedKeys
    <2> QED
        BY <2>1, <2>2
<1>8. ASSUME NEW i \in 1 .. Len(c) PROVE c[i].value = {} /\ c[i].keys \subseteq EndedKeys(P, r)
    <2>1. CASE i = 1
        BY <1>6, <2>1 DEF Del, Put, EndedKeys
    <2>2. CASE i = 2 * n + 2
        BY <1>1, <1>2, <1>5, <1>6, <2>2 DEF Put, EndedKeys
    <2>3. CASE i # 1 /\ i # 2 * n + 2
        <3>1. i - 1 \in 1 .. 2 * n /\ (i - 1) + 1 = i
            BY <1>6, <2>3
        <3>2. c[i] = w[i - 1]
            BY <1>6, <3>1
        <3> QED
            BY <1>7, <3>1, <3>2
    <2> QED
        BY <2>1, <2>2, <2>3
<1>9. ASSUME NEW v \in P
      PROVE  /\ \E i \in 1 .. Len(c) : UserActive(v) \in c[i].keys
             /\ \E i \in 1 .. Len(c) : UserRequest(v) \in c[i].keys
             /\ \E i \in 1 .. Len(c) : UserResponse(v) \in c[i].keys
    <2>1. PICK j \in 1 .. n : order[j] = v
        BY <1>2
    <2>2. /\ 2 * j - 1 \in 1 .. 2 * n /\ (2 * j - 1) % 2 = 1 /\ ((2 * j - 1) + 1) \div 2 = j
          /\ 2 * j \in 1 .. 2 * n /\ (2 * j) % 2 # 1 /\ (2 * j) \div 2 = j
        OBVIOUS
    <2>3. w[2 * j - 1] = Del(UserActive(v)) /\ w[2 * j] = Del(UserRequest(v))
        BY <1>4, <2>1, <2>2
    <2>4. /\ (2 * j - 1) + 1 \in 1 .. Len(c) /\ 2 * j + 1 \in 1 .. Len(c) /\ 2 * n + 2 \in 1 .. Len(c)
          /\ c[(2 * j - 1) + 1] = w[2 * j - 1] /\ c[2 * j + 1] = w[2 * j]
        <3>1. PICK a \in 1 .. 2 * n, b \in 1 .. 2 * n : a = 2 * j - 1 /\ b = 2 * j
            BY <2>2
        <3>2. c[a + 1] = w[a] /\ c[b + 1] = w[b]
            BY <1>6
        <3>3. a + 1 \in 1 .. Len(c) /\ b + 1 \in 1 .. Len(c) /\ 2 * n + 2 \in 1 .. Len(c)
            BY <1>6
        <3> QED
            BY <3>1, <3>2, <3>3
    <2>5. UserResponse(v) \in rung
        BY <1>1, <1>5, <2>1
    <2> QED
        BY <1>6, <2>3, <2>4, <2>5 DEF Del, Put
<1>10. \E i \in 1 .. Len(c) : Active(r) \in c[i].keys
    <2>1. 1 \in 1 .. Len(c)
        BY <1>6
    <2> QED
        BY <1>6, <2>1 DEF Del, Put
<1>11. Len(c) \in Nat
    BY <1>6
<1> QED
    BY <1>8, <1>9, <1>10, <1>11 DEF EndedKeys
\* What the handler of u who ends a call or a request knows.
Ends(h, u, r) ==
    /\ task[h].pc = "end" /\ task[h].n = 2 /\ Busy(h) /\ u = task[h].user /\ r = task[h].room
    /\ UNCHANGED <<db, expired, consented>>

LEMMA EndsKnows ==
    ASSUME CInv, Alone, NEW h \in Handlers, NEW u \in Users, NEW r \in Rooms, Ends(h, u, r)
    PROVE  /\ Agree(db, expired) /\ expired = {}
           /\ u \in db[Active(r)] \union db[Request(r)] /\ task[h].seen = db[Active(r)]
           /\ \A v \in db[Active(r)] \union db[Request(r)] : <<v, r>> \in consented
BY AgreeNow, StoredKinds DEF Ends, Gone, Knows

LEMMA EndRequestRests ==
    ASSUME CInv, Alone, NEW h \in Handlers, NEW u \in Users, NEW r \in Rooms, Ends(h, u, r),
           db[Active(r)] = {}, Run(h, EndRequest(u, u, r)), UNCHANGED left
    PROVE  Alone'
<1>1. PICK c : c = EndRequest(u, u, r)
    OBVIOUS
<1>2. PICK K : K = {Request(r), Backup(r), UserRequest(u), UserResponse(u)}
    OBVIOUS
<1>3. /\ Len(c) = 4
      /\ c[1].keys = {Request(r)} /\ c[1].value = {}
      /\ c[2].keys = {Backup(r)} /\ c[2].value = {}
      /\ c[3].keys = {UserRequest(u)} /\ c[3].value = {}
      /\ c[4].keys = {UserResponse(u)} /\ c[4].value = {}
    BY <1>1 DEF EndRequest, Put, Del
<1>4. PICK d, E, f : d = db /\ E = expired /\ f = [k \in Keys |-> IF k \in K THEN {} ELSE d[k]]
    OBVIOUS
<1>5. /\ Agree(d, E) /\ E = {} /\ d[Active(r)] = {} /\ u \in d[Request(r)] /\ <<u, r>> \in consented
      /\ d[Request(r)] = {u} /\ UNCHANGED <<db, expired, consented>>
    BY <1>4, EndsKnows, RequestIsOne DEF Ends
<1>6. EndsIn(c, d, f)
    <2>1. ASSUME NEW i \in 1 .. 4 PROVE c[i].value = {} /\ c[i].keys \subseteq K
        <3>1. i = 1 \/ i = 2 \/ i = 3 \/ i = 4
            OBVIOUS
        <3> QED
            BY <1>2, <1>3, <3>1
    <2>2. \A k \in K : \E i \in 1 .. 4 : k \in c[i].keys
        BY <1>2, <1>3, 1 \in 1 .. 4, 2 \in 1 .. 4, 3 \in 1 .. 4, 4 \in 1 .. 4
    <2>3. Len(c) \in Nat /\ 1 .. Len(c) = 1 .. 4
        BY <1>3
    <2> QED
        BY <1>4, <2>1, <2>2, <2>3, Deletions
<1>7. /\ \A q \in Rooms : /\ f[Request(q)] = IF q = r THEN {} ELSE d[Request(q)]
                          /\ f[Backup(q)] = IF q = r THEN {} ELSE d[Backup(q)]
                          /\ f[Active(q)] = d[Active(q)]
      /\ \A v \in Users : /\ f[UserRequest(v)] = IF v = u THEN {} ELSE d[UserRequest(v)]
                          /\ f[UserActive(v)] = d[UserActive(v)]
    BY <1>2, <1>4, KeyForms, KeysDiffer
<1>8. Agree(f, E)
    <2>1. ASSUME NEW q \in Rooms PROVE AgreeAt(f, E, q)
        <3>1. AgreeAt(d, E, q)
            BY <1>5 DEF Agree
        <3>2. CASE q = r
            BY <1>5, <1>7, <3>1, <3>2 DEF AgreeAt
        <3>3. CASE q # r
            <4>1. /\ f[Request(q)] = d[Request(q)] /\ f[Backup(q)] = d[Backup(q)]
                  /\ f[Active(q)] = d[Active(q)] /\ Elsewhere(u, q)
                BY <1>5, <1>7, <3>3 DEF Elsewhere
            <4> QED
                BY <1>7, <3>1, <4>1 DEF AgreeAt
        <3> QED
            BY <3>2, <3>3
    <2> QED
        BY <2>1 DEF Agree
<1>9. Agree(f, E)'
    BY <1>5, <1>8, AgreeStays
<1>10. Marks(c) /\ OfRoom(c, r)
    <2>1. ASSUME NEW i \in 1 .. 4, NEW q \in Rooms, Request(q) \in c[i].keys \/ Backup(q) \in c[i].keys
          PROVE  q = r /\ c[i].value = {}
        <3>1. i = 1 \/ i = 2 \/ i = 3 \/ i = 4
            OBVIOUS
        <3> QED
            BY <1>3, <2>1, <3>1, KeysDiffer
    <2> QED
        BY <1>3, <2>1 DEF Marks, OfRoom
<1> QED
    BY <1>1, <1>4, <1>5, <1>6, <1>9, <1>10, RunRests DEF Ends

LEMMA EndCallRests ==
    ASSUME CInv, Alone, NEW h \in Handlers, NEW u \in Users, NEW r \in Rooms, Ends(h, u, r),
           NEW P \in SUBSET Users, P = db[Active(r)], P # {},
           NEW order \in Orders(P), Run(h, EndCompletely(order, r)), UNCHANGED left
    PROVE  Alone'
<1>1. PICK c, K : c = EndCompletely(order, r) /\ K = EndedKeys(P, r)
    OBVIOUS
<1>2. /\ Len(c) \in Nat /\ \A i \in 1 .. Len(c) : c[i].value = {} /\ c[i].keys \subseteq K
      /\ \A k \in K : \E i \in 1 .. Len(c) : k \in c[i].keys
    BY <1>1, EndCompletelyDeletes
<1>3. PICK d, E, f : d = db /\ E = expired /\ f = [k \in Keys |-> IF k \in K THEN {} ELSE d[k]]
    OBVIOUS
<1>4. /\ Agree(d, E) /\ E = {} /\ d[Active(r)] = P /\ (\A v \in P : <<v, r>> \in consented)
      /\ UNCHANGED <<db, expired, consented>>
    BY <1>3, EndsKnows DEF Ends
<1>5. EndsIn(c, d, f)
    BY <1>2, <1>3, Deletions
<1>6. /\ \A q \in Rooms : /\ f[Request(q)] = d[Request(q)]
                          /\ f[Backup(q)] = d[Backup(q)]
                          /\ f[Active(q)] = IF q = r THEN {} ELSE d[Active(q)]
      /\ \A v \in Users : /\ f[UserRequest(v)] = IF v \in P THEN {} ELSE d[UserRequest(v)]
                          /\ f[UserActive(v)] = IF v \in P THEN {} ELSE d[UserActive(v)]
    <2>1. \A q \in Rooms : /\ Request(q) \notin K /\ Backup(q) \notin K
                           /\ Active(q) \in K <=> q = r
        BY <1>1, KeysDiffer DEF EndedKeys
    <2>2. \A v \in Users : (UserRequest(v) \in K <=> v \in P) /\ (UserActive(v) \in K <=> v \in P)
        BY <1>1, KeysDiffer DEF EndedKeys
    <2> QED
        BY <1>3, <2>1, <2>2, KeyForms
<1>7. Agree(f, E)
    <2>1. ASSUME NEW q \in Rooms PROVE AgreeAt(f, E, q)
        <3>1. AgreeAt(d, E, q)
            BY <1>4 DEF Agree
        <3>2. CASE q = r
            BY <1>4, <1>6, <3>1, <3>2 DEF AgreeAt
        <3>3. CASE q # r
            <4>1. /\ f[Request(q)] = d[Request(q)] /\ f[Backup(q)] = d[Backup(q)]
                  /\ f[Active(q)] = d[Active(q)] /\ \A v \in P : Elsewhere(v, q)
                BY <1>4, <1>6, <3>3 DEF Elsewhere
            <4> QED
                BY <1>6, <3>1, <4>1 DEF AgreeAt
        <3> QED
            BY <3>2, <3>3
    <2> QED
        BY <2>1 DEF Agree
<1>8. Agree(f, E)'
    BY <1>4, <1>7, AgreeStays
<1>9. Marks(c) /\ OfRoom(c, r)
    <2>1. \A q \in Rooms : Request(q) \notin K /\ Backup(q) \notin K
        BY <1>1, KeysDiffer DEF EndedKeys
    <2>2. \A i \in 1 .. Len(c), q \in Rooms : Request(q) \notin c[i].keys /\ Backup(q) \notin c[i].keys
        BY <1>2, <2>1
    <2> QED
        BY <2>2 DEF Marks, OfRoom
<1> QED
    BY <1>1, <1>3, <1>4, <1>5, <1>8, <1>9, RunRests DEF Ends

\* Who leaves a call that goes on loses the own mark, and is in left.
LEMMA LeaveRests ==
    ASSUME CInv, Alone, NEW h \in Handlers, NEW u \in Users, NEW r \in Rooms, Ends(h, u, r),
           NEW P, P = db[Active(r)], u \in P, Run(h, LeaveCall(P, u, r)),
           left' = left \union {<<u, r>>}
    PROVE  Alone'
<1>1. PICK c : c = LeaveCall(P, u, r)
    OBVIOUS
<1>2. /\ Len(c) = 3
      /\ c[1].keys = {Active(r)} /\ c[1].value = P
      /\ c[2].keys = {UserActive(u)} /\ c[2].value = {}
      /\ c[3].keys = {UserRequest(u)} /\ c[3].value = {}
    BY <1>1 DEF LeaveCall, Put, Del
<1>3. PICK d, E, f : /\ d = db /\ E = expired
                     /\ f = [k \in Keys |-> IF k \in {UserActive(u), UserRequest(u)} THEN {} ELSE d[k]]
    OBVIOUS
<1>4. /\ Agree(d, E) /\ E = {} /\ d[Active(r)] = P /\ <<u, r>> \in consented
      /\ UNCHANGED <<db, expired, consented>>
    BY <1>3, EndsKnows DEF Ends
<1>5. EndsIn(c, d, f)
    <2>1. ASSUME NEW k \in Keys PROVE Settles(c, d, k, f[k])
        <3>1. ASSUME NEW i \in 1 .. 3, k \in c[i].keys PROVE c[i].value = f[k]
            <4>1. CASE i = 1
                <5>1. k = Active(r) /\ k \notin {UserActive(u), UserRequest(u)}
                    BY <1>2, <3>1, <4>1, KeysDiffer
                <5> QED
                    BY <1>2, <1>3, <1>4, <4>1, <5>1
            <4>2. CASE i \in {2, 3}
                BY <1>2, <1>3, <3>1, <4>2
            <4> QED
                BY <4>1, <4>2
        <3>2. ASSUME \A i \in 1 .. 3 : k \notin c[i].keys PROVE d[k] = f[k]
            BY <1>2, <1>3, <3>2, 1 \in 1 .. 3, 2 \in 1 .. 3, 3 \in 1 .. 3
        <3> QED
            BY <1>2, <3>1, <3>2 DEF Settles
    <2> QED
        BY <2>1 DEF EndsIn
<1>6. /\ \A q \in Rooms : /\ f[Request(q)] = d[Request(q)]
                          /\ f[Backup(q)] = d[Backup(q)]
                          /\ f[Active(q)] = d[Active(q)]
      /\ \A v \in Users : /\ f[UserRequest(v)] = IF v = u THEN {} ELSE d[UserRequest(v)]
                          /\ f[UserActive(v)] = IF v = u THEN {} ELSE d[UserActive(v)]
    BY <1>3, KeyForms, KeysDiffer
<1>7. Agree(f, E)'
    <2>1. ASSUME NEW q \in Rooms PROVE AgreeAt(f, E, q)'
        <3>1. AgreeAt(d, E, q)'
            BY <1>4, AgreeStays DEF Agree
        <3>2. CASE q = r
            <4>1. <<u, r>> \in left' /\ d[Request(r)] = {}
                BY <1>4, <3>1, <3>2 DEF AgreeAt
            <4> QED
                BY <1>4, <1>6, <3>1, <3>2, <4>1 DEF AgreeAt
        <3>3. CASE q # r
            <4>1. Elsewhere(u, q)'
                BY <1>4, <3>3 DEF Elsewhere
            <4> QED
                BY <1>4, <1>6, <3>1, <4>1 DEF AgreeAt
        <3> QED
            BY <3>2, <3>3
    <2> QED
        BY <2>1 DEF Agree
<1>8. Marks(c) /\ OfRoom(c, r)
    <2>1. ASSUME NEW i \in 1 .. 3, NEW q \in Rooms PROVE Request(q) \notin c[i].keys /\ Backup(q) \notin c[i].keys
        <3>1. i = 1 \/ i = 2 \/ i = 3
            OBVIOUS
        <3> QED
            BY <1>2, <3>1, KeysDiffer
    <2> QED
        BY <1>2, <2>1 DEF Marks, OfRoom
<1> QED
    BY <1>1, <1>3, <1>4, <1>5, <1>7, <1>8, RunRests DEF Ends

LEMMA EndDecideRests == ASSUME CInv, Alone, NEW h \in Handlers, EndDecide(h) PROVE Alone'
<1>1. PICK u \in Users, r \in Rooms : u = task[h].user /\ r = task[h].room
    BY TaskIsSound DEF EndDecide, Sound
<1>2. Ends(h, u, r)
    BY <1>1 DEF EndDecide, Ends, Busy
<1>3. PICK P \in SUBSET Users : P = db[Active(r)] /\ P = task[h].seen
    BY <1>2, StoredKinds, EndsKnows
<1>4. PICK request \in SUBSET Users : request = db[Request(r)]
    BY StoredKinds
<1>5. CASE u \notin P /\ P # {}
    <2>1. Run(h, <<>>) /\ UNCHANGED left
        BY <1>1, <1>3, <1>5 DEF EndDecide
    <2> QED
        BY <1>2, <2>1, StopRests DEF Ends
<1>6. ASSUME u \in P \/ P = {},
             NEW p \in CallEndings(P, u, r),
             NEW q \in IF request = {} THEN {<<>>} ELSE {EndRequest(c, u, r) : c \in request},
             Run(h, p \o q),
             left' = IF Cardinality(P) > 2 THEN left \union {<<u, r>>} ELSE left
      PROVE  Alone'
    <2>1. Fits(Active(r), P) /\ IsFiniteSet(P) /\ Cardinality(P) \in Nat
        BY <1>3, KeyForms, CallAssumption, FS_Subset, FS_CardinalityType DEF CInv, Stored
    <2>2. p \in Seq(Commands)
        BY <2>1, EndingIsCommands
    <2>3. PICK C : C = Commands
        OBVIOUS
    <2>4. CASE P = {}
        <3>1. p = <<>> /\ UNCHANGED left
            <4>1. Cardinality(P) = 0
                BY <2>4, FS_EmptySet
            <4> QED
                BY <1>6, <2>4, <4>1 DEF CallEndings
        <3>2. request = {u}
            BY <1>2, <1>3, <1>4, <2>4, EndsKnows, RequestIsOne
        <3>3. q = EndRequest(u, u, r)
            BY <1>6, <3>2
        <3>4. q \in Seq(Commands)
            BY <3>3, KeyForms, DeletionIsCommand DEF EndRequest, Del
        <3>5. p \o q = q
            BY <2>3, <3>1, <3>4, ConcatEmptySeq
        <3> QED
            BY <1>2, <1>3, <1>6, <2>4, <3>1, <3>3, <3>5, EndRequestRests
    <2>5. CASE P # {}
        <3>1. request = {}
            BY <1>2, <1>3, <1>4, <2>5, EndsKnows DEF Agree, AgreeAt
        <3>2. p \o q = p
            BY <1>6, <2>2, <2>3, <3>1, ConcatEmptySeq
        <3>3. CASE Cardinality(P) <= 2
            <4>1. PICK order \in Orders(P) : p = EndCompletely(order, r)
                BY <1>6, <2>5, <3>3 DEF CallEndings
            <4>2. UNCHANGED left
                BY <1>6, <2>1, <3>3
            <4> QED
                BY <1>2, <1>3, <1>6, <2>5, <3>2, <4>1, <4>2, EndCallRests
        <3>4. CASE ~(Cardinality(P) <= 2)
            <4>1. p = LeaveCall(P, u, r) /\ left' = left \union {<<u, r>>}
                BY <1>6, <2>1, <2>5, <3>4 DEF CallEndings
            <4>2. Run(h, LeaveCall(P, u, r)) /\ u \in P /\ P = db[Active(r)]
                BY <1>3, <1>6, <2>5, <3>2, <4>1
            <4> QED
                BY <1>2, <4>1, <4>2, LeaveRests
        <3> QED
            BY <3>3, <3>4
    <2> QED
        BY <2>4, <2>5
<1> QED
    BY <1>1, <1>3, <1>4, <1>5, <1>6 DEF EndDecide
-----------------------------------------------------------------------------
(* Keys expire                                                             *)

\* A request that expires while no handler runs leaves its backup to be read.
LEMMA ExpireRequestRests ==
    ASSUME CInv, Alone, NEW r \in Rooms, ExpireRequest(r), ~disturbed' PROVE Alone'
<1>1. /\ db' = [db EXCEPT ![Request(r)] = {}] /\ expired' = expired \union {r}
      /\ UNCHANGED <<task, consented, left>> /\ \A k \in Handlers : ~Busy(k)
    BY DEF ExpireRequest
<1>2. PICK f, g, E : f = db /\ g = db' /\ E = expired
    OBVIOUS
<1>3. Agree(f, E)'
    <2>1. Agree(f, E)
        BY <1>1, <1>2 DEF Alone
    <2> QED
        BY <1>1, <2>1, AgreeStays
<1>4. /\ \A q \in Rooms : /\ g[Request(q)] = IF q = r THEN {} ELSE f[Request(q)]
                          /\ g[Backup(q)] = f[Backup(q)] /\ g[Active(q)] = f[Active(q)]
      /\ \A v \in Users : g[UserRequest(v)] = f[UserRequest(v)] /\ g[UserActive(v)] = f[UserActive(v)]
    BY <1>1, <1>2, StoredKinds, KeyForms, KeysDiffer
<1>5. Agree(g, E \union {r})'
    <2>1. ASSUME NEW q \in Rooms PROVE AgreeAt(g, E \union {r}, q)'
        <3>1. AgreeAt(f, E, q)'
            BY <1>3 DEF Agree
        <3> QED
            BY <1>4, <3>1 DEF AgreeAt
    <2> QED
        BY <2>1 DEF Agree
<1> QED
    BY <1>1, <1>2, <1>5 DEF Alone, Busy

\* What a handler at work ends in survives the expiry of a mark: the mark is
\* written later, or it is that of no request.
LEMMA MarkExpires ==
    ASSUME CInv, NEW u \in Users, ExpireUserRequest(u), NEW t, Sound(t), AtWork(t) PROVE AtWork(t)'
<1>1. /\ db' = [db EXCEPT ![UserRequest(u)] = {}] /\ UNCHANGED <<expired, consented, left>>
      /\ \A r \in db[UserRequest(u)] : u \notin db[Request(r)]
    BY DEF ExpireUserRequest, history
<1>2. PICK d, e, E, c : d = db /\ e = db' /\ E = Gone(t) /\ c = t.todo
    OBVIOUS
<1>3. PICK f : EndsIn(c, d, f) /\ Agree(f, E)
    BY <1>2 DEF AtWork
<1>4. Marks(c)
    BY <1>2 DEF AtWork, Knows, Marks
<1>5. Knows(t)'
    <2>1. \A k \in Keys : d[k] = {} => e[k] = {}
        BY <1>1, <1>2, StoredKinds
    <2>2. \A r \in Rooms : e[Request(r)] = d[Request(r)] /\ e[Active(r)] = d[Active(r)]
        BY <1>1, <1>2, StoredKinds, KeyForms, KeysDiffer
    <2>3. t.pc \in {"ask", "ring", "accept", "end"} => t.user \in Users /\ t.room \in Rooms
        BY DEF Sound
    <2>4. Knows(t)
        BY DEF AtWork
    <2>5. ASSUME t.pc \in {"ask", "ring"}, NEW i \in 1 .. 5, d[Obstacles(t.user, t.room)[i]] = {}
          PROVE  e[Obstacles(t.user, t.room)[i]] = {}
        <3>1. \A o \in Keys \X Keys \X Keys \X Keys \X Keys : o[i] \in Keys
            OBVIOUS
        <3>2. Obstacles(t.user, t.room) \in Keys \X Keys \X Keys \X Keys \X Keys
            BY <2>3, <2>5, KeyForms DEF Obstacles
        <3> QED
            BY <2>1, <2>5, <3>1, <3>2
    <2>6. t.pc = "ask" => \A i \in 1 .. t.n - 1 : e[Obstacles(t.user, t.room)[i]] = {}
        <3> SUFFICES ASSUME t.pc = "ask", NEW i \in 1 .. t.n - 1 PROVE e[Obstacles(t.user, t.room)[i]] = {}
            OBVIOUS
        <3>1. t.n \in 1 .. 5
            BY DEF Sound
        <3>2. i \in 1 .. 5
            BY <3>1
        <3>3. d[Obstacles(t.user, t.room)[i]] = {}
            BY <1>2, <2>4 DEF Knows
        <3> QED
            BY <2>5, <3>2, <3>3
    <2>7. t.pc = "ring" => \A i \in 1 .. 5 : e[Obstacles(t.user, t.room)[i]] = {}
        BY <1>2, <2>4, <2>5 DEF Knows
    <2>8. /\ t.pc = "accept" /\ t.n = 3 => t.seen = e[Request(t.room)]
          /\ t.pc = "end" => t.user \in e[Active(t.room)] \union e[Request(t.room)]
          /\ t.pc = "end" /\ t.n = 2 => t.seen = e[Active(t.room)]
        BY <1>2, <2>2, <2>3, <2>4 DEF Knows
    <2> QED
        BY <1>1, <1>2, <2>4, <2>6, <2>7, <2>8 DEF Knows, Marks, OfRoom, Obstacles
<1>6. Gone(t)' = E
    BY <1>1, <1>2 DEF Gone
<1>7. \A k \in Keys : e[k] = IF k = UserRequest(u) THEN {} ELSE d[k]
    BY <1>1, <1>2, StoredKinds
<1>8. CASE \E i \in 1 .. Len(c) : UserRequest(u) \in c[i].keys
    <2>1. EndsIn(c, e, f)
        BY <1>3, <1>7, <1>8 DEF EndsIn, Settles
    <2>2. Agree(f, E)'
        BY <1>1, <1>3, AgreeStays
    <2> QED
        BY <1>2, <1>5, <1>6, <2>1, <2>2 DEF AtWork
<1>9. CASE \A i \in 1 .. Len(c) : UserRequest(u) \notin c[i].keys
    <2>1. PICK g : g = [k \in Keys |-> IF k = UserRequest(u) THEN {} ELSE f[k]]
        OBVIOUS
    <2>2. EndsIn(c, e, g)
        BY <1>3, <1>7, <1>9, <2>1 DEF EndsIn, Settles
    <2>3. /\ \A q \in Rooms : /\ g[Request(q)] = f[Request(q)] /\ g[Backup(q)] = f[Backup(q)]
                              /\ g[Active(q)] = f[Active(q)]
          /\ \A v \in Users : /\ g[UserRequest(v)] = IF v = u THEN {} ELSE f[UserRequest(v)]
                              /\ g[UserActive(v)] = f[UserActive(v)]
        BY <2>1, KeyForms, KeysDiffer
    <2>4. ASSUME NEW q \in Rooms, u \in f[Request(q)], f[UserRequest(u)] = {q} PROVE FALSE
        <3>1. d[UserRequest(u)] = {q}
            BY <1>3, <1>9, <2>4, KeyForms DEF EndsIn, Settles
        <3>2. u \notin d[Request(q)]
            BY <1>1, <1>2, <3>1
        <3>3. PICK i \in 1 .. Len(c) : Request(q) \in c[i].keys /\ c[i].value = f[Request(q)]
            BY <1>3, <2>4, <3>2, KeyForms DEF EndsIn, Settles
        <3>4. PICK j \in i + 1 .. Len(c) : UserRequest(u) \in c[j].keys
            BY <1>4, <2>4, <3>3 DEF Marks
        <3>5. j \in 1 .. Len(c)
            BY <3>3, <3>4
        <3> QED
            BY <1>9, <3>4, <3>5
    <2>5. Agree(g, E)
        <3>1. ASSUME NEW q \in Rooms PROVE AgreeAt(g, E, q)
            <4>1. AgreeAt(f, E, q)
                BY <1>3 DEF Agree
            <4> QED
                BY <2>3, <2>4, <4>1 DEF AgreeAt
        <3> QED
            BY <3>1 DEF Agree
    <2>6. Agree(g, E)'
        BY <1>1, <2>5, AgreeStays
    <2> QED
        BY <1>2, <1>5, <1>6, <2>2, <2>6 DEF AtWork
<1> QED
    BY <1>8, <1>9

LEMMA ExpireUserRequestRests ==
    ASSUME CInv, Alone, NEW u \in Users, ExpireUserRequest(u) PROVE Alone'
<1>1. /\ db' = [db EXCEPT ![UserRequest(u)] = {}] /\ UNCHANGED <<task, expired, consented, left>>
      /\ \A r \in db[UserRequest(u)] : u \notin db[Request(r)]
    BY DEF ExpireUserRequest, history
<1>2. Agree(db, expired) => Agree(db, expired)'
    <2>1. PICK d, e, E : d = db /\ e = db' /\ E = expired
        OBVIOUS
    <2>2. /\ \A q \in Rooms : /\ e[Request(q)] = d[Request(q)] /\ e[Backup(q)] = d[Backup(q)]
                              /\ e[Active(q)] = d[Active(q)]
          /\ \A v \in Users : /\ e[UserRequest(v)] = IF v = u THEN {} ELSE d[UserRequest(v)]
                              /\ e[UserActive(v)] = d[UserActive(v)]
        BY <1>1, <2>1, StoredKinds, KeyForms, KeysDiffer
    <2>3. ASSUME Agree(d, E) PROVE Agree(e, E)'
        <3>1. ASSUME NEW q \in Rooms PROVE AgreeAt(e, E, q)'
            <4>1. AgreeAt(d, E, q)'
                BY <1>1, <2>3, AgreeStays DEF Agree
            <4>2. d[UserRequest(u)] = {q} => u \notin d[Request(q)]
                BY <1>1, <2>1
            <4> QED
                BY <2>2, <4>1, <4>2 DEF AgreeAt
        <3> QED
            BY <3>1 DEF Agree
    <2> QED
        BY <1>1, <2>1, <2>3
<1>3. \A h \in Handlers : AtWork(task[h]) => AtWork(task[h])'
    <2>1. ASSUME NEW h \in Handlers, AtWork(task[h]) PROVE AtWork(task[h])'
        <3>1. PICK t : t = task[h]
            OBVIOUS
        <3>2. AtWork(t)'
            BY <2>1, <3>1, TaskIsSound, MarkExpires
        <3> QED
            BY <1>1, <3>1, <3>2 DEF AtWork, Knows, Gone
    <2> QED
        BY <2>1
<1> QED
    BY <1>1, <1>2, <1>3 DEF Alone, Busy

\* While nothing disturbs them, handlers clear each backup before it expires.
LEMMA ExpireBackupRests == ASSUME CInv, Alone, NEW r \in Rooms, ExpireBackup(r) PROVE Alone'
<1>1. /\ db[Backup(r)] # {} /\ db[Request(r)] = {} /\ r \notin expired
      /\ \A h \in Handlers : ~InRoom(h, r)
    BY DEF ExpireBackup
<1>2. ~(\A h \in Handlers : ~Busy(h))
    BY <1>1 DEF Alone, Agree, AgreeAt
<1>3. ASSUME NEW h \in Handlers, Busy(h) PROVE FALSE
    <2>1. PICK t : t = task[h]
        OBVIOUS
    <2>2. AtWork(t) /\ t.room # r
        BY <1>1, <1>3, <2>1, BusyAlone DEF InRoom
    <2>3. PICK f : EndsIn(t.todo, db, f) /\ Agree(f, Gone(t))
        BY <2>2 DEF AtWork
    <2>4. \A i \in 1 .. Len(t.todo) : Request(r) \notin t.todo[i].keys /\ Backup(r) \notin t.todo[i].keys
        <3>1. CASE t.pc = "run"
            BY <2>2, <3>1 DEF AtWork, Knows, OfRoom
        <3>2. CASE t.pc # "run"
            BY <2>2, <3>2 DEF AtWork, Knows
        <3> QED
            BY <3>1, <3>2
    <2>5. f[Request(r)] = db[Request(r)] /\ f[Backup(r)] = db[Backup(r)]
        BY <2>3, <2>4, KeyForms DEF EndsIn, Settles
    <2>6. r \notin Gone(t)
        BY <1>1, <2>2 DEF Gone
    <2> QED
        BY <1>1, <2>3, <2>5, <2>6 DEF Agree, AgreeAt
<1> QED
    BY <1>2, <1>3

-----------------------------------------------------------------------------
(* The keys agree                                                          *)

LEMMA AInvInit == ASSUME Init PROVE AInv
<1>1. \A h \in Handlers : ~Busy(h)
    BY DEF Init, Busy, Idle
<1>2. Agree(db, expired)
    <2>1. ASSUME NEW r \in Rooms PROVE AgreeAt(db, expired, r)
        <3>1. /\ db[Request(r)] = {} /\ db[Backup(r)] = {} /\ db[Active(r)] = {} /\ expired = {}
              /\ \A u \in Users : db[UserRequest(u)] = {} /\ db[UserActive(u)] = {}
            BY KeyForms DEF Init
        <3> QED
            BY <3>1 DEF AgreeAt
    <2> QED
        BY <2>1 DEF Agree
<1> QED
    BY <1>1, <1>2 DEF AInv, Alone

LEMMA AInvStep == ASSUME CInv, AInv, [Next]_vars PROVE AInv'
<1> SUFFICES ASSUME ~disturbed' PROVE Alone'
    BY DEF AInv
<1>1. CASE UNCHANGED vars
    <2>1. UNCHANGED <<db, task, expired, consented, left, disturbed>>
        BY <1>1 DEF vars, history
    <2> QED
        BY <2>1, NothingRests DEF AInv
<1>2. ASSUME NEW h \in Handlers, HandlerStep(h) PROVE Alone'
    <2>1. Alone
        <3>1. UNCHANGED disturbed
            BY <1>2 DEF HandlerStep, Execute, AskRefused, AskNext, Ring, AnswerUnmark, AcceptRead,
                        AcceptJoin, EndRead, EndDecide, ExpireDecide, history
        <3> QED
            BY <3>1 DEF AInv
    <2> QED
        BY <1>2, <2>1, ExecuteRests, AskGoesOnAlone, RingRests, AnswerUnmarkRests, AcceptReadRests,
           AcceptJoinRests, EndReadRests, EndDecideRests, ExpireDecideRests DEF HandlerStep
<1>3. ASSUME NEW h \in Handlers, NEW u \in Users, NEW r \in Rooms, Ask(h, u, r) \/ End(h, u, r)
      PROVE  Alone'
    <2>1. ~disturbed
        BY <1>3 DEF Ask, End, Start
    <2> QED
        BY <1>3, <2>1, AskRests DEF AInv
<1>4. ASSUME NEW h \in Handlers, NEW u \in Users, NEW c \in Users, NEW r \in Rooms, NEW yes \in BOOLEAN,
             Answer(h, u, c, r, yes)
      PROVE  Alone'
    <2>1. ~disturbed
        BY <1>4 DEF Answer, Start
    <2> QED
        BY <1>4, <2>1, AnswerRests DEF AInv
<1>5. ASSUME NEW h \in Handlers, NEW u \in Users, OnDisconnect(h, u) PROVE Alone'
    <2>1. ~disturbed
        BY <1>5 DEF OnDisconnect, Start
    <2> QED
        BY <1>5, <2>1, OnDisconnectRests DEF AInv
<1>6. ASSUME NEW u \in Users, Disconnect(u) \/ Connect(u) PROVE Alone'
    <2>1. UNCHANGED <<db, task, expired, consented, left, disturbed>>
        BY <1>6 DEF Disconnect, Connect, history
    <2> QED
        BY <2>1, NothingRests DEF AInv
<1>7. ASSUME NEW u \in Users, ExpireUserRequest(u) PROVE Alone'
    <2>1. ~disturbed
        BY <1>7 DEF ExpireUserRequest, history
    <2> QED
        BY <1>7, <2>1, ExpireUserRequestRests DEF AInv
<1>8. ASSUME NEW r \in Rooms, ExpireRequest(r) \/ ExpireBackup(r) PROVE Alone'
    <2>1. ~disturbed
        BY <1>8 DEF ExpireRequest, ExpireBackup, history
    <2> QED
        BY <1>8, <2>1, ExpireRequestRests, ExpireBackupRests DEF AInv
<1>9. ASSUME NEW h \in Handlers, NEW r \in Rooms, OnExpired(h, r) PROVE Alone'
    <2>1. ~disturbed
        BY <1>9 DEF OnExpired, Start
    <2> QED
        BY <1>9, <2>1, OnExpiredRests DEF AInv
<1>10. (\A k \in Keys : ~ExpireCall(k)) /\ ~Crash
    BY DEF ExpireCall, Crash
<1> QED
    BY <1>1, <1>2, <1>3, <1>4, <1>5, <1>6, <1>7, <1>8, <1>9, <1>10 DEF Next

LEMMA AgreementHolds == Spec => [](CInv /\ AInv)
<1>1. Init => CInv /\ AInv
    BY InitHolds, AInvInit
<1>2. CInv /\ AInv /\ [Next]_vars => (CInv /\ AInv)'
    BY StepKeeps, AInvStep
<1> QED
    BY <1>1, <1>2, PTL DEF Spec

\* Whatever users ask, answer and end one after the other, and whatever expires
\* in between, a request, its backup and its caller's mark agree once all is
\* at rest: every chain of commands clears or sets all three.
THEOREM RequestsAgree == Spec => []RequestConsistent
<1>1. CInv /\ AInv => RequestConsistent
    <2> SUFFICES ASSUME CInv, AInv, AtRest, NEW r \in Rooms
                 PROVE  /\ db[Backup(r)] = db[Request(r)]
                        /\ \A u \in db[Request(r)] :
                              \/ \E q \in Rooms \ {r} : <<u, q>> \in consented
                              \/ db[UserRequest(u)] = {r}
                        /\ \A u \in Users : db[UserRequest(u)] = {r} => u \in db[Request(r)]
        BY DEF RequestConsistent
    <2>1. AgreeAt(db, {}, r)
        BY DEF AInv, AtRest, Alone, Agree
    <2>2. db[Request(r)] \in SUBSET Users
        BY StoredKinds
    <2> QED
        BY <2>1, <2>2 DEF AgreeAt, Elsewhere
<1> QED
    BY <1>1, AgreementHolds, PTL

\* ... and so do the participants of a call and their own marks, but for who
\* left it or took another call meanwhile.
THEOREM CallsAgree == Spec => []CallConsistent
<1>1. CInv /\ AInv => CallConsistent
    <2> SUFFICES ASSUME CInv, AInv, AtRest, NEW r \in Rooms
                 PROVE  /\ \A u \in Users : db[UserActive(u)] = {r} => u \in db[Active(r)]
                        /\ \A u \in db[Active(r)] :
                              \/ <<u, r>> \in left
                              \/ \E q \in Rooms \ {r} : <<u, q>> \in consented
                              \/ db[UserActive(u)] = {r}
        BY DEF CallConsistent
    <2>1. AgreeAt(db, {}, r)
        BY DEF AInv, AtRest, Alone, Agree
    <2>2. db[Active(r)] \in SUBSET Users
        BY StoredKinds
    <2> QED
        BY <2>1, <2>2 DEF AgreeAt, Elsewhere
<1> QED
    BY <1>1, AgreementHolds, PTL

=============================================================================
