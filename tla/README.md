# togetherand: models and proofs

TLA+ modules of *togetherand*, the server (`src/server`, NestJS: random
matchmaking, calls, chat, friends, accounts, mediasoup) and the parts of the front
(`src/front`, React) that keep state of their own; the TLC configurations that check
them on small instances; and theorems about them checked by TLAPS. The modules
are translated from the code; line numbers are those of `src/`. `PROJECT.json`
lists, for each definition, the lines it stands for.

## 1. The system

One Node process per server: code runs without interruption from one `await` to
the next, and every `await` (Redis, the database, Socket.IO, a mediasoup worker)
lets other handlers in. Redis executes each command atomically, but no handler
uses transactions or scripts (except for sorted sets popped by one command), so
a handler is a chain of atomic commands that interleaves with every other one.

| Component | State it keeps | Operations | Talks to | What makes it hard | Modelled in |
|---|---|---|---|---|---|
| Matchmaking, `match/match.service.ts` | Redis sorted set per game type; match rows | `createMatchRequest`, `tryMatchmaking`, `findMatchingUsers`, `createMatch`, `cancelMatchRequest` | Redis, database, match gateway | pop and put-back are separate; withdrawals meet popped users; nothing wakes matchmaking up | `MatchQueue` |
| Match gateway, `match/match.gateway.ts` | sockets; `MATCH_SOCKET_KEY`, `MATCH_ROOM_KEY` per user; Socket.IO rooms | connect, disconnect, request, cancel, `notifyMatchSuccess` | matchmaking, mediasoup | several tabs, reconnection while a notification runs, stale keys | `MatchGateway` |
| Call signalling, `call/call.service.ts`, `chat/chat.gateway.ts` 345-404 | six kinds of Redis keys: request, backup, active call of a room; request, active call, awaited response of a user | request, respond, end, expiry handler, pending request at connection | Redis, chat rooms, mediasoup | chains of single-key commands; key expiry events; disconnections | `CallSignalling` |
| Distributed lock, `redis/redis.service.ts` 693-775 | one key per lock, with a time to live | acquire with retries, release | Redis | crashes, failed commands, operations longer than the time to live | `DistLock`, `Mutex` |
| Mediasoup rooms, `mediasoup/*.ts` | workers; Maps of routers, transports, producers, consumers; metrics; Socket.IO rooms; a room key per user | create, consume, clean up, leave, delete room, worker restart | workers, the lock, Redis | Maps change between awaits; clean-up meets creation | `MediasoupRooms` |
| Presence, `redis.service.ts` 512-686, `online-status-monitor.service.ts`, `chat.gateway.ts` | status key per user, set of online users | connect, disconnect, monitor jobs, telling the friends | Redis, friends, the pages of friends | expiry of keys, several tabs, jobs that read and then write | `Presence` |
| Friends, `friends/friends.service.ts` | friend requests, friendships; the lists clients show | ask, answer (accept, reject, cancel, make pending again), withdraw, unfriend | database | two users at once, answers given twice, calls cut off | `Friends` |
| Chat, `chat/chat.service.ts`, `chat.gateway.ts`; the page of a room | rooms, members, messages, unread counts, subscriptions; messages and readings of a page | create, add, leave, remove, delete, send, read, mark as read; accounts removed | database, Socket.IO | lookup and insert are separate; pages of messages and the socket arrive in any order | `ChatRooms`, `ChatClient` |
| Authentication, `auth/*.ts`, `users/*.ts`, `common/guards`; `fetchWithAuth` and the auth store | accounts, verification codes, sessions, counters; cookies, the shared refresh | sign up, in, out, social callback, refresh, verify, reset, withdraw, update | Redis, database, mail | look-ups that interleave, one refresh shared by many calls, late answers | `Accounts`, `SignedIn` |
| Front: match, call and media, `front/domain/{match,call,mediasoup}` | the call store, the device stream, transports, producers, consumers | hooks and socket listeners | all gateways | every hook awaits, acknowledgements and events cross, and nothing handles a lost connection | `MediaClient`, `CallPage` |
| Mail, S3, database setup, nginx, rendering | none of their own | - | - | - | not modelled |

What makes each correct:

- matchmaking: nobody who waits is forgotten, nobody who withdrew is matched,
  a request is matched once, those who fit together are matched;
- match gateway: the key of a user names their live socket; a matched user is told
  and is in the room; when one leaves the other hears of it;
- calls: participants are those who asked or accepted; the keys of a room and of
  its users agree; what ends is forgotten everywhere;
- lock: one at a time; a lock left behind does not block for ever;
- media: no router, transport, producer or consumer outlives its owner or hides
  another; nobody stays alone in a room that was left;
- presence: the key and the set agree, friends hear who goes as they heard who came,
  nobody is remembered for ever;
- friends: one friendship and one open request per pair, and none without consent since the two were last apart;
- chat: one direct room per pair, rooms keep their owner, a page shows every message once and
  what is shown is read;
- accounts: one account per person, what was signed out stays out, one refresh at a time;
- call page: what is shown, sent and received agrees with where the server holds the user.

## 2. Modules

```
Mutex <---- DistLock <---- MediasoupRooms     MatchQueue <---- MatchGateway     CallSignalling
(implemented by)   (EXTENDS)                        (EXTENDS)

Friends <---- Presence     ChatRooms <---- ChatClient     Accounts <---- SignedIn     MediaClient <---- CallPage
     (EXTENDS)                  (EXTENDS)                     (EXTENDS)                      (EXTENDS)
```

Proofs are in modules of their own: `MediasoupRoomsProofs` (first about DistLock,
then about the rooms that use it), `MatchProofs` (about MatchQueue and MatchGateway), `CallSignallingProofs`,
`SocialProofs` (about Friends and Presence), `ChatRoomsProofs` (about ChatRooms within ChatClient),
`AccountsProofs` (about Accounts within SignedIn), `CallPageProofs` (the page of CallPage by itself) and
`CallPageSessionProofs` (the page and the server).

Each `MC*.tla` adds symmetry sets and other constants for TLC to the module it
is named after; each `.cfg` is one run.

**MatchQueue.** `queue[g][u]` is the sorted set of game type `g` (a score or
none); `handler[h]` is a running `createMatchRequest` with the locals of
`findMatchingUsers` (candidates popped, index, users matched). `Request` is the
handler up to its first await after ZADD, `TooFew`/`Enough` the answer to ZCARD,
`Pop` ZPOPMIN, `Pair`/`PairGap`/`PairDone` the first loop, `Leftover`/`LeftoverDone`
the second loop, `Save`/`SaveFails` `createMatch`, `Cancel` and `Leave` the two ways out of
the queue, `Crash` the end of the process. Equal scores are popped in
either order (Redis orders them by member). The five-minute window and the pop
of five are the constants `MaxWaitTimeDiff` and `PopCount`.

**MatchGateway** extends it with sockets. `<<u, n>>` is the n-th socket `u`
opens. `Open`, `Arrive`, `SetKey` are `handleConnection`; `Drop`, `ReadRoom`, `EndRoom`
`handleDisconnect`, one await each; `NotifyRead`, `NotifyJoin`, `NotifyKey`,
`TellRead`, `TellEmit`, `TellFails` `notifyMatchSuccess`, which nobody waits for. `GCrash` loses
sockets, rooms and notifications and keeps the Redis keys.

**CallSignalling.** `db` is Redis, one function over all keys; a value is the set
of users (or rooms) in it and an absent key is empty. A handler reads, decides,
and then has a list of commands that `Execute` runs one at a time; so every order
of the commands of two handlers is covered. `OnExpired`/`ExpireDecide` are the
handler of Redis' expiry events, which may come late; `ExpireBackup`,
`ExpireUserRequest` and `ExpireCall` are the other times to live. `End` is a click in a page that
shows the call; the server itself does not ask whether the caller of `handleCallEnd` is in it (`call.service.ts:401-454`).

**DistLock.** `key` is the set of lock keys that exist, `locker[h]` how far handler `h` is.
`Release` deletes the key whoever set it, as the code does. `Outlast` is the
time to live running out under an operation; such a lock is in `overrun` and
promises nothing any more. **Mutex** is what is promised otherwise.

**MediasoupRooms** extends DistLock, with a lock for the router of each room; the locks
around the worker index and the metrics, which guard code without awaits, are a
step that may fail. `things` are the three Maps, `open` what the workers have, `task[h]`
a handler and its locals. The awaits inside `getRoomRouter`, `createWebRtcTransport`,
`createProducer`, `createConsumer`, `cleanupEmptyRouters`, `handleUserLeave` and
`deleteRoom` are step boundaries; `cleanUp` up to its first await is one step.

**Friends.** `requests` and `friendships` are the two tables, a row per id; no
index makes a pair unique. A call is a job, each of its SQL statements a step: `LookForOpen`, `LookForFriend`,
`InsertRequest` are `createFriendRequest`; `ReadRequest`, `CheckFriend`, `Befriend`, `SaveAnswer`,
`RemoveRejected` are `updateFriendRequest`, with the row it read first; `FindSent`/`DropRequest` and
`FindFriendship`/`DropFriendship` are the two deletions. `Answer` takes any of the four statuses for any request
the user knows of, as `UpdateFriendRequestDto` does, and `Allowed` is what the service asks of each: "pending" is free to both
sides, whatever the row was before. `shown` is what a client was ever answered, and
clients act on that. `Fail` ends a call between two statements. Of the history variables `asked` and `agreed` say who asked whom and
who accepted; what two users asked and agreed is over when they part. The run begins with a request that is open or was accepted
long ago, so that answering an old request again, before or after an unfriending, is within a few steps.

**Presence** extends it with chat sockets, of which a user may have several. `SetKey`, `AddToSet` are
`setUserOnlineStatus`, `DeleteKey`, `RemoveFromSet` are `setUserOffline`; `ReadFriends`/`TellFriend` tell the
friends, on the first socket found for each. `Wake`, `Inspect`, `ReadAgain`, `Mark`, `List`, `CleanUp` are the three
scheduled jobs, each followed for one user. `Expire` is the five minutes running out; `Crash` ends
everything except Redis and the database.

**ChatRooms.** `room`, `member`, `unread` and `message` are the tables; a call is a job and a statement is a step, except
that a message is saved together with the unread counts in one transaction. `Create` takes the type and the members as they are
sent; `Add` puts anybody into any room in any role, since `addMember` asks neither who calls nor what room it is; `RemoveAccount` is
`withdrawAccount` or `deleteUser`, which take the user's rows and messages in every room along and look at no room (an admin may do what a member may). `joined`
holds the Socket.IO rooms of each socket: decided at connection and at subscription, never again.

**ChatClient** extends it with the page of a room of some users (`Readers`): readings of
messages by offset from the newest (`Read`, `Arrive`, `LoadMore`), the subscription (`CheckMember`, `Subscribe`), messages from
the socket (`Receive`), and `mark-messages-read` (`MarkMessagesAsRead`). Readings go on when the page is left.

**Accounts.** A request is a job that goes through the request limit (`ThrottleGuard`), the guard of
its endpoint and the awaits of its handler. An access token is the account it names, a refresh
token the number of its session. `stored` and `revoked` are the two kinds of keys of sessions.

**SignedIn** extends it with one browser: cookies with what they have left, the calls of
`fetchWithAuth`, its two module variables `isRefreshing` and `refreshPromise`, and the auth store. Call `c` of
the page and job `c` of the server are two ends of one request. `Pause` lets ten minutes pass.

**MediaClient** has the operators on the call store and on the media service: what
`setCallState`, `cleanupLocalOnlySync`, the transports, producers and consumers do.

**CallPage** applies them. An asynchronous function of a hook is a task that runs from
await to await: `MatchAnswered`, `Accepted`, `Setup` (eight awaits), `Turned`, `Shared`, `Consumed` and so on. `inbox` is the
one connection from the server, in order; `sent` the emissions without an acknowledgement. `srv` is
the server as far as one user sees it: the queue, the rooms the user sits in, who is present and
produces there, and whether a call rings. `ConnectionLost` is the loss of the page's connection (the three namespaces share one): the three
`handleDisconnect` take the user out of queue, match and call (`Dropped`), or out of some of them, where a key they look at is gone; what is on its way
is lost, a function that awaits an answer awaits it for ever, and the page, which has no handler for it, goes on showing what it
showed. The connection is there again at once; what others do while it is away is not followed. `srv` is a summary of MatchGateway,
CallSignalling and MediasoupRooms written for this purpose, and not shown to implement them.

## 3. Runs

All runs bound counters by the constants marked "bound" in each module.

| Run | Instance | Checks |
|---|---|---|
| `match` | 3 users, 1 queue, 2 handlers, 3 clock values, 4 requests, 1 fault | `TypeOK`, `NoWaiterLost`, `WithdrawalSticks`, `OneMatchUnlessGap` |
| `match_requeue` (violated) | 3 users, 1 handler, no fault | `OneMatchPerRequest` |
| `gateway` | 2 users, 3 sockets, 1 handler, 2 requests, 1 fault | `SocketReachable`, `UndisturbedMatchTold`, `PartnerLearns` |
| `gateway_live` | 2 users, 2 sockets, 1 handler, 3 requests, 1 fault | `HeldIsTemporary`, `NotifyEnds` |
| `call` | 3 members of a room, 2 handlers, 2 calls, 1 trouble | `ParticipantsConsented`, `RequestConsistent`, `CallConsistent` |
| `call_leaver` (violated) | 3 members, 1 handler, 1 call | `LeaversAreOut` |
| `lock` | 3 handlers, 2 locks, 2 attempts, 2 faults | `Exclusive`, `TryEnds` |
| `mediasoup` | 2 users, 1 room, 1 worker, 6 jobs, 1 trouble | `NoRouterLost`, `NothingDangles`, `MetricsAgree`, `NobodyLeftAlone` |
| `social` | 2 users, one of whom keeps a tab; 2 tabs, or 3 calls, or one of each; 1 request left from before; 2 calls at a time, 1 scheduled job | `OnePerPair`, `NotAskedOfFriends`, `FriendsAgreed`, `PresenceAgrees`, `ToldWhenGone`, `Forgotten` |
| `chat` | 3 users, 2 rooms, 1 reader, page size 1, 3 messages, load 2 | `OneDirectRoom`, `OwnerStays`, `NobodyLeftBehind`, `PagesMeet`, `SenderHears`, `ReadWhenShown` |
| `auth` | 2 people, 1 mail, 2 accounts, 4 requests, 1 failure | `OneRefresh`, `SignedOutStays`, `ShownHasSession`, `OneAccountEach` |
| `page` | 1 match room and 1 chat of three, 2 asynchronous functions, 2 clicks, 3 acts of others or lost connections | `EndedIsClean`, `SeatedIsShown`, `ShownIsSeated`, `MutedIsSilent`, `EverybodyConsumed`, `PeopleShown` |

Why the bounds are enough for the cases that matter:

- *match*: two handlers can hold users at the same time, a batch of three has a gap
  on either side of a pair, and a fourth request lets somebody return after a match or a withdrawal.
  Users, queues and handlers are interchangeable (symmetry).
- *gateway*: with three sockets one user has a second tab or reconnects while the
  notification runs; with one fault either a save fails or the server
  restarts with sockets open.
- *call*: three members are the fewest with a call that goes on when one leaves.
  A trouble is two handlers that meet, a disconnection, an expiry after an hour or a crash:
  each alone, since their combinations are beyond TLC in the time given.
- *lock*: three handlers are the fewest with one inside, one who finds a key left
  behind and one who waits; two faults allow an expired lock and a failed DEL.
- *mediasoup*: six jobs are a join, two transports, a producer, a consumer and a
  departure, the shortest behaviour with something of each kind; any of them
  may meet the next one half way (one meeting), or a fault may
  happen (lock not to be had, worker dead, lock outlasted, shutdown), which counts as two jobs.
  Two meetings, or a meeting and a fault, are not covered.
- *social*: two tabs of one user overlap, or one comes while the other goes; three calls are
  a request, its answer and one more, or an unfriending between two answers to a request left from before; the last of them is served alone, the first two
  may cross. A tab and a call let a friendship end while friends are told, and tabs do not meet rows of requests. One scheduled job meets each handler; two
  jobs at once, and what is beyond three calls, are left to the proof.
- *chat*: two calls about rooms are what two members do at once; one call and a page, or messages and
  a page, let pages move while they are read. Page size 1 makes every message move every page.
- *auth*: two calls that share a refresh, with the answer that ends it and one more; or a sign-out that
  meets them. The other person comes in by requests of their own; both may be told the same mail.
- *page*: two clicks and three acts are a call or match with its end and something that crosses each
  of the two; the tasks of one end are still there when the next session begins. A lost connection counts as an act, and may come
  at any point of a session, with the next session after it. (1.9 million states.)

`CHECK_DEADLOCK FALSE` is there in every run because the systems may stop: clients need not act.

**Fairness.** `MatchQueue` and `MatchGateway` assume weak fairness of each handler,
socket handler and notification: Redis, the database and the workers answer or fail, and
Node runs every continuation. `DistLock` assumes it of attempts, which a timer
repeats. `Presence` assumes that handlers and jobs go on, that keys expire, which Redis sees to, and that
the clean-up looks at whoever is in the set again and again (strong fairness, since somebody may leave and
enter the set between two of its rounds): it is scheduled by the hour. No client action and no crash is assumed to happen.
Where a specification states fairness, only `social` checks safety under it, which changes nothing about safety.

### What does not hold

Two runs show the code disagreeing with its comments (`findings` in `PROJECT.json`):

1. `findMatchingUsers` puts users it has matched back into the queue when the waiting
   times have a gap (`match.service.ts:170`).
2. Who leaves a call of three stays among its participants (`call.service.ts:433`).

Seen while modelling, kept in the models, and named by the exceptions of the properties rather than by a
run of their own:

- *Matchmaking*: two users who fit together may wait although the server is at rest, since nothing wakes
  matchmaking up (`match.service.ts:64`); a socket may be told of a match without being in its room (`match.gateway.ts:204`).
  An event that arrives while `handleConnection` awaits the user has no user key (`match.gateway.ts:134`; not modelled).
- *Calls*: a cancelled call leaves the called users marked as having to answer (`call.service.ts:451`).
- *Mediasoup*: a transport may be entered after the clean-up of its user (`mediasoup.service.ts:377`); the
  death of a worker is announced to no room, because its routers are forgotten before the rooms are looked
  up (`mediasoup.service.ts:192-195`), and does not count the metrics down; a user who
  disconnects when their room key is gone is not cleaned up (`mediasoup.gateway.ts:87`).
- *Presence* is per user and not per tab: whichever tab goes takes it along, and nobody renews the key of
  a user who stays, who is offline for his friends after five minutes.
- *Friends*: a request may be answered again after it was answered (`friends.service.ts:94`), which brings a friendship back after an unfriending; either
  side may make it pending again beside a newer one (`friend.dto.ts:23`, `friends.service.ts:158`); two calls at once make two requests or two
  friendships (`friends.service.ts:31`); the list of sent requests cancels with the id of a user where that of a request belongs.
- *Chat*: two calls at once make two direct rooms (`chat.service.ts:32`), and so does adding somebody to one (`chat.controller.ts:118`); whoever is added
  as a second owner may remove the first; the removal of an account leaves rooms without their owner, or somebody alone (`chat-room-member.entity.ts:45`); the socket of a removed member goes on hearing
  the room (`chat.service.ts:407`); a message between the page's reading and its subscription is missed until the room
  is read again; after a reconnection nothing subscribes again (`chatSocket.ts:92`).
- *Accounts*: a refresh leaves the old session valid (`auth.service.ts:200`); a refresh that answers after the sign-out
  signs the browser in again; the `finally` of an older refresh forgets the newer one (`common.ts:85`); a refused request clears an access
  cookie that is new; the request limit counts in 60000 seconds, and reads and writes in two commands; the refresh cookie, given
  604800 milliseconds, lasts about ten minutes; people whose provider tells no mail share the account of the empty mail.
- *Call page*: a late acknowledgement takes the page from a match back to waiting; `??` keeps the room of the last call (`call.ts:93`);
  events of one session end another, since nothing compares rooms; the set-up of a call is not stopped by its end; `user_left`
  is told with other fields than are read; stopping a screen share names no producer. When the connection is lost the server drops the seat
  (`mediasoup.gateway.ts:78`) and the page goes on showing the call, or waiting for a match, for ever, and a request under way never ends.

The properties that hold say where the code keeps its promises, and name the
exceptions: `SocketReachable` for users whose sockets do not overlap, `RequestConsistent` and
`CallConsistent` between handlers that did not meet, `NothingDangles` for entries that were not being made
during a clean-up, `MetricsAgree` without faults, `OnePerPair` and `OneDirectRoom` for pairs about which no two calls of
a kind crossed, the former for pairs without a request made pending again, the latter for rooms made for the two, `FriendsAgreed` and
`NotAskedOfFriends` for pairs whose requests were answered once (`Excused`), `OwnerStays` and `NobodyLeftBehind` for rooms that no removal of an account and no second owner
touched (`Unowned`, `Deserted`), `PresenceAgrees` for users whose handlers did not overlap, `SignedOutStays` for refreshes
that were not in flight, and those of the page for sessions it did not give up for another one and in which its connection was not lost. History variables
(`crossed`, `revived`, `bereft`, `raced`, `missed`, `racing`, `strayed`, `hasty`, ...), which no action of the program reads, say which these are.

## 4. Proofs

For every value of the constants (under the named assumptions of each module):

| Theorem | Statement |
|---|---|
| `MatchProofs!TypeCorrect` | `Spec => []TypeOK` |
| `MatchProofs!WaitersKept` | `Spec => []NoWaiterLost` |
| `MatchProofs!WithdrawnStayOut` | `Spec => []WithdrawalSticks` |
| `MatchProofs!OneMatchForOneRequest` | `Spec => []OneMatchUnlessGap` |
| `MediasoupRoomsProofs!LockTypeCorrect` | `LockSpec => []LockTypeOK` |
| `MediasoupRoomsProofs!LockExcludes` | `LockSpec => []MutualExclusion` |
| `MediasoupRoomsProofs!LockImplementsMutex` | `LockSpec => Exclusive`, that is `Mutex!Spec` under the refinement mapping `inside` |
| `MediasoupRoomsProofs!NoRouterIsLost` | `Spec => []NoRouterLost` |
| `MediasoupRoomsProofs!NothingIsLeftDangling` | `Spec => []NothingDangles` |
| `MediasoupRoomsProofs!MetricsAgreeAlways` | `Spec => []MetricsAgree` |
| `MediasoupRoomsProofs!NobodyIsLeftAlone` | `Spec => []NobodyLeftAlone` |
| `MatchProofs!QueueIsKept` | `GSpec => [](TypeOK /\ NoWaiterLost /\ WithdrawalSticks /\ OneMatchUnlessGap)` |
| `MatchProofs!GatewayTypeCorrect` | `GSpec => []GTypeOK` |
| `MatchProofs!SocketsAreReachable` | `GSpec => []SocketReachable` |
| `MatchProofs!UndisturbedAreTold` | `GSpec => []UndisturbedMatchTold` |
| `MatchProofs!PartnersLearn` | `GSpec => []PartnerLearns` |
| `CallSignallingProofs!CallsTypeCorrect` | `Spec => []TypeOK` |
| `CallSignallingProofs!OnlyWhoConsented` | `Spec => []ParticipantsConsented` |
| `CallSignallingProofs!RequestsAgree` | `Spec => []RequestConsistent` |
| `CallSignallingProofs!CallsAgree` | `Spec => []CallConsistent` |
| `SocialProofs!FriendsTypeCorrect` | `FSpec => []FTypeOK` |
| `SocialProofs!FriendshipTakesTwo` | `FSpec => []FriendsAgreed` |
| `SocialProofs!PairsAreSingle` | `FSpec => []OnePerPair` |
| `SocialProofs!FriendsAreNotAsked` | `FSpec => []NotAskedOfFriends` |
| `SocialProofs!PresenceTypeCorrect` | `PSpec => []PTypeOK` |
| `SocialProofs!KeyAndSetAgree` | `PSpec => []PresenceAgrees` |
| `SocialProofs!PairsStaySingle` | `PSpec => [](OnePerPair /\ NotAskedOfFriends /\ FriendsAgreed)` |
| `SocialProofs!FriendsHearWhoGoes` | `PSpec => []ToldWhenGone` |
| `ChatRoomsProofs!RoomsTypeCorrect` | `CSpec => []RTypeOK` |
| `ChatRoomsProofs!OwnerIsKept` | `CSpec => []OwnerStays` |
| `ChatRoomsProofs!DirectRoomIsOne` | `CSpec => []OneDirectRoom` |
| `ChatRoomsProofs!NobodyIsLeftBehind` | `CSpec => []NobodyLeftBehind` |
| `ChatRoomsProofs!SenderIsHeard` | `CSpec => []SenderHears` |
| `AccountsProofs!BrowserTypeCorrect` | `SSpec => []STypeOK` |
| `AccountsProofs!PersonHasOneAccount` | `SSpec => []OneAccountEach` |
| `AccountsProofs!RefreshIsShared` | `SSpec => []OneRefresh` |
| `AccountsProofs!WhoLeftStaysOut` | `SSpec => []SignedOutStays` |
| `AccountsProofs!ShownIsSignedIn` | `SSpec => []ShownHasSession` |
| `AccountsProofs!NobodyRefusedEarly` | `SSpec => []RefusesLate`: the request limit refuses nobody who came before it was reached |
| `AccountsProofs!LettersCount` | `SSpec => []LastLetterCounts`: the code of the last letter is the one compared with |
| `CallPageProofs!PageTypeCorrect` | `KSpec => []KTypeOK` |
| `CallPageProofs!PageEndsClean` | `KSpec => []EndedIsClean` |
| `CallPageProofs!PageMutesSilent` | `KSpec => []MutedIsSilent` |
| `CallPageSessionProofs!PageShowsSeated` | `KSpec => []ShownIsSeated` |
| `CallPageSessionProofs!PageShowsHeld` | `KSpec => []SeatedIsShown` |
| `CallPageSessionProofs!PageConsumesAll` | `KSpec => []EverybodyConsumed` |

*MatchQueue.* `NoWaiterLost` is not inductive: when the first loop of
`findMatchingUsers` ends, the second one starts at the number of matched users, and
nobody between the two indices may be skipped. `LoopInv` says what the locals of a
handler are between steps: nothing popped before the pop, fewer users matched than
candidates looked at, users matched in twos. With it each step keeps every waiter in
the queue or in the hands of a handler that still owes them a match or a place.
`WithdrawalSticks` follows from its own step lemma: handlers only put
back users they hold, and a withdrawal in the sense of the property is one nobody held.
`OneMatchUnlessGap` compares a number of matches with a number of requests, and is inductive for a larger number: all the
`Places` where a request may be (a match, a queue, the hands of a handler). No step adds a place except a request and a put-back,
and a put-back gives one up, because a batch paired without a gap is matched in order (`Straight`) and the second loop never meets somebody matched.
Assumptions: `ConstantsAssumption` (finitely many users, bounds are
numbers, at least one user is popped).

*DistLock.* Mutual exclusion needs that whoever is inside still has the key
(`KeyHeld`), unless the lock was outlasted; `Release` keeps it because, by mutual
exclusion itself, nobody else is inside the same lock. The refinement maps
`Acquire` to `Enter`, `Release`, `Abandon` and `Outlast` to `Exit`, and every other
step, or any step of an outlasted lock, to a stutter. Assumption: `LockAssumption`.

*MediasoupRooms.* The steps of the lock are those of DistLock, whose invariant `LockInv` is kept by its own lemmas; `Locking` ties the
point a handler is at to how far it is with the lock of its room, so that two handlers between the look-up of a router and its
entry in the Map are not of the same room. Without an outlasted lock (`overrun = {}`) this gives `Attached`: every open
router is the router of a room, a handler about to create one finds none, and what a handler, or an entry of the Maps, stands on is there, except
for handlers that met a clean-up (`raced`) and entries made by them (`late`). It needs that
numbers are given once (`Numbered`). `NoRouterLost` and `NothingDangles` follow from `RInv`, the conjunction of these. `MetricsAgree` is inductive
over `RInv` with the entries and the handlers about to count one finite (`Countable`). `NobodyLeftAlone` speaks of a system at rest; `Departing` is what holds on
the way: a handler that deletes a room has fetched everybody who is in it (`Fetched`), and while a room has one member a handler that will remove
or tell him, or a socket that is closing, is still to come (`Watched`). `RInv` and `Departing` were checked as invariants of the run before they were proved.
Assumptions: `LockAssumption`, `MediaAssumption`, `NowhereAssumption` (no room is `Nowhere`, which stands for a missing key).

*MatchGateway.* Every step of the composition is a step of MatchQueue or leaves its variables
alone (`QueueSide`), so that the invariants of the queue carry over. `SocketReachable` needs what a socket's
handlers have written so far, and that nobody else writes the same key (`Alone`); the notification
looks only at users its match has (`Formed`, `Notifying`). The other two follow a match (`MInv`): sockets are opened in order (`Opening`),
who asks has a socket that is known (`AllKnown`), the notification finds the socket of every user who kept it, as far as it has come (`Reaching`), the key of
the room stays that of the match while the user has no other match and no other socket (`RoomKept`), and who was told is in the room, or
his going is (`Telling`). Assumption: `SocketsAssumption`.

*CallSignalling.* A handler decides first and then sends commands whatever happens meanwhile, so the
invariant speaks of the commands still to be sent (`Sound`) as it does of the keys (`Stored`): a value that `Fits` its key
when it is decided fits it whenever it is written, because consent is never taken back. `RequestConsistent` and `CallConsistent` are
about handlers that never met (`~disturbed`), and about the time between them. In between, one handler is at work, and the keys agree
(`Agree`) once the commands it has left are through (`EndsIn`): each action of a handler has a lemma that names the keys it will end in, and each command sent
keeps them. That needs that what the handler read is so still (`Knows`), and the order of the commands of a request (`Marks`, `OfRoom`), since an
expiry may fall between them. Assumption: `CallAssumption`.

*Friends.* `OnePerPair` has to survive between a look-up and the insert: what a call has looked for and not
found is not there, unless another call about the same pair is under way (`Looked`), and such pairs
are remembered (`Crossed`), as are those with a request made pending again (`revived`). `NotAskedOfFriends` needs that a row is about the same two users for good (`Rooted`, `Agreeing`), that a call about
to insert a request has found no friendship and there is none still (`Strangers`), and who is about to save the answer where friends have an open request (`Settled`).
`FriendsAgreed` is about the time since the two were last apart: an open request stands for a question asked since then, or its answer is about to be saved
(`Backed`), so that whoever answers one accepts what is still asked; an unfriending takes both back, and by `Settled` leaves no open request behind.
Assumption: `FriendsAssumption`.

*Presence.* Nobody else is about a user who is not `raced` (`Apart`, from the cardinalities of `Overlap`), so what his handler or job has
done so far says how far the key and the set may be apart (`Written`). The step of a job needs no handler of its own argument: a user
in its hand has a socket and is in the set. The invariant contains that of Friends, which a stop of the server keeps.
`ToldWhenGone` adds who shows whom: whoever is shown as online on a page has a socket, or his going is still to be told to that page (`Told`), which only
the first socket of its user hears (`Hearing`); the friendships of those who never ended one are there to be read (`Together`).
Assumption: `PresenceAssumption`.

*ChatRooms.* A call decides in one statement and acts in a later one. What it decided stays true: who is found to be no owner
does not become one (`Decided`), for a room gets its owner before anybody else can know it (`Fresh`), and only one (`One`), as long as no other owner
is added and no owner's account removed (`Unowned`).
For `OneDirectRoom`, a pair that did not cross has one complete direct room or one call about to make it (`Unique`), which needs what such
a call has in hand (`Paired`) and that a room is made by one call (`OwnRooms`); who is added later does not count among the `Founders` of a room.
For `NobodyLeftBehind`, a room with one member or none has a call that is still to count or to close it (`Attended`), which needs that the owner is there
while the others are put in (`Hosted`).
`SenderHears` takes the page and the server together: what a page asks for is of a visit not repeated (`Visits`), a page that may send is heard (`ReadyHears`), and so is the message
until it is sent on (`SentHears`, `Mine`, `Unsent`).
Assumptions: `ChatAssumption` (finitely many users, a room, bounds are numbers), `ClientAssumption`.

*Accounts.* Every step is that of one handler, which leaves the browser alone, or an exchange between both, which leaves
the tables alone. `Registry` (accounts are made in order, are of the people who use them, and are unique by mail) gives
`OneAccountEach`; `Shared` (refreshes other than the remembered one are as many as were forgotten) gives `OneRefresh`; `Counted`
and `Letters` are invariants in their own right. `SignedOutStays` and `ShownHasSession` depend on what is in flight (`Leaving`): a response is to the request its
caller awaits (`Matching`), nothing but an answer without a cookie is awaited beside a sign-in (`SigningAlone`), and after a sign-out no refresh carries
a session, but for those that were under way (`Gone`). Assumptions: `AccountsAssumption`, `BrowserAssumption`.

*CallPage.* `KTypeOK` says more than the types: a function stands at a point its code has (`Route`), awaits an answer only where it asked, and
at most one answer is on its way to it, of the kind it awaits. `EndedIsClean` needs `Clean`: when nothing is shown, nothing is left unless a match is asked for or a call set up
with what was there (`Pending`), and a function finds the transports it goes on with until they are closed (`Relies`). `MutedIsSilent` needs `Muted`: one toggle of a track at a time,
one that turns it off has disabled it already (`Silent`), and for what is heard though it is shown off somebody is under way who shows it (`Owed`). The next three look at
the page and the server together. `ShownIsSeated` follows from `Seated`: whatever takes the page into a room (`Claims`, `Brings`) is vouched for, that is, the server has the user there, or the
news of the end are behind it in the same connection. `SeatedIsShown` goes the other way: of a room that holds the user, what is on its way
from an earlier session comes before the news of this one (`Renewed`), something is there that shows it (`Shown`), and a hang-up of an earlier call comes too early to end it (`Hanging`); for the queue,
as long as no match was asked for beside another one (`Waiting` is not in `strayed`), request, answer and match follow each other (`Orderly`). `EverybodyConsumed` needs
who is where (`Within`), that what is set up is shown and what was accepted is set up (`Greeted`, `Admitted`), and for everybody who produces that he is consumed, or
that a function, an event or the question for those who are there already brings him (`Fed`).
`ConnectionLost` has a lemma for each of these (`LostSeated`, `LostHold`, `LostQueue`, `LostFeeding` and so on): server and inbox hold nothing of the user
afterwards, so that only the session shown and the functions at work are left to speak of.
Assumptions: `MediaClientAssumption` (the rooms have nobody in common, finitely many people), `WaitingAssumption` (`Waiting`, which stands for the wait for a match, is no room).

Attempts to prove these changed what the model said. `SeatedIsShown` was false for a call accepted and then rejected by the same click-happy user, whose
late answer ends it: who rejects is about no session (`About`). `MutedIsSilent` was false for a track toggled a second time before the first answer (`hasty`). A call that was
left and whose `call:end` is late is not one the server holds the user in (`Holds`).

Only model-checked:

- liveness, which is out of reach of the prover (`TryEnds`, `HeldIsTemporary`, `NotifyEnds`, `Forgotten`);
- `PeopleShown`: TLC also checked the invariants a proof would take, which relate every `joined` and `left` on its way to the server's lists;
- `PagesMeet` and `ReadWhenShown`: they speak of the page's list as sorted by `SetToSortSeq`, which the library defines by recursion over the
  data, and that it has the same elements for every set takes an induction the prover cannot do.

## 5. What the models leave out

- Texts, DTOs, logging and payloads; the order in which Redis stores members of equal
  score; positions in the queue that are only reported.
- Delivery of Socket.IO messages is immediate, except for what a client hears of the end of a media room
  and shows of an incoming call.
- Redis commands outside of the lock do not fail one by one; the process crashes instead.
- Media on the server: pausing and resuming, screen sharing, DTLS; a second mediasoup socket of a user.
- Several server processes: the Maps of the mediasoup service are per process, and the
  compose file starts one.
- The removal of an account (`withdrawAccount`, `deleteUser`) is modelled in `Accounts` and in `ChatRooms`; that it takes the friend requests and friendships
  of the user along, and ends no socket, queue or call of theirs, is not.
- Friends and chat: searching beyond who is found, `updateChatRoom` (names and pictures only), pictures of messages.
- Accounts: first-login data (games, texts, pictures); passwords and hashes; the expiry of
  the keys of sessions, codes and counters, whose lifetimes, written in milliseconds and used as seconds, are
  between 16 hours and 19 years.
- Call page: what happens while a lost connection is away, and server handlers that were at work when it was lost (`MatchGateway`, `CallSignalling`, `MediasoupRooms` and
  `Presence` have the disconnections on their side); the renewed connection is a new one for the server, and at once there; volume, layout, elements and their clones, names and photographs; the panel of the chat; what
  a handler that throws says to its client, except that the acknowledgement does not come.
- Mail, file storage, the database's settings, rendering and deployment: no state of their own that a property
  would be about.
