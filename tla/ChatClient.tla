------------------------------ MODULE ChatClient ------------------------------
(***************************************************************************)
(* The page of a chat room (useChatRoom, MessageListWithFriend,            *)
(* MessageInput) over its store of messages (store/chat.ts) and its socket *)
(* (useChatSocketEvents, chatSocket.ts), together with the server.         *)
(*                                                                         *)
(* Opening a page does three things at once and waits for none of them:    *)
(* the newest messages are read, the socket subscribes to the room, and    *)
(* what is unread is marked as read. (The input beside the list uses the   *)
(* same hook, and so repeats the first two.) Messages arrive from readings *)
(* and from the socket, in any order, into a store that outlives the page. *)
(***************************************************************************)
EXTENDS ChatRooms, SequencesExt

CONSTANTS
    Readers,         \* bound: the users whose pages are modelled; the others just send
    PageSize         \* messages read at once, 50 in the code

ASSUME ClientAssumption == Readers \subseteq Users /\ PageSize \in Nat \ {0}

VARIABLES
    page,      \* the page each reader has open: of a room, of which visit, how far read
    reading,   \* the readings under way, also those of pages left since
    asking,    \* the subscriptions under way
    store,     \* messages[room]: the ids shown, in their order
    marks,     \* mark-messages-read calls not served yet
    \* History:
    dropped,   \* readers who were disconnected, or told they are no members
    failed     \* rooms of which a reading of a reader failed

client == <<page, reading, asking, store, marks, dropped, failed>>

-----------------------------------------------------------------------------
NoPage == [room |-> "none", visit |-> 0, last |-> 0, more |-> FALSE, ready |-> FALSE,
           first |-> {}, low |-> 0]
Shown(u, r) == {store[u][r][i] : i \in DOMAIN store[u][r]}
OnPage(u, v) == page[u].visit = v /\ page[u].room # "none"

CInit ==
    /\ RInit
    /\ page = [u \in Readers |-> NoPage]
    /\ reading = [u \in Readers |-> {}]
    /\ asking = [u \in Readers |-> {}]
    /\ store = [u \in Readers |-> [r \in Rooms |-> <<>>]]
    /\ marks = [u \in Readers |-> [r \in Rooms |-> 0]]
    /\ dropped = {} /\ failed = {}

MarkRead(u, r) == marks' = [marks EXCEPT ![u][r] = @ + 1]

\* Mutant of MarkIfChanged: only opening the page marks.
MarkNoMore(u, r) == UNCHANGED marks

\* The effect of the list: whenever the number of messages of its room changes.
MarkIfChanged(u, r) ==
    IF page[u].room = r /\ Len(store'[u][r]) # Len(store[u][r])
    THEN MarkRead(u, r) ELSE UNCHANGED marks

Reading(u, r, n) == [room |-> r, visit |-> page'[u].visit, num |-> n,
                     answer |-> {}, state |-> "asked"]

\* A room is opened from the list of rooms.
OpenPage(u, r) ==
    /\ u \in MembersOf(r)
    /\ Spend(1)
    /\ page' = [page EXCEPT ![u] = [NoPage EXCEPT !.room = r, !.visit = load', !.last = 1, !.more = TRUE]]
    /\ reading' = [reading EXCEPT ![u] = @ \union {Reading(u, r, 1)}]
    /\ asking' = [asking EXCEPT ![u] = @ \union {[room |-> r, visit |-> load', member |-> FALSE]}]
    /\ MarkRead(u, r)
    /\ UNCHANGED <<tables, message, job, sockets, history, store, dropped, failed>>

-----------------------------------------------------------------------------
(* Reading messages: getRoomMessages, and its answer at the page           *)

\* Mutant of Page: one message further.
PageOff(saved, n) ==
    {m \in saved : LET newer == Cardinality({k \in saved : k > m})
                   IN  (n - 1) * PageSize + n - 1 <= newer /\ newer < n * PageSize + n - 1}

\* The n-th page of messages, the newest first.
Page(saved, n) ==
    {m \in saved : LET newer == Cardinality({k \in saved : k > m})
                   IN  (n - 1) * PageSize <= newer /\ newer < n * PageSize}

\* Who is no member any more is refused, which the client takes for an empty page.
Read(u, a) ==
    /\ a \in reading[u] /\ a.state = "asked"
    /\ LET saved == IF u \in MembersOf(a.room) THEN Saved(a.room) ELSE {}
           is == Page(saved, a.num)
       IN  /\ reading' = [reading EXCEPT ![u] =
                  (@ \ {a}) \union {[a EXCEPT !.state = "read", !.answer = is]}]
           /\ page' = IF OnPage(u, a.visit)
                      THEN [page EXCEPT ![u].first = IF a.num = 1 THEN saved ELSE @,
                                        ![u].low = IF is = {} THEN @
                                                   ELSE IF @ = 0 THEN Min(is) ELSE Min(is \union {@})]
                      ELSE page
           /\ failed' = IF u \in MembersOf(a.room) THEN failed ELSE failed \union {<<u, a.room>>}
    /\ UNCHANGED <<chat, asking, store, marks, dropped>>

\* addMessages: those not shown yet are added, and all sorted by date.
Merged(shown, answer) ==
    SetToSortSeq(answer \union {shown[i] : i \in DOMAIN shown}, <)

Arrive(u, a) ==
    /\ a \in reading[u] /\ a.state = "read"
    /\ reading' = [reading EXCEPT ![u] = @ \ {a}]
    /\ store' = IF a.answer = {} THEN store
                ELSE [store EXCEPT ![u][a.room] = Merged(@, a.answer)]
    /\ page' = IF OnPage(u, a.visit)
               THEN [page EXCEPT ![u].last = IF a.answer = {} \/ a.num = 1 THEN @ ELSE a.num,
                                 ![u].more = Cardinality(a.answer) = PageSize]
               ELSE page
    /\ MarkIfChanged(u, a.room)
    /\ UNCHANGED <<chat, asking, dropped, failed>>

\* The api answers a failure with an empty page: that ends the reading.
FailRead(u, a) ==
    /\ a \in reading[u] /\ a.state = "asked"
    /\ reading' = [reading EXCEPT ![u] = @ \ {a}]
    /\ page' = IF OnPage(u, a.visit) THEN [page EXCEPT ![u].more = FALSE] ELSE page
    /\ failed' = failed \union {<<u, a.room>>}
    /\ UNCHANGED <<chat, asking, store, marks, dropped>>

\* Scrolling up: one older page at a time, also while the first is not there yet.
LoadMore(u) ==
    /\ page[u].more
    /\ \A a \in reading[u] : ~(OnPage(u, a.visit) /\ a.num > 1)
    /\ store[u][page[u].room] # <<>>
    /\ UNCHANGED page
    /\ reading' = [reading EXCEPT ![u] =
           @ \union {Reading(u, page[u].room, page[u].last + 1)}]
    /\ UNCHANGED <<chat, asking, store, marks, dropped, failed>>

-----------------------------------------------------------------------------
(* subscribe-room, message-received, mark-messages-read                    *)

\* The check of membership; the page takes any answer for a success.
CheckMember(u, q) ==
    /\ q \in asking[u] /\ ~q.member /\ socket[u] # "down"
    /\ IF u \in MembersOf(q.room)
       THEN /\ asking' = [asking EXCEPT ![u] = (@ \ {q}) \union {[q EXCEPT !.member = TRUE]}]
            /\ UNCHANGED <<page, dropped>>
       ELSE /\ asking' = [asking EXCEPT ![u] = @ \ {q}]
            /\ page' = IF OnPage(u, q.visit) THEN [page EXCEPT ![u].ready = TRUE] ELSE page
            /\ dropped' = dropped \union {u}
    /\ UNCHANGED <<chat, reading, store, marks, failed>>

\* Mutant of Subscribe: the page is told before the socket is in the room.
SubscribeLater(u, q) ==
    /\ q \in asking[u] /\ q.member
    /\ asking' = [asking EXCEPT ![u] = @ \ {q}]
    /\ page' = IF OnPage(u, q.visit) THEN [page EXCEPT ![u].ready = TRUE] ELSE page
    /\ UNCHANGED <<chat, reading, store, marks, dropped, failed>>

Subscribe(u, q) ==
    /\ q \in asking[u] /\ q.member
    /\ joined' = [joined EXCEPT ![u] = @ \union {q.room}]
    /\ asking' = [asking EXCEPT ![u] = @ \ {q}]
    /\ page' = IF OnPage(u, q.visit) THEN [page EXCEPT ![u].ready = TRUE] ELSE page
    /\ UNCHANGED <<tables, message, job, socket, found, inbox, load, history,
                   reading, store, marks, dropped, failed>>

\* addMessage: one not shown yet goes to the end.
Receive(u) ==
    /\ inbox[u] # <<>>
    /\ LET m == Head(inbox[u])
           r == message[m].room
       IN  /\ store' = IF m \in Shown(u, r) THEN store ELSE [store EXCEPT ![u][r] = Append(@, m)]
           /\ inbox' = [inbox EXCEPT ![u] = Tail(@)]
           /\ MarkIfChanged(u, r)
    /\ UNCHANGED <<tables, message, job, socket, joined, found, load, history,
                   page, reading, asking, dropped, failed>>

\* markMessagesAsRead: a member's own count is reset; who is none has no count.
MarkMessagesAsRead(u, r) ==
    /\ marks[u][r] > 0 /\ socket[u] # "down"
    /\ marks' = [marks EXCEPT ![u][r] = @ - 1]
    /\ unread' = [unread EXCEPT ![r][u] = 0]
    /\ UNCHANGED <<room, member, gone, message, job, sockets, load, history,
                   page, reading, asking, store, dropped, failed>>

\* handleSendMessage waits for the subscription.
MaySend(u, r) == page[u].room = r /\ page[u].ready

Say(h, u, r) ==
    /\ u \in Readers => MaySend(u, r)
    /\ Send(h, u, r)
    /\ UNCHANGED client

\* The connection is lost, and calls on their way with it. (Reconnecting, the
\* client does nothing: it was to subscribe again, and the server makes up for it.)
Drop(u) ==
    /\ Disconnect(u)
    /\ dropped' = dropped \union {u}
    /\ asking' = [asking EXCEPT ![u] = {}]
    /\ marks' = [marks EXCEPT ![u] = [r \in Rooms |-> 0]]
    /\ UNCHANGED <<page, reading, store, failed>>

-----------------------------------------------------------------------------
PageStep(u) ==
    \/ \E r \in Rooms : OpenPage(u, r) \/ MarkMessagesAsRead(u, r)
    \/ \E a \in reading[u] : Read(u, a) \/ Arrive(u, a) \/ FailRead(u, a)
    \/ \E q \in asking[u] : CheckMember(u, q) \/ Subscribe(u, q)
    \/ LoadMore(u) \/ Receive(u) \/ Drop(u)

CNext ==
    \/ RNext /\ UNCHANGED client
    \/ \E u \in Readers : PageStep(u) \/ (Connect(u) /\ UNCHANGED client)
    \/ \E h \in Jobs, u \in Users, r \in Rooms : Say(h, u, r)

-----------------------------------------------------------------------------
(* Properties                                                              *)

\* Pages meet and do not overlap: while a page is open, all messages that were
\* there when it read the newest are shown from the oldest it has read on, though
\* messages sent since have moved all pages by as many places (the offset is from
\* the newest); and each is shown once, though several readings and the socket
\* bring it. (Messages that go with an account move the pages back, over messages
\* not read yet.)
PagesMeet ==
    \A u \in Readers :
        LET p == page[u] IN
        p.room # "none" =>
            /\ Cardinality(Shown(u, p.room)) = Len(store[u][p.room])
            /\ <<u, p.room>> \notin failed /\ <<p.room, "sender">> \notin bereft
               /\ reading[u] = {} /\ p.low > 0
               => {m \in p.first : m >= p.low} \subseteq Shown(u, p.room)

\* Whoever sends a message from a page sees it there: the page waits with
\* sending until its socket hears the room. Excepted are those the server
\* refused (the page takes that for a success) and those who were disconnected
\* (the page goes on sending before the new socket hears the room).
SenderHears ==
    \A m \in Messages : message[m].from \in Readers \ dropped =>
        <<message[m].from, m>> \notin missed

\* While a page is open and has shown all there is, nothing in its room counts as
\* unread: every message that raises the count comes to the page and has it reset
\* afterwards, however these cross. Not so for messages the page missed, or when
\* calls were lost.
ReadWhenShown ==
    \A u \in Readers \ dropped :
        LET r == page[u].room IN
        /\ r # "none" /\ reading[u] = {} /\ inbox[u] = <<>>
        /\ marks[u][r] = 0
        /\ \A h \in Jobs : ~(At(h, "send", "emit") /\ job[h].room = r)
        /\ \A m \in Messages : message[m].room = r => <<u, m>> \notin missed
        => unread[r][u] = 0

CSpec == CInit /\ [][CNext]_<<chat, client>>
=============================================================================
