----------------------------- MODULE ChatSockets -----------------------------
(***************************************************************************)
(* The websockets of api/ws.py: ConnectionManager, websocket_chat and      *)
(* websocket_presence on one server process.                               *)
(*                                                                         *)
(* Handlers interleave where they await.  A broadcast awaits every send,   *)
(* so that several are under way at once; what is done between two awaits  *)
(* is one step.                                                            *)
(***************************************************************************)
EXTENDS Integers, FiniteSets

CONSTANTS
    Owners,
    ChatSocks, PresenceSocks,   \* the connections a client may open, one at a time each
    OwnerOf,                    \* OwnerOf[s]: the user of connection s
    Chosen,                     \* the states of UserStatus that clients ask for
    Casts                       \* bound: the presence broadcasts under way at a time

ASSUME ChatSocketsAssumption ==
    OwnerOf \in [ChatSocks \cup PresenceSocks -> Owners] /\ ChatSocks \cap PresenceSocks = {}

VARIABLES
    sock,           \* sock[s]: "dead" is a handler that ended without disconnecting
    userConns,      \* user_connections
    subscribers,    \* presence_subscribers
    offlineDue,     \* _pending_offline_tasks: who will be set offline after the delay
    lastPresence,   \* _last_presence
    casting,        \* casting[c]: a broadcast_presence under way
    view,           \* view[w][u]: what subscriber w has been told of u
    overtaken       \* who had two broadcasts under way at a time

sockVars == <<sock, userConns, subscribers, offlineDue, lastPresence, casting, view, overtaken>>

Socks    == ChatSocks \cup PresenceSocks
Statuses == {"online", "offline"} \cup Chosen
Silent   == [left |-> {}]

\* told is no data of the server: whether the entry comes from a broadcast.
Told(st)   == [status |-> st, told |-> TRUE]
Listed(st) == [status |-> st, told |-> FALSE]

SocketsTypeOK ==
    /\ sock \in [Socks -> {"closed", "opening", "open", "dead"}]
    /\ \A u \in Owners : \A s \in userConns[u] : OwnerOf[s] = u /\ sock[s] # "closed"
    /\ \A w \in subscribers : w \in PresenceSocks /\ sock[w] # "closed"
    /\ offlineDue \subseteq Owners
    /\ \A u \in Owners : lastPresence[u] \in {"none"} \cup Statuses
    /\ \A c \in Casts : casting[c].left \subseteq PresenceSocks
    /\ \A w \in PresenceSocks, u \in Owners : view[w][u].status \in Statuses

SocketsInit ==
    /\ sock = [s \in Socks |-> "closed"]
    /\ userConns = [u \in Owners |-> {}]
    /\ subscribers = {} /\ offlineDue = {}
    /\ lastPresence = [u \in Owners |-> "none"]
    /\ casting = [c \in Casts |-> Silent]
    /\ view = [w \in PresenceSocks |-> [u \in Owners |-> Listed("offline")]]
    /\ overtaken = {}

CastsOf(u) == {c \in Casts : casting[c].left # {} /\ casting[c].of = u}

\* The handler of s awaits the broadcast it has started.
Awaits(s) == \E c \in Casts : casting[c].left # {} /\ casting[c].by = s

\* Mutant: only what is not online is remembered.
RememberedAway(u, st) == IF st = "online" THEN "none" ELSE st

\* _last_presence[user] = what is broadcast.
Remembered(u, st) == st

\* broadcast_presence to the subscribers there are, begun by the handler (or task) by: a
\* status that was the last one broadcast is not sent again.
Announces(u, st, by, to) ==
    IF lastPresence[u] = st THEN UNCHANGED <<lastPresence, casting, overtaken>>
    ELSE /\ lastPresence' = [lastPresence EXCEPT ![u] = Remembered(u, st)]
         /\ overtaken' = IF CastsOf(u) = {} THEN overtaken ELSE overtaken \cup {u}
         /\ \E c \in Casts :
               /\ casting[c].left = {}
               /\ casting' = [casting EXCEPT ![c] = IF to = {} THEN Silent ELSE
                                [of |-> u, status |-> st, by |-> by, left |-> to]]

\* One send.  A closed socket does not get it, one whose handler has died is unsubscribed.
Deliver(c, w) ==
    /\ w \in casting[c].left
    /\ LET rest == casting[c].left \ {w}
       IN  casting' = [casting EXCEPT ![c] = IF rest = {} THEN Silent
                                             ELSE [casting[c] EXCEPT !.left = rest]]
    /\ view' = IF sock[w] \in {"opening", "open"}
               THEN [view EXCEPT ![w][casting[c].of] = Told(casting[c].status)] ELSE view
    /\ subscribers' = IF sock[w] = "dead" THEN subscribers \ {w} ELSE subscribers
    /\ UNCHANGED <<sock, userConns, offlineDue, lastPresence, overtaken>>

-----------------------------------------------------------------------------
(* /ws/chat.                                                                *)

\* connect: a pending offline task is cancelled.  Then user_joined is broadcast to the room.
ChatConnect(s) ==
    /\ sock[s] = "closed"
    /\ sock' = [sock EXCEPT ![s] = "opening"]
    /\ offlineDue' = offlineDue \ {OwnerOf[s]}
    /\ userConns' = [userConns EXCEPT ![OwnerOf[s]] = @ \cup {s}]
    /\ UNCHANGED <<subscribers, lastPresence, casting, view, overtaken>>

ChatOnline(s) ==
    /\ s \in ChatSocks /\ sock[s] = "opening"
    /\ sock' = [sock EXCEPT ![s] = "open"]
    /\ Announces(OwnerOf[s], "online", s, subscribers)
    /\ UNCHANGED <<userConns, subscribers, offlineDue, view>>

\* disconnect: the last connection of a user schedules the offline task.
ChatDisconnect(s) ==
    /\ sock[s] = "open" /\ ~Awaits(s)
    /\ sock' = [sock EXCEPT ![s] = "closed"]
    /\ userConns' = [userConns EXCEPT ![OwnerOf[s]] = @ \ {s}]
    /\ offlineDue' = IF userConns[OwnerOf[s]] = {s} THEN offlineDue \cup {OwnerOf[s]}
                     ELSE offlineDue
    /\ UNCHANGED <<subscribers, lastPresence, casting, view, overtaken>>

\* Mutant: the cancelling of connect is thought to be enough.
StillGoneOnCancel(u) == TRUE

\* "If user reconnected in the meantime, skip".
StillGone(u) == userConns[u] = {}

OfflineAfterDelay(u) ==
    /\ u \in offlineDue
    /\ offlineDue' = offlineDue \ {u}
    /\ IF StillGone(u) THEN Announces(u, "offline", "delay", subscribers)
       ELSE UNCHANGED <<lastPresence, casting, overtaken>>
    /\ UNCHANGED <<sock, userConns, subscribers, view>>

\* Anything but a WebSocketDisconnect ends the handler with the connection registered: a
\* "message" or "typing_start" does, for RedisClient has neither cache_message nor
\* set_typing, and so does what is no JSON on /ws/presence.
HandlerDies(s) ==
    /\ sock[s] = "open" /\ ~Awaits(s)
    /\ sock' = [sock EXCEPT ![s] = "dead"]
    /\ UNCHANGED <<userConns, subscribers, offlineDue, lastPresence, casting, view, overtaken>>

-----------------------------------------------------------------------------
(* /ws/presence.                                                            *)

\* The new subscriber is told of its own user, too; no offline task is cancelled.  It is
\* another socket than the one that sends may still be under way to.
PresenceConnect(w) ==
    /\ sock[w] = "closed" /\ \A c \in Casts : w \notin casting[c].left
    /\ sock' = [sock EXCEPT ![w] = "opening"]
    /\ subscribers' = subscribers \cup {w}
    /\ userConns' = [userConns EXCEPT ![OwnerOf[w]] = @ \cup {w}]
    /\ Announces(OwnerOf[w], "online", w, subscribers')
    /\ UNCHANGED <<offlineDue, view>>

\* presence_list: the users that have a connection.
PresenceList(w) ==
    /\ w \in PresenceSocks /\ sock[w] = "opening" /\ ~Awaits(w)
    /\ sock' = [sock EXCEPT ![w] = "open"]
    /\ view' = [view EXCEPT ![w] =
                  [u \in Owners |-> Listed(IF userConns[u] = {} THEN "offline" ELSE "online")]]
    /\ UNCHANGED <<userConns, subscribers, offlineDue, lastPresence, casting, overtaken>>

StatusUpdate(w, st) ==
    /\ w \in PresenceSocks /\ sock[w] = "open" /\ ~Awaits(w)
    /\ Announces(OwnerOf[w], st, w, subscribers)
    /\ UNCHANGED <<sock, userConns, subscribers, offlineDue, view>>

\* The last connection's end is broadcast at once.
PresenceDisconnect(w) ==
    /\ w \in PresenceSocks /\ sock[w] = "open" /\ ~Awaits(w)
    /\ sock' = [sock EXCEPT ![w] = "closed"]
    /\ subscribers' = subscribers \ {w}
    /\ userConns' = [userConns EXCEPT ![OwnerOf[w]] = @ \ {w}]
    /\ IF userConns[OwnerOf[w]] = {w}
       THEN Announces(OwnerOf[w], "offline", w, subscribers')
       ELSE UNCHANGED <<lastPresence, casting, overtaken>>
    /\ UNCHANGED <<offlineDue, view>>

-----------------------------------------------------------------------------
SocketsNext ==
    \/ \E s \in ChatSocks : ChatConnect(s) \/ ChatOnline(s) \/ ChatDisconnect(s)
    \/ \E s \in Socks : HandlerDies(s)
    \/ \E u \in Owners : OfflineAfterDelay(u)
    \/ \E c \in Casts, w \in PresenceSocks : Deliver(c, w)
    \/ \E w \in PresenceSocks : PresenceConnect(w) \/ PresenceList(w) \/ PresenceDisconnect(w)
    \/ \E w \in PresenceSocks, st \in Chosen : StatusUpdate(w, st)

SocketsSpec == SocketsInit /\ [][SocketsNext]_sockVars

-----------------------------------------------------------------------------
(* Properties.                                                              *)

AtRest == /\ \A c \in Casts : casting[c].left = {}
          /\ \A s \in Socks : sock[s] # "opening"
          /\ offlineDue = {}

\* Nobody who has a connection is broadcast as offline unless they ask for it, whichever
\* endpoint they left and came back through during the delay (ws.py:163).
OfflineHasReason ==
    \A u \in Owners : (lastPresence'[u] = "offline" /\ lastPresence[u] # "offline") =>
        \/ userConns'[u] = {}
        \/ \E w \in PresenceSocks : OwnerOf[w] = u /\ StatusUpdate(w, "offline")

OfflineOnlyWithoutConnection == [][OfflineHasReason]_sockVars

\* When nothing is under way, a subscriber whose word of a user came by broadcast has the
\* last one, unless two broadcasts of that user were under way at a time (ws.py:238).
LastWordUnlessOvertaken ==
    AtRest => \A w \in PresenceSocks, u \in Owners :
        (sock[w] = "open" /\ view[w][u].told /\ u \notin overtaken) =>
            view[w][u].status = lastPresence[u]

-----------------------------------------------------------------------------
(* What a comment of the code says, and the code does not do.               *)

\* Subscribers see as online exactly who has a connection ("Subscribe to receive
\* online/offline status updates for all users.", ws.py:685).
SeenAsConnected ==
    AtRest => \A w \in PresenceSocks, u \in Owners :
        sock[w] = "open" => ((view[w][u].status # "offline") <=> (userConns[u] # {}))
=============================================================================
