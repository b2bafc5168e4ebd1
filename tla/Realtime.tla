------------------------------- MODULE Realtime ------------------------------
(***************************************************************************)
(* The socket.io server: sockets, rooms, presence per team and typing, of  *)
(* realtime/socket.py, realtime/presence.py and realtime/typing.py.        *)
(*                                                                         *)
(* The managers are plain dictionaries, changed between two awaits; a      *)
(* handler that awaits the database or an emit in between is two steps.    *)
(***************************************************************************)
EXTENDS Integers, FiniteSets

CONSTANTS
    Users,
    Sids,           \* bound: the sockets ever connected
    UserOf,         \* UserOf[s]
    Teams,          \* a user without a team is tracked under "global"
    Roamers,        \* bound: the sockets that join rooms
    Groups,         \* public and private channels
    Directs         \* channels of type direct

ASSUME RealtimeAssumption ==
    UserOf \in [Sids -> Users] /\ Groups \cap Directs = {} /\ Roamers \subseteq Sids

VARIABLES
    socket,         \* socket[s]: where the handlers of socket s are
    teamOf,         \* the database: the user's first team
    rooms,          \* rooms[s]: the rooms s is in (user_rooms, and the server's)
    teamPresence,   \* team_presence
    userTeam,       \* user_team_map, "none" for no entry
    typingIn,       \* channel_typing: the users of each channel; expired ones, too
    typist,         \* user_channels
    acked           \* <<s, c>>: s has been told that it has joined c

rtVars == <<socket, teamOf, rooms, teamPresence, userTeam, typingIn, typist, acked>>

Scopes   == Teams \cup {"global"}
Chats    == Groups \cup Directs
None     == "none"
Fresh    == [pc |-> "new"]
Live(s)  == socket[s].pc \in {"up", "joining"}     \* authenticated_users has s
LiveOf(u) == {s \in Sids : UserOf[s] = u /\ Live(s)}

RealtimeTypeOK ==
    /\ \A s \in Sids : socket[s].pc \in {"new", "auth", "up", "joining", "closing", "gone"}
    /\ teamOf \in [Users -> Scopes] /\ userTeam \in [Users -> Scopes \cup {None}]
    /\ \A c \in Chats : \A u \in Users : u \in typingIn[c] <=> c \in typist[u]
    /\ \A sc \in Scopes, u \in Users : teamPresence[sc][u] \subseteq {s \in Sids : UserOf[s] = u}

RealtimeInit ==
    /\ socket = [s \in Sids |-> Fresh]
    /\ teamOf = [u \in Users |-> "global"]
    /\ rooms = [s \in Sids |-> {}]
    /\ teamPresence = [sc \in Scopes |-> [u \in Users |-> {}]]
    /\ userTeam = [u \in Users |-> None]
    /\ typingIn = [c \in Chats |-> {}]
    /\ typist = [u \in Users |-> {}]
    /\ acked = {}

Now(s, pc) == socket' = [socket EXCEPT ![s] = pc]

-----------------------------------------------------------------------------
(* Connecting.                                                              *)

\* authenticate_socket reads the user's team.
Authenticate(s) ==
    /\ socket[s].pc = "new"
    /\ Now(s, [pc |-> "auth", scope |-> teamOf[UserOf[s]]])
    /\ UNCHANGED <<teamOf, rooms, teamPresence, userTeam, typingIn, typist, acked>>

\* user_connected adds the socket to those the user has in the scope.
WithSocket(sc, s) == teamPresence[sc][UserOf[s]] \cup {s}

Connect(s) ==
    /\ socket[s].pc = "auth"
    /\ LET sc == socket[s].scope
           u  == UserOf[s]
       IN  /\ rooms' = [rooms EXCEPT ![s] = {<<"team", sc>>}]
           /\ teamPresence' = [teamPresence EXCEPT ![sc][u] = WithSocket(sc, s)]
           /\ userTeam' = [userTeam EXCEPT ![u] = sc]
    /\ Now(s, [pc |-> "up"])
    /\ UNCHANGED <<teamOf, typingIn, typist, acked>>

-----------------------------------------------------------------------------
(* Typing.                                                                  *)

\* Entries expire lazily: the next start in the channel may clear those of others.
StartTyping(s, c) ==
    /\ Live(s)
    /\ \E expired \in SUBSET typingIn[c] :
          LET u == UserOf[s]
          IN  /\ typingIn' = [typingIn EXCEPT ![c] = (@ \ expired) \cup {u}]
              /\ typist' = [v \in Users |-> IF v = u THEN typist[v] \cup {c}
                                            ELSE IF v \in expired THEN typist[v] \ {c}
                                            ELSE typist[v]]
    /\ UNCHANGED <<socket, teamOf, rooms, teamPresence, userTeam, acked>>

\* Mutant: stop_typing leaves the index by user alone.
StoppedInChannel(c, u) ==
    /\ typingIn' = [typingIn EXCEPT ![c] = @ \ {u}]
    /\ UNCHANGED typist

\* stop_typing keeps the two indexes together.
Stopped(c, u) ==
    /\ typingIn' = [typingIn EXCEPT ![c] = @ \ {u}]
    /\ typist' = [typist EXCEPT ![u] = @ \ {c}]

StopTyping(s, c) ==
    /\ Live(s) /\ UserOf[s] \in typingIn[c]
    /\ Stopped(c, UserOf[s])
    /\ UNCHANGED <<socket, teamOf, rooms, teamPresence, userTeam, acked>>

-----------------------------------------------------------------------------
(* Disconnecting.                                                           *)

\* user_disconnected of the typing manager: everything the user types, from any socket.
StopsOnDisconnect(s) == typist[UserOf[s]]

\* authenticated_users, user_rooms and the typing are cleared before the first emit.
Disconnect(s) ==
    /\ Live(s)
    /\ LET u == UserOf[s]
           stops == StopsOnDisconnect(s)
       IN  /\ typingIn' = [c \in Chats |-> IF c \in stops THEN typingIn[c] \ {u} ELSE typingIn[c]]
           /\ typist' = [typist EXCEPT ![u] = @ \ stops]
    /\ rooms' = [rooms EXCEPT ![s] = {}]
    /\ acked' = {a \in acked : a[1] # s}
    /\ Now(s, [pc |-> "closing"])
    /\ UNCHANGED <<teamOf, teamPresence, userTeam>>

\* Mutant: with every socket.
EntryDropped(u, rest) == None

\* The user's scope is forgotten with the last socket in it.
EntryAfter(u, rest) == IF rest = {} THEN None ELSE userTeam[u]

\* user_disconnected of the presence manager looks in the one scope on record for the
\* user.
PresenceGone(s) ==
    /\ socket[s].pc = "closing"
    /\ LET u    == UserOf[s]
           sc   == userTeam[u]
           rest == teamPresence[sc][u] \ {s}
       IN  IF sc = None \/ teamPresence[sc][u] = {} THEN UNCHANGED <<teamPresence, userTeam>>
           ELSE /\ teamPresence' = [teamPresence EXCEPT ![sc][u] = rest]
                /\ userTeam' = [userTeam EXCEPT ![u] = EntryAfter(u, rest)]
    /\ Now(s, [pc |-> "gone"])
    /\ UNCHANGED <<teamOf, rooms, typingIn, typist, acked>>

-----------------------------------------------------------------------------
(* Rooms.                                                                   *)

\* join_channel looks the membership up, and joins after that.  A socket that is gone by
\* then is in no room: the handler fails.
JoinAsked(s, c) ==
    /\ socket[s].pc = "up"
    /\ Now(s, [pc |-> "joining", chat |-> c])
    /\ UNCHANGED <<teamOf, rooms, teamPresence, userTeam, typingIn, typist, acked>>

\* The room's name does not depend on the kind of channel.
JoinDone(s) ==
    /\ socket[s].pc = "joining"
    /\ rooms' = [rooms EXCEPT ![s] = @ \cup {<<"channel", socket[s].chat>>}]
    /\ acked' = acked \cup {<<s, socket[s].chat>>}
    /\ Now(s, [pc |-> "up"])
    /\ UNCHANGED <<teamOf, teamPresence, userTeam, typingIn, typist>>

LeaveRoom(s, c) ==
    /\ Live(s)
    /\ rooms' = [rooms EXCEPT ![s] = @ \ {<<"channel", c>>}]
    /\ acked' = acked \ {<<s, c>>}
    /\ UNCHANGED <<socket, teamOf, teamPresence, userTeam, typingIn, typist>>

\* join_room: any room, by its name.
JoinRoom(s, r) ==
    /\ Live(s)
    /\ rooms' = [rooms EXCEPT ![s] = @ \cup {r}]
    /\ UNCHANGED <<socket, teamOf, teamPresence, userTeam, typingIn, typist, acked>>

\* _room_name_for_channel, which emit_message_new sends to.
RoomOf(c) == IF c \in Directs THEN <<"dm", c>> ELSE <<"channel", c>>

\* A team is joined by REST, which the sockets do not learn of.
JoinTeam(u, t) ==
    /\ teamOf[u] = "global"
    /\ teamOf' = [teamOf EXCEPT ![u] = t]
    /\ UNCHANGED <<socket, rooms, teamPresence, userTeam, typingIn, typist, acked>>

-----------------------------------------------------------------------------
RealtimeNext ==
    \/ \E s \in Sids :
           \/ Authenticate(s) \/ Connect(s) \/ Disconnect(s) \/ PresenceGone(s) \/ JoinDone(s)
           \/ \E c \in Chats : StartTyping(s, c) \/ StopTyping(s, c)
    \/ \E s \in Roamers :
           \/ \E c \in Chats : JoinAsked(s, c) \/ LeaveRoom(s, c)
           \/ \E c \in Directs : JoinRoom(s, RoomOf(c))
    \/ \E u \in Users, t \in Teams : JoinTeam(u, t)

RealtimeSpec == RealtimeInit /\ [][RealtimeNext]_rtVars

-----------------------------------------------------------------------------
(* Properties.                                                              *)

\* Who is shown as typing has a socket, whichever of their tabs started it and whatever
\* expired in between (typing.py:109).
TypingNeedsSocket == \A c \in Chats : \A u \in typingIn[c] : LiveOf(u) # {}

\* A live socket is present for its user, and one that is gone only where its user has had
\* sockets in two scopes, of which user_team_map remembers one (presence.py:43).
PresenceTracksSockets ==
    /\ \A s \in Sids : Live(s) => \E sc \in Scopes : s \in teamPresence[sc][UserOf[s]]
    /\ \A sc \in Scopes, u \in Users : \A s \in teamPresence[sc][u] :
           socket[s].pc = "gone" => teamOf[u] # "global"

\* Typing and presence follow the sockets.
SocketsTracked == TypingNeedsSocket /\ PresenceTracksSockets

-----------------------------------------------------------------------------
(* What a comment of the code says, and the code does not do.               *)

\* A message to a channel reaches every socket that has been told that it joined it ("If
\* this is a DM, require membership and route to a DM room", socket.py:197).
JoinedIsReached == \A a \in acked : RoomOf(a[2]) \in rooms[a[1]]
=============================================================================
