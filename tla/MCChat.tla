------------------------------- MODULE MCChat ---------------------------------
(***************************************************************************)
(* Threads, channels, websockets and socket.io rooms.  The components are  *)
(* modelled without shared state, so a behaviour steps one of them, which  *)
(* focus names: stepping them together would only multiply their states.   *)
(***************************************************************************)
EXTENDS Threads, Channels, ChatSockets, Realtime, TLC

CONSTANTS ann, ben, chat1, tab1, tab2, s1, s2, s3, r1, r2

VARIABLE focus

McFounders == <<ann>>
McOwnerOf  == (chat1 :> ann) @@ (tab1 :> ann) @@ (tab2 :> ben)
McUserOf   == (s1 :> ann) @@ (s2 :> ann) @@ (s3 :> ben)

ChatVars == <<threadVars, channelVars, sockVars, rtVars, focus>>

ChatInit ==
    /\ ThreadsInit /\ ChannelsInit /\ SocketsInit /\ RealtimeInit
    /\ focus \in {"threads", "channels", "sockets", "realtime"}

ChatNext ==
    \/ /\ focus = "threads" /\ ThreadsNext
       /\ UNCHANGED <<channelVars, sockVars, rtVars, focus>>
    \/ /\ focus = "channels" /\ ChannelsNext
       /\ UNCHANGED <<threadVars, sockVars, rtVars, focus>>
    \/ /\ focus = "sockets" /\ SocketsNext
       /\ UNCHANGED <<threadVars, channelVars, rtVars, focus>>
    \/ /\ focus = "realtime" /\ RealtimeNext
       /\ UNCHANGED <<threadVars, channelVars, sockVars, focus>>

ChatSpec == ChatInit /\ [][ChatNext]_ChatVars

\* The requests in flight are interchangeable.
McSymmetry == Permutations({r1, r2})

\* What tells two states apart: the components out of focus are as they were at the start.
ChatView == <<focus, CASE focus = "threads"  -> threadVars  [] focus = "channels" -> channelVars
                       [] focus = "sockets"  -> sockVars    [] focus = "realtime" -> rtVars>>

\* The type invariant of the component in focus.
ChatTypeOK == CASE focus = "threads" -> ThreadsTypeOK [] focus = "channels" -> ChannelsTypeOK
                [] focus = "sockets" -> SocketsTypeOK [] focus = "realtime" -> RealtimeTypeOK
=============================================================================
