------------------------------ MODULE Channels -------------------------------
(***************************************************************************)
(* The members of a channel, what they have read of it, and the unread     *)
(* counts they are told: api/channels.py, api/messages.py, api/ws.py,      *)
(* services/unread.py, and the read receipts of a direct conversation in   *)
(* api/direct_conversations.py.                                            *)
(*                                                                         *)
(* A request reads in one step and commits in a later one.  now() is the   *)
(* time at which its transaction began.                                    *)
(***************************************************************************)
EXTENDS Integers, Sequences, FiniteSets

CONSTANTS
    People,
    Slots,          \* bound: the requests in flight at a time
    Founders,       \* the members at the start, a sequence
    OldSaid,        \* the number of messages at the start, one per time unit
    Markers,        \* bound: who marks as read
    Erasable,       \* bound: the messages that are deleted
    MaxRows,        \* bound: the membership rows ever inserted
    MaxSaid,        \* bound: the messages
    MaxNow          \* bound: the requests that take a time

ASSUME ChannelsAssumption ==
    /\ Markers \subseteq People /\ {OldSaid, MaxRows, MaxSaid, MaxNow} \subseteq Nat
    /\ Founders \in Seq(People) /\ Len(Founders) <= MaxRows
    /\ \A i, j \in DOMAIN Founders : Founders[i] = Founders[j] => i = j
    /\ OldSaid <= MaxSaid /\ OldSaid <= MaxNow

VARIABLES
    now,
    members,        \* channel_members: no constraint makes a person's row unique
    nextRow,
    said,           \* the messages, by id
    pointers,       \* pointers[<<k, u>>]: the last_read_message_id of each row of u, by row id
    request,        \* request[s]: the request in slot s
    badge           \* badge[u]: the unread count that u was told last

channelVars == <<now, members, nextRow, said, pointers, request, badge>>

\* channel_reads has a unique constraint (migration 009), direct_conversation_reads none
\* (migration 058).
Kinds   == {"channel", "direct"}
Unique  == {"channel"}
Spare   == [pc |-> "idle"]
NoCount == 0

\* read 0 is NULL.  The other fields are no columns: knew is the next row id when the joining
\* request looked for a row; saw the number of messages there were when the marking request
\* began, and flew the times of those that were being posted then.
Row(id, u, knew) == [id |-> id, of |-> u, read |-> 0, knew |-> knew, saw |-> 0, flew |-> {}]

RowsOf(u) == {m \in members : m.of = u}
IsMember(u) == Cardinality(RowsOf(u)) = 1     \* scalar_one_or_none raises on two
RowOf(u) == CHOOSE m \in members : m.of = u

ChannelsTypeOK ==
    /\ now \in 0 .. MaxNow /\ nextRow \in 1 .. MaxRows + 1
    /\ \A m \in members : m.id < nextRow /\ m.of \in People /\ m.read <= now
    /\ \A i \in DOMAIN said : said[i].at \in 1 .. now
    /\ \A k \in Kinds, u \in People : pointers[<<k, u>>] \in Seq(1 .. MaxSaid)
    /\ \A u \in People : badge[u] \in 0 .. MaxSaid

ChannelsInit ==
    /\ now = OldSaid
    /\ members = {Row(i, Founders[i], i) : i \in DOMAIN Founders}
    /\ nextRow = Len(Founders) + 1
    /\ said = [i \in 1 .. OldSaid |-> [at |-> i, gone |-> FALSE]]
    /\ pointers = [row \in Kinds \X People |-> <<>>]
    /\ request = [s \in Slots |-> Spare]
    /\ badge = [u \in People |-> NoCount]

Opens(s, q) == request[s] = Spare /\ request' = [request EXCEPT ![s] = q]
Goes(s, q)  == request' = [request EXCEPT ![s] = q]
Over(s)     == Goes(s, Spare)
Clocked     == now < MaxNow /\ now' = now + 1

-----------------------------------------------------------------------------
(* Members.                                                                 *)

\* join_channel, add_channel_member, the automatic joins of register and of the websocket:
\* no row found, one inserted.
NoRowFor(u) == RowsOf(u) = {}

JoinBegin(s, u) ==
    /\ NoRowFor(u)
    /\ Opens(s, [pc |-> "join", who |-> u, knew |-> nextRow])
    /\ UNCHANGED <<now, members, nextRow, said, pointers, badge>>

JoinCommit(s) ==
    /\ request[s].pc = "join" /\ nextRow <= MaxRows
    /\ members' = members \cup {Row(nextRow, request[s].who, request[s].knew)}
    /\ nextRow' = nextRow + 1
    /\ Over(s)
    /\ UNCHANGED <<now, said, pointers, badge>>

\* leave_channel, remove_channel_member.  Two rows: the query raises, nobody leaves.
LeaveBegin(s, u) ==
    /\ IsMember(u)
    /\ Opens(s, [pc |-> "leave", row |-> RowOf(u).id])
    /\ UNCHANGED <<now, members, nextRow, said, pointers, badge>>

LeaveCommit(s) ==
    /\ request[s].pc = "leave"
    /\ members' = {m \in members : m.id # request[s].row}
    /\ Over(s)
    /\ UNCHANGED <<now, nextRow, said, pointers, badge>>

-----------------------------------------------------------------------------
(* Posting, and telling every member the unread count.                      *)

Unread(u) == {i \in DOMAIN said : ~said[i].gone /\ said[i].at > RowOf(u).read}

\* A private channel is posted to by its members.
SayBegin(s, u) ==
    /\ IsMember(u) /\ Len(said) < MaxSaid /\ Clocked
    /\ Opens(s, [pc |-> "say", who |-> u, at |-> now'])
    /\ UNCHANGED <<members, nextRow, said, pointers, badge>>

SayCommit(s) ==
    /\ request[s].pc = "say" /\ Len(said) < MaxSaid
    /\ said' = Append(said, [at |-> request[s].at, gone |-> FALSE])
    /\ Goes(s, [pc |-> "list", who |-> request[s].who])
    /\ UNCHANGED <<now, members, nextRow, pointers, badge>>

\* The rows of everybody but the sender.
ListMembers(s) ==
    /\ request[s].pc = "list"
    /\ LET others == {m \in members : m.of # request[s].who}
       IN  \E rows \in [1 .. Cardinality(others) -> others] :
              /\ \A i, j \in DOMAIN rows : i < j => rows[i].id < rows[j].id
              /\ Goes(s, [pc |-> "count", left |-> [i \in DOMAIN rows |-> rows[i].of]])
    /\ UNCHANGED <<now, members, nextRow, said, pointers, badge>>

\* get_unread_count: 0 for who is no member any more.  On two rows it raises, and the
\* loop of create_message ends there; that of create_reply goes on to the next row.
CountUnread(s) ==
    /\ request[s].pc = "count"
    /\ LET left == request[s].left
           u    == Head(left)
       IN  IF left = <<>> THEN Over(s)
           ELSE IF Cardinality(RowsOf(u)) > 1
           THEN Over(s) \/ Goes(s, [request[s] EXCEPT !.left = Tail(left)])
           ELSE Goes(s, [pc |-> "tell", who |-> u, left |-> Tail(left),
                         count |-> IF RowsOf(u) = {} THEN 0 ELSE Cardinality(Unread(u))])
    /\ UNCHANGED <<now, members, nextRow, said, pointers, badge>>

TellCount(s) ==
    /\ request[s].pc = "tell"
    /\ badge' = [badge EXCEPT ![request[s].who] = request[s].count]
    /\ Goes(s, [pc |-> "count", left |-> request[s].left])
    /\ UNCHANGED <<now, members, nextRow, said, pointers>>

\* delete_message tells nobody a count.
Erase(i) ==
    /\ ~said[i].gone /\ said' = [said EXCEPT ![i] = [at |-> said[i].at, gone |-> TRUE]]
    /\ UNCHANGED <<now, members, nextRow, pointers, request, badge>>

-----------------------------------------------------------------------------
(* Reading up to a message.                                                 *)

\* The messages whose requests have begun and not committed, by their times.
InFlight == {request[s].at : s \in {s \in Slots : request[s].pc = "say"}}

\* mark_channel_read and mark_direct_conversation_read up to message i; i = 0 is the old
\* form, which has no pointer.  A second membership or pointer row makes the query raise.
MarkBegin(s, k, u, i) ==
    /\ k = "channel" => IsMember(u)
    /\ i = 0 => k = "channel"
    /\ Len(pointers[<<k, u>>]) <= 1
    /\ IF k = "channel" THEN Clocked ELSE UNCHANGED now
    /\ Opens(s, [pc |-> "mark", kind |-> k, who |-> u, upTo |-> i, at |-> now',
                 found |-> pointers[<<k, u>>], saw |-> Len(said), flew |-> InFlight])
    /\ UNCHANGED <<members, nextRow, said, pointers, badge>>

\* "Only update if new message_id is greater" than the one found.
Advanced(found, i) == IF i > found[1] THEN <<i>> ELSE found

\* What the request's write makes of the rows there are by now: the update is of the row
\* that was found, to the value the request brought.
Pointed(q) ==
    LET rows == pointers[<<q.kind, q.who>>]
    IN  IF q.upTo = 0 THEN rows
        ELSE IF q.found = <<>> THEN Append(rows, q.upTo)
        ELSE IF Advanced(q.found, q.upTo) = q.found THEN rows
        ELSE [rows EXCEPT ![1] = q.upTo]

\* A unique constraint refuses the second row, and with it the whole request.
Refused(q) == q.kind \in Unique /\ Len(Pointed(q)) > 1

\* Mutant: the mark has the time of its commit.
CommittedAt(q) == now

\* last_read_at = now().
MarkedAt(q) == q.at

MarkCommit(s) ==
    /\ request[s].pc = "mark"
    /\ LET q == request[s]
       IN  IF Refused(q) THEN Over(s) /\ UNCHANGED <<members, pointers>>
           ELSE /\ pointers' = [pointers EXCEPT ![<<q.kind, q.who>>] = Pointed(q)]
                /\ IF q.kind = "channel"
                   THEN /\ members' = {IF m.of = q.who
                                       THEN [m EXCEPT !.read = MarkedAt(q), !.saw = q.saw,
                                                         !.flew = q.flew]
                                       ELSE m : m \in members}
                        /\ Goes(s, [pc |-> "tell", who |-> q.who, left |-> <<>>, count |-> 0])
                   ELSE Over(s) /\ UNCHANGED members
    /\ UNCHANGED <<now, nextRow, said, badge>>

-----------------------------------------------------------------------------
ChannelsNext ==
    \/ \E s \in Slots :
           \/ JoinCommit(s) \/ LeaveCommit(s) \/ SayCommit(s)
           \/ ListMembers(s) \/ CountUnread(s) \/ TellCount(s) \/ MarkCommit(s)
           \/ \E u \in People : JoinBegin(s, u) \/ LeaveBegin(s, u) \/ SayBegin(s, u)
           \/ \E k \in Kinds, u \in Markers : \E i \in 0 .. Len(said) : MarkBegin(s, k, u, i)
    \/ \E i \in Erasable \cap DOMAIN said : Erase(i)

ChannelsSpec == ChannelsInit /\ [][ChannelsNext]_channelVars

-----------------------------------------------------------------------------
(* Properties.                                                              *)

\* A person has two rows in a channel only where the request that inserted the later one
\* had looked before the earlier one was there (the checks at channels.py:614 and 1135).
SecondRowOverlaps ==
    \A u \in People : \A m, n \in RowsOf(u) : m.id < n.id => n.knew <= m.id

\* A message that counts as read for a member who has marked the channel was there when
\* they did, or was being posted just then: nothing that is begun afterwards is swallowed,
\* however late the mark and the message commit ("A message is unread iff message.created_at
\* > channel_members.last_read_at", services/unread.py:24).
SwallowedOnlyByOverlap ==
    \A m \in members : \A i \in DOMAIN said :
        said[i].at <= m.read => i <= m.saw \/ said[i].at \in m.flew

\* A pointer goes back only by a request for it that had found a lower one than there is
\* by now (channels.py:470, direct_conversations.py:399: "Only update if new message_id is").
BackByStaleRead ==
    \A k \in Kinds, u \in People :
        LET was == pointers[<<k, u>>]
            is  == pointers'[<<k, u>>]
        IN  (was # <<>> /\ is # <<>> /\ is[1] < was[1]) =>
                \E s \in Slots : /\ request[s].pc = "mark" /\ request'[s].pc # "mark"
                                /\ request[s].kind = k /\ request[s].who = u
                                /\ request[s].found[1] < was[1]

PointerBackOnlyByStaleRead == [][BackByStaleRead]_channelVars

\* What is wrong with the rows, the marks and the pointers of a channel comes from requests
\* that overlap.
ReadStateExplained == [](SecondRowOverlaps /\ SwallowedOnlyByOverlap) /\ PointerBackOnlyByStaleRead
=============================================================================
