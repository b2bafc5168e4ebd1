------------------------------- MODULE Threads -------------------------------
(***************************************************************************)
(* The messages of a channel or direct conversation, their threads,        *)
(* reactions and pins, and the pages they are read in: api/messages.py,    *)
(* api/channels.py and api/direct_conversations.py.                        *)
(*                                                                         *)
(* now() is the time at which a transaction began, not the time at which   *)
(* it commits: a request takes its time when it starts, and what it has    *)
(* read of a parent then is what it computes on.                           *)
(***************************************************************************)
EXTENDS Integers, Sequences, FiniteSets, FiniteSetsExt

CONSTANTS
    Authors,
    Posters,        \* bound: the requests in flight at a time
    OldPosts,       \* the number of messages at the start, one per time unit
    JoinedAt,       \* when the reader became a member
    PageSize,       \* limit
    MaxClock,       \* bound: the requests that take a time
    Marked          \* bound: the messages that are reacted to, pinned or deleted

ASSUME ThreadsAssumption ==
    /\ OldPosts \in Nat /\ MaxClock \in Nat /\ PageSize \in Nat \ {0} /\ JoinedAt \in Nat
    /\ Authors # {} /\ Marked \subseteq Nat \ {0} /\ OldPosts <= MaxClock

VARIABLES
    posts,          \* the messages, by id
    reactions,      \* <<message, user>>: message_reactions, for one emoji
    clock,
    poster,         \* poster[r]: the request r in flight
    reader          \* somebody who pages back through the channel

threadVars == <<posts, reactions, clock, poster, reader>>

\* parent 0 is NULL.  Two fields are no columns: seen, the messages there were when the
\* request that posted this one read its parent; and back, whether a commit has ever set
\* the activity back.
Post == [parent : Nat, created : Nat, activity : Nat, threads : Nat, deleted : BOOLEAN,
         pinned : BOOLEAN, edited : BOOLEAN, seen : Nat, back : BOOLEAN]

NewPost(parent, at, seen) ==
    [parent |-> parent, created |-> at, activity |-> at, threads |-> 0,
     deleted |-> FALSE, pinned |-> FALSE, edited |-> FALSE, seen |-> seen, back |-> FALSE]

\* last_activity_at takes the time of the request, whatever time it holds.
Active(post, at) ==
    [post EXCEPT !.activity = at, !.back = post.back \/ at < post.activity]

Ready   == [pc |-> "idle"]
NotYet  == [pc |-> "no", shown |-> {}, cursor |-> 0, start |-> {}]

ThreadsTypeOK ==
    /\ posts \in Seq(Post)
    /\ \A i \in DOMAIN posts : posts[i].parent < i /\ posts[i].created <= clock
    /\ reactions \subseteq (DOMAIN posts) \X Authors
    /\ clock \in 0 .. MaxClock
    /\ \A r \in Posters : poster[r].pc \in {"idle", "post", "edit", "delete", "pin", "react"}
    /\ reader.pc \in {"no", "more", "end"} /\ reader.shown \subseteq DOMAIN posts

ThreadsInit ==
    /\ posts = [i \in 1 .. OldPosts |-> NewPost(0, i, 0)]
    /\ reactions = {}
    /\ clock = OldPosts
    /\ poster = [r \in Posters |-> Ready]
    /\ reader = NotYet

Ends(r)      == poster' = [poster EXCEPT ![r] = Ready]
Starts(r, t) == poster[r] = Ready /\ poster' = [poster EXCEPT ![r] = t]
Ticks        == clock < MaxClock /\ clock' = clock + 1

-----------------------------------------------------------------------------
(* Posting.                                                                 *)

\* create_message, and the direct conversation's: a parent only has to exist.
PostBegin(r, p) ==
    /\ p \in {0} \cup DOMAIN posts
    /\ Ticks
    /\ Starts(r, [pc |-> "post", parent |-> p, at |-> clock',
                  threads |-> IF p = 0 THEN 0 ELSE posts[p].threads, seen |-> Len(posts)])
    /\ UNCHANGED <<posts, reactions, reader>>

\* create_reply: the parent must not be deleted.
ReplyBegin(r, p) == p \in DOMAIN posts /\ ~posts[p].deleted /\ PostBegin(r, p)

\* Mutant: a reply to a reply counts for nobody.
CountTopLevelOnly(t) == IF posts[t.parent].parent = 0 THEN t.threads + 1 ELSE t.threads

\* thread_count = what the request has read + 1.
Counted(t) == t.threads + 1

\* The message and its parent's thread metadata, in one commit.
PostCommit(r) ==
    /\ poster[r].pc = "post"
    /\ LET t == poster[r]
       IN  posts' = Append([i \in DOMAIN posts |->
                              IF i = t.parent
                              THEN [Active(posts[i], t.at) EXCEPT !.threads = Counted(t)]
                              ELSE posts[i]],
                           NewPost(t.parent, t.at, t.seen))
    /\ Ends(r)
    /\ UNCHANGED <<reactions, clock, reader>>

-----------------------------------------------------------------------------
(* Editing, deleting, pinning, reacting.                                    *)

EditBegin(r, i) ==
    /\ ~posts[i].deleted /\ Ticks /\ Starts(r, [pc |-> "edit", post |-> i, at |-> clock'])
    /\ UNCHANGED <<posts, reactions, reader>>

DeleteBegin(r, i) ==
    /\ ~posts[i].deleted /\ Starts(r, [pc |-> "delete", post |-> i])
    /\ UNCHANGED <<posts, reactions, clock, reader>>

PinBegin(r, i) ==
    /\ ~posts[i].deleted /\ Starts(r, [pc |-> "pin", post |-> i, to |-> ~posts[i].pinned])
    /\ UNCHANGED <<posts, reactions, clock, reader>>

\* The columns that the request has set; an edit is an activity.
ChangeCommit(r) ==
    /\ poster[r].pc \in {"edit", "delete", "pin"}
    /\ LET t == poster[r]
           p == posts[t.post]
       IN  posts' = [posts EXCEPT ![t.post] =
                CASE t.pc = "edit"   -> [Active(p, t.at) EXCEPT !.edited = TRUE]
                  [] t.pc = "delete" -> [p EXCEPT !.deleted = TRUE]
                  [] t.pc = "pin"    -> [p EXCEPT !.pinned = t.to]]
    /\ Ends(r)
    /\ UNCHANGED <<reactions, clock, reader>>

\* toggle_reaction decides by what it finds.
ReactBegin(r, i, a) ==
    /\ ~posts[i].deleted
    /\ Starts(r, [pc |-> "react", on |-> <<i, a>>, add |-> <<i, a>> \notin reactions])
    /\ UNCHANGED <<posts, reactions, clock, reader>>

\* remove_reaction only finds; the message may be deleted.
UnreactBegin(r, i, a) ==
    /\ <<i, a>> \in reactions
    /\ Starts(r, [pc |-> "react", on |-> <<i, a>>, add |-> FALSE])
    /\ UNCHANGED <<posts, reactions, clock, reader>>

\* A second insertion violates the unique constraint, a second deletion finds no row:
\* neither changes anything.
ReactCommit(r) ==
    /\ poster[r].pc = "react"
    /\ reactions' = IF poster[r].add THEN reactions \cup {poster[r].on}
                    ELSE reactions \ {poster[r].on}
    /\ Ends(r)
    /\ UNCHANGED <<posts, clock, reader>>

-----------------------------------------------------------------------------
(* Reading, newest activity first.                                          *)

TopLevel == {i \in DOMAIN posts : posts[i].parent = 0 /\ ~posts[i].deleted}

\* Activity orders the messages, creation breaks ties.
Older(i, j) ==
    \/ posts[i].activity < posts[j].activity
    \/ posts[i].activity = posts[j].activity /\ posts[i].created < posts[j].created

\* Mutant: the next page goes by creation, the order of the first by activity.
BelowByCreation(c) ==
    {i \in TopLevel : posts[i].created < posts[c].created /\ posts[i].created >= JoinedAt}

\* What is below the cursor: the activity the cursor has by now.  The lower bound of the
\* membership holds for these pages, and not for the first one.
Below(c) == {i \in TopLevel : Older(i, c) /\ posts[i].created >= JoinedAt}

Page(S)   == {i \in S : Cardinality({j \in S : Older(i, j)}) < PageSize}
Oldest(S) == CHOOSE i \in S : \A j \in S : j = i \/ Older(i, j)

\* One page of what is wanted; limit + 1 rows are fetched to see whether there is more.
Shows(S) ==
    reader' = [pc     |-> IF Cardinality(S) > PageSize THEN "more" ELSE "end",
               shown  |-> reader.shown \cup Page(S),
               cursor |-> IF S = {} THEN reader.cursor ELSE Oldest(Page(S)),
               start  |-> IF reader.pc = "no" THEN {<<i, posts[i].activity>> : i \in S}
                          ELSE reader.start]

FirstPage ==
    /\ reader.pc = "no" /\ Shows(TopLevel)
    /\ UNCHANGED <<posts, reactions, clock, poster>>

NextPage ==
    /\ reader.pc = "more" /\ Shows(Below(reader.cursor))
    /\ UNCHANGED <<posts, reactions, clock, poster>>

-----------------------------------------------------------------------------
ThreadsNext ==
    \/ \E r \in Posters : PostCommit(r) \/ ChangeCommit(r) \/ ReactCommit(r)
    \/ \E r \in Posters : \E p \in 0 .. Len(posts) : PostBegin(r, p) \/ ReplyBegin(r, p)
    \/ \E r \in Posters : \E i \in DOMAIN posts :
           \/ EditBegin(r, i)
           \/ i \in Marked /\ (DeleteBegin(r, i) \/ PinBegin(r, i))
           \/ \E a \in Authors : i \in Marked /\ (ReactBegin(r, i, a) \/ UnreactBegin(r, i, a))
    \/ FirstPage \/ NextPage

ThreadsSpec == ThreadsInit /\ [][ThreadsNext]_threadVars

-----------------------------------------------------------------------------
(* Properties.                                                              *)

Replies(p) == {i \in DOMAIN posts : posts[i].parent = p}

\* thread_count never exceeds the replies there are, and falls short of them only where
\* two replies overlapped, the later having read the parent before the earlier was
\* there ("Cached count of replies", db/models.py:275).
ThreadCountLosesOverlaps ==
    \A p \in DOMAIN posts :
        /\ posts[p].threads <= Cardinality(Replies(p))
        /\ posts[p].threads < Cardinality(Replies(p)) =>
               \E i, j \in Replies(p) : i < j /\ posts[j].seen < i

\* Whoever pages to the end has been shown every message of the start since the joining
\* that has neither been deleted nor been active meanwhile, whatever was posted in
\* between and however far up the cursor's own message has moved; unless a message shown
\* was set back, by a request that began before one that had committed.
PagesShowAll ==
    reader.pc = "end" =>
        \A i \in TopLevel : /\ <<i, posts[i].activity>> \in reader.start
                            /\ posts[i].created >= JoinedAt
                            => i \in reader.shown \/ \E k \in reader.shown : posts[k].back
=============================================================================
