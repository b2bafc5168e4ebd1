------------------------------ MODULE Chat_proofs -----------------------------
(***************************************************************************)
(* The proofs about Threads, Channels, ChatSockets and Realtime, one part  *)
(* each, and about the types of the four together.  Each part states an    *)
(* inductive invariant, has a lemma per kind of step, and ends in the      *)
(* lemma that the invariant always holds.                                  *)
(***************************************************************************)
EXTENDS MCChat, FiniteSetTheorems, WellFoundedInduction, TLAPS

(* Threads. *)

\* The requests in flight.
PostRequest   == [pc : {"post"}, parent : Nat, at : Nat, threads : Nat, seen : Nat]
EditRequest   == [pc : {"edit"}, post : Nat, at : Nat]
DeleteRequest == [pc : {"delete"}, post : Nat]
PinRequest    == [pc : {"pin"}, post : Nat, to : BOOLEAN]
ReactRequest  == [pc : {"react"}, on : Nat \X Authors, add : BOOLEAN]
Request == {Ready} \cup PostRequest \cup EditRequest \cup DeleteRequest \cup PinRequest
           \cup ReactRequest

\* A reader who has begun.
Paging == [pc : {"more", "end"}, shown : SUBSET (DOMAIN posts), cursor : Nat,
           start : SUBSET (Nat \X Nat)]

\* The types, with those of the requests and of the reader.
ThreadTypes ==
    /\ posts \in Seq(Post)
    /\ reactions \subseteq (DOMAIN posts) \X Authors
    /\ clock \in 0 .. MaxClock
    /\ poster \in [Posters -> Request]
    /\ reader \in {NotYet} \cup Paging

\* A request names messages that there are.
RequestOK(r) ==
    LET t == poster[r] IN
    /\ t.pc = "post" => t.parent \in {0} \cup DOMAIN posts /\ t.seen <= Len(posts)
    /\ t.pc \in {"edit", "delete", "pin"} => t.post \in DOMAIN posts
    /\ t.pc = "react" => t.on \in (DOMAIN posts) \X Authors

\* The requests that take a time, and that no two messages or requests have the same.
Dated(r) == poster[r].pc \in {"post", "edit"}
TimesDiffer ==
    /\ \A i \in DOMAIN posts : posts[i].created <= clock /\ posts[i].activity <= clock
    /\ \A i, j \in DOMAIN posts : posts[i].created = posts[j].created => i = j
    /\ \A s \in reader.start : s[1] \in DOMAIN posts /\ s[2] <= clock
    /\ \A r \in Posters : Dated(r) =>
           /\ poster[r].at <= clock
           /\ \A q \in Posters : Dated(q) /\ poster[q].at = poster[r].at => q = r
           /\ \A i \in DOMAIN posts : poster[r].at # posts[i].created
           /\ \A i \in DOMAIN posts : poster[r].at # posts[i].activity
           /\ \A s \in reader.start : poster[r].at # s[2]

\* Of the first n messages, those that reply to p; and that k counts them up to overlaps.
RepliesIn(ps, p, n) == {i \in DOMAIN ps : ps[i].parent = p /\ i <= n}
CountFits(ps, p, n, k) ==
    /\ k <= Cardinality(RepliesIn(ps, p, n))
    /\ k < Cardinality(RepliesIn(ps, p, n)) =>
           \E i, j \in RepliesIn(ps, p, n) : i < j /\ ps[j].seen < i

\* What is counted, and what the requests in flight will count on.
CountsOK ==
    /\ \A i \in DOMAIN posts : posts[i].parent < i
    /\ \A p \in DOMAIN posts : CountFits(posts, p, Len(posts), posts[p].threads)
    /\ \A r \in Posters : poster[r].pc = "post" /\ poster[r].parent # 0 =>
           CountFits(posts, poster[r].parent, poster[r].seen, poster[r].threads)

\* What has not been shown is still below the cursor.
Undisturbed(i) == /\ i \in TopLevel /\ posts[i].created >= JoinedAt
                  /\ <<i, posts[i].activity>> \in reader.start
SetBack == \E k \in reader.shown : posts[k].back
ReaderOK ==
    /\ reader.pc = "more" => reader.cursor \in reader.shown
    /\ reader.pc # "no" =>
           \A i \in DOMAIN posts : Undisturbed(i) =>
               \/ i \in reader.shown \/ SetBack
               \/ reader.pc = "more" /\ Older(i, reader.cursor)

\* The types, the times, the counts and the pages.
ThreadsInv ==
    /\ ThreadTypes /\ (\A r \in Posters : RequestOK(r))
    /\ TimesDiffer /\ CountsOK /\ ReaderOK

-----------------------------------------------------------------------------
(* Replies and their counts. *)

\* There are finitely many messages.
LEMMA SeqFinite ==
    ASSUME NEW ps \in Seq(Post)  PROVE IsFiniteSet(1 .. Len(ps))
  BY FS_Interval

\* The replies can be counted.
LEMMA RepliesFinite ==
    ASSUME NEW ps \in Seq(Post), NEW p, NEW n
    PROVE  /\ IsFiniteSet(RepliesIn(ps, p, n))
           /\ Cardinality(RepliesIn(ps, p, n)) \in Nat
  <1>1. IsFiniteSet(1 .. Len(ps))  BY SeqFinite
  <1>2. RepliesIn(ps, p, n) \subseteq 1 .. Len(ps)  BY DEF RepliesIn
  <1> QED  BY <1>1, <1>2, FS_Subset, FS_CardinalityType

\* Messages that come later, and changes of anything else, change no count.
LEMMA CountStays ==
    ASSUME NEW ps \in Seq(Post), NEW qs \in Seq(Post), Len(ps) <= Len(qs),
           \A i \in DOMAIN ps : qs[i].parent = ps[i].parent /\ qs[i].seen = ps[i].seen,
           NEW p, NEW n \in 0 .. Len(ps), NEW k, CountFits(ps, p, n, k)
    PROVE  CountFits(qs, p, n, k)
  <1>1. RepliesIn(qs, p, n) = RepliesIn(ps, p, n)  BY DEF RepliesIn
  <1> QED  BY <1>1 DEF CountFits, RepliesIn

\* A reply that is appended to the count that was read.
LEMMA CountGrows ==
    ASSUME NEW ps \in Seq(Post), NEW new \in Post, NEW p \in DOMAIN ps,
           NEW s \in 0 .. Len(ps), NEW k \in Nat, CountFits(ps, p, s, k),
           new.parent = p, new.seen = s
    PROVE  CountFits(Append(ps, new), p, Len(ps) + 1, k + 1)
  <1> DEFINE qs == Append(ps, new)
             n  == Len(ps) + 1
             old == RepliesIn(ps, p, Len(ps))
             read == RepliesIn(ps, p, s)
  <1>1. qs \in Seq(Post) /\ Len(qs) = n /\ qs[n] = new /\ \A i \in DOMAIN ps : qs[i] = ps[i]
    OBVIOUS
  <1> HIDE DEF qs
  <1>2. RepliesIn(qs, p, n) = old \cup {n}  BY <1>1 DEF RepliesIn
  <1>3. n \notin old /\ read \subseteq old  BY DEF RepliesIn
  <1>4. IsFiniteSet(old) /\ Cardinality(old) \in Nat /\ Cardinality(read) \in Nat
    BY RepliesFinite
  <1>5. Cardinality(RepliesIn(qs, p, n)) = Cardinality(old) + 1  BY <1>2, <1>3, <1>4, FS_AddElement
  <1>6. Cardinality(read) <= Cardinality(old)
        /\ (Cardinality(read) = Cardinality(old) => read = old)
    BY <1>3, <1>4, FS_Subset
  <1>7. k <= Cardinality(read)  BY DEF CountFits
  <1>8. ASSUME k + 1 < Cardinality(RepliesIn(qs, p, n))
        PROVE  \E i, j \in RepliesIn(qs, p, n) : i < j /\ qs[j].seen < i
    <2>1. CASE k < Cardinality(read)
      <3>1. PICK i, j \in read : i < j /\ ps[j].seen < i  BY <2>1 DEF CountFits
      <3> QED  BY <3>1, <1>1, <1>2, <1>3 DEF RepliesIn
    <2>2. CASE k = Cardinality(read)
      <3>1. read # old  BY <2>2, <1>5, <1>8, <1>4
      <3>2. PICK i \in old : i \notin read  BY <3>1, <1>3
      <3>3. i < n /\ s < i  BY <3>2 DEF RepliesIn
      <3> QED  BY <3>2, <3>3, <1>1, <1>2
    <2> QED  BY <2>1, <2>2, <1>7, <1>4
  <1>9. k + 1 <= Cardinality(RepliesIn(qs, p, n))  BY <1>4, <1>5, <1>6, <1>7
  <1>10. CountFits(qs, p, n, k + 1)  BY <1>8, <1>9 DEF CountFits
  <1> QED  BY <1>10 DEF qs, n

\* A message that does not reply to p is none of p's.
LEMMA CountKept ==
    ASSUME NEW ps \in Seq(Post), NEW new \in Post, NEW p, new.parent # p, NEW k,
           CountFits(ps, p, Len(ps), k)
    PROVE  CountFits(Append(ps, new), p, Len(ps) + 1, k)
  <1> DEFINE qs == Append(ps, new)
  <1>1. qs \in Seq(Post) /\ Len(qs) = Len(ps) + 1 /\ qs[Len(ps) + 1] = new
        /\ \A i \in DOMAIN ps : qs[i] = ps[i]
    OBVIOUS
  <1> HIDE DEF qs
  <1>2. RepliesIn(qs, p, Len(ps) + 1) = RepliesIn(ps, p, Len(ps))  BY <1>1 DEF RepliesIn
  <1>3. \A i \in RepliesIn(ps, p, Len(ps)) : qs[i] = ps[i]  BY <1>1 DEF RepliesIn
  <1> QED  BY <1>1, <1>2, <1>3 DEF CountFits, qs

\* Nobody replies to what is not there yet.
LEMMA NothingCounted ==
    ASSUME NEW ps \in Seq(Post), NEW p, \A i \in DOMAIN ps : ps[i].parent # p, NEW n
    PROVE  CountFits(ps, p, n, 0)
  <1>1. RepliesIn(ps, p, n) = {}  BY DEF RepliesIn
  <1> QED  BY <1>1, FS_EmptySet DEF CountFits

-----------------------------------------------------------------------------
(* The order of the pages. *)

Ordered(S) == /\ S \subseteq DOMAIN posts /\ IsFiniteSet(S)
              /\ \A i \in S : posts[i].activity \in Nat /\ posts[i].created \in Nat
              /\ \A i, j \in S : posts[i].created = posts[j].created => i = j

\* Of two messages, one is older.
LEMMA OlderOrders ==
    ASSUME NEW S, Ordered(S)
    PROVE  /\ \A i \in S : ~Older(i, i)
           /\ \A i, j \in S : i = j \/ Older(i, j) \/ Older(j, i)
           /\ \A i, j \in S : ~(Older(i, j) /\ Older(j, i))
           /\ \A i, j, k \in S : Older(i, j) /\ Older(j, k) => Older(i, k)
  BY DEF Ordered, Older

\* There is an oldest and a newest.
LEMMA Extremes ==
    ASSUME NEW S, Ordered(S), S # {}
    PROVE  /\ \E i \in S : \A j \in S : j = i \/ Older(i, j)
           /\ \E i \in S : \A j \in S : ~Older(i, j)
  <1> DEFINE Prior(i) == {j \in S : Older(j, i)}
             Above(i)  == {j \in S : Older(i, j)}
  <1>1. IsWellFoundedOn(StrictSubsetOrdering(S), FiniteSubsetsOf(S))
    BY FS_StrictSubsetOrderingWellFounded
  <1>2. \A T : T \subseteq S => T \in FiniteSubsetsOf(S)
    BY FS_Subset DEF Ordered, FiniteSubsetsOf
  <1>3. \E i \in S : \A j \in S : j = i \/ Older(i, j)
    <2> DEFINE T == {Prior(i) : i \in S}
    <2>1. T \subseteq FiniteSubsetsOf(S) /\ T # {}  BY <1>2
    <2>2. PICK D \in T : \A E \in T : <<E, D>> \notin StrictSubsetOrdering(S)
      <3> HIDE DEF T
      <3> QED  BY <1>1, <2>1, WFMin
    <2>3. PICK i \in S : D = Prior(i)  BY <2>2
    <2>4. ASSUME NEW j \in S, Older(j, i)  PROVE FALSE
      <3>1. Prior(j) \subseteq Prior(i) /\ j \in Prior(i) /\ j \notin Prior(j)
        BY <2>4, OlderOrders
      <3>2. <<Prior(j), D>> \in StrictSubsetOrdering(S)
        BY <3>1, <2>3 DEF StrictSubsetOrdering
      <3> QED  BY <3>2, <2>2
    <2> QED  BY <2>4, OlderOrders
  <1>4. \E i \in S : \A j \in S : ~Older(i, j)
    <2> DEFINE T == {Above(i) : i \in S}
    <2>1. T \subseteq FiniteSubsetsOf(S) /\ T # {}  BY <1>2
    <2>2. PICK D \in T : \A E \in T : <<E, D>> \notin StrictSubsetOrdering(S)
      <3> HIDE DEF T
      <3> QED  BY <1>1, <2>1, WFMin
    <2>3. PICK i \in S : D = Above(i)  BY <2>2
    <2>4. ASSUME NEW j \in S, Older(i, j)  PROVE FALSE
      <3>1. Above(j) \subseteq Above(i) /\ j \in Above(i) /\ j \notin Above(j)
        BY <2>4, OlderOrders
      <3>2. <<Above(j), D>> \in StrictSubsetOrdering(S)
        BY <3>1, <2>3 DEF StrictSubsetOrdering
      <3> QED  BY <3>2, <2>2
    <2> QED  BY <2>4
  <1> QED  BY <1>3, <1>4

\* A page is the newest of what is wanted, and its oldest is above all that is left.
LEMMA PageFacts ==
    ASSUME NEW S, Ordered(S), ThreadsAssumption
    PROVE  /\ Page(S) \subseteq S
           /\ \A i \in S \ Page(S), j \in Page(S) : Older(i, j)
           /\ Cardinality(S) \in Nat
           /\ Cardinality(S) <= PageSize => Page(S) = S
           /\ S # {} => Oldest(Page(S)) \in Page(S)
  <1> DEFINE Above(i) == {j \in S : Older(i, j)}
  <1>0. PageSize \in Nat /\ PageSize >= 1  BY DEF ThreadsAssumption
  <1>1. \A T \in SUBSET S : IsFiniteSet(T) /\ Cardinality(T) \in Nat
                            /\ Cardinality(T) <= Cardinality(S)
                            /\ (Cardinality(T) = Cardinality(S) => T = S)
    BY FS_Subset, FS_CardinalityType DEF Ordered
  <1>2. \A i \in S : i \in Page(S) <=> Cardinality(Above(i)) < PageSize  BY DEF Page
  <1>3. Page(S) \subseteq S  BY DEF Page
  <1>4. \A i \in S \ Page(S), j \in Page(S) : Older(i, j)
    <2> SUFFICES ASSUME NEW i \in S, NEW j \in S, i \notin Page(S), j \in Page(S), ~Older(i, j)
                 PROVE  FALSE
      BY <1>3
    <2>1. Older(j, i)  BY OlderOrders
    <2>2. Above(i) \subseteq Above(j)  BY <2>1, OlderOrders
    <2>3. Cardinality(Above(i)) <= Cardinality(Above(j))
      BY <2>2, <1>1, FS_Subset
    <2>4. Cardinality(Above(i)) \in Nat /\ Cardinality(Above(j)) \in Nat  BY <1>1
    <2>5. Cardinality(Above(j)) < PageSize /\ ~(Cardinality(Above(i)) < PageSize)  BY <1>2
    <2> QED  BY <2>3, <2>4, <2>5, <1>0
  <1>5. Cardinality(S) <= PageSize => Page(S) = S
    <2> SUFFICES ASSUME Cardinality(S) <= PageSize, NEW i \in S  PROVE i \in Page(S)
      BY <1>3
    <2>1. Above(i) \subseteq S /\ Above(i) # S  BY OlderOrders
    <2>2. Cardinality(Above(i)) \in Nat /\ Cardinality(S) \in Nat
          /\ Cardinality(Above(i)) < Cardinality(S)
      BY <2>1, <1>1
    <2>3. Cardinality(Above(i)) < PageSize  BY <2>2, <1>0
    <2> QED  BY <2>3, <1>2
  <1>6. S # {} => Oldest(Page(S)) \in Page(S)
    <2> SUFFICES ASSUME S # {}  PROVE Oldest(Page(S)) \in Page(S)
      OBVIOUS
    <2>1. PICK i \in S : \A j \in S : ~Older(i, j)  BY Extremes
    <2>2. Above(i) = {}  BY <2>1
    <2>3. Cardinality(Above(i)) < PageSize  BY <2>2, <1>0, FS_EmptySet
    <2>4. i \in Page(S)  BY <2>3, <1>2
    <2>5. Ordered(Page(S))  BY <1>3, <1>1 DEF Ordered
    <2>6. \E k \in Page(S) : \A j \in Page(S) : j = k \/ Older(k, j)  BY <2>4, <2>5, Extremes
    <2> QED  BY <2>6 DEF Oldest
  <1> QED  BY <1>1, <1>3, <1>4, <1>5, <1>6

-----------------------------------------------------------------------------
(* The steps. *)

\* What a request has to be when it begins.
Begins(r, t) ==
    /\ t \in Request /\ poster[r] = Ready /\ poster' = [poster EXCEPT ![r] = t]
    /\ clock' \in {clock, clock + 1} /\ clock' <= MaxClock
    /\ UNCHANGED <<posts, reactions, reader>>
    /\ t.pc \in {"post", "edit"} => t.at = clock' /\ clock' = clock + 1
    /\ t.pc = "post" => /\ t.parent \in {0} \cup DOMAIN posts /\ t.seen <= Len(posts)
                        /\ t.parent # 0 => CountFits(posts, t.parent, t.seen, t.threads)
    /\ t.pc \in {"edit", "delete", "pin"} => t.post \in DOMAIN posts
    /\ t.pc = "react" => t.on \in (DOMAIN posts) \X Authors

\* A request that begins disturbs nothing: it takes a time that nobody has, and a count that fits.
LEMMA BeginsStep ==
    ASSUME ThreadsInv, ThreadsAssumption, NEW r \in Posters, NEW t, Begins(r, t)
    PROVE  ThreadsInv'
  <1> USE DEF ThreadsInv
  <1>0. posts' = posts /\ reactions' = reactions /\ reader' = reader
        /\ clock \in Nat /\ clock' \in Nat /\ clock <= clock' /\ MaxClock \in Nat
    BY DEF Begins, ThreadTypes, ThreadsAssumption
  <1>1. poster' = [poster EXCEPT ![r] = t] /\ t \in Request /\ poster \in [Posters -> Request]
    BY DEF Begins, ThreadTypes
  <1>2. poster'[r] = t /\ \A q \in Posters : q # r => poster'[q] = poster[q]
    BY <1>1
  <1>3. ThreadTypes'
    BY <1>0, <1>1 DEF ThreadTypes, Paging, Begins
  <1>4. \A q \in Posters : RequestOK(q)'
    BY <1>0, <1>2 DEF RequestOK, Begins
  <1>5. TimesDiffer'
    <2>1. ASSUME NEW q \in Posters, Dated(q)'
          PROVE  IF q = r THEN poster'[q].at = clock + 1 /\ clock' = clock + 1
                 ELSE Dated(q) /\ poster'[q].at = poster[q].at
      BY <2>1, <1>2 DEF Dated, Begins
    <2>2. \A i \in DOMAIN posts : posts[i].created \in Nat /\ posts[i].activity \in Nat
      <3>1. \A i \in DOMAIN posts : posts[i] \in Post  BY DEF ThreadTypes
      <3> QED  BY <3>1 DEF Post
    <2>3. \A s \in reader.start : s[2] <= clock
      BY DEF TimesDiffer
    <2>3a. \A s \in reader.start : s[2] \in Nat
      BY DEF ThreadTypes, Paging, NotYet
    <2>4. \A q \in Posters : Dated(q) => poster[q].at \in Nat
      BY DEF ThreadTypes, Dated, Request, PostRequest, EditRequest, DeleteRequest, PinRequest,
             ReactRequest, Ready
    <2>5. ASSUME NEW q \in Posters, Dated(q)'
          PROVE  /\ poster'[q].at <= clock'
                 /\ \A p \in Posters : Dated(p)' /\ poster'[p].at = poster'[q].at => p = q
                 /\ \A i \in DOMAIN posts : poster'[q].at # posts[i].created
                 /\ \A i \in DOMAIN posts : poster'[q].at # posts[i].activity
                 /\ \A s \in reader.start : poster'[q].at # s[2]
      <3>1. CASE q = r  BY <3>1, <2>1, <2>2, <2>3, <2>3a, <2>4, <2>5, <1>0 DEF TimesDiffer
      <3>2. CASE q # r  BY <3>2, <2>1, <2>2, <2>3, <2>4, <2>5, <1>0 DEF TimesDiffer
      <3> QED  BY <3>1, <3>2
    <2>6. /\ \A i \in DOMAIN posts : posts[i].created <= clock' /\ posts[i].activity <= clock'
          /\ \A s \in reader.start : s[1] \in DOMAIN posts /\ s[2] <= clock'
      BY <2>2, <2>3, <2>3a, <1>0 DEF TimesDiffer
    <2> QED  BY <1>0, <2>5, <2>6 DEF TimesDiffer
  <1>6. CountsOK'
    BY <1>0, <1>2 DEF CountsOK, Begins
  <1>7. ReaderOK'
    BY <1>0 DEF ReaderOK, Undisturbed, SetBack, TopLevel, Older
  <1> QED  BY <1>3, <1>4, <1>5, <1>6, <1>7

\* create_message and create_reply begin.
LEMMA PostBegins ==
    ASSUME ThreadsInv, ThreadsAssumption, NEW r \in Posters, NEW p, PostBegin(r, p)
    PROVE  ThreadsInv'
  <1> DEFINE n == IF p = 0 THEN 0 ELSE posts[p].threads
             t == [pc |-> "post", parent |-> p, at |-> clock + 1, threads |-> n,
                   seen |-> Len(posts)]
  <1>1. clock \in Nat /\ MaxClock \in Nat /\ posts \in Seq(Post)
    BY DEF ThreadsInv, ThreadTypes, ThreadsAssumption
  <1>2. p \in {0} \cup DOMAIN posts /\ clock' = clock + 1 /\ clock < MaxClock
        /\ poster[r] = Ready /\ poster' = [poster EXCEPT ![r] = t]
        /\ UNCHANGED <<posts, reactions, reader>>
    BY DEF PostBegin, Ticks, Starts
  <1>3. n \in Nat /\ p \in Nat /\ Len(posts) \in Nat
    <2>1. p # 0 => posts[p] \in Post  BY <1>1, <1>2
    <2> QED  BY <2>1, <1>1, <1>2 DEF Post
  <1>4. t \in Request  BY <1>3, <1>1 DEF Request, PostRequest
  <1>5. p # 0 => CountFits(posts, p, Len(posts), n)  BY <1>2 DEF ThreadsInv, CountsOK
  <1>6. Begins(r, t)
    <2>1. t.pc = "post" /\ t.parent = p /\ t.at = clock + 1 /\ t.threads = n /\ t.seen = Len(posts)
      OBVIOUS
    <2> HIDE DEF t
    <2> QED  BY <1>1, <1>2, <1>3, <1>4, <1>5, <2>1 DEF Begins
  <1> HIDE DEF t
  <1> QED  BY <1>6, BeginsStep

\* So does an edit.
LEMMA EditBegins ==
    ASSUME ThreadsInv, ThreadsAssumption, NEW r \in Posters, NEW i \in DOMAIN posts,
           EditBegin(r, i)
    PROVE  ThreadsInv'
  <1> DEFINE t == [pc |-> "edit", post |-> i, at |-> clock + 1]
  <1>1. clock \in Nat /\ MaxClock \in Nat /\ i \in Nat
    BY DEF ThreadsInv, ThreadTypes, ThreadsAssumption
  <1>2. clock' = clock + 1 /\ clock < MaxClock
        /\ poster[r] = Ready /\ poster' = [poster EXCEPT ![r] = t]
        /\ UNCHANGED <<posts, reactions, reader>>
    BY DEF EditBegin, Ticks, Starts
  <1>4. t \in Request  BY <1>1 DEF Request, EditRequest
  <1>6. Begins(r, t)
    <2>1. t.pc = "edit" /\ t.post = i /\ t.at = clock + 1  OBVIOUS
    <2> HIDE DEF t
    <2> QED  BY <1>1, <1>2, <1>4, <2>1 DEF Begins
  <1> HIDE DEF t
  <1> QED  BY <1>6, BeginsStep

\* A deletion, a pin and a reaction take no time.
LEMMA OtherBegins ==
    ASSUME ThreadsInv, ThreadsAssumption, NEW r \in Posters, NEW i \in DOMAIN posts,
           \/ DeleteBegin(r, i) \/ PinBegin(r, i)
           \/ \E a \in Authors : ReactBegin(r, i, a) \/ UnreactBegin(r, i, a)
    PROVE  ThreadsInv'
  <1>1. clock \in Nat /\ clock <= MaxClock /\ i \in Nat /\ posts[i] \in Post
    BY DEF ThreadsInv, ThreadTypes
  <1>2. CASE DeleteBegin(r, i)
    <2> DEFINE t == [pc |-> "delete", post |-> i]
    <2>1. t.pc = "delete" /\ t.post = i /\ t \in Request  BY <1>1 DEF Request, DeleteRequest
    <2>2. poster[r] = Ready /\ poster' = [poster EXCEPT ![r] = t]
      BY <1>2 DEF DeleteBegin, Starts
    <2> HIDE DEF t
    <2>3. Begins(r, t)  BY <1>1, <1>2, <2>1, <2>2 DEF Begins, DeleteBegin
    <2> QED  BY <2>3, BeginsStep
  <1>3. CASE PinBegin(r, i)
    <2> DEFINE t == [pc |-> "pin", post |-> i, to |-> ~posts[i].pinned]
    <2>1. t.pc = "pin" /\ t.post = i /\ t \in Request  BY <1>1 DEF Request, PinRequest
    <2>2. poster[r] = Ready /\ poster' = [poster EXCEPT ![r] = t]
      BY <1>3 DEF PinBegin, Starts
    <2> HIDE DEF t
    <2>3. Begins(r, t)  BY <1>1, <1>3, <2>1, <2>2 DEF Begins, PinBegin
    <2> QED  BY <2>3, BeginsStep
  <1>4. ASSUME NEW a \in Authors, ReactBegin(r, i, a) \/ UnreactBegin(r, i, a)
        PROVE  ThreadsInv'
    <2>0. PICK b \in BOOLEAN : /\ poster[r] = Ready
                               /\ poster' = [poster EXCEPT ![r] =
                                      [pc |-> "react", on |-> <<i, a>>, add |-> b]]
                               /\ UNCHANGED <<posts, reactions, clock, reader>>
      BY <1>4 DEF ReactBegin, UnreactBegin, Starts
    <2> DEFINE t == [pc |-> "react", on |-> <<i, a>>, add |-> b]
    <2>1. t.pc = "react" /\ t.on \in (DOMAIN posts) \X Authors /\ t \in Request
      BY <1>1 DEF Request, ReactRequest
    <2>2. poster[r] = Ready /\ poster' = [poster EXCEPT ![r] = t]  BY <2>0
    <2> HIDE DEF t
    <2>3. Begins(r, t)  BY <1>1, <2>0, <2>1, <2>2 DEF Begins
    <2> QED  BY <2>3, BeginsStep
  <1> QED  BY <1>2, <1>3, <1>4

\* What the commit of r may do to the messages.
Commits(r) ==
    /\ posts' \in Seq(Post) /\ Len(posts') \in {Len(posts), Len(posts) + 1}
    /\ \A i \in DOMAIN posts :
           /\ posts'[i].parent = posts[i].parent /\ posts'[i].created = posts[i].created
           /\ posts'[i].seen = posts[i].seen
           /\ (posts[i].deleted => posts'[i].deleted) /\ (posts[i].back => posts'[i].back)
           /\ \/ posts'[i].activity = posts[i].activity
              \/ /\ Dated(r) /\ posts'[i].activity = poster[r].at
                 /\ poster[r].at < posts[i].activity => posts'[i].back
    /\ \A i \in (DOMAIN posts') \ DOMAIN posts :
           Dated(r) /\ posts'[i].created = poster[r].at /\ posts'[i].activity = poster[r].at
    /\ poster' = [poster EXCEPT ![r] = Ready]
    /\ UNCHANGED <<reactions, clock, reader>>

\* A commit that keeps to this keeps the invariant.
LEMMA CommitsStep ==
    ASSUME ThreadsInv, NEW r \in Posters, Commits(r), CountsOK'
    PROVE  ThreadsInv'
  <1> USE DEF ThreadsInv
  <1>1. /\ posts \in Seq(Post) /\ posts' \in Seq(Post) /\ Len(posts) <= Len(posts')
        /\ DOMAIN posts \subseteq DOMAIN posts'
    BY DEF Commits, ThreadTypes
  <1>2. /\ poster \in [Posters -> Request] /\ poster' \in [Posters -> Request]
        /\ poster'[r] = Ready /\ \A q \in Posters : q # r => poster'[q] = poster[q]
    BY DEF Commits, ThreadTypes, Request
  <1>3. reactions' = reactions /\ clock' = clock /\ reader' = reader  BY DEF Commits
  <1>4. ThreadTypes'
    <2>1. reader' \in {NotYet} \cup Paging'
      BY <1>1, <1>3 DEF ThreadTypes, Paging
    <2>2. reactions' \subseteq (DOMAIN posts') \X Authors  BY <1>1, <1>3 DEF ThreadTypes
    <2> QED  BY <1>1, <1>2, <1>3, <2>1, <2>2 DEF ThreadTypes
  <1>5. \A q \in Posters : RequestOK(q)'
    <2> SUFFICES ASSUME NEW q \in Posters  PROVE RequestOK(q)'
      OBVIOUS
    <2>1. CASE q = r  BY <2>1, <1>2 DEF RequestOK, Ready
    <2>2. CASE q # r
      <3>1. poster'[q] = poster[q] /\ RequestOK(q)  BY <2>2, <1>2
      <3>2. poster[q].pc = "post" => poster[q].seen \in Nat
        BY <1>2 DEF Request, PostRequest, EditRequest, DeleteRequest, PinRequest, ReactRequest, Ready
      <3> QED  BY <3>1, <3>2, <1>1 DEF RequestOK
    <2> QED  BY <2>1, <2>2
  <1>6. /\ \A i \in DOMAIN posts : posts[i].created \in Nat /\ posts[i].activity \in Nat
        /\ \A i \in DOMAIN posts' : posts'[i].created \in Nat /\ posts'[i].activity \in Nat
    <2>1. /\ \A i \in DOMAIN posts : posts[i] \in Post
          /\ \A i \in DOMAIN posts' : posts'[i] \in Post
      BY <1>1
    <2> QED  BY <2>1 DEF Post
  <1>7. \A q \in Posters : Dated(q)' => q # r /\ Dated(q) /\ poster'[q] = poster[q]
    BY <1>2 DEF Dated, Ready
  <1>8. \A i \in DOMAIN posts' :
           \/ i \in DOMAIN posts /\ posts'[i].created = posts[i].created
           \/ i = Len(posts) + 1 /\ Dated(r) /\ posts'[i].created = poster[r].at
    BY <1>1 DEF Commits
  <1>9. \A i \in DOMAIN posts' :
           \/ i \in DOMAIN posts /\ posts'[i].activity = posts[i].activity
           \/ Dated(r) /\ posts'[i].activity = poster[r].at
    BY <1>1 DEF Commits
  <1>10. TimesDiffer'
    <2>1. \A i \in DOMAIN posts' : posts'[i].created <= clock /\ posts'[i].activity <= clock
      BY <1>8, <1>9 DEF TimesDiffer
    <2>2. ASSUME NEW i \in DOMAIN posts', NEW j \in DOMAIN posts',
                 posts'[i].created = posts'[j].created
          PROVE  i = j
      BY <2>2, <1>8 DEF TimesDiffer
    <2>3. \A s \in reader.start : s[1] \in DOMAIN posts' /\ s[2] <= clock
      BY <1>1 DEF TimesDiffer
    <2>4. ASSUME NEW q \in Posters, Dated(q)'
          PROVE  /\ poster'[q].at <= clock'
                 /\ \A p \in Posters : Dated(p)' /\ poster'[p].at = poster'[q].at => p = q
                 /\ \A i \in DOMAIN posts' : poster'[q].at # posts'[i].created
                 /\ \A i \in DOMAIN posts' : poster'[q].at # posts'[i].activity
                 /\ \A s \in reader.start : poster'[q].at # s[2]
      <3>1. q # r /\ Dated(q) /\ poster'[q] = poster[q]  BY <2>4, <1>7
      <3>2. Dated(r) => poster[q].at # poster[r].at  BY <3>1 DEF TimesDiffer
      <3>3. \A i \in DOMAIN posts' : poster'[q].at # posts'[i].created
        BY <3>1, <3>2, <1>8 DEF TimesDiffer
      <3>4. \A i \in DOMAIN posts' : poster'[q].at # posts'[i].activity
        BY <3>1, <3>2, <1>9 DEF TimesDiffer
      <3>5. \A p \in Posters : Dated(p)' /\ poster'[p].at = poster'[q].at => p = q
        BY <3>1, <1>7 DEF TimesDiffer
      <3> QED  BY <3>1, <3>3, <3>4, <3>5, <1>3 DEF TimesDiffer
    <2> QED  BY <2>1, <2>2, <2>3, <2>4, <1>3 DEF TimesDiffer
  <1>11. ReaderOK'
    <2>1. reader.pc = "more" => reader.cursor \in reader.shown  BY DEF ReaderOK
    <2>2. ASSUME NEW i \in DOMAIN posts', Undisturbed(i)', reader.pc # "no",
                 i \notin reader.shown, ~SetBack'
          PROVE  reader.pc = "more" /\ Older(i, reader.cursor)'
      <3>0. reader \in Paging  BY <2>2 DEF ThreadTypes, NotYet
      <3>1. /\ <<i, posts'[i].activity>> \in reader.start /\ posts'[i].created >= JoinedAt
            /\ posts'[i].parent = 0 /\ ~posts'[i].deleted
        BY <2>2, <1>3 DEF Undisturbed, TopLevel
      <3>2. i \in DOMAIN posts /\ (Dated(r) => posts'[i].activity # poster[r].at)
        BY <3>1 DEF TimesDiffer
      <3>3. posts'[i].activity = posts[i].activity  BY <3>2, <1>9
      <3>4. Undisturbed(i)  BY <3>1, <3>2, <3>3 DEF Undisturbed, TopLevel, Commits
      <3>5. reader.shown \subseteq DOMAIN posts  BY <3>0 DEF Paging
      <3>6. ~SetBack  BY <2>2, <1>3, <3>5 DEF SetBack, Commits
      <3>7. reader.pc = "more" /\ Older(i, reader.cursor) /\ reader.cursor \in reader.shown
        BY <2>2, <3>2, <3>4, <3>6 DEF ReaderOK
      <3>8. ~posts'[reader.cursor].back  BY <3>7, <2>2, <1>3 DEF SetBack
      <3>9. /\ posts'[reader.cursor].activity >= posts[reader.cursor].activity
            /\ posts'[reader.cursor].created = posts[reader.cursor].created
            /\ posts'[reader.cursor].activity # posts[reader.cursor].activity =>
                   Dated(r) /\ posts'[reader.cursor].activity = poster[r].at
        <4> DEFINE c == reader.cursor
        <4>1. c \in DOMAIN posts /\ c \in DOMAIN posts'  BY <3>7, <3>5, <1>1
        <4>2. \/ posts'[c].activity = posts[c].activity
              \/ /\ Dated(r) /\ posts'[c].activity = poster[r].at
                 /\ poster[r].at < posts[c].activity => posts'[c].back
          BY <4>1 DEF Commits
        <4>3. posts'[c].activity \in Nat /\ posts[c].activity \in Nat  BY <4>1, <1>6
        <4>4. posts'[c].created = posts[c].created  BY <4>1 DEF Commits
        <4> QED  BY <4>2, <4>3, <4>4, <3>8
      <3>10. Older(i, reader.cursor)'
        <4> DEFINE c == reader.cursor
        <4>1. c \in DOMAIN posts  BY <3>7, <3>5
        <4>2. posts'[i].created = posts[i].created  BY <3>2 DEF Commits
        <4>3. posts[c].activity \in Nat /\ posts[i].activity \in Nat /\ posts'[c].activity \in Nat
          BY <4>1, <3>2, <1>6, <1>1
        <4> QED  BY <3>3, <3>7, <3>9, <4>2, <4>3, <1>3 DEF Older
      <3> QED  BY <3>7, <3>10
    <2> QED  BY <2>1, <2>2, <1>3 DEF ReaderOK
  <1> QED  BY <1>4, <1>5, <1>10, <1>11

\* Requests, by what they do.
LEMMA RequestShapes ==
    ASSUME NEW t \in Request
    PROVE  /\ t.pc = "post" => t \in PostRequest
           /\ t.pc = "edit" => t \in EditRequest
           /\ t.pc = "delete" => t \in DeleteRequest
           /\ t.pc = "pin" => t \in PinRequest
           /\ t.pc = "react" => t \in ReactRequest
           /\ t.pc \in {"idle", "post", "edit", "delete", "pin", "react"}
  BY DEF Request, PostRequest, EditRequest, DeleteRequest, PinRequest, ReactRequest, Ready

\* What updated_at = now() makes of a message.
LEMMA ActiveFacts ==
    ASSUME NEW p \in Post, NEW at \in Nat
    PROVE  LET a == Active(p, at) IN
           /\ a \in Post /\ a.parent = p.parent /\ a.created = p.created /\ a.seen = p.seen
           /\ a.deleted = p.deleted /\ a.threads = p.threads /\ a.activity = at
           /\ a.back = (p.back \/ at < p.activity)
  <1> DEFINE b == p.back \/ at < p.activity
             a == [p EXCEPT !.activity = at, !.back = b]
  <1>1. b \in BOOLEAN  OBVIOUS
  <1>2. a = Active(p, at)  BY DEF Active
  <1> HIDE DEF b
  <1>3. /\ a \in Post /\ a.parent = p.parent /\ a.created = p.created /\ a.seen = p.seen
        /\ a.deleted = p.deleted /\ a.threads = p.threads /\ a.activity = at /\ a.back = b
    BY <1>1 DEF Post
  <1> HIDE DEF a
  <1> QED  BY <1>2, <1>3 DEF b

\* The message itself and its parent's count.
LEMMA PostCommits ==
    ASSUME ThreadsInv, NEW r \in Posters, PostCommit(r)
    PROVE  ThreadsInv'
  <1> USE DEF ThreadsInv
  <1> DEFINE t == poster[r]
             Marked_(i) == [Active(posts[i], t.at) EXCEPT !.threads = Counted(t)]
             ps == [i \in DOMAIN posts |-> IF i = t.parent THEN Marked_(i) ELSE posts[i]]
             new == NewPost(t.parent, t.at, t.seen)
             n == Len(posts) + 1
  <1>1. t \in PostRequest /\ t.pc = "post" /\ Dated(r)
    BY RequestShapes DEF PostCommit, ThreadTypes, Dated
  <1>2. posts \in Seq(Post) /\ \A i \in DOMAIN posts : posts[i] \in Post  BY DEF ThreadTypes
  <1>3. posts' = Append(ps, new) /\ poster' = [poster EXCEPT ![r] = Ready]
        /\ UNCHANGED <<reactions, clock, reader>>
    BY DEF PostCommit, Ends
  <1>4. /\ t.parent \in {0} \cup DOMAIN posts /\ t.seen \in 0 .. Len(posts)
        /\ t.at \in Nat /\ t.threads \in Nat /\ t.parent \in Nat
    BY <1>1 DEF RequestOK, PostRequest
  <1>5. \A i \in DOMAIN posts :
           /\ Marked_(i) \in Post
           /\ Marked_(i).parent = posts[i].parent /\ Marked_(i).created = posts[i].created
           /\ Marked_(i).seen = posts[i].seen /\ Marked_(i).deleted = posts[i].deleted
           /\ Marked_(i).threads = t.threads + 1 /\ Marked_(i).activity = t.at
           /\ Marked_(i).back = (posts[i].back \/ t.at < posts[i].activity)
    <2> SUFFICES ASSUME NEW i \in DOMAIN posts
                 PROVE  /\ Marked_(i) \in Post
                        /\ Marked_(i).parent = posts[i].parent
                        /\ Marked_(i).created = posts[i].created
                        /\ Marked_(i).seen = posts[i].seen /\ Marked_(i).deleted = posts[i].deleted
                        /\ Marked_(i).threads = t.threads + 1 /\ Marked_(i).activity = t.at
                        /\ Marked_(i).back = (posts[i].back \/ t.at < posts[i].activity)
      OBVIOUS
    <2>1. posts[i] \in Post  BY <1>2
    <2>2. PICK a \in Post : a = Active(posts[i], t.at)  BY <2>1, <1>4, ActiveFacts
    <2>3. /\ a.parent = posts[i].parent /\ a.created = posts[i].created /\ a.seen = posts[i].seen
          /\ a.deleted = posts[i].deleted /\ a.activity = t.at
          /\ a.back = (posts[i].back \/ t.at < posts[i].activity)
      BY <2>1, <2>2, <1>4, ActiveFacts
    <2> DEFINE k == t.threads + 1
               b == [a EXCEPT !.threads = k]
    <2>4. k \in Nat /\ Marked_(i) = b  BY <2>2, <1>4 DEF Counted
    <2> HIDE DEF Marked_, k
    <2>5. /\ b \in Post /\ b.parent = a.parent /\ b.created = a.created
          /\ b.seen = a.seen /\ b.deleted = a.deleted
          /\ b.threads = k /\ b.activity = a.activity /\ b.back = a.back
      BY <2>4 DEF Post
    <2> HIDE DEF b
    <2> QED  BY <2>3, <2>4, <2>5 DEF k
  <1>6. /\ new \in Post /\ new.parent = t.parent /\ new.created = t.at /\ new.activity = t.at
        /\ new.seen = t.seen /\ new.threads = 0
    BY <1>4 DEF NewPost, Post
  <1> HIDE DEF new, Marked_
  <1>7. ps \in Seq(Post) /\ Len(ps) = Len(posts) /\ DOMAIN ps = DOMAIN posts
    BY <1>2, <1>5
  <1>8. \A i \in DOMAIN posts : ps[i] = IF i = t.parent THEN Marked_(i) ELSE posts[i]
    OBVIOUS
  <1> HIDE DEF ps
  <1>9. /\ posts' \in Seq(Post) /\ Len(posts') = n /\ posts'[n] = new
        /\ \A i \in DOMAIN posts : posts'[i] = ps[i]
        /\ DOMAIN posts' = (DOMAIN posts) \cup {n} /\ n \notin DOMAIN posts
    BY <1>3, <1>6, <1>7, <1>2
  <1>8a. \A i \in DOMAIN ps : ps[i].parent = posts[i].parent /\ ps[i].seen = posts[i].seen
    BY <1>5, <1>7, <1>8
  <1>10. \A i \in DOMAIN posts :
            posts'[i].parent = posts[i].parent /\ posts'[i].seen = posts[i].seen
    BY <1>5, <1>8, <1>9
  <1>11. CountsOK'
    <2>1. \A i \in DOMAIN posts' : posts'[i].parent < i
      BY <1>9, <1>10, <1>6, <1>4 DEF CountsOK
    <2>2. \A p \in DOMAIN posts : CountFits(ps, p, Len(posts), posts[p].threads)
      BY <1>2, <1>7, <1>5, <1>8, CountStays DEF CountsOK
    <2>3. ASSUME NEW p \in DOMAIN posts  PROVE CountFits(posts', p, n, posts'[p].threads)
      <3>1. CASE p = t.parent
        <4>1. CountFits(posts, p, t.seen, t.threads)
          <5>1. p # 0  BY <1>2
          <5> QED  BY <5>1, <3>1, <1>1 DEF CountsOK
        <4>2. CountFits(ps, p, t.seen, t.threads)
          <5>1. Len(posts) <= Len(ps)  BY <1>2, <1>7
          <5>2. \A i \in DOMAIN posts : ps[i].parent = posts[i].parent /\ ps[i].seen = posts[i].seen
            BY <1>7, <1>8a
          <5> QED  BY <4>1, <5>1, <5>2, <1>2, <1>4, <1>7, CountStays
        <4>3. CountFits(Append(ps, new), p, Len(ps) + 1, t.threads + 1)
          BY <4>2, <3>1, <1>4, <1>6, <1>7, CountGrows
        <4>4. posts'[p].threads = t.threads + 1  BY <3>1, <1>5, <1>8, <1>9
        <4> QED  BY <4>3, <4>4, <1>3, <1>7
      <3>2. CASE p # t.parent
        <4>1. CountFits(Append(ps, new), p, Len(ps) + 1, posts[p].threads)
          BY <2>2, <3>2, <1>6, <1>7, CountKept
        <4> QED  BY <4>1, <3>2, <1>8, <1>9, <1>3, <1>7
      <3> QED  BY <3>1, <3>2
    <2>4. CountFits(posts', n, n, posts'[n].threads)
      <3>1. \A i \in DOMAIN posts' : posts'[i].parent # n
        <4>1. \A i \in DOMAIN posts' : i <= n /\ posts'[i].parent < i /\ posts'[i].parent \in Nat
          <5>1. \A i \in DOMAIN posts' : posts'[i] \in Post  BY <1>9
          <5>2. \A i \in DOMAIN posts' : i \in 1 .. n  BY <1>9, <1>2
          <5> QED  BY <5>1, <5>2, <2>1 DEF Post
        <4>2. n \in Nat /\ \A i \in DOMAIN posts' : i \in Nat  BY <1>9, <1>2
        <4> QED  BY <4>1, <4>2
      <3> QED  BY <3>1, <1>9, <1>6, NothingCounted
    <2>5. ASSUME NEW q \in Posters, poster'[q].pc = "post", poster'[q].parent # 0
          PROVE  CountFits(posts', poster'[q].parent, poster'[q].seen, poster'[q].threads)
      <3>1. q # r /\ poster'[q] = poster[q]  BY <2>5, <1>3 DEF ThreadTypes, Ready
      <3>2. CountFits(posts, poster[q].parent, poster[q].seen, poster[q].threads)
        BY <3>1, <2>5 DEF CountsOK
      <3>3. poster[q].seen \in 0 .. Len(posts)
        <4>1. poster[q] \in PostRequest  BY <3>1, <2>5, RequestShapes DEF ThreadTypes
        <4> QED  BY <4>1, <3>1, <2>5 DEF RequestOK, PostRequest
      <3> QED  BY <3>1, <3>2, <3>3, <1>2, <1>9, <1>10, CountStays
    <2> QED  BY <2>1, <2>3, <2>4, <2>5, <1>9 DEF CountsOK
  <1>12. Commits(r)
    <2>1. ASSUME NEW i \in DOMAIN posts
          PROVE  /\ posts'[i].created = posts[i].created
                 /\ (posts[i].deleted => posts'[i].deleted) /\ (posts[i].back => posts'[i].back)
                 /\ \/ posts'[i].activity = posts[i].activity
                    \/ /\ posts'[i].activity = t.at
                       /\ t.at < posts[i].activity => posts'[i].back
      <3>1. CASE i = t.parent
        <4>1. posts'[i] = Marked_(i)  BY <3>1, <1>8, <1>9
        <4> QED  BY <4>1, <1>5
      <3>2. CASE i # t.parent
        <4>1. posts'[i] = posts[i]  BY <3>2, <1>8, <1>9
        <4> QED  BY <4>1
      <3> QED  BY <3>1, <3>2
    <2> QED  BY <2>1, <1>1, <1>3, <1>6, <1>9, <1>10 DEF Commits
  <1> QED  BY <1>11, <1>12, CommitsStep

\* A message changed in its place.
LEMMA ChangeCommits ==
    ASSUME ThreadsInv, NEW r \in Posters, ChangeCommit(r)
    PROVE  ThreadsInv'
  <1> USE DEF ThreadsInv
  <1> DEFINE t == poster[r]
             i == t.post
             p == posts[i]
  <1>1. t \in EditRequest \cup DeleteRequest \cup PinRequest /\ t.pc \in {"edit", "delete", "pin"}
    BY RequestShapes DEF ChangeCommit, ThreadTypes
  <1>2. posts \in Seq(Post) /\ i \in DOMAIN posts /\ p \in Post
    BY <1>1 DEF ThreadTypes, RequestOK
  <1>3. \E new \in Post :
           /\ posts' = [posts EXCEPT ![i] = new]
           /\ new.parent = p.parent /\ new.created = p.created /\ new.seen = p.seen
           /\ new.threads = p.threads /\ (p.deleted => new.deleted) /\ (p.back => new.back)
           /\ \/ new.activity = p.activity
              \/ Dated(r) /\ new.activity = t.at /\ (t.at < p.activity => new.back)
    <2>1. CASE t.pc = "edit"
      <3> DEFINE new == [Active(p, t.at) EXCEPT !.edited = TRUE]
      <3>1. posts' = [posts EXCEPT ![i] = new]  BY <2>1 DEF ChangeCommit
      <3>2. t \in EditRequest /\ t.at \in Nat  BY <2>1, <1>1, RequestShapes DEF ThreadTypes, EditRequest
      <3>3. /\ new \in Post /\ new.parent = p.parent /\ new.created = p.created
            /\ new.seen = p.seen /\ new.threads = p.threads /\ new.deleted = p.deleted
            /\ new.activity = t.at /\ new.back = (p.back \/ t.at < p.activity)
        <4>1. PICK a \in Post : a = Active(p, t.at)  BY <1>2, <3>2, ActiveFacts
        <4>2. /\ a.parent = p.parent /\ a.created = p.created /\ a.seen = p.seen
              /\ a.threads = p.threads /\ a.deleted = p.deleted /\ a.activity = t.at
              /\ a.back = (p.back \/ t.at < p.activity)
          BY <4>1, <1>2, <3>2, ActiveFacts
        <4>3. new = [a EXCEPT !.edited = TRUE]  BY <4>1
        <4> HIDE DEF new
        <4> QED  BY <4>2, <4>3 DEF Post
      <3> HIDE DEF new
      <3> QED  BY <3>1, <3>3, <2>1 DEF Dated
    <2>2. CASE t.pc = "delete"
      <3> DEFINE new == [p EXCEPT !.deleted = TRUE]
      <3>1. posts' = [posts EXCEPT ![i] = new]  BY <2>2 DEF ChangeCommit
      <3>3. /\ new \in Post /\ new.parent = p.parent /\ new.created = p.created
            /\ new.seen = p.seen /\ new.threads = p.threads /\ new.deleted
            /\ new.activity = p.activity /\ new.back = p.back
        BY <1>2 DEF Post
      <3> HIDE DEF new
      <3> QED  BY <3>1, <3>3
    <2>3. CASE t.pc = "pin"
      <3> DEFINE new == [p EXCEPT !.pinned = t.to]
      <3>1. posts' = [posts EXCEPT ![i] = new]  BY <2>3 DEF ChangeCommit
      <3>2. t \in PinRequest /\ t.to \in BOOLEAN  BY <2>3, <1>1, RequestShapes DEF ThreadTypes, PinRequest
      <3>3. /\ new \in Post /\ new.parent = p.parent /\ new.created = p.created
            /\ new.seen = p.seen /\ new.threads = p.threads /\ new.deleted = p.deleted
            /\ new.activity = p.activity /\ new.back = p.back
        BY <1>2, <3>2 DEF Post
      <3> HIDE DEF new
      <3> QED  BY <3>1, <3>3
    <2> QED  BY <1>1, <2>1, <2>2, <2>3
  <1>4. PICK new \in Post :
           /\ posts' = [posts EXCEPT ![i] = new]
           /\ new.parent = p.parent /\ new.created = p.created /\ new.seen = p.seen
           /\ new.threads = p.threads /\ (p.deleted => new.deleted) /\ (p.back => new.back)
           /\ \/ new.activity = p.activity
              \/ Dated(r) /\ new.activity = t.at /\ (t.at < p.activity => new.back)
    BY <1>3
  <1>5. /\ posts' \in Seq(Post) /\ Len(posts') = Len(posts) /\ DOMAIN posts' = DOMAIN posts
        /\ posts'[i] = new /\ \A j \in DOMAIN posts : j # i => posts'[j] = posts[j]
    BY <1>4, <1>2
  <1>6. poster' = [poster EXCEPT ![r] = Ready] /\ UNCHANGED <<reactions, clock, reader>>
    BY DEF ChangeCommit, Ends
  <1>7. \A j \in DOMAIN posts :
                                /\ posts'[j].parent = posts[j].parent /\ posts'[j].seen = posts[j].seen
                                /\ posts'[j].threads = posts[j].threads
    BY <1>4, <1>5
  <1>8. CountsOK'
    <2>1. ASSUME NEW q \in DOMAIN posts  PROVE CountFits(posts', q, Len(posts), posts'[q].threads)
      <3>1. CountFits(posts, q, Len(posts), posts[q].threads)  BY DEF CountsOK
      <3>2. Len(posts) \in 0 .. Len(posts)  BY <1>2
      <3>3. CountFits(posts', q, Len(posts), posts[q].threads)
        <4>1. Len(posts) <= Len(posts')  BY <1>2, <1>5
        <4>2. \A j \in DOMAIN posts : /\ posts'[j].parent = posts[j].parent
                                       /\ posts'[j].seen = posts[j].seen
          BY <1>7
        <4> QED  BY <3>1, <3>2, <4>1, <4>2, <1>2, <1>5, CountStays
      <3> QED  BY <3>3, <1>7
    <2>2. ASSUME NEW q \in Posters, poster'[q].pc = "post", poster'[q].parent # 0
          PROVE  CountFits(posts', poster'[q].parent, poster'[q].seen, poster'[q].threads)
      <3>1. q # r /\ poster'[q] = poster[q]  BY <2>2, <1>6 DEF ThreadTypes, Ready
      <3>2. CountFits(posts, poster[q].parent, poster[q].seen, poster[q].threads)
        BY <3>1, <2>2 DEF CountsOK
      <3>3. poster[q].seen \in 0 .. Len(posts)
        <4>1. poster[q] \in PostRequest  BY <3>1, <2>2, RequestShapes DEF ThreadTypes
        <4> QED  BY <4>1, <3>1, <2>2 DEF RequestOK, PostRequest
      <3> QED  BY <3>1, <3>2, <3>3, <1>2, <1>5, <1>7, CountStays
    <2> QED  BY <2>1, <2>2, <1>5, <1>7 DEF CountsOK
  <1>9. Commits(r)
    <2>1. ASSUME NEW j \in DOMAIN posts
          PROVE  /\ posts'[j].created = posts[j].created
                 /\ (posts[j].deleted => posts'[j].deleted) /\ (posts[j].back => posts'[j].back)
                 /\ \/ posts'[j].activity = posts[j].activity
                    \/ /\ Dated(r) /\ posts'[j].activity = t.at
                       /\ t.at < posts[j].activity => posts'[j].back
      <3>1. CASE j = i
        <4>1. posts'[j] = new /\ posts[j] = p  BY <3>1, <1>5
        <4>2. /\ new.created = p.created
              /\ (p.deleted => new.deleted) /\ (p.back => new.back)
              /\ \/ new.activity = p.activity
                 \/ Dated(r) /\ new.activity = t.at /\ (t.at < p.activity => new.back)
          BY <1>4
        <4> HIDE DEF p, t
        <4> QED  BY <4>1, <4>2
      <3>2. CASE j # i  BY <3>2, <1>5
      <3> QED  BY <3>1, <3>2
    <2> QED  BY <2>1, <1>2, <1>5, <1>6, <1>7 DEF Commits
  <1> QED  BY <1>8, <1>9, CommitsStep

\* A reaction leaves the messages alone.
LEMMA ReactCommits ==
    ASSUME ThreadsInv, NEW r \in Posters, ReactCommit(r)
    PROVE  ThreadsInv'
  <1> USE DEF ThreadsInv
  <1>1. poster[r] \in ReactRequest /\ poster[r].on \in (DOMAIN posts) \X Authors
    BY RequestShapes DEF ReactCommit, ThreadTypes, RequestOK
  <1>2. /\ poster' = [poster EXCEPT ![r] = Ready] /\ UNCHANGED <<posts, clock, reader>>
        /\ reactions' \subseteq (DOMAIN posts) \X Authors
    BY <1>1 DEF ReactCommit, Ends, ThreadTypes
  <1>3. /\ poster' \in [Posters -> Request] /\ poster'[r] = Ready
        /\ \A q \in Posters : q # r => poster'[q] = poster[q]
    BY <1>2 DEF ThreadTypes, Request
  <1>4. ThreadTypes'  BY <1>2, <1>3 DEF ThreadTypes, Paging
  <1>5. \A q \in Posters : RequestOK(q)'  BY <1>2, <1>3 DEF RequestOK, Ready
  <1>6. \A q \in Posters : Dated(q)' => Dated(q) /\ poster'[q] = poster[q]
    BY <1>3 DEF Dated, Ready
  <1>7. TimesDiffer'  BY <1>2, <1>6 DEF TimesDiffer
  <1>8. CountsOK'  BY <1>2, <1>3 DEF CountsOK, Ready
  <1>9. ReaderOK'  BY <1>2 DEF ReaderOK, Undisturbed, SetBack, TopLevel, Older
  <1> QED  BY <1>4, <1>5, <1>7, <1>8, <1>9

\* A page of what is wanted: nothing wanted is left above its cursor.
LEMMA ShowsFacts ==
    ASSUME ThreadsInv, ThreadsAssumption, NEW S \in SUBSET TopLevel, Shows(S),
           UNCHANGED <<posts, reactions, clock, poster>>
    PROVE  /\ reader' \in Paging /\ reader'.shown = reader.shown \cup Page(S)
           /\ reader'.start = IF reader.pc = "no" THEN {<<i, posts[i].activity>> : i \in S}
                              ELSE reader.start
           /\ reader'.pc = "more" => reader'.cursor \in Page(S)
           /\ \A i \in S : \/ i \in reader'.shown
                           \/ reader'.pc = "more" /\ Older(i, reader'.cursor)
  <1> USE DEF ThreadsInv
  <1> DEFINE c == IF S = {} THEN reader.cursor ELSE Oldest(Page(S))
             b == IF reader.pc = "no" THEN {<<i, posts[i].activity>> : i \in S} ELSE reader.start
             sh == reader.shown \cup Page(S)
             m == IF Cardinality(S) > PageSize THEN "more" ELSE "end"
  <1>0. reader' = [pc |-> m, shown |-> sh, cursor |-> c, start |-> b]  BY DEF Shows
  <1>1. /\ posts \in Seq(Post) /\ S \subseteq DOMAIN posts
        /\ \A i \in DOMAIN posts : posts[i].activity \in Nat /\ posts[i].created \in Nat
    <2>1. posts \in Seq(Post) /\ \A i \in DOMAIN posts : posts[i] \in Post  BY DEF ThreadTypes
    <2> QED  BY <2>1 DEF Post, TopLevel
  <1>2. Ordered(S)
    <2>1. IsFiniteSet(1 .. Len(posts)) /\ S \subseteq 1 .. Len(posts)
      BY <1>1, SeqFinite
    <2>2. IsFiniteSet(S)  BY <2>1, FS_Subset
    <2> QED  BY <2>2, <1>1 DEF Ordered, TimesDiffer
  <1>3. /\ Page(S) \subseteq S /\ \A i \in S \ Page(S), j \in Page(S) : Older(i, j)
        /\ Cardinality(S) \in Nat
        /\ Cardinality(S) <= PageSize => Page(S) = S
        /\ S # {} => Oldest(Page(S)) \in Page(S)
    BY <1>2, PageFacts
  <1>4. reader.shown \subseteq DOMAIN posts /\ reader.cursor \in Nat
        /\ reader.start \subseteq Nat \X Nat
    BY DEF ThreadTypes, Paging, NotYet
  <1>5. c \in Nat /\ sh \subseteq DOMAIN posts /\ b \subseteq Nat \X Nat /\ m \in {"more", "end"}
    <2>1. S # {} => Oldest(Page(S)) \in DOMAIN posts  BY <1>1, <1>3
    <2>2. DOMAIN posts \subseteq Nat  BY <1>1
    <2>3. {<<i, posts[i].activity>> : i \in S} \subseteq Nat \X Nat  BY <1>1, <2>2
    <2> QED  BY <1>1, <1>3, <1>4, <2>1, <2>2, <2>3
  <1>6. m = "more" => S # {} /\ c \in Page(S)
    <2> SUFFICES ASSUME m = "more"  PROVE S # {} /\ c \in Page(S)
      OBVIOUS
    <2>1. Cardinality(S) > PageSize  OBVIOUS
    <2>2. S # {}  BY <2>1, <1>3, FS_EmptySet DEF ThreadsAssumption
    <2> QED  BY <2>2, <1>3
  <1>7. \A i \in S : i \in sh \/ (m = "more" /\ Older(i, c))
    <2>1. ASSUME NEW i \in S, i \notin Page(S)  PROVE m = "more" /\ Older(i, c)
      <3>1. Cardinality(S) > PageSize  BY <2>1, <1>3 DEF ThreadsAssumption
      <3>2. m = "more"  BY <3>1
      <3> QED  BY <2>1, <3>2, <1>6, <1>3
    <2>2. \A i \in Page(S) : i \in sh  OBVIOUS
    <2> HIDE DEF m, c, sh
    <2> QED  BY <2>1, <2>2
  <1> HIDE DEF c, sh, m
  <1>8. reader'.pc = m /\ reader'.shown = sh /\ reader'.cursor = c /\ reader'.start = b
    BY <1>0
  <1>9. reader' \in Paging  BY <1>0, <1>5 DEF Paging
  <1> QED  BY <1>6, <1>7, <1>8, <1>9 DEF sh

\* The first page, the pages behind it and the last one.
LEMMA PagesStep ==
    ASSUME ThreadsInv, ThreadsAssumption, FirstPage \/ NextPage
    PROVE  ThreadsInv'
  <1> USE DEF ThreadsInv
  <1> DEFINE S == IF reader.pc = "no" THEN TopLevel ELSE Below(reader.cursor)
  <1>1. /\ S \subseteq TopLevel /\ Shows(S) /\ UNCHANGED <<posts, reactions, clock, poster>>
        /\ reader.pc \in {"no", "more"}
    BY DEF FirstPage, NextPage, Below
  <1>2. /\ reader' \in Paging /\ reader'.shown = reader.shown \cup Page(S)
        /\ reader'.start = IF reader.pc = "no" THEN {<<i, posts[i].activity>> : i \in S}
                           ELSE reader.start
        /\ reader'.pc = "more" => reader'.cursor \in Page(S)
        /\ \A i \in S : \/ i \in reader'.shown
                        \/ reader'.pc = "more" /\ Older(i, reader'.cursor)
    <2> HIDE DEF S
    <2> QED  BY <1>1, ShowsFacts
  <1>3. ThreadTypes'
    <2>1. reader' \in Paging'  BY <1>1, <1>2 DEF Paging
    <2> QED  BY <1>1, <2>1 DEF ThreadTypes
  <1>4. \A r \in Posters : RequestOK(r)'  BY <1>1 DEF RequestOK
  <1>5. TimesDiffer'
    <2>1. S \subseteq DOMAIN posts  BY <1>1 DEF TopLevel
    <2>2. \A s \in reader'.start : s \in reader.start
                                   \/ \E i \in DOMAIN posts : s = <<i, posts[i].activity>>
      BY <1>2, <2>1
    <2>3. \A s \in reader'.start : s[1] \in DOMAIN posts /\ s[2] <= clock
      BY <2>2 DEF TimesDiffer
    <2>4. \A r \in Posters : Dated(r) => \A s \in reader'.start : poster[r].at # s[2]
      BY <2>2 DEF TimesDiffer
    <2>5. \A r \in Posters : Dated(r)' <=> Dated(r)  BY <1>1 DEF Dated
    <2> QED  BY <1>1, <2>3, <2>4, <2>5 DEF TimesDiffer
  <1>6. CountsOK'  BY <1>1 DEF CountsOK
  <1>7. ReaderOK'
    <2>1. reader'.pc = "more" => reader'.cursor \in reader'.shown  BY <1>2
    <2>2. ASSUME NEW i \in DOMAIN posts, Undisturbed(i)', i \notin reader'.shown, ~SetBack'
          PROVE  reader'.pc = "more" /\ Older(i, reader'.cursor)
      <3>1. i \in TopLevel /\ posts[i].created >= JoinedAt /\ <<i, posts[i].activity>> \in reader'.start
        BY <2>2, <1>1 DEF Undisturbed, TopLevel
      <3>2. i \in S
        <4>1. CASE reader.pc = "no"  BY <4>1, <3>1
        <4>2. CASE reader.pc = "more"
          <5>1. ~SetBack  BY <2>2, <1>1, <1>2 DEF SetBack
          <5>2. Undisturbed(i)  BY <3>1, <4>2, <1>2 DEF Undisturbed
          <5>3. Older(i, reader.cursor)  BY <5>1, <5>2, <4>2, <2>2, <1>2 DEF ReaderOK
          <5> QED  BY <5>3, <4>2, <3>1 DEF Below
        <4> QED  BY <4>1, <4>2, <1>1
      <3> QED  BY <3>2, <2>2, <1>2
    <2>3. \A i \in DOMAIN posts : Older(i, reader.cursor)' <=> Older(i, reader'.cursor)
      BY <1>1 DEF Older
    <2> QED  BY <2>1, <2>2, <2>3, <1>1 DEF ReaderOK
  <1> QED  BY <1>3, <1>4, <1>5, <1>6, <1>7

\* Every step keeps the invariant, which holds at the start.
LEMMA ThreadsStep ==
    ASSUME ThreadsInv, ThreadsAssumption, ThreadsNext  PROVE ThreadsInv'
  <1>1. CASE FirstPage \/ NextPage  BY <1>1, PagesStep
  <1>2. ASSUME NEW r \in Posters, PostCommit(r) \/ ChangeCommit(r) \/ ReactCommit(r)
        PROVE  ThreadsInv'
    BY <1>2, PostCommits, ChangeCommits, ReactCommits
  <1>3. ASSUME NEW r \in Posters, NEW p \in 0 .. Len(posts), PostBegin(r, p) \/ ReplyBegin(r, p)
        PROVE  ThreadsInv'
    BY <1>3, PostBegins DEF ReplyBegin
  <1>4. ASSUME NEW r \in Posters, NEW i \in DOMAIN posts,
               \/ EditBegin(r, i)
               \/ i \in Marked /\ (DeleteBegin(r, i) \/ PinBegin(r, i))
               \/ \E a \in Authors : i \in Marked /\ (ReactBegin(r, i, a) \/ UnreactBegin(r, i, a))
        PROVE  ThreadsInv'
    BY <1>4, EditBegins, OtherBegins
  <1> QED  BY <1>1, <1>2, <1>3, <1>4 DEF ThreadsNext

\* The messages there are at the start were said one per time unit.
LEMMA ThreadsStart ==
    ASSUME ThreadsInit, ThreadsAssumption  PROVE ThreadsInv
  <1>1. OldPosts \in Nat /\ MaxClock \in Nat /\ OldPosts <= MaxClock  BY DEF ThreadsAssumption
  <1>2. \A i \in 1 .. OldPosts :
           LET n == NewPost(0, i, 0) IN
           /\ n \in Post /\ n.parent = 0 /\ n.created = i /\ n.activity = i /\ n.threads = 0
    BY <1>1 DEF NewPost, Post
  <1>3. posts = [i \in 1 .. OldPosts |-> NewPost(0, i, 0)]  BY DEF ThreadsInit
  <1>4. posts \in Seq(Post) /\ DOMAIN posts = 1 .. OldPosts /\ Len(posts) = OldPosts
    BY <1>1, <1>2, <1>3
  <1>5. \A i \in DOMAIN posts : /\ posts[i].parent = 0 /\ posts[i].created = i
                                /\ posts[i].activity = i /\ posts[i].threads = 0
    BY <1>2, <1>3, <1>4
  <1>6. reader = NotYet /\ reactions = {} /\ clock = OldPosts
        /\ poster = [r \in Posters |-> Ready]
    BY DEF ThreadsInit
  <1>7. \A r \in Posters : poster[r].pc = "idle"  BY <1>6 DEF Ready
  <1>8. ThreadTypes  BY <1>1, <1>4, <1>6 DEF ThreadTypes, Request
  <1>9. \A r \in Posters : RequestOK(r)  BY <1>7 DEF RequestOK
  <1>10. TimesDiffer  BY <1>1, <1>4, <1>5, <1>6, <1>7 DEF TimesDiffer, Dated, NotYet
  <1>11. CountsOK
    <2>1. \A p \in DOMAIN posts : CountFits(posts, p, Len(posts), 0)
      BY <1>1, <1>4, <1>5, NothingCounted
    <2> QED  BY <2>1, <1>1, <1>4, <1>5, <1>7 DEF CountsOK
  <1>12. ReaderOK  BY <1>6 DEF ReaderOK, NotYet
  <1> QED  BY <1>8, <1>9, <1>10, <1>11, <1>12 DEF ThreadsInv

\* What the module states of its messages follows.
LEMMA ThreadsFacts ==
    ASSUME ThreadsInv
    PROVE  ThreadsTypeOK /\ ThreadCountLosesOverlaps /\ PagesShowAll
  <1> USE DEF ThreadsInv
  <1>1. ThreadsTypeOK
    <2>1. \A r \in Posters : poster[r].pc \in {"idle", "post", "edit", "delete", "pin", "react"}
      BY RequestShapes DEF ThreadTypes
    <2>2. reader.pc \in {"no", "more", "end"} /\ reader.shown \subseteq DOMAIN posts
      BY DEF ThreadTypes, Paging, NotYet
    <2> QED  BY <2>1, <2>2 DEF ThreadsTypeOK, ThreadTypes, CountsOK, TimesDiffer
  <1>2. ThreadCountLosesOverlaps
    <2>1. \A p : RepliesIn(posts, p, Len(posts)) = Replies(p)
      BY DEF RepliesIn, Replies, ThreadTypes
    <2> QED  BY <2>1 DEF CountsOK, CountFits, ThreadCountLosesOverlaps
  <1>3. PagesShowAll
    BY DEF PagesShowAll, ReaderOK, Undisturbed, SetBack, TopLevel
  <1> QED  BY <1>1, <1>2, <1>3

\* So it always holds.
LEMMA ThreadsAlways ==
    ASSUME ThreadsAssumption  PROVE ThreadsSpec => []ThreadsInv
  <1>1. ThreadsInit => ThreadsInv  BY ThreadsStart
  <1>2. ThreadsInv /\ UNCHANGED threadVars => ThreadsInv'
    BY DEF threadVars, ThreadsInv, ThreadTypes, Paging, RequestOK, TimesDiffer, Dated, CountsOK,
           ReaderOK, Undisturbed, SetBack, TopLevel, Older
  <1>3. ThreadsInv /\ [ThreadsNext]_threadVars => ThreadsInv'  BY <1>2, ThreadsStep
  <1> QED  BY <1>1, <1>3, PTL DEF ThreadsSpec

-----------------------------------------------------------------------------
(* Channels. *)

\* Rows, messages and the pointers of a person.
Member  == [id : Nat, of : People, read : Nat, knew : Nat, saw : Nat,
            flew : SUBSET Nat]
Message == [at : Nat, gone : BOOLEAN]
Pointer == Seq(1 .. MaxSaid)

\* The requests in flight.
Joining  == [pc : {"join"}, who : People, knew : Nat]
Leaving  == [pc : {"leave"}, row : Nat]
Saying   == [pc : {"say"}, who : People, at : Nat]
Listing  == [pc : {"list"}, who : People]
Counting == [pc : {"count"}, left : Seq(People)]
Telling  == [pc : {"tell"}, who : People, left : Seq(People), count : 0 .. MaxSaid]
Marking  == [pc : {"mark"}, kind : Kinds, who : People, upTo : 0 .. MaxSaid, at : Nat,
             found : Pointer, saw : Nat, flew : SUBSET Nat]
Errand == {Spare} \cup Joining \cup Leaving \cup Saying \cup Listing \cup Counting
          \cup Telling \cup Marking

\* The types, with those of the requests.
ChannelTypes ==
    /\ now \in 0 .. MaxNow /\ nextRow \in 1 .. MaxRows + 1
    /\ members \subseteq Member /\ IsFiniteSet(members)
    /\ said \in Seq(Message) /\ Len(said) <= MaxSaid
    /\ pointers \in [Kinds \X People -> Pointer]
    /\ request \in [Slots -> Errand]
    /\ badge \in [People -> 0 .. MaxSaid]

\* A row that a request has not seen comes after what it has.
RowsOK ==
    /\ \A m \in members : m.id < nextRow
    /\ \A m, n \in members : m.of = n.of /\ m.id < n.id => n.knew <= m.id
    /\ \A s \in Slots : request[s].pc = "join" =>
           /\ request[s].knew <= nextRow
           /\ \A m \in members : m.of = request[s].who => request[s].knew <= m.id

\* The requests that mark a channel as read.
Marks(s) == request[s].pc = "mark" /\ request[s].kind = "channel"

\* A mark of time t swallows nothing: what counts as read by it, or will when it commits, is
\* among the first messages that the mark saw or among those whose times it knew.
Covered(t, saw, flew) ==
    /\ t <= now /\ saw <= Len(said)
    /\ \A i \in DOMAIN said : said[i].at <= t => i <= saw \/ said[i].at \in flew
    /\ \A s \in Slots : request[s].pc = "say" /\ request[s].at <= t => request[s].at \in flew

\* That is so of the marks that are written and of those that are under way.
TimesOK ==
    /\ \A i \in DOMAIN said : said[i].at \in 1 .. now
    /\ \A s \in Slots : request[s].pc = "say" => request[s].at \in 1 .. now
    /\ \A m \in members : Covered(m.read, m.saw, m.flew)
    /\ \A s \in Slots : Marks(s) => Covered(request[s].at, request[s].saw, request[s].flew)

\* The types, the rows and the times.
ChannelsInv == ChannelTypes /\ RowsOK /\ TimesOK

\* Errands, by what they do.
LEMMA ErrandShapes ==
    ASSUME NEW q \in Errand
    PROVE  /\ q.pc = "join" => q \in Joining
           /\ q.pc = "leave" => q \in Leaving
           /\ q.pc = "say" => q \in Saying
           /\ q.pc = "list" => q \in Listing
           /\ q.pc = "count" => q \in Counting
           /\ q.pc = "tell" => q \in Telling
           /\ q.pc = "mark" => q \in Marking
  BY DEF Errand, Joining, Leaving, Saying, Listing, Counting, Telling, Marking, Spare

\* A step that opens or moves a request, and leaves the rest but the clock and the badges.
LEMMA RequestMoves ==
    ASSUME ChannelsInv, ChannelsAssumption, NEW s \in Slots, NEW q \in Errand,
           request' = [request EXCEPT ![s] = q],
           UNCHANGED <<members, nextRow, said, pointers>>, badge' \in [People -> 0 .. MaxSaid],
           now' \in {now, now + 1}, now' <= MaxNow,
           q.pc = "join" => /\ q.knew <= nextRow
                            /\ \A m \in members : m.of = q.who => q.knew <= m.id,
           q.pc = "say" => q.at = now' /\ now' = now + 1,
           q.pc = "mark" /\ q.kind = "channel" =>
               q.at = now' /\ now' = now + 1 /\ q.saw = Len(said) /\ q.flew = InFlight
    PROVE  ChannelsInv'
  <1> USE DEF ChannelsInv
  <1>1. /\ request' \in [Slots -> Errand] /\ request'[s] = q
        /\ \A r \in Slots : r # s => request'[r] = request[r]
    BY DEF ChannelTypes
  <1>2. now \in Nat /\ now' \in Nat /\ now <= now'  BY DEF ChannelTypes
  <1>3. ChannelTypes'  BY <1>1, <1>2 DEF ChannelTypes, ChannelsAssumption
  <1>4. RowsOK'  BY <1>1 DEF RowsOK
  <1>5. TimesOK'
    <2>1. \A i \in DOMAIN said : said[i].at \in Nat /\ said[i].at \in 1 .. now /\ said[i].at <= now
      BY <1>2 DEF TimesOK
    <2>2. ASSUME NEW r \in Slots, request'[r].pc = "say"
          PROVE  \/ r # s /\ request'[r] = request[r] /\ request[r].pc = "say"
                 \/ request'[r].at = now + 1 /\ now' = now + 1
      BY <2>2, <1>1
    <2>3. \A r \in Slots : request[r].pc = "say" => request[r].at \in 1 .. now
      BY DEF TimesOK
    <2>4. \A r \in Slots : request'[r].pc = "say" => request'[r].at \in 1 .. now'
      BY <1>2, <2>2, <2>3
    <2>5. ASSUME NEW t \in Nat, NEW saw, NEW flew \in SUBSET Nat, Covered(t, saw, flew)
          PROVE  Covered(t, saw, flew)'
      <3>1. t <= now' /\ saw <= Len(said)  BY <1>2, <2>5 DEF Covered
      <3>2. ASSUME NEW r \in Slots, request'[r].pc = "say", request'[r].at <= t
            PROVE  request'[r].at \in flew
        BY <1>2, <2>2, <2>5, <3>2 DEF Covered
      <3> QED  BY <2>5, <3>1, <3>2 DEF Covered
    <2>6. \A m \in members : Covered(m.read, m.saw, m.flew)'
      BY <2>5 DEF TimesOK, ChannelTypes, Member
    <2>7. ASSUME NEW r \in Slots, Marks(r)'
          PROVE  Covered(request[r].at, request[r].saw, request[r].flew)'
      <3>1. CASE r = s
        <4>1. /\ q.at = now + 1 /\ now' = now + 1 /\ q.saw = Len(said) /\ q.flew = InFlight
              /\ q.pc = "mark"
          BY <3>1, <2>7, <1>1 DEF Marks
        <4>2. \A i \in DOMAIN said : i <= Len(said)  BY DEF ChannelTypes
        <4>3. Len(said) \in Nat  BY DEF ChannelTypes
        <4>4. ASSUME NEW p \in Slots, request'[p].pc = "say"  PROVE request'[p].at \in InFlight
          <5>1. p # s /\ request'[p] = request[p]  BY <4>4, <4>1, <1>1
          <5> QED  BY <5>1, <4>4 DEF InFlight
        <4>5. Covered(q.at, q.saw, q.flew)'
          BY <4>1, <4>2, <4>3, <4>4, <1>2 DEF Covered
        <4> QED  BY <4>5, <3>1, <1>1 DEF Covered
      <3>2. CASE r # s
        <4>1. request'[r] = request[r] /\ Marks(r)  BY <3>2, <2>7, <1>1 DEF Marks
        <4>2. request[r].at \in Nat /\ request[r].flew \in SUBSET Nat
          BY <4>1, ErrandShapes DEF ChannelTypes, Marks, Marking
        <4> DEFINE t == request[r].at
                   saw == request[r].saw
                   flew == request[r].flew
        <4>3. Covered(t, saw, flew)  BY <4>1 DEF TimesOK
        <4>4. PICK a \in Nat, b \in {saw}, c \in SUBSET Nat : a = t /\ c = flew  BY <4>2
        <4>5. Covered(a, b, c)'  BY <4>3, <4>4, <2>5
        <4> QED  BY <4>1, <4>4, <4>5 DEF Covered
      <3> QED  BY <3>1, <3>2
    <2>8. \A i \in DOMAIN said : said[i].at \in 1 .. now'  BY <1>2, <2>1
    <2> QED  BY <2>4, <2>6, <2>7, <2>8 DEF TimesOK
  <1> QED  BY <1>3, <1>4, <1>5

\* What a member has not read is counted up to the number of messages.
LEMMA Unreads ==
    ASSUME ChannelTypes, NEW u
    PROVE  Cardinality(Unread(u)) \in 0 .. Len(said)
  <1>1. Len(said) \in Nat /\ DOMAIN said = 1 .. Len(said)  BY DEF ChannelTypes
  <1>2. IsFiniteSet(1 .. Len(said)) /\ Cardinality(1 .. Len(said)) = Len(said)
    <2>1. Len(said) \in Int /\ 1 \in Int  BY <1>1
    <2>2. Cardinality(1 .. Len(said)) = IF 1 > Len(said) THEN 0 ELSE Len(said) - 1 + 1
      BY <2>1, FS_Interval
    <2> QED  BY <1>1, <2>1, <2>2, FS_Interval
  <1>3. Unread(u) \subseteq 1 .. Len(said)  BY <1>1 DEF Unread
  <1> QED  BY <1>1, <1>2, <1>3, FS_Subset, FS_CardinalityType

\* A member has a row.
LEMMA MembersRow ==
    ASSUME ChannelTypes, NEW u, IsMember(u)
    PROVE  RowOf(u) \in members
  <1>1. RowsOf(u) # {}  BY FS_EmptySet DEF IsMember
  <1> QED  BY <1>1 DEF RowsOf, RowOf

\* The requests begin.
LEMMA OpeningSteps ==
    ASSUME ChannelsInv, ChannelsAssumption, NEW s \in Slots, NEW u \in People,
           \/ JoinBegin(s, u) \/ LeaveBegin(s, u) \/ SayBegin(s, u)
           \/ \E k \in Kinds : \E i \in 0 .. Len(said) : MarkBegin(s, k, u, i)
    PROVE  ChannelsInv'
  <1> USE DEF ChannelsInv
  <1>0. /\ now \in Nat /\ now <= MaxNow /\ nextRow \in Nat /\ MaxNow \in Nat /\ MaxSaid \in Nat
        /\ badge \in [People -> 0 .. MaxSaid] /\ Len(said) \in Nat /\ Len(said) <= MaxSaid
    BY DEF ChannelTypes, ChannelsAssumption
  <1>1. CASE JoinBegin(s, u)
    <2> DEFINE q == [pc |-> "join", who |-> u, knew |-> nextRow]
    <2>1. q \in Errand /\ q.pc = "join" /\ q.who = u /\ q.knew = nextRow
      BY <1>0 DEF Errand, Joining
    <2>2. /\ request' = [request EXCEPT ![s] = q]
          /\ UNCHANGED <<now, members, nextRow, said, pointers, badge>>
          /\ \A m \in members : m.of # u
      BY <1>1 DEF JoinBegin, Opens, NoRowFor, RowsOf
    <2> HIDE DEF q
    <2>3. q.knew <= nextRow /\ \A m \in members : m.of = q.who => q.knew <= m.id
      BY <1>0, <2>1, <2>2
    <2>4. now' = now /\ badge' = badge  BY <2>2
    <2> QED  BY <1>0, <2>1, <2>2, <2>3, <2>4, RequestMoves
  <1>2. CASE LeaveBegin(s, u)
    <2> DEFINE q == [pc |-> "leave", row |-> RowOf(u).id]
    <2>1. RowOf(u) \in members  BY <1>2, MembersRow DEF LeaveBegin
    <2>2. RowOf(u).id \in Nat  BY <2>1 DEF ChannelTypes, Member
    <2>3. q \in Errand /\ q.pc = "leave"  BY <2>2 DEF Errand, Leaving
    <2>4. /\ request' = [request EXCEPT ![s] = q]
          /\ UNCHANGED <<now, members, nextRow, said, pointers, badge>>
      BY <1>2 DEF LeaveBegin, Opens
    <2> HIDE DEF q
    <2> QED  BY <1>0, <2>3, <2>4, RequestMoves
  <1>3. CASE SayBegin(s, u)
    <2> DEFINE q == [pc |-> "say", who |-> u, at |-> now + 1]
    <2>1. q \in Errand /\ q.pc = "say" /\ q.at = now + 1  BY <1>0 DEF Errand, Saying
    <2>2. /\ request' = [request EXCEPT ![s] = q] /\ now' = now + 1 /\ now < MaxNow
          /\ UNCHANGED <<members, nextRow, said, pointers, badge>>
      BY <1>3 DEF SayBegin, Opens, Clocked
    <2> HIDE DEF q
    <2>3. now' <= MaxNow  BY <1>0, <2>2
    <2> QED  BY <1>0, <2>1, <2>2, <2>3, RequestMoves
  <1>4. ASSUME NEW k \in Kinds, NEW i \in 0 .. Len(said), MarkBegin(s, k, u, i)
        PROVE  ChannelsInv'
    <2>0. PICK t \in Nat :
             /\ now' = t /\ t \in {now, now + 1} /\ t <= MaxNow /\ (k = "channel" => t = now + 1)
      BY <1>0, <1>4 DEF MarkBegin, Clocked
    <2> DEFINE q == [pc |-> "mark", kind |-> k, who |-> u, upTo |-> i, at |-> t,
                     found |-> pointers[<<k, u>>], saw |-> Len(said), flew |-> InFlight]
    <2>1. /\ q \in Errand /\ q.pc = "mark" /\ q.at = t /\ q.kind = k
          /\ q.saw = Len(said) /\ q.flew = InFlight
      <3>1. pointers[<<k, u>>] \in Pointer /\ i \in 0 .. MaxSaid  BY <1>0 DEF ChannelTypes
      <3>2. InFlight \in SUBSET Nat
        <4>1. \A r \in Slots : request[r].pc = "say" => request[r].at \in Nat
          BY ErrandShapes DEF ChannelTypes, Saying
        <4> QED  BY <4>1 DEF InFlight
      <3> QED  BY <1>0, <3>1, <3>2 DEF Errand, Marking
    <2>2. /\ request' = [request EXCEPT ![s] = q]
          /\ UNCHANGED <<members, nextRow, said, pointers, badge>>
      BY <1>4, <2>0 DEF MarkBegin, Opens
    <2> HIDE DEF q
    <2> QED  BY <1>0, <2>0, <2>1, <2>2, RequestMoves
  <1> QED  BY <1>1, <1>2, <1>3, <1>4

\* The walk over the members, with a count for each.
LEMMA TellingSteps ==
    ASSUME ChannelsInv, ChannelsAssumption, NEW s \in Slots,
           ListMembers(s) \/ CountUnread(s) \/ TellCount(s)
    PROVE  ChannelsInv'
  <1> USE DEF ChannelsInv
  <1>0. /\ now \in Nat /\ now <= MaxNow /\ badge \in [People -> 0 .. MaxSaid]
        /\ Spare \in Errand /\ Spare.pc = "idle" /\ request[s] \in Errand
        /\ MaxSaid \in Nat /\ Len(said) \in Nat /\ Len(said) <= MaxSaid
    BY DEF ChannelTypes, Errand, Spare, ChannelsAssumption
  <1>1. CASE ListMembers(s)
    <2> DEFINE others == {m \in members : m.of # request[s].who}
    <2>1. PICK rows \in [1 .. Cardinality(others) -> others] :
             request' = [request EXCEPT ![s] =
                            [pc |-> "count", left |-> [i \in DOMAIN rows |-> rows[i].of]]]
      BY <1>1 DEF ListMembers, Goes
    <2> DEFINE l == [i \in DOMAIN rows |-> rows[i].of]
               q == [pc |-> "count", left |-> l]
    <2>2. Cardinality(others) \in Nat
      <3>1. IsFiniteSet(others)  BY FS_Subset DEF ChannelTypes
      <3> QED  BY <3>1, FS_CardinalityType
    <2>3. \A m \in others : m.of \in People  BY DEF ChannelTypes, Member
    <2> HIDE DEF others
    <2>4. l \in Seq(People)  BY <2>1, <2>2, <2>3
    <2> HIDE DEF l
    <2>5. q \in Errand /\ q.pc = "count"  BY <2>4 DEF Errand, Counting
    <2>6. request' = [request EXCEPT ![s] = q]  BY <2>1 DEF l
    <2> HIDE DEF q
    <2>7. UNCHANGED <<now, members, nextRow, said, pointers, badge>>  BY <1>1 DEF ListMembers
    <2> QED  BY <1>0, <2>5, <2>6, <2>7, RequestMoves
  <1>2. CASE CountUnread(s)
    <2>1. request[s] \in Counting  BY <1>0, <1>2, ErrandShapes DEF CountUnread
    <2> DEFINE left == request[s].left
               u == Head(left)
    <2>2. left \in Seq(People)  BY <2>1 DEF Counting
    <2>3. UNCHANGED <<now, members, nextRow, said, pointers, badge>>  BY <1>2 DEF CountUnread
    <2>4. CASE request' = [request EXCEPT ![s] = Spare]
      BY <1>0, <2>3, <2>4, RequestMoves
    <2>5. CASE left # <<>> /\ request' = [request EXCEPT ![s] = [request[s] EXCEPT !.left = Tail(left)]]
      <3> DEFINE q == [request[s] EXCEPT !.left = Tail(left)]
      <3>1. Tail(left) \in Seq(People)  BY <2>2, <2>5
      <3>2. q \in Counting  BY <2>1, <3>1 DEF Counting
      <3>3. q \in Errand /\ q.pc = "count"  BY <3>2 DEF Errand, Counting
      <3>4. request' = [request EXCEPT ![s] = q]  BY <2>5
      <3> HIDE DEF q
      <3> QED  BY <1>0, <2>3, <3>3, <3>4, RequestMoves
    <2>6. CASE left # <<>> /\ request' = [request EXCEPT ![s] =
                    [pc |-> "tell", who |-> u, left |-> Tail(left),
                     count |-> IF RowsOf(u) = {} THEN 0 ELSE Cardinality(Unread(u))]]
      <3> DEFINE n == IF RowsOf(u) = {} THEN 0 ELSE Cardinality(Unread(u))
                 q == [pc |-> "tell", who |-> u, left |-> Tail(left), count |-> n]
      <3>1. Tail(left) \in Seq(People) /\ u \in People  BY <2>2, <2>6
      <3>2. n \in 0 .. MaxSaid  BY <1>0, Unreads
      <3>3. q \in Errand /\ q.pc = "tell"
        <4> HIDE DEF n, u, left
        <4> QED  BY <3>1, <3>2 DEF Errand, Telling
      <3>4. request' = [request EXCEPT ![s] = q]  BY <2>6
      <3> HIDE DEF q
      <3> QED  BY <1>0, <2>3, <3>3, <3>4, RequestMoves
    <2> QED  BY <1>2, <2>4, <2>5, <2>6 DEF CountUnread, Over, Goes
  <1>3. CASE TellCount(s)
    <2>1. request[s] \in Telling  BY <1>0, <1>3, ErrandShapes DEF TellCount
    <2> DEFINE q == [pc |-> "count", left |-> request[s].left]
    <2>2. q \in Errand /\ q.pc = "count"  BY <2>1 DEF Errand, Counting, Telling
    <2>3. request' = [request EXCEPT ![s] = q] /\ UNCHANGED <<now, members, nextRow, said, pointers>>
      BY <1>3 DEF TellCount, Goes
    <2>4. badge' \in [People -> 0 .. MaxSaid]
      <3>1. request[s].count \in 0 .. MaxSaid /\ request[s].who \in People  BY <2>1 DEF Telling
      <3>2. badge' = [badge EXCEPT ![request[s].who] = request[s].count]  BY <1>3 DEF TellCount
      <3> QED  BY <1>0, <3>1, <3>2
    <2> HIDE DEF q
    <2> QED  BY <1>0, <2>2, <2>3, <2>4, RequestMoves
  <1> QED  BY <1>1, <1>2, <1>3

\* A request that settles to q has no more to join, say or mark.
LEMMA Settled ==
    ASSUME ChannelTypes, NEW s \in Slots, NEW q \in Errand, q.pc \notin {"join", "say", "mark"},
           request' = [request EXCEPT ![s] = q]
    PROVE  /\ request' \in [Slots -> Errand]
           /\ \A r \in Slots : request'[r].pc \in {"join", "say", "mark"} =>
                  r # s /\ request'[r] = request[r]
  <1>1. request'[s] = q /\ \A r \in Slots : r # s => request'[r] = request[r]
    BY DEF ChannelTypes
  <1> QED  BY <1>1 DEF ChannelTypes

\* A row is inserted or deleted.
LEMMA MemberSteps ==
    ASSUME ChannelsInv, ChannelsAssumption, NEW s \in Slots, JoinCommit(s) \/ LeaveCommit(s)
    PROVE  ChannelsInv'
  <1> USE DEF ChannelsInv
  <1>0. Spare \in Errand /\ Spare.pc = "idle" /\ request[s] \in Errand
    BY DEF ChannelTypes, Errand, Spare
  <1>1. request' = [request EXCEPT ![s] = Spare] /\ UNCHANGED <<now, said, pointers, badge>>
    BY DEF JoinCommit, LeaveCommit, Over, Goes
  <1>2. /\ request' \in [Slots -> Errand]
        /\ \A r \in Slots : request'[r].pc \in {"join", "say", "mark"} =>
               r # s /\ request'[r] = request[r]
    BY <1>0, <1>1, Settled
  <1>3. CASE JoinCommit(s)
    <2> DEFINE q == request[s]
               new == Row(nextRow, q.who, q.knew)
    <2>1. q \in Joining /\ nextRow \in Nat /\ nextRow <= MaxRows /\ MaxRows \in Nat /\ nextRow >= 1
      BY <1>0, <1>3, ErrandShapes DEF JoinCommit, ChannelTypes, ChannelsAssumption
    <2>2. members' = members \cup {new} /\ nextRow' = nextRow + 1  BY <1>3 DEF JoinCommit
    <2>3. /\ new \in Member /\ new.id = nextRow /\ new.of = q.who /\ new.knew = q.knew
          /\ new.read = 0 /\ new.saw = 0
      BY <2>1 DEF Row, Member, Joining
    <2>4. q.knew \in Nat /\ q.pc = "join"  BY <2>1 DEF Joining
    <2>4a. /\ q.knew <= nextRow
           /\ \A m \in members : m.of = q.who => q.knew <= m.id
      BY <2>4 DEF RowsOK
    <2> HIDE DEF new, q
    <2>5. IsFiniteSet(members')  BY <2>2, FS_AddElement DEF ChannelTypes
    <2>6. ChannelTypes'  BY <1>1, <1>2, <2>1, <2>2, <2>3, <2>5 DEF ChannelTypes
    <2>7. \A m \in members : m.id \in Nat /\ m.id < nextRow /\ m.knew \in Nat
      BY DEF ChannelTypes, RowsOK, Member
    <2>8. RowsOK'
      <3>1. \A m \in members' : m.id < nextRow'  BY <2>1, <2>2, <2>3, <2>7
      <3>2. ASSUME NEW m \in members', NEW n \in members', m.of = n.of, m.id < n.id
            PROVE  n.knew <= m.id
        <4>1. CASE m = new  BY <4>1, <3>2, <2>1, <2>2, <2>3, <2>7
        <4>2. CASE m \in members /\ n = new  BY <4>2, <3>2, <2>3, <2>4a
        <4>3. CASE m \in members /\ n \in members  BY <4>3, <3>2 DEF RowsOK
        <4> QED  BY <4>1, <4>2, <4>3, <2>2
      <3>3. ASSUME NEW r \in Slots, request'[r].pc = "join"
            PROVE  /\ request'[r].knew <= nextRow'
                   /\ \A m \in members' : m.of = request'[r].who => request'[r].knew <= m.id
        <4>1. request'[r] = request[r] /\ request[r].pc = "join"  BY <3>3, <1>2
        <4>2. request[r].knew \in Nat  BY <4>1, ErrandShapes DEF ChannelTypes, Joining
        <4>3. /\ request[r].knew <= nextRow
              /\ \A m \in members : m.of = request[r].who => request[r].knew <= m.id
          BY <4>1 DEF RowsOK
        <4> QED  BY <4>1, <4>2, <4>3, <2>1, <2>2, <2>3
      <3> QED  BY <3>1, <3>2, <3>3 DEF RowsOK
    <2>9. TimesOK'
      <3>1. ASSUME NEW t, NEW saw, NEW flew, Covered(t, saw, flew)  PROVE Covered(t, saw, flew)'
        BY <1>1, <1>2, <3>1 DEF Covered
      <3>2. Covered(0, 0, new.flew)
        <4>1. \A i \in DOMAIN said : ~(said[i].at <= 0)  BY DEF TimesOK, ChannelTypes
        <4>2. \A r \in Slots : request[r].pc = "say" => ~(request[r].at <= 0)
          BY DEF TimesOK, ChannelTypes
        <4> QED  BY <4>1, <4>2 DEF Covered, ChannelTypes
      <3>3. \A m \in members' : Covered(m.read, m.saw, m.flew)'
        BY <2>2, <2>3, <3>1, <3>2 DEF TimesOK
      <3>4. \A r \in Slots : Marks(r)' => Covered(request[r].at, request[r].saw, request[r].flew)'
        BY <1>1, <1>2 DEF TimesOK, Marks, Covered
      <3> QED  BY <1>1, <1>2, <3>3, <3>4 DEF TimesOK
    <2> QED  BY <2>6, <2>8, <2>9
  <1>4. CASE LeaveCommit(s)
    <2>1. members' \subseteq members /\ nextRow' = nextRow  BY <1>4 DEF LeaveCommit
    <2>2. IsFiniteSet(members')  BY <2>1, FS_Subset DEF ChannelTypes
    <2>3. ChannelTypes'  BY <1>1, <1>2, <2>1, <2>2 DEF ChannelTypes
    <2>4. RowsOK'  BY <1>2, <2>1 DEF RowsOK
    <2>5. TimesOK'  BY <1>1, <1>2, <2>1 DEF TimesOK, Marks, Covered
    <2> QED  BY <2>3, <2>4, <2>5
  <1> QED  BY <1>3, <1>4

\* A message is inserted or marked as deleted.
LEMMA SaidSteps ==
    ASSUME ChannelsInv, ChannelsAssumption,
           \/ \E s \in Slots : SayCommit(s)
           \/ \E i \in Erasable \cap DOMAIN said : Erase(i)
    PROVE  ChannelsInv'
  <1> USE DEF ChannelsInv
  <1>0. said \in Seq(Message) /\ Len(said) \in Nat /\ MaxSaid \in Nat /\ now \in Nat
    BY DEF ChannelTypes, ChannelsAssumption
  <1>1. ASSUME NEW s \in Slots, SayCommit(s)  PROVE ChannelsInv'
    <2> DEFINE q == [pc |-> "list", who |-> request[s].who]
               at == request[s].at
               new == [at |-> at, gone |-> FALSE]
    <2>1. request[s] \in Saying /\ request[s].pc = "say"
      BY <1>1, ErrandShapes DEF SayCommit, ChannelTypes
    <2>2. q \in Errand /\ q.pc = "list"  BY <2>1 DEF Errand, Listing, Saying
    <2>3. /\ request' = [request EXCEPT ![s] = q] /\ said' = Append(said, new)
          /\ Len(said) < MaxSaid /\ UNCHANGED <<now, members, nextRow, pointers, badge>>
      BY <1>1 DEF SayCommit, Goes
    <2>4. new \in Message /\ new.at = at /\ at \in Nat  BY <2>1 DEF Message, Saying
    <2>5. at \in 1 .. now  BY <2>1 DEF TimesOK
    <2>6. \A t, saw, flew : Covered(t, saw, flew) => (at <= t => at \in flew)
      BY <2>1 DEF Covered
    <2> HIDE DEF q, new, at
    <2>7. /\ request' \in [Slots -> Errand]
          /\ \A r \in Slots : request'[r].pc \in {"join", "say", "mark"} =>
                 r # s /\ request'[r] = request[r]
      BY <2>2, <2>3, Settled
    <2>8. /\ said' \in Seq(Message) /\ Len(said') = Len(said) + 1
          /\ \A i \in DOMAIN said' : \/ i \in DOMAIN said /\ said'[i] = said[i]
                                     \/ said'[i] = new
      BY <1>0, <2>3, <2>4
    <2>9. ChannelTypes'  BY <1>0, <2>3, <2>7, <2>8 DEF ChannelTypes
    <2>10. RowsOK'  BY <2>3, <2>7 DEF RowsOK
    <2>11. TimesOK'
      <3>1. \A i \in DOMAIN said' : said'[i].at \in 1 .. now  BY <2>4, <2>5, <2>8 DEF TimesOK
      <3>2. ASSUME NEW t, NEW saw \in Nat, NEW flew \in SUBSET Nat, Covered(t, saw, flew)
            PROVE  Covered(t, saw, flew)'
        <4>1. saw <= Len(said')  BY <1>0, <2>8, <3>2 DEF Covered
        <4>2. ASSUME NEW i \in DOMAIN said', said'[i].at <= t
              PROVE  i <= saw \/ said'[i].at \in flew
          <5>1. CASE i \in DOMAIN said /\ said'[i] = said[i]  BY <5>1, <4>2, <3>2 DEF Covered
          <5>2. CASE said'[i] = new  BY <5>2, <4>2, <2>4, <2>6, <3>2
          <5> QED  BY <5>1, <5>2, <2>8
        <4> QED  BY <4>1, <4>2, <3>2, <2>3, <2>7 DEF Covered
      <3>3. \A m \in members : Covered(m.read, m.saw, m.flew)'
        BY <3>2 DEF TimesOK, ChannelTypes, Member
      <3>4. ASSUME NEW r \in Slots, Marks(r)'
            PROVE  Covered(request[r].at, request[r].saw, request[r].flew)'
        <4>1. request'[r] = request[r] /\ Marks(r)  BY <3>4, <2>7 DEF Marks
        <4>2. request[r].saw \in Nat /\ request[r].flew \in SUBSET Nat
          BY <4>1, ErrandShapes DEF ChannelTypes, Marks, Marking
        <4>3. Covered(request[r].at, request[r].saw, request[r].flew)  BY <4>1 DEF TimesOK
        <4>4. PICK a \in {request[r].at}, b \in Nat, c \in SUBSET Nat :
                 b = request[r].saw /\ c = request[r].flew
          BY <4>2
        <4>5. Covered(a, b, c)'  BY <4>3, <4>4, <3>2
        <4> QED  BY <4>1, <4>4, <4>5 DEF Covered
      <3> QED  BY <3>1, <3>3, <3>4, <2>3, <2>7 DEF TimesOK
    <2> QED  BY <2>9, <2>10, <2>11
  <1>2. ASSUME NEW i \in DOMAIN said, Erase(i)  PROVE ChannelsInv'
    <2> DEFINE new == [at |-> said[i].at, gone |-> TRUE]
    <2>1. /\ said' = [said EXCEPT ![i] = new]
          /\ UNCHANGED <<now, members, nextRow, pointers, request, badge>>
      BY <1>2 DEF Erase
    <2>2. /\ said' \in Seq(Message) /\ Len(said') = Len(said) /\ DOMAIN said' = DOMAIN said
          /\ \A j \in DOMAIN said : said'[j].at = said[j].at
      <3>1. said[i] \in Message  BY <1>0
      <3>2. new \in Message /\ new.at = said[i].at  BY <3>1 DEF Message
      <3> HIDE DEF new
      <3> QED  BY <3>2, <2>1, <1>0
    <2>3. ChannelTypes'  BY <2>1, <2>2 DEF ChannelTypes
    <2>4. RowsOK'  BY <2>1 DEF RowsOK
    <2>5. TimesOK'  BY <2>1, <2>2 DEF TimesOK, Marks, Covered
    <2> QED  BY <2>3, <2>4, <2>5
  <1> QED  BY <1>1, <1>2

\* What becomes of the rows of a person when q marks the channel.
MarkedRow(q, m) == IF m.of = q.who
                 THEN [m EXCEPT !.read = MarkedAt(q), !.saw = q.saw, !.flew = q.flew] ELSE m

\* Both ways to write a pointer leave pointers.
LEMMA PutPointer ==
    ASSUME NEW S, NEW rows \in Seq(S), NEW x \in S
    PROVE  Append(rows, x) \in Seq(S) /\ [rows EXCEPT ![1] = x] \in Seq(S)
  <1>1. Append(rows, x) \in Seq(S)  OBVIOUS
  <1>2. CASE 1 \in DOMAIN rows
    <2> DEFINE new == [rows EXCEPT ![1] = x]
    <2>1. /\ DOMAIN new = 1 .. Len(rows)
          /\ \A i \in 1 .. Len(rows) : new[i] \in S
      BY <1>2
    <2>2. new = [i \in 1 .. Len(rows) |-> new[i]]  BY <2>1
    <2> HIDE DEF new
    <2>3. new \in [1 .. Len(rows) -> S]  BY <2>1, <2>2
    <2>4. new \in Seq(S)
      <3>1. Len(rows) \in Nat  OBVIOUS
      <3> QED  BY <2>3, <3>1
    <2> QED  BY <1>1, <2>4 DEF new
  <1>3. CASE 1 \notin DOMAIN rows
    <2>1. [rows EXCEPT ![1] = x] = rows  BY <1>3
    <2> QED  BY <1>1, <2>1
  <1> QED  BY <1>2, <1>3

\* The rows take over what the request knew when it began.
LEMMA MarkCommitStep ==
    ASSUME ChannelsInv, ChannelsAssumption, NEW s \in Slots, MarkCommit(s)
    PROVE  ChannelsInv'
  <1> USE DEF ChannelsInv
  <1>0. Spare \in Errand /\ Spare.pc = "idle" /\ MaxSaid \in Nat /\ now \in Nat
    BY DEF ChannelTypes, Errand, Spare, ChannelsAssumption
  <1> DEFINE q == request[s]
  <1>1. q \in Marking /\ q.pc = "mark"
    BY ErrandShapes DEF MarkCommit, ChannelTypes
  <1>2. UNCHANGED <<now, nextRow, said, badge>>  BY DEF MarkCommit
  <1>3. PICK t \in Errand : request' = [request EXCEPT ![s] = t] /\ t.pc \in {"idle", "tell"}
    <2> DEFINE t == [pc |-> "tell", who |-> q.who, left |-> <<>>, count |-> 0]
    <2>1. t \in Telling /\ t.pc = "tell"  BY <1>0, <1>1 DEF Telling, Marking
    <2>2. t \in Errand  BY <2>1 DEF Errand
    <2>3. request' = [request EXCEPT ![s] = Spare] \/ request' = [request EXCEPT ![s] = t]
      BY DEF MarkCommit, Over, Goes
    <2> HIDE DEF t
    <2> QED  BY <1>0, <2>1, <2>2, <2>3
  <1>4. /\ request' \in [Slots -> Errand]
        /\ \A r \in Slots : request'[r].pc \in {"join", "say", "mark"} =>
               r # s /\ request'[r] = request[r]
    BY <1>3, Settled
  <1>5. pointers' \in [Kinds \X People -> Pointer]
    <2>1. CASE pointers' = pointers  BY <2>1 DEF ChannelTypes
    <2>2. CASE pointers' = [pointers EXCEPT ![<<q.kind, q.who>>] = Pointed(q)]
      <3> DEFINE rows == pointers[<<q.kind, q.who>>]
      <3>1. <<q.kind, q.who>> \in Kinds \X People /\ q.upTo \in 0 .. MaxSaid
        BY <1>1 DEF Marking
      <3>2. rows \in Seq(1 .. MaxSaid)  BY <3>1 DEF ChannelTypes, Pointer
      <3>3. CASE q.upTo = 0 \/ Pointed(q) = rows
        BY <3>1, <3>2, <3>3, <2>2 DEF Pointed, Pointer, ChannelTypes
      <3>4. CASE q.upTo # 0 /\ Pointed(q) # rows
        <4>1. q.upTo \in 1 .. MaxSaid  BY <3>1, <3>4, <1>0
        <4>2. Append(rows, q.upTo) \in Seq(1 .. MaxSaid)
              /\ [rows EXCEPT ![1] = q.upTo] \in Seq(1 .. MaxSaid)
          BY <3>2, <4>1, PutPointer
        <4>3. Pointed(q) \in Pointer
          <5> HIDE DEF q
          <5> QED  BY <4>2, <3>2 DEF Pointed, Pointer
        <4> QED  BY <4>3, <3>1, <2>2 DEF ChannelTypes
      <3> QED  BY <3>3, <3>4
    <2> QED  BY <2>1, <2>2 DEF MarkCommit
  <1>6. CASE members' = members
    <2>1. ChannelTypes'  BY <1>2, <1>4, <1>5, <1>6 DEF ChannelTypes
    <2>2. RowsOK'  BY <1>2, <1>4, <1>6 DEF RowsOK
    <2>3. TimesOK'  BY <1>2, <1>4, <1>6 DEF TimesOK, Marks, Covered
    <2> QED  BY <2>1, <2>2, <2>3
  <1>7. CASE q.kind = "channel" /\ members' = {MarkedRow(q, m) : m \in members}
    <2>1. q.at \in Nat /\ q.saw \in Nat /\ q.flew \in SUBSET Nat /\ Marks(s)
      BY <1>1, <1>7 DEF Marking, Marks
    <2>2. \A m \in members :
             LET n == MarkedRow(q, m) IN
             /\ n \in Member /\ n.id = m.id /\ n.of = m.of /\ n.knew = m.knew
             /\ Covered(n.read, n.saw, n.flew)
      <3> SUFFICES ASSUME NEW m \in members
                   PROVE  LET n == MarkedRow(q, m) IN
                          /\ n \in Member /\ n.id = m.id /\ n.of = m.of /\ n.knew = m.knew
                          /\ Covered(n.read, n.saw, n.flew)
        OBVIOUS
      <3>1. m \in Member /\ Covered(m.read, m.saw, m.flew)  BY DEF ChannelTypes, TimesOK
      <3>2. CASE m.of = q.who
        <4> DEFINE n == [m EXCEPT !.read = q.at, !.saw = q.saw, !.flew = q.flew]
        <4>1. n = MarkedRow(q, m)  BY <3>2 DEF MarkedRow, MarkedAt
        <4>2. /\ n \in Member /\ n.id = m.id /\ n.of = m.of /\ n.knew = m.knew
              /\ n.read = q.at /\ n.saw = q.saw /\ n.flew = q.flew
          BY <3>1, <2>1 DEF Member
        <4>3. Covered(q.at, q.saw, q.flew)  BY <2>1 DEF TimesOK
        <4> HIDE DEF n
        <4> QED  BY <4>1, <4>2, <4>3
      <3>3. CASE m.of # q.who
        <4>1. MarkedRow(q, m) = m  BY <3>3 DEF MarkedRow
        <4> QED  BY <4>1, <3>1
      <3> QED  BY <3>2, <3>3
    <2>3. \A n \in members' :
             /\ n \in Member /\ Covered(n.read, n.saw, n.flew)
             /\ \E m \in members : n.id = m.id /\ n.of = m.of /\ n.knew = m.knew
      BY <1>7, <2>2
    <2>4. IsFiniteSet(members')
      <3> DEFINE f == [m \in members |-> MarkedRow(q, m)]
      <3>1. f \in Surjection(members, members')  BY <1>7 DEF Surjection
      <3> HIDE DEF f
      <3> QED  BY <3>1, FS_Surjection DEF ChannelTypes
    <2>5. ChannelTypes'
      <3>1. members' \subseteq Member  BY <2>3
      <3> QED  BY <1>2, <1>4, <1>5, <2>4, <3>1 DEF ChannelTypes
    <2>6. RowsOK'
      <3>1. \A n \in members' : n.id < nextRow  BY <2>3 DEF RowsOK
      <3>2. ASSUME NEW m \in members', NEW n \in members', m.of = n.of, m.id < n.id
            PROVE  n.knew <= m.id
        <4>1. PICK a \in members : m.id = a.id /\ m.of = a.of /\ m.knew = a.knew  BY <2>3
        <4>2. PICK b \in members : n.id = b.id /\ n.of = b.of /\ n.knew = b.knew  BY <2>3
        <4> QED  BY <4>1, <4>2, <3>2 DEF RowsOK
      <3>3. ASSUME NEW r \in Slots, request'[r].pc = "join"
            PROVE  /\ request'[r].knew <= nextRow
                   /\ \A m \in members' : m.of = request'[r].who => request'[r].knew <= m.id
        <4>1. request'[r] = request[r] /\ request[r].pc = "join"  BY <3>3, <1>4
        <4> QED  BY <4>1, <2>3 DEF RowsOK
      <3> QED  BY <3>1, <3>2, <3>3, <1>2 DEF RowsOK
    <2>7. TimesOK'
      <3>1. \A r \in Slots : request'[r].pc \in {"say", "mark"} => request'[r] = request[r]
        BY <1>4
      <3>2. \A n \in members' : Covered(n.read, n.saw, n.flew)'
        BY <1>2, <2>3, <3>1 DEF Covered
      <3>3. \A r \in Slots : Marks(r)' => Covered(request[r].at, request[r].saw, request[r].flew)'
        BY <1>2, <3>1 DEF TimesOK, Marks, Covered
      <3> QED  BY <3>1, <3>2, <3>3, <1>2 DEF TimesOK
    <2> QED  BY <2>5, <2>6, <2>7
  <1> QED  BY <1>6, <1>7 DEF MarkCommit, MarkedRow

\* Every step keeps the invariant, which holds at the start.
LEMMA ChannelsStep ==
    ASSUME ChannelsInv, ChannelsAssumption, ChannelsNext  PROVE ChannelsInv'
  <1>1. ASSUME NEW s \in Slots,
               \/ JoinCommit(s) \/ LeaveCommit(s) \/ SayCommit(s)
               \/ ListMembers(s) \/ CountUnread(s) \/ TellCount(s) \/ MarkCommit(s)
        PROVE  ChannelsInv'
    BY <1>1, MemberSteps, SaidSteps, TellingSteps, MarkCommitStep
  <1>2. ASSUME NEW s \in Slots, NEW u \in People,
               JoinBegin(s, u) \/ LeaveBegin(s, u) \/ SayBegin(s, u)
        PROVE  ChannelsInv'
    BY <1>2, OpeningSteps
  <1>3. ASSUME NEW s \in Slots, NEW k \in Kinds, NEW u \in Markers, NEW i \in 0 .. Len(said),
               MarkBegin(s, k, u, i)
        PROVE  ChannelsInv'
    <2>1. u \in People  BY DEF ChannelsAssumption
    <2> QED  BY <1>3, <2>1, OpeningSteps
  <1>4. ASSUME NEW i \in Erasable \cap DOMAIN said, Erase(i)  PROVE ChannelsInv'
    BY <1>4, SaidSteps
  <1> QED  BY <1>1, <1>2, <1>3, <1>4 DEF ChannelsNext

\* The founders have one row each, and there is one message per time unit.
LEMMA ChannelsStart ==
    ASSUME ChannelsInit, ChannelsAssumption  PROVE ChannelsInv
  <1> USE DEF ChannelsInit
  <1>0. /\ OldSaid \in Nat /\ MaxSaid \in Nat /\ MaxNow \in Nat /\ MaxRows \in Nat
        /\ Founders \in Seq(People) /\ Len(Founders) \in Nat /\ Len(Founders) <= MaxRows
        /\ OldSaid <= MaxSaid /\ OldSaid <= MaxNow
    BY DEF ChannelsAssumption
  <1>1. \A m \in members : \E i \in DOMAIN Founders :
           /\ m \in Member /\ m.id = i /\ m.of = Founders[i] /\ m.read = 0 /\ m.saw = 0
    <2> SUFFICES ASSUME NEW i \in DOMAIN Founders
                 PROVE  LET m == Row(i, Founders[i], i) IN
                        /\ m \in Member /\ m.id = i /\ m.of = Founders[i]
                        /\ m.read = 0 /\ m.saw = 0
      OBVIOUS
    <2>1. i \in Nat /\ Founders[i] \in People  BY <1>0
    <2> QED  BY <2>1 DEF Row, Member
  <1>2. IsFiniteSet(members)
    <2> DEFINE f == [i \in DOMAIN Founders |-> Row(i, Founders[i], i)]
    <2>1. f \in Surjection(DOMAIN Founders, members)  BY DEF Surjection
    <2>2. IsFiniteSet(DOMAIN Founders)
      <3>1. Len(Founders) \in Int /\ 1 \in Int /\ DOMAIN Founders = 1 .. Len(Founders)  BY <1>0
      <3> QED  BY <3>1, FS_Interval
    <2> HIDE DEF f
    <2> QED  BY <2>1, <2>2, FS_Surjection
  <1>3. /\ said \in Seq(Message) /\ Len(said) = OldSaid /\ DOMAIN said = 1 .. OldSaid
        /\ \A i \in DOMAIN said : said[i].at = i
    <2>1. \A i \in 1 .. OldSaid : [at |-> i, gone |-> FALSE] \in Message  BY <1>0 DEF Message
    <2> QED  BY <1>0, <2>1
  <1>4. Spare \in Errand /\ Spare.pc = "idle"  BY DEF Spare, Errand
  <1>5. \A s \in Slots : request[s].pc = "idle"  BY <1>4
  <1>6. ChannelTypes
    <2>1. members \subseteq Member  BY <1>1
    <2>2. pointers \in [Kinds \X People -> Pointer]
      <3>1. <<>> \in Pointer  BY DEF Pointer
      <3> QED  BY <3>1
    <2>3. badge \in [People -> 0 .. MaxSaid]  BY <1>0 DEF NoCount
    <2>4. request \in [Slots -> Errand]  BY <1>4
    <2> QED  BY <1>0, <1>2, <1>3, <2>1, <2>2, <2>3, <2>4 DEF ChannelTypes
  <1>7. RowsOK
    <2>1. \A m \in members : m.id < nextRow  BY <1>0, <1>1
    <2>2. ASSUME NEW m \in members, NEW n \in members, m.of = n.of, m.id < n.id  PROVE FALSE
      <3>1. PICK i \in DOMAIN Founders : m.id = i /\ m.of = Founders[i]  BY <1>1
      <3>2. PICK j \in DOMAIN Founders : n.id = j /\ n.of = Founders[j]  BY <1>1
      <3>3. i = j  BY <3>1, <3>2, <2>2 DEF ChannelsAssumption
      <3> QED  BY <3>1, <3>2, <3>3, <2>2, <1>0
    <2> QED  BY <1>5, <2>1, <2>2 DEF RowsOK
  <1>8. TimesOK
    <2>1. \A m \in members : m.read = 0 /\ m.saw = 0  BY <1>1
    <2>2. now = OldSaid /\ 0 <= now  BY <1>0
    <2>3. \A i \in DOMAIN said : said[i].at \in 1 .. now /\ ~(said[i].at <= 0)
      <3>1. TAKE i \in DOMAIN said
      <3>2. i \in 1 .. OldSaid /\ said[i].at = i  BY <1>3
      <3> HIDE DEF ChannelsInit
      <3> QED  BY <3>2, <2>2, <1>0
    <2>4. \A flew : Covered(0, 0, flew)  BY <1>0, <1>3, <1>5, <2>2, <2>3 DEF Covered
    <2> QED  BY <1>5, <2>1, <2>3, <2>4 DEF TimesOK, Marks
  <1> QED  BY <1>6, <1>7, <1>8 DEF ChannelsInv

\* What the module states of rows and marks follows.
LEMMA ChannelsFacts ==
    ASSUME ChannelsInv, ChannelsAssumption
    PROVE  ChannelsTypeOK /\ SecondRowOverlaps /\ SwallowedOnlyByOverlap
  <1> USE DEF ChannelsInv
  <1>1. ChannelsTypeOK
    <2>1. \A m \in members : m.id < nextRow /\ m.of \in People /\ m.read <= now
      BY DEF ChannelTypes, Member, RowsOK, TimesOK, Covered
    <2>2. \A k \in Kinds, u \in People : pointers[<<k, u>>] \in Seq(1 .. MaxSaid)
      BY DEF ChannelTypes, Pointer
    <2> QED  BY <2>1, <2>2 DEF ChannelsTypeOK, ChannelTypes, TimesOK
  <1>2. SecondRowOverlaps  BY DEF SecondRowOverlaps, RowsOf, RowsOK
  <1>3. SwallowedOnlyByOverlap  BY DEF SwallowedOnlyByOverlap, TimesOK, Covered
  <1> QED  BY <1>1, <1>2, <1>3

\* The pointer of a step that sets it back.
LEMMA PointerSteps ==
    ASSUME ChannelsInv, ChannelsAssumption, ChannelsNext  PROVE BackByStaleRead
  <1> USE DEF ChannelsInv
  <1> SUFFICES ASSUME NEW k \in Kinds, NEW u \in People,
                      pointers[<<k, u>>] # <<>>, pointers'[<<k, u>>] # <<>>,
                      pointers'[<<k, u>>][1] < pointers[<<k, u>>][1]
               PROVE  \E s \in Slots : /\ request[s].pc = "mark" /\ request'[s].pc # "mark"
                                      /\ request[s].kind = k /\ request[s].who = u
                                      /\ request[s].found[1] < pointers[<<k, u>>][1]
    BY DEF BackByStaleRead
  <1> DEFINE was == pointers[<<k, u>>]
             is  == pointers'[<<k, u>>]
  <1>0. MaxSaid \in Nat /\ was \in Seq(1 .. MaxSaid) /\ was[1] \in 1 .. MaxSaid
    <2>1. was \in Seq(1 .. MaxSaid) /\ MaxSaid \in Nat
      BY DEF ChannelTypes, Pointer, ChannelsAssumption
    <2> QED  BY <2>1
  <1>1. pointers' # pointers  BY <1>0
  <1>2. PICK s \in Slots : MarkCommit(s)
    BY <1>1 DEF ChannelsNext, JoinCommit, LeaveCommit, SayCommit, ListMembers, CountUnread,
                TellCount, JoinBegin, LeaveBegin, SayBegin, MarkBegin, Erase
  <1> DEFINE q == request[s]
  <1>3. q \in Marking /\ q.pc = "mark"
    BY <1>2, ErrandShapes DEF MarkCommit, ChannelTypes
  <1>4. pointers' = [pointers EXCEPT ![<<q.kind, q.who>>] = Pointed(q)]
    BY <1>1, <1>2 DEF MarkCommit
  <1>5. <<q.kind, q.who>> = <<k, u>> /\ is = Pointed(q)
    <2>1. pointers \in [Kinds \X People -> Pointer]  BY DEF ChannelTypes
    <2>2. <<q.kind, q.who>> # <<k, u>> => is = was  BY <1>4, <2>1
    <2>3. <<q.kind, q.who>> = <<k, u>>  BY <2>2, <1>0
    <2>4. <<k, u>> \in Kinds \X People  OBVIOUS
    <2> QED  BY <2>1, <2>3, <2>4, <1>4
  <1>6. q.kind = k /\ q.who = u  BY <1>5
  <1>7. q.found \in Seq(1 .. MaxSaid) /\ q.upTo \in 0 .. MaxSaid  BY <1>3 DEF Marking, Pointer
  <1> HIDE DEF q
  <1>8. q.found # <<>> /\ q.upTo > q.found[1] /\ is[1] = q.upTo
    <2>1. q.upTo # 0  BY <1>5, <1>6, <1>0 DEF Pointed
    <2>2. q.found # <<>>
      <3> SUFFICES ASSUME q.found = <<>>  PROVE FALSE
        OBVIOUS
      <3>1. is = Append(was, q.upTo)  BY <2>1, <1>5, <1>6 DEF Pointed
      <3>2. is[1] = was[1]  BY <3>1, <1>0, <1>7
      <3> QED  BY <3>2, <1>0
    <2>3. Advanced(q.found, q.upTo) # q.found  BY <2>1, <2>2, <1>5, <1>6, <1>0 DEF Pointed
    <2>4. is = [was EXCEPT ![1] = q.upTo]  BY <2>1, <2>2, <2>3, <1>5, <1>6 DEF Pointed
    <2>5. q.upTo > q.found[1]  BY <2>3 DEF Advanced
    <2>6. is[1] = q.upTo  BY <2>4, <1>0
    <2> QED  BY <2>2, <2>5, <2>6
  <1>9. q.found[1] \in 1 .. MaxSaid  BY <1>7, <1>8
  <1>10. q.found[1] < was[1]
    <2>1. is[1] < was[1]  OBVIOUS
    <2> HIDE DEF is, was
    <2>2. q.upTo < was[1]  BY <2>1, <1>8
    <2> QED  BY <2>2, <1>0, <1>7, <1>8, <1>9
  <1>11. request'[s].pc # "mark"
    <2>1. \/ request' = [request EXCEPT ![s] = Spare]
          \/ request' = [request EXCEPT ![s] = [pc |-> "tell", who |-> request[s].who,
                                               left |-> <<>>, count |-> 0]]
      BY <1>2 DEF MarkCommit, Over, Goes
    <2>2. request \in [Slots -> Errand]  BY DEF ChannelTypes
    <2> QED  BY <2>1, <2>2 DEF Spare
  <1> QED  BY <1>3, <1>6, <1>10, <1>11 DEF q

\* So it always holds.
LEMMA ChannelsAlways ==
    ASSUME ChannelsAssumption  PROVE ChannelsSpec => []ChannelsInv
  <1>1. ChannelsInit => ChannelsInv  BY ChannelsStart
  <1>2. ChannelsInv /\ UNCHANGED channelVars => ChannelsInv'
    BY DEF channelVars, ChannelsInv, ChannelTypes, RowsOK, TimesOK, Covered, Marks
  <1>3. ChannelsInv /\ [ChannelsNext]_channelVars => ChannelsInv'  BY <1>2, ChannelsStep
  <1> QED  BY <1>1, <1>3, PTL DEF ChannelsSpec

-----------------------------------------------------------------------------
(* ChatSockets. *)

\* Broadcasts, and what a socket was told last.
Cast == [of : Owners, status : Statuses, by : Socks \cup {"delay"}, left : SUBSET PresenceSocks]
Word == [status : Statuses, told : BOOLEAN]

\* The types, with those of the broadcasts.
SocketTypes ==
    /\ sock \in [Socks -> {"closed", "opening", "open", "dead"}]
    /\ userConns \in [Owners -> SUBSET Socks]
    /\ subscribers \subseteq PresenceSocks /\ offlineDue \subseteq Owners
    /\ lastPresence \in [Owners -> {"none"} \cup Statuses]
    /\ casting \in [Casts -> {Silent} \cup Cast]
    /\ view \in [PresenceSocks -> [Owners -> Word]]
    /\ overtaken \subseteq Owners

\* Who is registered is connected, and who subscribed and is alive is on the list.
ConnectedOK ==
    /\ \A u \in Owners : \A s \in userConns[u] : OwnerOf[s] = u /\ sock[s] # "closed"
    /\ \A w \in subscribers : sock[w] # "closed"
    /\ \A w \in PresenceSocks : sock[w] \in {"opening", "open"} => w \in subscribers

\* Nothing about u is under way to w.
Quiet(w, u) == \A c \in CastsOf(u) : w \notin casting[c].left

\* One broadcast of a user at a time, with what was last remembered, unless overtaken; whom
\* it does not reach any more has it.
OneCast == \A u \in Owners \ overtaken : \A c, d \in CastsOf(u) :
               c = d /\ casting[c].status = lastPresence[u]
Heard == \A w \in PresenceSocks, u \in Owners \ overtaken :
             sock[w] = "open" /\ view[w][u].told /\ Quiet(w, u) =>
                 view[w][u].status = lastPresence[u]
WordOK == OneCast /\ Heard

\* The types, the registers and the last words.
SocketsInv == SocketTypes /\ ConnectedOK /\ WordOK

\* A broadcast starts: it is the only one of its user, or the user is overtaken.
LEMMA AnnounceFacts ==
    ASSUME SocketsInv, NEW u \in Owners, NEW st \in Statuses, NEW by \in Socks \cup {"delay"},
           NEW to \in SUBSET PresenceSocks, Announces(u, st, by, to)
    PROVE  /\ lastPresence' \in [Owners -> {"none"} \cup Statuses]
           /\ casting' \in [Casts -> {Silent} \cup Cast]
           /\ overtaken' \subseteq Owners /\ overtaken \subseteq overtaken'
           /\ lastPresence'[u] = st
           /\ \A v \in Owners : v # u => lastPresence'[v] = lastPresence[v]
           /\ \A v \in Owners \ overtaken' : \A c, d \in CastsOf(v)' :
                  c = d /\ casting'[c].status = lastPresence'[v]
           /\ \A w \in PresenceSocks, v \in Owners \ overtaken' : Quiet(w, v)' =>
                  Quiet(w, v) /\ (lastPresence'[v] = lastPresence[v] \/ w \notin to)
  <1> USE DEF SocketsInv
  <1>1. CASE lastPresence[u] = st
    <2>1. UNCHANGED <<lastPresence, casting, overtaken>>  BY <1>1 DEF Announces
    <2> QED  BY <2>1, <1>1 DEF SocketTypes, WordOK, OneCast, Heard, CastsOf, Quiet
  <1>2. CASE lastPresence[u] # st
    <2>1. /\ lastPresence' = [lastPresence EXCEPT ![u] = st]
          /\ overtaken' = IF CastsOf(u) = {} THEN overtaken ELSE overtaken \cup {u}
      BY <1>2 DEF Announces, Remembered
    <2>2. PICK c \in Casts :
             /\ casting[c].left = {}
             /\ casting' = [casting EXCEPT ![c] = IF to = {} THEN Silent ELSE
                              [of |-> u, status |-> st, by |-> by, left |-> to]]
      BY <1>2 DEF Announces
    <2> DEFINE new == IF to = {} THEN Silent ELSE [of |-> u, status |-> st, by |-> by, left |-> to]
    <2>3. /\ new \in {Silent} \cup Cast /\ new.left = to
          /\ to # {} => new.of = u /\ new.status = st
      BY DEF Cast, Silent
    <2>4. casting' = [casting EXCEPT ![c] = new]  BY <2>2
    <2> HIDE DEF new
    <2>5. /\ casting' \in [Casts -> {Silent} \cup Cast] /\ casting'[c] = new
          /\ \A d \in Casts : d # c => casting'[d] = casting[d]
      BY <2>3, <2>4 DEF SocketTypes
    <2>6. \A v \in Owners : \A d : d \in CastsOf(v)' <=>
             IF d = c THEN to # {} /\ v = u ELSE d \in CastsOf(v)
      BY <2>3, <2>5 DEF CastsOf
    <2>7. \A v \in Owners : c \notin CastsOf(v)  BY <2>2 DEF CastsOf
    <2>8. /\ lastPresence' \in [Owners -> {"none"} \cup Statuses] /\ lastPresence'[u] = st
          /\ \A v \in Owners : v # u => lastPresence'[v] = lastPresence[v]
          /\ overtaken' \subseteq Owners /\ overtaken \subseteq overtaken'
      BY <2>1 DEF SocketTypes
    <2>9. u \notin overtaken' => CastsOf(u) = {}  BY <2>1
    <2>10. \A v \in Owners : \A d \in CastsOf(v) : d \in Casts  BY DEF CastsOf
    <2>11. ASSUME NEW v \in Owners \ overtaken', NEW d \in CastsOf(v)', NEW e \in CastsOf(v)'
           PROVE  d = e /\ casting'[d].status = lastPresence'[v]
      <3>1. CASE v = u
        <4>1. d = c /\ e = c /\ to # {}  BY <3>1, <2>6, <2>9
        <4> QED  BY <4>1, <3>1, <2>3, <2>5, <2>8
      <3>2. CASE v # u
        <4>1. d # c /\ e # c /\ d \in CastsOf(v) /\ e \in CastsOf(v)  BY <3>2, <2>6
        <4>2. d = e /\ casting[d].status = lastPresence[v]  BY <4>1, <2>8 DEF WordOK, OneCast, Heard
        <4> QED  BY <4>1, <4>2, <3>2, <2>5, <2>8, <2>10
      <3> QED  BY <3>1, <3>2
    <2>12. ASSUME NEW w \in PresenceSocks, NEW v \in Owners \ overtaken', Quiet(w, v)'
           PROVE  Quiet(w, v) /\ (lastPresence'[v] = lastPresence[v] \/ w \notin to)
      <3>1. Quiet(w, v)
        <4> SUFFICES ASSUME NEW d \in CastsOf(v)  PROVE w \notin casting[d].left
          BY DEF Quiet
        <4>1. d # c /\ d \in Casts /\ d \in CastsOf(v)'  BY <2>6, <2>7, <2>10
        <4> QED  BY <4>1, <2>5, <2>12 DEF Quiet
      <3>2. v = u => w \notin to
        <4> SUFFICES ASSUME v = u, w \in to  PROVE FALSE
          OBVIOUS
        <4>1. c \in CastsOf(v)'  BY <2>6
        <4> QED  BY <4>1, <2>3, <2>5, <2>12 DEF Quiet
      <3> QED  BY <3>1, <3>2, <2>8
    <2> QED  BY <2>5, <2>8, <2>11, <2>12
  <1> QED  BY <1>1, <1>2

\* A step that broadcasts to everybody who is and stays connected, or nothing.
LEMMA WordKept ==
    ASSUME SocketsInv, NEW u \in Owners, NEW st \in Statuses, NEW by \in Socks \cup {"delay"},
           NEW to \in SUBSET PresenceSocks,
           Announces(u, st, by, to) \/ UNCHANGED <<lastPresence, casting, overtaken>>,
           view' = view,
           \A w \in PresenceSocks : sock'[w] = "open" => sock[w] = "open" /\ w \in to
    PROVE  /\ WordOK' /\ lastPresence' \in [Owners -> {"none"} \cup Statuses]
           /\ casting' \in [Casts -> {Silent} \cup Cast] /\ overtaken' \subseteq Owners
  <1> USE DEF SocketsInv
  <1>1. CASE UNCHANGED <<lastPresence, casting, overtaken>>
    <2>1. \A v \in Owners : CastsOf(v)' = CastsOf(v)  BY <1>1 DEF CastsOf
    <2>2. \A w \in PresenceSocks, v \in Owners : Quiet(w, v)' => Quiet(w, v)
      BY <1>1, <2>1 DEF Quiet
    <2>3. OneCast'  BY <1>1, <2>1 DEF WordOK, OneCast
    <2>4. Heard'
      <3> SUFFICES ASSUME NEW w \in PresenceSocks, NEW v \in Owners \ overtaken,
                          sock'[w] = "open", view[w][v].told, Quiet(w, v)'
                   PROVE  view[w][v].status = lastPresence[v]
        BY <1>1 DEF Heard
      <3> QED  BY <2>2 DEF WordOK, Heard
    <2> QED  BY <1>1, <2>3, <2>4 DEF WordOK, SocketTypes
  <1>2. CASE Announces(u, st, by, to)
    <2>1. /\ lastPresence' \in [Owners -> {"none"} \cup Statuses]
          /\ casting' \in [Casts -> {Silent} \cup Cast]
          /\ overtaken' \subseteq Owners /\ overtaken \subseteq overtaken'
          /\ \A v \in Owners \ overtaken' : \A c, d \in CastsOf(v)' :
                 c = d /\ casting'[c].status = lastPresence'[v]
          /\ \A w \in PresenceSocks, v \in Owners \ overtaken' : Quiet(w, v)' =>
                 Quiet(w, v) /\ (lastPresence'[v] = lastPresence[v] \/ w \notin to)
      BY <1>2, AnnounceFacts
    <2>2. ASSUME NEW w \in PresenceSocks, NEW v \in Owners \ overtaken',
                 sock'[w] = "open", view[w][v].told, Quiet(w, v)'
          PROVE  view[w][v].status = lastPresence'[v]
      BY <2>1, <2>2 DEF WordOK, OneCast, Heard
    <2> QED  BY <2>1, <2>2 DEF WordOK, OneCast, Heard
  <1> QED  BY <1>1, <1>2

\* The chat sockets come and go.
LEMMA ChatSocketSteps ==
    ASSUME SocketsInv, ChatSocketsAssumption, NEW s \in Socks,
           \/ s \in ChatSocks /\ (ChatConnect(s) \/ ChatOnline(s) \/ ChatDisconnect(s))
           \/ HandlerDies(s)
    PROVE  SocketsInv'
  <1> USE DEF SocketsInv
  <1>1. OwnerOf[s] \in Owners /\ "online" \in Statuses
    BY DEF ChatSocketsAssumption, Socks, Statuses
  <1>2. PICK to \in {"opening", "open", "closed", "dead"} :
           /\ sock' = [sock EXCEPT ![s] = to]
           /\ s \in PresenceSocks => to = "dead" /\ sock[s] = "open"
           /\ UNCHANGED <<subscribers, view>>
           /\ userConns' \in [Owners -> SUBSET Socks] /\ offlineDue' \subseteq Owners
           /\ \A v \in Owners : \A q \in userConns'[v] :
                  \/ q # s /\ q \in userConns[v]
                  \/ q = s /\ v = OwnerOf[s] /\ to # "closed"
           /\ \/ Announces(OwnerOf[s], "online", s, subscribers)
              \/ UNCHANGED <<lastPresence, casting, overtaken>>
    <2>0. s \in ChatSocks => s \notin PresenceSocks  BY DEF ChatSocketsAssumption
    <2>1. CASE s \in ChatSocks /\ ChatConnect(s)
      BY <2>0, <2>1, <1>1 DEF ChatConnect, SocketTypes, ConnectedOK
    <2>2. CASE s \in ChatSocks /\ ChatOnline(s)
      BY <2>0, <2>2, <1>1 DEF ChatOnline, SocketTypes, ConnectedOK
    <2>3. CASE s \in ChatSocks /\ ChatDisconnect(s)
      BY <2>0, <2>3, <1>1 DEF ChatDisconnect, SocketTypes, ConnectedOK
    <2>4. CASE HandlerDies(s)
      BY <2>4, <1>1 DEF HandlerDies, SocketTypes, ConnectedOK
    <2> QED  BY <2>1, <2>2, <2>3, <2>4
  <1>3. /\ sock' \in [Socks -> {"closed", "opening", "open", "dead"}] /\ sock'[s] = to
        /\ \A q \in Socks : q # s => sock'[q] = sock[q]
        /\ PresenceSocks \subseteq Socks
    BY <1>2 DEF SocketTypes, Socks
  <1>4. \A w \in PresenceSocks : sock'[w] = "open" => sock[w] = "open" /\ w \in subscribers
    BY <1>2, <1>3 DEF ConnectedOK
  <1>5. /\ WordOK' /\ lastPresence' \in [Owners -> {"none"} \cup Statuses]
        /\ casting' \in [Casts -> {Silent} \cup Cast] /\ overtaken' \subseteq Owners
    BY <1>1, <1>2, <1>4, WordKept DEF SocketTypes
  <1>6. SocketTypes'  BY <1>2, <1>3, <1>5 DEF SocketTypes
  <1>7. ConnectedOK'
    <2>1. \A v \in Owners : \A q \in userConns'[v] : OwnerOf[q] = v /\ sock'[q] # "closed"
      BY <1>2, <1>3, <1>6 DEF ConnectedOK, SocketTypes
    <2>2. \A w \in subscribers : sock'[w] # "closed"
      BY <1>2, <1>3 DEF ConnectedOK, SocketTypes
    <2>3. \A w \in PresenceSocks : sock'[w] \in {"opening", "open"} => w \in subscribers
      BY <1>2, <1>3 DEF ConnectedOK
    <2> QED  BY <2>1, <2>2, <2>3, <1>2 DEF ConnectedOK
  <1> QED  BY <1>5, <1>6, <1>7

\* The delay of five seconds is over.
LEMMA DelayStep ==
    ASSUME SocketsInv, ChatSocketsAssumption, NEW u \in Owners, OfflineAfterDelay(u)
    PROVE  SocketsInv'
  <1> USE DEF SocketsInv
  <1>1. /\ UNCHANGED <<sock, userConns, subscribers, view>> /\ offlineDue' \subseteq Owners
        /\ \/ Announces(u, "offline", "delay", subscribers)
           \/ UNCHANGED <<lastPresence, casting, overtaken>>
    BY DEF OfflineAfterDelay, SocketTypes
  <1>2. \A w \in PresenceSocks : sock'[w] = "open" => sock[w] = "open" /\ w \in subscribers
    BY <1>1 DEF ConnectedOK
  <1>3. "offline" \in Statuses /\ "delay" \in Socks \cup {"delay"}  BY DEF Statuses
  <1>4. /\ WordOK' /\ lastPresence' \in [Owners -> {"none"} \cup Statuses]
        /\ casting' \in [Casts -> {Silent} \cup Cast] /\ overtaken' \subseteq Owners
    BY <1>1, <1>2, <1>3, WordKept DEF SocketTypes
  <1>5. SocketTypes'  BY <1>1, <1>4 DEF SocketTypes
  <1>6. ConnectedOK'  BY <1>1 DEF ConnectedOK
  <1> QED  BY <1>4, <1>5, <1>6

\* One socket after the other gets what was sent.
LEMMA DeliverStep ==
    ASSUME SocketsInv, ChatSocketsAssumption, NEW c \in Casts, NEW w \in PresenceSocks,
           Deliver(c, w)
    PROVE  SocketsInv'
  <1> USE DEF SocketsInv
  <1> DEFINE rest == casting[c].left \ {w}
             new == IF rest = {} THEN Silent ELSE [casting[c] EXCEPT !.left = rest]
             u == casting[c].of
             st == casting[c].status
  <1>1. w \in casting[c].left /\ casting[c] \in Cast /\ u \in Owners /\ st \in Statuses
    BY DEF Deliver, SocketTypes, Silent, Cast
  <1>2. casting' = [casting EXCEPT ![c] = new]  BY DEF Deliver
  <1>3. /\ new \in {Silent} \cup Cast /\ new.left = casting[c].left \ {w}
        /\ new.left # {} => new.of = u /\ new.status = st
    BY <1>1 DEF Cast, Silent
  <1> HIDE DEF new
  <1>4. /\ casting' \in [Casts -> {Silent} \cup Cast] /\ casting'[c] = new
        /\ \A d \in Casts : d # c => casting'[d] = casting[d]
    BY <1>2, <1>3 DEF SocketTypes
  <1>5. /\ view' = IF sock[w] \in {"opening", "open"}
                   THEN [view EXCEPT ![w][u] = Told(st)] ELSE view
        /\ subscribers' = IF sock[w] = "dead" THEN subscribers \ {w} ELSE subscribers
        /\ UNCHANGED <<sock, userConns, offlineDue, lastPresence, overtaken>>
    BY DEF Deliver
  <1>6. Told(st) \in Word /\ Told(st).status = st  BY <1>1 DEF Told, Word
  <1>7. /\ view' \in [PresenceSocks -> [Owners -> Word]]
        /\ \A x \in PresenceSocks, v \in Owners :
               view'[x][v] = IF sock[w] \in {"opening", "open"} /\ x = w /\ v = u
                             THEN Told(st) ELSE view[x][v]
    BY <1>1, <1>5, <1>6 DEF SocketTypes
  <1>8. SocketTypes'  BY <1>4, <1>5, <1>7 DEF SocketTypes
  <1>9. ConnectedOK'
    <2>1. w \in Socks /\ sock[w] \in {"closed", "opening", "open", "dead"}  BY DEF SocketTypes, Socks
    <2> QED  BY <1>5, <2>1 DEF ConnectedOK
  <1>10. \A v \in Owners : \A d \in CastsOf(v)' :
            d \in CastsOf(v) /\ casting'[d].status = casting[d].status
    BY <1>3, <1>4, <1>1 DEF CastsOf
  <1>11. WordOK'
    <2>1. \A v \in Owners \ overtaken : \A d, e \in CastsOf(v)' :
             d = e /\ casting'[d].status = lastPresence[v]
      BY <1>10 DEF WordOK, OneCast, Heard
    <2>2. ASSUME NEW x \in PresenceSocks, NEW v \in Owners \ overtaken,
                 sock[x] = "open", view'[x][v].told, Quiet(x, v)'
          PROVE  view'[x][v].status = lastPresence[v]
      <3>1. CASE x = w /\ v = u
        <4>1. c \in CastsOf(u)  BY <1>1 DEF CastsOf
        <4>2. st = lastPresence[v]  BY <4>1, <3>1 DEF WordOK, OneCast, Heard
        <4>3. view'[x][v] = Told(st)  BY <3>1, <2>2, <1>7
        <4> QED  BY <4>2, <4>3, <1>6
      <3>2. CASE ~(x = w /\ v = u)
        <4>1. view'[x][v] = view[x][v]  BY <3>2, <1>7
        <4>2. Quiet(x, v)
          <5> SUFFICES ASSUME NEW d \in CastsOf(v), x \in casting[d].left  PROVE FALSE
            BY DEF Quiet
          <5>1. CASE d = c
            <6>1. v = u /\ x # w  BY <5>1, <3>2 DEF CastsOf
            <6>2. x \in new.left  BY <6>1, <5>1, <1>3
            <6>3. c \in CastsOf(v)'  BY <6>1, <6>2, <1>3, <1>4 DEF CastsOf
            <6> QED  BY <6>2, <6>3, <1>4, <2>2 DEF Quiet
          <5>2. CASE d # c
            <6>1. d \in Casts /\ casting'[d] = casting[d]  BY <5>2, <1>4 DEF CastsOf
            <6>2. d \in CastsOf(v)'  BY <6>1 DEF CastsOf
            <6> QED  BY <6>1, <6>2, <2>2 DEF Quiet
          <5> QED  BY <5>1, <5>2
        <4> QED  BY <4>1, <4>2, <2>2 DEF WordOK, OneCast, Heard
      <3> QED  BY <3>1, <3>2
    <2> QED  BY <2>1, <2>2, <1>5 DEF WordOK, OneCast, Heard
  <1> QED  BY <1>8, <1>9, <1>11

\* The presence sockets come and go, and set a status.
LEMMA PresenceSteps ==
    ASSUME SocketsInv, ChatSocketsAssumption, NEW w \in PresenceSocks,
           \/ PresenceConnect(w) \/ PresenceDisconnect(w)
           \/ \E st \in Chosen : StatusUpdate(w, st)
    PROVE  SocketsInv'
  <1> USE DEF SocketsInv
  <1>1. w \in Socks /\ OwnerOf[w] \in Owners
    BY DEF ChatSocketsAssumption, Socks
  <1>2. PICK st \in Statuses, to \in {"opening", "open", "closed"}, subs \in SUBSET PresenceSocks :
           /\ sock' = [sock EXCEPT ![w] = to]
           /\ subscribers' = subs
           /\ subs = IF to = "closed" THEN subscribers \ {w}
                     ELSE IF to = "opening" THEN subscribers \cup {w} ELSE subscribers
           /\ to = "open" => sock[w] = "open"
           /\ userConns' \in [Owners -> SUBSET Socks]
           /\ \A v \in Owners : \A q \in userConns'[v] :
                  \/ q # w /\ q \in userConns[v]
                  \/ q = w /\ v = OwnerOf[w] /\ to # "closed"
           /\ \/ Announces(OwnerOf[w], st, w, subs)
              \/ UNCHANGED <<lastPresence, casting, overtaken>>
           /\ UNCHANGED <<offlineDue, view>>
    <2>1. CASE PresenceConnect(w)
      <3>1. "online" \in Statuses  BY DEF Statuses
      <3>2. /\ sock' = [sock EXCEPT ![w] = "opening"]
            /\ subscribers' = subscribers \cup {w}
            /\ userConns' = [userConns EXCEPT ![OwnerOf[w]] = userConns[OwnerOf[w]] \cup {w}]
            /\ Announces(OwnerOf[w], "online", w, subscribers \cup {w})
            /\ UNCHANGED <<offlineDue, view>>
        BY <2>1 DEF PresenceConnect
      <3>3. subscribers \cup {w} \in SUBSET PresenceSocks  BY DEF SocketTypes
      <3>4. userConns' \in [Owners -> SUBSET Socks]
            /\ \A v \in Owners : \A q \in userConns'[v] :
                  q \in userConns[v] \/ (q = w /\ v = OwnerOf[w])
        BY <3>2, <1>1 DEF SocketTypes
      <3>5. \A v \in Owners : \A q \in userConns[v] : q = w => v = OwnerOf[w]
        BY DEF ConnectedOK
      <3> QED  BY <3>1, <3>2, <3>3, <3>4, <3>5
    <2>2. CASE PresenceDisconnect(w)
      <3>1. "offline" \in Statuses  BY DEF Statuses
      <3>2. /\ sock' = [sock EXCEPT ![w] = "closed"]
            /\ subscribers' = subscribers \ {w}
            /\ userConns' = [userConns EXCEPT ![OwnerOf[w]] = userConns[OwnerOf[w]] \ {w}]
            /\ \/ Announces(OwnerOf[w], "offline", w, subscribers \ {w})
               \/ UNCHANGED <<lastPresence, casting, overtaken>>
            /\ UNCHANGED <<offlineDue, view>>
        BY <2>2 DEF PresenceDisconnect
      <3>3. subscribers \ {w} \in SUBSET PresenceSocks  BY DEF SocketTypes
      <3>4. userConns' \in [Owners -> SUBSET Socks]
            /\ \A v \in Owners : userConns'[v] \subseteq userConns[v] /\ (v = OwnerOf[w] => w \notin userConns'[v])
        BY <3>2, <1>1 DEF SocketTypes
      <3>5. \A v \in Owners : \A q \in userConns[v] : q = w => v = OwnerOf[w]
        BY DEF ConnectedOK
      <3> QED  BY <3>1, <3>2, <3>3, <3>4, <3>5
    <2>3. ASSUME NEW st \in Chosen, StatusUpdate(w, st)
          PROVE  /\ st \in Statuses /\ sock' = [sock EXCEPT ![w] = "open"] /\ sock[w] = "open"
                 /\ subscribers' = subscribers /\ subscribers \in SUBSET PresenceSocks
                 /\ userConns' = userConns /\ userConns \in [Owners -> SUBSET Socks]
                 /\ \A v \in Owners : \A q \in userConns[v] : q = w => v = OwnerOf[w]
                 /\ Announces(OwnerOf[w], st, w, subscribers)
                 /\ UNCHANGED <<offlineDue, view>>
      BY <2>3, <1>1 DEF StatusUpdate, SocketTypes, Statuses, ConnectedOK
    <2> QED  BY <2>1, <2>2, <2>3
  <1>3. /\ sock' \in [Socks -> {"closed", "opening", "open", "dead"}] /\ sock'[w] = to
        /\ \A q \in Socks : q # w => sock'[q] = sock[q]
        /\ PresenceSocks \subseteq Socks
    BY <1>1, <1>2 DEF SocketTypes, Socks
  <1>4. \A x \in PresenceSocks : sock'[x] = "open" => sock[x] = "open" /\ x \in subs
    BY <1>2, <1>3 DEF ConnectedOK
  <1>5. /\ WordOK' /\ lastPresence' \in [Owners -> {"none"} \cup Statuses]
        /\ casting' \in [Casts -> {Silent} \cup Cast] /\ overtaken' \subseteq Owners
    <2>1. view' = view /\ w \in Socks \cup {"delay"}  BY <1>1, <1>2
    <2>2. Announces(OwnerOf[w], st, w, subs) \/ UNCHANGED <<lastPresence, casting, overtaken>>
      BY <1>2
    <2> QED  BY <1>1, <1>4, <2>1, <2>2, WordKept
  <1>6. SocketTypes'  BY <1>2, <1>3, <1>5 DEF SocketTypes
  <1>7. ConnectedOK'
    <2>1. \A v \in Owners : \A q \in userConns'[v] : OwnerOf[q] = v /\ sock'[q] # "closed"
      BY <1>2, <1>3, <1>6 DEF ConnectedOK, SocketTypes
    <2>2. \A x \in subs : sock'[x] # "closed"
      BY <1>2, <1>3 DEF ConnectedOK, SocketTypes
    <2>3. \A x \in PresenceSocks : sock'[x] \in {"opening", "open"} => x \in subs
      BY <1>2, <1>3 DEF ConnectedOK
    <2> QED  BY <2>1, <2>2, <2>3, <1>2 DEF ConnectedOK
  <1> QED  BY <1>5, <1>6, <1>7

\* The presence list that a new socket is sent.
LEMMA ListStep ==
    ASSUME SocketsInv, ChatSocketsAssumption, NEW w \in PresenceSocks, PresenceList(w)
    PROVE  SocketsInv'
  <1> USE DEF SocketsInv
  <1> DEFINE row == [u \in Owners |-> Listed(IF userConns[u] = {} THEN "offline" ELSE "online")]
  <1>1. /\ sock' = [sock EXCEPT ![w] = "open"] /\ sock[w] = "opening" /\ w \in Socks
        /\ view' = [view EXCEPT ![w] = row]
        /\ UNCHANGED <<userConns, subscribers, offlineDue, lastPresence, casting, overtaken>>
    BY DEF PresenceList, Socks
  <1>2. row \in [Owners -> Word] /\ \A u \in Owners : row[u].told = FALSE
    BY DEF Listed, Word, Statuses
  <1> HIDE DEF row
  <1>3. /\ sock' \in [Socks -> {"closed", "opening", "open", "dead"}] /\ sock'[w] = "open"
        /\ \A q \in Socks : q # w => sock'[q] = sock[q]
        /\ view' \in [PresenceSocks -> [Owners -> Word]] /\ view'[w] = row
        /\ \A x \in PresenceSocks : x # w => view'[x] = view[x]
        /\ PresenceSocks \subseteq Socks
    BY <1>1, <1>2 DEF SocketTypes, Socks
  <1>4. SocketTypes'  BY <1>1, <1>3 DEF SocketTypes
  <1>5. ConnectedOK'
    <2>1. \A v \in Owners : \A q \in userConns[v] : q \in Socks  BY DEF SocketTypes
    <2>2. \A x \in subscribers : x \in Socks  BY <1>3 DEF SocketTypes
    <2> QED  BY <2>1, <2>2, <1>1, <1>3 DEF ConnectedOK
  <1>6. WordOK'
    <2>1. \A u \in Owners : CastsOf(u)' = CastsOf(u)  BY <1>1 DEF CastsOf
    <2>1a. \A u \in Owners, x \in PresenceSocks : Quiet(x, u)' => Quiet(x, u)
      BY <1>1, <2>1 DEF Quiet
    <2>1b. OneCast'  BY <1>1, <2>1 DEF WordOK, OneCast
    <2>2. ASSUME NEW x \in PresenceSocks, NEW u \in Owners \ overtaken,
                 sock'[x] = "open", view'[x][u].told, Quiet(x, u)
          PROVE  view'[x][u].status = lastPresence[u]
      <3>1. x # w  BY <2>2, <1>2, <1>3
      <3> QED  BY <3>1, <2>2, <1>3 DEF WordOK, OneCast, Heard
    <2>3. Heard'  BY <2>1a, <2>2, <1>1 DEF Heard
    <2> QED  BY <2>1b, <2>3 DEF WordOK
  <1> QED  BY <1>4, <1>5, <1>6

\* Every step keeps the invariant, which holds at the start.
LEMMA SocketsStep ==
    ASSUME SocketsInv, ChatSocketsAssumption, SocketsNext  PROVE SocketsInv'
  <1>1. ChatSocks \subseteq Socks  BY DEF Socks
  <1> QED  BY <1>1, ChatSocketSteps, DelayStep, DeliverStep, PresenceSteps, ListStep DEF SocketsNext

\* Nobody is connected at the start.
LEMMA SocketsStart ==
    ASSUME SocketsInit  PROVE SocketsInv
  <1>1. Silent.left = {} /\ Listed("offline") \in Word /\ ~Listed("offline").told
    BY DEF Silent, Listed, Word, Statuses
  <1>2. SocketTypes  BY <1>1 DEF SocketsInit, SocketTypes
  <1>3. ConnectedOK  BY DEF SocketsInit, ConnectedOK, Socks
  <1>4. WordOK  BY <1>1 DEF SocketsInit, WordOK, OneCast, Heard, CastsOf
  <1> QED  BY <1>2, <1>3, <1>4 DEF SocketsInv

\* What the module states of the last words follows.
LEMMA SocketsFacts ==
    ASSUME SocketsInv  PROVE SocketsTypeOK /\ LastWordUnlessOvertaken
  <1> USE DEF SocketsInv
  <1>1. \A c \in Casts : casting[c].left \subseteq PresenceSocks
    BY DEF SocketTypes, Cast, Silent
  <1>2. \A w \in PresenceSocks, u \in Owners : view[w][u].status \in Statuses
    BY DEF SocketTypes, Word
  <1>3. SocketsTypeOK  BY <1>1, <1>2 DEF SocketsTypeOK, SocketTypes, ConnectedOK
  <1>4. LastWordUnlessOvertaken
    BY DEF LastWordUnlessOvertaken, WordOK, OneCast, Heard, AtRest, Quiet, CastsOf
  <1> QED  BY <1>3, <1>4

\* Who is remembered as offline has just lost the last connection, or asked for it.
LEMMA OfflineReasons ==
    ASSUME SocketsInv, ChatSocketsAssumption, SocketsNext  PROVE OfflineHasReason
  <1> SUFFICES ASSUME NEW u \in Owners, lastPresence'[u] = "offline", lastPresence[u] # "offline"
               PROVE  \/ userConns'[u] = {}
                      \/ \E w \in PresenceSocks : OwnerOf[w] = u /\ StatusUpdate(w, "offline")
    BY DEF OfflineHasReason
  <1> USE DEF SocketsInv
  <1>0. lastPresence' # lastPresence  OBVIOUS
  <1>1. ASSUME NEW v \in Owners, NEW st, NEW by, NEW to, Announces(v, st, by, to)
        PROVE  v = u /\ st = "offline"
    <2>1. lastPresence' = [lastPresence EXCEPT ![v] = st]  BY <1>0, <1>1 DEF Announces, Remembered
    <2> QED  BY <2>1 DEF SocketTypes
  <1>2. \A s \in Socks : OwnerOf[s] \in Owners  BY DEF ChatSocketsAssumption, Socks
  <1>3. ASSUME NEW s \in ChatSocks, ChatConnect(s) \/ ChatOnline(s) \/ ChatDisconnect(s)  PROVE FALSE
    BY <1>0, <1>1, <1>2, <1>3 DEF ChatConnect, ChatOnline, ChatDisconnect, Socks
  <1>4. ASSUME NEW s \in Socks, HandlerDies(s)  PROVE FALSE
    BY <1>0, <1>4 DEF HandlerDies
  <1>5. ASSUME NEW v \in Owners, OfflineAfterDelay(v)  PROVE userConns'[u] = {}
    BY <1>0, <1>1, <1>5 DEF OfflineAfterDelay, StillGone
  <1>6. ASSUME NEW c \in Casts, NEW w \in PresenceSocks, Deliver(c, w)  PROVE FALSE
    BY <1>0, <1>6 DEF Deliver
  <1>7. ASSUME NEW w \in PresenceSocks, PresenceConnect(w) \/ PresenceList(w)  PROVE FALSE
    BY <1>0, <1>1, <1>2, <1>7 DEF PresenceConnect, PresenceList, Socks
  <1>8. ASSUME NEW w \in PresenceSocks, PresenceDisconnect(w)  PROVE userConns'[u] = {}
    <2>1. OwnerOf[w] \in Owners  BY <1>2 DEF Socks
    <2>2. userConns[OwnerOf[w]] = {w} /\ OwnerOf[w] = u
      BY <1>0, <1>1, <1>8, <2>1 DEF PresenceDisconnect
    <2>3. userConns' = [userConns EXCEPT ![u] = userConns[u] \ {w}]
      BY <1>8, <2>2 DEF PresenceDisconnect
    <2> QED  BY <2>2, <2>3 DEF SocketTypes
  <1>9. ASSUME NEW w \in PresenceSocks, NEW st \in Chosen, StatusUpdate(w, st)
        PROVE  OwnerOf[w] = u /\ StatusUpdate(w, "offline")
    BY <1>1, <1>2, <1>9 DEF StatusUpdate, Socks
  <1> QED  BY <1>3, <1>4, <1>5, <1>6, <1>7, <1>8, <1>9 DEF SocketsNext

\* So it always holds.
LEMMA SocketsAlways ==
    ASSUME ChatSocketsAssumption  PROVE SocketsSpec => []SocketsInv
  <1>1. SocketsInit => SocketsInv  BY SocketsStart
  <1>2. SocketsInv /\ UNCHANGED sockVars => SocketsInv'
    <2> SUFFICES ASSUME SocketsInv, UNCHANGED sockVars  PROVE SocketsInv'
      OBVIOUS
    <2>1. UNCHANGED <<sock, userConns, subscribers, offlineDue, lastPresence, casting, view,
                      overtaken>>
      BY DEF sockVars
    <2>2. \A u \in Owners : CastsOf(u)' = CastsOf(u)  BY <2>1 DEF CastsOf
    <2>3. \A w \in PresenceSocks, u \in Owners : Quiet(w, u)' = Quiet(w, u)
      BY <2>1, <2>2 DEF Quiet
    <2>4. SocketTypes' /\ ConnectedOK'  BY <2>1 DEF SocketsInv, SocketTypes, ConnectedOK
    <2>5. OneCast'  BY <2>1, <2>2 DEF SocketsInv, WordOK, OneCast
    <2>6. Heard'
      <3> SUFFICES ASSUME NEW w \in PresenceSocks, NEW v \in Owners \ overtaken,
                          sock[w] = "open", view[w][v].told, Quiet(w, v)
                   PROVE  view[w][v].status = lastPresence[v]
        BY <2>1, <2>3 DEF Heard
      <3> QED  BY DEF SocketsInv, WordOK, Heard
    <2> QED  BY <2>4, <2>5, <2>6 DEF SocketsInv, WordOK
  <1>3. SocketsInv /\ [SocketsNext]_sockVars => SocketsInv'  BY <1>2, SocketsStep
  <1> QED  BY <1>1, <1>3, PTL DEF SocketsSpec

-----------------------------------------------------------------------------
(* Realtime. *)

\* Where a socket is.
SocketState == [pc : {"new", "up", "closing", "gone"}] \cup [pc : {"auth"}, scope : Scopes]
               \cup [pc : {"joining"}, chat : Chats]

\* The types, with those of the sockets.
RealtimeTypes ==
    /\ socket \in [Sids -> SocketState]
    /\ teamOf \in [Users -> Scopes] /\ userTeam \in [Users -> Scopes \cup {None}]
    /\ teamPresence \in [Scopes -> [Users -> SUBSET Sids]]
    /\ typingIn \in [Chats -> SUBSET Users] /\ typist \in [Users -> SUBSET Chats]

\* The two indexes of the typing agree, and whoever types has a socket.
TypingOK ==
    /\ \A c \in Chats, u \in Users : u \in typingIn[c] <=> c \in typist[u]
    /\ \A c \in Chats : \A u \in typingIn[c] : \E s \in Sids : UserOf[s] = u /\ Live(s)

\* Present are sockets of the user, the live ones among them.
PresentOK ==
    /\ \A sc \in Scopes, u \in Users : \A s \in teamPresence[sc][u] : UserOf[s] = u
    /\ \A s \in Sids : Live(s) => \E sc \in Scopes : s \in teamPresence[sc][UserOf[s]]

\* As long as a user has no team, there is the one scope.
OneScope(u) ==
    /\ \A s \in Sids : UserOf[s] = u /\ socket[s].pc = "auth" => socket[s].scope = "global"
    /\ \A sc \in Scopes : sc # "global" => teamPresence[sc][u] = {}
    /\ userTeam[u] = IF teamPresence["global"][u] = {} THEN None ELSE "global"
    /\ \A s \in teamPresence["global"][u] : socket[s].pc # "gone"
ScopesOK == \A u \in Users : teamOf[u] = "global" => OneScope(u)

\* The types, the typing, the presence and the scopes.
RealtimeInv == RealtimeTypes /\ TypingOK /\ PresentOK /\ ScopesOK

\* Handshakes and rooms.
LEMMA SocketSteps ==
    ASSUME RealtimeInv, RealtimeAssumption, NEW s \in Sids,
           \/ Authenticate(s) \/ JoinDone(s) \/ \E c \in Chats : JoinAsked(s, c)
    PROVE  RealtimeInv'
  <1> USE DEF RealtimeInv
  <1>1. PICK b \in SocketState :
           /\ socket' = [socket EXCEPT ![s] = b]
           /\ UNCHANGED <<teamOf, teamPresence, userTeam, typingIn, typist>>
           /\ b.pc \notin {"gone", "new", "closing"} /\ socket[s].pc # "gone"
           /\ b.pc \in {"up", "joining"} <=> Live(s)
           /\ b.pc = "auth" => b.scope = teamOf[UserOf[s]]
    <2>1. CASE Authenticate(s)
      <3> DEFINE b == [pc |-> "auth", scope |-> teamOf[UserOf[s]]]
      <3>1. b \in SocketState /\ b.pc = "auth" /\ b.scope = teamOf[UserOf[s]]
        BY DEF SocketState, RealtimeTypes, RealtimeAssumption
      <3>2. socket' = [socket EXCEPT ![s] = b] /\ socket[s].pc = "new"
            /\ UNCHANGED <<teamOf, teamPresence, userTeam, typingIn, typist>>
        BY <2>1 DEF Authenticate, Now
      <3> HIDE DEF b
      <3> QED  BY <3>1, <3>2 DEF Live
    <2>2. CASE JoinDone(s)
      <3> DEFINE b == [pc |-> "up"]
      <3>1. b \in SocketState /\ b.pc = "up"  BY DEF SocketState
      <3>2. socket' = [socket EXCEPT ![s] = b] /\ socket[s].pc = "joining"
            /\ UNCHANGED <<teamOf, teamPresence, userTeam, typingIn, typist>>
        BY <2>2 DEF JoinDone, Now
      <3> HIDE DEF b
      <3> QED  BY <3>1, <3>2 DEF Live
    <2>3. ASSUME NEW c \in Chats, JoinAsked(s, c)
          PROVE  \E b \in SocketState :
                     /\ socket' = [socket EXCEPT ![s] = b]
                     /\ UNCHANGED <<teamOf, teamPresence, userTeam, typingIn, typist>>
                     /\ b.pc \notin {"gone", "new", "closing"} /\ socket[s].pc # "gone"
                     /\ b.pc \in {"up", "joining"} <=> Live(s)
                     /\ b.pc = "auth" => b.scope = teamOf[UserOf[s]]
      <3> DEFINE b == [pc |-> "joining", chat |-> c]
      <3>1. b \in SocketState /\ b.pc = "joining"  BY DEF SocketState
      <3>2. socket' = [socket EXCEPT ![s] = b] /\ socket[s].pc = "up"
            /\ UNCHANGED <<teamOf, teamPresence, userTeam, typingIn, typist>>
        BY <2>3 DEF JoinAsked, Now
      <3> HIDE DEF b
      <3> QED  BY <3>1, <3>2 DEF Live
    <2> QED  BY <2>1, <2>2, <2>3
  <1>2. /\ socket' \in [Sids -> SocketState] /\ socket'[s] = b
        /\ \A q \in Sids : q # s => socket'[q] = socket[q]
    BY <1>1 DEF RealtimeTypes
  <1>3. \A q \in Sids : Live(q)' <=> Live(q)  BY <1>1, <1>2 DEF Live
  <1>4. RealtimeTypes'  BY <1>1, <1>2 DEF RealtimeTypes
  <1>5. TypingOK'  BY <1>1, <1>3 DEF TypingOK
  <1>6. PresentOK'  BY <1>1, <1>3 DEF PresentOK
  <1>7. ScopesOK'
    <2> SUFFICES ASSUME NEW u \in Users, teamOf[u] = "global"  PROVE OneScope(u)'
      BY <1>1 DEF ScopesOK
    <2>1. OneScope(u)  BY DEF ScopesOK
    <2>2. \A q \in teamPresence["global"][u] : q \in Sids  BY DEF RealtimeTypes, Scopes
    <2>3. \A q \in Sids : UserOf[q] = u /\ socket'[q].pc = "auth" => socket'[q].scope = "global"
      BY <2>1, <1>1, <1>2 DEF OneScope
    <2>4. \A q \in teamPresence["global"][u] : socket'[q].pc # "gone"
      BY <2>1, <2>2, <1>1, <1>2 DEF OneScope
    <2> QED  BY <2>1, <2>3, <2>4, <1>1 DEF OneScope
  <1> QED  BY <1>4, <1>5, <1>6, <1>7

\* The socket is up, present, and in the rooms of its user.
LEMMA ConnectStep ==
    ASSUME RealtimeInv, RealtimeAssumption, NEW s \in Sids, Connect(s)
    PROVE  RealtimeInv'
  <1> USE DEF RealtimeInv
  <1> DEFINE sc == socket[s].scope
             u  == UserOf[s]
             b  == [pc |-> "up"]
  <1>1. u \in Users /\ sc \in Scopes /\ socket[s].pc = "auth"
    BY DEF RealtimeTypes, SocketState, RealtimeAssumption, Connect
  <1>2. /\ teamPresence' = [teamPresence EXCEPT ![sc][u] = teamPresence[sc][u] \cup {s}]
        /\ userTeam' = [userTeam EXCEPT ![u] = sc]
        /\ socket' = [socket EXCEPT ![s] = b]
        /\ UNCHANGED <<teamOf, typingIn, typist>>
    BY DEF Connect, WithSocket, Now
  <1>3. b \in SocketState /\ b.pc = "up"  BY DEF SocketState
  <1> HIDE DEF b, sc, u
  <1>4. /\ socket' \in [Sids -> SocketState] /\ socket'[s].pc = "up"
        /\ \A q \in Sids : q # s => socket'[q] = socket[q]
    BY <1>2, <1>3 DEF RealtimeTypes
  <1>5. /\ teamPresence' \in [Scopes -> [Users -> SUBSET Sids]]
        /\ \A c \in Scopes, v \in Users :
               teamPresence'[c][v] = IF c = sc /\ v = u THEN teamPresence[sc][u] \cup {s}
                                     ELSE teamPresence[c][v]
    BY <1>1, <1>2 DEF RealtimeTypes
  <1>6. RealtimeTypes'  BY <1>1, <1>2, <1>4, <1>5 DEF RealtimeTypes
  <1>7. \A q \in Sids : Live(q)' <=> Live(q) \/ q = s  BY <1>4 DEF Live
  <1>8. TypingOK'  BY <1>2, <1>7 DEF TypingOK
  <1>9. PresentOK'
    <2>1. \A c \in Scopes, v \in Users : \A q \in teamPresence'[c][v] : UserOf[q] = v
      BY <1>5 DEF PresentOK, u
    <2>2. ASSUME NEW q \in Sids, Live(q)'
          PROVE  \E c \in Scopes : q \in teamPresence'[c][UserOf[q]]
      <3>1. CASE q = s  BY <3>1, <1>1, <1>5 DEF u
      <3>2. CASE q # s
        <4>1. PICK c \in Scopes : q \in teamPresence[c][UserOf[q]]  BY <3>2, <2>2, <1>7 DEF PresentOK
        <4>2. UserOf[q] \in Users  BY DEF RealtimeAssumption
        <4>3. q \in teamPresence'[c][UserOf[q]]  BY <4>1, <4>2, <1>5
        <4> QED  BY <4>3
      <3> QED  BY <3>1, <3>2
    <2> QED  BY <2>1, <2>2 DEF PresentOK
  <1>10. ScopesOK'
    <2> SUFFICES ASSUME NEW v \in Users, teamOf[v] = "global"  PROVE OneScope(v)'
      BY <1>2 DEF ScopesOK
    <2>1. OneScope(v)  BY DEF ScopesOK
    <2>2. "global" \in Scopes /\ \A q \in teamPresence["global"][v] : q \in Sids
      BY DEF RealtimeTypes, Scopes
    <2>3. \A q \in Sids : UserOf[q] = v /\ socket'[q].pc = "auth" => socket'[q].scope = "global"
      BY <2>1, <1>4 DEF OneScope
    <2>4. CASE v = u
      <3>1. sc = "global"  BY <2>1, <2>4, <1>1 DEF OneScope, u, sc
      <3>2. userTeam'[u] = "global" /\ teamPresence'["global"][u] # {}
        <4>1. userTeam'[u] = sc  BY <1>1, <1>2 DEF RealtimeTypes
        <4>2. s \in teamPresence'[sc][u]  BY <1>1, <1>5
        <4> QED  BY <4>1, <4>2, <3>1
      <3>3. \A q \in teamPresence'["global"][u] : socket'[q].pc # "gone"
        BY <3>1, <2>1, <2>2, <2>4, <1>1, <1>4, <1>5 DEF OneScope
      <3>4. \A c \in Scopes : c # "global" => teamPresence'[c][u] = {}
        BY <3>1, <2>1, <2>4, <1>1, <1>5 DEF OneScope
      <3> QED  BY <3>2, <3>3, <3>4, <2>3, <2>4 DEF OneScope
    <2>5. CASE v # u
      <3>1. userTeam'[v] = userTeam[v] /\ \A c \in Scopes : teamPresence'[c][v] = teamPresence[c][v]
        BY <2>5, <1>1, <1>2, <1>5 DEF RealtimeTypes
      <3>2. \A q \in teamPresence["global"][v] : socket'[q].pc # "gone"
        BY <2>1, <2>2, <1>4 DEF OneScope
      <3> QED  BY <3>1, <3>2, <2>1, <2>2, <2>3 DEF OneScope
    <2> QED  BY <2>4, <2>5
  <1> QED  BY <1>6, <1>8, <1>9, <1>10

\* Typing starts and stops in both indexes.
LEMMA TypingStep ==
    ASSUME RealtimeInv, RealtimeAssumption, NEW s \in Sids, NEW c \in Chats,
           StartTyping(s, c) \/ StopTyping(s, c)
    PROVE  RealtimeInv'
  <1> USE DEF RealtimeInv
  <1> DEFINE u == UserOf[s]
  <1>1. /\ u \in Users /\ Live(s) /\ UNCHANGED <<socket, teamOf, teamPresence, userTeam>>
        /\ typingIn \in [Chats -> SUBSET Users] /\ typist \in [Users -> SUBSET Chats]
    BY DEF RealtimeTypes, RealtimeAssumption, StartTyping, StopTyping
  <1>2. /\ typingIn' \in [Chats -> SUBSET Users] /\ typist' \in [Users -> SUBSET Chats]
        /\ \A d \in Chats : \A v \in typingIn'[d] : v = u \/ v \in typingIn[d]
        /\ \A d \in Chats, v \in Users : v \in typingIn'[d] <=> d \in typist'[v]
    <2>1. CASE StopTyping(s, c)
      <3>1. /\ typingIn' = [typingIn EXCEPT ![c] = typingIn[c] \ {u}]
            /\ typist' = [typist EXCEPT ![u] = typist[u] \ {c}]
        BY <2>1 DEF StopTyping, Stopped
      <3>2. /\ \A d \in Chats : typingIn'[d] = IF d = c THEN typingIn[c] \ {u} ELSE typingIn[d]
            /\ \A v \in Users : typist'[v] = IF v = u THEN typist[u] \ {c} ELSE typist[v]
        BY <3>1, <1>1
      <3>3. typingIn' \in [Chats -> SUBSET Users] /\ typist' \in [Users -> SUBSET Chats]
        BY <3>1, <1>1
      <3> HIDE DEF u
      <3> QED  BY <3>2, <3>3 DEF TypingOK
    <2>2. CASE StartTyping(s, c)
      <3>1. PICK expired \in SUBSET typingIn[c] :
              /\ typingIn' = [typingIn EXCEPT ![c] = (typingIn[c] \ expired) \cup {u}]
              /\ typist' = [v \in Users |-> IF v = u THEN typist[v] \cup {c}
                                            ELSE IF v \in expired THEN typist[v] \ {c}
                                            ELSE typist[v]]
        BY <2>2 DEF StartTyping
      <3>2. /\ \A d \in Chats : typingIn'[d] = IF d = c THEN (typingIn[c] \ expired) \cup {u}
                                              ELSE typingIn[d]
            /\ \A v \in Users : typist'[v] = IF v = u THEN typist[v] \cup {c}
                                            ELSE IF v \in expired THEN typist[v] \ {c}
                                            ELSE typist[v]
        BY <3>1, <1>1
      <3>3. typingIn' \in [Chats -> SUBSET Users] /\ typist' \in [Users -> SUBSET Chats]
        BY <3>1, <1>1
      <3> HIDE DEF u
      <3> QED  BY <3>2, <3>3, <1>1 DEF TypingOK
    <2> QED  BY <2>1, <2>2
  <1>5. RealtimeTypes'  BY <1>1, <1>2 DEF RealtimeTypes
  <1>6. TypingOK'
    <2>1. \A q \in Sids : Live(q)' <=> Live(q)  BY <1>1 DEF Live
    <2>2. \A d \in Chats : \A v \in typingIn'[d] : \E q \in Sids : UserOf[q] = v /\ Live(q)
      BY <1>1, <1>2 DEF TypingOK
    <2> QED  BY <2>1, <2>2, <1>2 DEF TypingOK
  <1>7. PresentOK' /\ ScopesOK'
    BY <1>1 DEF PresentOK, ScopesOK, OneScope, Live
  <1> QED  BY <1>5, <1>6, <1>7

\* A disconnect clears the typing of its user.
LEMMA DisconnectStep ==
    ASSUME RealtimeInv, RealtimeAssumption, NEW s \in Sids, Disconnect(s)
    PROVE  RealtimeInv'
  <1> USE DEF RealtimeInv
  <1> DEFINE u == UserOf[s]
             b == [pc |-> "closing"]
  <1>1. /\ u \in Users /\ Live(s) /\ UNCHANGED <<teamOf, teamPresence, userTeam>>
        /\ typingIn \in [Chats -> SUBSET Users] /\ typist \in [Users -> SUBSET Chats]
    BY DEF RealtimeTypes, RealtimeAssumption, Disconnect
  <1>2. /\ socket' = [socket EXCEPT ![s] = b]
        /\ typingIn' = [c \in Chats |-> IF c \in typist[u] THEN typingIn[c] \ {u} ELSE typingIn[c]]
        /\ typist' = [typist EXCEPT ![u] = typist[u] \ typist[u]]
    BY DEF Disconnect, StopsOnDisconnect, Now
  <1>3. b \in SocketState /\ b.pc = "closing"  BY DEF SocketState
  <1> HIDE DEF b
  <1>4. /\ socket' \in [Sids -> SocketState] /\ socket'[s].pc = "closing"
        /\ \A q \in Sids : q # s => socket'[q] = socket[q]
    BY <1>2, <1>3 DEF RealtimeTypes
  <1>5. RealtimeTypes'  BY <1>1, <1>2, <1>4 DEF RealtimeTypes
  <1>6. \A q \in Sids : Live(q)' <=> Live(q) /\ q # s  BY <1>4 DEF Live
  <1>7. TypingOK'
    <2>1. \A c \in Chats : typingIn'[c] = typingIn[c] \ {u}
      BY <1>1, <1>2 DEF TypingOK
    <2>2. \A v \in Users : typist'[v] = IF v = u THEN {} ELSE typist[v]
      BY <1>1, <1>2
    <2>3. \A c \in Chats, v \in Users : v \in typingIn'[c] <=> c \in typist'[v]
      BY <2>1, <2>2 DEF TypingOK
    <2>4. ASSUME NEW c \in Chats, NEW v \in typingIn'[c]
          PROVE  \E q \in Sids : UserOf[q] = v /\ Live(q)'
      <3>1. v \in typingIn[c] /\ v # u  BY <2>1
      <3>2. PICK q \in Sids : UserOf[q] = v /\ Live(q)  BY <3>1 DEF TypingOK
      <3> QED  BY <3>1, <3>2, <1>6
    <2> QED  BY <2>3, <2>4 DEF TypingOK
  <1>8. PresentOK'  BY <1>1, <1>6 DEF PresentOK
  <1>9. ScopesOK'
    <2> SUFFICES ASSUME NEW v \in Users, teamOf[v] = "global"  PROVE OneScope(v)'
      BY <1>1 DEF ScopesOK
    <2>1. OneScope(v)  BY DEF ScopesOK
    <2>2. \A q \in teamPresence["global"][v] : q \in Sids  BY DEF RealtimeTypes, Scopes
    <2>3. \A q \in Sids : UserOf[q] = v /\ socket'[q].pc = "auth" => socket'[q].scope = "global"
      BY <2>1, <1>4 DEF OneScope
    <2>4. \A q \in teamPresence["global"][v] : socket'[q].pc # "gone"
      BY <2>1, <2>2, <1>4 DEF OneScope
    <2> QED  BY <2>1, <2>3, <2>4, <1>1 DEF OneScope
  <1> QED  BY <1>5, <1>7, <1>8, <1>9

\* The presence goes with the socket, in the scope that the user has by then.
LEMMA PresenceGoneStep ==
    ASSUME RealtimeInv, RealtimeAssumption, NEW s \in Sids, PresenceGone(s)
    PROVE  RealtimeInv'
  <1> USE DEF RealtimeInv
  <1> DEFINE u == UserOf[s]
             sc == userTeam[u]
             rest == teamPresence[sc][u] \ {s}
             b == [pc |-> "gone"]
  <1>1. /\ u \in Users /\ socket[s].pc = "closing" /\ UNCHANGED <<teamOf, typingIn, typist>>
        /\ socket' = [socket EXCEPT ![s] = b] /\ sc \in Scopes \cup {None}
    BY DEF RealtimeTypes, RealtimeAssumption, PresenceGone, Now
  <1>2. \/ (sc = None \/ teamPresence[sc][u] = {}) /\ UNCHANGED <<teamPresence, userTeam>>
        \/ /\ sc # None /\ teamPresence[sc][u] # {}
           /\ teamPresence' = [teamPresence EXCEPT ![sc][u] = rest]
           /\ userTeam' = [userTeam EXCEPT ![u] = IF rest = {} THEN None ELSE sc]
    BY DEF PresenceGone, EntryAfter
  <1>3. b \in SocketState /\ b.pc = "gone"  BY DEF SocketState
  <1> HIDE DEF b, u, sc
  <1>4. /\ socket' \in [Sids -> SocketState] /\ socket'[s].pc = "gone"
        /\ \A q \in Sids : q # s => socket'[q] = socket[q]
    BY <1>1, <1>3 DEF RealtimeTypes
  <1>5. \A q \in Sids : (Live(q)' <=> Live(q)) /\ ~Live(s)  BY <1>1, <1>4 DEF Live
  <1>6. /\ teamPresence' \in [Scopes -> [Users -> SUBSET Sids]]
        /\ userTeam' \in [Users -> Scopes \cup {None}]
        /\ \A c \in Scopes, v \in Users :
               /\ teamPresence'[c][v] \subseteq teamPresence[c][v]
               /\ teamPresence[c][v] \subseteq teamPresence'[c][v] \cup {s}
               /\ v # u => teamPresence'[c][v] = teamPresence[c][v] /\ userTeam'[v] = userTeam[v]
    <2>1. CASE UNCHANGED <<teamPresence, userTeam>>  BY <2>1 DEF RealtimeTypes
    <2>2. CASE /\ sc # None
               /\ teamPresence' = [teamPresence EXCEPT ![sc][u] = rest]
               /\ userTeam' = [userTeam EXCEPT ![u] = IF rest = {} THEN None ELSE sc]
      <3>1. sc \in Scopes  BY <2>2, <1>1
      <3>2. rest \subseteq Sids  BY <3>1, <1>1 DEF RealtimeTypes
      <3>3. \A c \in Scopes, v \in Users :
              teamPresence'[c][v] = IF c = sc /\ v = u THEN rest ELSE teamPresence[c][v]
        BY <2>2, <3>1, <1>1 DEF RealtimeTypes
      <3>4. teamPresence' \in [Scopes -> [Users -> SUBSET Sids]]
        BY <2>2, <3>1, <3>2, <1>1 DEF RealtimeTypes
      <3>5. userTeam' \in [Users -> Scopes \cup {None}] /\ \A v \in Users : v # u => userTeam'[v] = userTeam[v]
        BY <2>2, <3>1, <1>1 DEF RealtimeTypes
      <3> QED  BY <3>3, <3>4, <3>5
    <2> QED  BY <1>2, <2>1, <2>2
  <1>7. RealtimeTypes'  BY <1>1, <1>4, <1>6 DEF RealtimeTypes
  <1>8. TypingOK'  BY <1>1, <1>5 DEF TypingOK
  <1>9. PresentOK'
    <2>1. \A c \in Scopes, v \in Users : \A q \in teamPresence'[c][v] : UserOf[q] = v
      BY <1>6 DEF PresentOK
    <2>2. ASSUME NEW q \in Sids, Live(q)'
          PROVE  \E c \in Scopes : q \in teamPresence'[c][UserOf[q]]
      <3>1. Live(q) /\ q # s /\ UserOf[q] \in Users  BY <2>2, <1>5 DEF RealtimeAssumption
      <3>2. PICK c \in Scopes : q \in teamPresence[c][UserOf[q]]  BY <3>1 DEF PresentOK
      <3> QED  BY <3>1, <3>2, <1>6
    <2> QED  BY <2>1, <2>2 DEF PresentOK
  <1>10. ScopesOK'
    <2> SUFFICES ASSUME NEW v \in Users, teamOf[v] = "global"  PROVE OneScope(v)'
      BY <1>1 DEF ScopesOK
    <2>1. OneScope(v)  BY DEF ScopesOK
    <2>2. "global" \in Scopes /\ \A q \in teamPresence["global"][v] : q \in Sids
      BY DEF RealtimeTypes, Scopes
    <2>3. \A q \in Sids : UserOf[q] = v /\ socket'[q].pc = "auth" => socket'[q].scope = "global"
      BY <2>1, <1>4 DEF OneScope
    <2>4. \A c \in Scopes : c # "global" => teamPresence'[c][v] = {}
      BY <2>1, <1>6 DEF OneScope
    <2>5. /\ s \notin teamPresence'["global"][v]
          /\ userTeam'[v] = IF teamPresence'["global"][v] = {} THEN None ELSE "global"
      <3>1. CASE v # u
        <4>1. s \notin teamPresence["global"][v]  BY <3>1, <2>2 DEF PresentOK, u
        <4> QED  BY <4>1, <3>1, <2>1, <2>2, <1>6 DEF OneScope
      <3>2. CASE v = u
        <4>1. sc = IF teamPresence["global"][u] = {} THEN None ELSE "global"
          BY <3>2, <2>1 DEF OneScope, sc
        <4>2. CASE teamPresence["global"][u] = {}
          <5>1. UNCHANGED <<teamPresence, userTeam>>  BY <4>1, <4>2, <1>2
          <5> QED  BY <5>1, <4>1, <4>2, <3>2 DEF sc
        <4>3. CASE teamPresence["global"][u] # {}
          <5>1. sc = "global" /\ sc # None  BY <4>1, <4>3 DEF None
          <5>2. /\ teamPresence' = [teamPresence EXCEPT ![sc][u] = rest]
                /\ userTeam' = [userTeam EXCEPT ![u] = IF rest = {} THEN None ELSE sc]
            BY <5>1, <4>3, <1>2
          <5>3. teamPresence'["global"][u] = rest
                /\ userTeam'[u] = IF rest = {} THEN None ELSE "global"
            BY <5>1, <5>2, <2>2, <1>1 DEF RealtimeTypes
          <5> QED  BY <5>3, <3>2
        <4> QED  BY <4>2, <4>3
      <3> QED  BY <3>1, <3>2
    <2>6. \A q \in teamPresence'["global"][v] : socket'[q].pc # "gone"
      BY <2>1, <2>2, <2>5, <1>4, <1>6 DEF OneScope
    <2> QED  BY <2>3, <2>4, <2>5, <2>6 DEF OneScope
  <1> QED  BY <1>7, <1>8, <1>9, <1>10

\* Every step keeps the invariant, which holds at the start.
LEMMA RealtimeStep ==
    ASSUME RealtimeInv, RealtimeAssumption, RealtimeNext  PROVE RealtimeInv'
  <1>1. ASSUME NEW s \in Sids, Authenticate(s) \/ JoinDone(s) \/ \E c \in Chats : JoinAsked(s, c)
        PROVE  RealtimeInv'
    BY <1>1, SocketSteps
  <1>2. ASSUME NEW s \in Sids, Connect(s) \/ Disconnect(s) \/ PresenceGone(s)
        PROVE  RealtimeInv'
    BY <1>2, ConnectStep, DisconnectStep, PresenceGoneStep
  <1>3. ASSUME NEW s \in Sids, NEW c \in Chats, StartTyping(s, c) \/ StopTyping(s, c)
        PROVE  RealtimeInv'
    BY <1>3, TypingStep
  <1>4. ASSUME NEW s \in Roamers,
               \/ \E c \in Chats : LeaveRoom(s, c)
               \/ \E c \in Directs : JoinRoom(s, RoomOf(c))
        PROVE  RealtimeInv'
    <2>1. UNCHANGED <<socket, teamOf, teamPresence, userTeam, typingIn, typist>>
      BY <1>4 DEF LeaveRoom, JoinRoom
    <2> QED  BY <2>1 DEF RealtimeInv, RealtimeTypes, TypingOK, PresentOK, ScopesOK, OneScope, Live
  <1>5. ASSUME NEW u \in Users, NEW t \in Teams, JoinTeam(u, t)
        PROVE  RealtimeInv'
    <2>1. /\ teamOf' = [teamOf EXCEPT ![u] = t] /\ teamOf[u] = "global" /\ t \in Scopes
          /\ UNCHANGED <<socket, teamPresence, userTeam, typingIn, typist>>
      BY <1>5 DEF JoinTeam, Scopes
    <2>2. teamOf' \in [Users -> Scopes] /\ \A v \in Users : teamOf'[v] = "global" => teamOf[v] = "global"
      BY <2>1 DEF RealtimeInv, RealtimeTypes
    <2> QED  BY <2>1, <2>2
        DEF RealtimeInv, RealtimeTypes, TypingOK, PresentOK, ScopesOK, OneScope, Live
  <1>6. \A s \in Roamers : s \in Sids  BY DEF RealtimeAssumption
  <1> QED  BY <1>1, <1>2, <1>3, <1>4, <1>5, <1>6 DEF RealtimeNext

\* Nobody is there at the start.
LEMMA RealtimeStart ==
    ASSUME RealtimeInit, RealtimeAssumption  PROVE RealtimeInv
  <1>1. Fresh \in SocketState /\ Fresh.pc = "new" /\ "global" \in Scopes
    BY DEF Fresh, SocketState, Scopes
  <1>2. RealtimeTypes  BY <1>1 DEF RealtimeInit, RealtimeTypes
  <1>3. \A s \in Sids : socket[s].pc = "new"  BY <1>1 DEF RealtimeInit
  <1> QED  BY <1>1, <1>2, <1>3
      DEF RealtimeInit, RealtimeInv, TypingOK, PresentOK, ScopesOK, OneScope, Live

\* What the module states of typing and presence follows.
LEMMA RealtimeFacts ==
    ASSUME RealtimeInv, RealtimeAssumption  PROVE RealtimeTypeOK /\ SocketsTracked
  <1> USE DEF RealtimeInv
  <1>1. \A s \in Sids : socket[s].pc \in {"new", "auth", "up", "joining", "closing", "gone"}
    BY DEF RealtimeTypes, SocketState
  <1>2. RealtimeTypeOK
    <2>1. \A sc \in Scopes, u \in Users : teamPresence[sc][u] \subseteq {s \in Sids : UserOf[s] = u}
      BY DEF RealtimeTypes, PresentOK
    <2> QED  BY <1>1, <2>1 DEF RealtimeTypeOK, RealtimeTypes, TypingOK
  <1>3. TypingNeedsSocket
    BY DEF TypingNeedsSocket, TypingOK, LiveOf
  <1>4. PresenceTracksSockets
    <2> SUFFICES ASSUME NEW sc \in Scopes, NEW u \in Users, NEW s \in teamPresence[sc][u],
                        socket[s].pc = "gone", teamOf[u] = "global"
                 PROVE  FALSE
      BY DEF PresenceTracksSockets, PresentOK
    <2>1. OneScope(u)  BY DEF ScopesOK
    <2> QED  BY <2>1 DEF OneScope
  <1> QED  BY <1>2, <1>3, <1>4 DEF SocketsTracked

\* So it always holds.
LEMMA RealtimeAlways ==
    ASSUME RealtimeAssumption  PROVE RealtimeSpec => []RealtimeInv
  <1>1. RealtimeInit => RealtimeInv  BY RealtimeStart
  <1>2. RealtimeInv /\ UNCHANGED rtVars => RealtimeInv'
    BY DEF rtVars, RealtimeInv, RealtimeTypes, TypingOK, PresentOK, ScopesOK, OneScope, Live
  <1>3. RealtimeInv /\ [RealtimeNext]_rtVars => RealtimeInv'  BY <1>2, RealtimeStep
  <1> QED  BY <1>1, <1>3, PTL DEF RealtimeSpec

-----------------------------------------------------------------------------
(* The theorems. *)

\* However posts, edits and reactions overlap: thread_count falls behind the replies that
\* there are only where one was begun before another that it did not see was committed.
THEOREM CountsLoseOverlaps == ThreadsSpec => []ThreadCountLosesOverlaps
  BY ThreadsAssumption, ThreadsAlways, ThreadsFacts, PTL

\* A reader who follows the cursor to the end has seen every top-level message that nobody
\* touched meanwhile, unless a page had one that a late commit had set back.
THEOREM PagesAreComplete == ThreadsSpec => []PagesShowAll
  BY ThreadsAssumption, ThreadsAlways, ThreadsFacts, PTL

\* A second row for a member, a message swallowed by a mark, a pointer that goes back: each
\* comes from requests that overlap.
THEOREM ReadStateIsExplained == ChannelsSpec => ReadStateExplained
  <1>1. ChannelsInv /\ [ChannelsNext]_channelVars => [BackByStaleRead]_channelVars
    BY ChannelsAssumption, PointerSteps
  <1> QED
    BY <1>1, ChannelsAssumption, ChannelsAlways, ChannelsFacts, PTL
    DEF ChannelsSpec, ReadStateExplained, PointerBackOnlyByStaleRead

\* Once nothing about a user is under way to a socket, what the socket was told last is what
\* the server remembers, unless one broadcast overtook another.
THEOREM LastWordIsKept == SocketsSpec => []LastWordUnlessOvertaken
  BY ChatSocketsAssumption, SocketsAlways, SocketsFacts, PTL

\* The server turns to "offline" for a user who has no connection left, or who chose it: a
\* connection within the delay keeps it from doing so.
THEOREM OfflineIsEarned == SocketsSpec => OfflineOnlyWithoutConnection
  <1>1. SocketsInv /\ [SocketsNext]_sockVars => [OfflineHasReason]_sockVars
    BY ChatSocketsAssumption, OfflineReasons
  <1> QED
    BY <1>1, ChatSocketsAssumption, SocketsAlways, PTL
    DEF SocketsSpec, OfflineOnlyWithoutConnection

\* Whoever is typing has a live socket, and a present socket of a user without a team is not
\* gone.
THEOREM SocketsAreTracked == RealtimeSpec => []SocketsTracked
  BY RealtimeAssumption, RealtimeAlways, RealtimeFacts, PTL

\* The four side by side: each behaves as it does alone, and has its types.
THEOREM ChatTypeCorrect == ChatSpec => []ChatTypeOK
  <1>1. ChatSpec => ThreadsSpec
    <2>1. ChatInit => ThreadsInit  BY DEF ChatInit
    <2>2. [ChatNext]_ChatVars => [ThreadsNext]_threadVars  BY DEF ChatNext, ChatVars
    <2> QED  BY <2>1, <2>2, PTL DEF ChatSpec, ThreadsSpec
  <1>2. ChatSpec => ChannelsSpec
    <2>1. ChatInit => ChannelsInit  BY DEF ChatInit
    <2>2. [ChatNext]_ChatVars => [ChannelsNext]_channelVars  BY DEF ChatNext, ChatVars
    <2> QED  BY <2>1, <2>2, PTL DEF ChatSpec, ChannelsSpec
  <1>3. ChatSpec => SocketsSpec
    <2>1. ChatInit => SocketsInit  BY DEF ChatInit
    <2>2. [ChatNext]_ChatVars => [SocketsNext]_sockVars  BY DEF ChatNext, ChatVars
    <2> QED  BY <2>1, <2>2, PTL DEF ChatSpec, SocketsSpec
  <1>4. ChatSpec => RealtimeSpec
    <2>1. ChatInit => RealtimeInit  BY DEF ChatInit
    <2>2. [ChatNext]_ChatVars => [RealtimeNext]_rtVars  BY DEF ChatNext, ChatVars
    <2> QED  BY <2>1, <2>2, PTL DEF ChatSpec, RealtimeSpec
  <1>5. ChatSpec => [](focus \in {"threads", "channels", "sockets", "realtime"})
    <2> DEFINE Focused == focus \in {"threads", "channels", "sockets", "realtime"}
    <2>1. ChatInit => Focused  BY DEF ChatInit
    <2>2. Focused /\ [ChatNext]_ChatVars => Focused'  BY DEF ChatNext, ChatVars
    <2> QED  BY <2>1, <2>2, PTL DEF ChatSpec
  <1>6. ThreadsInv => ThreadsTypeOK  BY ThreadsAssumption, ThreadsFacts
  <1>7. ChannelsInv => ChannelsTypeOK  BY ChannelsAssumption, ChannelsFacts
  <1>8. SocketsInv => SocketsTypeOK  BY ChatSocketsAssumption, SocketsFacts
  <1>9. RealtimeInv => RealtimeTypeOK  BY RealtimeAssumption, RealtimeFacts
  <1>10. /\ focus \in {"threads", "channels", "sockets", "realtime"}
         /\ ThreadsTypeOK /\ ChannelsTypeOK /\ SocketsTypeOK /\ RealtimeTypeOK
         => ChatTypeOK
    BY DEF ChatTypeOK
  <1>11. ChatSpec => /\ []ThreadsInv /\ []ChannelsInv /\ []SocketsInv /\ []RealtimeInv
    BY <1>1, <1>2, <1>3, <1>4, ThreadsAssumption, ChannelsAssumption, ChatSocketsAssumption,
       RealtimeAssumption, ThreadsAlways, ChannelsAlways, SocketsAlways, RealtimeAlways, PTL
  <1> QED
    BY <1>5, <1>6, <1>7, <1>8, <1>9, <1>10, <1>11, PTL
=============================================================================
