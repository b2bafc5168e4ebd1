------------------------------ MODULE RateLimiter ----------------------------
(***************************************************************************)
(* The rate limiter (core/rate_limiter.py with the tiers of                *)
(* core/rate_limit_config.py, called by RateLimitMiddleware of             *)
(* core/middleware.py) with its in-memory store: a counter and the start   *)
(* of a window for every key, in one process, under a lock.                *)
(***************************************************************************)
EXTENDS Integers, FiniteSets, Sequences, Functions

CONSTANTS
    Users, Addresses,   \* who sends requests: by a valid token, or by address
    Whitelist,          \* WHITELIST_IPS
    Paths,              \* requested paths: [segment, words]
    Scale,              \* bound: so many requests of the code are one of the model
    Second,             \* ticks of the clock in a second
    Window,             \* window_seconds, the same for every tier
    Interval,           \* CLEANUP_INTERVAL, in seconds
    MaxTime             \* bound on the clock

ASSUME RateLimiterAssumption ==
    /\ Scale \in Nat \ {0} /\ Second \in Nat \ {0} /\ Window \in Nat \ {0}
    \* A window is over when it is cleaned up: CLEANUP_INTERVAL is 300, every window_seconds 60.
    /\ Interval \in Nat /\ Interval >= Window /\ MaxTime \in Nat /\ Whitelist \subseteq Addresses

VARIABLES
    windows,    \* windows[k]: count and window_start of a key that has an entry
    now,        \* time.time()
    served,     \* history: served[k][t]: the requests of a key let through at a time
    told        \* history: told[k]: when the last refusal, if none has been served since, lets it try again

rateVars == <<windows, now, served, told>>

Classes  == {"anonymous", "authenticated", "admin"}
Segments == {p.segment : p \in Paths}
RateKeys     == (Users \cup Addresses) \X Segments
NoWindow == [count |-> 0, start |-> MaxTime + 1]
Nothing  == MaxTime + Window * Second + Second

Tier(anonymous, authenticated, admin) ==
    [anonymous |-> anonymous, authenticated |-> authenticated, admin |-> admin]
Limits == [auth          |-> Tier(10, 20, 50),   api       |-> Tier(60, 120, 300),
           sales         |-> Tier(30, 60, 200),  inventory |-> Tier(30, 60, 200),
           automation    |-> Tier(20, 60, 150),  ws        |-> Tier(5, 10, 20),
           notifications |-> Tier(30, 100, 200), upload    |-> Tier(5, 20, 50),
           admin         |-> Tier(60, 300, 1000),
           system        |-> Tier(60, 300, 1000), audit    |-> Tier(60, 300, 1000)]

\* get_limit_tier_for_path asks for one word after the other.
TierOrder == <<"auth", "system", "audit", "admin", "sales", "inventory", "automation",
               "notifications", "ws", "upload">>
TierOf(p) == LET found == {i \in 1..Len(TierOrder) : TierOrder[i] \in p.words}
             IN  IF found = {} THEN "api" ELSE TierOrder[CHOOSE i \in found : \A j \in found : i <= j]
Limit(p, class) == (Limits[TierOf(p)][class] + Scale - 1) \div Scale

RateTypeOK ==
    /\ windows \in [RateKeys -> [count : Nat, start : 0..(MaxTime + 1)]]
    /\ \A k \in RateKeys : windows[k] # NoWindow => windows[k].count > 0 /\ windows[k].start <= now
    /\ now \in 0..MaxTime
    /\ served \in [RateKeys -> [0..MaxTime -> Nat]]

RateInit ==
    /\ windows = [k \in RateKeys |-> NoWindow] /\ now = 0
    /\ served = [k \in RateKeys |-> [t \in 0..MaxTime |-> 0]]
    /\ told = [k \in RateKeys |-> Nothing]

-----------------------------------------------------------------------------
(* A request.                                                               *)

\* The entry of a key, in a new window when the old one is over.
Entry(k) == IF windows[k] = NoWindow \/ now - windows[k].start >= Window * Second
            THEN [count |-> 0, start |-> now] ELSE windows[k]

\* Mutant: the time since the start of the window, not the rest of it.
ResetElapsed(e) == (now - e.start) \div Second

\* reset_after, in whole seconds.
ResetAfter(e) == (Window * Second - (now - e.start)) \div Second

Allow(k, e) ==
    /\ windows' = [windows EXCEPT ![k] = [count |-> e.count + 1, start |-> e.start]]
    /\ served' = [served EXCEPT ![k] = [served[k] EXCEPT ![now] = @ + 1]]
    /\ told' = [told EXCEPT ![k] = Nothing]
    /\ UNCHANGED now

Refuse(k, e) ==
    /\ windows' = [windows EXCEPT ![k] = e]
    /\ told' = [told EXCEPT ![k] = now + ResetAfter(e) * Second]
    /\ UNCHANGED <<now, served>>

\* An address of the whitelist is not counted.  The class of a user is what the token says,
\* whatever the user is by now.
Request(x, p, class) ==
    LET k == <<x, p.segment>>
    IN  /\ IF x \in Users THEN class # "anonymous" ELSE class = "anonymous"
        /\ IF Entry(k).count < Limit(p, class) THEN Allow(k, Entry(k)) ELSE Refuse(k, Entry(k))

\* cleanup_expired, every CLEANUP_INTERVAL.
Cleanup ==
    /\ \E k \in RateKeys : windows[k] # NoWindow /\ now - windows[k].start > Interval * Second
    /\ windows' = [k \in RateKeys |-> IF windows[k] # NoWindow /\ now - windows[k].start > Interval * Second
                                  THEN NoWindow ELSE windows[k]]
    /\ UNCHANGED <<now, served, told>>

Clock == now < MaxTime /\ now' = now + 1 /\ UNCHANGED <<windows, served, told>>

RateNext ==
    \/ \E x \in Users \cup (Addresses \ Whitelist), p \in Paths, class \in Classes : Request(x, p, class)
    \/ Cleanup \/ Clock

RateSpec == RateInit /\ [][RateNext]_rateVars

-----------------------------------------------------------------------------
(* Properties.                                                              *)

\* The largest limit that a request with this key can have.
MostOf(k) == LET L == {Limit(p, c) : p \in {q \in Paths : q.segment = k[2]},
                                     c \in IF k[1] \in Users THEN Classes \ {"anonymous"} ELSE {"anonymous"}}
             IN  CHOOSE n \in L : \A m \in L : m <= n

\* The times something was served: a fullest window starts at one of them.
Busy(k) == {t \in 0..MaxTime : served[k][t] > 0}

\* The times of a window that starts at from.
WindowOf(from) == {t \in 0..MaxTime : from <= t /\ t < from + Window * Second}

ServedIn(k, from) == SumFunctionOnSet(served[k], WindowOf(from))

\* In a window that starts at any time at most twice the limit is served: the end of one
\* window of the limiter and the beginning of the next.
AtMostTwoWindows ==
    \A k \in RateKeys : \A from \in Busy(k) : ServedIn(k, from) <= 2 * MostOf(k)

\* A client that waits a second longer than the refusal said is not refused, unless a
\* request with its key was served in between.
RefusedInTime ==
    \A k \in RateKeys :
        (told'[k] # told[k] /\ told'[k] # Nothing /\ told[k] # Nothing) => now < told[k] + Second

RetryIsServed == [][RefusedInTime]_rateVars

\* No client is served too much, and none is sent away too long.
LimitsKept == []AtMostTwoWindows /\ RetryIsServed

-----------------------------------------------------------------------------
(* What a comment of the code says, and the code does not do.               *)

\* rate_limiter.py:45: "In-memory rate limiter using sliding window algorithm."
SlidingWindow ==
    \A k \in RateKeys : \A from \in Busy(k) : ServedIn(k, from) <= MostOf(k)
=============================================================================
