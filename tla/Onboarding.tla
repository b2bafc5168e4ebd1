------------------------------ MODULE Onboarding ------------------------------
(***************************************************************************)
(* A new account and the channel it is put in: register of api/auth.py,    *)
(* permissions/demo_onboarding.py, the seeding in main.py, and the         *)
(* channels and teams that administrators create.                          *)
(*                                                                         *)
(* register commits four times: the account, the channel 'general' where   *)
(* there is none, the membership and the role.  No constraint makes the    *)
(* name of a channel unique, and a second one fails the query for it.      *)
(***************************************************************************)
EXTENDS Integers, FiniteSets

CONSTANTS
    Names,          \* the user names that are registered
    Registrations,  \* requests in flight
    MaxGenerals,    \* bound: channels named 'general'
    MaxStops        \* bound: the server's stops

ASSUME OnboardAssumption == MaxGenerals \in Nat /\ MaxStops \in Nat

VARIABLES
    env,        \* APP_ENV
    roles,      \* the role of a channel's member is there: development seeds it
    server,     \* "starting", "seeding", "up": the seeding commits the team, then its channels
    team,       \* the default team is there
    users,      \* the rows of users
    generals,   \* the channels named 'general'
    entrants,    \* entrants[g]: who has a row in channel_members
    readers,    \* readers[g]: who has the role of a member there, and so may read
    reg,        \* reg[r]: the registration in flight
    cutShort,        \* history: accounts whose registration ended with the server
    puzzled,    \* history: accounts whose registration met two channels
    stops

onboardVars ==
    <<env, roles, server, team, users, generals, entrants, readers, reg, cutShort, puzzled, stops>>

Ids     == 1 .. MaxGenerals
\* looked: how many channels there had been when the one who made it found none.
General == [id : Ids, by : {"seed", "admin", "register"}, looked : 0 .. MaxGenerals]
NoReg   == [pc |-> "idle"]
Free(r) == server = "up" /\ reg[r] = NoReg
At(r, pc) == server = "up" /\ reg[r].pc = pc
RegGoes(r, pc) == reg' = [reg EXCEPT ![r].pc = pc]
RegEnds(r)   == reg' = [reg EXCEPT ![r] = NoReg]
InHand    == {reg[r].name : r \in {q \in Registrations : reg[q].pc \in
                 {"onboard", "look", "make", "enter", "grant"}}}

OnboardTypeOK ==
    /\ env \in {"development", "production"} /\ server \in {"starting", "seeding", "up"}
    /\ roles \in BOOLEAN /\ (env = "development" => roles)
    /\ team \in BOOLEAN /\ users \subseteq Names /\ stops \in 0 .. MaxStops
    /\ generals \subseteq General /\ {g.id : g \in generals} = 1 .. Cardinality(generals)
    /\ entrants \in [Ids -> SUBSET users] /\ readers \in [Ids -> SUBSET users]
    /\ InHand \subseteq users /\ (cutShort \cup puzzled) \subseteq users
    /\ server # "up" => \A r \in Registrations : reg[r] = NoReg

OnboardInit ==
    /\ env \in {"development", "production"} /\ roles \in BOOLEAN
    /\ env = "development" => roles
    /\ server = "starting" /\ team = FALSE
    /\ users = {} /\ generals = {}
    /\ entrants = [g \in Ids |-> {}] /\ readers = [g \in Ids |-> {}]
    /\ reg = [r \in Registrations |-> NoReg]
    /\ cutShort = {} /\ puzzled = {} /\ stops = 0

-----------------------------------------------------------------------------
(* seed_default_data.                                                       *)

Opened(by, looked) ==
    /\ Cardinality(generals) < MaxGenerals
    /\ generals' = generals \cup
           {[id |-> Cardinality(generals) + 1, by |-> by, looked |-> looked]}

TeamSeeded ==
    /\ server = "starting"
    /\ IF team THEN server' = "up" /\ team' = team
               ELSE server' = "seeding" /\ team' = TRUE
    /\ UNCHANGED <<env, roles, users, generals, entrants, readers, reg, cutShort, puzzled, stops>>

ChannelsSeeded ==
    /\ server = "seeding" /\ server' = "up"
    /\ Opened("seed", Cardinality(generals))
    /\ UNCHANGED <<env, roles, team, users, entrants, readers, reg, cutShort, puzzled, stops>>

\* create_channel does not look at the names there are.
AdminOpens ==
    /\ server = "up" /\ Opened("admin", Cardinality(generals))
    /\ UNCHANGED <<env, roles, server, team, users, entrants, readers, reg, cutShort, puzzled, stops>>

-----------------------------------------------------------------------------
(* register.                                                                *)

Registering(r, n) ==
    /\ Free(r) /\ n \notin users
    /\ reg' = [reg EXCEPT ![r] = [pc |-> "insert", name |-> n]]
    /\ UNCHANGED <<env, roles, server, team, users, generals, entrants, readers, cutShort, puzzled, stops>>

\* The unique name decides between two that did not see each other.
AccountMade(r) ==
    /\ At(r, "insert")
    /\ IF reg[r].name \in users THEN RegEnds(r) /\ users' = users
       ELSE /\ users' = users \cup {reg[r].name}
            /\ RegGoes(r, IF env = "development" THEN "onboard" ELSE "look")
    /\ UNCHANGED <<env, roles, server, team, generals, entrants, readers, cutShort, puzzled, stops>>

Entered(of, G, n) == [g \in Ids |-> IF g \in G THEN of[g] \cup {n} ELSE of[g]]

\* onboard_demo_user: every public channel there is, in one commit.
DemoOnboarded(r) ==
    LET G == {g.id : g \in generals} IN
    /\ At(r, "onboard") /\ RegGoes(r, "look")
    /\ entrants' = Entered(entrants, G, reg[r].name)
    /\ readers' = Entered(readers, G, reg[r].name)
    /\ UNCHANGED <<env, roles, server, team, users, generals, cutShort, puzzled, stops>>

\* Mutant: the channel is looked for in the default team, so that one made here is not found.
SeededOnly == {g \in generals : g.by = "seed"}
Found      == generals

\* scalar_one_or_none raises on two: the request fails, the account is there.
GeneralLookedFor(r) ==
    /\ At(r, "look")
    /\ \/ /\ Found = {}
          /\ reg' = [reg EXCEPT ![r] = [pc |-> "make", name |-> reg[r].name,
                                        looked |-> Cardinality(generals)]]
          /\ puzzled' = puzzled
       \/ \E g \in Found :
          /\ Found = {g}
          /\ reg' = [reg EXCEPT ![r] = [pc |-> "enter", name |-> reg[r].name, into |-> g.id]]
          /\ puzzled' = puzzled
       \/ /\ Cardinality(Found) > 1
          /\ RegEnds(r) /\ puzzled' = puzzled \cup {reg[r].name}
    /\ UNCHANGED <<env, roles, server, team, users, generals, entrants, readers, cutShort, stops>>

GeneralMade(r) ==
    /\ At(r, "make") /\ Opened("register", reg[r].looked)
    /\ reg' = [reg EXCEPT ![r] = [pc |-> "enter", name |-> reg[r].name,
                                  into |-> Cardinality(generals) + 1]]
    /\ UNCHANGED <<env, roles, server, team, users, entrants, readers, cutShort, puzzled, stops>>

MemberMade(r) ==
    /\ At(r, "enter") /\ RegGoes(r, "grant")
    /\ entrants' = Entered(entrants, {reg[r].into}, reg[r].name)
    /\ UNCHANGED <<env, roles, server, team, users, generals, readers, cutShort, puzzled, stops>>

ReaderMade(r) ==
    /\ At(r, "grant") /\ RegEnds(r)
    /\ readers' = IF roles THEN Entered(readers, {reg[r].into}, reg[r].name) ELSE readers
    /\ UNCHANGED <<env, roles, server, team, users, generals, entrants, cutShort, puzzled, stops>>

\* What was committed stays, and the same name cannot register again.
OnboardServerStops ==
    /\ stops < MaxStops /\ stops' = stops + 1
    /\ server' = "starting" /\ cutShort' = cutShort \cup InHand
    /\ reg' = [r \in Registrations |-> NoReg]
    /\ UNCHANGED <<env, roles, team, users, generals, entrants, readers, puzzled>>

OnboardNext ==
    \/ TeamSeeded \/ ChannelsSeeded \/ AdminOpens \/ OnboardServerStops
    \/ \E r \in Registrations :
         \/ \E n \in Names : Registering(r, n)
         \/ AccountMade(r) \/ DemoOnboarded(r) \/ GeneralLookedFor(r)
         \/ GeneralMade(r) \/ MemberMade(r) \/ ReaderMade(r)

OnboardSpec == OnboardInit /\ [][OnboardNext]_onboardVars

-----------------------------------------------------------------------------
\* Without the role there is only the membership to go by.
Reads(n, g) == n \in entrants[g] /\ (roles => n \in readers[g])

\* A registration makes a second 'general' only when it had found none before the other was
\* there.
SecondGeneralOverlaps ==
    \A g, h \in generals : h.by = "register" /\ g.id < h.id => h.looked < g.id

\* An account that can read no 'general' is one whose registration is under way, ended with
\* the server, or met two such channels: register refuses to repeat it in each case.
LeftOutExplained ==
    \A n \in users : (\A g \in Ids : ~Reads(n, g)) =>
        n \in InHand \cup cutShort \cup puzzled

\* Registrations go wrong in these ways only.
RegistrationExplained == SecondGeneralOverlaps /\ LeftOutExplained

-----------------------------------------------------------------------------
(* What a comment of the code says, and the code does not do.               *)

\* "Ensure the user is a member of the default 'general' channel so they have a readable
\* channel after first login" (register).
EveryoneReadsGeneral ==
    \A n \in users \ (InHand \cup cutShort) : \E g \in Ids : Reads(n, g)
=============================================================================
