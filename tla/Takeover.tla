------------------------------- MODULE Takeover -------------------------------
(***************************************************************************)
(* The sockets of one student in one exam: each joins the student's room   *)
(* after looking up and kicking the sockets it finds there, on whatever    *)
(* instance of whichever gateway they are.                                 *)
(***************************************************************************)
EXTENDS Naturals

CONSTANTS
    Sockets,        \* each connects at most once
    Unkicked,       \* the kicker of a socket nobody kicked
    Gateways,       \* "go" waits for a lookup for 2 s only, "nest" until it fails
    MaxFailures     \* bound on failing and late lookups

ASSUME TakeoverAssumption ==
    /\ Unkicked \notin Sockets
    /\ Gateways \subseteq {"go", "nest"}
    /\ MaxFailures \in Nat

VARIABLES
    gateway,    \* it never changes
    socket,     \* "new", "up" or "closed"
    join,       \* where each socket's join_exam is
    asked,      \* the other sockets' instances that answered its lookup
    found,      \* the sockets they found in the room
    late,       \* sockets that joined before their lookup was done
    room,       \* student_<user>_exam_<exam>, on all instances
    failures,
    \* What the properties talk about:
    kicker,     \* who kicked each socket
    before,     \* the room when each join began
    lastJoined, \* the socket that joined last
    unreliable  \* sockets whose lookup failed or came late

takeoverVars == <<gateway, socket, join, asked, found, late, room, failures,
                  kicker, before, lastJoined, unreliable>>

Up == {s \in Sockets : socket[s] = "up"}

TakeoverInit ==
    /\ gateway \in Gateways
    /\ socket = [s \in Sockets |-> "new"]
    /\ join = [s \in Sockets |-> "none"]
    /\ asked = [s \in Sockets |-> {}]
    /\ found = [s \in Sockets |-> {}]
    /\ late = {} /\ room = {} /\ failures = 0
    /\ kicker = [s \in Sockets |-> Unkicked]
    /\ before = [s \in Sockets |-> {}]
    /\ lastJoined = Unkicked
    /\ unreliable = {}

\* The client emits join_exam as soon as it is connected.
Connect(s) ==
    /\ socket[s] = "new"
    /\ socket' = [socket EXCEPT ![s] = "up"]
    /\ join' = [join EXCEPT ![s] = "lookup"]
    /\ before' = [before EXCEPT ![s] = room]
    /\ UNCHANGED <<gateway, asked, found, late, room, failures, kicker, lastJoined,
                   unreliable>>

KeepLastAnswer(s, p) ==
    /\ join[s] = "lookup" \/ s \in late
    /\ p # s /\ p \notin asked[s]
    /\ asked' = [asked EXCEPT ![s] = @ \cup {p}]
    /\ found' = [found EXCEPT ![s] = {p} \cap room]
    /\ UNCHANGED <<gateway, socket, join, late, room, failures, kicker, before,
                   lastJoined, unreliable>>

\* fetchSockets: the instance of p answers.
AnswerLookup(s, p) ==
    /\ join[s] = "lookup" \/ s \in late
    /\ p # s /\ p \notin asked[s]
    /\ asked' = [asked EXCEPT ![s] = @ \cup {p}]
    /\ found' = [found EXCEPT ![s] = @ \cup ({p} \cap room)]
    /\ UNCHANGED <<gateway, socket, join, late, room, failures, kicker, before,
                   lastJoined, unreliable>>

\* When all have answered, the sockets found are told and disconnected.
Kick(s) ==
    LET peers == found[s] \cap Up
    IN  /\ asked[s] = Sockets \ {s}
        /\ socket' = [p \in Sockets |-> IF p \in peers THEN "closed" ELSE socket[p]]
        /\ kicker' = [p \in Sockets |-> IF p \in peers THEN s ELSE kicker[p]]
        /\ room' = room \ peers

KickPeers(s) ==
    /\ join[s] = "lookup"
    /\ Kick(s)
    /\ join' = [join EXCEPT ![s] = "join"]
    /\ UNCHANGED <<gateway, asked, found, late, failures, before, lastJoined, unreliable>>

\* A failed lookup must not stop the join.
LookupFails(s) ==
    /\ failures < MaxFailures
    /\ failures' = failures + 1
    /\ \/ join[s] = "lookup" /\ join' = [join EXCEPT ![s] = "join"] /\ UNCHANGED late
       \/ s \in late /\ late' = late \ {s} /\ UNCHANGED join
    /\ unreliable' = unreliable \cup {s}
    /\ UNCHANGED <<gateway, socket, asked, found, room, kicker, before, lastJoined>>

\* takeoverTimeout: join anyway; the lookup goes on ...
LookupTimesOut(s) ==
    /\ gateway = "go"
    /\ join[s] = "lookup"
    /\ failures < MaxFailures
    /\ failures' = failures + 1
    /\ join' = [join EXCEPT ![s] = "join"]
    /\ late' = late \cup {s}
    /\ unreliable' = unreliable \cup {s}
    /\ UNCHANGED <<gateway, socket, asked, found, room, kicker, before, lastJoined>>

\* ... and still kicks whom it finds.
LateKick(s) ==
    /\ s \in late
    /\ Kick(s)
    /\ late' = late \ {s}
    /\ UNCHANGED <<gateway, join, asked, found, failures, before, lastJoined, unreliable>>

JoinRoom(s) ==
    /\ join[s] = "join"
    /\ IF s \in Up THEN room' = room \cup {s} /\ lastJoined' = s
       ELSE UNCHANGED <<room, lastJoined>>
    /\ join' = [join EXCEPT ![s] = "done"]
    /\ UNCHANGED <<gateway, socket, asked, found, late, failures, kicker, before,
                   unreliable>>

\* The network, or the student closing the tab.
Disconnect(s) ==
    /\ s \in Up
    /\ socket' = [socket EXCEPT ![s] = "closed"]
    /\ room' = room \ {s}
    /\ UNCHANGED <<gateway, join, asked, found, late, failures, kicker, before,
                   lastJoined, unreliable>>

JoinStep(s) ==
    \/ \E p \in Sockets : AnswerLookup(s, p)
    \/ KickPeers(s) \/ LateKick(s) \/ JoinRoom(s)

TakeoverNext ==
    \E s \in Sockets :
        \/ Connect(s) \/ Disconnect(s)
        \/ JoinStep(s)
        \/ LookupFails(s) \/ LookupTimesOut(s)

TakeoverSpec == TakeoverInit /\ [][TakeoverNext]_takeoverVars

-------------------------------------------------------------------------------
(* Properties.                                                             *)

\* The types of the variables.
TakeoverTypeOK ==
    /\ gateway \in {"go", "nest"}
    /\ socket \in [Sockets -> {"new", "up", "closed"}]
    /\ join \in [Sockets -> {"none", "lookup", "join", "done"}]
    /\ asked \in [Sockets -> SUBSET Sockets]
    /\ found \in [Sockets -> SUBSET Sockets]
    /\ before \in [Sockets -> SUBSET Sockets]
    /\ late \subseteq Sockets /\ room \subseteq Sockets /\ unreliable \subseteq Sockets
    /\ kicker \in [Sockets -> Sockets \cup {Unkicked}]
    /\ lastJoined \in Sockets \cup {Unkicked}
    /\ failures \in Nat

\* Whoever was in the room when a join began is out of it once the socket has joined
\* (monitoring.gateway 484-512): one device takes over from another.
TakeoverKicks ==
    \A s \in Sockets \ unreliable : join[s] = "done" => before[s] \cap room = {}

\* Sockets that join together do not kick each other out: the last to join stays,
\* unless it was kicked by one that nobody kicks and that has yet to join, or went
\* away before it could.
LastJoinerStays ==
    lastJoined # Unkicked /\ kicker[lastJoined] \in Sockets \ unreliable =>
        LET winner == kicker[lastJoined]
        IN  /\ kicker[winner] = Unkicked
            /\ join[winner] = "join" \/ socket[winner] = "closed"

\* Of a student's devices one stays.
OneDevice == TakeoverKicks /\ LastJoinerStays

\* Whoever is in the room, was there when another join began, was found by a lookup or
\* kicked has joined before; what is kicked is closed.  A lookup found, of the instances
\* that answered it, all that were in the room when the join began and still are.
TakeoverInv ==
    /\ room \subseteq Up
    /\ late \subseteq unreliable
    /\ \A s \in Sockets :
        /\ \A p \in room \cup before[s] \cup found[s] : join[p] = "done"
        /\ found[s] \subseteq asked[s] /\ s \notin asked[s] /\ s \notin before[s]
        /\ join[s] = "none" <=> socket[s] = "new"
        /\ s \in late => join[s] \in {"join", "done"}
        /\ join[s] = "none" => asked[s] = {} /\ before[s] = {}
        /\ kicker[s] # Unkicked => join[s] = "done" /\ socket[s] = "closed"
        /\ s \notin unreliable =>
            /\ join[s] = "lookup" => before[s] \cap asked[s] \cap room \subseteq found[s]
            /\ join[s] \in {"join", "done"} => before[s] \cap room = {}

===============================================================================
