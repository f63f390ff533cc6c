------------------------------- MODULE Presence -------------------------------
(***************************************************************************)
(* When a session's student was last seen: joins and heartbeats read and   *)
(* renew it, recording a gap of more than 75 s as a violation, and answers *)
(* that are saved renew it without looking.                                *)
(***************************************************************************)
EXTENDS Naturals, FiniteSets

CONSTANTS
    Tabs,           \* sockets of the student, each of which may reconnect
    SerialGateway,  \* TRUE (Go): a socket's events run one at a time; FALSE (NestJS)
    OldRedis,       \* may SET ... GET be missing (Redis < 6.2)?
    MaxAbsences,    \* bound on the gaps in the student's presence
    MaxConnects,    \* bound on connections
    MaxJoinFailures

ASSUME PresenceAssumption ==
    /\ SerialGateway \subseteq BOOLEAN /\ OldRedis \subseteq BOOLEAN
    /\ {MaxAbsences, MaxConnects, MaxJoinFailures} \subseteq Nat

VARIABLES
    serial, oldRedis,   \* they never change
    online,     \* tabs that are connected
    joining,    \* where each tab's join_exam is
    beating,    \* where each tab's heartbeat is
    saving,     \* tabs with a save_answer being handled
    lastSeen,   \* session:lastseen: "never", "fresh", or "stale" after 75 s
    connects, joinFailures,
    \* What the properties talk about:
    offline,    \* did the last absence begin with no tab online?
    absences, gaps,
    erased      \* an offline absence was overwritten before it was recorded

presenceVars == <<serial, oldRedis, online, joining, beating, saving, lastSeen,
                  connects, joinFailures, offline, absences, gaps, erased>>

PresenceInit ==
    /\ serial \in SerialGateway
    /\ oldRedis \in OldRedis
    /\ online = {} /\ saving = {}
    /\ joining = [t \in Tabs |-> "no"]
    /\ beating = [t \in Tabs |-> "no"]
    /\ lastSeen = "never"
    /\ connects = 0 /\ joinFailures = 0
    /\ offline = FALSE /\ absences = 0 /\ gaps = 0 /\ erased = FALSE

\* One event after another, in the order the client sent them.
InTurn(t) == serial => joining[t] = "no" /\ beating[t] = "no" /\ t \notin saving

\* The client emits join_exam, then the answers it kept while it was offline.
ConnectTab(t) ==
    /\ t \notin online
    /\ joining[t] = "no" /\ beating[t] = "no" /\ t \notin saving
    /\ connects < MaxConnects
    /\ connects' = connects + 1
    /\ online' = online \cup {t}
    /\ joining' = [joining EXCEPT ![t] = "takeover"]
    /\ saving' \in {saving, saving \cup {t}}
    /\ UNCHANGED <<serial, oldRedis, beating, lastSeen, joinFailures, offline, absences,
                   gaps, erased>>

DisconnectTab(t) ==
    /\ t \in online
    /\ online' = online \ {t}
    /\ UNCHANGED <<serial, oldRedis, joining, beating, saving, lastSeen, connects,
                   joinFailures, offline, absences, gaps, erased>>

\* The peers are kicked, the room is joined, the session's owner is checked.
TakeOver(t) ==
    /\ joining[t] = "takeover"
    /\ joining' = [joining EXCEPT ![t] = "touch"]
    /\ UNCHANGED <<serial, oldRedis, online, beating, saving, lastSeen, connects,
                   joinFailures, offline, absences, gaps, erased>>

\* Who the student is, or whose session it is, cannot be read.
JoinFails(t) ==
    /\ joining[t] = "takeover"
    /\ joinFailures < MaxJoinFailures
    /\ joinFailures' = joinFailures + 1
    /\ joining' = [joining EXCEPT ![t] = "no"]
    /\ UNCHANGED <<serial, oldRedis, online, beating, saving, lastSeen, connects, offline,
                   absences, gaps, erased>>

Seen(stale) ==
    /\ lastSeen' = "fresh"
    /\ gaps' = IF stale THEN gaps + 1 ELSE gaps

GetThenSet(at, t) ==
    \/ /\ at[t] = "touch"
       /\ at' = [at EXCEPT ![t] = IF lastSeen = "stale" THEN "setGap" ELSE "set"]
       /\ UNCHANGED <<lastSeen, gaps>>
    \/ /\ at[t] \in {"set", "setGap"}
       /\ Seen(at[t] = "setGap")
       /\ at' = [at EXCEPT ![t] = "no"]

\* touchPresence by SET ... GET, or by its fallback, a GET and then a SET.
TouchPresence(at, t) ==
    \/ /\ at[t] = "touch" /\ ~oldRedis
       /\ Seen(lastSeen = "stale")
       /\ at' = [at EXCEPT ![t] = "no"]
    \/ /\ at[t] = "touch" /\ oldRedis
       /\ at' = [at EXCEPT ![t] = IF lastSeen = "stale" THEN "setGap" ELSE "set"]
       /\ UNCHANGED <<lastSeen, gaps>>
    \/ /\ at[t] \in {"set", "setGap"}
       /\ Seen(at[t] = "setGap")
       /\ at' = [at EXCEPT ![t] = "no"]

JoinTouches(t) ==
    /\ TouchPresence(joining, t)
    /\ UNCHANGED <<serial, oldRedis, online, beating, saving, connects, joinFailures,
                   offline, absences, erased>>

Heartbeat(t) ==
    /\ t \in online /\ beating[t] = "no" /\ InTurn(t)
    /\ beating' = [beating EXCEPT ![t] = "touch"]
    /\ UNCHANGED <<serial, oldRedis, online, joining, saving, lastSeen, connects,
                   joinFailures, offline, absences, gaps, erased>>

HeartbeatTouches(t) ==
    /\ TouchPresence(beating, t)
    /\ UNCHANGED <<serial, oldRedis, online, joining, saving, connects, joinFailures,
                   offline, absences, erased>>

SaveAnswer(t) ==
    /\ t \in online \ saving /\ InTurn(t)
    /\ saving' = saving \cup {t}
    /\ UNCHANGED <<serial, oldRedis, online, joining, beating, lastSeen, connects,
                   joinFailures, offline, absences, gaps, erased>>

\* recordPresence, a plain SET, in its turn.
SaveRecords(t) ==
    /\ t \in saving
    /\ serial => joining[t] = "no"
    /\ saving' = saving \ {t}
    /\ lastSeen' = "fresh"
    /\ erased' = (erased \/ (lastSeen = "stale" /\ offline))
    /\ UNCHANGED <<serial, oldRedis, online, joining, beating, connects, joinFailures,
                   offline, absences, gaps>>

\* More than 75 s without a word: no handler lasts that long.
GoStale ==
    /\ lastSeen = "fresh"
    /\ absences < MaxAbsences
    /\ saving = {}
    /\ \A t \in Tabs : joining[t] = "no" /\ beating[t] = "no"
    /\ lastSeen' = "stale"
    /\ absences' = absences + 1
    /\ offline' = (online = {})
    /\ UNCHANGED <<serial, oldRedis, online, joining, beating, saving, connects,
                   joinFailures, gaps, erased>>

PresenceNext ==
    \/ \E t \in Tabs :
          \/ ConnectTab(t) \/ DisconnectTab(t)
          \/ TakeOver(t) \/ JoinFails(t) \/ JoinTouches(t)
          \/ Heartbeat(t) \/ HeartbeatTouches(t)
          \/ SaveAnswer(t) \/ SaveRecords(t)
    \/ GoStale

PresenceSpec == PresenceInit /\ [][PresenceNext]_presenceVars

-------------------------------------------------------------------------------
(* Properties.                                                             *)

Touching == {"no", "touch", "set", "setGap"}

\* The types of the variables.
PresenceTypeOK ==
    /\ {serial, oldRedis, offline, erased} \subseteq BOOLEAN
    /\ online \subseteq Tabs /\ saving \subseteq Tabs
    /\ joining \in [Tabs -> Touching \cup {"takeover"}]
    /\ beating \in [Tabs -> Touching]
    /\ lastSeen \in {"never", "fresh", "stale"}
    /\ {connects, joinFailures, absences, gaps} \subseteq Nat

\* One absence makes at most one violation, however many tabs and events find it
\* (monitoring.gateway 267-271).
GapRecordedOnce == ~oldRedis => gaps <= absences

\* "Check presence gap before recording to prevent erasing offline gaps"
\* (monitoring.gateway 521): whatever the student sends when back online, the time
\* they were offline is not overwritten before a join or a heartbeat has seen it.
OfflineGapsKept == ~erased

\* It is so where a socket's events run in turn, once the join found the session.
OfflineGapsKeptInTurn == serial /\ joinFailures = 0 => OfflineGapsKept

\* An absence is recorded, and once.
GapsRecorded == GapRecordedOnce /\ OfflineGapsKeptInTurn

===============================================================================
