------------------------------ MODULE ExamSocket ------------------------------
(***************************************************************************)
(* The exam page's connection (useExamSocket): sockets are never reused;   *)
(* each new one waits for a fresh token first, during which a newer        *)
(* attempt, a kick or an unmount may come; reconnects back off and end.    *)
(***************************************************************************)
EXTENDS Naturals, FiniteSets

CONSTANTS
    SocketIds,              \* names of sockets, free again once torn down
    NoSocket,
    MaxReconnectAttempts,   \* 8
    MaxAuthRetries,         \* 3
    MaxRemounts             \* bound on the times the effect runs

ASSUME SocketAssumption ==
    /\ NoSocket \notin SocketIds /\ IsFiniteSet(SocketIds)
    /\ MaxReconnectAttempts \in Nat /\ MaxAuthRetries \in Nat /\ MaxRemounts \in Nat

VARIABLES
    mounted, remounts,
    isKicked,
    leaving,            \* redirectToLogin was called or is due
    connectionStatus,
    hasEverConnected,
    reconnectAttempts, authRetries,
    reconnectTimer,     \* it is running
    fetching,           \* token fetches: "current" for the one of this socketGeneration,
                        \* "superseded" for any others
    sockets,            \* "free", "connecting", "up" or "down"
    socketRef

socketVars == <<mounted, remounts, isKicked, leaving, connectionStatus, hasEverConnected,
                reconnectAttempts, authRetries, reconnectTimer, fetching, sockets, socketRef>>

Live == {i \in SocketIds : sockets[i] \in {"connecting", "up"}}

SocketInit ==
    /\ mounted = TRUE /\ remounts = 0
    /\ isKicked = FALSE /\ leaving = FALSE
    /\ connectionStatus = "idle"
    /\ hasEverConnected = FALSE
    /\ reconnectAttempts = 0 /\ authRetries = 0
    /\ reconnectTimer = FALSE
    /\ fetching = {}
    /\ sockets = [i \in SocketIds |-> "free"]
    /\ socketRef = NoSocket

\* socketGeneration is bumped.
Supersede(fetches) == IF fetches = {} THEN {} ELSE {"superseded"}
\* removeAllListeners and disconnect.
TornDown(i) == [j \in SocketIds |-> IF j = i THEN "free" ELSE sockets[j]]

-------------------------------------------------------------------------------
(* initSocket, up to its await and after it.                               *)

\* With these fetches and the timer running or not.  The marker of the exam login may
\* be missing: back to the login.
StartInit(fetches, running) ==
    \/ /\ fetching' = {"current"} \cup Supersede(fetches)
       /\ reconnectTimer' = FALSE
       /\ UNCHANGED leaving
    \/ /\ leaving' = TRUE
       /\ fetching' = fetches
       /\ reconnectTimer' = running

\* Mutant: the fetch connects although it was superseded.
SupersededConnects ==
    /\ "superseded" \in fetching /\ ~isKicked
    /\ fetching' = fetching \ {"superseded"}
    /\ \E i \in SocketIds :
         /\ sockets[i] = "free"
         /\ sockets' = [TornDown(socketRef) EXCEPT ![i] = "connecting"]
         /\ socketRef' = i
    /\ UNCHANGED <<mounted, remounts, isKicked, leaving, connectionStatus, hasEverConnected,
                   reconnectAttempts, authRetries, reconnectTimer>>

\* A newer initSocket or the effect cleanup ran during the await.
SupersededTokenArrives ==
    /\ "superseded" \in fetching
    /\ \/ fetching' = fetching \ {"superseded"}
       \/ UNCHANGED fetching
    /\ UNCHANGED <<mounted, remounts, isKicked, leaving, connectionStatus, hasEverConnected,
                   reconnectAttempts, authRetries, reconnectTimer, sockets, socketRef>>

\* The previous socket is torn down, a fresh one connects.
TokenArrives ==
    /\ "current" \in fetching
    /\ fetching' = fetching \ {"current"}
    /\ IF isKicked THEN UNCHANGED <<sockets, socketRef>>
       ELSE \E i \in SocketIds :
              /\ sockets[i] = "free"
              /\ sockets' = [TornDown(socketRef) EXCEPT ![i] = "connecting"]
              /\ socketRef' = i
    /\ UNCHANGED <<mounted, remounts, isKicked, leaving, connectionStatus, hasEverConnected,
                   reconnectAttempts, authRetries, reconnectTimer>>

-------------------------------------------------------------------------------
(* The events of a socket, and reconnecting.                               *)

MoveSocket(i, from, to) ==
    /\ sockets[i] = from
    /\ sockets' = [sockets EXCEPT ![i] = to]

\* scheduleReconnect: after too many attempts, the error wall or the login.
ScheduleReconnect ==
    IF isKicked THEN UNCHANGED <<reconnectAttempts, reconnectTimer, leaving, connectionStatus>>
    ELSE /\ reconnectAttempts' = reconnectAttempts + 1
         /\ IF reconnectAttempts' <= MaxReconnectAttempts
            THEN /\ reconnectTimer' = TRUE
                 /\ connectionStatus' = "connecting"
                 /\ UNCHANGED leaving
            ELSE /\ connectionStatus' = IF hasEverConnected THEN "connecting" ELSE "failed"
                 /\ leaving' = (leaving \/ hasEverConnected)
                 /\ UNCHANGED reconnectTimer

SocketConnects(i) ==
    /\ MoveSocket(i, "connecting", "up")
    /\ reconnectAttempts' = 0 /\ authRetries' = 0
    /\ hasEverConnected' = TRUE
    /\ connectionStatus' = "connected"
    /\ UNCHANGED <<mounted, remounts, isKicked, leaving, reconnectTimer, fetching, socketRef>>

\* Mutant: a failed connection is only reported.
ConnectErrorReported(i) ==
    /\ MoveSocket(i, "connecting", "down")
    /\ connectionStatus' = "connecting"
    /\ UNCHANGED <<mounted, remounts, isKicked, leaving, hasEverConnected, reconnectAttempts,
                   authRetries, reconnectTimer, fetching, socketRef>>

ConnectError(i) ==
    /\ MoveSocket(i, "connecting", "down")
    /\ ScheduleReconnect
    /\ UNCHANGED <<mounted, remounts, isKicked, hasEverConnected, authRetries, fetching,
                   socketRef>>

\* connect_error AUTH_FAILED: a few retries with a fresh token.
AuthFailed(i) ==
    /\ MoveSocket(i, "connecting", "down")
    /\ authRetries' = authRetries + 1
    /\ IF authRetries' > MaxAuthRetries
       THEN /\ isKicked' = TRUE /\ leaving' = TRUE
            /\ UNCHANGED <<connectionStatus, fetching, reconnectTimer>>
       ELSE /\ connectionStatus' = "connecting"
            /\ StartInit(fetching, reconnectTimer)
            /\ UNCHANGED isKicked
    /\ UNCHANGED <<mounted, remounts, hasEverConnected, reconnectAttempts, socketRef>>

\* The server or the network closes the connection.
Disconnected(i) ==
    /\ MoveSocket(i, "up", "down")
    /\ ScheduleReconnect
    /\ UNCHANGED <<mounted, remounts, isKicked, hasEverConnected, authRetries, fetching,
                   socketRef>>

\* 'error' (another instance, suspended, terminated) or 'force_terminate'; after
\* 'auth_error' it is the server that disconnects.
Kicked(i) ==
    /\ sockets[i] = "up"
    /\ isKicked' = TRUE /\ leaving' = TRUE
    /\ sockets' \in {sockets, [sockets EXCEPT ![i] = "down"]}
    /\ UNCHANGED <<mounted, remounts, connectionStatus, hasEverConnected, reconnectAttempts,
                   authRetries, reconnectTimer, fetching, socketRef>>

\* Three heartbeats without an ack.
HeartbeatsMissed ==
    /\ socketRef # NoSocket /\ sockets[socketRef] = "up" /\ ~isKicked
    /\ leaving' = TRUE
    /\ UNCHANGED <<mounted, remounts, isKicked, connectionStatus, hasEverConnected,
                   reconnectAttempts, authRetries, reconnectTimer, fetching, sockets,
                   socketRef>>

ReconnectTimerFires ==
    /\ reconnectTimer
    /\ IF isKicked THEN reconnectTimer' = FALSE /\ UNCHANGED <<fetching, leaving>>
       ELSE StartInit(fetching, FALSE)
    /\ UNCHANGED <<mounted, remounts, isKicked, connectionStatus, hasEverConnected,
                   reconnectAttempts, authRetries, sockets, socketRef>>

-------------------------------------------------------------------------------
(* The page.                                                               *)

\* retryConnection, on the error wall.
RetryConnection ==
    /\ mounted /\ connectionStatus = "failed" /\ ~isKicked
    /\ reconnectAttempts' = 0
    /\ hasEverConnected' = FALSE
    /\ connectionStatus' = "connecting"
    /\ StartInit(fetching, reconnectTimer)
    /\ UNCHANGED <<mounted, remounts, isKicked, authRetries, sockets, socketRef>>

\* The cleanup of the effect.
CleanUp ==
    /\ sockets' = TornDown(socketRef)
    /\ socketRef' = NoSocket

\* The cleanup, if any, and the effect again: the ids may be missing, or the exam.
RunEffect ==
    /\ mounted
    /\ remounts < MaxRemounts /\ remounts' = remounts + 1
    /\ CleanUp
    /\ \/ /\ connectionStatus' = "idle"
          /\ fetching' = Supersede(fetching)
          /\ reconnectTimer' = FALSE
          /\ UNCHANGED <<reconnectAttempts, hasEverConnected, leaving>>
       \/ /\ ~isKicked
          /\ reconnectAttempts' = 0
          /\ hasEverConnected' \in {hasEverConnected, FALSE}
          /\ connectionStatus' = "connecting"
          /\ StartInit(Supersede(fetching), FALSE)
    /\ UNCHANGED <<mounted, isKicked, authRetries>>

Unmount ==
    /\ mounted
    /\ mounted' = FALSE
    /\ CleanUp
    /\ fetching' = Supersede(fetching)
    /\ reconnectTimer' = FALSE
    /\ UNCHANGED <<remounts, isKicked, leaving, connectionStatus, hasEverConnected,
                   reconnectAttempts, authRetries>>

\* disconnect(), after the submit.
DisconnectSocket ==
    /\ mounted
    /\ isKicked' = TRUE
    /\ reconnectTimer' = FALSE
    /\ sockets' = TornDown(socketRef)
    /\ UNCHANGED <<mounted, remounts, leaving, connectionStatus, hasEverConnected,
                   reconnectAttempts, authRetries, fetching, socketRef>>

SocketResolves(i) == SocketConnects(i) \/ ConnectError(i) \/ AuthFailed(i)
SocketEvent(i) == SocketResolves(i) \/ Disconnected(i) \/ Kicked(i)

SocketNext ==
    \/ TokenArrives \/ SupersededTokenArrives \/ ReconnectTimerFires
    \/ \E i \in SocketIds : SocketEvent(i)
    \/ HeartbeatsMissed \/ RetryConnection \/ RunEffect \/ Unmount \/ DisconnectSocket

SocketSpec == SocketInit /\ [][SocketNext]_socketVars

\* A token fetch ends, a timer fires, and a socket that connects succeeds or fails.
SocketFairness ==
    /\ WF_socketVars(TokenArrives)
    /\ WF_socketVars(ReconnectTimerFires)
    /\ \A i \in SocketIds :
          WF_socketVars(SocketResolves(i))

SocketFairSpec == SocketSpec /\ SocketFairness

-------------------------------------------------------------------------------
(* Properties.                                                             *)

\* The types of the variables.
SocketTypeOK ==
    /\ mounted \in BOOLEAN /\ isKicked \in BOOLEAN /\ leaving \in BOOLEAN
    /\ hasEverConnected \in BOOLEAN /\ reconnectTimer \in BOOLEAN
    /\ connectionStatus \in {"idle", "connecting", "connected", "failed"}
    /\ remounts \in 0..MaxRemounts
    /\ reconnectAttempts \in 0..(MaxReconnectAttempts + 1)
    /\ authRetries \in 0..(MaxAuthRetries + 1)
    /\ fetching \subseteq {"current", "superseded"}
    /\ sockets \in [SocketIds -> {"free", "connecting", "up", "down"}]
    /\ socketRef \in SocketIds \cup {NoSocket}

\* No orphan (useExamSocket.ts 60-62): a socket that connects or is up is the one the
\* page knows, and none is left once it has unmounted.
OneSocket == \A i \in Live : i = socketRef /\ mounted

\* While the page wants a connection exactly one thing brings it: a running timer, a
\* token fetch or a socket.  So none is lost, and no late timer replaces a live socket.
OneWayForward ==
    LET ways == (IF reconnectTimer THEN {"timer"} ELSE {})
                \cup (fetching \ {"superseded"}) \cup {sockets[i] : i \in Live}
    IN  /\ Cardinality(ways) <= 1
        /\ (mounted /\ ~isKicked /\ ~leaving
            /\ connectionStatus \in {"connecting", "connected"}) => ways # {}

\* The page has one connection, or one way to it.
OneConnection == OneSocket /\ OneWayForward

\* Whoever was kicked or has submitted never connects again.
KickedStaysOut ==
    [][isKicked => \A i \in SocketIds : sockets[i] # "up" => sockets'[i] # "up"]_socketVars

\* "Connecting" ends: the page is connected again, at the error wall, or away.
ConnectsOrTells ==
    []<>(connectionStatus # "connecting" \/ isKicked \/ leaving \/ ~mounted)

\* A student is connected again, or told why not; one who was kicked is not.
ConnectsUnlessKicked == KickedStaysOut /\ ConnectsOrTells
-------------------------------------------------------------------------------
(* The inductive invariant behind OneConnection and KickedStaysOut.        *)

Connecting == {i \in SocketIds : sockets[i] = "connecting"}

\* A timer, a token fetch and a live socket exclude each other, and the page that is
\* waiting for a connection has one of them; the error wall has none.
SocketInv ==
    /\ \A i \in Live : i = socketRef /\ mounted
    /\ reconnectTimer => mounted /\ "current" \notin fetching /\ Live = {}
    /\ "current" \in fetching => mounted /\ Live = {}
    /\ connectionStatus = "failed" =>
        ~reconnectTimer /\ "current" \notin fetching /\ Live = {}
    /\ mounted /\ ~isKicked /\ ~leaving /\ connectionStatus \in {"connecting", "connected"} =>
        reconnectTimer \/ "current" \in fetching \/ Live # {}
    /\ isKicked => Connecting = {}
    /\ reconnectTimer \/ "current" \in fetching \/ Live # {} =>
        reconnectAttempts <= MaxReconnectAttempts
    /\ ~isKicked => authRetries <= MaxAuthRetries

===============================================================================
