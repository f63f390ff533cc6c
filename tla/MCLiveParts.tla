----------------------------- MODULE MCLiveParts -----------------------------
(***************************************************************************)
(* Instances for TLC of the parts with liveness properties: the AI jobs,   *)
(* the gateway's violation queue, the page's answers and its connection,   *)
(* exam entry, the student's progress (its course, questions and virtual   *)
(* units one at a time) and the rotation of codes.                         *)
(* They share no state, so each is explored alone: part says which, the    *)
(* others keep an initial state in which nothing is due.                   *)
(***************************************************************************)
EXTENDS AiJobs, ViolationQueue, AnswerOutbox, ExamSocket, SessionEntry,
        StudentProgress, CodeRotation

VARIABLE part   \* it never changes

jobParts == <<jobsVars, queueVars>>
pageParts == <<outboxVars, socketVars>>
workParts == <<entryVars, studentVars, rotationVars>>
partsVars == <<part, jobParts, pageParts, workParts>>

PartsInit ==
    /\ part \in {"jobs", "queue", "outbox", "socket", "entry", "course", "questions",
                "virtual", "rotation"}
    /\ Init /\ QueueInit /\ OutboxInit /\ SocketInit /\ EntryInit
    /\ StudentInit /\ RotationInit
    /\ part # "outbox" => connected /\ inOrder
    /\ part # "entry" => linked
    /\ part # "rotation" => \A e \in Exams : ~exam[e].rotating

PartsNext ==
    /\ UNCHANGED part
    /\ \/ part = "jobs" /\ Next /\ UNCHANGED <<queueVars, pageParts, workParts>>
       \/ part = "queue" /\ QueueNext /\ UNCHANGED <<jobsVars, pageParts, workParts>>
       \/ part = "outbox" /\ OutboxNext /\ UNCHANGED <<jobParts, socketVars, workParts>>
       \/ part = "socket" /\ SocketNext /\ UNCHANGED <<jobParts, outboxVars, workParts>>
       \/ /\ part = "entry" /\ EntryNext
          /\ UNCHANGED <<jobParts, pageParts, studentVars, rotationVars>>
       \/ /\ part \in {"course", "questions", "virtual"} /\ StudentNext
          /\ part = "course" => flushed' = flushed /\ \A v \in VirtualUnits : requests'[v] = Idle
          /\ part = "questions" => requests' = requests
          /\ part = "virtual" => <<flushed, submitted>>' = <<flushed, submitted>>
          /\ UNCHANGED <<jobParts, pageParts, entryVars, rotationVars>>
       \/ /\ part = "rotation" /\ RotationNext
          /\ UNCHANGED <<jobParts, pageParts, entryVars, studentVars>>

\* The fairness of each module, stated of its part only: TLC evaluates it faster.
PartsFairness ==
    /\ \A j \in Jobs : /\ WF_jobsVars(part = "jobs" /\ CreateStep(j))
                       /\ WF_jobsVars(part = "jobs" /\ WorkerStep(j))
                       /\ WF_jobsVars(part = "jobs" /\ CancelStep(j))
    /\ WF_jobsVars(part = "jobs" /\ ExpireHold)
    /\ \A h \in QueueHandlers : WF_queueVars(part = "queue" /\ HandlerStep(h))
    /\ \A w \in Workers : WF_queueVars(part = "queue" /\ InserterStep(w))
    /\ WF_queueVars(part = "queue" /\ CloseStep)
    /\ WF_outboxVars(part = "outbox" /\ DebouncedSave)
    /\ WF_outboxVars(part = "outbox" /\ Connect)
    /\ WF_outboxVars(part = "outbox" /\ RetrySave)
    /\ WF_outboxVars(part = "outbox" /\ \E i \in Messages : ClientHears(i))
    /\ WF_outboxVars(part = "outbox" /\ \E i \in Messages : Message(i).live /\ StageAnswer(i))
    /\ WF_socketVars(part = "socket" /\ TokenArrives)
    /\ WF_socketVars(part = "socket" /\ ReconnectTimerFires)
    /\ \A i \in SocketIds : WF_socketVars(part = "socket" /\ SocketResolves(i))
    /\ \A r \in EntryRequests : WF_entryVars(part = "entry" /\ EntryStep(r))
    /\ WF_entryVars(part = "entry" /\ startLock = Nobody /\ ExpireStartLock)
    /\ \A i \in Items \ Questions :
          WF_studentVars(part \in {"course", "virtual"} /\ RequestStep(i))
    /\ WF_studentVars(/\ part \in {"course", "questions", "virtual"}
                      /\ \E t \in DOMAIN tasks : TaskStep(t))
    /\ WF_rotationVars(part = "rotation" /\ TimePasses)
    /\ WF_rotationVars(part = "rotation" /\ LockLapses)
    /\ \A r \in Rotators : WF_rotationVars(part = "rotation" /\ RotatorStep(r))

\* The types of the variables, and what the other invariants rest on.
PartsInv ==
    /\ JobsTypeOK /\ QueueTypeOK /\ OutboxTypeOK /\ SocketTypeOK /\ EntryTypeOK
    /\ StudentTypeOK /\ RotationTypeOK
    /\ ShutdownInv /\ SocketInv /\ FreshInv
    /\ CloseDrains /\ OnItsWayUnlessSplit /\ StaticSoon

PartsSpec == PartsInit /\ [][PartsNext]_partsVars /\ PartsFairness

===============================================================================
