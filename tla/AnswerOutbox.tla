----------------------------- MODULE AnswerOutbox -----------------------------
(***************************************************************************)
(* The way of an answer from the exam page to the server: the page holds   *)
(* it for a debounce, the socket hook sends it, waits for an               *)
(* acknowledgement, queues it again when none comes, flushes the queue     *)
(* when it reconnects and splits a batch the server finds too big.  An     *)
(* answer is a version number; a patch gives each key a version, or 0.     *)
(* It ends when the student is kicked or leaves the page.                  *)
(***************************************************************************)
EXTENDS Naturals, Sequences, FiniteSets
Wires == INSTANCE SequencesExt

CONSTANTS
    Keys,           \* questions
    InOrder,        \* TRUE (Go): a socket's events are handled in turn; FALSE (NestJS)
    MaxTyped,       \* bound on the versions typed
    MaxFaults       \* bound on drops, slow or failed saves and refusals

ASSUME OutboxAssumption ==
    IsFiniteSet(Keys) /\ InOrder \subseteq BOOLEAN /\ {MaxTyped, MaxFaults} \subseteq Nat

VARIABLES
    inOrder,    \* it never changes
    typed,      \* userAnswersRef: a patch
    versions,   \* the last version typed
    held,       \* pendingSaveRef: a patch of at most one key
    outbox,     \* the hook: pendingAnswers, latestSent and the messages it sent
    retryTimer, \* saveRetryTimer is set
    connected,
    saved,      \* the answers staged at the server: a patch
    faults,
    \* What the properties talk about:
    received,   \* versions the server staged
    refused,    \* versions the hook gave up
    overtaken   \* keys a split batch sent again although a newer version had been sent

outboxVars == <<inOrder, typed, versions, held, outbox, retryTimer, connected, saved,
                faults, received, refused, overtaken>>
pageVars == <<typed, versions, held>>
historyVars == <<received, refused, overtaken>>

NoPatch == [k \in Keys |-> 0]
KeysOf(patch) == {k \in Keys : patch[k] # 0}
One(k, v) == [NoPatch EXCEPT ![k] = v]
Over(patch, base) == [k \in Keys |-> IF patch[k] # 0 THEN patch[k] ELSE base[k]]
VersionsOf(patch) == {patch[k] : k \in KeysOf(patch)}

OutboxInit ==
    /\ inOrder \in InOrder
    /\ typed = NoPatch /\ versions = 0 /\ held = NoPatch
    /\ outbox = [pending |-> NoPatch, latest |-> NoPatch, wire |-> <<>>]
    /\ retryTimer = FALSE
    /\ connected \in BOOLEAN
    /\ saved = NoPatch
    /\ faults = 0
    /\ received = {} /\ refused = {} /\ overtaken = {}

-------------------------------------------------------------------------------
(* The refs of the hook, as functions of the outbox.  A message waits at   *)
(* the client for its answer; at the server it is "sent", "saved",         *)
(* "tooBig", "refused", "failed" or "lost"; live, its connection is up.    *)

Sent(patch, batch) ==
    [answer |-> patch, batch |-> batch, live |-> TRUE, waiting |-> TRUE, server |-> "sent"]

\* emitSave.
EmitSave(o, patch, batch) ==
    [o EXCEPT !.latest = Over(patch, @), !.wire = Append(@, Sent(patch, batch))]

\* emitSave for each key of a patch.
EmitKeys(o, patch) ==
    LET keys == Wires!SetToSeq(KeysOf(patch)) IN
    [o EXCEPT !.latest = Over(patch, @),
              !.wire = @ \o [n \in DOMAIN keys |-> Sent(One(keys[n], patch[keys[n]]), FALSE)]]

\* queueAnswer: a newer value supersedes the one that waits to be resent.
QueueAnswer(o, k, v) ==
    IF connected THEN EmitSave([o EXCEPT !.pending[k] = 0], One(k, v), FALSE)
    ELSE [o EXCEPT !.pending[k] = v]

\* flushPendingSave, as far as the outbox goes.
FlushHeld(o) ==
    IF held = NoPatch THEN o
    ELSE LET k == CHOOSE k \in KeysOf(held) : TRUE IN QueueAnswer(o, k, held[k])

\* The whole queue goes in one batch.
FlushPending(o) ==
    IF o.pending = NoPatch THEN o
    ELSE EmitSave([o EXCEPT !.pending = NoPatch], o.pending, TRUE)

\* Mutant: also over a newer value sent since.
RequeueAnyway(o, answer) == [o EXCEPT !.pending = Over(answer, @)]

\* No ack: requeue, but never over a newer value queued or sent since.
Requeue(o, answer) ==
    [o EXCEPT !.pending =
        [k \in Keys |-> IF @[k] = 0 /\ answer[k] # 0 /\ o.latest[k] = answer[k]
                        THEN answer[k] ELSE @[k]]]

\* The client is done with message i: it is gone unless the server may still handle it.
Answered(o, i) ==
    [o EXCEPT !.wire = IF @[i].server = "sent" THEN [@ EXCEPT ![i].waiting = FALSE]
                       ELSE Wires!RemoveAt(@, i)]

AtServer(o, i, outcome) ==
    [o EXCEPT !.wire = IF @[i].waiting THEN [@ EXCEPT ![i].server = outcome]
                       ELSE Wires!RemoveAt(@, i)]

-------------------------------------------------------------------------------
(* The page.                                                               *)

\* handleAnswerChange: the answer is held for 1 s; one held for another question is
\* sent now.
ChangeAnswer(k) ==
    /\ versions < MaxTyped
    /\ versions' = versions + 1
    /\ typed' = [typed EXCEPT ![k] = versions']
    /\ held' = One(k, versions')
    /\ outbox' = IF KeysOf(held) \subseteq {k} THEN outbox ELSE FlushHeld(outbox)
    /\ UNCHANGED <<inOrder, retryTimer, connected, saved, faults, historyVars>>

\* handleSubmitNext with an answer that changed.
SubmitAnswer(k) ==
    /\ versions < MaxTyped
    /\ versions' = versions + 1
    /\ typed' = [typed EXCEPT ![k] = versions']
    /\ held' = NoPatch
    /\ outbox' = QueueAnswer(FlushHeld(outbox), k, versions')
    /\ UNCHANGED <<inOrder, retryTimer, connected, saved, faults, historyVars>>

\* The debounce ends, or handleSubmitNext comes with an unchanged answer.
DebouncedSave ==
    /\ held # NoPatch
    /\ outbox' = FlushHeld(outbox)
    /\ held' = NoPatch
    /\ UNCHANGED <<inOrder, typed, versions, retryTimer, connected, saved, faults,
                   historyVars>>

-------------------------------------------------------------------------------
(* The hook.                                                               *)

\* connect: what was queued while the socket was down is flushed.
Connect ==
    /\ ~connected
    /\ connected' = TRUE
    /\ outbox' = FlushPending(outbox)
    /\ UNCHANGED <<inOrder, pageVars, retryTimer, saved, faults, historyVars>>

Disconnect ==
    /\ connected
    /\ faults < MaxFaults /\ faults' = faults + 1
    /\ connected' = FALSE
    /\ outbox' = [outbox EXCEPT !.wire =
                    [i \in DOMAIN @ |-> [@[i] EXCEPT !.live = FALSE]]]
    /\ UNCHANGED <<inOrder, pageVars, retryTimer, saved, historyVars>>

Messages == DOMAIN outbox.wire
Message(i) == outbox.wire[i]
Answer(i, outcome) == Message(i).waiting /\ Message(i).live /\ Message(i).server = outcome

Saved(i) ==
    /\ Answer(i, "saved")
    /\ outbox' = Answered(outbox, i)
    /\ UNCHANGED <<inOrder, pageVars, retryTimer, connected, saved, faults, historyVars>>

\* The 5 s timeout, a dropped connection, or {status: 'error'}.
NoAck(i) ==
    /\ Message(i).waiting
    /\ IF Message(i).live /\ Message(i).server # "failed"
       THEN faults < MaxFaults /\ faults' = faults + 1
       ELSE UNCHANGED faults
    /\ outbox' = Requeue(Answered(outbox, i), Message(i).answer)
    /\ retryTimer' = TRUE
    /\ UNCHANGED <<inOrder, pageVars, connected, saved, historyVars>>

\* A batch too big as a whole is split into saves per key.
SplitBatch(i) ==
    /\ Answer(i, "tooBig")
    /\ LET answer == Message(i).answer
       IN  /\ outbox' = EmitKeys(Answered(outbox, i), answer)
           /\ overtaken' = overtaken \cup {k \in KeysOf(answer) : outbox.latest[k] # answer[k]}
    /\ UNCHANGED <<inOrder, pageVars, retryTimer, connected, saved, faults, received, refused>>

\* Any other rejection is reported and not sent again.
GiveUpAnswer(i) ==
    /\ Answer(i, "refused")
    /\ outbox' = Answered(outbox, i)
    /\ refused' = refused \cup VersionsOf(Message(i).answer)
    /\ UNCHANGED <<inOrder, pageVars, retryTimer, connected, saved, faults, received,
                   overtaken>>

\* Mutant: the queue waits for the next connect.
RetryNothing ==
    /\ retryTimer
    /\ retryTimer' = FALSE
    /\ UNCHANGED <<inOrder, pageVars, outbox, connected, saved, faults, historyVars>>

RetrySave ==
    /\ retryTimer
    /\ retryTimer' = FALSE
    /\ outbox' = IF connected THEN FlushPending(outbox) ELSE outbox
    /\ UNCHANGED <<inOrder, pageVars, connected, saved, faults, historyVars>>

-------------------------------------------------------------------------------
(* The server.                                                             *)

\* A connection delivers in order; Go also handles in order.
InTurnAtServer(i) ==
    /\ Message(i).server = "sent"
    /\ inOrder /\ Message(i).live =>
          \A j \in 1..(i - 1) : ~(Message(j).live /\ Message(j).server = "sent")

StageAnswer(i) ==
    /\ InTurnAtServer(i)
    /\ saved' = Over(Message(i).answer, saved)
    /\ received' = received \cup VersionsOf(Message(i).answer)
    /\ outbox' = AtServer(outbox, i, "saved")
    /\ UNCHANGED <<inOrder, pageVars, retryTimer, connected, faults, refused, overtaken>>

\* Too many answers at once, a rejection of another kind, or an error.
RefuseAnswer(i) ==
    /\ InTurnAtServer(i)
    /\ faults < MaxFaults /\ faults' = faults + 1
    /\ \E outcome \in {"refused", "failed"} \cup
            IF Message(i).batch /\ Cardinality(KeysOf(Message(i).answer)) > 1
            THEN {"tooBig"} ELSE {} :
          outbox' = AtServer(outbox, i, outcome)
    /\ UNCHANGED <<inOrder, pageVars, retryTimer, connected, saved, historyVars>>

\* A dropped connection may lose what it carried.
LoseMessage(i) ==
    /\ Message(i).server = "sent" /\ ~Message(i).live
    /\ outbox' = AtServer(outbox, i, "lost")
    /\ UNCHANGED <<inOrder, pageVars, retryTimer, connected, saved, faults, historyVars>>

ClientHears(i) == Saved(i) \/ NoAck(i) \/ SplitBatch(i) \/ GiveUpAnswer(i)
ServerHandles(i) == StageAnswer(i) \/ RefuseAnswer(i) \/ LoseMessage(i)

OutboxNext ==
    \/ \E k \in Keys : ChangeAnswer(k) \/ SubmitAnswer(k)
    \/ DebouncedSave \/ Connect \/ Disconnect \/ RetrySave
    \/ \E i \in Messages : ClientHears(i) \/ ServerHandles(i)

OutboxSpec == OutboxInit /\ [][OutboxNext]_outboxVars

\* Timers fire, the network comes back, and the server answers what reaches it.
OutboxFairness ==
    /\ WF_outboxVars(DebouncedSave)
    /\ WF_outboxVars(Connect)
    /\ WF_outboxVars(RetrySave)
    /\ WF_outboxVars(\E i \in Messages : ClientHears(i))
    /\ WF_outboxVars(\E i \in Messages : Message(i).live /\ StageAnswer(i))

OutboxFairSpec == OutboxSpec /\ OutboxFairness

-------------------------------------------------------------------------------
(* Properties.                                                             *)

Patches == [Keys -> 0..MaxTyped]
ServerOutcomes == {"sent", "saved", "tooBig", "refused", "failed", "lost"}
WireMessages == [answer : Patches \ {NoPatch}, batch : BOOLEAN, live : BOOLEAN,
                 waiting : BOOLEAN, server : ServerOutcomes]
Outboxes == [pending : Patches, latest : Patches, wire : Seq(WireMessages)]

\* The types of the variables; at most one answer is held.
OutboxTypeOK ==
    /\ inOrder \in BOOLEAN
    /\ {typed, held, saved} \subseteq Patches /\ outbox \in Outboxes
    /\ Cardinality(KeysOf(held)) <= 1
    /\ {retryTimer, connected} \subseteq BOOLEAN
    /\ versions \in 0..MaxTyped /\ faults \in 0..MaxFaults
    /\ \A i \in Messages : Message(i).live => connected
    /\ {received, refused} \subseteq SUBSET (1..MaxTyped)
    /\ overtaken \subseteq Keys

InHand(k) ==
    \/ typed[k] \in {held[k], outbox.pending[k]}
    \/ \E i \in Messages : Message(i).waiting /\ Message(i).answer[k] = typed[k]

\* The server had the answer of the question, or refused it.
Settled(k) == typed[k] \in {0} \cup received \cup refused

\* "Emitting only when connected used to drop them silently" (useExamSocket.ts 54-56):
\* no answer falls between the debounce, the queue, the acks and the reconnects. What
\* the server has not had is still in hand.
OnItsWay == \A k \in Keys : Settled(k) \/ InHand(k)

\* The same, but for the keys of a batch split after a newer version was sent.
OnItsWayUnlessSplit == \A k \in Keys \ overtaken : Settled(k) \/ InHand(k)

\* "Never over a newer value queued or sent since" (200): where events are handled in
\* turn, the server's answer goes back to an older version only by a message of a
\* connection that was dropped or by a batch split too late.
NoRollback ==
    [][\A k \in Keys \ overtaken : saved'[k] < saved[k] =>
         \/ ~inOrder
         \/ \E i \in Messages : ~Message(i).live /\ Message(i).answer[k] = saved'[k]]_outboxVars

\* The same of the code's words, without the exception for a batch split too late.
NewestWins ==
    [][\A k \in Keys : inOrder /\ saved'[k] < saved[k] =>
         \E i \in Messages : ~Message(i).live /\ Message(i).answer[k] = saved'[k]]_outboxVars

\* Every answer gets to the server, with no further key typed and no page closed.
EventuallySaved == \A k \in Keys : []<>(Settled(k) \/ k \in overtaken)
===============================================================================
