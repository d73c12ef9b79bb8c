---------------------------- MODULE EventPipeline ----------------------------
(***************************************************************************)
(* From the outbox to the side effects: the worker (cmd/worker) polls the  *)
(* outbox_events table and publishes each pending event to the Kafka topic *)
(* order.events; the consumer (cmd/consumer) reads the topic, clears carts *)
(* and sends e-mails, and commits offsets.                                 *)
(*                                                                         *)
(* An event is the rank of its created_at, which is the start of the       *)
(* transaction that wrote it: rows may appear in another order.  What the  *)
(* handlers do is left out: a handler succeeds, or returns an error.       *)
(***************************************************************************)
EXTENDS Naturals, Sequences, FiniteSets

CONSTANTS
  MaxEvent,       \* bound: outbox rows
  Workers,        \* outbox processors, two while a deployment is replaced
  Partitions,     \* of the topic
  Nobody,         \* the partition an idle consumer works on
  BatchSize,      \* LIMIT of the poll
  MaxFaults,      \* bound: crashes, failed marks, failed commits
  PublishErrors,  \* may the writer return an error
  BrokerDrops,    \* may the broker lose what the writer wrote
  HandlerErrors   \* may a handler return an error

ASSUME PipelineAssumption ==
  /\ MaxEvent \in Nat
  /\ Nobody \notin Partitions
  /\ BatchSize \in Nat \ {0}
  /\ MaxFaults \in Nat
  /\ {PublishErrors, BrokerDrops, HandlerErrors} \subseteq BOOLEAN

Events == 1 .. MaxEvent

VARIABLES
  status,     \* outbox_events.status, or "none" before the row is committed
  todo,       \* per worker: the events of its batch still to be processed
  stage,      \* per worker: publish the first of them, or how to mark it
  topic,      \* per partition: the messages
  committed,  \* per partition: how many messages the group has committed
  position,   \* per partition: how many messages the reader has fetched
  current,    \* the partition whose last fetched message is in work
  done,       \* is the message in work handled, and only to be committed
  handled,    \* history: messages whose handler succeeded
  failed,     \* history: messages whose handler returned an error
  refused,    \* history: events whose publication returned an error
  dropped,    \* history: events the broker lost
  faults

workerVars   == <<status, todo, stage, refused, dropped>>
consumerVars == <<committed, position, current, done, handled, failed>>
vars == <<workerVars, topic, consumerVars, faults>>

Messages == Partitions \X (Nat \ {0})

TypeOK ==
  /\ status \in [Events -> {"none", "PENDING", "SENT", "FAILED"}]
  /\ todo \in [Workers -> SUBSET Events]
  /\ stage \in [Workers -> {"publish", "SENT", "FAILED"}]
  /\ topic \in [Partitions -> Seq(Events)]
  /\ committed \in [Partitions -> Nat]
  /\ position \in [Partitions -> Nat]
  /\ current \in Partitions \cup {Nobody}
  /\ done \in BOOLEAN
  /\ handled \in SUBSET Messages
  /\ failed \in SUBSET Messages
  /\ refused \in SUBSET Events
  /\ dropped \in SUBSET Events
  /\ faults \in Nat

Init ==
  /\ status = [e \in Events |-> "none"]
  /\ todo = [w \in Workers |-> {}]
  /\ stage = [w \in Workers |-> "publish"]
  /\ topic = [p \in Partitions |-> <<>>]
  /\ committed = [p \in Partitions |-> 0]
  /\ position = [p \in Partitions |-> 0]
  /\ current = Nobody
  /\ done = FALSE
  /\ handled = {}
  /\ failed = {}
  /\ refused = {}
  /\ dropped = {}
  /\ faults = 0

Fault == faults < MaxFaults /\ faults' = faults + 1

-----------------------------------------------------------------------------
(* The outbox.                                                             *)

\* The transaction of a checkout or of an order update commits its event.
CreateOutboxEvent(e) ==
  /\ status[e] = "none"
  /\ status' = [status EXCEPT ![e] = "PENDING"]
  /\ UNCHANGED <<todo, stage, refused, dropped, topic, consumerVars, faults>>

Pending == {e \in Events : status[e] = "PENDING"}

\* The first BatchSize of the pending events by created_at.
IsBatch(batch) ==
  /\ batch # {}
  /\ Cardinality(batch) <= BatchSize
  /\ batch # Pending => Cardinality(batch) = BatchSize
  /\ \A e \in batch, f \in Pending \ batch : e < f

-----------------------------------------------------------------------------
(* The worker.  Nothing is locked between the poll and the marks, and a    *)
(* mark does not look at the status it overwrites.                         *)

First(w, e) == e \in todo[w] /\ \A f \in todo[w] : e <= f

\* Mutant: the poll claims the events by marking them.
ListPendingClaims(w) ==
  /\ todo[w] = {}
  /\ \E batch \in SUBSET Pending :
       /\ IsBatch(batch)
       /\ todo' = [todo EXCEPT ![w] = batch]
       /\ status' = [e \in Events |-> IF e \in batch THEN "SENT" ELSE status[e]]
  /\ UNCHANGED <<stage, refused, dropped, topic, consumerVars, faults>>

ListPending(w) ==
  /\ todo[w] = {}
  /\ \E batch \in SUBSET Pending : IsBatch(batch) /\ todo' = [todo EXCEPT ![w] = batch]
  /\ UNCHANGED <<status, stage, refused, dropped, topic, consumerVars, faults>>

\* The balancer looks at the bytes written so far, not at the key.
Append1(p, e) == topic' = [topic EXCEPT ![p] = Append(@, e)]

\* The writer asks for no acknowledgement: without an error the message is in
\* the topic, or lost on the way.
Publish(w) ==
  /\ stage[w] = "publish"
  /\ \E e \in todo[w] :
       /\ First(w, e)
       /\ \/ (\E p \in Partitions : Append1(p, e)) /\ UNCHANGED dropped
          \/ BrokerDrops /\ dropped' = dropped \cup {e} /\ UNCHANGED topic
  /\ stage' = [stage EXCEPT ![w] = "SENT"]
  /\ UNCHANGED <<status, todo, refused, consumerVars, faults>>

\* An error says nothing about what reached the broker.
PublishError(w) ==
  /\ PublishErrors
  /\ stage[w] = "publish"
  /\ \E e \in todo[w] :
       /\ First(w, e)
       /\ refused' = refused \cup {e}
       /\ UNCHANGED topic \/ \E p \in Partitions : Append1(p, e)
  /\ stage' = [stage EXCEPT ![w] = "FAILED"]
  /\ UNCHANGED <<status, todo, dropped, consumerVars, faults>>

NextEvent(w, e) ==
  /\ todo' = [todo EXCEPT ![w] = @ \ {e}]
  /\ stage' = [stage EXCEPT ![w] = "publish"]

\* Mutant: a failure is stored under a value nobody declared.
MarkRetry(w) ==
  /\ stage[w] # "publish"
  /\ \E e \in todo[w] :
       /\ First(w, e)
       /\ status' = [status EXCEPT ![e] = IF stage[w] = "SENT" THEN "SENT" ELSE "RETRY"]
       /\ NextEvent(w, e)
  /\ UNCHANGED <<refused, dropped, topic, consumerVars, faults>>

\* MarkSent or MarkFailed.
Mark(w) ==
  /\ stage[w] # "publish"
  /\ \E e \in todo[w] :
       /\ First(w, e)
       /\ status' = [status EXCEPT ![e] = stage[w]]
       /\ NextEvent(w, e)
  /\ UNCHANGED <<refused, dropped, topic, consumerVars, faults>>

\* The statement fails: the event stays as it was and the loop goes on.
MarkError(w) ==
  /\ stage[w] # "publish"
  /\ Fault
  /\ \E e \in todo[w] : First(w, e) /\ NextEvent(w, e)
  /\ UNCHANGED <<status, refused, dropped, topic, consumerVars>>

\* A crash, or a shutdown: its cancelled context fails the writer and the mark.
WorkerRestart(w) ==
  /\ Fault
  /\ todo' = [todo EXCEPT ![w] = {}]
  /\ stage' = [stage EXCEPT ![w] = "publish"]
  /\ UNCHANGED <<status, refused, dropped, topic, consumerVars>>

-----------------------------------------------------------------------------
(* The consumer.                                                           *)

\* Mutant: ReadMessage, which commits what it fetches.
ReadMessage(p) ==
  /\ current = Nobody
  /\ position[p] < Len(topic[p])
  /\ position' = [position EXCEPT ![p] = @ + 1]
  /\ committed' = [committed EXCEPT ![p] = position[p] + 1]
  /\ current' = p
  /\ done' = FALSE
  /\ UNCHANGED <<workerVars, topic, handled, failed, faults>>

FetchMessage(p) ==
  /\ current = Nobody
  /\ position[p] < Len(topic[p])
  /\ position' = [position EXCEPT ![p] = @ + 1]
  /\ current' = p
  /\ done' = FALSE
  /\ UNCHANGED <<workerVars, topic, committed, handled, failed, faults>>

InWork == <<current, position[current]>>

Handle ==
  /\ current # Nobody
  /\ ~done
  /\ handled' = handled \cup {InWork}
  /\ done' = TRUE
  /\ UNCHANGED <<workerVars, topic, committed, position, current, failed, faults>>

\* The error is logged, and the loop fetches the next message.
HandleError ==
  /\ HandlerErrors
  /\ current # Nobody
  /\ ~done
  /\ failed' = failed \cup {InWork}
  /\ current' = Nobody
  /\ UNCHANGED <<workerVars, topic, committed, position, done, handled, faults>>

\* A committed offset stands for the message and for all before it.
CommitMessages ==
  /\ current # Nobody
  /\ done
  /\ committed' = [committed EXCEPT ![current] = position[current]]
  /\ current' = Nobody
  /\ UNCHANGED <<workerVars, topic, position, done, handled, failed, faults>>

CommitError ==
  /\ current # Nobody
  /\ done
  /\ Fault
  /\ current' = Nobody
  /\ UNCHANGED <<workerVars, topic, committed, position, done, handled, failed>>

ConsumerRestartLast ==
  /\ Fault
  /\ position' = [p \in Partitions |-> Len(topic[p])]
  /\ current' = Nobody
  /\ UNCHANGED <<workerVars, topic, committed, done, handled, failed>>

\* A crash, a shutdown or a rebalance of the group: the reader starts again
\* from the committed offsets.
ConsumerRestart ==
  /\ Fault
  /\ position' = committed
  /\ current' = Nobody
  /\ UNCHANGED <<workerVars, topic, committed, done, handled, failed>>

-----------------------------------------------------------------------------

ProcessOutboxEvents(w) ==
  ListPending(w) \/ Publish(w) \/ PublishError(w) \/ Mark(w)

ConsumeMessages ==
  \/ \E p \in Partitions : FetchMessage(p)
  \/ Handle
  \/ HandleError
  \/ CommitMessages

Faults ==
  \/ \E w \in Workers : MarkError(w) \/ WorkerRestart(w)
  \/ CommitError
  \/ ConsumerRestart

Next ==
  \/ \E e \in Events : CreateOutboxEvent(e)
  \/ \E w \in Workers : ProcessOutboxEvents(w)
  \/ ConsumeMessages
  \/ Faults

Spec == Init /\ [][Next]_vars

\* Both loops poll for ever.  How often they fail is bounded by MaxFaults, and
\* nothing makes an order service write events.
Fairness ==
  /\ \A w \in Workers : WF_vars(ProcessOutboxEvents(w))
  /\ WF_vars(ConsumeMessages)

FairSpec == Spec /\ Fairness

-----------------------------------------------------------------------------
(* Safety.                                                                 *)

InTopic(e) == \E p \in Partitions : \E i \in DOMAIN topic[p] : topic[p][i] = e

Attempted(m) == m \in handled \cup failed

\* No event disappears without an error or a loss at the broker: until then it
\* is pending, or a message the reader will fetch again after a restart, or a
\* message some handler has had, whatever crashes between publish and mark and
\* whatever two workers do to the same row.
NoEventIsLostSilently ==
  \A e \in Events :
    \/ status[e] \in {"none", "PENDING"}
    \/ status[e] = "FAILED" /\ e \in refused
    \/ e \in dropped
    \/ \E p \in Partitions : \E i \in DOMAIN topic[p] :
         topic[p][i] = e /\ (i > committed[p] \/ Attempted(<<p, i>>))

\* The committed offset never passes a message no handler has seen, whichever
\* commits fail and wherever the consumer restarts.
CommitsFollowAttempts ==
  \A p \in Partitions :
    /\ committed[p] <= Len(topic[p])
    /\ \A i \in 1 .. committed[p] : Attempted(<<p, i>>)

(* Why they hold: the inductive invariant.                                 *)

\* The reader is never behind the committed offset nor past the end, and a
\* message in work is the last one it fetched.
ReaderIsInRange ==
  /\ \A p \in Partitions : committed[p] <= position[p] /\ position[p] <= Len(topic[p])
  /\ current # Nobody => committed[current] < position[current]

\* What was fetched has met a handler, but for the message in work.
FetchedWasAttempted ==
  \A p \in Partitions : \A i \in 1 .. position[p] :
    Attempted(<<p, i>>) \/ (current = p /\ ~done /\ i = position[p])

\* Handlers have seen only messages that are there.
AttemptsAreMessages ==
  \A m \in handled \cup failed : m[2] \in DOMAIN topic[m[1]]

\* Published, or lost at the broker.
LeftTheOutbox(e) == InTopic(e) \/ e \in dropped

\* A mark, done or still to be done, tells what became of the event.
MarksAreTrue ==
  /\ \A e \in Events : status[e] = "SENT" => LeftTheOutbox(e)
  /\ \A e \in Events : status[e] = "FAILED" => e \in refused
  /\ \A w \in Workers : stage[w] # "publish" => todo[w] # {}
  /\ \A w \in Workers : \A e \in todo[w] : First(w, e) =>
       /\ stage[w] = "SENT" => LeftTheOutbox(e)
       /\ stage[w] = "FAILED" => e \in refused

\* Nothing is worked on, published, refused or lost but committed rows.
OnlyRecordedEvents ==
  /\ \A w \in Workers : \A e \in todo[w] : status[e] # "none"
  /\ \A e \in refused \cup dropped : status[e] # "none"
  /\ \A p \in Partitions : \A i \in DOMAIN topic[p] : status[topic[p][i]] # "none"

IInv ==
  /\ TypeOK
  /\ ReaderIsInRange
  /\ FetchedWasAttempted
  /\ AttemptsAreMessages
  /\ MarksAreTrue
  /\ OnlyRecordedEvents

(* What must happen.                                                       *)

OfMessages(ms) == {topic[m[1]][m[2]] : m \in ms}

\* What no later step makes up for: the writer's error, a loss at the broker, an
\* error of the handler.
Spoiled == refused \cup dropped \cup OfMessages(failed)

\* But for these three the pipeline is an at-least-once delivery: every recorded
\* event takes effect, or is known to one of them, through crashes, restarts,
\* failed marks and failed commits, and nothing takes effect unrecorded.
Delivery == INSTANCE AtLeastOnce WITH
              recorded <- {e \in Events : status[e] # "none"},
              effective <- OfMessages(handled) \cup Spoiled

ImplementsAtLeastOnce == Delivery!FairSpec

(* What the repository says and the code does not do (refuted).            *)

\* email-notification-flow.md: when a handler fails the offset is not committed
\* and the same event is tried again, so a committed message was handled.
CommittedWasHandled ==
  \A p \in Partitions : \A i \in 1 .. committed[p] : <<p, i>> \in handled
=============================================================================
