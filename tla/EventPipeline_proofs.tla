------------------------ MODULE EventPipeline_proofs ------------------------
(***************************************************************************)
(* No event is lost silently between the outbox and the handlers, for any  *)
(* number of events, workers, partitions and faults.                       *)
(***************************************************************************)
EXTENDS EventPipeline, TLAPS

-----------------------------------------------------------------------------
(* Types.                                                                  *)

LEMMA TypeInit == Init => TypeOK
<1> SUFFICES ASSUME Init PROVE TypeOK
  OBVIOUS
<1>1. <<>> \in Seq(Events)
  OBVIOUS
<1>2. handled \in SUBSET Messages /\ failed \in SUBSET Messages
  BY DEF Init
<1>3. QED
  BY <1>1, <1>2 DEF Init, TypeOK

LEMMA TypeNext == TypeOK /\ ReaderIsInRange /\ [Next]_vars => TypeOK'
<1> SUFFICES ASSUME TypeOK, ReaderIsInRange, [Next]_vars PROVE TypeOK'
  OBVIOUS
<1> USE DEF TypeOK
<1>1. ASSUME NEW e \in Events, CreateOutboxEvent(e) PROVE TypeOK'
  BY <1>1 DEF CreateOutboxEvent, consumerVars
<1>2. ASSUME NEW w \in Workers, ListPending(w) PROVE TypeOK'
  BY <1>2 DEF ListPending, consumerVars, Pending
<1>3. ASSUME NEW p \in Partitions, NEW e \in Events, Append1(p, e)
      PROVE  topic' \in [Partitions -> Seq(Events)]
  BY <1>3 DEF Append1
<1>4. ASSUME NEW w \in Workers, Publish(w) PROVE TypeOK'
  BY <1>4, <1>3 DEF Publish, consumerVars
<1>5. ASSUME NEW w \in Workers, PublishError(w) PROVE TypeOK'
  BY <1>5, <1>3 DEF PublishError, consumerVars
<1>6. ASSUME NEW w \in Workers, NEW e \in Events, NextEvent(w, e)
      PROVE  /\ todo' \in [Workers -> SUBSET Events]
             /\ stage' \in [Workers -> {"publish", "SENT", "FAILED"}]
  BY <1>6 DEF NextEvent
<1>7. ASSUME NEW w \in Workers, Mark(w) PROVE TypeOK'
  BY <1>7, <1>6 DEF Mark, consumerVars
<1>8. ASSUME NEW w \in Workers, MarkError(w) PROVE TypeOK'
  BY <1>8, <1>6 DEF MarkError, Fault, consumerVars
<1>9. ASSUME NEW w \in Workers, WorkerRestart(w) PROVE TypeOK'
  BY <1>9 DEF WorkerRestart, Fault, consumerVars
<1>10. ASSUME NEW p \in Partitions, FetchMessage(p) PROVE TypeOK'
  <2>1. position' \in [Partitions -> Nat]
    BY <1>10 DEF FetchMessage
  <2>2. current' \in Partitions \cup {Nobody} /\ done' \in BOOLEAN
    BY <1>10 DEF FetchMessage
  <2>3. QED
    BY <1>10, <2>1, <2>2 DEF FetchMessage, workerVars
<1>11. current # Nobody => InWork \in Messages
  <2> SUFFICES ASSUME current # Nobody PROVE InWork \in Messages
    OBVIOUS
  <2>1. current \in Partitions /\ position[current] \in Nat \ {0}
    BY DEF ReaderIsInRange
  <2>2. QED
    BY <2>1 DEF InWork, Messages
<1>12. CASE Handle \/ HandleError
  <2>1. CASE Handle
    <3>1. handled' \in SUBSET Messages
      BY <1>11, <2>1 DEF Handle
    <3>2. QED
      BY <2>1, <3>1 DEF Handle, workerVars
  <2>2. CASE HandleError
    <3>1. failed' \in SUBSET Messages
      BY <1>11, <2>2 DEF HandleError
    <3>2. QED
      BY <2>2, <3>1 DEF HandleError, workerVars
  <2>3. QED
    BY <1>12, <2>1, <2>2
<1>13. CASE CommitMessages
  BY <1>13 DEF CommitMessages, workerVars
<1>14. CASE CommitError \/ ConsumerRestart
  BY <1>14 DEF CommitError, ConsumerRestart, Fault, workerVars
<1>15. CASE UNCHANGED vars
  BY <1>15 DEF vars, workerVars, consumerVars
<1>16. QED
  BY <1>1, <1>2, <1>4, <1>5, <1>7, <1>8, <1>9, <1>10, <1>12, <1>13, <1>14, <1>15
  DEF Next, ProcessOutboxEvents, ConsumeMessages, Faults

-----------------------------------------------------------------------------
(* What a step does to the topic, and to the reader.                       *)

\* A worker appends at most one message; nobody changes one.
TopicGrows ==
  \A p \in Partitions :
    /\ Len(topic[p]) <= Len(topic'[p])
    /\ \A i \in DOMAIN topic[p] : i \in DOMAIN topic'[p] /\ topic'[p][i] = topic[p][i]

LEMMA AppendGrows ==
  ASSUME TypeOK, NEW p \in Partitions, NEW e \in Events, Append1(p, e)
  PROVE  TopicGrows /\ InTopic(e)'
  BY DEF TypeOK, Append1, TopicGrows, InTopic

LEMMA TopicOnlyGrows == TypeOK /\ [Next]_vars => TopicGrows
<1> SUFFICES ASSUME TypeOK, [Next]_vars PROVE TopicGrows
  OBVIOUS
<1>1. CASE UNCHANGED topic
  BY <1>1 DEF TopicGrows, TypeOK
<1>2. ASSUME NEW w \in Workers, Publish(w) \/ PublishError(w) PROVE TopicGrows
  BY <1>1, <1>2, AppendGrows DEF Publish, PublishError, TypeOK
<1>3. QED
  BY <1>1, <1>2
  DEF Next, ProcessOutboxEvents, ConsumeMessages, Faults, CreateOutboxEvent, ListPending,
      Mark, MarkError, WorkerRestart, FetchMessage, Handle, HandleError, CommitMessages,
      CommitError, ConsumerRestart, vars

-----------------------------------------------------------------------------
(* The consumer: committed <= fetched, and what was fetched was attempted. *)

LEMMA ConsumerInit == Init => ReaderIsInRange /\ FetchedWasAttempted /\ AttemptsAreMessages
  BY DEF Init, ReaderIsInRange, FetchedWasAttempted, AttemptsAreMessages

\* What the workers do to the topic does not disturb the consumer.
LEMMA ConsumerUntouched ==
  ASSUME TypeOK, ReaderIsInRange, FetchedWasAttempted, AttemptsAreMessages,
         TopicGrows, UNCHANGED consumerVars
  PROVE  (ReaderIsInRange /\ FetchedWasAttempted /\ AttemptsAreMessages)'
<1>1. ReaderIsInRange'
  BY DEF TypeOK, ReaderIsInRange, TopicGrows, consumerVars
<1>2. FetchedWasAttempted'
  BY DEF FetchedWasAttempted, Attempted, consumerVars
<1>3. AttemptsAreMessages'
  BY DEF TypeOK, Messages, AttemptsAreMessages, TopicGrows, consumerVars
<1>4. QED
  BY <1>1, <1>2, <1>3

LEMMA ConsumerNext ==
  TypeOK /\ ReaderIsInRange /\ FetchedWasAttempted /\ AttemptsAreMessages /\ [Next]_vars
    => (ReaderIsInRange /\ FetchedWasAttempted /\ AttemptsAreMessages)'
<1> SUFFICES ASSUME TypeOK, ReaderIsInRange, FetchedWasAttempted, AttemptsAreMessages,
                    [Next]_vars
             PROVE  (ReaderIsInRange /\ FetchedWasAttempted /\ AttemptsAreMessages)'
  OBVIOUS
<1> DEFINE Goal == ReaderIsInRange' /\ FetchedWasAttempted' /\ AttemptsAreMessages'
<1> USE DEF TypeOK
<1>1. CASE UNCHANGED consumerVars
  BY <1>1, TopicOnlyGrows, ConsumerUntouched
<1>2. ASSUME NEW p \in Partitions, FetchMessage(p) PROVE Goal
  <2>1. ReaderIsInRange'
    BY <1>2 DEF FetchMessage, ReaderIsInRange
  <2>2. FetchedWasAttempted'
    <3>1. ASSUME NEW q \in Partitions, NEW i \in 1 .. position[q]
          PROVE  Attempted(<<q, i>>)
      BY <1>2, PipelineAssumption DEF FetchMessage, FetchedWasAttempted
    <3>2. QED
      <4> SUFFICES ASSUME NEW q \in Partitions, NEW i \in 1 .. position'[q]
                   PROVE  Attempted(<<q, i>>) \/ (p = q /\ i = position'[q])
        BY <1>2 DEF FetchMessage, FetchedWasAttempted, Attempted
      <4>1. position'[q] = IF q = p THEN position[q] + 1 ELSE position[q]
        BY <1>2 DEF FetchMessage
      <4>2. QED
        BY <3>1, <4>1
  <2>3. AttemptsAreMessages'
    BY <1>2 DEF FetchMessage, AttemptsAreMessages
  <2>4. QED
    BY <2>1, <2>2, <2>3
<1>3. CASE Handle
  <2>1. ReaderIsInRange'
    BY <1>3 DEF Handle, ReaderIsInRange
  <2>2. FetchedWasAttempted'
    BY <1>3 DEF Handle, FetchedWasAttempted, Attempted, InWork
  <2>3. AttemptsAreMessages'
    BY <1>3 DEF Handle, AttemptsAreMessages, ReaderIsInRange, InWork
  <2>4. QED
    BY <2>1, <2>2, <2>3
<1>4. CASE HandleError
  <2>1. ReaderIsInRange'
    BY <1>4 DEF HandleError, ReaderIsInRange
  <2>2. FetchedWasAttempted'
    BY <1>4 DEF HandleError, FetchedWasAttempted, Attempted, InWork
  <2>3. AttemptsAreMessages'
    BY <1>4 DEF HandleError, AttemptsAreMessages, ReaderIsInRange, InWork
  <2>4. QED
    BY <2>1, <2>2, <2>3
<1>5. CASE CommitMessages
  <2>1. ReaderIsInRange'
    BY <1>5 DEF CommitMessages, ReaderIsInRange
  <2>2. FetchedWasAttempted' /\ AttemptsAreMessages'
    BY <1>5 DEF CommitMessages, FetchedWasAttempted, AttemptsAreMessages, Attempted
  <2>3. QED
    BY <2>1, <2>2
<1>6. CASE CommitError
  BY <1>6 DEF CommitError, ReaderIsInRange, FetchedWasAttempted, AttemptsAreMessages, Attempted
<1>7. CASE ConsumerRestart
  <2>1. ReaderIsInRange' /\ AttemptsAreMessages'
    BY <1>7 DEF ConsumerRestart, ReaderIsInRange, AttemptsAreMessages
  <2>2. ASSUME NEW p \in Partitions, NEW i \in 1 .. committed[p]
        PROVE  Attempted(<<p, i>>)
    BY PipelineAssumption DEF ReaderIsInRange, FetchedWasAttempted
  <2>3. FetchedWasAttempted'
    BY <1>7, <2>2 DEF ConsumerRestart, FetchedWasAttempted, Attempted
  <2>4. QED
    BY <2>1, <2>3
<1>8. QED
  BY <1>1, <1>2, <1>3, <1>4, <1>5, <1>6, <1>7
  DEF Next, ConsumeMessages, Faults, ProcessOutboxEvents, CreateOutboxEvent, ListPending,
      Publish, PublishError, Mark, MarkError, WorkerRestart, vars

-----------------------------------------------------------------------------
(* The workers: what a mark says is so.                                    *)

\* Two workers may have the same first event; one worker has only one.
LEMMA OneFirst ==
  ASSUME TypeOK, NEW w \in Workers, NEW e \in Events, NEW f \in Events,
         First(w, e), First(w, f)
  PROVE  e = f
  BY PipelineAssumption DEF TypeOK, First, Events

LEMMA WorkerInit == Init => MarksAreTrue /\ OnlyRecordedEvents
  BY DEF Init, MarksAreTrue, OnlyRecordedEvents

\* What left the outbox stays known.
LEMMA LeavingIsFinal ==
  ASSUME TypeOK, TopicGrows, dropped \subseteq dropped', NEW e \in Events, LeftTheOutbox(e)
  PROVE  LeftTheOutbox(e)'
  BY DEF LeftTheOutbox, InTopic, TopicGrows

LEMMA WorkerNext ==
  TypeOK /\ MarksAreTrue /\ OnlyRecordedEvents /\ [Next]_vars
    => (MarksAreTrue /\ OnlyRecordedEvents)'
<1> SUFFICES ASSUME TypeOK, MarksAreTrue, OnlyRecordedEvents, [Next]_vars
             PROVE  MarksAreTrue' /\ OnlyRecordedEvents'
  OBVIOUS
<1> DEFINE Goal == MarksAreTrue' /\ OnlyRecordedEvents'
<1> USE DEF TypeOK
<1>0. TopicGrows
  BY TopicOnlyGrows
<1>1. CASE UNCHANGED <<workerVars, topic>>
  BY <1>1 DEF workerVars, MarksAreTrue, OnlyRecordedEvents, LeftTheOutbox, InTopic, First
<1>2. ASSUME NEW e \in Events, CreateOutboxEvent(e) PROVE Goal
  BY <1>2 DEF CreateOutboxEvent, MarksAreTrue, OnlyRecordedEvents, LeftTheOutbox, InTopic, First
<1>3. ASSUME NEW w \in Workers, ListPending(w) PROVE Goal
  <2>1. PICK batch \in SUBSET Pending : IsBatch(batch) /\ todo' = [todo EXCEPT ![w] = batch]
    BY <1>3 DEF ListPending
  <2>2. stage[w] = "publish"
    BY <1>3 DEF ListPending, MarksAreTrue
  <2>3. MarksAreTrue'
    BY <1>3, <2>1, <2>2 DEF ListPending, MarksAreTrue, LeftTheOutbox, InTopic, First
  <2>4. OnlyRecordedEvents'
    BY <1>3, <2>1 DEF ListPending, OnlyRecordedEvents, Pending
  <2>5. QED
    BY <2>3, <2>4
<1>4. ASSUME NEW w \in Workers, NEW e \in Events, First(w, e),
             stage[w] = "publish",
             \/ stage' = [stage EXCEPT ![w] = "SENT"] /\ LeftTheOutbox(e)'
             \/ stage' = [stage EXCEPT ![w] = "FAILED"] /\ e \in refused',
             \/ UNCHANGED topic
             \/ \E p \in Partitions : Append1(p, e),
             dropped \subseteq dropped', dropped' \subseteq dropped \cup {e},
             refused \subseteq refused', refused' \subseteq refused \cup {e},
             UNCHANGED <<status, todo>>
      PROVE  Goal
  <2>1. \A v \in Workers, f \in Events : First(v, f)' <=> First(v, f)
    BY <1>4 DEF First
  <2>2. ASSUME NEW v \in Workers, NEW f \in todo[v], First(v, f)
        PROVE  /\ stage'[v] = "SENT" => LeftTheOutbox(f)'
               /\ stage'[v] = "FAILED" => f \in refused'
    <3>1. CASE v = w
      BY <1>4, <2>2, <3>1, OneFirst
    <3>2. CASE v # w
      BY <1>0, <1>4, <2>2, <3>2, LeavingIsFinal DEF MarksAreTrue
    <3>3. QED
      BY <3>1, <3>2
  <2>3. MarksAreTrue'
    <3>1. \A f \in Events : status'[f] = "SENT" => LeftTheOutbox(f)'
      BY <1>0, <1>4, LeavingIsFinal DEF MarksAreTrue
    <3>2. \A v \in Workers : stage'[v] # "publish" => todo'[v] # {}
      BY <1>4 DEF MarksAreTrue, First
    <3>3. QED
      BY <1>4, <2>1, <2>2, <3>1, <3>2 DEF MarksAreTrue
  <2>4. OnlyRecordedEvents'
    <3>1. status[e] # "none"
      BY <1>4 DEF OnlyRecordedEvents, First
    <3>2. ASSUME NEW p \in Partitions, NEW i \in DOMAIN topic'[p]
          PROVE  status[topic'[p][i]] # "none"
      <4>1. CASE UNCHANGED topic
        BY <4>1 DEF OnlyRecordedEvents
      <4>2. ASSUME NEW q \in Partitions, Append1(q, e)
            PROVE  status[topic'[p][i]] # "none"
        <5>1. topic'[p][i] = e \/ (i \in DOMAIN topic[p] /\ topic'[p][i] = topic[p][i])
          BY <4>2 DEF Append1
        <5>2. QED
          BY <3>1, <5>1 DEF OnlyRecordedEvents
      <4>3. QED
        BY <1>4, <4>1, <4>2
    <3>3. QED
      BY <1>4, <3>1, <3>2 DEF OnlyRecordedEvents
  <2>5. QED
    BY <2>3, <2>4
<1>5. ASSUME NEW w \in Workers, Publish(w) PROVE Goal
  <2>1. PICK e \in todo[w] :
          /\ First(w, e)
          /\ \/ (\E p \in Partitions : Append1(p, e)) /\ UNCHANGED dropped
             \/ BrokerDrops /\ dropped' = dropped \cup {e} /\ UNCHANGED topic
    BY <1>5 DEF Publish
  <2>2. LeftTheOutbox(e)'
    BY <2>1, AppendGrows DEF LeftTheOutbox
  <2>3. QED
    BY <1>4, <1>5, <2>1, <2>2 DEF Publish
<1>6. ASSUME NEW w \in Workers, PublishError(w) PROVE Goal
  <2>1. PICK e \in todo[w] :
          /\ First(w, e)
          /\ refused' = refused \cup {e}
          /\ UNCHANGED topic \/ \E p \in Partitions : Append1(p, e)
    BY <1>6 DEF PublishError
  <2>2. QED
    BY <1>4, <1>6, <2>1 DEF PublishError
<1>7. ASSUME NEW w \in Workers, NEW left \in SUBSET todo[w],
             todo' = [todo EXCEPT ![w] = left],
             stage' = [stage EXCEPT ![w] = "publish"],
             UNCHANGED <<refused, dropped, topic>>,
             \/ UNCHANGED status
             \/ \E e \in todo[w] : /\ First(w, e)
                                   /\ stage[w] # "publish"
                                   /\ status' = [status EXCEPT ![e] = stage[w]]
      PROVE  Goal
  <2>1. \A e \in Events : LeftTheOutbox(e)' <=> LeftTheOutbox(e)
    BY <1>7 DEF LeftTheOutbox, InTopic
  <2>2. \A v \in Workers, e \in Events : v # w => (First(v, e)' <=> First(v, e))
    BY <1>7 DEF First
  <2>3. MarksAreTrue'
    <3>1. ASSUME NEW e \in Events
          PROVE  /\ status'[e] = "SENT" => LeftTheOutbox(e)
                 /\ status'[e] = "FAILED" => e \in refused
      BY <1>7 DEF MarksAreTrue
    <3>2. ASSUME NEW v \in Workers
          PROVE  /\ stage'[v] # "publish" => todo'[v] # {}
                 /\ \A e \in todo'[v] : First(v, e)' =>
                      /\ stage'[v] = "SENT" => LeftTheOutbox(e)
                      /\ stage'[v] = "FAILED" => e \in refused
      BY <1>7, <2>2 DEF MarksAreTrue
    <3>3. QED
      BY <1>7, <2>1, <3>1, <3>2 DEF MarksAreTrue
  <2>4. OnlyRecordedEvents'
    <3>1. \A e \in Events : status[e] # "none" => status'[e] # "none"
      BY <1>7
    <3>2. \A v \in Workers : todo'[v] \subseteq todo[v]
      BY <1>7
    <3>3. \A p \in Partitions : \A i \in DOMAIN topic[p] : topic[p][i] \in Events
      OBVIOUS
    <3>4. QED
      BY <1>7, <3>1, <3>2, <3>3 DEF OnlyRecordedEvents
  <2>5. QED
    BY <2>3, <2>4
<1>8. ASSUME NEW w \in Workers, Mark(w) \/ MarkError(w) PROVE Goal
  BY <1>7, <1>8 DEF Mark, MarkError, NextEvent
<1>9. ASSUME NEW w \in Workers, WorkerRestart(w) PROVE Goal
  BY <1>7, <1>9 DEF WorkerRestart
<1>10. QED
  BY <1>1, <1>2, <1>3, <1>5, <1>6, <1>8, <1>9
  DEF Next, ConsumeMessages, Faults, ProcessOutboxEvents, FetchMessage, Handle, HandleError,
      CommitMessages, CommitError, ConsumerRestart, vars

-----------------------------------------------------------------------------
(* Invariance.                                                             *)

LEMMA Invariance == Spec => []IInv
<1>1. Init => IInv
  BY TypeInit, ConsumerInit, WorkerInit DEF IInv
<1>2. IInv /\ [Next]_vars => IInv'
  BY TypeNext, ConsumerNext, WorkerNext DEF IInv
<1>3. QED
  BY <1>1, <1>2, PTL DEF Spec

\* The variables keep their types.
THEOREM TypeCorrect == Spec => []TypeOK
  BY Invariance, PTL DEF IInv

\* The consumer group's offset never passes a message that no handler has seen
\* (kafka consumer: FetchMessage, the handler, CommitMessages).
THEOREM OffsetsFollow == Spec => []CommitsFollowAttempts
<1>1. IInv => CommitsFollowAttempts
  <2> SUFFICES ASSUME IInv, NEW p \in Partitions
               PROVE  /\ committed[p] <= Len(topic[p])
                      /\ \A i \in 1 .. committed[p] : Attempted(<<p, i>>)
    BY DEF CommitsFollowAttempts
  <2>1. committed[p] <= Len(topic[p])
    BY DEF IInv, TypeOK, ReaderIsInRange
  <2>2. ASSUME NEW i \in 1 .. committed[p] PROVE Attempted(<<p, i>>)
    BY PipelineAssumption DEF IInv, TypeOK, ReaderIsInRange, FetchedWasAttempted
  <2>3. QED
    BY <2>1, <2>2
<1>2. QED
  BY <1>1, Invariance, PTL

\* An event that is no longer pending was published, was lost at the broker or is
\* marked with the writer's error, and a published one stays to be fetched until a
\* handler has had it (the outbox worker and the consumer together).
THEOREM NothingIsLost == Spec => []NoEventIsLostSilently
<1>1. IInv => NoEventIsLostSilently
  <2> SUFFICES ASSUME IInv, NEW e \in Events, status[e] \notin {"none", "PENDING"},
                      ~(status[e] = "FAILED" /\ e \in refused), e \notin dropped
               PROVE  \E p \in Partitions : \E i \in DOMAIN topic[p] :
                        topic[p][i] = e /\ (i > committed[p] \/ Attempted(<<p, i>>))
    BY DEF NoEventIsLostSilently
  <2>1. status[e] = "SENT"
    BY DEF IInv, TypeOK, MarksAreTrue
  <2>2. PICK p \in Partitions : \E i \in DOMAIN topic[p] : topic[p][i] = e
    BY <2>1 DEF IInv, MarksAreTrue, LeftTheOutbox, InTopic
  <2>3. PICK i \in DOMAIN topic[p] : topic[p][i] = e
    BY <2>2
  <2>4. i > committed[p] \/ Attempted(<<p, i>>)
    BY PipelineAssumption DEF IInv, TypeOK, ReaderIsInRange, FetchedWasAttempted
  <2>5. QED
    BY <2>3, <2>4
<1>2. QED
  BY <1>1, Invariance, PTL

-----------------------------------------------------------------------------
(* The pipeline implements the delivery of AtLeastOnce, but for its        *)
(* fairness.                                                               *)

Recorded == {e \in Events : status[e] # "none"}
Effective == OfMessages(handled) \cup Spoiled

\* What a message says does not change, nor does what a set of them says.
LEMMA MessagesStay ==
  ASSUME TypeOK, AttemptsAreMessages, TopicGrows
  PROVE  \A m \in handled \cup failed : topic'[m[1]][m[2]] = topic[m[1]][m[2]]
  BY DEF TypeOK, Messages, AttemptsAreMessages, TopicGrows

\* A step that leaves the handlers' history alone changes Effective by what is
\* refused or dropped.
LEMMA EffectiveByWorkers ==
  ASSUME IInv, [Next]_vars, UNCHANGED <<handled, failed>>,
         refused \subseteq refused', dropped \subseteq dropped'
  PROVE  Effective' = Effective \cup refused' \cup dropped'
<1>1. OfMessages(handled)' = OfMessages(handled) /\ OfMessages(failed)' = OfMessages(failed)
  BY MessagesStay, TopicOnlyGrows DEF IInv, OfMessages
<1>2. QED
  BY <1>1 DEF Effective, Spoiled

LEMMA OneMoreMessage ==
  ASSUME NEW ms
  PROVE  OfMessages(ms \cup {InWork}) = OfMessages(ms) \cup {topic[current][position[current]]}
<1> DEFINE of(m) == topic[m[1]][m[2]]
<1>1. {of(m) : m \in ms \cup {InWork}} = {of(m) : m \in ms} \cup {of(InWork)}
  <2> HIDE DEF of
  <2> QED
    OBVIOUS
<1>2. of(InWork) = topic[current][position[current]]
  BY DEF InWork
<1>3. QED
  BY <1>1, <1>2 DEF OfMessages

LEMMA DeliveryStep == IInv /\ [Next]_vars => [Delivery!Next]_(Delivery!deliveryVars)
<1> SUFFICES ASSUME IInv, [Next]_vars
             PROVE  \/ Recorded' = Recorded /\ Effective' = Effective
                    \/ \E e \in Events :
                         \/ /\ e \notin Recorded
                            /\ Recorded' = Recorded \cup {e}
                            /\ Effective' = Effective
                         \/ /\ e \in Recorded \ Effective
                            /\ Effective' = Effective \cup {e}
                            /\ Recorded' = Recorded
  BY DEF Recorded, Effective, Delivery!Next, Delivery!Record, Delivery!Deliver,
         Delivery!deliveryVars
<1> DEFINE Goal ==
      \/ Recorded' = Recorded /\ Effective' = Effective
      \/ \E e \in Events :
           \/ /\ e \notin Recorded
              /\ Recorded' = Recorded \cup {e}
              /\ Effective' = Effective
           \/ /\ e \in Recorded \ Effective
              /\ Effective' = Effective \cup {e}
              /\ Recorded' = Recorded
<1> USE DEF IInv, TypeOK
<1>1. ASSUME NEW e \in Recorded, Recorded' = Recorded,
             Effective' \subseteq Effective \cup {e}, Effective \subseteq Effective'
      PROVE  Goal
  BY <1>1 DEF Recorded
<1>2. ASSUME UNCHANGED <<refused, dropped, handled, failed>>
      PROVE  Effective' = Effective
  BY <1>2, EffectiveByWorkers DEF Effective, Spoiled
<1>3. ASSUME NEW e \in Events, CreateOutboxEvent(e) PROVE Goal
  <2>1. Effective' = Effective
    BY <1>2, <1>3 DEF CreateOutboxEvent, consumerVars
  <2>2. e \notin Recorded /\ Recorded' = Recorded \cup {e}
    BY <1>3 DEF CreateOutboxEvent, Recorded
  <2>3. QED
    BY <2>1, <2>2
<1>4. ASSUME UNCHANGED <<status, refused, dropped, handled, failed>> PROVE Goal
  BY <1>2, <1>4 DEF Recorded
<1>5. ASSUME NEW w \in Workers, Publish(w) \/ PublishError(w) PROVE Goal
  <2>1. PICK e \in todo[w] : /\ refused \subseteq refused'
                             /\ dropped \subseteq dropped'
                             /\ refused' \cup dropped' \subseteq refused \cup dropped \cup {e}
    BY <1>5 DEF Publish, PublishError
  <2>2. e \in Recorded
    BY DEF OnlyRecordedEvents, Recorded
  <2>3. Recorded' = Recorded /\ UNCHANGED <<handled, failed>>
    BY <1>5 DEF Publish, PublishError, Recorded, consumerVars
  <2>4. Effective' = Effective \cup refused' \cup dropped'
    BY <2>1, <2>3, EffectiveByWorkers
  <2>5. refused \cup dropped \subseteq Effective
    BY DEF Effective, Spoiled
  <2>6. QED
    BY <1>1, <2>1, <2>2, <2>3, <2>4, <2>5
<1>6. ASSUME NEW w \in Workers, Mark(w) PROVE Goal
  <2>1. PICK e \in todo[w] : status' = [status EXCEPT ![e] = stage[w]] /\ stage[w] # "publish"
    BY <1>6 DEF Mark
  <2>2. Recorded' = Recorded
    BY <2>1 DEF OnlyRecordedEvents, Recorded
  <2>3. QED
    BY <1>2, <1>6, <2>2 DEF Mark, consumerVars
<1>7. CASE Handle \/ HandleError
  <2> DEFINE e == topic[current][position[current]]
  <2>1. current \in Partitions /\ position[current] \in DOMAIN topic[current]
    BY <1>7 DEF Handle, HandleError, ReaderIsInRange
  <2>2. e \in Recorded
    BY <2>1 DEF OnlyRecordedEvents, Recorded
  <2>3. Recorded' = Recorded /\ topic' = topic
    BY <1>7 DEF Handle, HandleError, workerVars, Recorded
  <2>4. Effective' = Effective \cup {e}
    <3>1. CASE Handle
      <4>1. OfMessages(handled)' = OfMessages(handled) \cup {e}
        <5>1. OfMessages(handled)' = OfMessages(handled \cup {InWork})
          BY <2>3, <3>1 DEF Handle, OfMessages
        <5>2. QED
          BY <5>1, OneMoreMessage
      <4>2. Spoiled' = Spoiled
        BY <2>3, <3>1 DEF Handle, workerVars, Spoiled, OfMessages
      <4>3. QED
        BY <4>1, <4>2 DEF Effective
    <3>2. CASE HandleError
      <4>1. OfMessages(failed)' = OfMessages(failed) \cup {e}
        <5>1. OfMessages(failed)' = OfMessages(failed \cup {InWork})
          BY <2>3, <3>2 DEF HandleError, OfMessages
        <5>2. QED
          BY <5>1, OneMoreMessage
      <4>2. OfMessages(handled)' = OfMessages(handled) /\ UNCHANGED <<refused, dropped>>
        BY <2>3, <3>2 DEF HandleError, workerVars, OfMessages
      <4>3. QED
        BY <4>1, <4>2 DEF Effective, Spoiled
    <3>3. QED
      BY <1>7, <3>1, <3>2
  <2>5. QED
    BY <1>1, <2>2, <2>3, <2>4
<1>8. Goal
  BY <1>3, <1>4, <1>5, <1>6, <1>7
  DEF Next, ProcessOutboxEvents, ConsumeMessages, Faults, ListPending, MarkError,
      WorkerRestart, FetchMessage, CommitMessages, CommitError, ConsumerRestart, vars,
      workerVars, consumerVars
<1>9. QED
  BY <1>8

\* Nothing takes effect, is refused or is lost that no transaction recorded, and
\* each step is a recording, a first delivery or invisible: the pipeline is an
\* at-least-once delivery as far as safety goes.
THEOREM SafeDelivery == Spec => Delivery!Spec
<1>1. Init => Delivery!Init
  BY DEF Init, Delivery!Init, OfMessages, Spoiled
<1>2. QED
  BY <1>1, DeliveryStep, Invariance, PTL DEF Spec, Delivery!Spec
=============================================================================
