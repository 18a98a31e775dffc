------------------------- MODULE AppLifespanProofs -------------------------
(* Proofs about AppLifespan, for any number of attempts.                   *)
EXTENDS AppLifespan, TLAPS

\* Nothing is open before the producer is; the producer lives as long as the
\* relay; what is left at an exit without error is closed.
Started ==
    main = "starting" =>
        /\ producer = "none" /\ buffered = FALSE /\ relay = "none"
        /\ redis = FALSE /\ connection = "none" /\ consumer_task = "none"

ProducerLives ==
    main \in Serving \ {"stopping_producer"} => producer = "started"

RelayIsOver ==
    main = "stopping_producer" => relay = "ended" /\ producer = "closing"

ClosedAtExit ==
    main = "exited" /\ consumer_task # "died" =>
        /\ relay \in {"none", "ended"} /\ producer = "none"
        /\ buffered = FALSE /\ redis = FALSE

\* run_consumer connects only while it has an attempt left.
AttemptLeft == consumer_task \in {"none", "connecting"} => attempt < MaxAttempts

IInv == TypeOK /\ AttemptLeft /\ Started /\ ProducerLives /\ RelayIsOver /\ ClosedAtExit

(* The invariant holds in every state: each await of the shutdown leaves   *)
(* what the next one relies on.                                            *)
THEOREM Invariance == Spec => []IInv
<1>1. Init => IInv
  <2>1. 0 \in 0..MaxAttempts /\ 0 < MaxAttempts
    BY AppLifespanAssumption
  <2> QED
    BY <2>1, Zenon
    DEF Init, IInv, TypeOK, AttemptLeft, Started, ProducerLives, RelayIsOver,
        ClosedAtExit, Main, Serving, Shutdown, Over
<1>2. IInv /\ [Next]_vars => IInv'
  <2> SUFFICES ASSUME IInv, [Next]_vars PROVE IInv'
    OBVIOUS
  <2> USE AppLifespanAssumption
      DEF IInv, TypeOK, AttemptLeft, Started, ProducerLives, RelayIsOver,
          ClosedAtExit, Main, Serving, Shutdown, Over, consumer
  <2>1. CASE KafkaFails
    <3>1. kafka' \in BOOLEAN
      BY <2>1 DEF KafkaFails
    <3>2. UNCHANGED <<main, producer, buffered, consumer, relay, redis, cancelled>>
      BY <2>1 DEF KafkaFails
    <3> QED
      BY <3>1, <3>2
  <2>2. CASE KafkaRecovers
    BY <2>2 DEF KafkaRecovers
  <2>3. CASE Kill
    BY <2>3 DEF Kill
  <2>4. CASE Restart
    <3>1. 0 \in 0..MaxAttempts /\ 0 < MaxAttempts
      OBVIOUS
    <3>2. kafka' \in BOOLEAN
      BY <2>4 DEF Restart
    <3>3. /\ main' = "starting" /\ producer' = "none" /\ buffered' = FALSE
          /\ consumer_task' = "none" /\ attempt' = 0 /\ connection' = "none"
          /\ running' = FALSE /\ relay' = "none" /\ redis' = FALSE
          /\ cancelled' = {}
      BY <2>4 DEF Restart
    <3> QED
      BY <3>1, <3>2, <3>3, Zenon
  <2>5. CASE CheckHealth
    BY <2>5 DEF CheckHealth
  <2>6. CASE Delivered
    <3>1. buffered' \in BOOLEAN
      BY <2>6 DEF Delivered, Flush
    <3>2. main # "exited" /\ main # "starting"
      BY <2>6 DEF Delivered, Flush
    <3>3. UNCHANGED <<kafka, main, producer, consumer, relay, redis, cancelled>>
      BY <2>6 DEF Delivered, Flush
    <3> QED
      BY <3>1, <3>2, <3>3
  <2>7. CASE Expired
    <3>1. buffered' \in BOOLEAN
      BY <2>7 DEF Expired, Flush
    <3>2. main # "exited" /\ main # "starting"
      BY <2>7 DEF Expired, Flush
    <3>3. UNCHANGED <<kafka, main, producer, consumer, relay, redis, cancelled>>
      BY <2>7 DEF Expired, Flush
    <3> QED
      BY <3>1, <3>2, <3>3
  <2>8. CASE StopConsumer
    BY <2>8 DEF StopConsumer
  <2>9. CASE Lifespan
    <3>1. CASE ProducerStarts
      BY <3>1 DEF ProducerStarts
    <3>2. CASE ProducerFails
      BY <3>2 DEF ProducerFails
    <3>3. CASE CancelConsumer
      BY <3>3 DEF CancelConsumer
    <3>4. CASE StopRelay
      BY <3>4 DEF StopRelay
    <3>5. CASE ConsumerErrorRaised
      BY <3>5 DEF ConsumerErrorRaised
    <3>6. CASE StopProducer
      BY <3>6 DEF StopProducer
    <3>7. CASE Stopped
      BY <3>7 DEF Stopped
    <3> QED
      BY <2>9, <3>1, <3>2, <3>3, <3>4, <3>5, <3>6, <3>7 DEF Lifespan
  <2>10. CASE RunConsumer
    <3>1. CASE Connected
      BY <3>1 DEF Connected, ConsumerMay
    <3>2. CASE ConnectionError
      BY <3>2 DEF ConnectionError, ConsumerMay
    <3>3. CASE OtherError
      BY <3>3 DEF OtherError, ConsumerMay
    <3>4. CASE Retry
      BY <3>4 DEF Retry, ConsumerMay
    <3>5. CASE GiveUp
      BY <3>5 DEF GiveUp, ConsumerMay
    <3>6. CASE RunEnds
      BY <3>6 DEF RunEnds, ConsumerMay
    <3>7. CASE ConsumerCancelled
      BY <3>7 DEF ConsumerCancelled
    <3> QED
      BY <2>10, <3>1, <3>2, <3>3, <3>4, <3>5, <3>6, <3>7 DEF RunConsumer
  <2>11. CASE RunOutboxWorker
    <3>1. CASE StartBatch
      BY <3>1 DEF StartBatch, RelayMay
    <3>2. CASE Publish
      BY <3>2 DEF Publish, RelayMay
    <3>3. CASE SendEnds
      BY <3>3 DEF SendEnds, RelayMay
    <3>4. CASE EndBatch
      BY <3>4 DEF EndBatch, RelayMay
    <3>5. CASE RelayCancelled
      BY <3>5 DEF RelayCancelled
    <3> QED
      BY <2>11, <3>1, <3>2, <3>3, <3>4, <3>5 DEF RunOutboxWorker
  <2>12. CASE UNCHANGED vars
    BY <2>12 DEF vars
  <2> QED
    BY <2>1, <2>2, <2>3, <2>4, <2>5, <2>6, <2>7, <2>8,
       <2>9, <2>10, <2>11, <2>12 DEF Next
<1> QED
  BY <1>1, <1>2, PTL DEF Spec

(* The variables keep their types; in particular run_consumer makes no     *)
(* more than MaxAttempts attempts.                                         *)
THEOREM TypeCorrect == Spec => []TypeOK
<1>1. IInv => TypeOK
  BY DEF IInv
<1> QED
  BY <1>1, Invariance, PTL

(* process_batch always works with a started producer.                     *)
THEOREM RelayIsServed == Spec => []RelayHasProducer
<1>1. IInv => RelayHasProducer
  BY DEF IInv, TypeOK, Started, ProducerLives, RelayIsOver, RelayHasProducer,
         Serving, Shutdown
<1> QED
  BY <1>1, Invariance, PTL

(* A shutdown that no error of the consumer's task cuts short leaves no    *)
(* relay, producer, message or Redis client behind.                        *)
THEOREM OrderlyShutdown == Spec => []ShutdownIsOrderly
<1>1. IInv => ShutdownIsOrderly
  <2> SUFFICES ASSUME IInv, main = "exited", consumer_task # "died",
                      NEW part \in LeftOpen
               PROVE  part = "consumer"
    BY DEF ShutdownIsOrderly
  <2>1. /\ relay \in {"none", "ended"} /\ producer = "none"
        /\ buffered = FALSE /\ redis = FALSE
    BY DEF IInv, ClosedAtExit
  <2> QED
    BY <2>1 DEF LeftOpen
<1> QED
  BY <1>1, Invariance, PTL
=============================================================================
