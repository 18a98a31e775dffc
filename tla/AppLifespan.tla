---------------------------- MODULE AppLifespan ----------------------------
(***************************************************************************)
(* The life of one worker process (lifespan in main.py): start the         *)
(* producer, run the consumer and the relay as tasks while requests are    *)
(* served, and stop everything in order.  One event loop runs three tasks: *)
(* main, the consumer's and the relay's; what a task does between two      *)
(* awaits is one step.                                                     *)
(*                                                                         *)
(* A cancelled task gets its CancelledError at its next step, whatever it  *)
(* was waiting for, and no handler of the code catches it: from cancel()   *)
(* on the only step of the task is to end.                                 *)
(***************************************************************************)
EXTENDS Naturals

CONSTANT MaxAttempts   \* max_retries of run_consumer: 10

ASSUME AppLifespanAssumption == MaxAttempts \in Nat \ {0}

VARIABLES
    kafka,           \* the brokers can be reached
    main,            \* where lifespan is
    producer,        \* the producer singleton
    buffered,        \* it holds a message that is not delivered yet
    consumer_task,   \* run_consumer
    attempt,         \* the attempts of run_consumer that have failed
    connection,      \* the AIOKafkaConsumer of the latest DocumentConsumer
    running,         \* _running of the latest DocumentConsumer
    relay,           \* run_outbox_worker
    redis,           \* the Redis client exists
    cancelled        \* the tasks whose cancel() has been called

consumer == <<consumer_task, attempt, connection, running>>
vars     == <<kafka, main, producer, buffered, consumer, relay, redis, cancelled>>

\* "stopping", "joining_consumer", "joining_relay" and "stopping_producer" are
\* the awaits of the code after yield.  The process has ended when main has
\* "exited" or was "killed".
Shutdown == {"stopping", "joining_consumer", "joining_relay", "stopping_producer"}
Serving  == {"serving"} \cup Shutdown
Over     == {"exited", "killed"}
Main     == {"starting"} \cup Serving \cup Over

TypeOK ==
    /\ kafka         \in BOOLEAN
    /\ main          \in Main
    /\ producer      \in {"none", "started", "closing"}
    /\ buffered      \in BOOLEAN
    /\ consumer_task \in {"none", "connecting", "running", "sleeping", "ended", "died"}
    /\ attempt       \in 0..MaxAttempts
    /\ connection    \in {"none", "opening", "open", "closed"}
    /\ running       \in BOOLEAN
    /\ relay         \in {"none", "sleeping", "in_batch", "sending", "ended"}
    /\ redis         \in BOOLEAN
    /\ cancelled     \subseteq {"consumer", "relay"}

\* The module variables are None.
Init ==
    /\ kafka \in BOOLEAN
    /\ main = "starting"
    /\ producer = "none" /\ buffered = FALSE
    /\ consumer_task = "none" /\ attempt = 0
    /\ connection = "none" /\ running = FALSE
    /\ relay = "none" /\ redis = FALSE /\ cancelled = {}

-----------------------------------------------------------------------------
(* The environment.                                                        *)

KafkaFails ==
    /\ kafka
    /\ kafka' = FALSE
    /\ UNCHANGED <<main, producer, buffered, consumer, relay, redis, cancelled>>

KafkaRecovers ==
    /\ ~kafka
    /\ kafka' = TRUE
    /\ UNCHANGED <<main, producer, buffered, consumer, relay, redis, cancelled>>

\* SIGKILL, or a crash.
Kill ==
    /\ main \notin Over
    /\ main' = "killed"
    /\ UNCHANGED <<kafka, producer, buffered, consumer, relay, redis, cancelled>>

\* The process is started again.
Restart ==
    /\ main \in Over
    /\ main' = "starting"
    /\ producer' = "none" /\ buffered' = FALSE
    /\ consumer_task' = "none" /\ attempt' = 0
    /\ connection' = "none" /\ running' = FALSE
    /\ relay' = "none" /\ redis' = FALSE /\ cancelled' = {}
    /\ UNCHANGED kafka

-----------------------------------------------------------------------------
(* The producer's own task.                                                *)

\* The message leaves the buffer.
Flush ==
    /\ main \notin Over
    /\ buffered
    /\ buffered' = FALSE
    /\ UNCHANGED <<kafka, main, producer, consumer, relay, redis, cancelled>>

Delivered == kafka /\ Flush

\* While Kafka is away the producer may give up; it may as well wait.
Expired == ~kafka /\ Flush

-----------------------------------------------------------------------------
(* lifespan up to yield.                                                   *)

\* get_kafka_producer returns; both tasks are created.
ProducerStarts ==
    /\ main = "starting"
    /\ kafka
    /\ producer' = "started"
    /\ consumer_task' = "connecting"
    /\ connection' = "opening"
    /\ relay' = "sleeping"
    /\ main' = "serving"
    /\ UNCHANGED <<kafka, buffered, attempt, running, redis, cancelled>>

\* get_kafka_producer raises: uvicorn ends the process.
ProducerFails ==
    /\ main = "starting"
    /\ ~kafka
    /\ main' = "exited"
    /\ UNCHANGED <<kafka, producer, buffered, consumer, relay, redis, cancelled>>

\* A health check, the only user of get_redis.
CheckHealth ==
    /\ main = "serving"
    /\ redis' = TRUE
    /\ UNCHANGED <<kafka, main, producer, buffered, consumer, relay, cancelled>>

-----------------------------------------------------------------------------
(* The consumer's task.                                                    *)

ConsumerMay(state) ==
    /\ main \in Serving
    /\ "consumer" \notin cancelled
    /\ consumer_task = state

\* DocumentConsumer.start returns and sets _running, also when stop() has been
\* called meanwhile.
Connected ==
    /\ ConsumerMay("connecting")
    /\ connection = "closed" \/ kafka
    /\ connection' = IF connection = "closed" THEN "closed" ELSE "open"
    /\ running' = TRUE
    /\ consumer_task' = "running"
    /\ UNCHANGED <<kafka, main, producer, buffered, attempt, relay, redis, cancelled>>

\* start raises KafkaConnectionError; run_consumer sleeps.
ConnectionError ==
    /\ ConsumerMay("connecting")
    /\ connection = "closed" \/ ~kafka
    /\ attempt' = attempt + 1
    /\ connection' = IF connection = "closed" THEN "closed" ELSE "none"
    /\ consumer_task' = "sleeping"
    /\ UNCHANGED <<kafka, main, producer, buffered, running, relay, redis, cancelled>>

\* start raises something else, an unknown topic or a refused group, say: the
\* task ends with that error.
OtherError ==
    /\ ConsumerMay("connecting")
    /\ consumer_task' = "died"
    /\ UNCHANGED <<kafka, main, producer, buffered, attempt, connection, running,
                   relay, redis, cancelled>>

\* Mutant of Retry: "while True" instead of ten attempts.
RetryForever ==
    /\ ConsumerMay("sleeping")
    /\ connection' = "opening"
    /\ running' = FALSE
    /\ consumer_task' = "connecting"
    /\ UNCHANGED <<kafka, main, producer, buffered, attempt, relay, redis, cancelled>>

\* The next attempt, with a DocumentConsumer of its own.
Retry ==
    /\ ConsumerMay("sleeping")
    /\ attempt < MaxAttempts
    /\ connection' = "opening"
    /\ running' = FALSE
    /\ consumer_task' = "connecting"
    /\ UNCHANGED <<kafka, main, producer, buffered, attempt, relay, redis, cancelled>>

\* It was the last one: run_consumer logs and returns.
GiveUp ==
    /\ ConsumerMay("sleeping")
    /\ attempt = MaxAttempts
    /\ consumer_task' = "ended"
    /\ UNCHANGED <<kafka, main, producer, buffered, attempt, connection, running,
                   relay, redis, cancelled>>

\* The loop of DocumentConsumer.run, which survives every error, finds that
\* it has been stopped.
RunEnds ==
    /\ ConsumerMay("running")
    /\ ~running
    /\ consumer_task' = "ended"
    /\ UNCHANGED <<kafka, main, producer, buffered, attempt, connection, running,
                   relay, redis, cancelled>>

ConsumerCancelled ==
    /\ main \in Serving
    /\ "consumer" \in cancelled
    /\ consumer_task \in {"connecting", "running", "sleeping"}
    /\ consumer_task' = "ended"
    /\ UNCHANGED <<kafka, main, producer, buffered, attempt, connection, running,
                   relay, redis, cancelled>>

-----------------------------------------------------------------------------
(* The relay's task.                                                       *)

RelayMay(state) ==
    /\ main \in Serving
    /\ "relay" \notin cancelled
    /\ relay = state

\* process_batch begins: get_kafka_producer makes a producer if there is none.
StartBatch ==
    /\ RelayMay("sleeping")
    /\ relay' = "in_batch"
    /\ producer' = IF producer = "none" THEN "started" ELSE producer
    /\ UNCHANGED <<kafka, main, buffered, consumer, redis, cancelled>>

Publish ==
    /\ RelayMay("in_batch")
    /\ relay' = "sending"
    /\ buffered' = TRUE
    /\ UNCHANGED <<kafka, main, producer, consumer, redis, cancelled>>

\* send_and_wait returns, or raises, and the event is marked.
SendEnds ==
    /\ RelayMay("sending")
    /\ ~buffered
    /\ relay' = "in_batch"
    /\ UNCHANGED <<kafka, main, producer, buffered, consumer, redis, cancelled>>

EndBatch ==
    /\ RelayMay("in_batch")
    /\ relay' = "sleeping"
    /\ UNCHANGED <<kafka, main, producer, buffered, consumer, redis, cancelled>>

\* The transaction is rolled back; a message in the producer stays there.
RelayCancelled ==
    /\ main \in Serving
    /\ "relay" \in cancelled
    /\ relay # "ended"
    /\ relay' = "ended"
    /\ UNCHANGED <<kafka, main, producer, buffered, consumer, redis, cancelled>>

-----------------------------------------------------------------------------
(* lifespan after yield.                                                   *)

\* stop_consumer calls stop() of the latest DocumentConsumer and awaits it.
StopConsumer ==
    /\ main = "serving"
    /\ main' = "stopping"
    /\ running' = FALSE
    /\ connection' = IF connection = "none" THEN "none" ELSE "closed"
    /\ UNCHANGED <<kafka, producer, buffered, consumer_task, attempt, relay,
                   redis, cancelled>>

\* Mutant of CancelConsumer: stop() is trusted to end the task.
JoinWithoutCancel ==
    /\ main = "stopping"
    /\ main' = "joining_consumer"
    /\ UNCHANGED <<kafka, producer, buffered, consumer, relay, redis, cancelled>>

CancelConsumer ==
    /\ main = "stopping"
    /\ main' = "joining_consumer"
    /\ cancelled' = cancelled \cup {"consumer"}
    /\ UNCHANGED <<kafka, producer, buffered, consumer, relay, redis>>

\* Mutant of StopRelay: the producer is stopped before the relay.
StopProducerFirst ==
    /\ main = "joining_consumer"
    /\ consumer_task = "ended"
    /\ main' = "stopping_producer"
    /\ producer' = "closing"
    /\ UNCHANGED <<kafka, buffered, consumer, relay, redis, cancelled>>

\* await consumer_task returns, or raises CancelledError; stop_outbox_worker
\* cancels its task.
StopRelay ==
    /\ main = "joining_consumer"
    /\ consumer_task = "ended"
    /\ main' = "joining_relay"
    /\ cancelled' = cancelled \cup {"relay"}
    /\ UNCHANGED <<kafka, producer, buffered, consumer, relay, redis>>

\* await consumer_task raises the error that the task ended with, and lifespan
\* ends with it.
ConsumerErrorRaised ==
    /\ main = "joining_consumer"
    /\ consumer_task = "died"
    /\ main' = "exited"
    /\ UNCHANGED <<kafka, producer, buffered, consumer, relay, redis, cancelled>>

\* stop_kafka_producer: stop() waits for what is in the buffer.
StopProducer ==
    /\ main = "joining_relay"
    /\ relay = "ended"
    /\ main' = "stopping_producer"
    /\ producer' = "closing"
    /\ UNCHANGED <<kafka, buffered, consumer, relay, redis, cancelled>>

\* Mutant of Stopped: close_redis is missing.
StoppedWithoutRedis ==
    /\ main = "stopping_producer"
    /\ ~buffered
    /\ producer' = "none"
    /\ main' = "exited"
    /\ UNCHANGED <<kafka, buffered, consumer, relay, redis, cancelled>>

\* The producer is stopped; close_redis.
Stopped ==
    /\ main = "stopping_producer"
    /\ ~buffered
    /\ producer' = "none"
    /\ redis' = FALSE
    /\ main' = "exited"
    /\ UNCHANGED <<kafka, buffered, consumer, relay, cancelled>>

-----------------------------------------------------------------------------
Lifespan ==
    \/ ProducerStarts \/ ProducerFails
    \/ CancelConsumer \/ StopRelay \/ ConsumerErrorRaised \/ StopProducer \/ Stopped

RunConsumer ==
    \/ Connected \/ ConnectionError \/ OtherError
    \/ Retry \/ GiveUp \/ RunEnds \/ ConsumerCancelled

RunOutboxWorker ==
    StartBatch \/ Publish \/ SendEnds \/ EndBatch \/ RelayCancelled

Next ==
    \/ KafkaFails \/ KafkaRecovers \/ Kill \/ Restart \/ CheckHealth \/ StopConsumer
    \/ Lifespan \/ RunConsumer \/ RunOutboxWorker \/ Delivered \/ Expired

\* The event loop runs every task that can go on, outages end, and the
\* producer uses the times between them.  Nobody is obliged to stop the
\* process.
Fairness ==
    /\ WF_vars(Lifespan) /\ WF_vars(RunConsumer) /\ WF_vars(RunOutboxWorker)
    /\ WF_vars(KafkaRecovers) /\ SF_vars(Delivered)

Spec     == Init /\ [][Next]_vars
FairSpec == Spec /\ Fairness

-----------------------------------------------------------------------------
(* The relay works with a started producer: none is made anew by           *)
(* get_kafka_producer during shutdown, publish_raw never finds it stopped, *)
(* and no message is left to a producer that is gone.                      *)
RelayHasProducer ==
    main \in Serving =>
        /\ relay \in {"in_batch", "sending"} => producer = "started"
        /\ buffered => producer # "none"

\* What an exit leaves to the operating system.
LeftOpen ==
    { part \in {"consumer", "relay", "producer", "message", "redis"} :
        CASE part = "consumer" -> connection \in {"opening", "open"}
          [] part = "relay"    -> relay \notin {"none", "ended"}
          [] part = "producer" -> producer # "none"
          [] part = "message"  -> buffered
          [] part = "redis"    -> redis }

(* "graceful shutdown" (README, "Стабильная работа"): a process that ends   *)
(* by itself has stopped everything that it started.  The code after yield *)
(* is skipped from "await consumer_task" on if that task ended with an     *)
(* error.                                                                  *)
GracefulShutdown == main = "exited" => LeftOpen = {}

(* Only an error of the consumer's task spoils the shutdown: without one,  *)
(* the relay has ended, the producer has sent what it held, and Redis is   *)
(* closed.  (A consumer may remain that run_consumer's retry created after *)
(* stop_consumer had stopped the one before.)                              *)
ShutdownIsOrderly ==
    main = "exited" /\ consumer_task # "died" => LeftOpen \subseteq {"consumer"}

(* A shutdown ends, whatever the tasks are waiting for when it comes: a    *)
(* connection, a sleep of run_consumer, an acknowledgement.                *)
ShutdownEnds == main \in Shutdown ~> main \in Over
=============================================================================
