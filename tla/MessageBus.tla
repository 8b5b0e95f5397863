------------------------------ MODULE MessageBus ------------------------------
(***************************************************************************)
(* The runtime's messaging path: the bounded FIFO queues of MessageBus and *)
(* the scheduler's use of them.  ControlTask and NetworkTask send one      *)
(* message to LoggerTask after each of their executions; LoggerTask        *)
(* receives at most one after each of its own.  A message is numbered      *)
(* before the fault injector decides whether it is dropped, and a message  *)
(* the queue refuses is dropped for good: nothing is ever retried.         *)
(***************************************************************************)
EXTENDS Integers, Sequences

CONSTANTS
  Tasks,       \* the configured tasks; each has a queue registered at start
  Producers,   \* the tasks that send after an execution
  LoggerTask,  \* the task every message is addressed to; it may be missing
  QueueLimit   \* queue_limit of each task

ASSUME BusAssumption ==
  /\ QueueLimit \in [Tasks -> Nat \ {0}]
  /\ LoggerTask \notin Producers

VARIABLES
  queues,                    \* the messages waiting in each task's queue
  next_message_sequence_id,  \* the id of the next message
  bus_log,                   \* how many of each message event were logged
  last_received              \* history: id of the message received last

busVars == <<queues, next_message_sequence_id, bus_log, last_received>>

Message == [source : Producers, sequence_id : Nat]
Events == {"sent", "queue_full", "fault_injected_drop", "received"}

BusInit ==
  /\ queues = [t \in Tasks |-> <<>>]
  /\ next_message_sequence_id = 1
  /\ bus_log = [e \in Events |-> 0]
  /\ last_received = 0

Logged(event) == bus_log' = [bus_log EXCEPT ![event] = @ + 1]

\* Mutant: one message more than the limit is taken.
Accepts_OneTooMany(target) ==
  /\ target \in Tasks
  /\ Len(queues[target]) <= QueueLimit[target]

\* The bus takes a message for a registered queue that is below its limit.
Accepts(target) ==
  /\ target \in Tasks
  /\ Len(queues[target]) < QueueLimit[target]

\* The queues once send has taken the message.
Enqueued(message) ==
  [queues EXCEPT ![LoggerTask] = Append(@, message)]

\* Mutant: a message dropped by a fault takes no number.
NextSequenceId_OnlyIfKept(dropped) ==
  IF dropped THEN next_message_sequence_id ELSE next_message_sequence_id + 1

\* The number is taken before the drop is decided.
NextSequenceId(dropped) == next_message_sequence_id + 1

\* sendMessageToLoggerTask; the caller says whether the fault injector drops
\* the message.  An unknown target is logged as a full queue.
SendMessageToLoggerTask(source, dropped) ==
  LET message == [source |-> source, sequence_id |-> next_message_sequence_id]
  IN  /\ next_message_sequence_id' = NextSequenceId(dropped)
      /\ \/ /\ dropped
            /\ Logged("fault_injected_drop")
            /\ UNCHANGED queues
         \/ /\ ~dropped
            /\ Accepts(LoggerTask)
            /\ queues' = Enqueued(message)
            /\ Logged("sent")
         \/ /\ ~dropped
            /\ ~Accepts(LoggerTask)
            /\ Logged("queue_full")
            /\ UNCHANGED queues
      /\ UNCHANGED last_received

\* Mutant: the message is read and left in the queue.
Dequeued_Peeked(task) == queues

\* The queues once receive has taken the oldest message.
Dequeued(task) == [queues EXCEPT ![task] = Tail(@)]

\* receiveMessageForTask: one message, or nothing when the queue is empty.
ReceiveMessageForTask(task) ==
  \/ /\ task \in Tasks
     /\ queues[task] # <<>>
     /\ queues' = Dequeued(task)
     /\ Logged("received")
     /\ last_received' = Head(queues[task]).sequence_id
     /\ UNCHANGED next_message_sequence_id
  \/ /\ task \in Tasks => queues[task] = <<>>
     /\ UNCHANGED busVars

\* handleTaskMessaging, called after each completed execution of a task.
HandleTaskMessaging(task, dropped) ==
  \/ task \in Producers /\ SendMessageToLoggerTask(task, dropped)
  \/ task = LoggerTask /\ ReceiveMessageForTask(task)
  \/ task \notin Producers \union {LoggerTask} /\ UNCHANGED busVars

BusNext ==
  \E task \in Tasks, dropped \in BOOLEAN : HandleTaskMessaging(task, dropped)

BusSpec == BusInit /\ [][BusNext]_busVars
-------------------------------------------------------------------------------
BusTypeOK ==
  /\ queues \in [Tasks -> Seq(Message)]
  /\ next_message_sequence_id \in Nat \ {0}
  /\ bus_log \in [Events -> Nat]
  /\ last_received \in Nat

Waiting == IF LoggerTask \in Tasks THEN queues[LoggerTask] ELSE <<>>

\* Every message that was numbered is accounted for by exactly one send-side
\* event, and every message logged as sent was received or is still waiting:
\* the totals the analyzer reports from the log always add up.
Accounting ==
  /\ next_message_sequence_id - 1 =
       bus_log["sent"] + bus_log["queue_full"] + bus_log["fault_injected_drop"]
  /\ bus_log["sent"] = bus_log["received"] + Len(Waiting)

\* Messages wait in the order they were numbered, all of them newer than what
\* LoggerTask received last: no delivery is repeated, reordered or invented.
Ordered ==
  /\ \A i, j \in 1..Len(Waiting) :
       i < j => Waiting[i].sequence_id < Waiting[j].sequence_id
  /\ \A i \in 1..Len(Waiting) :
       /\ last_received < Waiting[i].sequence_id
       /\ Waiting[i].sequence_id < next_message_sequence_id
  /\ last_received < next_message_sequence_id

\* No queue but LoggerTask's ever holds a message, and that one never exceeds
\* its limit.
Bounded ==
  /\ \A t \in Tasks : Len(queues[t]) <= QueueLimit[t]
  /\ \A t \in Tasks \ {LoggerTask} : queues[t] = <<>>

BusInv == BusTypeOK /\ Accounting /\ Ordered /\ Bounded

Channel == INSTANCE LossyFifo WITH
  produced <- next_message_sequence_id - 1,
  in_flight <- {Waiting[i].sequence_id : i \in 1..Len(Waiting)},
  delivered <- last_received

\* The bus implements the lossy channel: a message is lost when it is sent or
\* never, and the waiting ones are delivered in order, once.
ImplementsChannel == Channel!Spec
===============================================================================
