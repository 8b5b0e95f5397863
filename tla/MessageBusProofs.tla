--------------------------- MODULE MessageBusProofs ---------------------------
(***************************************************************************)
(* The invariant of the message bus is inductive as it stands, and with it *)
(* every step of the bus is a step of the lossy channel.  Only the queue   *)
(* of LoggerTask ever changes, so both arguments are about Waiting.        *)
(***************************************************************************)
EXTENDS MessageBus, TLAPS

\* The two ways a step changes the log.
Kept(source) ==
  /\ LoggerTask \in Tasks
  /\ Len(queues[LoggerTask]) < QueueLimit[LoggerTask]
  /\ Waiting' = Append(Waiting, [source |-> source,
                                 sequence_id |-> next_message_sequence_id])
  /\ queues' = [queues EXCEPT ![LoggerTask] = Waiting']
  /\ bus_log' = [bus_log EXCEPT !["sent"] = @ + 1]

Lost ==
  /\ UNCHANGED queues
  /\ \E event \in {"queue_full", "fault_injected_drop"} :
       bus_log' = [bus_log EXCEPT ![event] = @ + 1]

Taken ==
  /\ LoggerTask \in Tasks
  /\ Waiting # <<>>
  /\ Waiting' = Tail(Waiting)
  /\ queues' = [queues EXCEPT ![LoggerTask] = Waiting']
  /\ bus_log' = [bus_log EXCEPT !["received"] = @ + 1]
  /\ last_received' = Waiting[1].sequence_id
  /\ UNCHANGED next_message_sequence_id

\* A step sends a message that is kept or lost, or takes the oldest one.
LEMMA StepCases ==
  ASSUME BusTypeOK, [BusNext]_busVars
  PROVE  \/ /\ \E source \in Producers : Kept(source) \/ Lost
            /\ next_message_sequence_id' = next_message_sequence_id + 1
            /\ UNCHANGED last_received
         \/ Taken
         \/ UNCHANGED busVars
<1>1. CASE UNCHANGED busVars
  BY <1>1
<1>2. ASSUME NEW task \in Tasks, NEW dropped \in BOOLEAN, HandleTaskMessaging(task, dropped)
      PROVE  \/ /\ \E source \in Producers : Kept(source) \/ Lost
                /\ next_message_sequence_id' = next_message_sequence_id + 1
                /\ UNCHANGED last_received
             \/ Taken
             \/ UNCHANGED busVars
  <2>1. CASE task \in Producers /\ SendMessageToLoggerTask(task, dropped)
    <3>1. /\ next_message_sequence_id' = next_message_sequence_id + 1
          /\ UNCHANGED last_received
      BY <2>1 DEF SendMessageToLoggerTask, NextSequenceId
    <3>2. Kept(task) \/ Lost
      BY <2>1 DEF SendMessageToLoggerTask, Kept, Lost, Accepts, Enqueued,
                  Logged, Waiting, BusTypeOK
    <3>3. QED
      BY <2>1, <3>1, <3>2
  <2>2. CASE task = LoggerTask /\ ReceiveMessageForTask(task)
    BY <2>2 DEF ReceiveMessageForTask, Taken, Dequeued, Logged, Waiting,
                BusTypeOK, busVars
  <2>3. QED
    BY <1>2, <2>1, <2>2 DEF HandleTaskMessaging
<1>3. QED
  BY <1>1, <1>2 DEF BusNext

LEMMA WaitingType == BusTypeOK => Waiting \in Seq(Message)
  BY DEF BusTypeOK, Waiting

LEMMA WaitingNumbers ==
  ASSUME BusTypeOK
  PROVE  /\ Len(Waiting) \in Nat
         /\ \A i \in 1..Len(Waiting) : Waiting[i].sequence_id \in Nat
<1>1. Waiting \in Seq(Message)
  BY WaitingType
<1>2. Len(Waiting) \in Nat
  BY <1>1
<1>3. ASSUME NEW i \in 1..Len(Waiting) PROVE Waiting[i].sequence_id \in Nat
  <2>1. Waiting[i] \in Message
    BY <1>1
  <2>2. QED
    BY <2>1 DEF Message
<1>4. QED
  BY <1>2, <1>3

\* A logged event counts once, and only itself.
LEMMA LoggedOnce ==
  ASSUME BusTypeOK, NEW event \in Events, bus_log' = [bus_log EXCEPT ![event] = @ + 1]
  PROVE  /\ bus_log' \in [Events -> Nat]
         /\ \A e \in Events : /\ bus_log[e] \in Nat
                              /\ bus_log'[e] = IF e = event THEN bus_log[e] + 1 ELSE bus_log[e]
  BY DEF BusTypeOK

LEMMA OneMoreLost ==
  ASSUME NEW n \in Nat, NEW sent \in Nat,
         NEW full \in Nat, NEW fault \in Nat, NEW full1 \in Nat, NEW fault1 \in Nat,
         n - 1 = sent + full + fault,
         full1 + fault1 = full + fault + 1
  PROVE  (n + 1) - 1 = sent + full1 + fault1
  OBVIOUS

LEMMA InitInv == BusInit => BusInv
  BY BusAssumption DEF BusInit, BusInv, BusTypeOK, Accounting, Ordered, Bounded,
     Waiting, Events

\* A kept message is newer than all that wait; there was room for it.
LEMMA KeptInv ==
  ASSUME BusInv, NEW source \in Producers, Kept(source),
         next_message_sequence_id' = next_message_sequence_id + 1,
         UNCHANGED last_received
  PROVE  BusInv'
<1> DEFINE message == [source |-> source, sequence_id |-> next_message_sequence_id]
<1>1. message \in Message /\ Waiting \in Seq(Message)
  BY WaitingType DEF BusInv, BusTypeOK, Message
<1>2. Waiting' \in Seq(Message)
  BY <1>1 DEF Kept
<1>3. BusTypeOK'
  BY <1>2 DEF BusInv, BusTypeOK, Kept, Events
<1>4. Len(Waiting') = Len(Waiting) + 1
  BY <1>1 DEF Kept
<1>5. Accounting'
  <2>1. "sent" \in Events /\ bus_log' = [bus_log EXCEPT !["sent"] = @ + 1]
    BY DEF Kept, Events
  <2>2. /\ bus_log["sent"] \in Nat /\ bus_log'["sent"] = bus_log["sent"] + 1
        /\ \A e \in Events \ {"sent"} : bus_log[e] \in Nat /\ bus_log'[e] = bus_log[e]
    BY <2>1, LoggedOnce DEF BusInv
  <2>3. QED
    BY <1>4, <2>2, WaitingNumbers DEF BusInv, BusTypeOK, Accounting, Events
<1>6. \A i \in 1..Len(Waiting') :
        Waiting'[i] = IF i <= Len(Waiting) THEN Waiting[i] ELSE message
  BY <1>1, <1>4 DEF Kept
<1>7. \A i \in 1..Len(Waiting) : Waiting[i].sequence_id \in Nat
  BY WaitingNumbers DEF BusInv
<1>8. Ordered'
  <2>1. /\ next_message_sequence_id \in Nat /\ last_received \in Nat
        /\ Len(Waiting) \in Nat
        /\ message.sequence_id = next_message_sequence_id
    BY WaitingNumbers DEF BusInv, BusTypeOK
  <2>2. ASSUME NEW i \in 1..Len(Waiting'), NEW j \in 1..Len(Waiting'), i < j
        PROVE  Waiting'[i].sequence_id < Waiting'[j].sequence_id
    <3>1. i \in 1..Len(Waiting) /\ Waiting'[i] = Waiting[i]
      BY <1>4, <1>6, <2>1, <2>2
    <3>2. CASE j \in 1..Len(Waiting)
      BY <1>6, <2>1, <2>2, <3>1, <3>2 DEF BusInv, Ordered
    <3>3. CASE j \notin 1..Len(Waiting)
      BY <1>4, <1>6, <2>1, <2>2, <3>1, <3>3 DEF BusInv, Ordered
    <3>4. QED
      BY <3>2, <3>3
  <2>3. ASSUME NEW i \in 1..Len(Waiting')
        PROVE  /\ last_received < Waiting'[i].sequence_id
               /\ Waiting'[i].sequence_id < next_message_sequence_id + 1
    <3>1. CASE i \in 1..Len(Waiting)
      BY <1>6, <1>7, <2>1, <3>1 DEF BusInv, Ordered
    <3>2. CASE i \notin 1..Len(Waiting)
      BY <1>4, <1>6, <2>1, <3>2 DEF BusInv, Ordered
    <3>3. QED
      BY <3>1, <3>2
  <2>4. last_received < next_message_sequence_id + 1
    BY <2>1 DEF BusInv, Ordered
  <2>5. QED
    BY <2>2, <2>3, <2>4 DEF Ordered
<1>9. Bounded'
  <2>1. LoggerTask \in Tasks /\ Len(Waiting) < QueueLimit[LoggerTask] /\ Len(Waiting) \in Nat
    BY WaitingNumbers DEF BusInv, Kept, Waiting
  <2>2. \A t \in Tasks : queues'[t] = IF t = LoggerTask THEN Waiting' ELSE queues[t]
    BY DEF BusInv, BusTypeOK, Kept
  <2>3. Len(Waiting') <= QueueLimit[LoggerTask]
    BY <1>4, <2>1, BusAssumption
  <2>4. QED
    BY <2>2, <2>3 DEF BusInv, Bounded
<1>10. QED
  BY <1>3, <1>5, <1>8, <1>9 DEF BusInv

LEMMA LostInv ==
  ASSUME BusInv, Lost, next_message_sequence_id' = next_message_sequence_id + 1,
         UNCHANGED last_received
  PROVE  BusInv'
<1>1. Waiting' = Waiting
  BY DEF Lost, Waiting
<1>2. BusTypeOK'
  BY DEF BusInv, BusTypeOK, Lost, Events
<1>3. Accounting'
  <2>1. PICK event \in {"queue_full", "fault_injected_drop"} :
          bus_log' = [bus_log EXCEPT ![event] = @ + 1]
    BY DEF Lost
  <2>2. /\ bus_log[event] \in Nat /\ bus_log'[event] = bus_log[event] + 1
        /\ \A e \in Events \ {event} : bus_log[e] \in Nat /\ bus_log'[e] = bus_log[e]
    BY <2>1, LoggedOnce DEF BusInv, Events
  <2>3. /\ bus_log'["sent"] = bus_log["sent"]
        /\ bus_log'["received"] = bus_log["received"]
        /\ bus_log'["queue_full"] + bus_log'["fault_injected_drop"] =
             bus_log["queue_full"] + bus_log["fault_injected_drop"] + 1
        /\ \A e \in {"sent", "received", "queue_full", "fault_injected_drop"} :
             bus_log[e] \in Nat /\ bus_log'[e] \in Nat
    BY <2>2 DEF Events
  <2>4. next_message_sequence_id \in Nat
    BY DEF BusInv, BusTypeOK
  <2>5. /\ bus_log["sent"] \in Nat /\ bus_log["received"] \in Nat
        /\ bus_log["queue_full"] \in Nat /\ bus_log'["queue_full"] \in Nat
        /\ bus_log["fault_injected_drop"] \in Nat /\ bus_log'["fault_injected_drop"] \in Nat
    BY <2>3
  <2>6. next_message_sequence_id' - 1 =
          bus_log["sent"] + bus_log'["queue_full"] + bus_log'["fault_injected_drop"]
    <3>1. next_message_sequence_id - 1 =
            bus_log["sent"] + bus_log["queue_full"] + bus_log["fault_injected_drop"]
      BY DEF BusInv, Accounting
    <3>2. bus_log'["queue_full"] + bus_log'["fault_injected_drop"] =
            bus_log["queue_full"] + bus_log["fault_injected_drop"] + 1
      BY <2>3
    <3> DEFINE sent == bus_log["sent"]
               full == bus_log["queue_full"]
               fault == bus_log["fault_injected_drop"]
               full1 == bus_log'["queue_full"]
               fault1 == bus_log'["fault_injected_drop"]
    <3>3. /\ sent \in Nat /\ full \in Nat /\ fault \in Nat /\ full1 \in Nat /\ fault1 \in Nat
          /\ next_message_sequence_id - 1 = sent + full + fault
          /\ full1 + fault1 = full + fault + 1
      BY <2>5, <3>1, <3>2
    <3> HIDE DEF sent, full, fault, full1, fault1
    <3>4. (next_message_sequence_id + 1) - 1 = sent + full1 + fault1
      BY <2>4, <3>3, OneMoreLost
    <3>5. QED
      BY <3>4 DEF sent, full1, fault1
  <2>7. QED
    BY <1>1, <2>3, <2>6 DEF BusInv, Accounting
<1>4. \A i \in 1..Len(Waiting) : Waiting[i].sequence_id \in Nat
  BY WaitingNumbers DEF BusInv
<1>5. Ordered'
  <2>1. /\ next_message_sequence_id \in Nat /\ last_received \in Nat
        /\ next_message_sequence_id < next_message_sequence_id'
    BY DEF BusInv, BusTypeOK
  <2>2. \A i \in 1..Len(Waiting) :
          /\ last_received < Waiting[i].sequence_id
          /\ Waiting[i].sequence_id < next_message_sequence_id'
    BY <1>4, <2>1 DEF BusInv, Ordered
  <2>3. last_received < next_message_sequence_id'
    BY <2>1 DEF BusInv, Ordered
  <2>4. QED
    BY <1>1, <2>2, <2>3 DEF BusInv, Ordered
<1>6. Bounded'
  BY DEF BusInv, Bounded, Lost
<1>7. QED
  BY <1>2, <1>3, <1>5, <1>6 DEF BusInv

\* The oldest message is older than those left behind it.
LEMMA TakenInv == ASSUME BusInv, Taken PROVE BusInv'
<1>1. Waiting \in Seq(Message) /\ Waiting # <<>>
  BY WaitingType DEF BusInv, Taken
<1>2. /\ Waiting' \in Seq(Message)
      /\ Len(Waiting') = Len(Waiting) - 1
      /\ \A i \in 1..Len(Waiting') : Waiting'[i] = Waiting[i + 1]
  BY <1>1 DEF Taken
<1>3. /\ Len(Waiting) \in Nat /\ Len(Waiting) >= 1
      /\ \A i \in 1..Len(Waiting) : Waiting[i].sequence_id \in Nat
  BY <1>1, WaitingNumbers DEF BusInv
<1>4. BusTypeOK'
  BY <1>2, <1>3 DEF BusInv, BusTypeOK, Taken, Events
<1>5. Accounting'
  BY <1>2, <1>3 DEF BusInv, BusTypeOK, Accounting, Taken, Events
<1>6. Ordered'
  BY <1>2, <1>3 DEF BusInv, BusTypeOK, Ordered, Taken
<1>7. Bounded'
  <2>1. LoggerTask \in Tasks /\ Len(Waiting) <= QueueLimit[LoggerTask]
    BY DEF BusInv, Bounded, Taken, Waiting
  <2>2. \A t \in Tasks : queues'[t] = IF t = LoggerTask THEN Waiting' ELSE queues[t]
    BY DEF BusInv, BusTypeOK, Taken
  <2>3. Len(Waiting') <= QueueLimit[LoggerTask]
    BY <1>2, <1>3, <2>1, BusAssumption
  <2>4. QED
    BY <2>2, <2>3 DEF BusInv, Bounded
<1>8. QED
  BY <1>4, <1>5, <1>6, <1>7 DEF BusInv

LEMMA StepInv == ASSUME BusInv, [BusNext]_busVars PROVE BusInv'
<1>1. CASE UNCHANGED busVars
  BY <1>1 DEF BusInv, BusTypeOK, Accounting, Ordered, Bounded, Waiting, busVars
<1>2. QED
  BY <1>1, StepCases, KeptInv, LostInv, TakenInv DEF BusInv

LEMMA Inductive == BusSpec => []BusInv
  BY InitInv, StepInv, PTL DEF BusSpec

\* Queues, totals and numbers agree, whatever the tasks, limits and drops: the
\* log accounts for every number once, queues keep their limits and messages
\* their order.
THEOREM BusInvariant == BusSpec => [](BusTypeOK /\ Accounting /\ Ordered /\ Bounded)
<1>1. BusInv => BusTypeOK /\ Accounting /\ Ordered /\ Bounded
  BY DEF BusInv
<1>2. QED
  BY <1>1, Inductive, PTL

\* The log's totals always add up.
THEOREM TotalsAddUp == BusSpec => []Accounting
  BY BusInvariant, PTL

\* Messages wait in the order they were numbered, after what was received.
THEOREM MessagesKeepOrder == BusSpec => []Ordered
  BY BusInvariant, PTL

\* No queue exceeds its limit, and none but LoggerTask's is used.
THEOREM QueuesKeepLimits == BusSpec => []Bounded
  BY BusInvariant, PTL
-------------------------------------------------------------------------------
LEMMA InitChannel == BusInit => Channel!Init
  BY DEF BusInit, Channel!Init, Waiting

\* Losing a message is producing it without keeping it.
LEMMA LostIsProduce ==
  ASSUME BusInv, Lost, next_message_sequence_id' = next_message_sequence_id + 1,
         UNCHANGED last_received
  PROVE  Channel!Produce
<1>1. Waiting' = Waiting
  BY DEF Lost, Waiting
<1>2. next_message_sequence_id' - 1 = (next_message_sequence_id - 1) + 1
  BY DEF BusInv, BusTypeOK
<1>3. QED
  BY <1>1, <1>2 DEF Channel!Produce

LEMMA KeptIsProduce ==
  ASSUME BusInv, NEW source \in Producers, Kept(source),
         next_message_sequence_id' = next_message_sequence_id + 1,
         UNCHANGED last_received
  PROVE  Channel!Produce
<1> DEFINE message == [source |-> source, sequence_id |-> next_message_sequence_id]
           Numbers(s) == {s[i].sequence_id : i \in 1..Len(s)}
<1>1. message \in Message /\ Waiting \in Seq(Message) /\ next_message_sequence_id \in Nat
  BY WaitingType DEF BusInv, BusTypeOK, Message
<1>2. Waiting' = Append(Waiting, message)
  BY DEF Kept
<1>3. Numbers(Append(Waiting, message)) = Numbers(Waiting) \union {next_message_sequence_id}
  <2>1. /\ Len(Append(Waiting, message)) = Len(Waiting) + 1
        /\ Len(Waiting) \in Nat
        /\ Append(Waiting, message)[Len(Waiting) + 1] = message
        /\ \A i \in 1..Len(Waiting) : Append(Waiting, message)[i] = Waiting[i]
    BY <1>1
  <2>2. 1..(Len(Waiting) + 1) = (1..Len(Waiting)) \union {Len(Waiting) + 1}
    BY <2>1
  <2>3. QED
    BY <2>1, <2>2
<1>4. /\ next_message_sequence_id' - 1 = (next_message_sequence_id - 1) + 1
      /\ (next_message_sequence_id - 1) + 1 = next_message_sequence_id
  BY <1>1
<1>5. QED
  BY <1>2, <1>3, <1>4 DEF Channel!Produce

LEMMA TakenIsDeliver == ASSUME BusInv, Taken PROVE Channel!Deliver
<1> DEFINE Numbers(s) == {s[i].sequence_id : i \in 1..Len(s)}
           n == Waiting[1].sequence_id
<1>1. /\ Waiting \in Seq(Message) /\ Waiting # <<>>
      /\ Len(Waiting) \in Nat /\ Len(Waiting) >= 1
      /\ \A i \in 1..Len(Waiting) : Waiting[i].sequence_id \in Nat
  BY WaitingType, WaitingNumbers DEF BusInv, Taken
<1>2. /\ Len(Waiting') = Len(Waiting) - 1
      /\ \A i \in 1..Len(Waiting') : Waiting'[i] = Waiting[i + 1]
  BY <1>1 DEF Taken
<1>3. \A i \in 2..Len(Waiting) : n < Waiting[i].sequence_id
  BY <1>1 DEF BusInv, Ordered
<1>4. n \in Numbers(Waiting) /\ n > last_received
  BY <1>1 DEF BusInv, BusTypeOK, Ordered
<1>5. \A m \in Numbers(Waiting) : n <= m
  BY <1>1, <1>3
<1>6. Numbers(Waiting') = Numbers(Waiting) \ {n}
  <2>1. ASSUME NEW i \in 1..Len(Waiting')
        PROVE  Waiting'[i].sequence_id \in Numbers(Waiting) \ {n}
    BY <1>1, <1>2, <1>3, <2>1
  <2>2. ASSUME NEW i \in 1..Len(Waiting), Waiting[i].sequence_id # n
        PROVE  Waiting[i].sequence_id \in Numbers(Waiting')
    <3>1. i - 1 \in 1..Len(Waiting') /\ (i - 1) + 1 = i
      BY <1>1, <1>2, <2>2
    <3>2. QED
      BY <1>2, <3>1
  <2>3. QED
    BY <2>1, <2>2
<1>7. UNCHANGED (next_message_sequence_id - 1) /\ last_received' = n
  BY DEF Taken
<1>8. QED
  BY <1>4, <1>5, <1>6, <1>7 DEF Channel!Deliver

LEMMA StepChannel ==
  ASSUME BusInv, [BusNext]_busVars
  PROVE  [Channel!Next]_(Channel!vars)
<1>1. CASE UNCHANGED busVars
  BY <1>1 DEF busVars, Channel!vars, Waiting
<1>2. QED
  BY <1>1, StepCases, LostIsProduce, KeptIsProduce, TakenIsDeliver
     DEF BusInv, Channel!Next

\* The bus implements the lossy channel.
THEOREM BusImplementsChannel == BusSpec => ImplementsChannel
<1>1. QED
  BY InitChannel, StepChannel, Inductive, PTL DEF BusSpec, ImplementsChannel, Channel!Spec
===============================================================================
