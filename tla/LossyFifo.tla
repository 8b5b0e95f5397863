------------------------------ MODULE LossyFifo ------------------------------
(***************************************************************************)
(* What the message bus promises to the tasks that use it: a channel that  *)
(* may lose a message when it is produced and never afterwards, and that   *)
(* delivers the messages it kept in the order they were produced, each at  *)
(* most once.  Nothing is said of why a message is lost (full queue,       *)
(* injected fault, missing receiver) or of how the kept ones are stored.   *)
(***************************************************************************)
EXTENDS Naturals

VARIABLES
  produced,   \* number of messages produced so far; they are numbered 1, 2, ...
  in_flight,  \* the numbers of the messages kept and not yet delivered
  delivered   \* the number of the last message delivered, 0 at first

vars == <<produced, in_flight, delivered>>

Init ==
  /\ produced = 0
  /\ in_flight = {}
  /\ delivered = 0

\* A message is produced; the channel keeps it or loses it, now.
Produce ==
  /\ produced' = produced + 1
  /\ in_flight' \in {in_flight, in_flight \union {produced + 1}}
  /\ UNCHANGED delivered

\* The oldest message in flight is delivered, and it is newer than the last.
Deliver ==
  \E n \in in_flight :
    /\ \A m \in in_flight : n <= m
    /\ n > delivered
    /\ in_flight' = in_flight \ {n}
    /\ delivered' = n
    /\ UNCHANGED produced

Next == Produce \/ Deliver

Spec == Init /\ [][Next]_vars
==============================================================================
