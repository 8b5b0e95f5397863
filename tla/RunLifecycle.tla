----------------------------- MODULE RunLifecycle -----------------------------
(***************************************************************************)
(* What a client may expect of a run: it is created, and it ends at most   *)
(* once.  A run that completed shows the log of its own execution, all of  *)
(* it and nothing else, for ever.                                          *)
(***************************************************************************)
CONSTANTS Runs, OwnLog(_), NoLog

VARIABLES status, log

vars == <<status, log>>

Init ==
  /\ status = [r \in Runs |-> "none"]
  /\ log = [r \in Runs |-> NoLog]

Create(r) ==
  /\ status[r] = "none"
  /\ status' = [status EXCEPT ![r] = "RUNNING"]
  /\ UNCHANGED log

Complete(r) ==
  /\ status[r] = "RUNNING"
  /\ status' = [status EXCEPT ![r] = "COMPLETED"]
  /\ log' = [log EXCEPT ![r] = OwnLog(r)]

Fail(r) ==
  /\ status[r] = "RUNNING"
  /\ status' = [status EXCEPT ![r] = "FAILED"]
  /\ UNCHANGED log

Next == \E r \in Runs : Create(r) \/ Complete(r) \/ Fail(r)

Spec == Init /\ [][Next]_vars
===============================================================================
