---------------------------- MODULE MCRunService ----------------------------
EXTENDS RunService, TLC
CONSTANTS MaxRestarts  \* times the backend starts again
VARIABLE restarts

MCInit == Init /\ restarts = 0
MCNext ==
  /\ Next
  /\ restarts' = IF backend = "down" /\ backend' = "up" THEN restarts + 1 ELSE restarts
  /\ restarts' <= MaxRestarts

mcVars == <<vars, restarts>>
MCFairness == \A r \in Runs : WF_mcVars(Handle(r) /\ UNCHANGED restarts)

MCSpec == MCInit /\ [][MCNext]_mcVars /\ MCFairness
===============================================================================
