------------------------------ MODULE MCWatchdog ------------------------------
EXTENDS Watchdog
CONSTANTS
  MaxRuns,   \* executions of a task
  MaxClock   \* last instant

\* Enough executions for two full streaks with an on-time run between them, and
\* enough time for two cooldowns.
MCNext ==
  /\ Next
  /\ clock' <= MaxClock
  /\ \A t \in Tasks : run_count'[t] <= MaxRuns

MCSpec == Init /\ [][MCNext]_vars
===============================================================================
