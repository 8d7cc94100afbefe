---------------------------- MODULE TaskService ----------------------------
(***************************************************************************)
(* What the agent promises about the tasks the server gives it, without    *)
(* threads, mutexes, polling or HTTP: a session runs at most once at a     *)
(* time, at most MaxParallel sessions run together, and one run of a       *)
(* session puts at most one result on the server.  Agent implements it.    *)
(***************************************************************************)
EXTENDS Naturals, FiniteSets

CONSTANTS
  Sessions,     \* the session ids the server gives to tasks
  MaxParallel   \* max_parallel_tasks of the configuration

VARIABLES
  phase,        \* what the agent does with each session
  received      \* the results of its last run that reached the server

vars == <<phase, received>>

Outcome == {"done", "err"}

Busy == {s \in Sessions : phase[s] # "free"}

Init ==
  /\ phase = [s \in Sessions |-> "free"]
  /\ received = [s \in Sessions |-> {}]

\* A free session is taken while there is room for it.
Start(s) ==
  /\ phase[s] = "free"
  /\ Cardinality(Busy) < MaxParallel
  /\ phase' = [phase EXCEPT ![s] = "running"]
  /\ received' = [received EXCEPT ![s] = {}]

\* The one attempt to report the run: the server gets the result or nothing.
Report(s) ==
  /\ phase[s] = "running"
  /\ phase' = [phase EXCEPT ![s] = "reported"]
  /\ \/ UNCHANGED received
     \/ \E outcome \in Outcome : received' = [received EXCEPT ![s] = {outcome}]

Release(s) ==
  /\ phase[s] = "reported"
  /\ phase' = [phase EXCEPT ![s] = "free"]
  /\ UNCHANGED received

\* The process is gone; what the server has, it keeps, and one result may
\* have been on its way.
Crash ==
  /\ Busy # {}
  /\ phase' = [s \in Sessions |-> "free"]
  /\ \/ UNCHANGED received
     \/ \E s \in Busy, outcome \in Outcome :
          /\ phase[s] = "running"
          /\ received' = [received EXCEPT ![s] = {outcome}]

Next ==
  \/ \E s \in Sessions : Start(s) \/ Report(s) \/ Release(s)
  \/ Crash

Spec == Init /\ [][Next]_vars
=============================================================================
