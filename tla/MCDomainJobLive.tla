-------------------------- MODULE MCDomainJobLive --------------------------
(***************************************************************************)
(* Progress of the job conditions: each thread makes a bounded number of   *)
(* requests, nobody times out and the daemon does not crash.               *)
(***************************************************************************)
EXTENDS DomainJob

CONSTANT MaxRequests  \* bound on the requests of one thread

VARIABLE budget       \* the requests each thread may still make

ThreadStep(t) == (Resume(t) \/ Finish(t)) /\ UNCHANGED budget

LiveInit == Init /\ budget = [t \in Threads |-> MaxRequests]

LiveNext ==
  \E t \in Threads :
    \/ budget[t] > 0 /\ Request(t) /\ budget' = [budget EXCEPT ![t] = @ - 1]
    \/ SetAsyncJobMask(t) /\ UNCHANGED budget
    \/ ThreadStep(t)

\* A woken thread gets the domain lock back, and an API ends the jobs it holds.
LiveSpec ==
  /\ LiveInit /\ [][LiveNext]_<<vars, budget>>
  /\ \A t \in Threads : WF_<<vars, budget>>(ThreadStep(t))

\* Every request is served without its time-out: no interleaving of normal, agent,
\* nested and asynchronous jobs leaves a thread asleep for ever or the job object
\* taken, once the callers stop making requests.
AllServed ==
  <>[](/\ job.active = "none" /\ job.agentActive = "none" /\ job.asyncJob = "none"
       /\ \A t \in Threads : pc[t] = "idle" /\ held[t] = "none")
=============================================================================
