--------------------------- MODULE MCRunDispatch -----------------------------
(* Small instances of RunDispatch for TLC: one or two runs of one repository *)
(* and one agent.                                                            *)
EXTENDS RunDispatch, TLC

CONSTANTS r1, r2, u1, p1, a1

MCOneRepository == [r \in Runs |-> p1]
MCAgent == [r \in Runs |-> a1]

\* Two retry-safe runs are interchangeable when neither is singled out by
\* Cancellable or MayTimeOut.
RunSymmetry == Permutations(Retryable)

\* A goroutine that has its result sends it and unregisters without a pause,
\* unless Execute has already missed the run in the cache; and Execute goes on
\* without one, but for a stream that breaks, unless the run it looks for is
\* registered. Only then can what others do in the pause change more than it
\* would just before or after.
Ending == {r \in Runs : agentRun[r] \notin {"none", "waiting", "executing"}
                        /\ looking[RunAgent[r]] # r}
Accepting == {a \in Agents : looking[a] # NoRun /\ agentRun[looking[a]] = "none"}
Prompt ==
  /\ Ending = {} \/ \E r \in Ending : SendResult(r) \/ Unregister(r)
  /\ Accepting = {} \/ \E a \in Accepting :
       AcceptCommand(a) \/ AcceptFails(a) \/ TempDirFails(a) \/ LinkBreaks(a)

\* The instances explored together: a retry-safe run with MaxFaults faults, or
\* an unsafe one with a single fault, cancellation and a deadline, of which at
\* most two are under way together. A failing build or temp directory, which
\* ends the run, is the first fault or none, and an agent restarts once.
Present == {r \in Runs : status[r] # "absent"}
PastDeadline(r) == watchdog[r] \notin {"none", "queued", "expired"}
UnsafeBounds ==
  /\ faults <= 1
  /\ \A r \in Present : faults = 0 \/ canceller[r] = "none" \/ ~PastDeadline(r)
WithinBounds ==
  /\ Present' \subseteq Retryable \/ (Present' \cap Retryable = {} /\ UnsafeBounds')
  /\ faults = 1 /\ faults' = 2 =>
       /\ \A p \in Repositories : ~BuildFails(p)
       /\ \A a \in Agents : ~TempDirFails(a) /\ restarts'[a] <= 1

MCSpec == Init /\ [][Next /\ Prompt /\ WithinBounds]_vars

\* Two runs of a repository: a fault comes after both were created and enqueued.
\* Rows without a job under faults are in the instances above.
EnqueuedBeforeFault == faults > 0 => created = {} /\ Present = Runs

\* A second fault is a command that cannot be built.
ThenBuildFails == faults' = 2 => faults = 2 \/ \E p \in Repositories : BuildFails(p)

MCPairSpec == Init /\ [][Next /\ Prompt /\ EnqueuedBeforeFault' /\ ThenBuildFails]_vars

\* Liveness: a run with MaxFaults faults, or one that is cancelled or fails and
\* meets none; Execute is not interrupted between its two checks. No action
\* that is fair is blocked for good.
CancelOrFault == \A r \in Runs : canceller[r] # "none" => faults = 0
FailOrFault == \A r \in Runs : agentRun[r] = "failed" => faults = 0
Handling == \A a \in Agents : looking[a] # NoRun => looking'[a] = NoRun

MCFairSpec ==
  Init /\ [][Next /\ Prompt /\ Handling /\ (CancelOrFault /\ FailOrFault)']_vars /\ Fairness
==============================================================================
