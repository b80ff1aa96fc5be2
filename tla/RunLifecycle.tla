---------------------------- MODULE RunLifecycle -----------------------------
(***************************************************************************)
(* What a run promises to the operator who reads its row, said without     *)
(* queues, streams, leases or agents.  RunDispatch implements it.          *)
(*                                                                         *)
(*   status[r]    the row's state;                                         *)
(*   starts[r]    how many times the pipeline of r was started anywhere;   *)
(*   completed    the runs whose pipeline ended successfully at least once.*)
(*                                                                         *)
(* The promises: a row moves along validTransitions only, except that a    *)
(* cancelled row is corrected to succeeded when the work turns out to be   *)
(* done; a row says succeeded only if the work was done; and an operation  *)
(* that is not retry-safe starts at most once and is never queued again    *)
(* once it has started.                                                    *)
(***************************************************************************)
EXTENDS Naturals, RunStates

CONSTANTS Runs,       \* run IDs
          Retryable   \* the runs whose operation is retry-safe

VARIABLES status, starts, completed

vars == <<status, starts, completed>>

Init ==
  /\ status = [r \in Runs |-> "absent"]
  /\ starts = [r \in Runs |-> 0]
  /\ completed = {}

Create(r) ==
  /\ status[r] = "absent"
  /\ status' = [status EXCEPT ![r] = "queued"]
  /\ UNCHANGED <<starts, completed>>

\* The row moves along an edge of validTransitions.
Advance(r, to) ==
  /\ CanTransition(status[r], status[r], to)
  /\ to = "succeeded" => r \in completed
  /\ (to = "queued" /\ r \notin Retryable) => starts[r] = 0
  /\ status' = [status EXCEPT ![r] = to]
  /\ UNCHANGED <<starts, completed>>

\* A late success corrects an optimistic cancellation.
Reconcile(r) ==
  /\ status[r] = "cancelled"
  /\ r \in completed
  /\ status' = [status EXCEPT ![r] = "succeeded"]
  /\ UNCHANGED <<starts, completed>>

\* The work starts.  The row may already be terminal: cancellation and
\* timeouts are best effort.
Start(r) ==
  /\ status[r] # "absent"
  /\ r \notin Retryable => starts[r] = 0 /\ status[r] # "queued"
  /\ starts' = [starts EXCEPT ![r] = @ + 1]
  /\ UNCHANGED <<status, completed>>

Complete(r) ==
  /\ starts[r] > 0
  /\ completed' = completed \cup {r}
  /\ UNCHANGED <<status, starts>>

Next ==
  \E r \in Runs :
    \/ Create(r)
    \/ \E to \in RunStatuses : Advance(r, to)
    \/ Reconcile(r)
    \/ Start(r)
    \/ Complete(r)

Spec == Init /\ [][Next]_vars

==============================================================================
