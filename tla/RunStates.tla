------------------------------ MODULE RunStates ------------------------------
(***************************************************************************)
(* The states of a row of the table "runs" and the only edges the store    *)
(* lets a caller take (store/sqlite.go).  "absent" stands for a row that   *)
(* has not been inserted yet.                                              *)
(***************************************************************************)

\* The six values model.Run.Status takes.
RunStatuses == {"queued", "dispatched", "running",
                "succeeded", "failed", "cancelled"}

\* isTerminal of the store.
Terminal == {"succeeded", "failed", "cancelled"}

\* The map validTransitions of the store; terminal states have no entry in the
\* Go map, which reads as the empty set.
validTransitions ==
  [queued     |-> {"dispatched", "failed", "cancelled"},
   dispatched |-> {"queued", "running", "succeeded", "failed", "cancelled"},
   running    |-> {"queued", "succeeded", "failed", "cancelled"},
   succeeded  |-> {},
   failed     |-> {},
   cancelled  |-> {}]

\* The three checks transitionRunOnce makes on the row it has just read:
\* the row is still in the state the caller saw, that state is not terminal,
\* and the edge is one of validTransitions.
CanTransition(current, from, to) ==
  /\ current = from
  /\ from \in RunStatuses \ Terminal
  /\ to \in validTransitions[from]

==============================================================================
