------------------------- MODULE MCRestoreOccupancy --------------------------
(* Small instances of RestoreOccupancy for TLC: one to four restores with    *)
(* one agent, of one repository or of two.                                   *)
EXTENDS RestoreOccupancy, TLC

CONSTANTS d1, d2, f1, f2, p1, p2, a1

MCAgent == [r \in Restores |-> a1]
MCOneRepository == [r \in Restores |-> p1]
MCTwoRepositories == [r \in Restores |-> IF r \in {d1, f1} THEN p1 ELSE p2]
MCDisjoint == {}
MCOverlapping == Restores \X Restores

\* Restores of one kind and one repository are interchangeable.
RestoreSymmetry == Permutations(Databases) \cup Permutations(Restores \ Databases)

\* The instances explored together: one database restore with MaxFaults faults,
\* or with one fault and cancellation, and several restores side by side, without cancellation,
\* whose only fault is the job that runs before its request is stored.
Alone ==
  \E d \in Databases : \A r \in Restores \ {d} : status[r] = "absent"
WithinBounds ==
  /\ (\E r \in Restores : cancels'[r] > 0) => faults' <= 1
  /\ ~Alone' =>
       /\ \A r \in Restores : cancels'[r] = 0
       /\ Alone => faults = 0
       /\ faults' = faults \/ \E r \in Restores : TakeWithoutRequest(r)

MCSpec == Init /\ [][Next /\ WithinBounds]_vars
==============================================================================
