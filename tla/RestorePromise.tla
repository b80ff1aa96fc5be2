--------------------------- MODULE RestorePromise ----------------------------
(***************************************************************************)
(* What the agent promises of one restore, said without engines, commands, *)
(* streams or rows.  RestoreOccupancy builds the server's decisions on it  *)
(* and RestoreExecution keeps it command by command.                       *)
(*                                                                         *)
(*   stage      how far the pipeline is; before the command arrives the    *)
(*              restore counts as preparing;                               *)
(*   target     what the target holds: its original content, something     *)
(*              else, or the whole snapshot;                               *)
(*   protected  a protection snapshot was uploaded;                        *)
(*   report     the phase of the result, "none" for a result without one,  *)
(*              "pending" while there is no result.                        *)
(*                                                                         *)
(* The promises: the target is not touched before the import begins;       *)
(* succeeded means the snapshot is there, and a phase that frees the target*)
(* without success that the original is; a rollback restores the original  *)
(* from the protection snapshot, or removes a target that had none; one    *)
(* result at most, and nothing after it.                                   *)
(***************************************************************************)

VARIABLES stage, target, protected, report

vars == <<stage, target, protected, report>>

Targets == {"original", "modified", "restored"}
Reports == {"failed", "pre_backup_failed", "succeeded", "rolled_back", "new_target_cleaned",
            "rollback_failed", "listed", "none"}

Init ==
  /\ stage = "preparing"
  /\ target = "original"
  /\ protected = FALSE
  /\ report = "pending"

\* An existing database is exported and uploaded before it is touched.
PreBackup ==
  /\ stage = "preparing"
  /\ stage' = "pre_backup"
  /\ UNCHANGED <<target, protected, report>>

Import ==
  /\ \/ stage = "preparing" /\ UNCHANGED protected
     \/ stage = "pre_backup" /\ protected' = TRUE
  /\ stage' = "restoring"
  /\ target' \in Targets
  /\ UNCHANGED report

\* A command of the import or of the rollback changes the target.
Write ==
  /\ stage \in {"restoring", "rolling_back"}
  /\ target' \in Targets
  /\ UNCHANGED <<stage, protected, report>>

RollBack ==
  /\ stage = "restoring"
  /\ stage' = "rolling_back"
  /\ target' \in Targets
  /\ UNCHANGED <<protected, report>>

\* When each phase may be reported, and what it says of the target.
Truthful(ph) ==
  /\ ph \in {"failed", "listed"} => stage = "preparing"
  /\ ph = "none" => stage \in {"preparing", "restoring"}
  /\ ph = "pre_backup_failed" => stage = "pre_backup"
  /\ ph = "succeeded" => stage = "restoring" /\ target' = "restored"
  /\ ph \in {"rolled_back", "new_target_cleaned", "rollback_failed"} => stage = "rolling_back"
  /\ ph = "rolled_back" => protected /\ target' = "original"
  /\ ph = "new_target_cleaned" => ~protected /\ target' = "original"
  /\ stage \in {"preparing", "pre_backup"} => target' = target

\* The pipeline ends with a result ...
Report(ph) ==
  /\ stage # "ended"
  /\ stage' = "ended"
  /\ report' = ph
  /\ target' \in Targets
  /\ Truthful(ph)
  /\ UNCHANGED protected

\* ... or with the agent's process.
Crash ==
  /\ stage # "ended"
  /\ stage' = "ended"
  /\ UNCHANGED <<target, protected, report>>

Next == PreBackup \/ Import \/ Write \/ RollBack \/ (\E ph \in Reports : Report(ph)) \/ Crash

Spec == Init /\ [][Next]_vars

==============================================================================
