---------------------------- MODULE MCBackupJobs ----------------------------
(* One type of backup and the check; all artefacts are of one day, so the   *)
(* retention keeps the newest pair alone.                                    *)
EXTENDS BackupJobs, TLC

MCDay == [n \in Artefacts |-> 1]
MCPolicy == [daily |-> 1, weekly |-> 1, monthly |-> 1]
MCPriority == [k \in Kinds |-> IF k = Verify THEN 75 ELSE 100]
MCSymmetry == Permutations(Workers)
=============================================================================
