------------------------- MODULE MCBackupRetention -------------------------
(* Nine moments over three months at which a backup may be taken, two of  *)
(* them on one day, with weeks that straddle the ends of the months.       *)
EXTENDS BackupRetention

MCTimes == 1..9
MCDay   == <<1, 2, 2, 3, 4, 5, 6, 7, 8>>
MCWeek  == <<1, 1, 1, 2, 2, 3, 3, 4, 4>>
MCMonth == <<1, 1, 1, 1, 2, 2, 3, 3, 3>>
MCPolicy == [daily |-> 1, weekly |-> 1, monthly |-> 1]
=============================================================================
