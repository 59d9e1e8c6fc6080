-------------------------- MODULE BackupRetention --------------------------
(* The backups of one type over the weeks: the worker places pairs, and the *)
(* retention service removes, oldest first and one file at a time, those its *)
(* policy does not keep.  A run may be cut off between any two renames, and *)
(* pairs arrive while it removes.                                           *)
EXTENDS RetentionPolicy

CONSTANT Times  \* the moments at which a backup may be taken

ASSUME TimesAssumption == Times \subseteq Nat

ASSUME CalendarAssumption ==
    /\ {DayOf, WeekOf, MonthOf} \subseteq [Times -> Nat]
    /\ \A s, t \in Times : s <= t => /\ DayOf[s] <= DayOf[t]
                                     /\ WeekOf[s] <= WeekOf[t]
                                     /\ MonthOf[s] <= MonthOf[t]

VARIABLES made,    \* the pairs ever placed
          pairs,   \* the pairs whose two files have their final names
          doomed,  \* the pairs the run has still to remove
          moved    \* the pair whose artefact alone is out of the way

vars == <<made, pairs, doomed, moved>>

TypeOK ==
    /\ made \subseteq Times
    /\ pairs \subseteq made
    /\ doomed \subseteq made
    /\ moved \subseteq doomed

Init == made = {} /\ pairs = {} /\ doomed = {} /\ moved = {}

\* The worker places a pair: its name holds the present.
Place(t) ==
    /\ \A p \in made : p < t
    /\ made' = made \cup {t}
    /\ pairs' = pairs \cup {t}
    /\ UNCHANGED <<doomed, moved>>

\* A mutant does not block the months of the daily and weekly pairs.
ToRemoveOfEveryMonth(S) ==
    S \ (ToWeekly(S) \cup SelectTier(S, Policy.monthly, MonthOf, {}))

\* A mutant blocks the months of every pair in a week it keeps.
ToRemoveOfKeptWeeks(S) ==
    LET weeks  == KeysOf(ToWeekly(S), WeekOf)
        months == KeysOf({p \in S : WeekOf[p] \in weeks}, MonthOf)
    IN S \ (ToWeekly(S) \cup SelectTier(S, Policy.monthly, MonthOf, months))

\* The pairs a run would remove.
ToRemove(S) == S \ Select(S)

\* A run lists the complete pairs and decides, once, what to remove.
Discover ==
    /\ doomed = {}
    /\ doomed' = ToRemove(pairs)
    /\ UNCHANGED <<made, pairs, moved>>

\* removePair on the oldest of them: the artefact leaves first ...
MoveArtefact ==
    /\ moved = {}
    /\ \E p \in doomed : (\A q \in doomed : p <= q) /\ moved' = {p}
    /\ pairs' = pairs \ moved'
    /\ UNCHANGED <<made, doomed>>

\* A mutant forgets that the pair is done with.
MoveChecksumOnly ==
    /\ moved # {}
    /\ doomed' = doomed \ moved
    /\ UNCHANGED <<made, pairs, moved>>

\* ... then its checksum, and the run turns to the next pair.
MoveChecksum ==
    /\ moved # {}
    /\ doomed' = doomed \ moved
    /\ moved' = {}
    /\ UNCHANGED <<made, pairs>>

\* A rename fails: the artefact returns under its name and the run ends.
RollBack ==
    /\ doomed # {}
    /\ pairs' = pairs \cup moved
    /\ doomed' = {} /\ moved' = {}
    /\ UNCHANGED made

\* The process dies: what it moved stays out of the way.
Interrupt ==
    /\ doomed # {}
    /\ doomed' = {} /\ moved' = {}
    /\ UNCHANGED <<made, pairs>>

Next ==
    \/ \E t \in Times : Place(t)
    \/ Discover
    \/ MoveArtefact
    \/ MoveChecksum
    \/ RollBack
    \/ Interrupt

Spec == Init /\ [][Next]_vars

-----------------------------------------------------------------------------
\* The newest pair ever placed is on the disk, whatever the policy.
LatestKept == made # {} => Newest(made) \in pairs

\* The last key before the newest pair's in which any pair was ever placed still has
\* one.
Previous(key) == {p \in made : key[p] < key[Newest(made)]}
PreviousKept(key) ==
    Previous(key) # {} => \E p \in pairs : key[p] = key[Newest(Previous(key))]

PreviousWeekKept == Policy.daily > 0 /\ Policy.weekly > 0 => PreviousKept(WeekOf)
PreviousMonthKept ==
    Policy.daily + Policy.weekly > 0 /\ Policy.monthly > 0 => PreviousKept(MonthOf)

\* The 1-1-1 policy of the runbook has its point: there is always the newest backup, and
\* one of the last week and of the last month before the present one that had any,
\* although every run decides from what earlier runs, cut off or not, left behind.
RestorePointsKept == LatestKept /\ PreviousWeekKept /\ PreviousMonthKept

\* A run that is cut off is harmless: whichever of the doomed pairs it had removed, the
\* next one keeps what the first would have kept.
CutOffIsHarmless ==
    \A left \in SUBSET ToRemove(pairs) :
        LET rest == pairs \ left IN rest \ ToRemove(rest) = pairs \ ToRemove(pairs)
=============================================================================
