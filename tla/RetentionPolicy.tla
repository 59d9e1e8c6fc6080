-------------------------- MODULE RetentionPolicy --------------------------
(* Which backup pairs of one type the retention keeps (selectRetention of   *)
(* scripts/operations/backup-retention.mjs).  A pair stands for the         *)
(* millisecond in its name: pairs are numbers, and the newer one is larger. *)
EXTENDS Integers, FiniteSets

CONSTANTS DayOf, WeekOf, MonthOf,  \* pair -> UTC day, ISO week, month
          Policy                   \* how many days, weeks and months to keep

ASSUME PolicyAssumption ==
    Policy \in [daily : Nat, weekly : Nat, monthly : Nat]

\* The newest of a set of pairs: the head of the list sorted newest first.
Newest(pairs) == CHOOSE p \in pairs : \A q \in pairs : q <= p

\* The keys that are not blocked and have a pair newer than p.
KeysAfter(p, pairs, key, blocked) ==
    {key[q] : q \in {r \in pairs : r > p}} \ blocked

\* One tier: of every key that is not blocked the newest pair, for as many keys as
\* the limit says, newest keys first.
SelectTier(pairs, limit, key, blocked) ==
    {p \in pairs :
        /\ key[p] \notin blocked
        /\ key[p] \notin KeysAfter(p, pairs, key, blocked)
        /\ Cardinality(KeysAfter(p, pairs, key, blocked)) < limit}

KeysOf(pairs, key) == {key[p] : p \in pairs}

Daily(pairs) == SelectTier(pairs, Policy.daily, DayOf, {})

ToWeekly(pairs) ==
    Daily(pairs) \cup
    SelectTier(pairs, Policy.weekly, WeekOf, KeysOf(Daily(pairs), WeekOf))

ToMonthly(pairs) ==
    ToWeekly(pairs) \cup
    SelectTier(pairs, Policy.monthly, MonthOf, KeysOf(ToWeekly(pairs), MonthOf))

\* What stays: the three tiers, and the newest pair when they select nothing.
Select(pairs) ==
    IF pairs = {} \/ ToMonthly(pairs) # {} THEN ToMonthly(pairs) ELSE {Newest(pairs)}
=============================================================================
