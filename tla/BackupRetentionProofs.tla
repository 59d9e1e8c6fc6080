----------------------- MODULE BackupRetentionProofs -----------------------
(* What the retention guarantees for every policy, every calendar and any  *)
(* number of backups: the newest pair survives, and so do last week and last *)
(* month.                                                                   *)
EXTENDS BackupRetention, FiniteSetTheorems, TLAPS

\* n is the newest of S.
IsNewest(n, S) == n \in S /\ \A q \in S : q <= n

LEMMA NewestIs ==
    ASSUME NEW S \in SUBSET Times, NEW n, IsNewest(n, S)
    PROVE  Newest(S) = n
<1>1. Newest(S) \in S /\ \A q \in S : q <= Newest(S)
  BY DEF IsNewest, Newest
<1>2. Newest(S) <= n /\ n <= Newest(S)
  BY <1>1 DEF IsNewest
<1>3. n \in Nat /\ Newest(S) \in Nat
  BY <1>1, TimesAssumption DEF IsNewest
<1> QED BY <1>2, <1>3

\* A tier that has a slot keeps a pair whose key is open and whose newer pairs' keys
\* are all blocked: the loop reaches it first.
LEMMA TierKeepsFirst ==
    ASSUME NEW S \in SUBSET Times, NEW limit \in Nat, limit > 0,
           NEW key \in [Times -> Nat], NEW blocked,
           NEW p \in S, key[p] \notin blocked,
           \A q \in S : q > p => key[q] \in blocked
    PROVE  p \in SelectTier(S, limit, key, blocked)
<1>1. KeysAfter(p, S, key, blocked) = {}
  BY DEF KeysAfter
<1>2. Cardinality(KeysAfter(p, S, key, blocked)) = 0
  BY <1>1, FS_EmptySet
<1> QED BY <1>1, <1>2 DEF SelectTier

\* The keys of a calendar run with time.
Calendar(key) ==
    /\ key \in [Times -> Nat]
    /\ \A s, t \in Times : s <= t => key[s] <= key[t]

LEMMA Calendars == Calendar(DayOf) /\ Calendar(WeekOf) /\ Calendar(MonthOf)
BY CalendarAssumption DEF Calendar

\* A tier without slots keeps nothing.
LEMMA ClosedTierIsEmpty ==
    ASSUME NEW S \in SUBSET Times, NEW n, IsNewest(n, S),
           NEW key, Calendar(key), NEW blocked
    PROVE  SelectTier(S, 0, key, blocked) = {}
<1>1. ASSUME NEW p \in S
      PROVE  Cardinality(KeysAfter(p, S, key, blocked)) \in Nat
  <2> DEFINE K == KeysAfter(p, S, key, blocked)
  <2>1. key[n] \in Nat
    BY DEF IsNewest, Calendar
  <2>2. K \in SUBSET Nat /\ \A k \in K : k <= key[n]
    BY DEF KeysAfter, IsNewest, Calendar
  <2> HIDE DEF K
  <2>3. IsFiniteSet(K)
    BY <2>1, <2>2, FS_BoundedSetOfNaturals
  <2>4. Cardinality(K) \in Nat
    BY <2>3, FS_CardinalityType
  <2> QED BY <2>4 DEF K
<1>2. \A p \in S : ~ (Cardinality(KeysAfter(p, S, key, blocked)) < 0)
  BY <1>1
<1> QED BY <1>2 DEF SelectTier

\* Each tier only adds to what the ones before it keep.
LEMMA TiersNest ==
    ASSUME NEW S
    PROVE  /\ Daily(S) \subseteq ToWeekly(S)
           /\ ToWeekly(S) \subseteq ToMonthly(S)
           /\ ToMonthly(S) \subseteq Select(S)
BY DEF ToWeekly, ToMonthly, Select

\* The first tier that has a slot keeps the newest pair.
LEMMA FirstTierKeepsNewest ==
    ASSUME NEW S \in SUBSET Times, NEW n, IsNewest(n, S)
    PROVE  /\ Policy.daily > 0 => n \in Daily(S)
           /\ Policy.daily + Policy.weekly > 0 => n \in ToWeekly(S)
           /\ n \in Select(S)
<1>1. /\ n \in S /\ \A q \in S : ~ (q > n)
      /\ Policy.daily \in Nat /\ Policy.weekly \in Nat /\ Policy.monthly \in Nat
  BY TimesAssumption, PolicyAssumption DEF IsNewest
<1>2. /\ DayOf \in [Times -> Nat] /\ WeekOf \in [Times -> Nat]
      /\ MonthOf \in [Times -> Nat]
  BY CalendarAssumption
<1>3. ASSUME Policy.daily > 0 PROVE n \in Daily(S)
  BY <1>1, <1>2, <1>3, TierKeepsFirst DEF Daily
<1>4. ASSUME Policy.daily = 0 PROVE Daily(S) = {}
  BY <1>4, Calendars, ClosedTierIsEmpty DEF Daily
<1>5. ASSUME Policy.daily = 0, Policy.weekly > 0 PROVE n \in ToWeekly(S)
  <2>1. KeysOf(Daily(S), WeekOf) = {}
    BY <1>4, <1>5 DEF KeysOf
  <2>2. n \in SelectTier(S, Policy.weekly, WeekOf, {})
    BY <1>1, <1>2, <1>5, TierKeepsFirst
  <2> QED BY <2>1, <2>2 DEF ToWeekly
<1>6. ASSUME Policy.daily = 0, Policy.weekly = 0 PROVE ToWeekly(S) = {}
  <2>1. SelectTier(S, 0, WeekOf, KeysOf(Daily(S), WeekOf)) = {}
    BY Calendars, ClosedTierIsEmpty
  <2> QED BY <1>4, <1>6, <2>1 DEF ToWeekly
<1>7. ASSUME Policy.daily = 0, Policy.weekly = 0, Policy.monthly > 0
      PROVE  n \in ToMonthly(S)
  <2>1. KeysOf(ToWeekly(S), MonthOf) = {}
    BY <1>6, <1>7 DEF KeysOf
  <2>2. n \in SelectTier(S, Policy.monthly, MonthOf, {})
    BY <1>1, <1>2, <1>7, TierKeepsFirst
  <2> QED BY <2>1, <2>2 DEF ToMonthly
<1>8. ASSUME Policy.daily = 0, Policy.weekly = 0, Policy.monthly = 0
      PROVE  n \in Select(S)
  <2>1. SelectTier(S, 0, MonthOf, KeysOf(ToWeekly(S), MonthOf)) = {}
    BY Calendars, ClosedTierIsEmpty
  <2>2. ToMonthly(S) = {}
    BY <1>6, <1>8, <2>1 DEF ToMonthly
  <2> QED BY <1>1, <2>2, NewestIs DEF Select
<1>9. Policy.daily + Policy.weekly > 0 => n \in ToWeekly(S)
  <2>1. Policy.daily > 0 \/ Policy.daily = 0
    BY <1>1
  <2>2. Policy.daily = 0 /\ Policy.daily + Policy.weekly > 0 => Policy.weekly > 0
    BY <1>1
  <2> QED BY <1>3, <1>5, <2>1, <2>2, TiersNest
<1>10. n \in Select(S)
  <2>1. \/ Policy.daily + Policy.weekly > 0
        \/ Policy.daily = 0 /\ Policy.weekly = 0 /\ Policy.monthly > 0
        \/ Policy.daily = 0 /\ Policy.weekly = 0 /\ Policy.monthly = 0
    BY <1>1
  <2> QED BY <1>7, <1>8, <1>9, <2>1, TiersNest
<1> QED BY <1>3, <1>9, <1>10

\* A tier that has a slot keeps a pair of the last open key when the keys after it are
\* all blocked; a blocked key has a pair already.
LEMMA TierKeepsLastOpenKey ==
    ASSUME NEW S \in SUBSET Times, NEW limit \in Nat, limit > 0,
           NEW key, Calendar(key), NEW kept \in SUBSET S,
           NEW p \in S,
           \A T \in SUBSET S : T # {} => \E m \in T : IsNewest(m, T),
           \A q \in S : key[q] > key[p] => key[q] \in KeysOf(kept, key)
    PROVE  \E r \in kept \cup SelectTier(S, limit, key, KeysOf(kept, key)) :
              key[r] = key[p]
<1>1. CASE key[p] \in KeysOf(kept, key)
  BY <1>1 DEF KeysOf
<1>2. CASE key[p] \notin KeysOf(kept, key)
  <2> DEFINE T == {q \in S : key[q] = key[p]}
  <2>1. PICK m \in T : IsNewest(m, T)
    <3>1. T \in SUBSET S /\ p \in T
      OBVIOUS
    <3> QED BY <3>1
  <2>2. m \in S /\ key[m] = key[p]
    OBVIOUS
  <2>3. ASSUME NEW q \in S, q > m PROVE key[q] \in KeysOf(kept, key)
    <3>1. q \in Nat /\ m \in Nat /\ q \in Times /\ m \in Times /\ m <= q
      BY <2>2, <2>3, TimesAssumption
    <3>2. key[m] <= key[q] /\ key[m] \in Nat /\ key[q] \in Nat
      BY <3>1 DEF Calendar
    <3>3. key[q] # key[p]
      BY <2>1, <2>3, <3>1 DEF IsNewest
    <3>4. key[q] > key[p]
      BY <2>2, <3>2, <3>3
    <3> QED BY <3>4
  <2> HIDE DEF T
  <2>4. key \in [Times -> Nat]
    BY DEF Calendar
  <2>5. m \in SelectTier(S, limit, key, KeysOf(kept, key))
    BY <1>2, <2>2, <2>3, <2>4, TierKeepsFirst
  <2> QED BY <2>2, <2>5
<1> QED BY <1>1, <1>2

-----------------------------------------------------------------------------
\* Any pairs that were ever placed have a newest among them.
Ordered == \A T \in SUBSET made : T # {} => \E m \in T : IsNewest(m, T)

\* What must stay is not only on the disk but spared by the run under way.
LatestSafe == made # {} => Newest(made) \in pairs \ doomed
PreviousSafe(key) ==
    Previous(key) # {} =>
        \E p \in pairs \ doomed : key[p] = key[Newest(Previous(key))]
WeekSafe == Policy.daily > 0 /\ Policy.weekly > 0 => PreviousSafe(WeekOf)
MonthSafe ==
    Policy.daily + Policy.weekly > 0 /\ Policy.monthly > 0 => PreviousSafe(MonthOf)

IInv == TypeOK /\ Ordered /\ LatestSafe /\ WeekSafe /\ MonthSafe

LEMMA InitInv == Init => IInv
BY DEF Init, IInv, TypeOK, Ordered, LatestSafe, WeekSafe, MonthSafe, PreviousSafe, Previous

\* The newest pair, and the newest of the periods before it, named.
LEMMA NewestMade ==
    ASSUME TypeOK, Ordered, NEW T \in SUBSET made, T # {}
    PROVE  IsNewest(Newest(T), T)
<1>1. PICK m \in T : IsNewest(m, T)
  BY DEF Ordered
<1>2. T \in SUBSET Times
  BY DEF TypeOK
<1> QED BY <1>1, <1>2, NewestIs

LEMMA TypeStep == TypeOK /\ [Next]_vars => TypeOK'
<1> SUFFICES ASSUME TypeOK, [Next]_vars PROVE TypeOK'
  OBVIOUS
<1> USE DEF TypeOK
<1>1. ASSUME NEW t \in Times, Place(t) PROVE TypeOK'
  BY <1>1 DEF Place
<1>2. CASE Discover
  <2>1. moved = {}
    BY <1>2 DEF Discover
  <2> QED BY <1>2, <2>1 DEF Discover, ToRemove
<1>3. CASE MoveArtefact
  BY <1>3 DEF MoveArtefact
<1>4. CASE MoveChecksum
  BY <1>4 DEF MoveChecksum
<1>5. CASE RollBack
  BY <1>5 DEF RollBack
<1>6. CASE Interrupt
  BY <1>6 DEF Interrupt
<1>7. CASE UNCHANGED vars
  BY <1>7 DEF vars
<1> QED BY <1>1, <1>2, <1>3, <1>4, <1>5, <1>6, <1>7 DEF Next

LEMMA OrderedStep == TypeOK /\ Ordered /\ [Next]_vars => Ordered'
<1> SUFFICES ASSUME TypeOK, Ordered, [Next]_vars PROVE Ordered'
  OBVIOUS
<1>1. ASSUME NEW t \in Times, Place(t) PROVE Ordered'
  <2> SUFFICES ASSUME NEW T \in SUBSET (made \cup {t}), T # {}
               PROVE  \E m \in T : IsNewest(m, T)
    BY <1>1 DEF Ordered, Place
  <2>1. CASE t \in T
    <3>1. \A q \in T : q <= t
      BY <1>1, TimesAssumption DEF Place, TypeOK
    <3> QED BY <2>1, <3>1 DEF IsNewest
  <2>2. CASE t \notin T
    BY <2>2 DEF Ordered
  <2> QED BY <2>1, <2>2
<1>2. ASSUME UNCHANGED made PROVE Ordered'
  BY <1>2 DEF Ordered
<1>3. CASE ~ \E t \in Times : Place(t)
  BY <1>2, <1>3 DEF Next, vars, Discover, MoveArtefact, MoveChecksum, RollBack, Interrupt
<1> QED BY <1>1, <1>3

\* All that is not doomed stays: only Place and Discover change what has to be spared.
LEMMA SparedStays ==
    ASSUME TypeOK, [Next]_vars, ~ Discover
    PROVE  pairs \ doomed \subseteq (pairs \ doomed)'
<1>1. ASSUME NEW t \in Times, Place(t) PROVE pairs \ doomed \subseteq (pairs \ doomed)'
  BY <1>1 DEF Place
<1>2. CASE MoveArtefact
  BY <1>2 DEF MoveArtefact
<1>3. CASE MoveChecksum
  BY <1>3 DEF MoveChecksum
<1>4. CASE RollBack
  BY <1>4 DEF RollBack
<1>5. CASE Interrupt
  BY <1>5 DEF Interrupt
<1>6. CASE UNCHANGED vars
  BY <1>6 DEF vars
<1> QED BY <1>1, <1>2, <1>3, <1>4, <1>5, <1>6 DEF Next

\* A new pair is the newest.
LEMMA PlacedIsNewest ==
    ASSUME TypeOK, NEW t \in Times, Place(t)
    PROVE  Newest(made') = t /\ made' = made \cup {t} /\ made' \in SUBSET Times
<1>1. made' = made \cup {t} /\ made' \in SUBSET Times
  BY DEF Place, TypeOK
<1>2. IsNewest(t, made')
  <2>1. \A q \in made : q < t /\ q \in Nat /\ t \in Nat
    BY TimesAssumption DEF Place, TypeOK
  <2> QED BY <1>1, <2>1, TimesAssumption DEF IsNewest
<1> QED BY <1>1, <1>2, NewestIs

LEMMA LatestStep ==
    ASSUME TypeOK, Ordered, LatestSafe, [Next]_vars
    PROVE  LatestSafe'
<1>1. ASSUME NEW t \in Times, Place(t) PROVE LatestSafe'
  <2>1. t \in pairs' /\ t \notin doomed'
    <3>1. t \notin made
      BY <1>1, TimesAssumption DEF Place, TypeOK
    <3> QED BY <1>1, <3>1 DEF Place, TypeOK
  <2> QED BY <1>1, <2>1, PlacedIsNewest DEF LatestSafe
<1>2. CASE Discover
  <2> SUFFICES ASSUME made # {} PROVE Newest(made) \in pairs \ ToRemove(pairs)
    BY <1>2 DEF Discover, LatestSafe
  <2>1. IsNewest(Newest(made), pairs)
    BY NewestMade DEF LatestSafe, TypeOK, IsNewest
  <2>2. pairs \in SUBSET Times
    BY DEF TypeOK
  <2>3. Newest(made) \in Select(pairs)
    BY <2>1, <2>2, FirstTierKeepsNewest
  <2> QED BY <2>1, <2>3 DEF ToRemove, IsNewest
<1>3. CASE ~ Discover /\ ~ \E t \in Times : Place(t)
  <2>1. made' = made
    BY <1>3 DEF Next, vars, MoveArtefact, MoveChecksum, RollBack, Interrupt
  <2> QED BY <1>3, <2>1, SparedStays DEF LatestSafe
<1> QED BY <1>1, <1>2, <1>3

\* When a pair is placed: it opens a period and the one before it is the newest pair's,
\* or it joins a period and what came before stays the same.
LEMMA PlaceKeepsPrevious ==
    ASSUME TypeOK, Ordered, LatestSafe, NEW key, Calendar(key), PreviousSafe(key),
           NEW t \in Times, Place(t)
    PROVE  PreviousSafe(key)'
<1>1. Newest(made') = t /\ made' = made \cup {t} /\ made' \in SUBSET Times
  BY PlacedIsNewest
<1>2. \A q \in made : q \in Times /\ q <= t /\ key[q] \in Nat /\ key[t] \in Nat
  BY TimesAssumption DEF Place, TypeOK, Calendar
<1>3. Previous(key)' = {p \in made : key[p] < key[t]}
  BY <1>1, <1>2 DEF Previous, Calendar
<1>4. pairs \ doomed \subseteq (pairs \ doomed)'
  BY DEF Place, TypeOK
<1>5. CASE made = {}
  BY <1>3, <1>5 DEF PreviousSafe
<1>6. CASE made # {}
  <2> DEFINE n == Newest(made)
  <2>1. n \in made /\ \A q \in made : q <= n
    BY <1>6, NewestMade DEF IsNewest
  <2>2. \A q \in made : key[q] <= key[n]
    BY <1>2, <2>1 DEF Calendar
  <2>3. key[n] \in Nat /\ key[t] \in Nat /\ key[n] <= key[t]
    BY <1>2, <2>1 DEF Calendar
  <2>4. CASE key[n] = key[t]
    <3>1. Previous(key)' = Previous(key)
      BY <1>3, <2>4 DEF Previous
    <3> QED BY <1>4, <3>1 DEF PreviousSafe
  <2>5. CASE key[n] < key[t]
    <3>1. Previous(key)' = made
      BY <1>2, <1>3, <2>2, <2>3, <2>5
    <3>2. n \in (pairs \ doomed)'
      BY <1>4, <1>6 DEF LatestSafe
    <3> QED BY <3>1, <3>2 DEF PreviousSafe
  <2> QED BY <2>3, <2>4, <2>5
<1> QED BY <1>5, <1>6

\* When a run decides: of the keys after the one to spare only the newest pair's is on
\* the disk, and the tiers before have taken that.
LEMMA TierKeepsPrevious ==
    ASSUME TypeOK, Ordered, LatestSafe, NEW key, Calendar(key), PreviousSafe(key),
           Previous(key) # {},
           NEW kept \in SUBSET pairs, Newest(made) \in kept,
           NEW limit \in Nat, limit > 0
    PROVE  \E r \in kept \cup SelectTier(pairs, limit, key, KeysOf(kept, key)) :
              key[r] = key[Newest(Previous(key))]
<1> DEFINE n == Newest(made)
           m == Newest(Previous(key))
<1>1. PICK p \in pairs : key[p] = key[m]
  BY DEF PreviousSafe
<1>2. Previous(key) \in SUBSET made /\ made # {}
  BY DEF Previous
<1>3. IsNewest(n, made) /\ IsNewest(m, Previous(key))
  BY <1>2, NewestMade
<1>4. /\ \A q \in made : q \in Times /\ key[q] \in Nat
      /\ pairs \in SUBSET Times /\ pairs \subseteq made
  BY DEF TypeOK, Calendar
<1>5. ASSUME NEW q \in pairs, key[q] > key[p] PROVE key[q] \in KeysOf(kept, key)
  <2>1. key[q] <= key[n]
    BY <1>3, <1>4 DEF IsNewest, Calendar
  <2>2. ASSUME key[q] < key[n] PROVE FALSE
    <3>1. q \in Previous(key)
      BY <1>4, <2>2 DEF Previous
    <3>2. q <= m /\ m \in made
      BY <1>2, <1>3, <3>1 DEF IsNewest
    <3>3. key[q] <= key[m]
      BY <1>4, <3>2 DEF Calendar
    <3> QED BY <1>1, <1>2, <1>4, <1>5, <3>2, <3>3
  <2>3. key[q] = key[n]
    BY <1>3, <1>4, <2>1, <2>2 DEF IsNewest
  <2> QED BY <2>3 DEF KeysOf
<1>6. \A T \in SUBSET pairs : T # {} => \E x \in T : IsNewest(x, T)
  BY <1>4 DEF Ordered
<1>7. \E r \in kept \cup SelectTier(pairs, limit, key, KeysOf(kept, key)) : key[r] = key[p]
  <2> HIDE DEF n, m
  <2>1. \A q \in pairs : key[q] > key[p] => key[q] \in KeysOf(kept, key)
    BY <1>5
  <2> QED BY <1>4, <1>6, <2>1, TierKeepsLastOpenKey
<1> QED BY <1>1, <1>7

\* A run that has decided spares the pairs it keeps.
LEMMA WeekStep ==
    ASSUME TypeOK, Ordered, LatestSafe, WeekSafe, [Next]_vars
    PROVE  WeekSafe'
<1> SUFFICES ASSUME Policy.daily > 0, Policy.weekly > 0 PROVE PreviousSafe(WeekOf)'
  BY DEF WeekSafe
<1>1. PreviousSafe(WeekOf) /\ Calendar(WeekOf)
  BY Calendars DEF WeekSafe
<1>2. ASSUME NEW t \in Times, Place(t) PROVE PreviousSafe(WeekOf)'
  BY <1>1, <1>2, PlaceKeepsPrevious
<1>3. CASE Discover
  <2> SUFFICES ASSUME Previous(WeekOf) # {}
               PROVE  \E r \in pairs \ ToRemove(pairs) :
                         WeekOf[r] = WeekOf[Newest(Previous(WeekOf))]
    <3>1. Previous(WeekOf)' = Previous(WeekOf)
      BY <1>3 DEF Discover, Previous
    <3> QED BY <1>3, <3>1 DEF Discover, PreviousSafe
  <2>1. made # {} /\ pairs \in SUBSET Times
    BY DEF Previous, TypeOK
  <2>2. IsNewest(Newest(made), pairs)
    BY <2>1, NewestMade DEF LatestSafe, TypeOK, IsNewest
  <2>3. Newest(made) \in Daily(pairs)
    BY <2>1, <2>2, FirstTierKeepsNewest
  <2>4. Daily(pairs) \in SUBSET pairs /\ Policy.weekly \in Nat
    BY PolicyAssumption DEF Daily, SelectTier
  <2>5. PICK r \in ToWeekly(pairs) : WeekOf[r] = WeekOf[Newest(Previous(WeekOf))]
    BY <1>1, <2>3, <2>4, TierKeepsPrevious DEF ToWeekly
  <2>6. r \in pairs /\ r \in Select(pairs)
    BY <2>4, TiersNest DEF ToWeekly, SelectTier
  <2> QED BY <2>5, <2>6 DEF ToRemove
<1>4. CASE ~ Discover /\ ~ \E t \in Times : Place(t)
  <2>1. made' = made
    BY <1>4 DEF Next, vars, MoveArtefact, MoveChecksum, RollBack, Interrupt
  <2>2. Previous(WeekOf)' = Previous(WeekOf)
    BY <2>1 DEF Previous
  <2> QED BY <1>1, <1>4, <2>2, SparedStays DEF PreviousSafe
<1> QED BY <1>2, <1>3, <1>4

LEMMA MonthStep ==
    ASSUME TypeOK, Ordered, LatestSafe, MonthSafe, [Next]_vars
    PROVE  MonthSafe'
<1> SUFFICES ASSUME Policy.daily + Policy.weekly > 0, Policy.monthly > 0
             PROVE  PreviousSafe(MonthOf)'
  BY DEF MonthSafe
<1>1. PreviousSafe(MonthOf) /\ Calendar(MonthOf)
  BY Calendars DEF MonthSafe
<1>2. ASSUME NEW t \in Times, Place(t) PROVE PreviousSafe(MonthOf)'
  BY <1>1, <1>2, PlaceKeepsPrevious
<1>3. CASE Discover
  <2> SUFFICES ASSUME Previous(MonthOf) # {}
               PROVE  \E r \in pairs \ ToRemove(pairs) :
                         MonthOf[r] = MonthOf[Newest(Previous(MonthOf))]
    <3>1. Previous(MonthOf)' = Previous(MonthOf)
      BY <1>3 DEF Discover, Previous
    <3> QED BY <1>3, <3>1 DEF Discover, PreviousSafe
  <2>1. made # {} /\ pairs \in SUBSET Times
    BY DEF Previous, TypeOK
  <2>2. IsNewest(Newest(made), pairs)
    BY <2>1, NewestMade DEF LatestSafe, TypeOK, IsNewest
  <2>3. Newest(made) \in ToWeekly(pairs)
    BY <2>1, <2>2, FirstTierKeepsNewest
  <2>4. ToWeekly(pairs) \in SUBSET pairs /\ Policy.monthly \in Nat
    BY PolicyAssumption DEF Daily, ToWeekly, SelectTier
  <2>5. PICK r \in ToMonthly(pairs) :
            MonthOf[r] = MonthOf[Newest(Previous(MonthOf))]
    BY <1>1, <2>3, <2>4, TierKeepsPrevious DEF ToMonthly
  <2>6. r \in pairs /\ r \in Select(pairs)
    BY <2>4, TiersNest DEF ToMonthly, SelectTier
  <2> QED BY <2>5, <2>6 DEF ToRemove
<1>4. CASE ~ Discover /\ ~ \E t \in Times : Place(t)
  <2>1. made' = made
    BY <1>4 DEF Next, vars, MoveArtefact, MoveChecksum, RollBack, Interrupt
  <2>2. Previous(MonthOf)' = Previous(MonthOf)
    BY <2>1 DEF Previous
  <2> QED BY <1>1, <1>4, <2>2, SparedStays DEF PreviousSafe
<1> QED BY <1>2, <1>3, <1>4

-----------------------------------------------------------------------------
\* There are finitely many keys after a pair.
LEMMA KeysAfterFinite ==
    ASSUME NEW S \in SUBSET Times, NEW n, IsNewest(n, S),
           NEW key, Calendar(key), NEW blocked, NEW p, NEW X \in SUBSET S
    PROVE  IsFiniteSet(KeysAfter(p, X, key, blocked))
<1> DEFINE K == KeysAfter(p, X, key, blocked)
<1>1. key[n] \in Nat
  BY DEF IsNewest, Calendar
<1>2. K \in SUBSET Nat /\ \A k \in K : k <= key[n]
  BY DEF KeysAfter, IsNewest, Calendar
<1> HIDE DEF K
<1>3. IsFiniteSet(K)
  BY <1>1, <1>2, FS_BoundedSetOfNaturals
<1> QED BY <1>3 DEF K

\* Taking away pairs that a tier does not keep changes nothing of what it keeps: of the
\* pairs that lost their key to it, the newest has all the keys after it in the tier.
LEMMA TierIsStable ==
    ASSUME NEW S \in SUBSET Times, NEW n, IsNewest(n, S),
           \A T \in SUBSET S : T # {} => \E m \in T : IsNewest(m, T),
           NEW limit \in Nat, NEW key, Calendar(key), NEW blocked,
           NEW X \in SUBSET S, SelectTier(S, limit, key, blocked) \subseteq X
    PROVE  SelectTier(X, limit, key, blocked) = SelectTier(S, limit, key, blocked)
<1> DEFINE After(p, Y) == KeysAfter(p, Y, key, blocked)
           Tier(Y) == SelectTier(Y, limit, key, blocked)
<1>1. \A p \in S : p \in Nat /\ key[p] \in Nat
  BY TimesAssumption DEF Calendar
<1>2. ASSUME NEW p, NEW Y \in SUBSET S
      PROVE  IsFiniteSet(After(p, Y)) /\ Cardinality(After(p, Y)) \in Nat
  <2>1. IsFiniteSet(After(p, Y))
    BY KeysAfterFinite
  <2> HIDE DEF After
  <2> QED BY <2>1, FS_CardinalityType
<1>3. ASSUME NEW p \in Tier(S) PROVE p \in Tier(X)
  <2>1. After(p, X) \subseteq After(p, S)
    BY DEF KeysAfter
  <2>2. p \in X /\ key[p] \notin blocked /\ key[p] \notin After(p, S)
        /\ Cardinality(After(p, S)) < limit
    BY DEF SelectTier
  <2>3. Cardinality(After(p, X)) <= Cardinality(After(p, S))
    <3>1. IsFiniteSet(After(p, S))
      BY <1>2
    <3> HIDE DEF After
    <3> QED BY <2>1, <3>1, FS_Subset
  <2>4. Cardinality(After(p, X)) \in Nat /\ Cardinality(After(p, S)) \in Nat
    BY <1>2
  <2>5. Cardinality(After(p, X)) < limit
    <3> HIDE DEF After
    <3> QED BY <2>2, <2>3, <2>4
  <2> QED BY <2>1, <2>2, <2>5 DEF SelectTier
<1>4. ASSUME NEW p \in Tier(X), p \notin Tier(S) PROVE FALSE
  <2> DEFINE First == {q \in S : key[q] \notin blocked /\ key[q] \notin After(q, S)}
             U == First \ Tier(S)
  <2>1. p \in X /\ key[p] \notin blocked /\ key[p] \notin After(p, X)
        /\ Cardinality(After(p, X)) < limit
    BY <1>4 DEF SelectTier
  <2>2. ASSUME NEW q \in S, key[q] \notin blocked
        PROVE  \E m \in First : key[m] = key[q] /\ q <= m
    <3> DEFINE T == {r \in S : key[r] = key[q]}
    <3>1. PICK m \in T : IsNewest(m, T)
      <4>1. T \in SUBSET S /\ q \in T
        OBVIOUS
      <4> QED BY <4>1
    <3>2. key[m] \notin After(m, S)
      BY <1>1, <3>1 DEF IsNewest, KeysAfter
    <3>3. m \in First /\ key[m] = key[q] /\ q <= m
      BY <2>2, <3>1, <3>2 DEF IsNewest
    <3> QED BY <3>3
  <2>3. PICK f \in First : key[f] = key[p] /\ p <= f
    BY <2>1, <2>2
  <2>4. f \in U
    <3>1. CASE f = p
      BY <1>4, <3>1
    <3>2. CASE f # p
      <4>1. f > p
        BY <1>1, <2>1, <2>3, <3>2
      <4>2. f \notin X
        BY <2>1, <2>3, <4>1 DEF KeysAfter
      <4> QED BY <4>2
    <3> QED BY <3>1, <3>2
  <2>5. PICK j \in U : IsNewest(j, U)
    <3>1. U \in SUBSET S /\ U # {}
      BY <2>4
    <3> HIDE DEF U
    <3> QED BY <3>1
  <2>6. p <= j /\ j \in S
    BY <1>1, <2>1, <2>3, <2>4, <2>5 DEF IsNewest
  <2>7. After(j, S) \subseteq After(p, X)
    <3> SUFFICES ASSUME NEW q \in S, q > j, key[q] \notin blocked
                 PROVE  key[q] \in After(p, X)
      BY DEF KeysAfter
    <3>1. PICK m \in First : key[m] = key[q] /\ q <= m
      BY <2>2
    <3>2. m \in S /\ m > j
      BY <1>1, <2>6, <3>1
    <3>3. m \notin U
      BY <1>1, <2>5, <2>6, <3>2 DEF IsNewest
    <3>4. m \in X /\ m > p
      BY <1>1, <2>1, <2>6, <3>1, <3>2, <3>3
    <3> QED BY <3>1, <3>4 DEF KeysAfter
  <2>8. ~ (Cardinality(After(j, S)) < limit)
    BY <2>5 DEF SelectTier
  <2>9. Cardinality(After(j, S)) <= Cardinality(After(p, X))
    <3>1. IsFiniteSet(After(p, X))
      BY <1>2
    <3> HIDE DEF After
    <3> QED BY <2>7, <3>1, FS_Subset
  <2>10. Cardinality(After(j, S)) \in Nat /\ Cardinality(After(p, X)) \in Nat
    BY <1>2
  <2> HIDE DEF After
  <2> QED BY <2>1, <2>8, <2>9, <2>10
<1>5. Tier(X) \subseteq Tier(S) /\ Tier(S) \subseteq Tier(X)
  <2> HIDE DEF Tier
  <2> QED BY <1>3, <1>4
<1> QED BY <1>5

LEMMA SelectIsStable ==
    ASSUME NEW S \in SUBSET Times, NEW n, IsNewest(n, S),
           \A T \in SUBSET S : T # {} => \E m \in T : IsNewest(m, T),
           NEW X \in SUBSET S, Select(S) \subseteq X
    PROVE  Select(X) = Select(S)
<1> USE PolicyAssumption, Calendars
<1>1. Daily(X) = Daily(S)
  <2>1. SelectTier(S, Policy.daily, DayOf, {}) \subseteq X
    BY TiersNest DEF Daily
  <2> QED BY <2>1, TierIsStable DEF Daily
<1>2. ToWeekly(X) = ToWeekly(S)
  <2>1. SelectTier(S, Policy.weekly, WeekOf, KeysOf(Daily(S), WeekOf)) \subseteq X
    BY TiersNest DEF ToWeekly
  <2>2. SelectTier(X, Policy.weekly, WeekOf, KeysOf(Daily(S), WeekOf))
        = SelectTier(S, Policy.weekly, WeekOf, KeysOf(Daily(S), WeekOf))
    BY <2>1, TierIsStable
  <2> QED BY <1>1, <2>2 DEF ToWeekly
<1>3. ToMonthly(X) = ToMonthly(S)
  <2>1. SelectTier(S, Policy.monthly, MonthOf, KeysOf(ToWeekly(S), MonthOf)) \subseteq X
    BY TiersNest DEF ToMonthly
  <2>2. SelectTier(X, Policy.monthly, MonthOf, KeysOf(ToWeekly(S), MonthOf))
        = SelectTier(S, Policy.monthly, MonthOf, KeysOf(ToWeekly(S), MonthOf))
    BY <2>1, TierIsStable
  <2> QED BY <1>2, <2>2 DEF ToMonthly
<1>4. n \in X /\ IsNewest(n, X)
  BY FirstTierKeepsNewest DEF IsNewest
<1>5. Newest(X) = n /\ Newest(S) = n
  BY <1>4, NewestIs
<1> QED BY <1>3, <1>4, <1>5 DEF Select, IsNewest

LEMMA SelectWithin == ASSUME TypeOK, Ordered PROVE Select(pairs) \subseteq pairs
<1>1. ToMonthly(pairs) \subseteq pairs
  BY DEF Daily, ToWeekly, ToMonthly, SelectTier
<1>2. pairs # {} => Newest(pairs) \in pairs
  BY NewestMade DEF TypeOK, IsNewest
<1> QED BY <1>1, <1>2 DEF Select

-----------------------------------------------------------------------------
LEMMA Invariance == Spec => []IInv
<1>1. IInv /\ [Next]_vars => IInv'
  BY TypeStep, OrderedStep, LatestStep, WeekStep, MonthStep DEF IInv
<1> QED BY <1>1, InitInv, PTL DEF Spec

\* The records keep their shape, and nothing is on the disk that was never placed.
THEOREM RetentionTyped == Spec => []TypeOK
<1>1. IInv => TypeOK
  BY DEF IInv
<1> QED BY <1>1, Invariance, PTL

\* Whatever the policy, also with no slot at all, and wherever runs are cut off, the
\* newest pair ever placed is on the disk.
THEOREM NewestSurvives == Spec => []LatestKept
<1>1. IInv => LatestKept
  BY DEF IInv, LatestSafe, LatestKept
<1> QED BY <1>1, Invariance, PTL

\* With a daily and a weekly slot the last week before the newest pair's that had any
\* backup always has one.
THEOREM LastWeekSurvives == Spec => []PreviousWeekKept
<1>1. IInv => PreviousWeekKept
  BY DEF IInv, WeekSafe, PreviousSafe, PreviousWeekKept, PreviousKept
<1> QED BY <1>1, Invariance, PTL

\* With a monthly slot and a daily or weekly one the same holds of the months.
THEOREM LastMonthSurvives == Spec => []PreviousMonthKept
<1>1. IInv => PreviousMonthKept
  BY DEF IInv, MonthSafe, PreviousSafe, PreviousMonthKept, PreviousKept
<1> QED BY <1>1, Invariance, PTL

\* The newest pair, last week's and last month's: the restore points of the policy.
THEOREM RestorePointsSurvive == Spec => []RestorePointsKept
<1>1. LatestKept /\ PreviousWeekKept /\ PreviousMonthKept => RestorePointsKept
  BY DEF RestorePointsKept
<1> QED BY <1>1, NewestSurvives, LastWeekSurvives, LastMonthSurvives, PTL

\* A run that was cut off after any of its removals is finished by the next one.
THEOREM CutOffRunsResume == Spec => []CutOffIsHarmless
<1>1. ASSUME TypeOK, Ordered, LatestSafe PROVE CutOffIsHarmless
  <2> SUFFICES ASSUME NEW left \in SUBSET ToRemove(pairs)
               PROVE  (pairs \ left) \ ToRemove(pairs \ left) = pairs \ ToRemove(pairs)
    BY DEF CutOffIsHarmless
  <2> DEFINE rest == pairs \ left
  <2>1. Select(pairs) \subseteq rest
    BY <1>1, SelectWithin DEF ToRemove
  <2>2. Select(rest) = Select(pairs)
    <3>1. CASE made = {}
      <4>1. rest = pairs
        BY <1>1, <3>1 DEF TypeOK
      <4> QED BY <4>1
    <3>2. CASE made # {}
      <4>1. IsNewest(Newest(made), pairs)
        BY <1>1, <3>2, NewestMade DEF LatestSafe, TypeOK, IsNewest
      <4>2. pairs \in SUBSET Times /\ rest \in SUBSET pairs
        BY <1>1 DEF TypeOK
      <4>3. \A T \in SUBSET pairs : T # {} => \E m \in T : IsNewest(m, T)
        BY <1>1 DEF Ordered, TypeOK
      <4> HIDE DEF rest
      <4> QED BY <2>1, <4>1, <4>2, <4>3, SelectIsStable
    <3> QED BY <3>1, <3>2
  <2> QED BY <1>1, <2>1, <2>2, SelectWithin DEF ToRemove
<1>2. IInv => CutOffIsHarmless
  BY <1>1 DEF IInv
<1> QED BY <1>2, Invariance, PTL
=============================================================================
