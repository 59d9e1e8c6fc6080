------------------------- MODULE DemoSessionsProofs -------------------------
(* What the public demo guarantees for any number of starts and overlapping  *)
(* runs of the cleanup, whatever the quotas and however many calls fail: the *)
(* foreign keys hold, a demo lasts its hour, and the cleanup finds what was   *)
(* left behind, but in three cases.                                          *)
EXTENDS DemoSessions, TLAPS

\* A claimed row never becomes a running demo again.
OutOfReach == {"cleanup_pending", "cleanup_failed", "deleted"}

\* What the place of a route says of its row.
RouteFits(s) ==
    /\ route[s] \in {"idle", "counted"} => row[s].status = "none"
    /\ route[s] \in {"idle", "counted", "holding"} => user[s] = "none"
    /\ row[s].status = "none" =>
         route[s] \in {"idle", "counted", "answered", "lost"} /\ user[s] = "none"
    /\ row[s].place => row[s].user
    /\ row[s].status = "reserved" =>
         /\ route[s] \in {"created", "recorded", "built", "half_built", "bound"}
              => user[s] = "alive"
         /\ route[s] \in {"recorded", "built", "half_built", "bound"} => row[s].user
         /\ route[s] \in {"built", "half_built", "bound"} => place[s] \in Standing
         /\ route[s] = "bound" => row[s].place
    /\ route[s] \in {"deleting", "deleting_user"} => row[s].due

\* What a run of the cleanup knows of a session may be old, but of two things it is
\* right for ever: that the row named its user, or that it named none.
Named(s)   == user[s] = "gone" \/ row[s].user
Unnamed(s) ==
    user[s] = "gone" \/ (~row[s].user /\ row[s].status \in {"cleanup_pending", "deleted"})

ClaimsHold(c) ==
    /\ \A k \in cleaner[c].todo :
         /\ row[k.start].status \in OutOfReach
         /\ k.place => k.user
         /\ k.user => Named(k.start)
         /\ ~k.user => Unnamed(k.start)
    /\ cleaner[c].doing # NoDeletion =>
         /\ row[cleaner[c].doing.start].status \in OutOfReach
         /\ cleaner[c].doing.step = "succeeded" => Unnamed(cleaner[c].doing.start)
         /\ cleaner[c].doing.step # "succeeded" => Named(cleaner[c].doing.start)
         /\ cleaner[c].doing.step = "place" => cleaner[c].doing.user

Fits   == \A s \in Starts : RouteFits(s)
Claims == \A c \in Cleaners : ClaimsHold(c)

IInv == TypeOK /\ Fits /\ Claims /\ DemoLastsItsHour /\ NothingLeftBehind

-----------------------------------------------------------------------------
(* Types                                                                    *)

LEMMA FaultCounts ==
    ASSUME TypeOK, Fault \/ UNCHANGED faults
    PROVE  faults' \in 0..MaxFaults
BY DemoDomains DEF TypeOK, Fault

LEMMA RefusedOrFault ==
    ASSUME NEW refused \in BOOLEAN, FaultUnless(refused)
    PROVE  Fault \/ UNCHANGED faults
BY DEF FaultUnless

\* The state in three parts.
RowsTyped  == row \in [Starts -> Rows]
KeysHold ==
    \A s \in Starts :
        /\ row[s].user => user[s] = "alive"
        /\ row[s].place => place[s] \in Standing
        /\ place[s] \in Standing => user[s] = "alive"
Resourced ==
    user \in [Starts -> Resources] /\ place \in [Starts -> Places]
Routed == route \in [Starts -> RouteStates]
Cleaned == cleaner \in [Cleaners -> [todo: SUBSET Candidates,
                                     doing: Deletions \cup {NoDeletion}]]

LEMMA TypeParts ==
    TypeOK <=> /\ RowsTyped /\ KeysHold /\ Resourced /\ Routed /\ Cleaned
               /\ faults \in 0..MaxFaults
BY DEF TypeOK, RowsTyped, KeysHold, Resourced, Routed, Cleaned

\* Deleting either resource keeps the rows typed and the foreign keys.
LEMMA Deletes ==
    ASSUME RowsTyped, KeysHold, Resourced, NEW s \in Starts,
           PlaceGoes(s) \/ UserGoes(s) \/ NothingGoes
    PROVE  RowsTyped' /\ KeysHold' /\ Resourced'
BY DEF RowsTyped, KeysHold, Resourced, PlaceGoes, UserGoes, NothingGoes, Forgets, Rows,
       Resources, Places, Standing

\* A write to one row keeps them, if what it names exists.
LEMMA WriteKeeps ==
    ASSUME RowsTyped, KeysHold, Resourced, UNCHANGED <<user, place>>, NEW s \in Starts,
           NEW new \in Rows, Writes(s, new),
           new.user => user[s] = "alive", new.place => place[s] \in Standing
    PROVE  RowsTyped' /\ KeysHold' /\ Resourced'
BY DEF RowsTyped, KeysHold, Resourced, Writes

LEMMA SameKeeps ==
    ASSUME RowsTyped, KeysHold, Resourced, UNCHANGED <<row, user, place>>
    PROVE  RowsTyped' /\ KeysHold' /\ Resourced'
BY DEF RowsTyped, KeysHold, Resourced

LEMMA MoveKeeps ==
    ASSUME Routed, NEW s \in Starts, NEW to \in RouteStates, Moves(s, to)
    PROVE  Routed'
BY DEF Routed, Moves

LEMMA RouteNames ==
    /\ {"idle", "answered", "turned_away", "reported", "lost", "stray"} \subseteq RouteStates
    /\ {"served", "opened", "deleting", "deleting_user"} \subseteq RouteStates
    /\ Working \subseteq RouteStates
BY DEF RouteStates, HandedOut

\* Each step of the start route keeps the types.
LEMMA RouteTyped ==
    ASSUME TypeOK, Fits, NEW s \in Starts, RouteStep(s)
    PROVE  TypeOK'
<1>0. /\ RowsTyped /\ KeysHold /\ Resourced /\ Routed /\ Cleaned
      /\ row[s] \in Rows /\ RouteFits(s)
  BY TypeParts DEF RowsTyped, Fits
<1> SUFFICES /\ RowsTyped' /\ KeysHold' /\ Resourced'
             /\ Routed' /\ Cleaned' /\ (Fault \/ UNCHANGED faults)
  BY FaultCounts DEF TypeOK, RowsTyped, KeysHold, Resourced, Routed, Cleaned
<1>1. CASE Count(s)
  <2>1. RowsTyped' /\ KeysHold' /\ Resourced'
    BY <1>0, <1>1 DEF Count, Released, RowsTyped, KeysHold, Resourced, Rows, RowStates
  <2>2. Routed'
    BY <1>0, <1>1, RouteNames DEF Count, Routed, Moves, Working
  <2>3. Cleaned' /\ UNCHANGED faults
    BY <1>0, <1>1 DEF Count, Cleaned
  <2> QED BY <2>1, <2>2, <2>3
<1>2. CASE Reserve(s)
  <2>1. Reservation \in Rows /\ ~Reservation.user /\ ~Reservation.place
    BY DEF Reservation, NoRow, Rows, RowStates, LiveStates
  <2>2. RowsTyped' /\ KeysHold' /\ Resourced'
    BY <1>0, <1>2, <2>1, WriteKeeps DEF Reserve
  <2>3. Routed' /\ Cleaned' /\ (Fault \/ UNCHANGED faults)
    BY <1>0, <1>2, RouteNames, MoveKeeps DEF Reserve, Cleaned, Working
  <2> QED BY <2>2, <2>3
<1>3. CASE CreateUser(s)
  <2>1. RowsTyped' /\ KeysHold' /\ Resourced'
    BY <1>0, <1>3 DEF CreateUser, RowsTyped, KeysHold, Resourced, Resources, RouteFits
  <2>2. Routed' /\ Cleaned' /\ (Fault \/ UNCHANGED faults)
    BY <1>0, <1>3, RouteNames, MoveKeeps DEF CreateUser, Cleaned, Working
  <2> QED BY <2>1, <2>2
<1>4. CASE RecordUser(s)
  <2> DEFINE new == [row[s] EXCEPT !.user = TRUE]
  <2>1. new \in Rows /\ new.place = row[s].place
    BY <1>0 DEF Rows
  <2>2. row[s].place => place[s] \in Standing
    BY <1>0 DEF KeysHold
  <2>3. RowsTyped' /\ KeysHold' /\ Resourced'
    BY <1>0, <1>4, <2>1, <2>2, WriteKeeps, SameKeeps DEF RecordUser, RouteFits
  <2>4. Routed' /\ Cleaned' /\ (Fault \/ UNCHANGED faults)
    BY <1>0, <1>4, RouteNames, MoveKeeps, RefusedOrFault DEF RecordUser, Cleaned, Working
  <2> QED BY <2>3, <2>4
<1>5. CASE CreateWorkspace(s)
  <2>1. RowsTyped' /\ KeysHold' /\ Resourced'
    BY <1>0, <1>5 DEF CreateWorkspace, RowsTyped, KeysHold, Resourced, Places, Standing
  <2>2. Routed' /\ Cleaned' /\ (Fault \/ UNCHANGED faults)
    BY <1>0, <1>5, RouteNames, MoveKeeps, RefusedOrFault DEF CreateWorkspace, Cleaned, Working
  <2> QED BY <2>1, <2>2
<1>6. CASE RecordWorkspace(s)
  <2> DEFINE new == [row[s] EXCEPT !.place = TRUE]
  <2>1. new \in Rows /\ new.user = row[s].user
    BY <1>0 DEF Rows
  <2>2. row[s].user => user[s] = "alive"
    BY <1>0 DEF KeysHold
  <2>3. RowsTyped' /\ KeysHold' /\ Resourced'
    BY <1>0, <1>6, <2>1, <2>2, WriteKeeps, SameKeeps
    DEF RecordWorkspace, MayNameWorkspace, RouteFits
  <2>4. Routed' /\ Cleaned' /\ (Fault \/ UNCHANGED faults)
    BY <1>0, <1>6, RouteNames, MoveKeeps, RefusedOrFault
    DEF RecordWorkspace, MayNameWorkspace, Cleaned, Working
  <2> QED BY <2>3, <2>4
<1>7. CASE Activate(s)
  <2> DEFINE new == [row[s] EXCEPT !.status = "active", !.user = TRUE, !.place = TRUE,
                                   !.due = FALSE]
  <2>1. new \in Rows
    BY <1>0 DEF Rows, RowStates, LiveStates
  <2>2. RowsTyped' /\ KeysHold' /\ Resourced'
    BY <1>0, <1>7, <2>1, WriteKeeps, SameKeeps DEF Activate, Activates, RouteFits
  <2>3. Routed' /\ Cleaned' /\ (Fault \/ UNCHANGED faults)
    BY <1>0, <1>7, RouteNames, MoveKeeps, RefusedOrFault DEF Activate, Activates, Cleaned, Working
  <2> QED BY <2>2, <2>3
<1>8. CASE Undo(s)
  <2>1. RowsTyped' /\ KeysHold' /\ Resourced'
    BY <1>0, <1>8, Deletes DEF Undo
  <2>2. UndoneBy[route[s]] \in RouteStates
    BY <1>8, RouteNames DEF Undo, UndoneBy, Working
  <2>3. Routed' /\ Cleaned' /\ (Fault \/ UNCHANGED faults)
    BY <1>0, <1>8, <2>2, RouteNames, MoveKeeps DEF Undo, Cleaned, Working
  <2> QED BY <2>1, <2>3
<1>9. CASE Fail(s)
  <2>1. Failed(row[s]) \in Rows
    BY <1>0 DEF Failed, Rows, RowStates, LiveStates
  <2>2. Failed(row[s]).user = row[s].user /\ Failed(row[s]).place = row[s].place
    BY <1>0 DEF Failed, Rows
  <2>3. (row[s].user => user[s] = "alive") /\ (row[s].place => place[s] \in Standing)
    BY <1>0 DEF KeysHold
  <2>4. RowsTyped' /\ KeysHold' /\ Resourced'
    BY <1>0, <1>9, <2>1, <2>2, <2>3, WriteKeeps, SameKeeps DEF Fail
  <2>5. Routed' /\ Cleaned' /\ (Fault \/ UNCHANGED faults)
    BY <1>0, <1>9, RouteNames, MoveKeeps DEF Fail, Cleaned, Working
  <2> QED BY <2>4, <2>5
<1>10. CASE Queue(s)
  <2>1. Queued(s) \in Rows
    BY <1>0 DEF Queued, Rows, RowStates, LiveStates
  <2>2. /\ Queued(s).user <=> row[s].user \/ route[s] = "queue_user"
        /\ Queued(s).place = row[s].place
    BY <1>0 DEF Queued, Rows
  <2>3. (row[s].user => user[s] = "alive") /\ (row[s].place => place[s] \in Standing)
    BY <1>0 DEF KeysHold
  <2>4. RowsTyped' /\ KeysHold' /\ Resourced'
    BY <1>0, <1>10, <2>1, <2>2, <2>3, WriteKeeps, SameKeeps DEF Queue, MayQueue
  <2>5. Routed' /\ Cleaned' /\ (Fault \/ UNCHANGED faults)
    BY <1>0, <1>10, RouteNames, MoveKeeps DEF Queue, Unheard, Cleaned, Working
  <2> QED BY <2>4, <2>5
<1>11. CASE Die(s)
  <2>1. RowsTyped' /\ KeysHold' /\ Resourced'
    BY <1>0, <1>11, SameKeeps DEF Die
  <2>2. Routed' /\ Cleaned' /\ (Fault \/ UNCHANGED faults)
    BY <1>0, <1>11, RouteNames, MoveKeeps DEF Die, Cleaned
  <2> QED BY <2>1, <2>2
<1> QED
  BY <1>1, <1>2, <1>3, <1>4, <1>5, <1>6, <1>7, <1>8, <1>9, <1>10, <1>11 DEF RouteStep

\* Time keeps the types.
LEMMA TimeTyped ==
    ASSUME TypeOK, NEW s \in Starts, TimePasses(s)
    PROVE  TypeOK'
<1>0. /\ RowsTyped /\ KeysHold /\ Resourced /\ Routed /\ Cleaned /\ row[s] \in Rows
      /\ (row[s].user => user[s] = "alive") /\ (row[s].place => place[s] \in Standing)
  BY TypeParts DEF RowsTyped, KeysHold
<1> SUFFICES /\ RowsTyped' /\ KeysHold' /\ Resourced'
             /\ Routed' /\ Cleaned' /\ UNCHANGED faults
  BY FaultCounts DEF TypeOK, RowsTyped, KeysHold, Resourced, Routed, Cleaned
<1>1. CASE WindowEnds(s)
  <2> DEFINE new == [row[s] EXCEPT !.young = FALSE, !.due = @ \/ row[s].status = "reserved"]
  <2>1. new \in Rows /\ new.user = row[s].user /\ new.place = row[s].place
    BY <1>0 DEF Rows
  <2>2. RowsTyped' /\ KeysHold' /\ Resourced'
    BY <1>0, <1>1, <2>1, WriteKeeps DEF WindowEnds
  <2> QED BY <1>0, <1>1, <2>2 DEF WindowEnds, Routed, Cleaned
<1>2. CASE DemoEnds(s)
  <2> DEFINE new == [row[s] EXCEPT !.due = TRUE]
  <2>1. new \in Rows /\ new.user = row[s].user /\ new.place = row[s].place
    BY <1>0 DEF Rows
  <2>2. RowsTyped' /\ KeysHold' /\ Resourced'
    BY <1>0, <1>2, <2>1, WriteKeeps DEF DemoEnds
  <2> QED BY <1>0, <1>2, <2>2 DEF DemoEnds, Routed, Cleaned
<1>3. CASE LeaseAges(s)
  <2> DEFINE new == [row[s] EXCEPT !.stale = TRUE]
  <2>1. new \in Rows /\ new.user = row[s].user /\ new.place = row[s].place
    BY <1>0 DEF Rows
  <2>2. RowsTyped' /\ KeysHold' /\ Resourced'
    BY <1>0, <1>3, <2>1, WriteKeeps DEF LeaseAges
  <2> QED BY <1>0, <1>3, <2>2 DEF LeaseAges, Routed, Cleaned
<1> QED BY <1>1, <1>2, <1>3 DEF TimePasses

\* So do the owner and the administrators.
LEMMA OwnerTyped ==
    ASSUME TypeOK, NEW s \in Starts, OwnerStep(s) \/ Administer(s)
    PROVE  TypeOK'
<1>0. RowsTyped /\ KeysHold /\ Resourced /\ Routed /\ Cleaned
  BY TypeParts
<1> SUFFICES /\ RowsTyped' /\ KeysHold' /\ Resourced'
             /\ Routed' /\ Cleaned' /\ (Fault \/ UNCHANGED faults)
  BY FaultCounts DEF TypeOK, RowsTyped, KeysHold, Resourced, Routed, Cleaned
<1>1. CASE OwnerOpens(s) \/ OwnerLeaves(s)
  <2>1. \E to \in {"served", "opened", "deleting"} : Moves(s, to)
    BY <1>1 DEF OwnerOpens, OwnerLeaves
  <2>2. Routed'
    BY <1>0, <2>1, RouteNames, MoveKeeps
  <2>3. UNCHANGED <<row, user, place, cleaner, faults>>
    BY <1>1 DEF OwnerOpens, OwnerLeaves
  <2>4. RowsTyped' /\ KeysHold' /\ Resourced'
    BY <1>0, <2>3, SameKeeps
  <2> QED BY <1>0, <2>2, <2>3, <2>4 DEF Cleaned
<1>2. CASE OwnerNormalizes(s)
  <2>1. Routed'
    BY <1>0, <1>2, RouteNames, MoveKeeps DEF OwnerNormalizes
  <2>2. RowsTyped' /\ KeysHold' /\ Resourced'
    BY <1>0, <1>2
    DEF OwnerNormalizes, RowsTyped, KeysHold, Resourced, Places, Standing
  <2> QED BY <1>0, <1>2, <2>1, <2>2 DEF OwnerNormalizes, Cleaned
<1>3. CASE OwnerDeletes(s)
  <2>1. Routed'
    BY <1>0, <1>3, RouteNames, MoveKeeps DEF OwnerDeletes
  <2>2. RowsTyped' /\ KeysHold' /\ Resourced'
    BY <1>0, <1>3, Deletes DEF OwnerDeletes
  <2> QED BY <1>0, <1>3, <2>1, <2>2 DEF OwnerDeletes, Cleaned
<1>4. CASE Administer(s)
  <2>1. RowsTyped' /\ KeysHold' /\ Resourced'
    BY <1>0, <1>4 DEF Administer, RowsTyped, KeysHold, Resourced, Places, Standing
  <2> QED BY <1>0, <1>4, <2>1 DEF Administer, Routed, Cleaned
<1> QED BY <1>1, <1>2, <1>3, <1>4 DEF OwnerStep

CleanerRecords == [todo: SUBSET Candidates, doing: Deletions \cup {NoDeletion}]

LEMMA DoingFacts ==
    ASSUME Cleaned, NEW c \in Cleaners
    PROVE  /\ cleaner[c] \in CleanerRecords
           /\ cleaner[c].doing # NoDeletion => cleaner[c].doing \in Deletions
           /\ NoDeletion \notin Deletions
           /\ NoDeletion.step = "none"
BY DEF Cleaned, CleanerRecords, NoDeletion, Deletions

\* What a lookup finds.
LEMMA StepOfLookUp ==
    ASSUME NEW k \in Candidates
    PROVE  /\ FirstStep(k) \in {"place", "user", "succeeded", "failed"}
           /\ FirstStep(k) = "failed" => k.place
           /\ FirstStep(k) = "place" => k.place /\ place[k.start] = "alive"
           /\ FirstStep(k) = "user" => k.user /\ user[k.start] = "alive"
           /\ FirstStep(k) = "succeeded" => ~(k.user /\ user[k.start] = "alive")
BY DEF FirstStep, Candidates

\* So do the steps of the cleanup.
LEMMA CleanerTyped ==
    ASSUME TypeOK, NEW c \in Cleaners, CleanerStep(c)
    PROVE  TypeOK'
<1>0. RowsTyped /\ KeysHold /\ Resourced /\ Routed /\ Cleaned
  BY TypeParts
<1> DEFINE doing == cleaner[c].doing
<1>d. /\ cleaner[c] \in CleanerRecords
      /\ doing # NoDeletion => doing \in Deletions
      /\ NoDeletion.step = "none"
  BY <1>0, DoingFacts
<1> SUFFICES /\ RowsTyped' /\ KeysHold' /\ Resourced'
             /\ Routed' /\ Cleaned' /\ (Fault \/ UNCHANGED faults)
  BY FaultCounts DEF TypeOK, RowsTyped, KeysHold, Resourced, Routed, Cleaned
<1>1. CASE Sweep(c)
  <2>1. RowsTyped' /\ KeysHold' /\ Resourced'
    <3>1. \A r \in Rows : Claimed(r) \in Rows /\ Claimed(r).user = r.user
                                            /\ Claimed(r).place = r.place
      BY DEF Claimed, Rows, RowStates
    <3>2. RowsTyped'
      BY <1>0, <1>1, <3>1 DEF Sweep, RowsTyped
    <3>3. KeysHold'
      BY <1>0, <1>1, <3>1 DEF Sweep, RowsTyped, KeysHold
    <3> QED BY <1>0, <1>1, <3>2, <3>3 DEF Sweep, Resourced
  <2>2. \A s \in Starts : [start |-> s, user |-> row[s].user, place |-> row[s].place]
                             \in Candidates
    BY <1>0 DEF RowsTyped, Rows, Candidates
  <2>3. Cleaned'
    BY <1>0, <1>1, <1>d, <2>2 DEF Sweep, Cleaned, CleanerRecords
  <2> QED BY <1>0, <1>1, <2>1, <2>3 DEF Sweep, Routed
<1>2. CASE LookUp(c)
  <2>1. PICK k \in cleaner[c].todo :
          LET s == k.start
              found == [start |-> s, user |-> k.user /\ user[s] = "alive",
                        step |-> FirstStep(k)]
          IN  \/ /\ cleaner' = [cleaner EXCEPT ![c] = [todo |-> @.todo \ {k}, doing |-> found]]
                 /\ UNCHANGED faults
              \/ /\ k.user \/ k.place
                 /\ cleaner' = [cleaner EXCEPT ![c] = [todo |-> @.todo \ {k},
                                                       doing |-> [found EXCEPT !.step = "failed"]]]
                 /\ Fault
    BY <1>2 DEF LookUp
  <2>2. k \in Candidates
    BY <1>d DEF CleanerRecords
  <2>3. FirstStep(k) \in {"place", "user", "succeeded", "failed"}
    BY <2>2, StepOfLookUp
  <2>4. \A step \in {"place", "user", "succeeded", "failed"} :
          [start |-> k.start, user |-> k.user /\ user[k.start] = "alive", step |-> step]
            \in Deletions
    BY <1>0, <2>2 DEF Resourced, Candidates, Deletions
  <2>5. \A d \in Deletions :
          cleaner' = [cleaner EXCEPT ![c] = [todo |-> @.todo \ {k}, doing |-> d]] => Cleaned'
    BY <1>0, <1>d DEF Cleaned, CleanerRecords
  <2>6. Cleaned'
    BY <2>1, <2>3, <2>4, <2>5
  <2>7. (Fault \/ UNCHANGED faults)
    BY <2>1
  <2> QED BY <1>0, <1>2, <2>6, <2>7, SameKeeps DEF LookUp, Routed
<1>3. CASE Delete(c)
  <2>1. doing \in Deletions /\ doing.start \in Starts
    BY <1>d, <1>3 DEF Delete, Deletions
  <2>2. RowsTyped' /\ KeysHold' /\ Resourced'
    BY <1>0, <1>3, <2>1, Deletes DEF Delete
  <2>3. \A step \in {"user", "succeeded", "failed"} : Advance(c, step) => Cleaned'
    BY <1>0, <1>d, <2>1 DEF Advance, Cleaned, CleanerRecords, Deletions
  <2>4. Cleaned' /\ (Fault \/ UNCHANGED faults)
    BY <1>3, <2>3 DEF Delete
  <2> QED BY <1>0, <1>3, <2>2, <2>4 DEF Delete, Routed
<1>4. CASE Complete(c)
  <2>1. doing \in Deletions /\ doing.start \in Starts
    BY <1>d, <1>4 DEF Complete, Deletions
  <2> DEFINE new == Completed(row[doing.start], doing.step)
  <2>2. row[doing.start] \in Rows
    BY <1>0, <2>1 DEF RowsTyped
  <2>3. new \in Rows /\ new.user = row[doing.start].user /\ new.place = row[doing.start].place
    BY <2>2 DEF Completed, Rows, RowStates
  <2>4. /\ row[doing.start].user => user[doing.start] = "alive"
        /\ row[doing.start].place => place[doing.start] \in Standing
    BY <1>0, <2>1 DEF KeysHold
  <2>5. RowsTyped' /\ KeysHold' /\ Resourced'
    <3> HIDE DEF doing, new
    <3>1. UNCHANGED <<user, place>> /\ (Writes(doing.start, new) \/ UNCHANGED row)
      BY <1>4 DEF Complete, doing, new
    <3> QED BY <1>0, <2>1, <2>3, <2>4, <3>1, WriteKeeps, SameKeeps
  <2>6. Cleaned' /\ (Fault \/ UNCHANGED faults)
    BY <1>0, <1>4, <1>d DEF Complete, Cleaned, CleanerRecords
  <2> QED BY <1>0, <1>4, <2>5, <2>6 DEF Complete, Routed
<1>5. CASE CleanerDies(c)
  <2>1. Cleaned'
    BY <1>0, <1>5 DEF CleanerDies, Cleaned, Resting
  <2> QED BY <1>0, <1>5, <2>1, SameKeeps DEF CleanerDies, Routed
<1> QED BY <1>1, <1>2, <1>3, <1>4, <1>5 DEF CleanerStep


-----------------------------------------------------------------------------
(* Sessions                                                                 *)

\* The invariant of one start.
Lasts(s) ==
    route[s] \in HandedOut /\ ~row[s].due =>
        /\ row[s].status = "active" /\ row[s].user /\ row[s].place
        /\ user[s] = "alive" /\ place[s] \in Standing
Left(s) ==
    user[s] = "alive" =>
        IF row[s].user THEN row[s].status \notin {"none", "failed", "deleted"}
        ELSE route[s] \in Nameless
SessionFits(s) == RouteFits(s) /\ Lasts(s) /\ Left(s)

\* What every step keeps of the cleanup's knowledge.
Kept(s) ==
    /\ row[s].status \in OutOfReach => row'[s].status \in OutOfReach
    /\ Named(s) => Named(s)'
    /\ row[s].status \in OutOfReach /\ Unnamed(s) => Unnamed(s)'

Same(s) ==
    row'[s] = row[s] /\ user'[s] = user[s] /\ place'[s] = place[s] /\ route'[s] = route[s]

\* What the types say of one start.
Shape(s) ==
    /\ row[s] \in Rows /\ user[s] \in Resources /\ place[s] \in Places
    /\ row[s].user => user[s] = "alive"
    /\ row[s].place => place[s] \in Standing
    /\ place[s] \in Standing => user[s] = "alive"

LEMMA SessionParts ==
    /\ Fits /\ DemoLastsItsHour /\ NothingLeftBehind <=> \A s \in Starts : SessionFits(s)
    /\ TypeOK => \A s \in Starts : Shape(s)
BY DEF Fits, DemoLastsItsHour, NothingLeftBehind, SessionFits, Lasts, Left, TypeOK, Shape

LEMMA SameFits ==
    ASSUME NEW s \in Starts, SessionFits(s), Same(s)
    PROVE  SessionFits(s)' /\ Kept(s)
BY DEF SessionFits, Same, RouteFits, Lasts, Left, Kept, Named, Unnamed

\* Each step of the start route keeps the invariant of its own start.
LEMMA RouteFitsItself ==
    ASSUME TypeOK, NEW s \in Starts, SessionFits(s), RouteStep(s)
    PROVE  SessionFits(s)' /\ Kept(s)
<1>0. /\ row \in [Starts -> Rows] /\ user \in [Starts -> Resources]
      /\ place \in [Starts -> Places] /\ route \in [Starts -> RouteStates]
      /\ Shape(s)
  BY SessionParts DEF TypeOK
<1> USE DEF SessionFits, RouteFits, Lasts, Left, Kept, Named, Unnamed, OutOfReach,
            Shape, Rows, RowStates, LiveStates, Moves, Writes, HandedOut, Nameless, Unrecorded,
            Standing
<1>1. CASE Count(s)
  BY <1>0, <1>1 DEF Count, Released
<1>2. CASE Reserve(s)
  BY <1>0, <1>2 DEF Reserve, Reservation, NoRow
<1>3. CASE CreateUser(s)
  BY <1>0, <1>3 DEF CreateUser
<1>4. CASE RecordUser(s)
  BY <1>0, <1>4 DEF RecordUser
<1>5. CASE CreateWorkspace(s)
  BY <1>0, <1>5 DEF CreateWorkspace
<1>6. CASE RecordWorkspace(s)
  BY <1>0, <1>6 DEF RecordWorkspace, MayNameWorkspace
<1>7. CASE Activate(s)
  <2>1. /\ route[s] = "bound" /\ route'[s] \in {"served", "drop_demo"}
        /\ UNCHANGED <<user, place>>
    BY <1>0, <1>7 DEF Activate
  <2>2. CASE Activates(s) /\ Writes(s, [row[s] EXCEPT !.status = "active", !.user = TRUE,
                                                      !.place = TRUE, !.due = FALSE])
    <3>1. /\ row'[s].user /\ row'[s].place /\ row'[s].status = "active"
          /\ row[s].status = "reserved"
      BY <1>0, <2>2 DEF Activates
    <3> QED BY <1>0, <2>1, <3>1
  <2>3. CASE row' = row /\ route'[s] = "drop_demo"
    BY <1>0, <2>1, <2>3
  <2> QED BY <1>0, <1>7, <2>2, <2>3 DEF Activate
<1>8. CASE Undo(s)
  <2>1. /\ route[s] \in {"drop_user", "drop_owner", "drop_demo"}
        /\ route'[s] \in {"undone", "queue_user", "queue_demo"}
        /\ route[s] \in {"drop_owner", "drop_demo"} => route'[s] # "queue_user"
        /\ route[s] = "drop_user" => route'[s] # "queue_demo"
        /\ route'[s] = "undone" => UserGoes(s)
        /\ NothingGoes \/ UserGoes(s) \/ PlaceGoes(s)
        /\ route[s] # "drop_demo" => NothingGoes \/ UserGoes(s)
    BY <1>0, <1>8 DEF Undo, UndoneBy
  <2>2. CASE NothingGoes
    BY <1>0, <2>1, <2>2 DEF NothingGoes, UserGoes
  <2>3. CASE UserGoes(s)
    BY <1>0, <2>1, <2>3 DEF UserGoes, Forgets
  <2>4. CASE PlaceGoes(s)
    BY <1>0, <2>1, <2>4 DEF PlaceGoes, Forgets, UserGoes
  <2> QED BY <2>1, <2>2, <2>3, <2>4
<1>9. CASE Fail(s)
  <2>1. /\ \/ route[s] = "undone" /\ route'[s] = "answered"
           \/ route[s] = "refused" /\ route'[s] = "turned_away"
        /\ UNCHANGED <<user, place>>
        /\ row'[s] = Failed(row[s]) \/ row'[s] = row[s]
    BY <1>0, <1>9 DEF Fail
  <2>2. CASE row'[s] = Failed(row[s]) /\ row'[s] # row[s]
    <3>1. /\ row'[s].user = row[s].user /\ row'[s].place = row[s].place
          /\ row[s].status \in LiveStates
          /\ row'[s].status = IF row[s].user \/ row[s].place THEN "cleanup_failed" ELSE "failed"
      BY <1>0, <2>2 DEF Failed
    <3> QED BY <1>0, <2>1, <3>1
  <2>3. CASE row'[s] = row[s]
    BY <1>0, <2>1, <2>3
  <2> QED BY <2>1, <2>2, <2>3
<1>10. CASE Queue(s)
  <2>1. /\ route[s] \in {"queue_user", "queue_demo"} /\ route'[s] \in {"answered", "reported"}
        /\ UNCHANGED <<user, place>>
        /\ \/ MayQueue(s) /\ row'[s] = Queued(s)
           \/ row'[s] = row[s] /\ (route[s] = "queue_user" => route'[s] = "reported")
    BY <1>0, <1>10 DEF Queue, Unheard
  <2>2. CASE MayQueue(s) /\ row'[s] = Queued(s)
    <3>1. /\ row'[s].user = (row[s].user \/ route[s] = "queue_user")
          /\ row'[s].place = row[s].place /\ row'[s].status = "cleanup_failed"
          /\ row[s].status \in LiveStates \cup {"failed", "cleanup_failed"}
          /\ route[s] = "queue_user" => user[s] = "alive"
      BY <1>0, <2>2 DEF Queued, MayQueue, QueueStates
    <3> QED BY <1>0, <2>1, <3>1
  <2>3. CASE row'[s] = row[s] /\ (route[s] = "queue_user" => route'[s] = "reported")
    BY <1>0, <2>1, <2>3
  <2> QED BY <2>1, <2>2, <2>3
<1>11. CASE Die(s)
  BY <1>0, <1>11 DEF Die, Working
<1> QED
  BY <1>1, <1>2, <1>3, <1>4, <1>5, <1>6, <1>7, <1>8, <1>9, <1>10, <1>11 DEF RouteStep


\* A step of the start route is of no concern to other starts, but for the count, which
\* may let their reservations expire.
LEMMA RouteIsLocal ==
    ASSUME TypeOK, NEW s \in Starts, RouteStep(s), NEW t \in Starts, t # s, SessionFits(t)
    PROVE  SessionFits(t)' /\ Kept(t)
<1>0. /\ row \in [Starts -> Rows] /\ user \in [Starts -> Resources]
      /\ place \in [Starts -> Places] /\ route \in [Starts -> RouteStates]
  BY DEF TypeOK
<1>1. CASE Count(s)
  <2>1. row'[t] = Released(row[t]) /\ UNCHANGED <<user, place>> /\ route'[t] = route[t]
    BY <1>0, <1>1 DEF Count, Moves
  <2>2. CASE row[t].status = "reserved" /\ row[t].due
    <3>1. row'[t] = [row[t] EXCEPT !.status = "expired"] /\ row[t] \in Rows
      BY <1>0, <2>1, <2>2 DEF Released
    <3>2. /\ row'[t].status = "expired" /\ row'[t].user = row[t].user
          /\ row'[t].place = row[t].place /\ row'[t].due = row[t].due
      BY <3>1 DEF Rows
    <3> QED
      BY <2>1, <2>2, <3>2 DEF SessionFits, RouteFits, Lasts, Left, Kept, Named,
                              Unnamed, OutOfReach
  <2>3. CASE ~(row[t].status = "reserved" /\ row[t].due)
    BY <2>1, <2>3, SameFits DEF Released, Same
  <2> QED BY <2>2, <2>3
<1>2. CASE ~Count(s)
  <2>1. Same(t)
    BY <1>0, <1>2 DEF RouteStep, Reserve, CreateUser, RecordUser, CreateWorkspace, RecordWorkspace,
                 Activate, Undo, Fail, Queue, Unheard, Die, Moves, Writes, UserGoes, PlaceGoes,
                 NothingGoes, Forgets, Same
  <2> QED BY <2>1, SameFits
<1> QED BY <1>1, <1>2

\* Time.
LEMMA TimeFits ==
    ASSUME TypeOK, NEW s \in Starts, TimePasses(s), NEW t \in Starts, SessionFits(t)
    PROVE  SessionFits(t)' /\ Kept(t)
<1>0. /\ row \in [Starts -> Rows] /\ user \in [Starts -> Resources]
      /\ place \in [Starts -> Places] /\ route' = route
      /\ Shape(s)
  BY SessionParts DEF TypeOK, TimePasses, WindowEnds, DemoEnds, LeaseAges
<1>1. CASE t # s
  <2>1. Same(t)
    BY <1>0, <1>1 DEF TimePasses, WindowEnds, DemoEnds, LeaseAges, Writes, Same
  <2> QED BY <2>1, SameFits
<1>2. CASE t = s
  <2>1. /\ row'[s].status = row[s].status /\ row'[s].user = row[s].user
        /\ row'[s].place = row[s].place /\ (row[s].due => row'[s].due)
        /\ UNCHANGED <<user, place>>
    <3>1. CASE WindowEnds(s)
      BY <1>0, <3>1 DEF WindowEnds, Writes, Shape, Rows
    <3>2. CASE DemoEnds(s)
      BY <1>0, <3>2 DEF DemoEnds, Writes, Shape, Rows
    <3>3. CASE LeaseAges(s)
      BY <1>0, <3>3 DEF LeaseAges, Writes, Shape, Rows
    <3> QED BY <3>1, <3>2, <3>3 DEF TimePasses
  <2> QED
    BY <1>0, <1>2, <2>1 DEF SessionFits, RouteFits, Lasts, Left, Kept, Named, Unnamed, OutOfReach
<1> QED BY <1>1, <1>2

\* The owner, who deletes what is due, and the administrators.
LEMMA OwnerFits ==
    ASSUME TypeOK, NEW s \in Starts, OwnerStep(s) \/ Administer(s),
           NEW t \in Starts, SessionFits(t)
    PROVE  SessionFits(t)' /\ Kept(t)
<1>0. /\ row \in [Starts -> Rows] /\ user \in [Starts -> Resources]
      /\ place \in [Starts -> Places] /\ route \in [Starts -> RouteStates]
      /\ Shape(s)
  BY SessionParts DEF TypeOK
<1>1. CASE t # s
  <2>1. Same(t)
    BY <1>0, <1>1 DEF OwnerStep, OwnerOpens, OwnerNormalizes, OwnerDeletes, OwnerLeaves, Administer,
                      Moves, UserGoes, PlaceGoes, Forgets, Same
  <2> QED BY <2>1, SameFits
<1>2. CASE t = s
  <2> USE DEF SessionFits, RouteFits, Lasts, Left, Kept, Named, Unnamed, OutOfReach, HandedOut,
              Nameless, Unrecorded, Standing, Moves
  <2>1. CASE OwnerOpens(s) \/ OwnerLeaves(s)
    <3>1. /\ UNCHANGED <<row, user, place>>
          /\ route[s] \in HandedOut /\ route'[s] \in HandedOut
          /\ route'[s] = "deleting" => row[s].due
          /\ route'[s] # "deleting_user"
      BY <1>0, <2>1 DEF OwnerOpens, OwnerLeaves
    <3> QED BY <1>2, <3>1
  <2>2. CASE OwnerNormalizes(s) \/ Administer(s)
    <3>1. /\ UNCHANGED <<row, user>>
          /\ route'[s] = route[s] \/ (route[s] \in HandedOut /\ route'[s] = "served")
          /\ place[s] \in Standing => place'[s] \in Standing
      BY <1>0, <2>2 DEF OwnerNormalizes, Administer
    <3> QED BY <1>2, <3>1
  <2>3. CASE OwnerDeletes(s)
    <3>1. /\ route[s] \in {"deleting", "deleting_user"}
          /\ route'[s] \in {"deleting_user", "served"}
          /\ row'[s].status = row[s].status /\ row[s].due /\ row'[s].due
          /\ \/ row'[s].user = row[s].user /\ ~row'[s].place /\ user'[s] = user[s]
             \/ ~row'[s].user /\ ~row'[s].place /\ user'[s] = "gone"
      BY <1>0, <1>2, <2>3 DEF OwnerDeletes, PlaceGoes, UserGoes, Forgets, Shape, Rows
    <3> QED BY <1>0, <1>2, <3>1 DEF Shape
  <2> QED BY <2>1, <2>2, <2>3 DEF OwnerStep
<1> QED BY <1>1, <1>2


\* The steps of the cleanup keep every session: what they take away is out of reach.
LEMMA CleanerFits ==
    ASSUME TypeOK, NEW c \in Cleaners, ClaimsHold(c), CleanerStep(c),
           NEW t \in Starts, SessionFits(t)
    PROVE  SessionFits(t)' /\ Kept(t)
<1>0. /\ row \in [Starts -> Rows] /\ user \in [Starts -> Resources]
      /\ place \in [Starts -> Places] /\ route' = route /\ Shape(t)
  BY SessionParts DEF TypeOK, CleanerStep, Sweep, LookUp, Delete, Complete, CleanerDies
<1> DEFINE doing == cleaner[c].doing
<1>d. /\ Cleaned
      /\ doing # NoDeletion => doing \in Deletions
      /\ NoDeletion.step = "none"
  BY TypeParts, DoingFacts
<1>1. CASE Sweep(c)
  <2>1. row'[t] = (IF Claimable(row[t]) THEN Claimed(row[t]) ELSE row[t])
        /\ UNCHANGED <<user, place>>
    BY <1>0, <1>1 DEF Sweep
  <2>2. CASE Claimable(row[t])
    <3>1. /\ row'[t].status = "cleanup_pending" /\ row'[t].user = row[t].user
          /\ row'[t].place = row[t].place /\ row'[t].due = row[t].due
          /\ row[t].status \notin {"none", "deleted"}
          /\ row[t].status = "active" => row[t].due
      BY <1>0, <2>1, <2>2 DEF Claimable, Claimed, Shape, Rows, LiveStates
    <3> QED
      BY <1>0, <2>1, <3>1 DEF SessionFits, RouteFits, Lasts, Left, Kept, Named,
                              Unnamed, OutOfReach
  <2>3. CASE ~Claimable(row[t])
    BY <1>0, <2>1, <2>3, SameFits DEF Same
  <2> QED BY <2>2, <2>3
<1>2. CASE LookUp(c) \/ CleanerDies(c)
  BY <1>2, SameFits DEF LookUp, CleanerDies, Same
<1>3. CASE Delete(c)
  <2>1. /\ doing \in Deletions /\ doing.start \in Starts
        /\ doing.step \in {"place", "user"}
        /\ NothingGoes \/ PlaceGoes(doing.start) \/ UserGoes(doing.start)
    BY <1>d, <1>3 DEF Delete, Deletions
  <2>2. /\ row[doing.start].status \in OutOfReach /\ Named(doing.start)
    BY <1>d, <2>1 DEF ClaimsHold
  <2>3. CASE doing.start # t
    BY <1>0, <2>1, <2>3, SameFits DEF Same, NothingGoes, PlaceGoes, UserGoes, Forgets
  <2>4. CASE doing.start = t
    <3> HIDE DEF doing
    <3>1. /\ row'[t].status = row[t].status /\ row'[t].due = row[t].due
          /\ \/ /\ row'[t].user = row[t].user /\ (row'[t].place => row[t].place)
                /\ user'[t] = user[t]
             \/ ~row'[t].user /\ ~row'[t].place /\ user'[t] = "gone"
      <4>1. CASE NothingGoes
        BY <4>1 DEF NothingGoes
      <4>2. CASE PlaceGoes(t)
        BY <1>0, <4>2 DEF PlaceGoes, Forgets, Shape, Rows
      <4>3. CASE UserGoes(t)
        BY <1>0, <4>3 DEF UserGoes, Forgets, Shape, Rows
      <4> QED BY <2>1, <2>4, <4>1, <4>2, <4>3
    <3>2. row[t].status \in OutOfReach /\ Named(t)
      BY <2>2, <2>4
    <3> QED
      BY <1>0, <3>1, <3>2 DEF SessionFits, RouteFits, Lasts, Left, Kept, Named,
                              Unnamed, OutOfReach, Shape
  <2> QED BY <2>3, <2>4
<1>4. CASE Complete(c)
  <2>1. /\ doing \in Deletions /\ doing.start \in Starts
        /\ doing.step \in {"succeeded", "failed"}
        /\ row' = row \/ Writes(doing.start, Completed(row[doing.start], doing.step))
        /\ UNCHANGED <<user, place>>
    BY <1>d, <1>4 DEF Complete, Deletions
  <2>2. /\ doing.step = "succeeded" => Unnamed(doing.start)
        /\ doing.step = "failed" => Named(doing.start)
    BY <1>d, <2>1 DEF ClaimsHold
  <2>3. CASE row' = row \/ doing.start # t \/ row[t].status # "cleanup_pending"
    BY <1>0, <2>1, <2>3, SameFits DEF Same, Writes, Completed
  <2>4. CASE /\ Writes(doing.start, Completed(row[doing.start], doing.step))
             /\ doing.start = t /\ row[t].status = "cleanup_pending"
    <3> HIDE DEF doing
    <3>1. /\ row'[t].status = (IF doing.step = "succeeded" THEN "deleted" ELSE "cleanup_failed")
          /\ row'[t].user = row[t].user /\ row'[t].place = row[t].place
          /\ row'[t].due = row[t].due
      BY <1>0, <2>4 DEF Writes, Completed, Shape, Rows
    <3>2. /\ doing.step = "succeeded" => Unnamed(t)
          /\ doing.step # "succeeded" => Named(t)
      BY <2>1, <2>2, <2>4
    <3> QED
      BY <1>0, <2>1, <2>4, <3>1, <3>2
      DEF SessionFits, RouteFits, Lasts, Left, Kept, Named, Unnamed, OutOfReach, Shape
  <2> QED BY <2>1, <2>3, <2>4
<1> QED BY <1>1, <1>2, <1>3, <1>4 DEF CleanerStep


-----------------------------------------------------------------------------
(* Claims                                                                   *)

\* What another run knows stays true, and so does what is left of a batch.
LEMMA TodoKept ==
    ASSUME Cleaned, NEW c \in Cleaners, ClaimsHold(c), \A s \in Starts : Kept(s),
           cleaner'[c].todo \subseteq cleaner[c].todo
    PROVE  \A k \in cleaner'[c].todo :
             /\ row'[k.start].status \in OutOfReach
             /\ k.place => k.user
             /\ k.user => Named(k.start)'
             /\ ~k.user => Unnamed(k.start)'
<1> SUFFICES ASSUME NEW k \in cleaner'[c].todo
             PROVE  /\ row'[k.start].status \in OutOfReach
                    /\ k.place => k.user
                    /\ k.user => Named(k.start)'
                    /\ ~k.user => Unnamed(k.start)'
  OBVIOUS
<1>1. k \in cleaner[c].todo /\ k.start \in Starts
  BY DoingFacts DEF CleanerRecords, Candidates
<1> QED BY <1>1 DEF ClaimsHold, Kept

LEMMA ClaimsKept ==
    ASSUME Cleaned, NEW c \in Cleaners, ClaimsHold(c), \A s \in Starts : Kept(s),
           cleaner'[c] = cleaner[c]
    PROVE  ClaimsHold(c)'
<1> DEFINE doing == cleaner[c].doing
<1>1. ASSUME doing # NoDeletion
      PROVE  /\ row'[doing.start].status \in OutOfReach
             /\ doing.step = "succeeded" => Unnamed(doing.start)'
             /\ doing.step # "succeeded" => Named(doing.start)'
             /\ doing.step = "place" => doing.user
  <2>1. doing.start \in Starts
    BY <1>1, DoingFacts DEF Deletions
  <2> QED BY <1>1, <2>1 DEF ClaimsHold, Kept
<1> QED BY <1>1, TodoKept DEF ClaimsHold

\* A run learns only what is true.
LEMMA OwnClaims ==
    ASSUME TypeOK, NEW c \in Cleaners, ClaimsHold(c), CleanerStep(c),
           \A s \in Starts : SessionFits(s) /\ Kept(s)
    PROVE  ClaimsHold(c)'
<1>0. /\ row \in [Starts -> Rows] /\ user \in [Starts -> Resources] /\ Cleaned
      /\ \A s \in Starts : Shape(s)
  BY SessionParts, TypeParts DEF TypeOK
<1> DEFINE doing == cleaner[c].doing
<1>d. /\ cleaner[c] \in CleanerRecords
      /\ doing # NoDeletion => doing \in Deletions
      /\ NoDeletion \notin Deletions
      /\ NoDeletion.step = "none"
  BY <1>0, DoingFacts
<1>1. CASE Sweep(c)
  <2> DEFINE todo == { [start |-> s, user |-> row[s].user, place |-> row[s].place] :
                       s \in { t \in Starts : Claimable(row[t]) } }
  <2>1. cleaner'[c].todo = todo /\ cleaner'[c].doing = NoDeletion /\ UNCHANGED <<user, place>>
    BY <1>0, <1>1 DEF Sweep, Resting, Cleaned
  <2>2. ASSUME NEW k \in todo
        PROVE  /\ row'[k.start].status \in OutOfReach
               /\ k.place => k.user
               /\ k.user => Named(k.start)'
               /\ ~k.user => Unnamed(k.start)'
    <3>1. PICK s \in Starts : /\ Claimable(row[s])
                              /\ k = [start |-> s, user |-> row[s].user, place |-> row[s].place]
      OBVIOUS
    <3>2. row'[s].status = "cleanup_pending" /\ row'[s].user = row[s].user
      BY <1>0, <1>1, <3>1 DEF Sweep, Claimed, Rows
    <3>3. row[s].place => row[s].user
      BY DEF SessionFits, RouteFits
    <3> QED BY <3>1, <3>2, <3>3 DEF Named, Unnamed, OutOfReach
  <2> QED BY <2>1, <2>2 DEF ClaimsHold
<1>2. CASE LookUp(c)
  <2>1. PICK k \in cleaner[c].todo :
          LET s == k.start
              found == [start |-> s, user |-> k.user /\ user[s] = "alive",
                        step |-> FirstStep(k)]
          IN  \/ /\ cleaner' = [cleaner EXCEPT ![c] = [todo |-> @.todo \ {k}, doing |-> found]]
                 /\ UNCHANGED faults
              \/ /\ k.user \/ k.place
                 /\ cleaner' = [cleaner EXCEPT ![c] = [todo |-> @.todo \ {k},
                                                       doing |-> [found EXCEPT !.step = "failed"]]]
                 /\ Fault
    BY <1>2 DEF LookUp
  <2>2. k \in Candidates /\ k.start \in Starts
    BY <1>d DEF CleanerRecords, Candidates
  <2>3. /\ cleaner'[c].todo \subseteq cleaner[c].todo
        /\ cleaner'[c].doing.start = k.start
        /\ cleaner'[c].doing.user <=> k.user /\ user[k.start] = "alive"
        /\ \/ cleaner'[c].doing.step = FirstStep(k)
           \/ cleaner'[c].doing.step = "failed" /\ (k.user \/ k.place)
    <3> DEFINE found == [start |-> k.start, user |-> k.user /\ user[k.start] = "alive",
                         step |-> FirstStep(k)]
    <3>1. CASE cleaner' = [cleaner EXCEPT ![c] = [todo |-> @.todo \ {k}, doing |-> found]]
      BY <1>0, <3>1 DEF Cleaned
    <3>2. CASE /\ cleaner' = [cleaner EXCEPT ![c] = [todo |-> @.todo \ {k},
                                                    doing |-> [found EXCEPT !.step = "failed"]]]
               /\ k.user \/ k.place
      <4>1. [found EXCEPT !.step = "failed"] =
              [start |-> k.start, user |-> k.user /\ user[k.start] = "alive", step |-> "failed"]
        OBVIOUS
      <4>2. /\ cleaner'[c].todo = cleaner[c].todo \ {k}
            /\ cleaner'[c].doing = [found EXCEPT !.step = "failed"]
        BY <1>0, <3>2 DEF Cleaned
      <4>3. k.user \/ k.place
        BY <3>2
      <4> HIDE DEF found
      <4> QED BY <4>1, <4>2, <4>3
    <3> QED BY <2>1, <3>1, <3>2
  <2>4. /\ row[k.start].status \in OutOfReach /\ (k.place => k.user)
        /\ k.user => Named(k.start)
        /\ ~k.user => Unnamed(k.start)
    BY DEF ClaimsHold
  <2>5. UNCHANGED <<row, user, place>> /\ Shape(k.start)
    BY <1>0, <1>2, <2>2 DEF LookUp
  <2>6. /\ FirstStep(k) \in {"place", "user", "succeeded", "failed"}
        /\ FirstStep(k) = "failed" => k.user
        /\ FirstStep(k) = "place" => k.user /\ user[k.start] = "alive"
        /\ FirstStep(k) = "user" => k.user
        /\ FirstStep(k) = "succeeded" => Unnamed(k.start)
    BY <2>2, <2>4, <2>5, StepOfLookUp DEF Shape, Standing, Named, Unnamed
  <2>7. /\ cleaner'[c].doing.step = "succeeded" => Unnamed(k.start)
        /\ cleaner'[c].doing.step # "succeeded" => Named(k.start)
        /\ cleaner'[c].doing.step = "place" => cleaner'[c].doing.user
    BY <2>3, <2>4, <2>6
  <2> QED BY <1>0, <2>3, <2>4, <2>5, <2>7, TodoKept DEF ClaimsHold, Named, Unnamed
<1>3. CASE Delete(c)
  <2>1. /\ doing \in Deletions /\ doing.start \in Starts
        /\ doing.step \in {"place", "user"}
    BY <1>d, <1>3 DEF Delete, Deletions
  <2>2. /\ row[doing.start].status \in OutOfReach /\ Named(doing.start)
        /\ doing.step = "place" => doing.user
    BY <1>d, <2>1 DEF ClaimsHold
  <2>3. /\ cleaner'[c].todo = cleaner[c].todo
        /\ cleaner'[c].doing.start = doing.start
        /\ cleaner'[c].doing.step \in {"user", "succeeded", "failed"}
        /\ cleaner'[c].doing.step = "succeeded" =>
             doing.step = "user" /\ UserGoes(doing.start)
    <3>1. PICK step \in {"user", "succeeded", "failed"} :
            /\ Advance(c, step)
            /\ step = "succeeded" => doing.step = "user" /\ UserGoes(doing.start)
      BY <1>3, <2>1, <2>2 DEF Delete
    <3>2. /\ cleaner'[c].todo = cleaner[c].todo
          /\ cleaner'[c].doing = [doing EXCEPT !.step = step]
      BY <1>0, <1>d, <3>1 DEF Advance, Cleaned, CleanerRecords
    <3>3. /\ cleaner'[c].doing.start = doing.start
          /\ cleaner'[c].doing.step = step
      BY <2>1, <3>2 DEF Deletions
    <3> QED BY <3>1, <3>2, <3>3
  <2>4. /\ row'[doing.start].status \in OutOfReach /\ Named(doing.start)'
        /\ cleaner'[c].doing.step = "succeeded" => Unnamed(doing.start)'
    BY <1>0, <2>1, <2>2, <2>3 DEF Kept, UserGoes, Unnamed
  <2> QED BY <1>0, <2>3, <2>4, TodoKept DEF ClaimsHold
<1>4. CASE Complete(c) \/ CleanerDies(c)
  <2>1. cleaner'[c].todo \subseteq cleaner[c].todo /\ cleaner'[c].doing = NoDeletion
    BY <1>0, <1>4, <1>d DEF Complete, CleanerDies, Cleaned, CleanerRecords, Resting
  <2> QED BY <1>0, <2>1, TodoKept DEF ClaimsHold
<1> QED BY <1>1, <1>2, <1>3, <1>4 DEF CleanerStep


-----------------------------------------------------------------------------
(* The invariant                                                            *)

LEMMA InitHolds ==
    ASSUME Init
    PROVE  IInv
<1>1. TypeOK
  <2>1. NoRow \in Rows /\ ~NoRow.user /\ ~NoRow.place
    BY DEF NoRow, Rows, RowStates, LiveStates
  <2>2. Resting \in CleanerRecords
    BY DEF Resting, CleanerRecords
  <2> QED
    BY <2>1, <2>2, FaultCounts, DemoDomains
    DEF Init, TypeOK, CleanerRecords, Resources, Places, Standing, RouteStates
<1>2. \A s \in Starts : SessionFits(s)
  BY DEF Init, SessionFits, RouteFits, Lasts, Left, HandedOut, NoRow
<1>3. Claims
  BY DEF Init, Claims, ClaimsHold, Resting
<1> QED BY <1>1, <1>2, <1>3, SessionParts DEF IInv

LEMMA StepHolds ==
    ASSUME IInv, [Next]_vars
    PROVE  IInv'
<1>0. /\ TypeOK /\ Fits /\ Cleaned
      /\ \A s \in Starts : SessionFits(s)
      /\ \A c \in Cleaners : ClaimsHold(c)
  BY SessionParts, TypeParts DEF IInv, Claims
<1> SUFFICES TypeOK' /\ (\A s \in Starts : SessionFits(s)') /\ (\A c \in Cleaners : ClaimsHold(c)')
  BY DEF IInv, Claims, Fits, DemoLastsItsHour, NothingLeftBehind, SessionFits, Lasts, Left
<1>1. ASSUME NEW s \in Starts, RouteStep(s) \/ TimePasses(s) \/ OwnerStep(s) \/ Administer(s)
      PROVE  /\ TypeOK'
             /\ \A t \in Starts : SessionFits(t)'
             /\ \A c \in Cleaners : ClaimsHold(c)'
  <2>1. TypeOK'
    BY <1>0, <1>1, RouteTyped, TimeTyped, OwnerTyped
  <2>2. \A t \in Starts : SessionFits(t)' /\ Kept(t)
    BY <1>0, <1>1, RouteFitsItself, RouteIsLocal, TimeFits, OwnerFits
  <2>3. UNCHANGED cleaner
    BY <1>1 DEF RouteStep, Count, Reserve, CreateUser, RecordUser, CreateWorkspace, RecordWorkspace,
                Activate, Undo, Fail, Queue, Die, TimePasses, WindowEnds, DemoEnds, LeaseAges,
                OwnerStep, OwnerOpens, OwnerNormalizes, OwnerDeletes, OwnerLeaves, Administer
  <2>4. \A c \in Cleaners : ClaimsHold(c)'
    BY <1>0, <2>2, <2>3, ClaimsKept
  <2> QED BY <2>1, <2>2, <2>4
<1>2. ASSUME NEW c \in Cleaners, CleanerStep(c)
      PROVE  /\ TypeOK'
             /\ \A t \in Starts : SessionFits(t)'
             /\ \A d \in Cleaners : ClaimsHold(d)'
  <2>1. TypeOK'
    BY <1>0, <1>2, CleanerTyped
  <2>2. \A t \in Starts : SessionFits(t)' /\ Kept(t)
    BY <1>0, <1>2, CleanerFits
  <2>3. ASSUME NEW d \in Cleaners, d # c
        PROVE  cleaner'[d] = cleaner[d]
    BY <1>0, <1>2, <2>3 DEF Cleaned, CleanerStep, Sweep, LookUp, Delete, Complete, CleanerDies, Advance
  <2>4. \A d \in Cleaners : ClaimsHold(d)'
    <3> TAKE d \in Cleaners
    <3>1. CASE d = c
      BY <1>0, <1>2, <2>2, <3>1, OwnClaims
    <3>2. CASE d # c
      BY <1>0, <2>2, <2>3, <3>2, ClaimsKept
    <3> QED BY <3>1, <3>2
  <2> QED BY <2>1, <2>2, <2>4
<1>3. CASE UNCHANGED vars
  BY <1>0, <1>3 DEF vars, TypeOK, SessionFits, RouteFits, Lasts, Left, ClaimsHold,
                    Named, Unnamed
<1> QED BY <1>1, <1>2, <1>3 DEF Next

LEMMA InvariantHolds == Spec => []IInv
BY InitHolds, StepHolds, PTL DEF Spec

\* The foreign keys, and with them every type, hold however starts, cleanups, faults and
\* deadlines interleave.
THEOREM DemoTyped == Spec => []TypeOK
BY InvariantHolds, PTL DEF IInv

\* No demo that was handed out is taken away before its hour is over: a cleanup that had
\* claimed it has put it out of the reach of activate_public_demo_start.
THEOREM DemosLast == Spec => []DemoLastsItsHour
BY InvariantHolds, PTL DEF IInv

\* A start leaves no user that the cleanup cannot find, but in the three cases that
\* Nameless tells: an answer of Auth that was lost or never recorded, an error of Auth
\* that had created the user, and a record and a queueing that failed both.
THEOREM StartsLeaveNothing == Spec => []NothingLeftBehind
BY InvariantHolds, PTL DEF IInv
=============================================================================
