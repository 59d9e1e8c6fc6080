---------------------------- MODULE ProjectionCut ----------------------------
(***************************************************************************)
(* What a stream of the Stripe billing ledger promises, whatever arrives in *)
(* whatever order: its projection stands for Stripe's time up to a cut.    *)
(***************************************************************************)
EXTENDS Integers

CONSTANT Keys        \* streams

VARIABLES cut,       \* the second of Stripe's time each stream is projected to
          revision,  \* how often it moved
          frozen,    \* the streams that wait for a snapshot
          receipts   \* the snapshots committed

vars == <<cut, revision, frozen, receipts>>

Init ==
    /\ cut = [k \in Keys |-> -1]
    /\ revision = [k \in Keys |-> 0]
    /\ frozen = [k \in Keys |-> FALSE]
    /\ receipts = {}

Advance(k) ==
    /\ cut'[k] > cut[k] /\ cut' = [cut EXCEPT ![k] = cut'[k]]
    /\ revision' = [revision EXCEPT ![k] = @ + 1]
    /\ frozen' = [frozen EXCEPT ![k] = FALSE]

\* An event newer than everything projected moves a stream that is in sync.
Project(k) == ~ frozen[k] /\ Advance(k) /\ UNCHANGED receipts

\* A snapshot moves any stream, leaves its receipt and ends a freeze.
Thaw(k) == Advance(k) /\ receipts \subseteq receipts' /\ receipts' # receipts

Freeze ==
    /\ frozen' \in [Keys -> BOOLEAN] /\ \A k \in Keys : frozen[k] => frozen'[k]
    /\ UNCHANGED <<cut, revision, receipts>>

Next == Freeze \/ \E k \in Keys : Project(k) \/ Thaw(k)

Spec == Init /\ [][Next]_vars
=============================================================================
