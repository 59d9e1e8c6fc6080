---------------------- MODULE MobilePushDeliveryProofs ----------------------
(***************************************************************************)
(* What the delivery of a reminder promises for any number of runs, tokens *)
(* and attempts: one push at most, verdicts that are true and final, and   *)
(* no device switched off for a token it no longer has.                    *)
(***************************************************************************)
EXTENDS MobilePushDelivery, FiniteSetTheorems, WellFoundedInduction, TLAPS

-----------------------------------------------------------------------------
(* The inductive invariant. *)

Deleted == registration.status = "absent"

\* Whoever is registered has a token; the attempts of a deleted registration are gone.
RegistrationFits ==
    /\ registration.status # "absent" => registration.token \in PushTokens
    /\ Deleted => \A n \in Attempts : attempt[n] = NoAttempt

\* A row, beside what the provider did: a lease goes with the state it was given for, and
\* the state is true.
RowFits(row, did) ==
    /\ row.sendLease # "none" => row.state = "sending"
    /\ row.receiptLease # "none" => row.state = "receipt_checking"
    /\ row.state # "none" => row.token \in PushTokens
    /\ row.state = "accepted" => did = "delivered"
    /\ row.state = "retry_scheduled" => did \in {"refused", "later"}
    /\ row.state \in AwaitingReceipt => did \notin {"none", "refused"}

\* Nothing knows of an attempt that was not reserved.
Untouched(n) ==
    /\ provider[n] = "none"
    /\ \A s \in Senders : sender[s].number # n
    /\ \A c \in Checkers : checker[c].number # n

AttemptFits(n) ==
    /\ RowFits(attempt[n], provider[n])
    /\ ~ Deleted /\ attempt[n].state = "none" => Untouched(n)

\* A run that has reserved an attempt has not sent it yet, and nobody else touches it; a
\* run that has sent it knows what the provider answered until that is recorded.
SenderFits(s) ==
    LET n == sender[s].number IN
    /\ sender[s].at \in {"reserved", "sent"} <=> n # 0
    /\ sender[s].at # "idle" => sender[s].token \in PushTokens
    /\ n # 0 /\ ~ Deleted => attempt[n].token = sender[s].token
    /\ sender[s].at = "reserved" =>
         provider[n] = "none" /\ (Deleted \/ attempt[n].state = "sending")
    /\ sender[s].at = "sent" =>
         /\ attempt[n].state = "sending" => <<provider[n], sender[s].response>> \in ProviderAnswers
         /\ sender[s].response = "not_registered" => sender[s].token \in gone

\* A receipt is looked up of attempts that were sent, and is remembered as it was.
CheckerFits(c) ==
    LET n == checker[c].number
        response == checker[c].response IN
    /\ checker[c].at # "idle" <=> n # 0
    /\ n # 0 /\ ~ Deleted => attempt[n].state \notin {"none", "sending"}
    /\ checker[c].at = "answered" =>
         /\ response \in {"delivered", "later", "rejected", "not_registered"} => provider[n] = response
         /\ response = "not_registered" /\ ~ Deleted => attempt[n].token \in gone

\* An attempt follows one that the provider refused.
Chained ==
    \A m, n \in Attempts :
        m < n /\ attempt[n].state # "none" => attempt[m].state = "retry_scheduled"

\* No two runs send the same attempt.
OwnAttempts ==
    \A s, t \in Senders : sender[s].number = sender[t].number /\ sender[s].number # 0 => s = t

\* The provider has the attempt, or some run may still give it to it.
Pushable(n) ==
    \/ provider[n] \in {"taken", "delivered"}
    \/ \E s \in Senders : sender[s].at = "reserved" /\ sender[s].number = n

OnePushable == \A m, n \in Attempts : Pushable(m) /\ Pushable(n) => m = n

IInv ==
    /\ TypeOK
    /\ RegistrationFits /\ DisabledMeansGone
    /\ \A n \in Attempts : AttemptFits(n)
    /\ \A s \in Senders : SenderFits(s)
    /\ \A c \in Checkers : CheckerFits(c)
    /\ Chained /\ OwnAttempts /\ OnePushable

-----------------------------------------------------------------------------
(* The operators of the ledger. *)

\* A set of attempts that is not empty has a last one: of its subsets that reach as far
\* as it does, the smallest holds nothing else.
LEMMA LastExists ==
    ASSUME NEW S \in SUBSET Attempts, S # {}
    PROVE  \E n \in S : \A m \in S : m <= n
<1> DEFINE Reaching == { T \in SUBSET S : \A x \in S : \E y \in T : x <= y }
           smaller == StrictSubsetOrdering(S)
<1>1. IsFiniteSet(S)
  <2>1. IsFiniteSet(Attempts)
    BY FS_Interval, DeliveryDomains DEF Attempts
  <2> QED BY <2>1, FS_Subset
<1>2. IsWellFoundedOn(smaller, SUBSET S)
  BY <1>1, FS_StrictSubsetOrderingWellFounded, FS_FiniteSubsetsOfFinite
<1>3. \A x \in S : x \in Nat
  BY DeliveryDomains DEF Attempts
<1>4. S \in Reaching
  BY <1>3
<1>5. PICK T \in Reaching : \A U \in Reaching : ~ (<<U, T>> \in smaller)
  <2>1. Reaching \subseteq SUBSET S /\ Reaching # {}
    BY <1>4
  <2> HIDE DEF Reaching, smaller
  <2> QED BY <1>2, <2>1, WFMin
<1>6. PICK n \in T : TRUE
  BY <1>4
<1>7. ASSUME NEW m \in S, ~ (m <= n) PROVE FALSE
  <2> DEFINE U == T \ {n}
  <2>1. PICK k \in T : m <= k
    OBVIOUS
  <2>2. n \in Nat /\ m \in Nat /\ k \in Nat
    BY <1>3
  <2>3. n < k
    BY <1>7, <2>1, <2>2
  <2>4. ASSUME NEW x \in S PROVE \E y \in U : x <= y
    <3>1. PICK y \in T : x <= y
      OBVIOUS
    <3>2. x \in Nat /\ y \in Nat
      BY <1>3
    <3>3. CASE y # n
      BY <3>1, <3>3
    <3>4. CASE y = n
      BY <2>2, <2>3, <3>1, <3>2, <3>4
    <3> QED BY <3>3, <3>4
  <2>5. U \in Reaching
    BY <2>4
  <2>6. <<U, T>> \in smaller
    BY DEF StrictSubsetOrdering
  <2> QED BY <1>5, <2>5, <2>6
<1> QED BY <1>6, <1>7

LEMMA LatestIsLast ==
    ASSUME Existing # {}
    PROVE  Latest \in Existing /\ \A m \in Existing : m <= Latest
<1>1. Existing \in SUBSET Attempts
  BY DEF Existing
<1>2. \E n \in Existing : \A m \in Existing : m <= n
  BY <1>1, LastExists
<1> QED BY <1>2 DEF Latest

\* The number of a new attempt is the first that is free, and what came before it was
\* refused.
LEMMA NextIsFree ==
    ASSUME TypeOK, Chained, MayReserve
    PROVE  /\ NextNumber \in Attempts
           /\ attempt[NextNumber].state = "none"
           /\ \A m \in Attempts : m < NextNumber => attempt[m].state = "retry_scheduled"
           /\ \A m \in Attempts : m > NextNumber => attempt[m].state = "none"
<1> USE DeliveryDomains
<1>0. NextNumber \in Attempts /\ \A m \in Attempts : m \in Nat /\ m >= 1
  BY DEF MayReserve, Attempts
<1>1. CASE Existing = {}
  <2>1. NextNumber = 1 /\ \A m \in Attempts : attempt[m].state = "none"
    BY <1>1 DEF NextNumber, Existing
  <2> QED BY <1>0, <2>1
<1>2. CASE Existing # {}
  <2>1. Latest \in Existing /\ \A m \in Existing : m <= Latest
    BY <1>2, LatestIsLast
  <2>2. NextNumber = Latest + 1 /\ attempt[Latest].state = "retry_scheduled"
    BY <1>2 DEF NextNumber, MayReserve, Repeatable
  <2>3. Latest \in Nat /\ Latest \in Attempts
    BY <1>0, <2>1 DEF Existing
  <2> DEFINE l == Latest
  <2> HIDE DEF l
  <2>4. \A m \in Attempts : attempt[m].state # "none" => m <= l
    BY <2>1 DEF Existing, l
  <2>5. l \in Nat /\ l \in Attempts /\ NextNumber = l + 1
        /\ attempt[l].state = "retry_scheduled"
    BY <2>2, <2>3 DEF l
  <2>6. \A m \in Attempts : m < l => attempt[m].state = "retry_scheduled"
    BY <2>5 DEF Chained
  <2>7. \A m \in Attempts : m > l => attempt[m].state = "none"
    BY <1>0, <2>4, <2>5
  <2>8. l \in Nat
    BY <2>5
  <2>9. \A m \in Nat : (m < l + 1 <=> m < l \/ m = l) /\ (m > l + 1 => m > l)
    BY <2>8
  <2>10. attempt[l + 1].state = "none"
    BY <1>0, <2>5, <2>7, <2>8
  <2> QED BY <1>0, <2>5, <2>6, <2>7, <2>9, <2>10
<1> QED BY <1>1, <1>2

-----------------------------------------------------------------------------
(* Types. *)

Providers == {"none", "taken", "refused", "delivered", "later", "rejected", "not_registered"}

LEMMA EndedIsRow ==
    ASSUME NEW row \in AttemptRows, NEW state \in AttemptStates
    PROVE  Ended(row, state) \in AttemptRows
BY DEF Ended, AttemptRows, Leases

LEMMA VerdictsAreStates ==
    ASSUME NEW n, NEW check, NEW response
    PROVE  /\ response \in SendResponses \ {"not_registered"} =>
                SendVerdict(n, response) \in AttemptStates
           /\ response \in ReceiptResponses \ {"not_registered"} =>
                CheckVerdict(n, check, response) \in AttemptStates
BY DEF SendVerdict, CheckVerdict, RetryVerdict, AttemptStates, AwaitingReceipt, TerminalStates,
       SendResponses, ReceiptResponses

\* A run that has an attempt to write is at one.
LEMMA RunsAreTyped ==
    ASSUME TypeOK
    PROVE  /\ \A s \in Senders : sender[s] \in SenderStates
           /\ \A c \in Checkers : checker[c] \in CheckerStates
           /\ \A n \in Attempts : attempt[n] \in AttemptRows
           /\ NoSend \in SenderStates /\ NoCheck \in CheckerStates
           /\ NoAttempt \in AttemptRows
           /\ \A s \in Senders : sender[s].number # 0 => sender[s].number \in Attempts
           /\ \A c \in Checkers : checker[c].number # 0 => checker[c].number \in Attempts
BY DeliveryDomains DEF TypeOK, NoSend, SenderStates, NoCheck, CheckerStates, SendResponses,
       ReceiptResponses, NoAttempt, AttemptRows, AttemptStates, Leases, Attempts

LEMMA AttemptsAreNumbers == \A n \in Attempts : n \in 0..MaxAttempts /\ n # 0
BY DeliveryDomains DEF Attempts

LEMMA SendsAreTyped ==
    ASSUME NEW s \in SenderStates
    PROVE  /\ \A n \in Attempts : [s EXCEPT !.at = "reserved", !.number = n] \in SenderStates
           /\ \A response \in SendResponses :
                /\ [s EXCEPT !.at = "sent", !.response = response] \in SenderStates
                /\ [s EXCEPT !.response = response] \in SenderStates
BY AttemptsAreNumbers DEF SenderStates

LEMMA ChecksAreTyped ==
    ASSUME NEW c \in CheckerStates, NEW response \in ReceiptResponses
    PROVE  [c EXCEPT !.at = "answered", !.response = response] \in CheckerStates
BY DEF CheckerStates

LEMMA PushTypeStep ==
    ASSUME TypeOK, \A s \in Senders : SenderFits(s), \A c \in Checkers : CheckerFits(c),
           [Next]_vars
    PROVE  TypeOK'
<1>0. /\ \A s \in Senders : sender[s] \in SenderStates
      /\ \A c \in Checkers : checker[c] \in CheckerStates
      /\ \A n \in Attempts : attempt[n] \in AttemptRows
      /\ NoSend \in SenderStates /\ NoCheck \in CheckerStates
      /\ NoAttempt \in AttemptRows
      /\ \A s \in Senders : sender[s].number # 0 => sender[s].number \in Attempts
      /\ \A c \in Checkers : checker[c].number # 0 => checker[c].number \in Attempts
  BY RunsAreTyped
<1> USE DEF TypeOK, Providers
<1>1. ASSUME NEW t \in PushTokens, Register(t) PROVE TypeOK'
  BY <1>1 DEF Register
<1>2. CASE Unregister
  BY <1>0, <1>2 DEF Unregister
<1>3. ASSUME NEW s \in Senders, LoadTarget(s) PROVE TypeOK'
  <2>1. [NoSend EXCEPT !.at = "loaded", !.token = registration.token] \in SenderStates
    BY <1>0 DEF SenderStates
  <2> QED BY <1>3, <2>1 DEF LoadTarget
<1>4. ASSUME NEW s \in Senders, Reserve(s) PROVE TypeOK'
  <2>1. NextNumber \in Attempts
    BY <1>4 DEF Reserve, Reservable, MayReserve
  <2>2. [NoAttempt EXCEPT !.state = "sending", !.token = sender[s].token, !.sendLease = "live"]
          \in AttemptRows
    BY <1>0 DEF AttemptRows, SenderStates, AttemptStates, Leases
  <2>3. [sender[s] EXCEPT !.at = "reserved", !.number = NextNumber] \in SenderStates
    BY <1>0, <2>1, SendsAreTyped
  <2> QED BY <1>4, <2>1, <2>2, <2>3 DEF Reserve
<1>5. ASSUME NEW s \in Senders, NEW did \in {"taken", "refused"}, NEW response \in SendResponses,
             Send(s, did, response)
      PROVE  TypeOK'
  <2>1. [sender[s] EXCEPT !.at = "sent", !.response = response] \in SenderStates
    BY <1>0, SendsAreTyped
  <2>2. gone' \in SUBSET PushTokens
    BY <1>5 DEF Send, SenderFits
  <2> QED BY <1>5, <2>1, <2>2 DEF Send
<1>6. ASSUME NEW s \in Senders, RecordSend(s) PROVE TypeOK'
  <2>1. sender[s].number \in Attempts
    BY <1>0, <1>6 DEF RecordSend, SenderFits
  <2>2. SendVerdict(sender[s].number, sender[s].response) \in AttemptStates
    BY <1>0, <1>6, VerdictsAreStates DEF RecordSend, SenderStates
  <2> QED BY <1>0, <1>6, <2>1, <2>2, EndedIsRow DEF RecordSend, Recorded
<1>7. ASSUME NEW s \in Senders, NEW recorded \in BOOLEAN, DoubtTicket(s, recorded) PROVE TypeOK'
  <2>1. sender[s].number \in Attempts
    BY <1>0, <1>7 DEF DoubtTicket, SenderFits
  <2>2. "ticket_recorded" \in AttemptStates /\ "unknown" \in SendResponses
    BY DEF AttemptStates, AwaitingReceipt, SendResponses
  <2>3. [sender[s] EXCEPT !.response = "unknown"] \in SenderStates
    BY <1>0, <2>2, SendsAreTyped
  <2> QED BY <1>0, <1>7, <2>1, <2>2, <2>3, EndedIsRow DEF DoubtTicket, Recorded
<1>8. ASSUME NEW s \in Senders, RecordSendToLostDevice(s) PROVE TypeOK'
  <2>1. sender[s].number \in Attempts /\ "rejected" \in AttemptStates
    BY <1>0, <1>8 DEF RecordSendToLostDevice, SenderFits, AttemptStates, TerminalStates
  <2> QED BY <1>0, <1>8, <2>1, EndedIsRow DEF RecordSendToLostDevice, RejectDevice, Recorded
<1>9. ASSUME NEW s \in Senders, EndSend(s) PROVE TypeOK'
  BY <1>0, <1>9 DEF EndSend
<1>10. ASSUME NEW c \in Checkers, NEW n \in Attempts, ReserveCheck(c, n) PROVE TypeOK'
  <2>1. attempt[n].checks \in 0..MaxChecks /\ attempt[n].checks < MaxChecks
    BY <1>0, <1>10 DEF ReserveCheck, CheckAllowed, AttemptRows
  <2>2. attempt[n].checks + 1 \in 0..MaxChecks
    BY <2>1, DeliveryDomains
  <2>3. [attempt[n] EXCEPT !.state = "receipt_checking", !.checks = attempt[n].checks + 1,
                           !.receiptLease = "live"] \in AttemptRows
    BY <1>0, <2>2 DEF AttemptRows, AttemptStates, AwaitingReceipt, Leases
  <2>4. [NoCheck EXCEPT !.at = "reserved", !.number = n, !.check = attempt[n].checks + 1]
          \in CheckerStates
    BY <1>0, <2>2, AttemptsAreNumbers DEF CheckerStates
  <2> QED BY <1>10, <2>3, <2>4 DEF ReserveCheck
<1>11. ASSUME NEW c \in Checkers, NEW response \in ReceiptResponses, LookUp(c, response)
       PROVE  TypeOK'
  <2>1. checker[c].number \in Attempts
    BY <1>0, <1>11 DEF LookUp, CheckerFits
  <2>2. [checker[c] EXCEPT !.at = "answered", !.response = response] \in CheckerStates
    BY <1>0, ChecksAreTyped
  <2>3. gone' \in SUBSET PushTokens
    BY <1>0, <1>11, <2>1 DEF LookUp, AttemptRows
  <2>4. provider' \in [Attempts -> Providers]
    BY <1>11 DEF LookUp
  <2> QED BY <1>11, <2>2, <2>3, <2>4 DEF LookUp
<1>12. ASSUME NEW c \in Checkers, RecordCheck(c) PROVE TypeOK'
  <2>1. checker[c].number \in Attempts
    BY <1>0, <1>12 DEF RecordCheck, CheckerFits
  <2>2. CheckVerdict(checker[c].number, checker[c].check, checker[c].response) \in AttemptStates
    BY <1>0, <1>12, VerdictsAreStates DEF RecordCheck, CheckerStates
  <2> QED BY <1>0, <1>12, <2>1, <2>2, EndedIsRow DEF RecordCheck, Recorded
<1>13. ASSUME NEW c \in Checkers, RecordCheckOfLostDevice(c) PROVE TypeOK'
  <2>1. checker[c].number \in Attempts /\ "rejected" \in AttemptStates
    BY <1>0, <1>13 DEF RecordCheckOfLostDevice, CheckerFits, AttemptStates, TerminalStates
  <2> QED BY <1>0, <1>13, <2>1, EndedIsRow DEF RecordCheckOfLostDevice, RejectDevice, Recorded
<1>14. ASSUME NEW c \in Checkers, EndCheck(c) PROVE TypeOK'
  BY <1>0, <1>14 DEF EndCheck
<1>15. ASSUME NEW n \in Attempts, SendLeaseRunsOut(n) \/ ReceiptLeaseRunsOut(n) \/ ComesDue(n)
       PROVE  TypeOK'
  <2>1. /\ [attempt[n] EXCEPT !.sendLease = "over"] \in AttemptRows
        /\ [attempt[n] EXCEPT !.receiptLease = "over"] \in AttemptRows
        /\ [attempt[n] EXCEPT !.due = TRUE] \in AttemptRows
    BY <1>0 DEF AttemptRows, Leases
  <2> QED BY <1>15, <2>1 DEF SendLeaseRunsOut, ReceiptLeaseRunsOut, ComesDue
<1>16. CASE UNCHANGED vars
  BY <1>16 DEF vars
<1> QED BY <1>1, <1>2, <1>3, <1>4, <1>5, <1>6, <1>7, <1>8, <1>9, <1>10, <1>11, <1>12, <1>13,
           <1>14, <1>15, <1>16 DEF Next

-----------------------------------------------------------------------------
(* The steps that rewrite one row. *)

\* The row of an attempt that is under way is replaced, by one that says what is so.
Rewrites(n, row) ==
    /\ n \in Attempts
    /\ attempt' = [attempt EXCEPT ![n] = row]
    /\ UNCHANGED <<provider, gone>>
    /\ attempt[n].state \notin TerminalStates \cup {"none"}
    /\ row.state # "none" /\ row.token = attempt[n].token
    /\ attempt[n].state = "retry_scheduled" => row.state = "retry_scheduled"
    /\ row.state = "sending" => attempt[n].state = "sending"
    /\ attempt[n].state = "sending" /\ row.state # "sending" =>
         \E s \in Senders : sender[s].at = "sent" /\ sender[s].number = n
    /\ RowFits(row, provider[n])

\* The senders go on with what they have, end, or doubt a ticket.
SendersGoOn ==
    \A s \in Senders :
        \/ sender'[s] = sender[s]
        \/ sender'[s] = NoSend
        \/ /\ sender[s].at = "sent" /\ sender[s].response = "ticket"
           /\ sender'[s] = [sender[s] EXCEPT !.response = "unknown"]

\* The checkers go on with what they have, end, or begin with attempt n.
CheckersGoOn(n) ==
    \A c \in Checkers :
        \/ checker'[c] = checker[c]
        \/ checker'[c] = NoCheck
        \/ /\ attempt[n].state \in AwaitingReceipt
           /\ checker'[c].at = "reserved" /\ checker'[c].number = n

\* The registration stays, or is switched off for a token that is gone.
RegistrationGoesOn ==
    \/ UNCHANGED registration
    \/ /\ ~ Deleted /\ registration.token \in gone
       /\ registration' = [registration EXCEPT !.status = "disabled"]

LEMMA SenderChoices ==
    ASSUME TypeOK, SendersGoOn, NEW s \in Senders
    PROVE  /\ sender'[s].number \in {sender[s].number, 0}
           /\ sender'[s].at = "reserved" => sender'[s] = sender[s]
           /\ sender'[s].at = "loaded" => sender'[s] = sender[s]
           /\ sender'[s].at = "sent" =>
                /\ sender[s].at = "sent" /\ sender'[s].number = sender[s].number
                /\ \/ sender'[s].response = sender[s].response
                   \/ sender[s].response = "ticket" /\ sender'[s].response = "unknown"
           /\ sender'[s].at # "idle" =>
                /\ sender'[s].token = sender[s].token /\ sender'[s].number = sender[s].number
                /\ sender'[s].at = sender[s].at
           /\ sender'[s].at = "idle" => sender'[s].number = 0 \/ sender'[s] = sender[s]
<1>1. sender[s] \in SenderStates
  BY DEF TypeOK
<1>2. CASE sender'[s] = sender[s]
  BY <1>2
<1>3. CASE sender'[s] = NoSend
  BY <1>3 DEF NoSend
<1>4. CASE /\ sender[s].at = "sent" /\ sender[s].response = "ticket"
           /\ sender'[s] = [sender[s] EXCEPT !.response = "unknown"]
  <2>1. /\ sender'[s].at = "sent" /\ sender'[s].number = sender[s].number
        /\ sender'[s].token = sender[s].token /\ sender'[s].response = "unknown"
    BY <1>1, <1>4 DEF SenderStates
  <2> QED BY <1>4, <2>1
<1> QED BY <1>2, <1>3, <1>4 DEF SendersGoOn

LEMMA RewritingKeeps ==
    ASSUME IInv, TypeOK', NEW n, NEW row, Rewrites(n, row),
           SendersGoOn, CheckersGoOn(n), RegistrationGoesOn
    PROVE  IInv'
<1> USE DEF IInv
<1>0. /\ attempt \in [Attempts -> AttemptRows] /\ registration.status # "absent"
      /\ \A m \in Attempts : attempt'[m] = IF m = n THEN row ELSE attempt[m]
      /\ UNCHANGED <<provider, gone>> /\ n \in Attempts
  BY DEF TypeOK, Rewrites, RegistrationFits, Deleted, NoAttempt
<1>1. /\ registration'.status # "absent" /\ ~ Deleted'
      /\ RegistrationFits' /\ DisabledMeansGone'
  BY <1>0 DEF TypeOK, RegistrationGoesOn, RegistrationFits, DisabledMeansGone, Deleted
<1>2. ASSUME NEW m \in Attempts PROVE AttemptFits(m)'
  <2>1. RowFits(attempt'[m], provider'[m])
    BY <1>0 DEF AttemptFits, Rewrites
  <2>2. ASSUME attempt'[m].state = "none" PROVE Untouched(m)'
    <3>1. m # n /\ Untouched(m) /\ m # 0
      BY <1>0, <2>2, AttemptsAreNumbers DEF AttemptFits, Rewrites, Deleted
    <3>2. \A s \in Senders : sender'[s].number # m
      BY <3>1, SenderChoices DEF Untouched
    <3>3. \A c \in Checkers : checker'[c].number # m
      BY <3>1 DEF Untouched, CheckersGoOn, NoCheck
    <3> QED BY <1>0, <3>1, <3>2, <3>3 DEF Untouched
  <2> QED BY <2>1, <2>2 DEF AttemptFits
<1>3. ASSUME NEW s \in Senders PROVE SenderFits(s)'
  <2>1. SenderFits(s) /\ (sender[s].number # 0 => sender[s].number \in Attempts)
    BY RunsAreTyped
  <2>2. ASSUME sender'[s].number # 0
        PROVE  attempt'[sender'[s].number].token = sender'[s].token
    BY <1>0, <2>1, <2>2, SenderChoices DEF SenderFits, Rewrites, Deleted, NoSend
  <2>3. ASSUME sender'[s].at = "reserved"
        PROVE  /\ provider'[sender'[s].number] = "none"
               /\ attempt'[sender'[s].number].state = "sending"
    <3>1. sender'[s] = sender[s] /\ sender[s].number \in Attempts
      BY <2>1, <2>3, SenderChoices DEF SenderFits
    <3>2. provider[sender[s].number] = "none" /\ attempt[sender[s].number].state = "sending"
      BY <1>0, <2>1, <2>3, <3>1 DEF SenderFits, Deleted
    <3>3. CASE sender[s].number # n
      BY <1>0, <3>1, <3>2, <3>3
    <3>4. CASE sender[s].number = n
      <4>1. ~ \E t \in Senders : sender[t].at = "sent" /\ sender[t].number = n
        BY <2>3, <3>1, <3>4, AttemptsAreNumbers DEF OwnAttempts
      <4> QED BY <1>0, <3>1, <3>2, <3>4, <4>1 DEF Rewrites
    <3> QED BY <3>3, <3>4
  <2>4. ASSUME sender'[s].at = "sent"
        PROVE  /\ attempt'[sender'[s].number].state = "sending" =>
                     <<provider'[sender'[s].number], sender'[s].response>> \in ProviderAnswers
               /\ sender'[s].response = "not_registered" => sender'[s].token \in gone'
    <3>1. /\ sender[s].at = "sent" /\ sender'[s].number = sender[s].number
          /\ sender'[s].token = sender[s].token /\ sender[s].number \in Attempts
          /\ \/ sender'[s].response = sender[s].response
             \/ sender[s].response = "ticket" /\ sender'[s].response = "unknown"
      BY <2>1, <2>4, SenderChoices DEF SenderFits
    <3>2. attempt'[sender[s].number].state = "sending" => attempt[sender[s].number].state = "sending"
      BY <1>0, <3>1 DEF Rewrites
    <3> QED BY <1>0, <2>1, <3>1, <3>2 DEF SenderFits, ProviderAnswers
  <2>5. /\ sender'[s].at \in {"reserved", "sent"} <=> sender'[s].number # 0
        /\ sender'[s].at # "idle" => sender'[s].token \in PushTokens
    BY <2>1, SenderChoices DEF SenderFits
  <2> QED BY <1>1, <2>2, <2>3, <2>4, <2>5 DEF SenderFits
<1>4. ASSUME NEW c \in Checkers PROVE CheckerFits(c)'
  <2>1. CheckerFits(c) /\ (checker[c].number # 0 => checker[c].number \in Attempts)
    BY RunsAreTyped
  <2>2. CASE checker'[c] = checker[c]
    BY <1>0, <1>1, <2>1, <2>2 DEF CheckerFits, Rewrites, Deleted
  <2>3. CASE checker'[c] = NoCheck
    BY <2>3 DEF CheckerFits, NoCheck
  <2>4. CASE /\ attempt[n].state \in AwaitingReceipt
             /\ checker'[c].at = "reserved" /\ checker'[c].number = n
    BY <1>0, <2>4, AttemptsAreNumbers DEF CheckerFits, Rewrites, AwaitingReceipt
  <2> QED BY <2>2, <2>3, <2>4 DEF CheckersGoOn
<1>5. Chained'
  BY <1>0 DEF Chained, Rewrites
<1>6. OwnAttempts'
  BY SenderChoices DEF OwnAttempts
<1>7. OnePushable'
  <2>1. \A m \in Attempts : Pushable(m)' => Pushable(m)
    BY <1>0, SenderChoices DEF Pushable
  <2> QED BY <2>1 DEF OnePushable
<1> QED BY <1>1, <1>2, <1>3, <1>4, <1>5, <1>6, <1>7

\* Nor does it matter what the runs do without writing.
LEMMA UnwrittenKeeps ==
    ASSUME IInv, TypeOK', UNCHANGED <<attempt, provider, gone, registration>>,
           SendersGoOn, \A c \in Checkers : checker'[c] \in {checker[c], NoCheck}
    PROVE  IInv'
<1> USE DEF IInv
<1>1. RegistrationFits' /\ DisabledMeansGone' /\ Chained' /\ (Deleted' <=> Deleted)
  BY DEF RegistrationFits, DisabledMeansGone, Chained, Deleted
<1>2. ASSUME NEW n \in Attempts PROVE AttemptFits(n)'
  BY <1>1, SenderChoices, AttemptsAreNumbers DEF AttemptFits, Untouched, NoCheck
<1>3. ASSUME NEW s \in Senders PROVE SenderFits(s)'
  <2>1. SenderFits(s)
    OBVIOUS
  <2>2. CASE sender'[s].at # "idle"
    BY <1>1, <2>1, <2>2, SenderChoices DEF SenderFits, ProviderAnswers
  <2>3. CASE sender'[s].at = "idle"
    BY <1>1, <2>1, <2>3 DEF SenderFits, SendersGoOn, NoSend, SenderStates, TypeOK
  <2> QED BY <2>2, <2>3
<1>4. ASSUME NEW c \in Checkers PROVE CheckerFits(c)'
  BY <1>1 DEF CheckerFits, NoCheck
<1>5. OwnAttempts'
  BY SenderChoices DEF OwnAttempts
<1>6. OnePushable'
  <2>1. \A m \in Attempts : Pushable(m)' => Pushable(m)
    BY SenderChoices DEF Pushable
  <2> QED BY <2>1 DEF OnePushable
<1> QED BY <1>1, <1>2, <1>3, <1>4, <1>5, <1>6

\* What the runs do to the row of the attempt they hold.
LEMMA SendsRewrite ==
    ASSUME IInv, NEW s \in Senders, TypeOK',
           RecordSend(s) \/ RecordSendToLostDevice(s) \/ \E r \in BOOLEAN : DoubtTicket(s, r)
    PROVE  IInv'
<1> USE DEF IInv
<1> DEFINE n == sender[s].number
<1>0. /\ attempt[n] \in AttemptRows /\ n \in Attempts /\ sender[s].at = "sent"
      /\ RowFits(attempt[n], provider[n]) /\ SenderFits(s) /\ sender[s] \in SenderStates
      /\ sender \in [Senders -> SenderStates] /\ NoSend.at = "idle"
  BY RunsAreTyped DEF RecordSend, RecordSendToLostDevice, DoubtTicket, SenderFits, AttemptFits,
                      TypeOK, NoSend
<1>1. HoldsSend(s) => attempt[n].state = "sending" /\ attempt[n].token \in PushTokens
                      /\ <<provider[n], sender[s].response>> \in ProviderAnswers
                      /\ registration.status # "absent" /\ attempt[n].token = sender[s].token
  BY <1>0 DEF HoldsSend, RowFits, SenderFits, RegistrationFits, Deleted, NoAttempt
<1>2. \A state \in AttemptStates :
         /\ Ended(attempt[n], state).state = state
         /\ Ended(attempt[n], state).token = attempt[n].token
         /\ Ended(attempt[n], state).sendLease = "none"
         /\ Ended(attempt[n], state).receiptLease = "none"
  BY <1>0 DEF Ended, AttemptRows
<1>3. ASSUME NEW state \in AttemptStates, HoldsSend(s), state \notin {"none", "sending"},
             attempt' = [attempt EXCEPT ![n] = Ended(attempt[n], state)],
             UNCHANGED <<provider, gone>>,
             state = "accepted" => provider[n] = "delivered",
             state = "retry_scheduled" => provider[n] \in {"refused", "later"},
             state \in AwaitingReceipt => provider[n] \notin {"none", "refused"}
      PROVE  Rewrites(n, Ended(attempt[n], state))
  BY <1>0, <1>1, <1>2, <1>3 DEF Rewrites, RowFits, TerminalStates
<1>4. CASE RecordSend(s)
  <2> DEFINE state == SendVerdict(n, sender[s].response)
  <2>1. state \in AttemptStates \ {"none", "sending", "accepted"}
        /\ (state = "retry_scheduled" => sender[s].response = "later")
        /\ (state \in AwaitingReceipt => sender[s].response = "ticket")
    BY <1>0, <1>4 DEF RecordSend, SendVerdict, RetryVerdict, SenderStates, SendResponses,
                      AttemptStates, AwaitingReceipt, TerminalStates
  <2>2. HoldsSend(s) /\ attempt' = [attempt EXCEPT ![n] = Ended(attempt[n], state)]
        /\ UNCHANGED <<provider, gone, registration, checker>>
        /\ sender' = [sender EXCEPT ![s] = NoSend]
    BY <1>4 DEF RecordSend, Recorded
  <2>3. /\ state = "retry_scheduled" => provider[n] = "refused"
        /\ state \in AwaitingReceipt => provider[n] = "taken"
    BY <1>1, <2>1, <2>2 DEF ProviderAnswers
  <2> HIDE DEF state
  <2>4. Rewrites(n, Ended(attempt[n], state))
    BY <1>3, <2>1, <2>2, <2>3
  <2>5. SendersGoOn /\ CheckersGoOn(n) /\ RegistrationGoesOn
    BY <1>0, <2>2 DEF SendersGoOn, CheckersGoOn, RegistrationGoesOn
  <2> QED BY <2>4, <2>5, RewritingKeeps
<1>5. CASE RecordSendToLostDevice(s)
  <2>1. /\ HoldsSend(s) /\ attempt' = [attempt EXCEPT ![n] = Ended(attempt[n], "rejected")]
        /\ UNCHANGED <<provider, gone, checker>> /\ sender' = [sender EXCEPT ![s] = NoSend]
        /\ registration' = [registration EXCEPT !.status = "disabled"]
        /\ registration.token = attempt[n].token /\ sender[s].response = "not_registered"
    BY <1>5 DEF RecordSendToLostDevice, RejectDevice, Disables, Recorded
  <2>2. "rejected" \in AttemptStates /\ "rejected" \notin AwaitingReceipt
    BY DEF AttemptStates, TerminalStates, AwaitingReceipt
  <2>3. Rewrites(n, Ended(attempt[n], "rejected"))
    BY <1>3, <2>1, <2>2
  <2>4. registration.token \in gone
    BY <1>0, <1>1, <2>1 DEF SenderFits
  <2>5. SendersGoOn /\ CheckersGoOn(n) /\ RegistrationGoesOn
    BY <1>0, <1>1, <2>1, <2>4 DEF SendersGoOn, CheckersGoOn, RegistrationGoesOn, Deleted
  <2> QED BY <2>3, <2>5, RewritingKeeps
<1>6. ASSUME NEW recorded \in BOOLEAN, DoubtTicket(s, recorded) PROVE IInv'
  <2>1. /\ UNCHANGED <<provider, gone, registration, checker>>
        /\ sender' = [sender EXCEPT ![s].response = "unknown"]
        /\ sender[s].response = "ticket"
    BY <1>6 DEF DoubtTicket, Recorded
  <2>2. SendersGoOn /\ CheckersGoOn(n) /\ RegistrationGoesOn
    BY <1>0, <2>1 DEF SendersGoOn, CheckersGoOn, RegistrationGoesOn
  <2>3. CASE recorded
    <3>1. HoldsSend(s) /\ attempt' = [attempt EXCEPT ![n] = Ended(attempt[n], "ticket_recorded")]
      BY <1>6, <2>3 DEF DoubtTicket, Recorded
    <3>2. "ticket_recorded" \in AttemptStates /\ provider[n] = "taken"
      BY <1>1, <2>1, <3>1 DEF AttemptStates, AwaitingReceipt, ProviderAnswers
    <3>3. Rewrites(n, Ended(attempt[n], "ticket_recorded"))
      BY <1>3, <2>1, <3>1, <3>2
    <3> QED BY <2>2, <3>3, RewritingKeeps
  <2>4. CASE ~ recorded
    <3>1. UNCHANGED attempt
      BY <1>6, <2>4 DEF DoubtTicket, Recorded, TypeOK
    <3> QED BY <2>1, <2>2, <3>1, UnwrittenKeeps
  <2> QED BY <2>3, <2>4
<1> QED BY <1>4, <1>5, <1>6

LEMMA ReserveCheckRewrites ==
    ASSUME IInv, NEW c \in Checkers, NEW n \in Attempts, TypeOK', ReserveCheck(c, n)
    PROVE  IInv'
<1> USE DEF IInv
<1>0. attempt[n] \in AttemptRows /\ RowFits(attempt[n], provider[n])
  BY DEF AttemptFits, TypeOK
<1> DEFINE row == [attempt[n] EXCEPT !.state = "receipt_checking",
                                     !.checks = attempt[n].checks + 1, !.receiptLease = "live"]
<1>1. /\ attempt[n].state \in AwaitingReceipt /\ UNCHANGED <<registration, sender, provider, gone>>
      /\ attempt' = [attempt EXCEPT ![n] = row]
      /\ checker' = [checker EXCEPT ![c] =
            [NoCheck EXCEPT !.at = "reserved", !.number = n, !.check = attempt[n].checks + 1]]
  BY DEF ReserveCheck, CheckAllowed
<1>2. /\ row.state = "receipt_checking" /\ row.token = attempt[n].token
      /\ row.sendLease = attempt[n].sendLease
  BY <1>0 DEF AttemptRows
<1> HIDE DEF row
<1>3. Rewrites(n, row)
  BY <1>0, <1>1, <1>2 DEF Rewrites, RowFits, AwaitingReceipt, TerminalStates
<1>4. CheckersGoOn(n)
  BY <1>1 DEF CheckersGoOn, NoCheck, TypeOK
<1> QED BY <1>1, <1>3, <1>4, RewritingKeeps DEF SendersGoOn, RegistrationGoesOn

LEMMA ChecksRewrite ==
    ASSUME IInv, NEW c \in Checkers, TypeOK', RecordCheck(c) \/ RecordCheckOfLostDevice(c)
    PROVE  IInv'
<1> USE DEF IInv
<1> DEFINE n == checker[c].number
           response == checker[c].response
<1>0. /\ attempt[n] \in AttemptRows /\ n \in Attempts /\ checker[c].at = "answered"
      /\ RowFits(attempt[n], provider[n]) /\ CheckerFits(c) /\ checker[c] \in CheckerStates
      /\ HoldsCheck(c)
  BY RunsAreTyped DEF RecordCheck, RecordCheckOfLostDevice, CheckerFits, AttemptFits, TypeOK
<1>1. /\ attempt[n].state = "receipt_checking" /\ attempt[n].token \in PushTokens
      /\ provider[n] \notin {"none", "refused"} /\ registration.status # "absent"
  BY <1>0 DEF HoldsCheck, RowFits, RegistrationFits, Deleted, NoAttempt, AwaitingReceipt
<1>2. \A state \in AttemptStates :
         /\ Ended(attempt[n], state).state = state
         /\ Ended(attempt[n], state).token = attempt[n].token
         /\ Ended(attempt[n], state).sendLease = "none"
         /\ Ended(attempt[n], state).receiptLease = "none"
  BY <1>0 DEF Ended, AttemptRows
<1>3. ASSUME NEW state \in AttemptStates, state \notin {"none", "sending"},
             attempt' = [attempt EXCEPT ![n] = Ended(attempt[n], state)],
             UNCHANGED <<provider, gone>>,
             state = "accepted" => provider[n] = "delivered",
             state = "retry_scheduled" => provider[n] = "later"
      PROVE  Rewrites(n, Ended(attempt[n], state))
  BY <1>0, <1>1, <1>2, <1>3 DEF Rewrites, RowFits, TerminalStates
<1>4. CheckersGoOn(n)
  BY DEF CheckersGoOn, RecordCheck, RecordCheckOfLostDevice, TypeOK
<1>5. CASE RecordCheck(c)
  <2> DEFINE state == CheckVerdict(n, checker[c].check, response)
  <2>1. state \in AttemptStates \ {"none", "sending"}
        /\ (state = "retry_scheduled" => response = "later")
        /\ (state = "accepted" => response = "delivered")
    BY <1>0, <1>5 DEF RecordCheck, CheckVerdict, RetryVerdict, CheckerStates, ReceiptResponses,
                      AttemptStates, AwaitingReceipt, TerminalStates
  <2>2. attempt' = [attempt EXCEPT ![n] = Ended(attempt[n], state)]
        /\ UNCHANGED <<provider, gone, registration, sender>>
    BY <1>5 DEF RecordCheck, Recorded
  <2>3. /\ state = "retry_scheduled" => provider[n] = "later"
        /\ state = "accepted" => provider[n] = "delivered"
    BY <1>0, <2>1 DEF CheckerFits
  <2> HIDE DEF state
  <2>4. Rewrites(n, Ended(attempt[n], state))
    BY <1>3, <2>1, <2>2, <2>3
  <2> QED BY <1>4, <2>2, <2>4, RewritingKeeps DEF SendersGoOn, RegistrationGoesOn
<1>6. CASE RecordCheckOfLostDevice(c)
  <2>1. /\ attempt' = [attempt EXCEPT ![n] = Ended(attempt[n], "rejected")]
        /\ UNCHANGED <<provider, gone, sender>>
        /\ registration' = [registration EXCEPT !.status = "disabled"]
        /\ registration.token = attempt[n].token /\ response = "not_registered"
    BY <1>6 DEF RecordCheckOfLostDevice, RejectDevice, Disables, Recorded
  <2>2. "rejected" \in AttemptStates
    BY DEF AttemptStates, TerminalStates
  <2>3. Rewrites(n, Ended(attempt[n], "rejected"))
    BY <1>3, <2>1, <2>2
  <2>4. ~ Deleted /\ registration.token \in gone
    BY <1>0, <1>1, <2>1 DEF CheckerFits, Deleted
  <2> QED BY <1>4, <2>1, <2>3, <2>4, RewritingKeeps DEF SendersGoOn, RegistrationGoesOn
<1> QED BY <1>5, <1>6

LEMMA TimeRewrites ==
    ASSUME IInv, NEW n \in Attempts, TypeOK',
           SendLeaseRunsOut(n) \/ ReceiptLeaseRunsOut(n) \/ ComesDue(n)
    PROVE  IInv'
<1> USE DEF IInv
<1>0. attempt[n] \in AttemptRows /\ RowFits(attempt[n], provider[n])
  BY DEF AttemptFits, TypeOK
<1>1. ASSUME NEW row, attempt' = [attempt EXCEPT ![n] = row],
             attempt[n].state \notin TerminalStates \cup {"none"},
             row.state = attempt[n].state, row.token = attempt[n].token,
             row.sendLease # "none" => attempt[n].sendLease # "none",
             row.receiptLease # "none" => attempt[n].receiptLease # "none",
             UNCHANGED <<registration, sender, checker, provider, gone>>
      PROVE  IInv'
  <2>1. Rewrites(n, row)
    BY <1>0, <1>1 DEF Rewrites, RowFits
  <2> QED BY <1>1, <2>1, RewritingKeeps DEF SendersGoOn, CheckersGoOn, RegistrationGoesOn
<1>2. CASE SendLeaseRunsOut(n)
  <2> DEFINE row == [attempt[n] EXCEPT !.sendLease = "over"]
  <2>1. /\ attempt[n].state = "sending" /\ attempt[n].sendLease = "live"
        /\ row.state = attempt[n].state /\ row.token = attempt[n].token
        /\ row.receiptLease = attempt[n].receiptLease
    BY <1>0, <1>2 DEF SendLeaseRunsOut, RowFits, AttemptRows
  <2>2. /\ attempt' = [attempt EXCEPT ![n] = row]
        /\ UNCHANGED <<registration, sender, checker, provider, gone>>
    BY <1>2 DEF SendLeaseRunsOut
  <2> HIDE DEF row
  <2> QED BY <1>1, <2>1, <2>2 DEF TerminalStates
<1>3. CASE ReceiptLeaseRunsOut(n)
  <2> DEFINE row == [attempt[n] EXCEPT !.receiptLease = "over"]
  <2>1. /\ attempt[n].state = "receipt_checking" /\ attempt[n].receiptLease = "live"
        /\ row.state = attempt[n].state /\ row.token = attempt[n].token
        /\ row.sendLease = attempt[n].sendLease
    BY <1>0, <1>3 DEF ReceiptLeaseRunsOut, RowFits, AttemptRows
  <2>2. /\ attempt' = [attempt EXCEPT ![n] = row]
        /\ UNCHANGED <<registration, sender, checker, provider, gone>>
    BY <1>3 DEF ReceiptLeaseRunsOut
  <2> HIDE DEF row
  <2> QED BY <1>1, <2>1, <2>2 DEF TerminalStates
<1>4. CASE ComesDue(n)
  <2> DEFINE row == [attempt[n] EXCEPT !.due = TRUE]
  <2>1. /\ attempt[n].state \notin TerminalStates \cup {"none"}
        /\ row.state = attempt[n].state /\ row.token = attempt[n].token
        /\ row.sendLease = attempt[n].sendLease /\ row.receiptLease = attempt[n].receiptLease
    BY <1>0, <1>4 DEF ComesDue, AttemptRows, TerminalStates
  <2>2. /\ attempt' = [attempt EXCEPT ![n] = row]
        /\ UNCHANGED <<registration, sender, checker, provider, gone>>
    BY <1>4 DEF ComesDue
  <2> HIDE DEF row
  <2> QED BY <1>1, <2>1, <2>2
<1> QED BY <1>2, <1>3, <1>4

-----------------------------------------------------------------------------
(* The steps of the device, and those that begin or end. *)

LEMMA RegisteringKeeps ==
    ASSUME IInv, TypeOK', NEW t \in PushTokens, Register(t)
    PROVE  IInv'
<1> USE DEF IInv
<1>1. /\ UNCHANGED <<attempt, sender, checker, provider, gone>> /\ ~ Deleted /\ ~ Deleted'
      /\ registration'.status = "active" /\ registration'.token = t
  BY DEF Register, Deleted
<1>2. RegistrationFits' /\ DisabledMeansGone' /\ Chained' /\ OwnAttempts'
  BY <1>1 DEF RegistrationFits, DisabledMeansGone, Chained, OwnAttempts
<1>3. \A n \in Attempts : AttemptFits(n)'
  BY <1>1 DEF AttemptFits, Untouched
<1>4. \A s \in Senders : SenderFits(s)'
  BY <1>1 DEF SenderFits, ProviderAnswers
<1>5. \A c \in Checkers : CheckerFits(c)'
  BY <1>1 DEF CheckerFits
<1>6. OnePushable'
  BY <1>1 DEF OnePushable, Pushable
<1> QED BY <1>2, <1>3, <1>4, <1>5, <1>6

LEMMA UnregisteringKeeps ==
    ASSUME IInv, TypeOK', Unregister
    PROVE  IInv'
<1> USE DEF IInv
<1>1. /\ UNCHANGED <<sender, checker, provider, gone>> /\ Deleted'
      /\ \A n \in Attempts : attempt'[n] = NoAttempt
      /\ NoAttempt.state = "none" /\ NoAttempt.sendLease = "none"
      /\ NoAttempt.receiptLease = "none"
  BY DEF Unregister, Deleted, NoAttempt
<1>2. RegistrationFits' /\ DisabledMeansGone' /\ Chained' /\ OwnAttempts'
  BY <1>1 DEF RegistrationFits, DisabledMeansGone, Chained, OwnAttempts, Deleted
<1>3. \A n \in Attempts : AttemptFits(n)'
  BY <1>1 DEF AttemptFits, RowFits, AwaitingReceipt
<1>4. \A s \in Senders : SenderFits(s)'
  BY <1>1, RunsAreTyped DEF SenderFits
<1>5. \A c \in Checkers : CheckerFits(c)'
  BY <1>1 DEF CheckerFits
<1>6. OnePushable'
  BY <1>1 DEF OnePushable, Pushable
<1> QED BY <1>2, <1>3, <1>4, <1>5, <1>6

LEMMA LoadingKeeps ==
    ASSUME IInv, TypeOK', NEW s \in Senders, LoadTarget(s)
    PROVE  IInv'
<1> USE DEF IInv
<1>1. /\ UNCHANGED <<registration, attempt, checker, provider, gone>>
      /\ \A t \in Senders : t # s => sender'[t] = sender[t]
      /\ sender'[s].at = "loaded" /\ sender'[s].number = 0
      /\ sender'[s].token \in PushTokens
  BY DEF LoadTarget, TypeOK, NoSend, RegistrationFits
<1>2. RegistrationFits' /\ DisabledMeansGone' /\ Chained' /\ OwnAttempts'
  BY <1>1 DEF RegistrationFits, DisabledMeansGone, Chained, OwnAttempts, Deleted
<1>3. \A n \in Attempts : AttemptFits(n)'
  BY <1>1, AttemptsAreNumbers DEF AttemptFits, Untouched, Deleted
<1>4. \A t \in Senders : SenderFits(t)'
  <2>1. SenderFits(s)'
    BY <1>1 DEF SenderFits
  <2>2. ASSUME NEW t \in Senders, t # s PROVE SenderFits(t)'
    BY <1>1, <2>2 DEF SenderFits, ProviderAnswers, Deleted
  <2> QED BY <2>1, <2>2
<1>5. \A c \in Checkers : CheckerFits(c)'
  BY <1>1 DEF CheckerFits, Deleted
<1>6. OnePushable'
  BY <1>1 DEF OnePushable, Pushable
<1> QED BY <1>2, <1>3, <1>4, <1>5, <1>6

\* A new attempt is the only one that may be pushed: those before it were refused.
LEMMA ReservingKeeps ==
    ASSUME IInv, TypeOK', NEW s \in Senders, Reserve(s)
    PROVE  IInv'
<1> USE DEF IInv
<1> DEFINE n == NextNumber
           row == [NoAttempt EXCEPT !.state = "sending", !.token = sender[s].token,
                                    !.sendLease = "live"]
<1>1. /\ n \in Attempts /\ n # 0 /\ attempt[n].state = "none"
      /\ \A m \in Attempts : m < n => attempt[m].state = "retry_scheduled"
      /\ \A m \in Attempts : m > n => attempt[m].state = "none"
  BY NextIsFree, AttemptsAreNumbers DEF Reserve, Reservable
<1>2. /\ row.state = "sending" /\ row.token = sender[s].token /\ row.sendLease = "live"
      /\ row.receiptLease = "none"
  BY DEF NoAttempt
<1>3. /\ attempt' = [attempt EXCEPT ![n] = row]
      /\ sender' = [sender EXCEPT ![s].at = "reserved", ![s].number = n]
      /\ sender[s].at = "loaded" /\ registration.status = "active"
      /\ UNCHANGED <<registration, checker, provider, gone>>
  BY DEF Reserve, Reservable, TargetHolds
<1> HIDE DEF n, row
<1>4. /\ attempt \in [Attempts -> AttemptRows] /\ sender[s] \in SenderStates
      /\ \A m \in Attempts : m \in Nat
  BY AttemptsAreNumbers DEF TypeOK
<1>5. /\ \A m \in Attempts : attempt'[m] = IF m = n THEN row ELSE attempt[m]
      /\ \A t \in Senders : t # s => sender'[t] = sender[t]
      /\ sender'[s].at = "reserved" /\ sender'[s].number = n
      /\ sender'[s].token = sender[s].token /\ sender[s].token \in PushTokens
      /\ ~ Deleted /\ ~ Deleted' /\ Untouched(n) /\ sender[s].number = 0
  <2>1. sender' = [sender EXCEPT ![s] = [sender[s] EXCEPT !.at = "reserved", !.number = n]]
    BY <1>3
  <2>2. sender'[s] = [sender[s] EXCEPT !.at = "reserved", !.number = n]
        /\ \A t \in Senders : t # s => sender'[t] = sender[t]
    BY <2>1 DEF TypeOK
  <2>3. ~ Deleted /\ Untouched(n)
    BY <1>1, <1>3 DEF Deleted, AttemptFits
  <2>4. /\ sender'[s].at = "reserved" /\ sender'[s].number = n
        /\ sender'[s].token = sender[s].token
    BY <1>4, <2>2 DEF SenderStates
  <2>5. sender[s].number = 0 /\ sender[s].token \in PushTokens
    BY <1>3 DEF SenderFits
  <2>6. \A m \in Attempts : attempt'[m] = IF m = n THEN row ELSE attempt[m]
    BY <1>3, <1>4
  <2>7. ~ Deleted'
    BY <1>3, <2>3 DEF Deleted
  <2> QED BY <2>2, <2>3, <2>4, <2>5, <2>6, <2>7
<1>6. RegistrationFits' /\ DisabledMeansGone'
  BY <1>3, <1>5 DEF RegistrationFits, DisabledMeansGone
<1>7. OwnAttempts'
  BY <1>5 DEF OwnAttempts, Untouched
<1>8. ASSUME NEW m \in Attempts PROVE AttemptFits(m)'
  <2>1. CASE m = n
    BY <1>2, <1>3, <1>5, <2>1 DEF AttemptFits, RowFits, AwaitingReceipt
  <2>2. CASE m # n
    <3>1. attempt'[m] = attempt[m] /\ UNCHANGED <<provider, checker>>
      BY <1>3, <1>5, <2>2
    <3>2. Untouched(m) => Untouched(m)'
      BY <1>5, <2>2, <3>1 DEF Untouched
    <3> QED BY <1>5, <3>1, <3>2 DEF AttemptFits
  <2> QED BY <2>1, <2>2
<1>9. ASSUME NEW t \in Senders PROVE SenderFits(t)'
  <2>1. CASE t = s
    BY <1>1, <1>2, <1>3, <1>5, <2>1 DEF SenderFits, Untouched
  <2>2. CASE t # s
    <3>1. SenderFits(t) /\ sender[t].number # n
          /\ (sender[t].number # 0 => sender[t].number \in Attempts)
      BY <1>5, RunsAreTyped DEF Untouched
    <3> DEFINE k == sender[t].number
    <3>2. sender'[t] = sender[t] /\ UNCHANGED <<provider, gone>>
      BY <1>3, <1>5, <2>2
    <3>3. CASE k = 0
      <4>1. sender[t].at \notin {"reserved", "sent"}
        BY <3>1, <3>3 DEF SenderFits
      <4> QED BY <3>1, <3>2, <3>3, <4>1 DEF SenderFits
    <3>4. CASE k # 0
      <4>1. attempt'[k] = attempt[k]
        BY <1>5, <3>1, <3>4
      <4> QED BY <1>5, <3>1, <3>2, <4>1 DEF SenderFits, ProviderAnswers
    <3> QED BY <3>3, <3>4
  <2> QED BY <2>1, <2>2
<1>10. ASSUME NEW c \in Checkers PROVE CheckerFits(c)'
  <2>1. CheckerFits(c) /\ checker[c].number # n
        /\ (checker[c].number # 0 => checker[c].number \in Attempts)
    BY <1>5, RunsAreTyped DEF Untouched
  <2> QED BY <1>3, <1>5, <2>1 DEF CheckerFits
<1>11. Chained'
  <2> SUFFICES ASSUME NEW l \in Attempts, NEW m \in Attempts, l < m, attempt'[m].state # "none"
               PROVE  attempt'[l].state = "retry_scheduled"
    BY DEF Chained
  <2>1. CASE m = n
    BY <1>1, <1>4, <1>5, <2>1
  <2>2. CASE m # n
    <3>1. m < n
      BY <1>1, <1>4, <1>5, <2>2
    <3> QED BY <1>1, <1>4, <1>5, <3>1
  <2> QED BY <2>1, <2>2
<1>12. OnePushable'
  <2>1. ASSUME NEW m \in Attempts, m # n PROVE ~ Pushable(m)'
    <3>1. ~ Pushable(m)
      <4>1. CASE m < n
        <5>1. attempt[m].state = "retry_scheduled" /\ RowFits(attempt[m], provider[m])
          BY <1>1, <4>1 DEF AttemptFits
        <5>2. provider[m] \in {"refused", "later"}
          BY <5>1 DEF RowFits
        <5> QED BY <5>2 DEF Pushable, SenderFits
      <4>2. CASE m > n
        BY <1>1, <1>5, <4>2 DEF Pushable, AttemptFits, Untouched
      <4> QED BY <1>1, <1>4, <2>1, <4>1, <4>2
    <3> QED BY <1>3, <1>5, <2>1, <3>1 DEF Pushable
  <2> QED BY <2>1 DEF OnePushable
<1> QED BY <1>6, <1>7, <1>8, <1>9, <1>10, <1>11, <1>12

-----------------------------------------------------------------------------
(* The steps of the provider. *)

\* Only the run that reserved an attempt gives it to the provider, and only once.
LEMMA SendingKeeps ==
    ASSUME IInv, TypeOK', NEW s \in Senders, NEW did \in {"taken", "refused"},
           NEW response \in SendResponses, Send(s, did, response)
    PROVE  IInv'
<1> USE DEF IInv
<1> DEFINE n == sender[s].number
<1>1. /\ n \in Attempts /\ n # 0 /\ provider[n] = "none" /\ sender[s] \in SenderStates
      /\ sender[s].at = "reserved" /\ SenderFits(s) /\ (Deleted \/ attempt[n].state = "sending")
      /\ <<did, response>> \in ProviderAnswers
      /\ UNCHANGED <<registration, attempt, checker>> /\ (Deleted' <=> Deleted)
  BY RunsAreTyped DEF Send, SenderFits, Deleted
<1>2. /\ \A m \in Attempts : provider'[m] = IF m = n THEN did ELSE provider[m]
      /\ gone \subseteq gone' /\ (response = "not_registered" => sender[s].token \in gone')
  BY <1>1 DEF Send, TypeOK
<1>3. /\ \A t \in Senders : t # s => sender'[t] = sender[t] /\ sender[t].number # n
      /\ sender'[s].at = "sent" /\ sender'[s].number = n
      /\ sender'[s].token = sender[s].token /\ sender'[s].response = response
  <2>1. sender' = [sender EXCEPT ![s] = [sender[s] EXCEPT !.at = "sent", !.response = response]]
    BY DEF Send
  <2>2. sender'[s] = [sender[s] EXCEPT !.at = "sent", !.response = response]
        /\ \A t \in Senders : t # s => sender'[t] = sender[t]
    BY <2>1 DEF TypeOK
  <2>3. \A t \in Senders : t # s => sender[t].number # n
    BY <1>1 DEF OwnAttempts
  <2>4. /\ sender'[s].at = "sent" /\ sender'[s].number = n
        /\ sender'[s].token = sender[s].token /\ sender'[s].response = response
    BY <1>1, <2>2 DEF SenderStates
  <2> QED BY <2>2, <2>3, <2>4
<1> HIDE DEF n
<1>4. RegistrationFits' /\ DisabledMeansGone' /\ Chained'
  BY <1>1, <1>2 DEF RegistrationFits, DisabledMeansGone, Chained
<1>5. OwnAttempts'
  BY <1>3 DEF OwnAttempts
<1>6. ASSUME NEW m \in Attempts PROVE AttemptFits(m)'
  <2>1. CASE m = n
    <3>1. RowFits(attempt[n], provider[n]) /\ attempt[n].state \in {"none", "sending"}
          /\ (attempt[n].state = "none" => Deleted)
      BY <1>1 DEF AttemptFits, RegistrationFits, NoAttempt
    <3>2. RowFits(attempt[n], did)
      BY <3>1 DEF RowFits, AwaitingReceipt
    <3> QED BY <1>1, <1>2, <2>1, <3>1, <3>2 DEF AttemptFits
  <2>2. CASE m # n
    <3>1. attempt'[m] = attempt[m] /\ provider'[m] = provider[m] /\ UNCHANGED checker
      BY <1>1, <1>2, <2>2
    <3>2. Untouched(m) => Untouched(m)'
      BY <1>3, <2>2, <3>1 DEF Untouched
    <3> QED BY <1>1, <3>1, <3>2 DEF AttemptFits
  <2> QED BY <2>1, <2>2
<1>7. ASSUME NEW t \in Senders PROVE SenderFits(t)'
  <2>1. CASE t = s
    <3>1. sender[s].token \in PushTokens /\ (~ Deleted => attempt[n].token = sender[s].token)
      BY <1>1 DEF SenderFits, n
    <3>2. <<provider'[n], sender'[s].response>> \in ProviderAnswers
      BY <1>1, <1>2, <1>3
    <3> QED BY <1>1, <1>2, <1>3, <2>1, <3>1, <3>2 DEF SenderFits
  <2>2. CASE t # s
    <3> DEFINE k == sender[t].number
    <3>1. SenderFits(t) /\ k # n /\ sender'[t] = sender[t] /\ (k # 0 => k \in Attempts)
      BY <1>3, <2>2, RunsAreTyped
    <3>2. CASE k = 0
      <4>1. sender[t].at \notin {"reserved", "sent"}
        BY <3>1, <3>2 DEF SenderFits
      <4> QED BY <3>1, <3>2, <4>1 DEF SenderFits
    <3>3. CASE k # 0
      <4>1. attempt'[k] = attempt[k] /\ provider'[k] = provider[k]
        BY <1>1, <1>2, <3>1, <3>3
      <4> QED BY <1>1, <1>2, <3>1, <4>1 DEF SenderFits, ProviderAnswers
    <3> QED BY <3>2, <3>3
  <2> QED BY <2>1, <2>2
<1>8. ASSUME NEW c \in Checkers PROVE CheckerFits(c)'
  <2> DEFINE k == checker[c].number
  <2>1. CheckerFits(c) /\ UNCHANGED <<checker, attempt>> /\ gone \subseteq gone'
        /\ (Deleted' <=> Deleted) /\ (k # 0 => k \in Attempts)
    BY <1>1, <1>2, RunsAreTyped
  <2>2. ASSUME checker[c].at = "answered",
               checker[c].response \in {"delivered", "later", "rejected", "not_registered"}
        PROVE  provider'[k] = checker[c].response
    <3>1. k \in Attempts /\ provider[k] = checker[c].response /\ provider[k] # "none"
      BY <2>1, <2>2 DEF CheckerFits
    <3> QED BY <1>1, <1>2, <3>1
  <2> QED BY <2>1, <2>2 DEF CheckerFits
<1>9. OnePushable'
  <2>1. \A m \in Attempts : Pushable(m)' => Pushable(m)
    BY <1>1, <1>2, <1>3 DEF Pushable, n
  <2> QED BY <2>1 DEF OnePushable
<1> QED BY <1>4, <1>5, <1>6, <1>7, <1>8, <1>9

\* A receipt tells of what the provider took, once and for all.
LEMMA LookingUpKeeps ==
    ASSUME IInv, TypeOK', NEW c \in Checkers, NEW response \in ReceiptResponses,
           LookUp(c, response)
    PROVE  IInv'
<1> USE DEF IInv
<1> DEFINE n == checker[c].number
<1>1. /\ n \in Attempts /\ n # 0 /\ checker[c] \in CheckerStates
      /\ checker[c].at = "reserved" /\ CheckerFits(c)
      /\ Deleted \/ attempt[n].state \notin {"none", "sending"}
      /\ UNCHANGED <<registration, attempt, sender>> /\ (Deleted' <=> Deleted)
  BY RunsAreTyped DEF LookUp, CheckerFits, Deleted
<1>2. /\ gone \subseteq gone'
      /\ response = "not_registered" /\ ~ Deleted => attempt[n].token \in gone'
  <2>1. ~ Deleted => attempt[n].token \in PushTokens
    BY <1>1 DEF AttemptFits, RowFits
  <2> QED BY <2>1, DeliveryDomains DEF LookUp
<1>3. /\ \A m \in Attempts : m # n => provider'[m] = provider[m]
      /\ \/ response \in {"unavailable", "closed"} /\ provider'[n] = provider[n]
         \/ /\ response \in {"delivered", "later", "rejected", "not_registered"}
            /\ provider[n] \in {"taken", response} /\ provider'[n] = response
  BY <1>1 DEF LookUp, TypeOK
<1>4. /\ \A d \in Checkers : d # c => checker'[d] = checker[d]
      /\ checker'[c].at = "answered" /\ checker'[c].number = n
      /\ checker'[c].response = response
  <2>1. checker' = [checker EXCEPT ![c] = [checker[c] EXCEPT !.at = "answered",
                                                             !.response = response]]
    BY DEF LookUp
  <2>2. checker'[c] = [checker[c] EXCEPT !.at = "answered", !.response = response]
        /\ \A d \in Checkers : d # c => checker'[d] = checker[d]
    BY <2>1 DEF TypeOK
  <2> QED BY <1>1, <2>2 DEF CheckerStates
<1> HIDE DEF n
<1>5. RegistrationFits' /\ DisabledMeansGone' /\ Chained' /\ OwnAttempts'
  BY <1>1, <1>2 DEF RegistrationFits, DisabledMeansGone, Chained, OwnAttempts
<1>6. ASSUME NEW m \in Attempts PROVE AttemptFits(m)'
  <2>1. RowFits(attempt[m], provider[m]) /\ UNCHANGED <<attempt, sender>>
        /\ (~ Deleted /\ attempt[m].state = "none" => Untouched(m))
    BY <1>1 DEF AttemptFits
  <2>2. CASE m = n
    <3>1. RowFits(attempt[n], provider'[n])
      BY <1>3, <2>1, <2>2 DEF RowFits
    <3> QED BY <1>1, <2>1, <2>2, <3>1 DEF AttemptFits
  <2>3. CASE m # n
    <3>1. provider'[m] = provider[m]
      BY <1>3, <2>3
    <3>2. Untouched(m) => Untouched(m)'
      BY <1>4, <2>1, <2>3, <3>1 DEF Untouched
    <3> QED BY <1>1, <2>1, <3>1, <3>2 DEF AttemptFits
  <2> QED BY <2>2, <2>3
<1>7. ASSUME NEW t \in Senders PROVE SenderFits(t)'
  <2> DEFINE k == sender[t].number
  <2>1. SenderFits(t) /\ UNCHANGED <<attempt, sender, registration>> /\ gone \subseteq gone'
        /\ (Deleted' <=> Deleted) /\ (k # 0 => k \in Attempts)
    BY <1>1, <1>2, RunsAreTyped
  <2>2. CASE k = n
    <3>1. CASE sender[t].at = "reserved"
      <4>1. provider[n] = "none" /\ k # 0
        BY <2>1, <2>2, <3>1 DEF SenderFits
      <4>2. provider'[n] = "none"
        BY <1>3, <4>1
      <4> QED BY <2>1, <2>2, <3>1, <4>1, <4>2 DEF SenderFits
    <3>2. CASE sender[t].at # "reserved"
      <4>1. attempt[n].state # "sending"
        BY <1>1 DEF RegistrationFits, NoAttempt
      <4> QED BY <2>1, <2>2, <3>2, <4>1 DEF SenderFits
    <3> QED BY <3>1, <3>2
  <2>3. CASE k # n
    <3>1. k # 0 => provider'[k] = provider[k]
      BY <1>3, <2>1, <2>3
    <3>2. sender[t].at \in {"reserved", "sent"} => k # 0
      BY <2>1 DEF SenderFits
    <3> QED BY <2>1, <3>1, <3>2 DEF SenderFits, ProviderAnswers
  <2> QED BY <2>2, <2>3
<1>8. ASSUME NEW d \in Checkers PROVE CheckerFits(d)'
  <2> DEFINE k == checker[d].number
  <2>1. CheckerFits(d) /\ UNCHANGED attempt /\ gone \subseteq gone'
        /\ (Deleted' <=> Deleted) /\ (k # 0 => k \in Attempts)
    BY <1>1, <1>2, RunsAreTyped
  <2>2. CASE d = c
    BY <1>1, <1>2, <1>3, <1>4, <2>1, <2>2 DEF CheckerFits
  <2>3. CASE d # c
    <3>1. checker'[d] = checker[d]
      BY <1>4, <2>3
    <3>2. ASSUME checker[d].at = "answered",
                 checker[d].response \in {"delivered", "later", "rejected", "not_registered"}
          PROVE  provider'[k] = checker[d].response
      <4>1. k \in Attempts /\ provider[k] = checker[d].response
        BY <2>1, <3>2 DEF CheckerFits
      <4> QED BY <1>3, <3>2, <4>1
    <3> QED BY <2>1, <3>1, <3>2 DEF CheckerFits
  <2> QED BY <2>2, <2>3
<1>9. OnePushable'
  <2>1. \A m \in Attempts : Pushable(m)' => Pushable(m)
    BY <1>1, <1>3 DEF Pushable
  <2> QED BY <2>1 DEF OnePushable
<1> QED BY <1>5, <1>6, <1>7, <1>8, <1>9

-----------------------------------------------------------------------------
(* The invariant holds, and what it says. *)

LEMMA InitEstablishes ==
    ASSUME Init
    PROVE  IInv
<1>1. TypeOK
  BY RunsAreTyped, DeliveryDomains DEF Init, TypeOK, NoSend, SenderStates, NoCheck, CheckerStates,
     SendResponses, ReceiptResponses, NoAttempt, AttemptRows, AttemptStates, Leases
<1>2. RegistrationFits /\ DisabledMeansGone
  BY DEF Init, RegistrationFits, DisabledMeansGone, Deleted
<1>3. /\ \A n \in Attempts : attempt[n] = NoAttempt /\ provider[n] = "none" /\ n # 0
      /\ \A s \in Senders : sender[s].at = "idle" /\ sender[s].number = 0
      /\ \A c \in Checkers : checker[c].at = "idle" /\ checker[c].number = 0
  BY AttemptsAreNumbers DEF Init, NoSend, NoCheck
<1>4. \A n \in Attempts : AttemptFits(n)
  BY <1>3 DEF AttemptFits, RowFits, Untouched, NoAttempt, AwaitingReceipt
<1>5. (\A s \in Senders : SenderFits(s)) /\ (\A c \in Checkers : CheckerFits(c))
  BY <1>3 DEF SenderFits, CheckerFits
<1>6. Chained /\ OwnAttempts /\ OnePushable
  BY <1>3 DEF Chained, OwnAttempts, OnePushable, Pushable, NoAttempt
<1> QED BY <1>1, <1>2, <1>4, <1>5, <1>6 DEF IInv

LEMMA StepKeeps ==
    ASSUME IInv, [Next]_vars
    PROVE  IInv'
<1>0. TypeOK'
  BY PushTypeStep DEF IInv
<1>1. CASE \E t \in PushTokens : Register(t)
  BY <1>0, <1>1, RegisteringKeeps
<1>2. CASE Unregister
  BY <1>0, <1>2, UnregisteringKeeps
<1>3. CASE \E s \in Senders : LoadTarget(s)
  BY <1>0, <1>3, LoadingKeeps
<1>4. CASE \E s \in Senders : Reserve(s)
  BY <1>0, <1>4, ReservingKeeps
<1>5. CASE \E s \in Senders, did \in {"taken", "refused"}, response \in SendResponses :
              Send(s, did, response)
  BY <1>0, <1>5, SendingKeeps
<1>6. CASE \E s \in Senders : RecordSend(s) \/ RecordSendToLostDevice(s)
                               \/ \E r \in BOOLEAN : DoubtTicket(s, r)
  BY <1>0, <1>6, SendsRewrite
<1>7. CASE \E s \in Senders : EndSend(s)
  <2>1. SendersGoOn /\ UNCHANGED <<registration, attempt, checker, provider, gone>>
    BY <1>7 DEF EndSend, SendersGoOn, IInv, TypeOK
  <2> QED BY <1>0, <2>1, UnwrittenKeeps
<1>8. CASE \E c \in Checkers, n \in Attempts : ReserveCheck(c, n)
  BY <1>0, <1>8, ReserveCheckRewrites
<1>9. CASE \E c \in Checkers, response \in ReceiptResponses : LookUp(c, response)
  BY <1>0, <1>9, LookingUpKeeps
<1>10. CASE \E c \in Checkers : RecordCheck(c) \/ RecordCheckOfLostDevice(c)
  BY <1>0, <1>10, ChecksRewrite
<1>11. CASE \E c \in Checkers : EndCheck(c)
  <2>1. /\ \A c \in Checkers : checker'[c] \in {checker[c], NoCheck}
        /\ UNCHANGED <<registration, attempt, sender, provider, gone>>
    BY <1>11 DEF EndCheck, IInv, TypeOK
  <2>2. SendersGoOn
    BY <2>1 DEF SendersGoOn
  <2> QED BY <1>0, <2>1, <2>2, UnwrittenKeeps
<1>12. CASE \E n \in Attempts : SendLeaseRunsOut(n) \/ ReceiptLeaseRunsOut(n) \/ ComesDue(n)
  BY <1>0, <1>12, TimeRewrites
<1>13. CASE UNCHANGED vars
  <2>1. SendersGoOn /\ \A c \in Checkers : checker'[c] \in {checker[c], NoCheck}
    BY <1>13 DEF vars, SendersGoOn
  <2> QED BY <1>0, <1>13, <2>1, UnwrittenKeeps DEF vars
<1>14. \/ (\E s \in Senders : RecordSend(s)) \/ (\E s \in Senders : RecordSendToLostDevice(s))
       \/ (\E s \in Senders, r \in BOOLEAN : DoubtTicket(s, r))
       => \E s \in Senders : RecordSend(s) \/ RecordSendToLostDevice(s)
                              \/ \E r \in BOOLEAN : DoubtTicket(s, r)
  OBVIOUS
<1> QED BY <1>1, <1>2, <1>3, <1>4, <1>5, <1>6, <1>7, <1>8, <1>9, <1>10, <1>11, <1>12, <1>13,
           <1>14 DEF Next

\* The inductive invariant holds in every reachable state.
THEOREM DeliveryInvariant == Spec => []IInv
<1>1. Init => IInv
  BY InitEstablishes
<1>2. IInv /\ [Next]_vars => IInv'
  BY StepKeeps
<1> QED BY <1>1, <1>2, PTL DEF Spec

\* Rows, runs, the registration and the provider are of their types.
THEOREM PushTyped == Spec => []TypeOK
<1>1. IInv => TypeOK
  BY DEF IInv
<1> QED BY <1>1, DeliveryInvariant, PTL

\* The device gets the reminder at most once, whatever number of runs deliver it: the
\* code reserves one attempt at a time, gives it to the provider from the run that
\* reserved it, and follows only an attempt that the provider refused.
THEOREM OnePushAtMost == Spec => []AtMostOnePush
<1>1. ASSUME IInv PROVE AtMostOnePush
  <2> DEFINE Pushed == { n \in Attempts : provider[n] \in {"taken", "delivered"} }
  <2>1. \A m, n \in Pushed : m = n
    BY <1>1 DEF IInv, OnePushable, Pushable
  <2>2. CASE Pushed = {}
    <3>1. Cardinality(Pushed) = 0
      BY <2>2, FS_EmptySet
    <3> QED BY <3>1 DEF AtMostOnePush
  <2>3. CASE Pushed # {}
    <3>1. PICK n \in Pushed : Pushed = {n}
      BY <2>1, <2>3
    <3>2. Cardinality(Pushed) = 1
      BY <3>1, FS_Singleton
    <3> QED BY <3>2 DEF AtMostOnePush
  <2> QED BY <2>2, <2>3
<1> QED BY <1>1, DeliveryInvariant, PTL

\* A device is switched off only for a token that the provider reported as gone: the
\* update of markDeviceNotRegistered looks for the token the attempt was sent to.
THEOREM OnlyGoneDevicesAreDisabled == Spec => []DisabledMeansGone
<1>1. IInv => DisabledMeansGone
  BY DEF IInv
<1> QED BY <1>1, DeliveryInvariant, PTL

\* What the ledger says of a push is what the provider did with it, however late the
\* answer was, and whoever held the lease meanwhile.
THEOREM LedgerTellsTheTruth == Spec => []VerdictsAreTrue
<1>1. IInv => VerdictsAreTrue
  BY DEF IInv, AttemptFits, RowFits, VerdictsAreTrue
<1> QED BY <1>1, DeliveryInvariant, PTL

\* A verdict is never changed: no row that has one carries a lease, and a lease is what
\* mobile_push_delivery_transition asks for.
THEOREM VerdictsStay == Spec => VerdictsAreFinal
<1> DEFINE Stays == \A n \in Attempts : attempt[n].state \in TerminalStates =>
                        attempt'[n].state \in {attempt[n].state, "none"}
<1>1. ASSUME IInv, [Next]_vars PROVE [Stays]_vars
  <2> SUFFICES ASSUME Next PROVE Stays
    BY <1>1
  <2> USE DEF IInv
  <2>1. /\ \A n \in Attempts : attempt[n].state \in TerminalStates =>
             /\ attempt[n].sendLease # "live" /\ attempt[n].receiptLease # "live"
             /\ attempt[n].state \notin AwaitingReceipt \cup {"none", "retry_scheduled"}
        /\ attempt \in [Attempts -> AttemptRows] /\ NoAttempt.state = "none"
        /\ \A s \in Senders : sender[s].number # 0 => sender[s].number \in Attempts
        /\ \A c \in Checkers : checker[c].number # 0 => checker[c].number \in Attempts
    BY <1>1, RunsAreTyped DEF AttemptFits, RowFits, TerminalStates, AwaitingReceipt, TypeOK, NoAttempt
  <2>2. CASE UNCHANGED attempt
    BY <2>2
  <2>3. CASE Unregister
    BY <2>1, <2>3 DEF Unregister
  <2>4. ASSUME NEW n \in Attempts, NEW row, attempt' = [attempt EXCEPT ![n] = row],
               attempt[n].state \notin TerminalStates
        PROVE  Stays
    BY <2>1, <2>4
  <2>5. ASSUME NEW s \in Senders, Reserve(s) PROVE Stays
    <3>1. NextNumber \in Attempts /\ attempt[NextNumber].state = "none"
      BY <1>1, <2>5, NextIsFree DEF Reserve, Reservable
    <3>2. "none" \notin TerminalStates
      BY DEF TerminalStates
    <3> QED BY <2>4, <2>5, <3>1, <3>2 DEF Reserve
  <2>6. ASSUME NEW s \in Senders,
               RecordSend(s) \/ RecordSendToLostDevice(s) \/ DoubtTicket(s, TRUE)
        PROVE  Stays
    <3>1. sender[s].number \in Attempts /\ HoldsSend(s)
      BY <1>1, <2>1, <2>6 DEF RecordSend, RecordSendToLostDevice, DoubtTicket, SenderFits
    <3>2. attempt[sender[s].number].state \notin TerminalStates
      BY <2>1, <3>1 DEF HoldsSend
    <3> QED BY <2>4, <2>6, <3>1, <3>2 DEF RecordSend, RecordSendToLostDevice, DoubtTicket,
                                          RejectDevice, Recorded
  <2>7. ASSUME NEW s \in Senders, DoubtTicket(s, FALSE) PROVE UNCHANGED attempt
    BY <2>1, <2>7 DEF DoubtTicket, Recorded
  <2>8. ASSUME NEW c \in Checkers, RecordCheck(c) \/ RecordCheckOfLostDevice(c) PROVE Stays
    <3>1. checker[c].number \in Attempts /\ HoldsCheck(c)
      BY <1>1, <2>1, <2>8 DEF RecordCheck, RecordCheckOfLostDevice, CheckerFits
    <3>2. attempt[checker[c].number].state \notin TerminalStates
      BY <2>1, <3>1 DEF HoldsCheck
    <3> QED BY <2>4, <2>8, <3>1, <3>2 DEF RecordCheck, RecordCheckOfLostDevice, RejectDevice,
                                          Recorded
  <2>9. ASSUME NEW c \in Checkers, NEW n \in Attempts, ReserveCheck(c, n) PROVE Stays
    <3>1. attempt[n].state \notin TerminalStates
      BY <2>1, <2>9 DEF ReserveCheck, CheckAllowed
    <3> QED BY <2>4, <2>9, <3>1 DEF ReserveCheck
  <2>10. ASSUME NEW n \in Attempts, SendLeaseRunsOut(n) \/ ReceiptLeaseRunsOut(n) \/ ComesDue(n)
         PROVE  Stays
    <3>1. attempt[n].state \notin TerminalStates
      BY <2>1, <2>10 DEF SendLeaseRunsOut, ReceiptLeaseRunsOut, ComesDue, TerminalStates
    <3> QED BY <2>4, <2>10, <3>1 DEF SendLeaseRunsOut, ReceiptLeaseRunsOut, ComesDue
  <2>11. CASE \/ \E t \in PushTokens : Register(t)
              \/ \E s \in Senders : LoadTarget(s) \/ EndSend(s)
              \/ \E c \in Checkers : EndCheck(c)
    BY <2>2, <2>11 DEF Register, LoadTarget, EndSend, EndCheck
  <2>12. CASE \/ \E s \in Senders, did \in {"taken", "refused"}, response \in SendResponses :
                    Send(s, did, response)
              \/ \E c \in Checkers, response \in ReceiptResponses : LookUp(c, response)
    BY <2>2, <2>12 DEF Send, LookUp
  <2>13. CASE \E s \in Senders : \/ RecordSend(s) \/ RecordSendToLostDevice(s)
                                 \/ \E recorded \in BOOLEAN : DoubtTicket(s, recorded)
    BY <2>2, <2>6, <2>7, <2>13
  <2> HIDE DEF Stays
  <2> QED BY <2>3, <2>5, <2>8, <2>9, <2>10, <2>11, <2>12, <2>13 DEF Next
<1>2. VerdictsAreFinal <=> [][Stays]_vars
  BY PTL DEF VerdictsAreFinal
<1> QED BY <1>1, <1>2, DeliveryInvariant, PTL DEF Spec
=============================================================================
