------------------------- MODULE MobilePushDelivery -------------------------
(***************************************************************************)
(* The delivery of one follow-up reminder to one registered device: the    *)
(* service of mobilePushDelivery.mjs, any number of runs of it at once,    *)
(* over the ledger of mobile_push_delivery_ledger.sql, the provider, and   *)
(* the registration, whose token the device may replace at any time.       *)
(* An RPC is one action; a run of the service takes a step per call and    *)
(* may die between any two.  Leases run out and times come some day.       *)
(***************************************************************************)
EXTENDS Naturals, FiniteSets

CONSTANTS
    Senders, Checkers,  \* runs of deliver and of checkReceipt
    PushTokens,         \* Expo tokens of the device, by their fingerprints
    MaxAttempts,        \* 3 in the code
    MaxChecks,          \* 4 in the code
    KeyPrefix,          \* what the service puts before the digest in its key: "mpd1_",
                        \* with which the ledger reserves nothing yet
    NoPushToken

ASSUME DeliveryDomains ==
    /\ MaxAttempts \in Nat \ {0} /\ MaxChecks \in Nat \ {0}
    /\ NoPushToken \notin PushTokens

VARIABLES
    registration,  \* the device's row of mobile_push_registrations
    attempt,       \* mobile_push_delivery_attempts of the reminder, by number
    sender,        \* where each run of deliver is
    checker,       \* where each run of checkReceipt is
    provider,      \* what the provider did with each attempt
    gone           \* tokens the provider reported as not registered

vars == <<registration, attempt, sender, checker, provider, gone>>

Attempts == 1..MaxAttempts

TerminalStates   == {"accepted", "rejected", "indeterminate"}
AwaitingReceipt  == {"ticket_recorded", "receipt_pending", "receipt_checking"}
AttemptStates    == {"none", "sending", "retry_scheduled"} \cup AwaitingReceipt \cup TerminalStates
Leases           == {"none", "live", "over"}
SendResponses    == {"ticket", "unknown", "later", "rejected", "not_registered"}
ReceiptResponses == {"delivered", "later", "rejected", "not_registered",
                     "unavailable", "closed"}

\* The lease token of a check is told by the check's number: no two share one.
AttemptRows == [state: AttemptStates, token: PushTokens \cup {NoPushToken},
                sendLease: Leases, receiptLease: Leases, checks: 0..MaxChecks,
                due: BOOLEAN]

NoAttempt == [state |-> "none", token |-> NoPushToken, sendLease |-> "none",
              receiptLease |-> "none", checks |-> 0, due |-> FALSE]

SenderStates == [at: {"idle", "loaded", "reserved", "sent"},
                 number: 0..MaxAttempts, token: PushTokens \cup {NoPushToken},
                 response: SendResponses]

NoSend == [at |-> "idle", number |-> 0, token |-> NoPushToken, response |-> "unknown"]

CheckerStates == [at: {"idle", "reserved", "answered"}, number: 0..MaxAttempts,
                  check: 0..MaxChecks, response: ReceiptResponses]

NoCheck == [at |-> "idle", number |-> 0, check |-> 0, response |-> "unavailable"]

-----------------------------------------------------------------------------
\* mobile_push_delivery_idempotency_check: a bare digest.
LedgerTakesKey == KeyPrefix = ""

Existing == { n \in Attempts : attempt[n].state # "none" }

Latest == CHOOSE n \in Existing : \A m \in Existing : m <= n

RepeatableAfterCrash(row) ==
    \/ row.state = "retry_scheduled" /\ row.due
    \/ row.state = "sending" /\ row.sendLease = "over"

\* The latest attempt allows another one.
Repeatable(row) == row.state = "retry_scheduled" /\ row.due

NextNumber == IF Existing = {} THEN 1 ELSE Latest + 1

MayReserve ==
    /\ NextNumber \in Attempts
    /\ Existing # {} => Repeatable(attempt[Latest])

TargetHolds(s) ==
    /\ sender[s].at = "loaded"
    /\ registration = [status |-> "active", token |-> sender[s].token]

\* The conditions of mobile_push_delivery_reserve.
Reservable(s) == TargetHolds(s) /\ LedgerTakesKey /\ MayReserve

EndedWithLeases(row, state) == [row EXCEPT !.state = state, !.due = FALSE]

\* A transition clears the lease it was made under; the other one is not set then.
Ended(row, state) ==
    [row EXCEPT !.state = state, !.sendLease = "none", !.receiptLease = "none",
                !.due = FALSE]

HoldsSend(s)  == attempt[sender[s].number].sendLease = "live"

HoldsCheck(c) ==
    /\ attempt[checker[c].number].receiptLease = "live"
    /\ attempt[checker[c].number].checks = checker[c].check

DisablesWhateverToken(n) == registration.status # "absent"

\* The update of markDeviceNotRegistered finds its row: the registration still
\* has the token that the attempt was sent to.
Disables(n) == registration.status # "absent" /\ registration.token = attempt[n].token

RetryVerdict(n) == IF n < MaxAttempts THEN "retry_scheduled" ELSE "rejected"

SendVerdictRetryingDoubts(n, response) ==
    CASE response = "ticket"   -> "ticket_recorded"
      [] response \in {"unknown", "later"} -> RetryVerdict(n)
      [] response = "rejected" -> "rejected"

\* The state that the service records for an answer of the send endpoint: what it
\* does not understand is never retried.
SendVerdict(n, response) ==
    CASE response = "ticket"   -> "ticket_recorded"
      [] response = "unknown"  -> "indeterminate"
      [] response = "later"    -> RetryVerdict(n)
      [] response = "rejected" -> "rejected"

\* The state that the service records for an answer of the receipt endpoint.
CheckVerdict(n, check, response) ==
    CASE response = "delivered" -> "accepted"
      [] response = "later"     -> RetryVerdict(n)
      [] response \in {"rejected", "closed"} -> "rejected"
      [] response = "unavailable" ->
            IF check < MaxChecks THEN "receipt_pending" ELSE "rejected"

CheckAllowedForEver(row) ==
    row.state \in AwaitingReceipt /\ row.receiptLease # "live" /\ row.due

\* The conditions of mobile_push_delivery_reserve_receipt.
CheckAllowed(row) ==
    /\ row.state \in AwaitingReceipt /\ row.receiptLease # "live"
    /\ row.due /\ row.checks < MaxChecks

-----------------------------------------------------------------------------
Init ==
    /\ registration \in [status: {"active"}, token: PushTokens]
    /\ attempt = [n \in Attempts |-> NoAttempt]
    /\ sender = [s \in Senders |-> NoSend]
    /\ checker = [c \in Checkers |-> NoCheck]
    /\ provider = [n \in Attempts |-> "none"]
    /\ gone = {}

\* registerMobilePushToken: an upsert by user, which keeps the registration's id.
Register(t) ==
    /\ registration.status # "absent"
    /\ registration' = [status |-> "active", token |-> t]
    /\ UNCHANGED <<attempt, sender, checker, provider, gone>>

\* unregisterMobilePushToken; the attempts go with the registration.  Another
\* registration would have another id, and be another reminder.
Unregister ==
    /\ registration.status # "absent"
    /\ registration' = [status |-> "absent", token |-> NoPushToken]
    /\ attempt' = [n \in Attempts |-> NoAttempt]
    /\ UNCHANGED <<sender, checker, provider, gone>>

\* loadTarget finds an eligible target.
LoadTarget(s) ==
    /\ sender[s] = NoSend
    /\ registration.status = "active"
    /\ sender' = [sender EXCEPT ![s] = [NoSend EXCEPT !.at = "loaded",
                                                      !.token = registration.token]]
    /\ UNCHANGED <<registration, attempt, checker, provider, gone>>

\* mobile_push_delivery_reserve: the target is checked again, and the attempt is new.
Reserve(s) ==
    /\ Reservable(s)
    /\ attempt' = [attempt EXCEPT ![NextNumber] =
         [NoAttempt EXCEPT !.state = "sending", !.token = sender[s].token,
                           !.sendLease = "live"]]
    /\ sender' = [sender EXCEPT ![s].at = "reserved", ![s].number = NextNumber]
    /\ UNCHANGED <<registration, checker, provider, gone>>

\* What the provider did, and what the service makes of its answer: no answer, or
\* none it understands, says nothing; a refusal, 429 and 5xx too, is taken at its word.
ProviderAnswers ==
    {<<"taken", "ticket">>, <<"taken", "unknown">>, <<"refused", "unknown">>,
     <<"refused", "later">>, <<"refused", "rejected">>, <<"refused", "not_registered">>}

\* The request to the send endpoint.
Send(s, did, response) ==
    /\ sender[s].at = "reserved"
    /\ <<did, response>> \in ProviderAnswers
    /\ provider' = [provider EXCEPT ![sender[s].number] = did]
    /\ gone' = IF response = "not_registered" THEN gone \cup {sender[s].token} ELSE gone
    /\ sender' = [sender EXCEPT ![s].at = "sent", ![s].response = response]
    /\ UNCHANGED <<registration, attempt, checker>>

Recorded(n, row) ==
    /\ attempt' = [attempt EXCEPT ![n] = row]
    /\ UNCHANGED <<provider, gone>>

\* markTicket, markRetry, markTerminal, markIndeterminate under the send lease.
RecordSend(s) ==
    LET n == sender[s].number
        response == sender[s].response IN
    /\ sender[s].at = "sent"
    /\ HoldsSend(s)
    /\ response # "not_registered"
    /\ Recorded(n, Ended(attempt[n], SendVerdict(n, response)))
    /\ sender' = [sender EXCEPT ![s] = NoSend]
    /\ UNCHANGED <<registration, checker>>

\* The answer of markTicket is lost, or the ledger refuses its times: the service
\* then asks for markIndeterminate, whether or not the ticket was recorded.
DoubtTicket(s, recorded) ==
    LET n == sender[s].number IN
    /\ sender[s].at = "sent" /\ sender[s].response = "ticket"
    /\ recorded => HoldsSend(s)
    /\ Recorded(n, IF recorded THEN Ended(attempt[n], "ticket_recorded") ELSE attempt[n])
    /\ sender' = [sender EXCEPT ![s].response = "unknown"]
    /\ UNCHANGED <<registration, checker>>

\* markDeviceNotRegistered: one transaction over the attempt and the registration.
RejectDevice(n) ==
    /\ Disables(n)
    /\ registration' = [registration EXCEPT !.status = "disabled"]
    /\ Recorded(n, Ended(attempt[n], "rejected"))

RecordSendToLostDevice(s) ==
    /\ sender[s].at = "sent" /\ sender[s].response = "not_registered"
    /\ HoldsSend(s)
    /\ RejectDevice(sender[s].number)
    /\ sender' = [sender EXCEPT ![s] = NoSend]
    /\ UNCHANGED checker

\* The run ends: after a refusal by the ledger, a lost call, or with its process.
EndSend(s) ==
    /\ sender[s] # NoSend
    /\ sender' = [sender EXCEPT ![s] = NoSend]
    /\ UNCHANGED <<registration, attempt, checker, provider, gone>>

\* mobile_push_delivery_reserve_receipt
ReserveCheck(c, n) ==
    /\ checker[c] = NoCheck
    /\ CheckAllowed(attempt[n])
    /\ attempt' = [attempt EXCEPT ![n].state = "receipt_checking",
                                  ![n].checks = @ + 1, ![n].receiptLease = "live"]
    /\ checker' = [checker EXCEPT ![c] =
         [NoCheck EXCEPT !.at = "reserved", !.number = n, !.check = attempt[n].checks + 1]]
    /\ UNCHANGED <<registration, sender, provider, gone>>

\* The receipt endpoint: the fate of a push is decided once, told any number of
\* times, and a lookup may fail.
LookUp(c, response) ==
    LET n == checker[c].number IN
    /\ checker[c].at = "reserved"
    /\ \/ response \in {"unavailable", "closed"} /\ UNCHANGED provider
       \/ /\ response \in {"delivered", "later", "rejected", "not_registered"}
          /\ provider[n] \in {"taken", response}
          /\ provider' = [provider EXCEPT ![n] = response]
    /\ gone' = IF response = "not_registered"
               THEN gone \cup ({attempt[n].token} \ {NoPushToken})
               ELSE gone
    /\ checker' = [checker EXCEPT ![c].at = "answered", ![c].response = response]
    /\ UNCHANGED <<registration, attempt, sender>>

\* markReceiptAccepted, markReceiptPending, markRetry, markTerminal under the
\* receipt lease.  "closed": the ticket is a day old, or the endpoint refuses it.
RecordCheck(c) ==
    LET n == checker[c].number
        response == checker[c].response IN
    /\ checker[c].at = "answered"
    /\ HoldsCheck(c)
    /\ response # "not_registered"
    /\ Recorded(n, Ended(attempt[n], CheckVerdict(n, checker[c].check, response)))
    /\ checker' = [checker EXCEPT ![c] = NoCheck]
    /\ UNCHANGED <<registration, sender>>

RecordCheckOfLostDevice(c) ==
    /\ checker[c].at = "answered" /\ checker[c].response = "not_registered"
    /\ HoldsCheck(c)
    /\ RejectDevice(checker[c].number)
    /\ checker' = [checker EXCEPT ![c] = NoCheck]
    /\ UNCHANGED sender

EndCheck(c) ==
    /\ checker[c] # NoCheck
    /\ checker' = [checker EXCEPT ![c] = NoCheck]
    /\ UNCHANGED <<registration, attempt, sender, provider, gone>>

SendLeaseRunsOut(n) ==
    /\ attempt[n].sendLease = "live"
    /\ attempt' = [attempt EXCEPT ![n].sendLease = "over"]
    /\ UNCHANGED <<registration, sender, checker, provider, gone>>

ReceiptLeaseRunsOut(n) ==
    /\ attempt[n].receiptLease = "live"
    /\ attempt' = [attempt EXCEPT ![n].receiptLease = "over"]
    /\ UNCHANGED <<registration, sender, checker, provider, gone>>

\* retry_at, or receipt_check_after, is past.
ComesDue(n) ==
    /\ attempt[n].state \in {"retry_scheduled", "ticket_recorded", "receipt_pending"}
    /\ ~attempt[n].due
    /\ attempt' = [attempt EXCEPT ![n].due = TRUE]
    /\ UNCHANGED <<registration, sender, checker, provider, gone>>

Next ==
    \/ \E t \in PushTokens : Register(t)
    \/ Unregister
    \/ \E s \in Senders : LoadTarget(s)
    \/ \E s \in Senders : Reserve(s)
    \/ \E s \in Senders, did \in {"taken", "refused"}, response \in SendResponses :
          Send(s, did, response)
    \/ \E s \in Senders : RecordSend(s)
    \/ \E s \in Senders, recorded \in BOOLEAN : DoubtTicket(s, recorded)
    \/ \E s \in Senders : RecordSendToLostDevice(s)
    \/ \E s \in Senders : EndSend(s)
    \/ \E c \in Checkers, n \in Attempts : ReserveCheck(c, n)
    \/ \E c \in Checkers, response \in ReceiptResponses : LookUp(c, response)
    \/ \E c \in Checkers : RecordCheck(c)
    \/ \E c \in Checkers : RecordCheckOfLostDevice(c)
    \/ \E c \in Checkers : EndCheck(c)
    \/ \E n \in Attempts : SendLeaseRunsOut(n)
    \/ \E n \in Attempts : ReceiptLeaseRunsOut(n)
    \/ \E n \in Attempts : ComesDue(n)

Spec == Init /\ [][Next]_vars

-----------------------------------------------------------------------------
\* Every row and run is in one of its states.
TypeOK ==
    /\ registration \in [status: {"active", "disabled", "absent"},
                         token: PushTokens \cup {NoPushToken}]
    /\ attempt \in [Attempts -> AttemptRows]
    /\ sender \in [Senders -> SenderStates]
    /\ checker \in [Checkers -> CheckerStates]
    /\ provider \in [Attempts -> {"none", "taken", "refused", "delivered", "later",
                                  "rejected", "not_registered"}]
    /\ gone \in SUBSET PushTokens

\* The device gets the reminder at most once: whatever is lost, late or dead, the
\* provider is never given it again while it may have or has pushed it.
AtMostOnePush ==
    Cardinality({ n \in Attempts : provider[n] \in {"taken", "delivered"} }) <= 1

\* A verdict is final: mobile_push_delivery_transition looks at leases and not at
\* states, and yet no late answer of a run that lost its lease reopens an attempt.
VerdictsAreFinal ==
    [][\A n \in Attempts : attempt[n].state \in TerminalStates =>
          attempt'[n].state \in {attempt[n].state, "none"}]_vars

\* A device is switched off only for the token that the provider reported: a token
\* it registered meanwhile keeps getting reminders.
DisabledMeansGone ==
    registration.status = "disabled" => registration.token \in gone

\* What the ledger says of a push is what the provider did with it.
VerdictsAreTrue ==
    \A n \in Attempts :
        /\ attempt[n].state = "accepted" => provider[n] = "delivered"
        /\ attempt[n].state = "retry_scheduled" => provider[n] \in {"refused", "later"}
        /\ attempt[n].state \in AwaitingReceipt => provider[n] # "refused"
=============================================================================
