--------------------------- MODULE CatchupRequests ---------------------------
(***************************************************************************)
(* What the catch-up queue promises whoever asks for a sync: requests of a *)
(* conversation are merged, and are answered by a sync that covers them    *)
(* all, or given up together.                                              *)
(***************************************************************************)
EXTENDS Naturals

CONSTANT Conversations

VARIABLES
    asked,   \* requests made
    served,  \* requests covered by a sync
    state    \* "quiet", "open", "answered" or "abandoned"

requestVars == <<asked, served, state>>

Quiet ==
    /\ asked = [c \in Conversations |-> 0]
    /\ served = [c \in Conversations |-> 0]
    /\ state = [c \in Conversations |-> "quiet"]

Ask(c) ==
    /\ asked'[c] = asked[c] + 1 /\ state'[c] = "open"
    /\ served'[c] = served[c]

\* A sync covers what was asked before it, whether or not anyone waits for it.
Serve(c) ==
    /\ served'[c] \in served[c]..asked[c]
    /\ asked'[c] = asked[c] /\ state'[c] = state[c]

Answer(c) ==
    /\ state[c] = "open" /\ state'[c] = "answered"
    /\ served[c] = asked[c]
    /\ asked'[c] = asked[c] /\ served'[c] = served[c]

GiveUp(c) ==
    /\ state[c] = "open" /\ state'[c] = "abandoned"
    /\ asked'[c] = asked[c] /\ served'[c] = served[c]

\* The contact and what was asked for it are deleted.
Forget(c) ==
    /\ state'[c] = "quiet"
    /\ asked'[c] = asked[c] /\ served'[c] = served[c]

\* One worker's sweep may give up several conversations at once.
RequestsNext ==
    \A c \in Conversations :
        Ask(c) \/ Serve(c) \/ Answer(c) \/ GiveUp(c) \/ Forget(c)

RequestsSpec == Quiet /\ [][RequestsNext]_requestVars
=============================================================================
