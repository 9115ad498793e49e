---------------------------- MODULE OutboundCalls -----------------------------
(***************************************************************************)
(* What the message queue promises to its callers: a call that is asked    *)
(* for is in hand of one worker at a time, a notification is taken only    *)
(* when no interaction waits, a call is tried until it has an outcome, at  *)
(* most MaxRetries + 1 times, and not again once it has one unless it is   *)
(* asked for anew.  A waiter that goes away does not withdraw its call; a  *)
(* call that fails in the client library is abandoned without an outcome.  *)
(***************************************************************************)
EXTENDS Integers

CONSTANTS
  Job,         \* the calls that may be outstanding at a time
  Interactive, \* those of the high priority tier
  MaxRetries,  \* attempts after the first: 3 in the code
  None         \* Python's None

VARIABLES
  waiting,   \* calls asked for and not in hand
  inHand,    \* the call the worker has taken, or None
  attempts,  \* job -> attempts begun and ended without an outcome
  outcome    \* job -> what its future holds

outVars == <<waiting, inHand, attempts, outcome>>

Init ==
  /\ waiting = {} /\ inHand = None
  /\ attempts = [j \in Job |-> 0]
  /\ outcome = [j \in Job |-> "unasked"]

Ask(j) ==
  /\ outcome[j] \in {"unasked", "done", "failed"}
  /\ waiting' = waiting \cup {j}
  /\ attempts' = [attempts EXCEPT ![j] = 0]
  /\ outcome' = [outcome EXCEPT ![j] = "pending"]
  /\ UNCHANGED inHand

Take(j) ==
  /\ inHand = None /\ j \in waiting
  /\ j \in Interactive \/ waiting \cap Interactive = {}
  /\ inHand' = j /\ waiting' = waiting \ {j}
  /\ UNCHANGED <<attempts, outcome>>

Settle(j, result) ==
  /\ inHand = j /\ inHand' = None
  /\ outcome[j] \in {"pending", "cancelled"}
  /\ result = "failed" => attempts[j] = MaxRetries
  /\ outcome' = [outcome EXCEPT ![j] = IF @ = "pending" THEN result ELSE @]
  /\ UNCHANGED <<waiting, attempts>>

TryAgain(j) ==
  /\ inHand = j /\ inHand' = None
  /\ outcome[j] \in {"pending", "cancelled"}
  /\ attempts[j] < MaxRetries
  /\ attempts' = [attempts EXCEPT ![j] = @ + 1]
  /\ waiting' = waiting \cup {j}
  /\ UNCHANGED outcome

Abandon(j) ==
  /\ inHand = j /\ inHand' = None
  /\ UNCHANGED <<waiting, attempts, outcome>>

Withdraw(j) ==
  /\ outcome[j] = "pending"
  /\ outcome' = [outcome EXCEPT ![j] = "cancelled"]
  /\ UNCHANGED <<waiting, inHand, attempts>>

Next ==
  \E j \in Job :
    \/ Ask(j) \/ Take(j) \/ TryAgain(j) \/ Abandon(j) \/ Withdraw(j)
    \/ \E result \in {"done", "failed"} : Settle(j, result)

Spec == Init /\ [][Next]_outVars
===============================================================================
