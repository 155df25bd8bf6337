-------------------------- MODULE BoundedDelivery --------------------------
(***************************************************************************)
(* What the two dispatchers of knoa_platform/automation promise of what    *)
(* they deliver, the occurrences of a schedule and the events of a         *)
(* trigger alike, with clock, leases, calls and runtime Tasks forgotten:   *)
(* what is accepted is claimed a bounded number of times, is only executed *)
(* while it is claimed, and is delivered or given up once and for all.     *)
(***************************************************************************)
EXTENDS Integers

CONSTANTS Item, MaxDeliveryAttempts

VARIABLES
    stage,     \* how far each item is
    tries,     \* the claims that count against it
    started,   \* the items that have an execution
    withdrawn  \* the schedule or the trigger was deleted, and its items with it

promise == <<stage, tries, started, withdrawn>>

PromiseInit ==
    /\ stage = [i \in Item |-> "unknown"]
    /\ tries = [i \in Item |-> 0]
    /\ started = {}
    /\ withdrawn = FALSE

Move(i, from, to, n) ==
    /\ stage[i] \in from
    /\ stage' = [stage EXCEPT ![i] = to]
    /\ tries' = [tries EXCEPT ![i] = n]
    /\ UNCHANGED <<started, withdrawn>>

Accept(i) == ~withdrawn /\ Move(i, {"unknown"}, "waiting", 0)

\* What is there already is taken note of and never delivered.
Ignore(S) ==
    /\ ~withdrawn
    /\ \A i \in S : stage[i] = "unknown"
    /\ stage' = [i \in Item |-> IF i \in S THEN "ignored" ELSE stage[i]]
    /\ UNCHANGED <<tries, started, withdrawn>>

\* A new item, one that waits, or one whose claim has lapsed.
Claim(i) ==
    /\ ~withdrawn
    /\ tries[i] < MaxDeliveryAttempts
    /\ Move(i, {"unknown", "waiting", "claimed"}, "claimed", tries[i] + 1)

\* Nothing is executed that is not claimed; an attempt under way outlives a deletion.
Start(i) ==
    /\ withdrawn \/ stage[i] = "claimed"
    /\ started' = started \cup {i}
    /\ UNCHANGED <<stage, tries, withdrawn>>

Deliver(i) == i \in started /\ Move(i, {"claimed"}, "delivered", tries[i])

\* The attempt failed; there is another one.
Fail(i) == tries[i] < MaxDeliveryAttempts /\ Move(i, {"claimed"}, "waiting", tries[i])

\* The attempt came at a bad moment and does not count.
PutOff(i) == tries[i] > 0 /\ Move(i, {"claimed"}, "waiting", tries[i] - 1)

GiveUpOn(i) == tries[i] >= MaxDeliveryAttempts /\ Move(i, {"claimed"}, "given_up", tries[i])

Withdraw ==
    /\ ~withdrawn
    /\ withdrawn' = TRUE
    /\ stage' = [i \in Item |-> "unknown"]
    /\ tries' = [i \in Item |-> 0]
    /\ UNCHANGED started

PromiseNext ==
    \/ \E i \in Item :
         \/ Accept(i) \/ Claim(i) \/ Start(i) \/ Deliver(i) \/ Fail(i) \/ PutOff(i)
         \/ GiveUpOn(i)
    \/ \E S \in SUBSET Item : Ignore(S)
    \/ Withdraw

PromiseSpec == PromiseInit /\ [][PromiseNext]_promise

=============================================================================
