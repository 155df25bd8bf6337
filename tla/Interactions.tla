---------------------------- MODULE Interactions ----------------------------
(***************************************************************************)
(* One question of an agent to its user: HumanInteractionRepository keeps  *)
(* the question and its answer, HumanInteractionService wakes the          *)
(* coroutine that asked.                                                   *)
(*                                                                         *)
(* The transactions run in other threads; the waiters are a dictionary     *)
(* under an asyncio lock.  Several clients may answer the same question,   *)
(* the one that asked may stop waiting, and Core may die in between.       *)
(***************************************************************************)
EXTENDS Integers, FiniteSets

CONSTANTS
    Client,   \* those who may answer
    MaxDeaths \* bound: crashes and orderly stops of Core

VARIABLES
    question, \* the row of human_interactions; by: whose answer it holds
    overdue,  \* the clock has passed expires_at
    asker,    \* the coroutine that asked: begin(), wait(), expire()
    waiter,   \* its future, and whether it is in _waiters
    answer,   \* the resolve() of every client
    deaths    \* how often Core has stopped

ivars == <<question, overdue, asker, waiter, answer, deaths>>

Nobody == "nobody"

ASSUME InteractionAssumption == MaxDeaths \in Nat /\ Nobody \notin Client

QuestionState == {"none", "pending", "resolved", "expired", "runtime_lost"}

\* A turn of an agent or an MCP elicitation waits as long as it takes; a request for
\* the location of a device has a timeout, and expires_at.
AskerKind == {"agent", "location"}
AskerPc == {"idle", "registering", "waiting", "expiring", "leaving", "answered", "gave_up"}
Future == {"none", "pending", "set", "cancelled"}
AnswerPc == {"idle", "waking", "done"}

InteractionTypeOK ==
    /\ question \in [state : QuestionState, by : Client \cup {Nobody}]
    /\ overdue \in BOOLEAN
    /\ asker \in [pc : AskerPc, kind : AskerKind, changed : BOOLEAN, got : Client \cup {Nobody}]
    /\ waiter \in [future : Future, listed : BOOLEAN, by : Client \cup {Nobody}]
    /\ answer \in [Client -> [pc : AnswerPc, changed : BOOLEAN, early : BOOLEAN]]
    /\ deaths \in 0..MaxDeaths

NoWaiter == [future |-> "none", listed |-> FALSE, by |-> Nobody]
NoAnswer == [pc |-> "idle", changed |-> FALSE, early |-> FALSE]

InteractionInit ==
    /\ question = [state |-> "none", by |-> Nobody]
    /\ overdue = FALSE
    /\ asker \in [pc : {"idle"}, kind : AskerKind, changed : {FALSE}, got : {Nobody}]
    /\ waiter = NoWaiter
    /\ answer = [c \in Client |-> NoAnswer]
    /\ deaths = 0

-----------------------------------------------------------------------------
(* The coroutine that asks *)

\* request(): a question is asked again only after a restart, and by then it is closed:
\* begin() hands out the stored answer, or raises.
Ask ==
    /\ asker.pc = "idle"
    /\ \/ /\ question.state = "none"
          /\ question' = [question EXCEPT !.state = "pending"]
          /\ asker' = [asker EXCEPT !.pc = "registering"]
       \/ /\ question.state = "resolved"
          /\ asker' = [asker EXCEPT !.pc = "answered", !.got = question.by]
          /\ UNCHANGED question
       \/ /\ question.state \notin {"none", "resolved"}
          /\ asker' = [asker EXCEPT !.pc = "gave_up"]
          /\ UNCHANGED question
    /\ UNCHANGED <<overdue, waiter, answer, deaths>>

\* The future enters _waiters after the transaction.
Register ==
    /\ asker.pc = "registering"
    /\ asker' = [asker EXCEPT !.pc = "waiting"]
    /\ waiter' = [waiter EXCEPT !.future = "pending", !.listed = TRUE]
    /\ UNCHANGED <<question, overdue, answer, deaths>>

WaitReturns ==
    /\ asker.pc = "waiting" /\ waiter.future = "set"
    /\ asker' = [asker EXCEPT !.pc = "answered", !.got = waiter.by]
    /\ UNCHANGED <<question, overdue, waiter, answer, deaths>>

\* wait_for() of DeviceLocationTool cancels the future, and the question is withdrawn.
WaitTimesOut ==
    /\ asker.pc = "waiting" /\ asker.kind = "location"
    /\ waiter.future = "pending"
    /\ waiter' = [waiter EXCEPT !.future = "cancelled"]
    /\ asker' = [asker EXCEPT !.pc = "expiring"]
    /\ UNCHANGED <<question, overdue, answer, deaths>>

\* The turn is cancelled.  An agent leaves its waiter and its question behind.
TurnCancelled ==
    /\ asker.pc = "waiting" /\ waiter.future = "pending"
    /\ waiter' = [waiter EXCEPT !.future = "cancelled"]
    /\ asker' = [asker EXCEPT !.pc = IF asker.kind = "location" THEN "expiring" ELSE "gave_up"]
    /\ UNCHANGED <<question, overdue, answer, deaths>>

\* Mutation: a question that is no longer pending is withdrawn too.
MayExpire_Always == question.state # "none"

MayExpire == question.state = "pending"

\* expire(): the transaction, ...
Expire ==
    /\ asker.pc = "expiring"
    /\ question' = IF MayExpire THEN [question EXCEPT !.state = "expired"] ELSE question
    /\ asker' = [asker EXCEPT !.pc = "leaving", !.changed = MayExpire]
    /\ UNCHANGED <<overdue, waiter, answer, deaths>>

\* ... and the waiter.
Leave ==
    /\ asker.pc = "leaving"
    /\ waiter' = [waiter EXCEPT !.listed = FALSE]
    /\ asker' = [asker EXCEPT !.pc = "gave_up"]
    /\ UNCHANGED <<question, overdue, answer, deaths>>

-----------------------------------------------------------------------------
(* resolve() of a client *)

\* The transaction: the first answer counts, unless it comes after expires_at.
Resolve(c) ==
    /\ answer[c].pc = "idle" /\ question.state # "none"
    /\ LET counts == question.state = "pending" /\ ~overdue IN
       /\ question' = IF counts THEN [state |-> "resolved", by |-> c]
                      ELSE IF question.state = "pending" THEN [question EXCEPT !.state = "expired"]
                      ELSE question
       /\ answer' = [answer EXCEPT ![c] = [pc |-> "waking", changed |-> counts,
                                           early |-> asker.pc = "registering"]]
    /\ UNCHANGED <<overdue, asker, waiter, deaths>>

\* Mutation: the waiter is taken from the dictionary before it is looked up.
Woken_PopFirst(c) == [waiter EXCEPT !.listed = FALSE]

\* Under the lock: the answer that counted wakes the waiter; any answer removes it.
Woken(c) ==
    IF answer[c].changed /\ waiter.listed /\ waiter.future = "pending"
    THEN [future |-> "set", listed |-> FALSE, by |-> c]
    ELSE [waiter EXCEPT !.listed = FALSE]

Wake(c) ==
    /\ answer[c].pc = "waking"
    /\ waiter' = Woken(c)
    /\ answer' = [answer EXCEPT ![c].pc = "done"]
    /\ UNCHANGED <<question, overdue, asker, deaths>>

-----------------------------------------------------------------------------
TimePasses ==
    /\ asker.kind = "location" /\ question.state # "none" /\ ~overdue
    /\ overdue' = TRUE
    /\ UNCHANGED <<question, asker, waiter, answer, deaths>>

\* Mutation: start() leaves the questions of the last life open.
Recovered_Kept == question

\* recover_runtime_lost() of start(): nobody waits for a question of the last life.
Recovered == IF question.state = "pending" THEN [question EXCEPT !.state = "runtime_lost"]
             ELSE question

\* Core stops, in order or not, and starts.
CoreStopsAndStarts ==
    /\ deaths < MaxDeaths
    /\ deaths' = deaths + 1
    /\ question' = Recovered
    /\ asker' = [asker EXCEPT !.pc = "idle", !.changed = FALSE, !.got = Nobody]
    /\ waiter' = NoWaiter
    /\ answer' = [c \in Client |-> IF answer[c].pc = "waking" THEN [answer[c] EXCEPT !.pc = "done"]
                                   ELSE answer[c]]
    /\ UNCHANGED overdue

InteractionNext ==
    \/ Ask \/ Register \/ WaitReturns \/ WaitTimesOut \/ TurnCancelled \/ Expire \/ Leave
    \/ \E c \in Client : Resolve(c) \/ Wake(c)
    \/ TimePasses
    \/ CoreStopsAndStarts

\* Coroutines go on.  Nobody is bound to ask, to answer, to cancel or to stop.
InteractionProgress ==
    Register \/ WaitReturns \/ WaitTimesOut \/ Expire \/ Leave \/ \E c \in Client : Wake(c)

InteractionFairness == WF_ivars(InteractionProgress)

InteractionSpec == InteractionInit /\ [][InteractionNext]_ivars /\ InteractionFairness

-----------------------------------------------------------------------------
(* Properties *)

\* resolve(), expire() and begin() agree on who was heard: the asker gets the stored
\* answer and no other, at most one client is told that it changed the question and that
\* one is heard, and the asker that withdrew its question is told so only if nobody was.
OneIsHeard ==
    /\ asker.got # Nobody => question = [state |-> "resolved", by |-> asker.got]
    /\ \A c \in Client : answer[c].changed <=> question.by = c
    /\ asker.changed => \A c \in Client : ~answer[c].changed

\* A question that is open has someone who will hear the answer, or a turn that was
\* cancelled: recover_runtime_lost() closes those of the last life.
OpenHasAsker ==
    question.state = "pending" =>
        \/ asker.pc \in {"registering", "waiting", "expiring"}
        \/ asker.pc = "gave_up" /\ asker.kind = "agent" /\ waiter.future = "cancelled"

QuestionSound == OneIsHeard /\ OpenHasAsker

\* resolve() removes the waiter whoever answers: an answer is lost when another is
\* handled first, or when it comes before begin() has registered the waiter.
Overtaken ==
    \E c \in Client :
        /\ question.by = c
        /\ answer[c].early \/ \E d \in Client \ {c} : answer[d].pc # "idle"

\* resolve(): while the asker waits for an answer that has counted, its future is set, or the
\* client whose answer it was is about to set it, unless it was overtaken.
AnswerIsTold ==
    question.by # Nobody /\ asker.pc = "waiting" =>
        \/ waiter.future = "set"
        \/ waiter.future = "pending" /\ waiter.listed /\ answer[question.by].pc = "waking"
        \/ Overtaken

\* An answer that counted reaches the asker, unless it was overtaken.
AnswerArrives ==
    /\ (question.by # Nobody /\ asker.pc = "waiting") ~> (asker.pc # "waiting" \/ Overtaken)
    /\ [][AnswerIsTold']_ivars
=============================================================================
