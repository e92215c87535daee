---------------------------- MODULE ChainRunner -----------------------------
(***************************************************************************)
(* createChainRunner: the inputs of an import (products, price feeds) are  *)
(* split between the workers of a chain, one per RPC url.  Every worker    *)
(* runs the import pipeline over its inputs, and starts again when the     *)
(* pipeline ends.  From time to time the inputs are polled and split anew, *)
(* which stops the runs in progress.                                       *)
(*                                                                         *)
(* The pipeline of a worker is built once, and with it the stream in which *)
(* the failed items are merged back before the results are recorded        *)
(* (createImportStateUpdaterRunner, createObservableWithNext).  Each run   *)
(* subscribes to the same stream.                                          *)
(*                                                                         *)
(* The process is single threaded: an action is one turn of the event      *)
(* loop, and a worker that goes on with its loop after an await ("again")  *)
(* does it before any timer, answer or poll is served.                     *)
(*                                                                         *)
(* An item stands for all the queries its pipeline makes for it.  Any item *)
(* may go to any worker: the split is random, with positive weights.       *)
(* Not modelled: the stop function of the runner, which nothing calls, and *)
(* the streams that save RPC errors.                                       *)
(***************************************************************************)
EXTENDS Naturals, Sequences

CONSTANTS
    Workers,        \* one per RPC url of the chain
    Items,          \* what getInputs may return
    MaxRuns,        \* bound: runs of a worker
    MaxPolls,       \* bound: polls after the first one
    MaxThrows,      \* bound: runs that end with an exception
    Completion      \* the "complete" action in the queue of the stream

ASSUME RunnerAssumption ==
    /\ MaxRuns \in Nat \ {0}
    /\ MaxPolls \in Nat
    /\ MaxThrows \in Nat

Runs == 0 .. MaxRuns

(* Work made for an item in a run of a worker, and its failure. *)
Work == [item : Items, run : Runs]
ASSUME CompletionAssumption == Completion \notin Work

Answer == [work : Work, success : BOOLEAN]

VARIABLES
    once,           \* behaviour.repeatAtMostEvery is null
    inputList,      \* the inputs a worker was given by the last poll
    stop,           \* the worker leaves its loop after the current run
    pc,             \* where the loop of the worker is
    run,            \* number of runs the worker has started
    given,          \* the items its last run started with
    todo,           \* those the pipeline has not answered yet
    subscribed,     \* the run listens to the error stream of the worker
    queue,          \* actions of the stream made while nobody listened
    timers,         \* setTimeout(completeErrorObs) still to be called
    inFlight,       \* work of a stopped run that was not cancelled
    answers,        \* what the last run recorded in the import states
    polls, throws,  \* counters of the bounds
    cut             \* history: some run of the worker was stopped by a poll

loop == <<once, inputList, stop, run, given>>
stream == <<subscribed, queue, timers>>
bounds == <<polls, throws, cut>>
vars == <<once, inputList, stop, pc, run, given, todo, subscribed, queue,
          timers, inFlight, answers, polls, throws, cut>>

(***************************************************************************)
(* again    - the loop goes on: start a run or leave                       *)
(* running  - the pipeline is answering the items                          *)
(* drained  - every item is answered, the error stream is still open or    *)
(*            the results are being recorded                               *)
(* sleeping - between two runs, repeatAtMostEvery                          *)
(* done     - the loop has ended                                           *)
(* failed   - an exception ended it                                        *)
(***************************************************************************)
Phase == {"again", "running", "drained", "sleeping", "done", "failed"}

TypeOK ==
    /\ once \in BOOLEAN
    /\ inputList \in [Workers -> SUBSET Items]
    /\ stop \in [Workers -> BOOLEAN]
    /\ pc \in [Workers -> Phase]
    /\ run \in [Workers -> Runs]
    /\ given \in [Workers -> SUBSET Items]
    /\ todo \in [Workers -> SUBSET Items]
    /\ subscribed \in [Workers -> BOOLEAN]
    /\ queue \in [Workers -> Seq(Work \cup {Completion})]
    /\ timers \in [Workers -> Nat]
    /\ inFlight \in [Workers -> SUBSET Work]
    /\ answers \in [Workers -> SUBSET Answer]
    /\ polls \in 0 .. MaxPolls
    /\ throws \in 0 .. MaxThrows
    /\ cut \in [Workers -> BOOLEAN]

Active(w) == pc[w] \in {"running", "drained"}

(* No worker is in the middle of a turn of the event loop. *)
Idle == \A w \in Workers : pc[w] # "again"

(* The inputs each worker gets when they are split. *)
Split(inputs, to) == [w \in Workers |-> {i \in inputs : to[i] = w}]

Init ==
    /\ once \in BOOLEAN
    /\ \E inputs \in SUBSET Items :
         \E to \in [inputs -> Workers] : inputList = Split(inputs, to)
    /\ stop = [w \in Workers |-> FALSE]
    /\ pc = [w \in Workers |-> "again"]
    /\ run = [w \in Workers |-> 0]
    /\ given = [w \in Workers |-> {}]
    /\ todo = [w \in Workers |-> {}]
    /\ subscribed = [w \in Workers |-> FALSE]
    /\ queue = [w \in Workers |-> <<>>]
    /\ timers = [w \in Workers |-> 0]
    /\ inFlight = [w \in Workers |-> {}]
    /\ answers = [w \in Workers |-> {}]
    /\ polls = 0
    /\ throws = 0
    /\ cut = [w \in Workers |-> FALSE]

-----------------------------------------------------------------------------
(* The error stream of a worker. *)

Failure(w, i) == [item |-> i, run |-> run[w]]

(***************************************************************************)
(* Subscribing replays the queue up to its first completion, which closes  *)
(* the subscription at once.  The queue itself is never emptied.           *)
(***************************************************************************)
Completes(q) == \E n \in DOMAIN q : q[n] = Completion

(* Mutant: the completion itself is taken for a failure. *)
ReplayedCompletion(q) ==
    {q[n] : n \in {m \in DOMAIN q : \A l \in 1 .. (m - 1) : q[l] # Completion}}

Replayed(q) ==
    {q[n] : n \in {m \in DOMAIN q : \A l \in 1 .. m : q[l] # Completion}}

(* Mutant: what is given to the subscriber is kept in the queue as well. *)
EmitTwice(w, failure) ==
    /\ queue' = [queue EXCEPT ![w] = Append(@, failure)]
    /\ answers' = IF subscribed[w]
                  THEN [answers EXCEPT
                          ![w] = @ \cup {[work |-> failure, success |-> FALSE]}]
                  ELSE answers

(* next: the failed item goes to the run that listens, or to the queue. *)
Emit(w, failure) ==
    IF subscribed[w]
    THEN /\ answers' = [answers EXCEPT
                ![w] = @ \cup {[work |-> failure, success |-> FALSE]}]
         /\ UNCHANGED queue
    ELSE /\ queue' = [queue EXCEPT ![w] = Append(@, failure)]
         /\ UNCHANGED answers

(* complete, as the timer set at the end of the items calls it. *)
TimerFires(w) ==
    /\ Idle
    /\ timers[w] > 0
    /\ timers' = [timers EXCEPT ![w] = @ - 1]
    /\ subscribed' = [subscribed EXCEPT ![w] = FALSE]
    /\ queue' = IF subscribed[w] THEN queue
                ELSE [queue EXCEPT ![w] = Append(@, Completion)]
    /\ UNCHANGED <<loop, pc, todo, inFlight, answers, bounds>>

-----------------------------------------------------------------------------
(* The loop of a worker. *)

(* Mutant: completeErrorObs is called by finalize itself, not by a timer: an *)
(* empty source ends before the error stream is subscribed to.              *)
StartNoTimer(w) ==
    /\ pc[w] = "again"
    /\ ~stop[w] /\ run[w] < MaxRuns
    /\ stop' = [stop EXCEPT ![w] = once]
    /\ run' = [run EXCEPT ![w] = @ + 1]
    /\ given' = [given EXCEPT ![w] = inputList[w]]
    /\ todo' = [todo EXCEPT ![w] = inputList[w]]
    /\ IF inputList[w] = {}
       THEN /\ queue' = [queue EXCEPT ![w] = Append(@, Completion)]
            /\ pc' = [pc EXCEPT ![w] = "drained"]
       ELSE /\ UNCHANGED queue
            /\ pc' = [pc EXCEPT ![w] = "running"]
    /\ answers' = [answers EXCEPT
          ![w] = {[work |-> e, success |-> FALSE] : e \in Replayed(queue'[w])}]
    /\ subscribed' = [subscribed EXCEPT ![w] = ~Completes(queue'[w])]
    /\ UNCHANGED <<once, inputList, timers, inFlight, bounds>>

(* A run takes the inputs of the last poll and subscribes to the stream. *)
Start(w) ==
    /\ pc[w] = "again"
    /\ ~stop[w] /\ run[w] < MaxRuns
    /\ pc' = [pc EXCEPT ![w] = "running"]
    /\ stop' = [stop EXCEPT ![w] = once]
    /\ run' = [run EXCEPT ![w] = @ + 1]
    /\ given' = [given EXCEPT ![w] = inputList[w]]
    /\ todo' = [todo EXCEPT ![w] = inputList[w]]
    /\ answers' = [answers EXCEPT
          ![w] = {[work |-> e, success |-> FALSE] : e \in Replayed(queue[w])}]
    /\ subscribed' = [subscribed EXCEPT ![w] = ~Completes(queue[w])]
    /\ UNCHANGED <<once, inputList, queue, timers, inFlight, bounds>>

(* The loop ends; the process is also left there at the bound. *)
Leave(w) ==
    /\ pc[w] = "again"
    /\ stop[w] \/ run[w] = MaxRuns
    /\ pc' = [pc EXCEPT ![w] = "done"]
    /\ UNCHANGED <<loop, todo, stream, inFlight, answers, bounds>>

Succeed(w, i) ==
    /\ Idle
    /\ pc[w] = "running" /\ i \in todo[w]
    /\ todo' = [todo EXCEPT ![w] = @ \ {i}]
    /\ answers' = [answers EXCEPT
          ![w] = @ \cup {[work |-> Failure(w, i), success |-> TRUE]}]
    /\ UNCHANGED <<loop, pc, stream, inFlight, bounds>>

Fail(w, i) ==
    /\ Idle
    /\ pc[w] = "running" /\ i \in todo[w]
    /\ todo' = [todo EXCEPT ![w] = @ \ {i}]
    /\ Emit(w, Failure(w, i))
    /\ UNCHANGED <<loop, pc, subscribed, timers, inFlight, bounds>>

(* Mutant: nobody closes the error stream. *)
SourceEndsUnclosed(w) ==
    /\ Idle
    /\ pc[w] = "running" /\ todo[w] = {}
    /\ pc' = [pc EXCEPT ![w] = "drained"]
    /\ UNCHANGED <<loop, todo, stream, inFlight, answers, bounds>>

(* finalize: the error stream is closed in a turn of its own. *)
SourceEnds(w) ==
    /\ Idle
    /\ pc[w] = "running" /\ todo[w] = {}
    /\ pc' = [pc EXCEPT ![w] = "drained"]
    /\ timers' = [timers EXCEPT ![w] = @ + 1]
    /\ UNCHANGED <<loop, todo, subscribed, queue, inFlight, answers, bounds>>

(* A loop that repeats sleeps, unless the run was longer than its period. *)
AfterRun == IF once THEN {"again"} ELSE {"again", "sleeping"}

EndRun(w) ==
    /\ Idle
    /\ pc[w] = "drained" /\ ~subscribed[w]
    /\ \E next \in AfterRun : pc' = [pc EXCEPT ![w] = next]
    /\ UNCHANGED <<loop, todo, stream, inFlight, answers, bounds>>

(* The sleep is longer than the timer set before it. *)
Wake(w) ==
    /\ Idle
    /\ pc[w] = "sleeping" /\ timers[w] = 0
    /\ pc' = [pc EXCEPT ![w] = "again"]
    /\ UNCHANGED <<loop, todo, stream, inFlight, answers, bounds>>

(* An operator of the pipeline throws: the loop of this worker is over. *)
Throw(w) ==
    /\ Idle
    /\ Active(w) /\ throws < MaxThrows
    /\ throws' = throws + 1
    /\ pc' = [pc EXCEPT ![w] = "failed"]
    /\ todo' = [todo EXCEPT ![w] = {}]
    /\ subscribed' = [subscribed EXCEPT ![w] = FALSE]
    /\ timers' = IF pc[w] = "running" THEN [timers EXCEPT ![w] = @ + 1]
                 ELSE timers
    /\ UNCHANGED <<loop, queue, inFlight, answers, polls, cut>>

-----------------------------------------------------------------------------
(* The poll, and what the runs it stops leave behind. *)

(***************************************************************************)
(* updateInputs unsubscribes every run in progress.  The promises it has   *)
(* started go on ("left"), and its results are no longer recorded.         *)
(***************************************************************************)
Poll(inputs, to, left) ==
    /\ Idle
    /\ polls < MaxPolls
    /\ polls' = polls + 1
    /\ inputList' = Split(inputs, to)
    /\ \A w \in Workers : left[w] \subseteq todo[w]
    /\ inFlight' = [w \in Workers |-> inFlight[w] \cup
                        {Failure(w, i) : i \in left[w]}]
    /\ todo' = [w \in Workers |-> {}]
    /\ subscribed' = [w \in Workers |-> FALSE]
    /\ timers' = [w \in Workers |->
                    IF pc[w] = "running" THEN timers[w] + 1 ELSE timers[w]]
    /\ \E next \in [Workers -> AfterRun] :
         pc' = [w \in Workers |-> IF Active(w) THEN next[w] ELSE pc[w]]
    /\ cut' = [w \in Workers |-> cut[w] \/ Active(w)]
    /\ UNCHANGED <<once, stop, run, given, queue, answers, throws>>

(* The work of a stopped run fails after all: emitError is still called. *)
LateFailure(w, u) ==
    /\ Idle
    /\ u \in inFlight[w]
    /\ inFlight' = [inFlight EXCEPT ![w] = @ \ {u}]
    /\ Emit(w, u)
    /\ UNCHANGED <<loop, pc, todo, subscribed, timers, bounds>>

LateSuccess(w, u) ==
    /\ Idle
    /\ u \in inFlight[w]
    /\ inFlight' = [inFlight EXCEPT ![w] = @ \ {u}]
    /\ UNCHANGED <<loop, pc, todo, stream, answers, bounds>>

Next ==
    \/ \E w \in Workers :
        \/ Start(w) \/ Leave(w) \/ SourceEnds(w) \/ EndRun(w) \/ Wake(w)
        \/ TimerFires(w) \/ Throw(w)
        \/ \E i \in Items : Succeed(w, i) \/ Fail(w, i)
        \/ \E u \in inFlight[w] : LateFailure(w, u) \/ LateSuccess(w, u)
    \/ \E inputs \in SUBSET Items :
         \E to \in [inputs -> Workers] :
           \E left \in [Workers -> SUBSET Items] : Poll(inputs, to, left)

Spec == Init /\ [][Next]_vars

(***************************************************************************)
(* The event loop serves every timer and every answer, and every query is  *)
(* answered: calls have timeouts and a limited number of retries.  Polls,  *)
(* exceptions and late answers are not assumed to happen.                  *)
(***************************************************************************)
Fairness ==
    \A w \in Workers :
        /\ WF_vars(Start(w) \/ Leave(w))
        /\ WF_vars(\E i \in Items : Succeed(w, i) \/ Fail(w, i))
        /\ WF_vars(SourceEnds(w))
        /\ WF_vars(TimerFires(w))
        /\ WF_vars(EndRun(w))
        /\ WF_vars(Wake(w))

FairSpec == Spec /\ Fairness

-----------------------------------------------------------------------------
(* Every item a run was given is in what the run records. *)
AnswersItsItems(w) ==
    \A i \in given[w] : \E a \in answers[w] : a.work = Failure(w, i)

(* The last run of the worker went to its end. *)
RanToTheEnd(w) == pc[w] \in {"sleeping", "again", "done"} /\ run[w] > 0

(***************************************************************************)
(* As long as no poll has stopped it, a worker records an answer for every *)
(* item of every run: the failed ones come back through the error stream   *)
(* before it is closed ("merge the errors back in").                       *)
(***************************************************************************)
AnsweredUntilStopped ==
    \A w \in Workers : RanToTheEnd(w) /\ ~cut[w] => AnswersItsItems(w)

(***************************************************************************)
(* As long as no poll has stopped it, what a worker records is what the    *)
(* items of this very run gave: no failure of an earlier run is replayed.  *)
(***************************************************************************)
OwnAnswersUntilStopped ==
    \A w \in Workers :
        ~cut[w] => \A a \in answers[w] : a.work.run = run[w]

(***************************************************************************)
(* A run that starts also ends, whatever was stopped before: the error     *)
(* stream it waits for is closed by some timer.                            *)
(***************************************************************************)
RunsEnd == \A w \in Workers : Active(w) ~> ~Active(w)

(***************************************************************************)
(* "merge the errors back in": whatever was stopped before, when a run has *)
(* answered all its items and its error stream is closed, every one of     *)
(* them, failed ones included, was handed to the import state update.      *)
(***************************************************************************)
ErrorsMergedBack ==
    \A w \in Workers :
        pc[w] = "drained" /\ ~subscribed[w] => AnswersItsItems(w)
=============================================================================
