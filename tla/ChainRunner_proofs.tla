------------------------- MODULE ChainRunner_proofs -------------------------
(***************************************************************************)
(* Proofs about ChainRunner, for any workers, items and bounds: type       *)
(* correctness, and what a worker records as long as no poll stops a run   *)
(* of it.  Then about the lock under which the work of the runs calls its  *)
(* url, RpcLock, for any number of callers, any delay and any number of    *)
(* attempts: type correctness, and, as long as no lock expires while it is *)
(* used, mutual exclusion, spacing and answers that are kept.              *)
(***************************************************************************)
EXTENDS ChainRunner, RpcLock, TLAPS

(* A failure of the run in progress is a piece of work. *)
LEMMA FailureType ==
    ASSUME TypeOK, NEW w \in Workers, NEW i \in Items
    PROVE  Failure(w, i) \in Work /\ Failure(w, i).run = run[w]
BY DEF TypeOK, Failure, Work

(* What a subscription replays are failures, and nothing from no queue. *)
LEMMA ReplayedType ==
    ASSUME NEW q \in Seq(Work \cup {Completion})
    PROVE  Replayed(q) \subseteq Work
BY DEF Replayed

LEMMA NothingReplayed == Replayed(<<>>) = {} /\ ~Completes(<<>>)
BY DEF Replayed, Completes

LEMMA AnswerType ==
    ASSUME NEW u \in Work, NEW ok \in BOOLEAN
    PROVE  [work |-> u, success |-> ok] \in Answer
BY DEF Answer

(* What Emit changes, for a worker that listens and for one that does not. *)
LEMMA EmitType ==
    ASSUME TypeOK, NEW w \in Workers, NEW u \in Work, Emit(w, u)
    PROVE  /\ queue' \in [Workers -> Seq(Work \cup {Completion})]
           /\ answers' \in [Workers -> SUBSET Answer]
<1>1. CASE subscribed[w]
  <2>1. answers[w] \cup {[work |-> u, success |-> FALSE]} \subseteq Answer
    <3>1. [work |-> u, success |-> FALSE] \in Answer
      BY AnswerType
    <3> QED
      BY <3>1 DEF TypeOK
  <2>2. answers' \in [Workers -> SUBSET Answer]
    <3> DEFINE new == answers[w] \cup {[work |-> u, success |-> FALSE]}
    <3>1. new \in SUBSET Answer
      BY <2>1
    <3>2. answers' = [answers EXCEPT ![w] = new]
      BY <1>1 DEF Emit
    <3> HIDE DEF new
    <3> QED
      BY <3>1, <3>2 DEF TypeOK
  <2> QED
    BY <1>1, <2>2 DEF Emit, TypeOK
<1>2. CASE ~subscribed[w]
  <2>1. Append(queue[w], u) \in Seq(Work \cup {Completion})
    BY DEF TypeOK
  <2> QED
    BY <1>2, <2>1 DEF Emit, TypeOK
<1> QED
  BY <1>1, <1>2

LEMMA TypeInit == Init => TypeOK
<1> SUFFICES ASSUME Init PROVE TypeOK
  OBVIOUS
<1>1. PICK inputs \in SUBSET Items :
        \E to \in [inputs -> Workers] : inputList = Split(inputs, to)
  BY DEF Init
<1>2. inputList \in [Workers -> SUBSET Items]
  BY <1>1 DEF Split
<1>3. <<>> \in Seq(Work \cup {Completion}) /\ 0 \in Runs
  BY RunnerAssumption DEF Runs
<1> QED
  BY <1>2, <1>3, RunnerAssumption DEF Init, TypeOK, Phase

LEMMA TypeNext == TypeOK /\ [Next]_vars => TypeOK'
<1> SUFFICES ASSUME TypeOK, [Next]_vars
             PROVE  TypeOK'
  OBVIOUS
<1>1. ASSUME NEW w \in Workers, Start(w)
      PROVE  TypeOK'
  <2>1. Replayed(queue[w]) \subseteq Work
    BY ReplayedType DEF TypeOK
  <2>2. {[work |-> e, success |-> FALSE] : e \in Replayed(queue[w])} \subseteq Answer
    <3> DEFINE failures == Replayed(queue[w])
    <3>1. failures \subseteq Work
      BY <2>1
    <3> HIDE DEF failures
    <3>2. {[work |-> e, success |-> FALSE] : e \in failures} \subseteq Answer
      BY <3>1, AnswerType
    <3> QED
      BY <3>2 DEF failures
  <2>3. run[w] + 1 \in Runs
    BY <1>1, RunnerAssumption DEF Start, TypeOK, Runs
  <2>4. answers' \in [Workers -> SUBSET Answer]
    BY <1>1, <2>2 DEF Start, TypeOK
  <2>5. subscribed' \in [Workers -> BOOLEAN]
    BY <1>1 DEF Start, TypeOK, Completes
  <2> QED
    BY <1>1, <2>3, <2>4, <2>5 DEF Start, bounds, TypeOK, Phase
<1>2. ASSUME NEW w \in Workers, Leave(w) \/ Wake(w)
      PROVE  TypeOK'
  BY <1>2 DEF Leave, Wake, loop, stream, bounds, TypeOK, Phase
<1>3. ASSUME NEW w \in Workers, SourceEnds(w)
      PROVE  TypeOK'
  BY <1>3 DEF SourceEnds, loop, bounds, TypeOK, Phase
<1>4. ASSUME NEW w \in Workers, EndRun(w)
      PROVE  TypeOK'
  BY <1>4 DEF EndRun, AfterRun, loop, stream, bounds, TypeOK, Phase
<1>5. ASSUME NEW w \in Workers, TimerFires(w)
      PROVE  TypeOK'
  <2>1. Append(queue[w], Completion) \in Seq(Work \cup {Completion})
    BY DEF TypeOK
  <2>2. queue' \in [Workers -> Seq(Work \cup {Completion})]
    BY <1>5, <2>1 DEF TimerFires, TypeOK
  <2>3. timers' \in [Workers -> Nat]
    BY <1>5 DEF TimerFires, TypeOK
  <2> QED
    BY <1>5, <2>2, <2>3 DEF TimerFires, loop, bounds, TypeOK
<1>6. ASSUME NEW w \in Workers, Throw(w)
      PROVE  TypeOK'
  <2>1. throws' \in 0 .. MaxThrows
    BY <1>6, RunnerAssumption DEF Throw, TypeOK
  <2>2. timers' \in [Workers -> Nat]
    BY <1>6 DEF Throw, TypeOK
  <2> QED
    BY <1>6, <2>1, <2>2 DEF Throw, loop, TypeOK, Phase
<1>7. ASSUME NEW w \in Workers, NEW i \in Items, Succeed(w, i)
      PROVE  TypeOK'
  <2>1. [work |-> Failure(w, i), success |-> TRUE] \in Answer
    BY FailureType, AnswerType
  <2> QED
    BY <1>7, <2>1 DEF Succeed, loop, stream, bounds, TypeOK
<1>8. ASSUME NEW w \in Workers, NEW i \in Items, Fail(w, i)
      PROVE  TypeOK'
  <2>1. /\ queue' \in [Workers -> Seq(Work \cup {Completion})]
        /\ answers' \in [Workers -> SUBSET Answer]
    BY <1>8, FailureType, EmitType DEF Fail
  <2> QED
    BY <1>8, <2>1 DEF Fail, loop, bounds, TypeOK
<1>9. ASSUME NEW w \in Workers, NEW u \in inFlight[w],
             LateFailure(w, u) \/ LateSuccess(w, u)
      PROVE  TypeOK'
  <2>1. CASE LateFailure(w, u)
    <3>1. u \in Work
      BY DEF TypeOK
    <3>2. /\ queue' \in [Workers -> Seq(Work \cup {Completion})]
          /\ answers' \in [Workers -> SUBSET Answer]
      BY <2>1, <3>1, EmitType DEF LateFailure
    <3> QED
      BY <2>1, <3>2 DEF LateFailure, loop, bounds, TypeOK
  <2>2. CASE LateSuccess(w, u)
    BY <2>2 DEF LateSuccess, loop, stream, bounds, TypeOK
  <2> QED
    BY <1>9, <2>1, <2>2
<1>10. ASSUME NEW inputs \in SUBSET Items, NEW to \in [inputs -> Workers],
              NEW left \in [Workers -> SUBSET Items], Poll(inputs, to, left)
       PROVE  TypeOK'
  <2>1. inputList' \in [Workers -> SUBSET Items]
    BY <1>10 DEF Poll, Split
  <2>2. \A w \in Workers : {Failure(w, i) : i \in left[w]} \subseteq Work
    BY FailureType
  <2>3. inFlight' \in [Workers -> SUBSET Work]
    BY <1>10, <2>2 DEF Poll, TypeOK
  <2>4. pc' \in [Workers -> Phase]
    BY <1>10 DEF Poll, AfterRun, TypeOK, Phase
  <2>5. timers' \in [Workers -> Nat]
    BY <1>10 DEF Poll, TypeOK
  <2>6. polls' \in 0 .. MaxPolls
    BY <1>10, RunnerAssumption DEF Poll, TypeOK
  <2>7. cut' \in [Workers -> BOOLEAN]
    <3>1. \A w \in Workers : (cut[w] \/ Active(w)) \in BOOLEAN
      OBVIOUS
    <3> QED
      BY <1>10, <3>1 DEF Poll
  <2>8. todo' \in [Workers -> SUBSET Items] /\ subscribed' \in [Workers -> BOOLEAN]
    BY <1>10 DEF Poll
  <2> QED
    BY <1>10, <2>1, <2>3, <2>4, <2>5, <2>6, <2>7, <2>8 DEF Poll, TypeOK
<1>11. CASE UNCHANGED vars
  BY <1>11 DEF vars, TypeOK
<1> QED
  BY <1>1, <1>2, <1>3, <1>4, <1>5, <1>6, <1>7, <1>8, <1>9, <1>10, <1>11 DEF Next

(***************************************************************************)
(* Every variable of the runner keeps its type: a queue holds failures and *)
(* completions, and only failures are ever recorded.                       *)
(***************************************************************************)
THEOREM TypeCorrect == Spec => []TypeOK
BY TypeInit, TypeNext, PTL DEF Spec

-----------------------------------------------------------------------------
(***************************************************************************)
(* What holds of a worker none of whose runs was stopped by a poll.  The   *)
(* error stream is open exactly while the run needs it: it is subscribed   *)
(* to until the one timer of the run closes it, so that nothing is ever    *)
(* queued, and nothing replayed.  An exception closes it too early, but    *)
(* then the worker starts no other run.                                    *)
(***************************************************************************)
StreamFollowsRun(w) ==
    /\ pc[w] # "failed" => queue[w] = <<>>
    /\ pc[w] = "running" => subscribed[w] /\ timers[w] = 0
    /\ pc[w] = "drained" => timers[w] = (IF subscribed[w] THEN 1 ELSE 0)
    /\ pc[w] \notin {"running", "drained"} => ~subscribed[w]
    /\ pc[w] \in {"again", "sleeping", "done"} => timers[w] = 0

ItemsAccountedFor(w) ==
    /\ inFlight[w] = {}
    /\ pc[w] # "running" => todo[w] = {}
    /\ \A a \in answers[w] : a.work.run = run[w]
    /\ pc[w] # "failed" =>
         \A i \in given[w] \ todo[w] : \E a \in answers[w] : a.work = Failure(w, i)

Undisturbed(w) == StreamFollowsRun(w) /\ ItemsAccountedFor(w)

UndisturbedInv == \A w \in Workers : ~cut[w] => Undisturbed(w)

(* A worker the step does not touch keeps what holds of it. *)
Untouched(v) ==
    /\ pc'[v] = pc[v] /\ run'[v] = run[v]
    /\ given'[v] = given[v] /\ todo'[v] = todo[v]
    /\ subscribed'[v] = subscribed[v] /\ queue'[v] = queue[v]
    /\ timers'[v] = timers[v] /\ inFlight'[v] = inFlight[v]
    /\ answers'[v] = answers[v] /\ cut'[v] = cut[v]

LEMMA UntouchedKeeps ==
    ASSUME NEW v \in Workers, Untouched(v), ~cut[v] => Undisturbed(v)
    PROVE  ~cut'[v] => Undisturbed(v)'
BY DEF Untouched, Undisturbed, StreamFollowsRun, ItemsAccountedFor, Failure

WorkerStep(w) ==
    \/ Start(w) \/ Leave(w) \/ SourceEnds(w) \/ EndRun(w) \/ Wake(w)
    \/ TimerFires(w) \/ Throw(w)
    \/ \E i \in Items : Succeed(w, i) \/ Fail(w, i)
    \/ \E u \in inFlight[w] : LateFailure(w, u) \/ LateSuccess(w, u)

LEMMA OthersUntouched ==
    ASSUME TypeOK, NEW w \in Workers, NEW v \in Workers, v # w, WorkerStep(w)
    PROVE  Untouched(v)
<1> USE DEF TypeOK, Untouched, loop, stream, bounds
<1>1. CASE Start(w)
  BY <1>1 DEF Start
<1>2. CASE Leave(w) \/ SourceEnds(w)
  BY <1>2 DEF Leave, SourceEnds
<1>3. CASE EndRun(w) \/ Wake(w)
  BY <1>3 DEF EndRun, Wake
<1>4. CASE TimerFires(w)
  BY <1>4 DEF TimerFires
<1>5. CASE Throw(w)
  BY <1>5 DEF Throw
<1>6. ASSUME NEW i \in Items, Succeed(w, i)
      PROVE  Untouched(v)
  BY <1>6 DEF Succeed
<1>7. ASSUME NEW i \in Items, Fail(w, i)
      PROVE  Untouched(v)
  BY <1>7 DEF Fail, Emit
<1>8. ASSUME NEW u \in inFlight[w], LateFailure(w, u)
      PROVE  Untouched(v)
  BY <1>8 DEF LateFailure, Emit
<1>9. ASSUME NEW u \in inFlight[w], LateSuccess(w, u)
      PROVE  Untouched(v)
  BY <1>9 DEF LateSuccess
<1> QED
  BY <1>1, <1>2, <1>3, <1>4, <1>5, <1>6, <1>7, <1>8, <1>9 DEF WorkerStep

(* An item that is answered, one way or the other, is accounted for. *)
LEMMA AnsweringOne ==
    ASSUME TypeOK, NEW w \in Workers, NEW i \in Items, NEW ok,
           ItemsAccountedFor(w), pc[w] = "running",
           todo' = [todo EXCEPT ![w] = @ \ {i}],
           answers'[w] = answers[w] \cup {[work |-> Failure(w, i), success |-> ok]},
           UNCHANGED <<pc, run, given, inFlight>>
    PROVE  ItemsAccountedFor(w)'
<1> DEFINE new == [work |-> Failure(w, i), success |-> ok]
<1>1. new.work = Failure(w, i) /\ new.work.run = run[w]
  BY DEF Failure
<1>2. \A j : Failure(w, j)' = Failure(w, j)
  BY DEF Failure
<1>3. answers'[w] = answers[w] \cup {new}
  OBVIOUS
<1>4. todo'[w] = todo[w] \ {i}
  BY DEF TypeOK
<1> HIDE DEF new
<1>5. \A a \in answers'[w] : a.work.run = run'[w]
  BY <1>1, <1>3 DEF ItemsAccountedFor
<1>6. \A j \in given'[w] \ todo'[w] :
        \E a \in answers'[w] : a.work = Failure(w, j)'
  <2> SUFFICES ASSUME NEW j \in given[w] \ todo'[w]
               PROVE  \E a \in answers'[w] : a.work = Failure(w, j)
    BY <1>2
  <2>1. CASE j = i
    BY <1>1, <1>3, <2>1
  <2>2. CASE j # i
    BY <1>3, <1>4, <2>2 DEF ItemsAccountedFor
  <2> QED
    BY <2>1, <2>2
<1> QED
  BY <1>5, <1>6 DEF ItemsAccountedFor

(* The steps of a worker keep it undisturbed. *)
LEMMA StepUndisturbed ==
    ASSUME TypeOK, NEW w \in Workers, WorkerStep(w), ~cut[w] => Undisturbed(w)
    PROVE  ~cut'[w] => Undisturbed(w)'
<1>0. cut'[w] = cut[w]
  BY DEF WorkerStep, Start, Leave, SourceEnds, EndRun, Wake, TimerFires, Throw,
         Succeed, Fail, LateFailure, LateSuccess, bounds
<1> SUFFICES ASSUME ~cut[w], Undisturbed(w)
             PROVE  Undisturbed(w)'
  BY <1>0
<1> USE DEF Undisturbed, StreamFollowsRun, ItemsAccountedFor, TypeOK, Failure
<1>1. CASE Start(w)
  <2>1. queue[w] = <<>>
    BY <1>1 DEF Start
  <2>2. Replayed(queue[w]) = {} /\ ~Completes(queue[w])
    BY <2>1, NothingReplayed
  <2>3. answers'[w] = {} /\ subscribed'[w] = TRUE
    BY <1>1, <2>2 DEF Start
  <2> QED
    BY <1>1, <2>1, <2>3 DEF Start
<1>2. CASE Leave(w) \/ Wake(w)
  BY <1>2 DEF Leave, Wake, loop, stream, bounds
<1>3. CASE SourceEnds(w)
  BY <1>3 DEF SourceEnds, loop, bounds
<1>4. CASE EndRun(w)
  BY <1>4 DEF EndRun, AfterRun, loop, stream, bounds
<1>5. CASE TimerFires(w)
  BY <1>5 DEF TimerFires, loop, bounds, Phase
<1>6. CASE Throw(w)
  BY <1>6 DEF Throw, Active, loop
<1>7. ASSUME NEW i \in Items, Succeed(w, i)
      PROVE  Undisturbed(w)'
  <2>1. answers'[w] = answers[w] \cup {[work |-> Failure(w, i), success |-> TRUE]}
    BY <1>7 DEF Succeed
  <2>2. ItemsAccountedFor(w)'
    <3>1. /\ pc[w] = "running"
          /\ todo' = [todo EXCEPT ![w] = @ \ {i}]
          /\ UNCHANGED <<pc, run, given, inFlight>>
      BY <1>7 DEF Succeed, loop
    <3> HIDE DEF TypeOK, ItemsAccountedFor, Failure
    <3> QED
      BY <2>1, <3>1, AnsweringOne DEF Undisturbed
  <2> QED
    BY <1>7, <2>2 DEF Succeed, stream, loop
<1>8. ASSUME NEW i \in Items, Fail(w, i)
      PROVE  Undisturbed(w)'
  <2>1. subscribed[w] /\ queue' = queue
    BY <1>8 DEF Fail, Emit
  <2>2. answers'[w] = answers[w] \cup {[work |-> Failure(w, i), success |-> FALSE]}
    BY <1>8, <2>1 DEF Fail, Emit
  <2>3. ItemsAccountedFor(w)'
    <3>1. /\ pc[w] = "running"
          /\ todo' = [todo EXCEPT ![w] = @ \ {i}]
          /\ UNCHANGED <<pc, run, given, inFlight>>
      BY <1>8 DEF Fail, loop
    <3> HIDE DEF TypeOK, ItemsAccountedFor, Failure
    <3> QED
      BY <2>2, <3>1, AnsweringOne DEF Undisturbed
  <2> QED
    BY <1>8, <2>1, <2>3 DEF Fail, loop
<1>9. ~ \E u \in inFlight[w] : LateFailure(w, u) \/ LateSuccess(w, u)
  OBVIOUS
<1> QED
  BY <1>1, <1>2, <1>3, <1>4, <1>5, <1>6, <1>7, <1>8, <1>9 DEF WorkerStep

(* A poll disturbs the workers whose run it stops, and no others. *)
LEMMA PollUndisturbed ==
    ASSUME TypeOK, NEW inputs, NEW to, NEW left, Poll(inputs, to, left),
           NEW w \in Workers, ~cut[w] => Undisturbed(w)
    PROVE  ~cut'[w] => Undisturbed(w)'
<1> SUFFICES ASSUME ~cut'[w]
             PROVE  Undisturbed(w)'
  OBVIOUS
<1>1. ~cut[w] /\ ~Active(w)
  BY DEF Poll
<1>2. pc'[w] = pc[w] /\ timers'[w] = timers[w]
  BY <1>1 DEF Poll, Active
<1>3. todo[w] = {} /\ left[w] = {} /\ inFlight[w] = {}
  BY <1>1 DEF Poll, Active, Undisturbed, ItemsAccountedFor
<1>4. todo'[w] = {} /\ inFlight'[w] = {} /\ subscribed'[w] = FALSE
  BY <1>3 DEF Poll
<1> QED
  BY <1>1, <1>2, <1>3, <1>4
  DEF Poll, Active, Undisturbed, StreamFollowsRun, ItemsAccountedFor, Failure

LEMMA UndisturbedInit == Init => UndisturbedInv
BY DEF Init, UndisturbedInv, Undisturbed, StreamFollowsRun, ItemsAccountedFor

LEMMA UndisturbedNext == TypeOK /\ UndisturbedInv /\ [Next]_vars => UndisturbedInv'
<1> SUFFICES ASSUME TypeOK, UndisturbedInv, [Next]_vars, NEW v \in Workers
             PROVE  ~cut'[v] => Undisturbed(v)'
  BY DEF UndisturbedInv
<1>0. ~cut[v] => Undisturbed(v)
  BY DEF UndisturbedInv
<1>1. ASSUME NEW w \in Workers, WorkerStep(w)
      PROVE  ~cut'[v] => Undisturbed(v)'
  <2>1. CASE v = w
    BY <1>0, <1>1, <2>1, StepUndisturbed
  <2>2. CASE v # w
    BY <1>0, <1>1, <2>2, OthersUntouched, UntouchedKeeps
  <2> QED
    BY <2>1, <2>2
<1>2. ASSUME NEW inputs, NEW to, NEW left, Poll(inputs, to, left)
      PROVE  ~cut'[v] => Undisturbed(v)'
  BY <1>0, <1>2, PollUndisturbed
<1>3. CASE UNCHANGED vars
  BY <1>0, <1>3, UntouchedKeeps DEF vars, Untouched
<1> QED
  BY <1>1, <1>2, <1>3 DEF Next, WorkerStep

(***************************************************************************)
(* A worker no poll has stopped records, run after run, an answer for each *)
(* of its items: the failed ones come back before the stream is closed.    *)
(***************************************************************************)
THEOREM EveryItemAnswered == Spec => []AnsweredUntilStopped
<1>1. UndisturbedInv => AnsweredUntilStopped
  BY DEF UndisturbedInv, Undisturbed, ItemsAccountedFor, AnsweredUntilStopped,
         RanToTheEnd, AnswersItsItems
<1> QED
  BY <1>1, TypeInit, TypeNext, UndisturbedInit, UndisturbedNext, PTL DEF Spec

(***************************************************************************)
(* A worker no poll has stopped records the answers of the run in progress *)
(* only: the queue of its error stream never has anything to replay.       *)
(***************************************************************************)
THEOREM AnswersAreOwn == Spec => []OwnAnswersUntilStopped
<1>1. UndisturbedInv => OwnAnswersUntilStopped
  BY DEF UndisturbedInv, Undisturbed, ItemsAccountedFor, OwnAnswersUntilStopped
<1> QED
  BY <1>1, TypeInit, TypeNext, UndisturbedInit, UndisturbedNext, PTL DEF Spec

-----------------------------------------------------------------------------
(***************************************************************************)
(* RpcLock: the types of its variables.                                    *)
(***************************************************************************)
LEMMA LockTypeInit == LockInit => LockTypeOK
BY LockAssumption DEF LockInit, LockTypeOK, CallPhase, Outcome

(* What an attempt that is over leaves behind. *)
LEMMA RetryType ==
    ASSUME LockTypeOK, NEW c \in Callers, Retry(c) \/ Return(c)
    PROVE  /\ call' \in [Callers -> CallPhase]
           /\ attempt' \in [Callers -> 0 .. MaxAttempts]
           /\ outcome' \in [Callers -> Outcome]
BY LockAssumption DEF Retry, Return, Goto, LockTypeOK, CallPhase, Outcome

LEMMA WaitType ==
    ASSUME LockTypeOK, NEW c \in Callers, NEW asleep \in CallPhase, NEW next \in CallPhase,
           WaitUntilWeCanCall(c, asleep, next)
    PROVE  LockTypeOK'
BY LockAssumption DEF WaitUntilWeCanCall, Goto, LockTypeOK

LEMMA LockTypeNext == LockTypeOK /\ [LockNext]_lockVars => LockTypeOK'
<1> SUFFICES ASSUME LockTypeOK, [LockNext]_lockVars
             PROVE  LockTypeOK'
  OBVIOUS
<1> USE LockAssumption
<1>1. ASSUME NEW c \in Callers, Request(c)
      PROVE  LockTypeOK'
  BY <1>1 DEF Request, Goto, LockTypeOK, CallPhase
<1>2. ASSUME NEW c \in Callers, CheckBefore(c) \/ CheckHeld(c)
      PROVE  LockTypeOK'
  BY <1>2, WaitType DEF CheckBefore, CheckHeld, CallPhase, UnderLock
<1>3. ASSUME NEW c \in Callers, WakeUp(c)
      PROVE  LockTypeOK'
  BY <1>3 DEF WakeUp, Goto, LockTypeOK, CallPhase, UnderLock
<1>4. ASSUME NEW c \in Callers, Acquire(c)
      PROVE  LockTypeOK'
  BY <1>4 DEF Acquire, Goto, LockTypeOK, CallPhase, UnderLock
<1>5. ASSUME NEW c \in Callers, AcquireFails(c)
      PROVE  LockTypeOK'
  BY <1>5, RetryType DEF AcquireFails, LockTypeOK
<1>6. ASSUME NEW c \in Callers, SetLastCallDate(c)
      PROVE  LockTypeOK'
  BY <1>6 DEF SetLastCallDate, Goto, LockTypeOK, CallPhase, UnderLock
<1>7. ASSUME NEW c \in Callers, Send(c)
      PROVE  LockTypeOK'
  BY <1>7 DEF Send, Goto, LockTypeOK, CallPhase, UnderLock, Outcome
<1>8. ASSUME NEW c \in Callers, NEW how \in Outcome, WorkEnds(c, how)
      PROVE  LockTypeOK'
  BY <1>8 DEF WorkEnds, Goto, LockTypeOK, CallPhase, UnderLock
<1>9. ASSUME NEW c \in Callers, Release(c)
      PROVE  LockTypeOK'
  BY <1>9, RetryType DEF Release, LockTypeOK
<1>10. ASSUME NEW c \in Callers, Crash(c)
       PROVE  LockTypeOK'
  BY <1>10, RetryType DEF Crash, LockTypeOK
<1>11. CASE ExpireInUse \/ ExpireOrphan
  BY <1>11 DEF ExpireInUse, ExpireOrphan, LockTypeOK
<1>12. CASE Tick
  BY <1>12 DEF Tick, Later, LockTypeOK
<1>13. CASE UNCHANGED lockVars
  BY <1>13 DEF lockVars, LockTypeOK
<1> QED
  BY <1>1, <1>2, <1>3, <1>4, <1>5, <1>6, <1>7, <1>8, <1>9, <1>10, <1>11,
     <1>12, <1>13 DEF LockNext, Step

(* Every variable keeps its type: attempts and sleeps stay within bounds. *)
THEOREM LockTypeCorrect == LockSpec => []LockTypeOK
BY LockTypeInit, LockTypeNext, PTL DEF LockSpec

-----------------------------------------------------------------------------
(***************************************************************************)
(* Mutual exclusion: whoever is between the acquisition and the release of *)
(* a lock still has it.  A lock left by a process that ended is nobody's   *)
(* until it expires, and the caller has to acquire it again like others.   *)
(***************************************************************************)
LockHeld ==
    expiries = 0 => \A c \in Callers : call[c] \in UnderLock => holder = c

LEMMA HeldInit == LockInit => LockHeld
BY DEF LockInit, LockHeld, UnderLock

(* The next phase of a call whose attempt or whose life is over. *)
LEMMA OverPhase ==
    ASSUME LockTypeOK, NEW c \in Callers, Retry(c) \/ Return(c)
    PROVE  /\ call'[c] \notin UnderLock
           /\ \A d \in Callers : d # c => call'[d] = call[d] /\ outcome'[d] = outcome[d]
           /\ outcome'[c] \in {outcome[c], "none"}
           /\ Return(c) => outcome'[c] = "none"
BY DEF Retry, Return, Goto, LockTypeOK, UnderLock

(* A lock that expired while it was used is not forgotten. *)
LEMMA ExpiriesGrow ==
    ASSUME LockTypeOK, [LockNext]_lockVars, expiries' = 0
    PROVE  expiries = 0
BY LockAssumption DEF LockNext, Step, Request, CheckBefore, CheckHeld,
   WaitUntilWeCanCall, WakeUp, Acquire, AcquireFails, SetLastCallDate, Send,
   WorkEnds, Release, Crash, ExpireInUse, ExpireOrphan, Tick, lockVars, LockTypeOK

LEMMA HeldNext == LockTypeOK /\ LockHeld /\ [LockNext]_lockVars => LockHeld'
<1> SUFFICES ASSUME LockTypeOK, LockHeld, [LockNext]_lockVars, expiries' = 0,
                    NEW d \in Callers, call'[d] \in UnderLock
             PROVE  holder' = d
  BY DEF LockHeld
<1>0. expiries = 0
  BY ExpiriesGrow
<1>d. call[d] \in UnderLock => holder = d
  BY <1>0 DEF LockHeld
<1>1. ASSUME NEW c \in Callers, Request(c)
      PROVE  holder' = d
  BY <1>1, <1>d DEF Request, Goto, LockTypeOK, UnderLock
<1>2. ASSUME NEW c \in Callers, CheckBefore(c) \/ CheckHeld(c)
      PROVE  holder' = d
  BY <1>2, <1>d DEF CheckBefore, CheckHeld, WaitUntilWeCanCall, Goto, LockTypeOK, UnderLock
<1>3. ASSUME NEW c \in Callers, WakeUp(c)
      PROVE  holder' = d
  BY <1>3, <1>d DEF WakeUp, Goto, LockTypeOK, UnderLock
<1>4. ASSUME NEW c \in Callers, Acquire(c)
      PROVE  holder' = d
  <2>1. CASE d = c
    BY <1>4, <2>1 DEF Acquire
  <2>2. CASE d # c
    BY <1>4, <1>d, <2>2, CallersAssumption DEF Acquire, Goto, LockTypeOK
  <2> QED
    BY <2>1, <2>2
<1>5. ASSUME NEW c \in Callers, AcquireFails(c) \/ Crash(c)
      PROVE  holder' = d
  BY <1>5, <1>d, OverPhase DEF AcquireFails, Crash
<1>6. ASSUME NEW c \in Callers, SetLastCallDate(c)
      PROVE  holder' = d
  BY <1>6, <1>d DEF SetLastCallDate, Goto, LockTypeOK, UnderLock
<1>7. ASSUME NEW c \in Callers, NEW how, Send(c) \/ WorkEnds(c, how)
      PROVE  holder' = d
  BY <1>7, <1>d DEF Send, WorkEnds, Goto, LockTypeOK, UnderLock
<1>8. ASSUME NEW c \in Callers, Release(c)
      PROVE  holder' = d
  <2>1. d # c /\ call[d] \in UnderLock
    BY <1>8, OverPhase DEF Release
  <2>2. holder = d
    BY <1>d, <2>1
  <2> QED
    BY <1>8, <2>1, <2>2 DEF Release
<1>9. CASE ExpireInUse
  BY <1>9, <1>0 DEF ExpireInUse
<1>10. CASE ExpireOrphan
  BY <1>10, <1>d DEF ExpireOrphan, InUse
<1>11. CASE Tick \/ UNCHANGED lockVars
  BY <1>11, <1>d DEF Tick, lockVars
<1> QED
  BY <1>1, <1>2, <1>3, <1>4, <1>5, <1>6, <1>7, <1>8, <1>9, <1>10, <1>11
  DEF LockNext, Step

(* Two callers are never at work together, unless a lock in use expired. *)
THEOREM MutualExclusion == LockSpec => []OneCallAtATime
<1>1. LockHeld => OneCallAtATime
  BY DEF LockHeld, OneCallAtATime, UnderLock
<1> QED
  BY <1>1, LockTypeInit, LockTypeNext, HeldInit, HeldNext, PTL DEF LockSpec

-----------------------------------------------------------------------------
LEMMA AnswerInit == LockInit => AnswerKept
BY DEF LockInit, AnswerKept

LEMMA AnswerNext ==
    LockTypeOK /\ LockHeld /\ AnswerKept /\ [LockNext]_lockVars => AnswerKept'
<1> SUFFICES ASSUME LockTypeOK, LockHeld, AnswerKept, [LockNext]_lockVars,
                    expiries' = 0,
                    NEW d \in Callers, outcome'[d] = "answer"
             PROVE  call'[d] \in {"ended", "release"}
  BY DEF AnswerKept
<1>0. expiries = 0
  BY ExpiriesGrow
<1>d. outcome[d] = "answer" => call[d] \in {"ended", "release"}
  BY <1>0 DEF AnswerKept
<1>1. ASSUME NEW c \in Callers, Request(c) \/ Acquire(c)
      PROVE  call'[d] \in {"ended", "release"}
  BY <1>1, <1>d DEF Request, Acquire, Goto, LockTypeOK
<1>2. ASSUME NEW c \in Callers, CheckBefore(c) \/ CheckHeld(c)
      PROVE  call'[d] \in {"ended", "release"}
  BY <1>2, <1>d DEF CheckBefore, CheckHeld, WaitUntilWeCanCall, Goto, LockTypeOK
<1>3. ASSUME NEW c \in Callers, WakeUp(c)
      PROVE  call'[d] \in {"ended", "release"}
  BY <1>3, <1>d DEF WakeUp, Goto, LockTypeOK
<1>4. ASSUME NEW c \in Callers, AcquireFails(c)
      PROVE  call'[d] \in {"ended", "release"}
  <2>1. d # c
    BY <1>4, <1>d, OverPhase DEF AcquireFails
  <2> QED
    BY <1>4, <1>d, <2>1, OverPhase DEF AcquireFails
<1>5. ASSUME NEW c \in Callers, SetLastCallDate(c)
      PROVE  call'[d] \in {"ended", "release"}
  BY <1>5, <1>d DEF SetLastCallDate, Goto, LockTypeOK
<1>6. ASSUME NEW c \in Callers, NEW how, Send(c) \/ WorkEnds(c, how)
      PROVE  call'[d] \in {"ended", "release"}
  BY <1>6, <1>d DEF Send, WorkEnds, Goto, LockTypeOK
<1>7. ASSUME NEW c \in Callers, Release(c)
      PROVE  call'[d] \in {"ended", "release"}
  <2>1. holder = c
    BY <1>7, <1>0 DEF Release, LockHeld, UnderLock
  <2>2. d # c
    BY <1>7, <2>1, OverPhase DEF Release
  <2> QED
    BY <1>7, <1>d, <2>2, OverPhase DEF Release
<1>8. ASSUME NEW c \in Callers, Crash(c)
      PROVE  call'[d] \in {"ended", "release"}
  BY <1>8, <1>d, OverPhase DEF Crash
<1>9. CASE ExpireInUse \/ ExpireOrphan \/ Tick \/ UNCHANGED lockVars
  BY <1>9, <1>d DEF ExpireInUse, ExpireOrphan, Tick, lockVars
<1> QED
  BY <1>1, <1>2, <1>3, <1>4, <1>5, <1>6, <1>7, <1>8, <1>9 DEF LockNext, Step

(* An answer goes to its caller, unless a lock in use expired. *)
THEOREM AnswersAreReturned == LockSpec => []AnswerKept
BY LockTypeInit, LockTypeNext, HeldInit, HeldNext, AnswerInit, AnswerNext, PTL DEF LockSpec

-----------------------------------------------------------------------------
(***************************************************************************)
(* Spacing: the date in Redis is never older than the last use of the url, *)
(* so whoever looked at it under the lock, or slept after that, finds the  *)
(* url at rest.  Nobody else can use it meanwhile.                         *)
(***************************************************************************)
DateIsFresh ==
    /\ sinceDate <= quiet
    /\ \A c \in Callers : call[c] = "send" => sinceDate = 0

Rested(c) ==
    /\ call[c] \in {"date", "send"} => quiet = Delay
    /\ call[c] = "heldNap" => Delay <= quiet + nap[c]

HolderRested == expiries = 0 => \A c \in Callers : Rested(c)

LEMMA RestInit == LockInit => DateIsFresh /\ HolderRested
BY LockAssumption DEF LockInit, DateIsFresh, HolderRested, Rested

LEMMA FreshNext == LockTypeOK /\ DateIsFresh /\ [LockNext]_lockVars => DateIsFresh'
<1> SUFFICES ASSUME LockTypeOK, DateIsFresh, [LockNext]_lockVars
             PROVE  DateIsFresh'
  OBVIOUS
<1> USE LockAssumption
<1>1. ASSUME NEW c \in Callers, Request(c) \/ Acquire(c) \/ WakeUp(c)
      PROVE  DateIsFresh'
  BY <1>1 DEF Request, Acquire, WakeUp, Goto, LockTypeOK, DateIsFresh
<1>2. ASSUME NEW c \in Callers, CheckBefore(c) \/ CheckHeld(c)
      PROVE  DateIsFresh'
  BY <1>2 DEF CheckBefore, CheckHeld, WaitUntilWeCanCall, Goto, LockTypeOK, DateIsFresh
<1>3. ASSUME NEW c \in Callers, AcquireFails(c) \/ Release(c) \/ Crash(c)
      PROVE  DateIsFresh'
  BY <1>3 DEF AcquireFails, Release, Crash, Retry, Return, Goto, LockTypeOK, DateIsFresh
<1>4. ASSUME NEW c \in Callers, SetLastCallDate(c)
      PROVE  DateIsFresh'
  BY <1>4 DEF SetLastCallDate, Goto, LockTypeOK, DateIsFresh
<1>5. ASSUME NEW c \in Callers, NEW how, Send(c) \/ WorkEnds(c, how)
      PROVE  DateIsFresh'
  BY <1>5 DEF Send, WorkEnds, Goto, LockTypeOK, DateIsFresh
<1>6. CASE Tick
  BY <1>6 DEF Tick, Later, LockTypeOK, DateIsFresh
<1>7. CASE ExpireInUse \/ ExpireOrphan \/ UNCHANGED lockVars
  BY <1>7 DEF ExpireInUse, ExpireOrphan, lockVars, DateIsFresh
<1> QED
  BY <1>1, <1>2, <1>3, <1>4, <1>5, <1>6, <1>7 DEF LockNext, Step

LEMMA RestNext ==
    LockTypeOK /\ LockHeld /\ DateIsFresh /\ HolderRested /\ [LockNext]_lockVars
        => HolderRested'
<1> SUFFICES ASSUME LockTypeOK, LockHeld, DateIsFresh, HolderRested,
                    [LockNext]_lockVars,
                    expiries' = 0, NEW d \in Callers
             PROVE  Rested(d)'
  BY DEF HolderRested
<1> USE LockAssumption
<1>0. expiries = 0
  BY ExpiriesGrow
<1>d. Rested(d) /\ \A c \in Callers : call[c] \in UnderLock => holder = c
  BY <1>0 DEF LockHeld, HolderRested
<1>1. ASSUME NEW c \in Callers, Request(c) \/ Acquire(c)
      PROVE  Rested(d)'
  BY <1>1, <1>d DEF Request, Acquire, Goto, LockTypeOK, Rested
<1>2. ASSUME NEW c \in Callers, CheckBefore(c) \/ CheckHeld(c)
      PROVE  Rested(d)'
  BY <1>2, <1>d DEF CheckBefore, CheckHeld, WaitUntilWeCanCall, Goto, LockTypeOK,
     DateIsFresh, Rested
<1>3. ASSUME NEW c \in Callers, WakeUp(c)
      PROVE  Rested(d)'
  BY <1>3, <1>d DEF WakeUp, Goto, LockTypeOK, Rested
<1>4. ASSUME NEW c \in Callers, AcquireFails(c) \/ Release(c) \/ Crash(c)
      PROVE  Rested(d)'
  BY <1>4, <1>d DEF AcquireFails, Release, Crash, Retry, Return, Goto, LockTypeOK, Rested
<1>5. ASSUME NEW c \in Callers, SetLastCallDate(c) \/ Send(c)
      PROVE  Rested(d)'
  <2>1. CASE d = c
    BY <1>5, <1>d, <2>1 DEF SetLastCallDate, Send, Goto, LockTypeOK, Rested
  <2>2. CASE d # c
    <3>1. call'[d] = call[d] /\ call[c] \in UnderLock
      BY <1>5, <2>2 DEF SetLastCallDate, Send, Goto, LockTypeOK, UnderLock
    <3>2. call[d] \notin UnderLock
      BY <1>d, <2>2, <3>1
    <3> QED
      BY <3>1, <3>2 DEF Rested, UnderLock
  <2> QED
    BY <2>1, <2>2
<1>6. ASSUME NEW c \in Callers, NEW how, WorkEnds(c, how)
      PROVE  Rested(d)'
  BY <1>6, <1>d DEF WorkEnds, Goto, LockTypeOK, Rested
<1>7. CASE Tick
  BY <1>7, <1>d DEF Tick, Later, LockTypeOK, Rested
<1>8. CASE ExpireInUse \/ ExpireOrphan \/ UNCHANGED lockVars
  BY <1>8, <1>d DEF ExpireInUse, ExpireOrphan, lockVars, Rested
<1> QED
  BY <1>1, <1>2, <1>3, <1>4, <1>5, <1>6, <1>7, <1>8 DEF LockNext, Step

(* The url has rested when it is called, unless a lock in use expired. *)
THEOREM Spacing == LockSpec => CallsSpaced
<1>1. HolderRested => (expiries = 0 /\ (\E c \in Callers : Send(c)) => quiet = Delay)
  BY DEF HolderRested, Rested, Send
<1> QED
  BY <1>1, LockTypeInit, LockTypeNext, HeldInit, HeldNext, RestInit, FreshNext,
     RestNext, PTL
  DEF LockSpec, CallsSpaced
=============================================================================
