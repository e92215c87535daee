------------------------------ MODULE RpcLock -------------------------------
(***************************************************************************)
(* callLockProtectedRpc: the calls made to one RPC url, by all the         *)
(* processes of the system and all the pipelines of each.  One call at a   *)
(* time holds a lock in Redis, and calls are minDelayBetweenCalls apart:   *)
(* Redis also keeps the date of the last call.                             *)
(*                                                                         *)
(* The lock expires after two minutes and is not extended.  A call that    *)
(* outlives it goes on without knowing it, until it releases the lock.     *)
(*                                                                         *)
(* Time: a tick is a fraction of the delay.  Steps may be as late as they  *)
(* want, sleeps last as long as they say at least.  Only the call itself   *)
(* follows the date that announces it within a tick.                       *)
(*                                                                         *)
(* Names that ChainRunner has too are prefixed: their proofs are together.  *)
(*                                                                         *)
(* Redis and the redlock library are external.  Not modelled: urls without *)
(* limits, which are called without this lock.                             *)
(***************************************************************************)
EXTENDS Naturals

CONSTANTS
    Callers,        \* calls in progress in all the processes
    NoCaller,       \* nobody has the lock
    Delay,          \* minDelayBetweenCalls, in ticks
    MaxAttempts,    \* numOfAttempts of the backoff
    MaxExpiries     \* bound: locks that expire while they are used

ASSUME CallersAssumption == NoCaller \notin Callers
ASSUME LockAssumption ==
    /\ Delay \in Nat
    /\ MaxAttempts \in Nat \ {0}
    /\ MaxExpiries \in Nat

VARIABLES
    holder,         \* who acquired the lock that is in Redis
    sinceDate,      \* ticks since the last call date in Redis, up to Delay
    call,           \* where the call is
    nap,            \* ticks left to sleep
    attempt,        \* number of attempts, 0 when there is no call
    outcome,        \* how the work of the last attempt ended
    expiries,       \* number of locks that expired while they were used
    quiet           \* history: ticks since a call started or had its end noted

lockVars == <<holder, sinceDate, call, nap, attempt, outcome, expiries, quiet>>

(***************************************************************************)
(* idle    - no call                                                       *)
(* before  - looking at the last call date, without the lock               *)
(* nap     - sleeping without the lock                                     *)
(* acquire - waiting for the lock                                          *)
(* held    - looking at the last call date again                           *)
(* heldNap - sleeping with the lock                                        *)
(* date    - about to set the last call date                               *)
(* send    - the date is set, about to call                                *)
(* working - calling                                                       *)
(* ended   - about to set the last call date again                         *)
(* release - about to release the lock                                     *)
(***************************************************************************)
UnderLock ==
    {"held", "heldNap", "date", "send", "working", "ended", "release"}
CallPhase == {"idle", "before", "nap", "acquire"} \cup UnderLock

Outcome == {"none", "answer", "retryable", "fatal"}

LockTypeOK ==
    /\ holder \in Callers \cup {NoCaller}
    /\ sinceDate \in 0 .. Delay
    /\ call \in [Callers -> CallPhase]
    /\ nap \in [Callers -> 0 .. Delay]
    /\ attempt \in [Callers -> 0 .. MaxAttempts]
    /\ outcome \in [Callers -> Outcome]
    /\ expiries \in 0 .. MaxExpiries
    /\ quiet \in 0 .. Delay

LockInit ==
    /\ holder = NoCaller
    /\ sinceDate = Delay
    /\ call = [c \in Callers |-> "idle"]
    /\ nap = [c \in Callers |-> 0]
    /\ attempt = [c \in Callers |-> 0]
    /\ outcome = [c \in Callers |-> "none"]
    /\ expiries = 0
    /\ quiet = Delay

Goto(c, phase) == call' = [call EXCEPT ![c] = phase]

-----------------------------------------------------------------------------
(* The attempts of a call. *)

Request(c) ==
    /\ call[c] = "idle"
    /\ Goto(c, "before")
    /\ attempt' = [attempt EXCEPT ![c] = 1]
    /\ UNCHANGED <<holder, sinceDate, nap, outcome, expiries, quiet>>

(* The call is over: its caller gets the answer, or the last error. *)
Return(c) ==
    /\ Goto(c, "idle")
    /\ attempt' = [attempt EXCEPT ![c] = 0]
    /\ outcome' = [outcome EXCEPT ![c] = "none"]

(* Mutant: one attempt more than numOfAttempts. *)
RetryOnceMore(c) ==
    IF attempt[c] <= MaxAttempts
    THEN /\ Goto(c, "before")
         /\ attempt' = [attempt EXCEPT ![c] = @ + 1]
         /\ UNCHANGED outcome
    ELSE Return(c)

(* Mutant: the attempts are not counted. *)
RetryForever(c) == Goto(c, "before") /\ UNCHANGED <<attempt, outcome>>

Retry(c) ==
    IF attempt[c] < MaxAttempts
    THEN /\ Goto(c, "before")
         /\ attempt' = [attempt EXCEPT ![c] = @ + 1]
         /\ UNCHANGED outcome
    ELSE Return(c)

(* waitUntilWeCanCallRPCAgain: the whole delay when the last call is recent. *)
WaitUntilWeCanCall(c, asleep, next) ==
    /\ IF sinceDate < Delay
       THEN /\ Goto(c, asleep)
            /\ nap' = [nap EXCEPT ![c] = Delay]
       ELSE Goto(c, next) /\ UNCHANGED nap
    /\ UNCHANGED <<holder, sinceDate, attempt, outcome, expiries, quiet>>

WakeUp(c) ==
    /\ nap[c] = 0
    /\ \/ call[c] = "nap" /\ Goto(c, "acquire")
       \/ call[c] = "heldNap" /\ Goto(c, "date")
    /\ UNCHANGED <<holder, sinceDate, nap, attempt, outcome, expiries, quiet>>

CheckBefore(c) ==
    /\ call[c] = "before"
    /\ WaitUntilWeCanCall(c, "nap", "acquire")

(* Mutant: every process has a lock of its own. *)
AcquireOwn(c) ==
    /\ call[c] = "acquire"
    /\ holder' = c
    /\ Goto(c, "held")
    /\ UNCHANGED <<sinceDate, nap, attempt, outcome, expiries, quiet>>

Acquire(c) ==
    /\ call[c] = "acquire"
    /\ holder = NoCaller
    /\ holder' = c
    /\ Goto(c, "held")
    /\ UNCHANGED <<sinceDate, nap, attempt, outcome, expiries, quiet>>

(* redlock gives up after retryCount tries. *)
AcquireFails(c) ==
    /\ call[c] = "acquire"
    /\ holder # NoCaller
    /\ Retry(c)
    /\ UNCHANGED <<holder, sinceDate, nap, expiries, quiet>>

-----------------------------------------------------------------------------
(* Under the lock: "now, we are the only one running this code". *)

(* Mutant: the date is only checked before the lock is acquired. *)
NoCheckHeld(c) ==
    /\ call[c] = "held"
    /\ Goto(c, "date")
    /\ UNCHANGED <<holder, sinceDate, nap, attempt, outcome, expiries, quiet>>

CheckHeld(c) ==
    /\ call[c] = "held"
    /\ WaitUntilWeCanCall(c, "heldNap", "date")

(* The last call date is set before the call, and again when it ended. *)
SetLastCallDate(c) ==
    /\ \/ call[c] = "date" /\ Goto(c, "send") /\ UNCHANGED quiet
       \/ call[c] = "ended" /\ Goto(c, "release") /\ quiet' = 0
    /\ sinceDate' = 0
    /\ UNCHANGED <<holder, nap, attempt, outcome, expiries>>

Send(c) ==
    /\ call[c] = "send"
    /\ Goto(c, "working")
    /\ outcome' = [outcome EXCEPT ![c] = "none"]
    /\ quiet' = 0
    /\ UNCHANGED <<holder, sinceDate, nap, attempt, expiries>>

(* Archive node needed and programming errors are not retried. *)
WorkEnds(c, how) ==
    /\ call[c] = "working"
    /\ Goto(c, "ended")
    /\ outcome' = [outcome EXCEPT ![c] = how]
    /\ UNCHANGED <<holder, sinceDate, nap, attempt, expiries, quiet>>

(* Mutant: what the work returned is not. *)
ReleaseAndRetry(c) ==
    /\ call[c] = "release"
    /\ holder' = IF holder = c THEN NoCaller ELSE holder
    /\ Retry(c)
    /\ UNCHANGED <<sinceDate, nap, expiries, quiet>>

(***************************************************************************)
(* Releasing a lock that expired throws an error of its own, whatever the  *)
(* work returned or threw, and this one is retried.                        *)
(***************************************************************************)
Release(c) ==
    /\ call[c] = "release"
    /\ holder' = IF holder = c THEN NoCaller ELSE holder
    /\ IF holder = c /\ outcome[c] # "retryable" THEN Return(c) ELSE Retry(c)
    /\ UNCHANGED <<sinceDate, nap, expiries, quiet>>

-----------------------------------------------------------------------------
(* The end of a lock, and of a process. *)

InUse == \E c \in Callers : holder = c /\ call[c] \in UnderLock

(* The lock of a call that takes too long expires. *)
ExpireInUse ==
    /\ InUse
    /\ expiries < MaxExpiries
    /\ expiries' = expiries + 1
    /\ holder' = NoCaller
    /\ UNCHANGED <<sinceDate, call, nap, attempt, outcome, quiet>>

(* So does the lock of a process that ended. *)
ExpireOrphan ==
    /\ holder # NoCaller /\ ~InUse
    /\ holder' = NoCaller
    /\ UNCHANGED <<sinceDate, call, nap, attempt, outcome, expiries, quiet>>

Crash(c) ==
    /\ call[c] # "idle"
    /\ Return(c)
    /\ nap' = [nap EXCEPT ![c] = 0]
    /\ UNCHANGED <<holder, sinceDate, expiries, quiet>>

Later(ticks) == IF ticks < Delay THEN ticks + 1 ELSE Delay

Tick ==
    /\ \A c \in Callers : call[c] # "send"
    /\ sinceDate' = Later(sinceDate)
    /\ quiet' = Later(quiet)
    /\ nap' = [c \in Callers |-> IF nap[c] > 0 THEN nap[c] - 1 ELSE 0]
    /\ UNCHANGED <<holder, call, attempt, outcome, expiries>>

-----------------------------------------------------------------------------
Step(c) ==
    \/ CheckBefore(c) \/ WakeUp(c) \/ Acquire(c) \/ AcquireFails(c)
    \/ CheckHeld(c) \/ SetLastCallDate(c) \/ Send(c)
    \/ \E how \in Outcome \ {"none"} : WorkEnds(c, how)
    \/ Release(c)

LockNext ==
    \/ \E c \in Callers : Request(c) \/ Step(c) \/ Crash(c)
    \/ ExpireInUse \/ ExpireOrphan \/ Tick

LockSpec == LockInit /\ [][LockNext]_lockVars

(***************************************************************************)
(* Time passes and a live process goes on: Redis answers, a call to the    *)
(* url has a timeout, and waiting for the lock has an end.                 *)
(***************************************************************************)
LockFairness == SF_lockVars(Tick) /\ \A c \in Callers : WF_lockVars(Step(c))

FairLockSpec == LockSpec /\ LockFairness

-----------------------------------------------------------------------------
(***************************************************************************)
(* "We are the only one running this code": two callers are never at work  *)
(* together, unless a lock expired while it was used.                      *)
(***************************************************************************)
OneCallAtATime ==
    expiries = 0 =>
        \A c, d \in Callers : call[c] = "working" /\ call[d] = "working" => c = d

(***************************************************************************)
(* The url is called when it has been at rest for minDelayBetweenCalls at  *)
(* least, counted from the end of the last call, or from its start when    *)
(* the process did not live to note its end, unless a lock expired while   *)
(* it was used.                                                            *)
(***************************************************************************)
CallsSpaced ==
    [][expiries = 0 /\ (\E c \in Callers : Send(c)) => quiet = Delay]_lockVars

(***************************************************************************)
(* A call that was answered is not made again: as long as no lock expires  *)
(* while it is used, its answer goes to the caller.                        *)
(***************************************************************************)
AnswerKept ==
    expiries = 0 =>
        \A c \in Callers :
            outcome[c] = "answer" => call[c] \in {"ended", "release"}

(* Every call comes back, with or without an answer, expired lock or not. *)
CallsEnd == \A c \in Callers : call[c] # "idle" ~> call[c] = "idle"
=============================================================================
