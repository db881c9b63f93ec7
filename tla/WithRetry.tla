------------------------------ MODULE WithRetry ------------------------------
(***************************************************************************)
(* packages/toolkit, async/retry.ts: withRetry(fn, options), several calls *)
(* of it sharing one AbortSignal. A step is one synchronous stretch of the *)
(* program: from the call to the first fn(), from the settlement of fn()   *)
(* to the next await, a timer callback, the loop's next turn. The abort    *)
(* event may come between any two of them, or from inside the caller's     *)
(* shouldRetry and onRetry callbacks, which share one stretch.             *)
(***************************************************************************)
EXTENDS Integers

CONSTANTS Calls,         \* the calls of withRetry
          NotAnInteger,  \* a `retries` that fails Number.isInteger
          Retries,       \* [Calls -> Int or NotAnInteger] options.retries
          HasSignal,     \* [Calls -> BOOLEAN] is the shared signal passed
          MinDelayMs,    \* options.minDelayMs
          MaxDelayMs,    \* options.maxDelayMs
          Factor,        \* options.factor, a whole number
          JitterPercent  \* options.jitter in percent

(* Any number passes for `retries`; the delays are shared by the calls.    *)
RetryOptions ==
    /\ Retries \in [Calls -> Int \cup {NotAnInteger}]
    /\ HasSignal \in [Calls -> BOOLEAN]
    /\ MinDelayMs \in Nat /\ MaxDelayMs \in Nat
    /\ Factor \in Nat /\ JitterPercent \in Nat

ASSUME WithRetryAssumption ==
    /\ NotAnInteger \notin Int
    /\ RetryOptions

VARIABLES pc,         \* "idle", "calling" (awaiting fn), "accepted" (shouldRetry
                      \*   returned true), "sleeping" (awaiting the backoff),
                      \*   "awake" (backoff over), "settled"
          attempt,    \* the loop variable
          calls,      \* history: how often fn was invoked
          notified,   \* history: the last attempt number given to onRetry
          delay,      \* delayMs of the latest backoff
          listeners,  \* abort listeners the call has on the signal
          aborted,    \* signal.aborted
          outcome     \* "pending", "value", "lastError", "reason",
                      \*   "callbackError", "typeError"

vars == <<pc, attempt, calls, notified, delay, listeners, aborted, outcome>>

ValidRetries(c) == Retries[c] # NotAnInteger /\ Retries[c] >= 0
Aborted(c) == HasSignal[c] /\ aborted

-----------------------------------------------------------------------------
(* The backoff before retry n + 1: the exponential base, spread by the     *)
(* jitter, rounded (Math.round rounds halves up) and clamped. Percentages  *)
(* stand for Math.random(), so a delay is any value between the extremes.  *)
AtMost(x, y) == IF x <= y THEN x ELSE y
AtLeast(x, y) == IF x >= y THEN x ELSE y
Round(percent) == (2 * percent + 100) \div 200
Base(n) == AtMost(MinDelayMs * Factor^n, MaxDelayMs)

Jittered(n) ==
    Round(Base(n) * (100 - JitterPercent))..Round(Base(n) * (100 + JitterPercent))

Delays_ClampedBeforeJitter(n) == {AtLeast(0, d) : d \in Jittered(n)}
Delays(n) == {AtMost(MaxDelayMs, AtLeast(0, d)) : d \in Jittered(n)}

-----------------------------------------------------------------------------
Init ==
    /\ pc = [c \in Calls |-> "idle"]
    /\ attempt = [c \in Calls |-> 0]
    /\ calls = [c \in Calls |-> 0]
    /\ notified = [c \in Calls |-> 0]
    /\ delay = [c \in Calls |-> 0]
    /\ listeners = [c \in Calls |-> 0]
    /\ aborted = FALSE
    /\ outcome = [c \in Calls |-> "pending"]

Settle(c, o) ==
    /\ pc' = [pc EXCEPT ![c] = "settled"]
    /\ outcome' = [outcome EXCEPT ![c] = o]

(* The loop's next turn: no attempt is made once the signal has aborted.   *)
Attempt_WithoutAbortCheck(c, n) ==
    /\ pc' = [pc EXCEPT ![c] = "calling"]
    /\ attempt' = [attempt EXCEPT ![c] = n]
    /\ calls' = [calls EXCEPT ![c] = @ + 1]
    /\ UNCHANGED outcome
Attempt(c, n) ==
    IF Aborted(c)
    THEN Settle(c, "reason") /\ UNCHANGED <<attempt, calls>>
    ELSE /\ pc' = [pc EXCEPT ![c] = "calling"]
         /\ attempt' = [attempt EXCEPT ![c] = n]
         /\ calls' = [calls EXCEPT ![c] = @ + 1]
         /\ UNCHANGED outcome

Call(c) ==
    /\ pc[c] = "idle"
    /\ IF ValidRetries(c)
       THEN Attempt(c, 0)
       ELSE Settle(c, "typeError") /\ UNCHANGED <<attempt, calls>>
    /\ UNCHANGED <<notified, delay, listeners, aborted>>

FnResolves(c) ==
    /\ pc[c] = "calling"
    /\ Settle(c, "value")
    /\ UNCHANGED <<attempt, calls, notified, delay, listeners, aborted>>

(* `if (attempt === retries || !shouldRetry(error)) break;`                *)
IsLast_OffByOne(c) == attempt[c] > Retries[c]
IsLast(c) == attempt[c] = Retries[c]

(* The attempt number given to onRetry, 1-based.                           *)
Announced_ZeroBased(c) == attempt[c]
Announced(c) == attempt[c] + 1

(* fn() rejected and the signal aborted meanwhile: no onRetry for a retry  *)
(* that cannot happen.                                                     *)
GiveUpAborted(c) ==
    /\ pc[c] = "calling"
    /\ Aborted(c)
    /\ Settle(c, "reason")
    /\ UNCHANGED <<attempt, calls, notified, delay, listeners, aborted>>

(* fn() rejected for the last time.                                        *)
GiveUpFailed(c) ==
    /\ pc[c] = "calling"
    /\ ~Aborted(c)
    /\ IsLast(c)
    /\ Settle(c, "lastError")
    /\ UNCHANGED <<attempt, calls, notified, delay, listeners, aborted>>

(* A callback may abort the signal, a call's own or one it was not given.  *)
MayAbort == UNCHANGED aborted \/ aborted' = TRUE

(* fn() rejected and attempts are left: the shouldRetry callback accepts   *)
(* the error, refuses it or throws.                                        *)
ShouldRetry(c) ==
    /\ pc[c] = "calling"
    /\ ~Aborted(c)
    /\ ~IsLast(c)
    /\ MayAbort
    /\ \/ pc' = [pc EXCEPT ![c] = "accepted"] /\ UNCHANGED outcome
       \/ \E o \in {"lastError", "callbackError"} : Settle(c, o)
    /\ UNCHANGED <<attempt, calls, notified, delay, listeners>>

(* Next in the same stretch onRetry is told, also if shouldRetry has just  *)
(* aborted the signal: nobody looks at it in between. onRetry may throw    *)
(* itself. Then the delay is computed and sleep entered, which rejects     *)
(* before it sets a timer if the signal is aborted.                        *)
OnRetry(c) ==
    /\ pc[c] = "accepted"
    /\ notified' = [notified EXCEPT ![c] = Announced(c)]
    /\ MayAbort
    /\ \/ Settle(c, "callbackError") /\ UNCHANGED <<delay, listeners>>
       \/ /\ HasSignal[c] /\ aborted'
          /\ Settle(c, "reason") /\ UNCHANGED <<delay, listeners>>
       \/ /\ ~(HasSignal[c] /\ aborted')
          /\ pc' = [pc EXCEPT ![c] = "sleeping"]
          /\ \E d \in Delays(attempt[c]) : delay' = [delay EXCEPT ![c] = d]
          /\ listeners' = [listeners EXCEPT ![c] = IF HasSignal[c] THEN @ + 1 ELSE @]
          /\ UNCHANGED outcome
    /\ UNCHANGED <<attempt, calls>>

(* The backoff's timer: it takes its abort listener with it.               *)
TimerFires_KeepsListener(c) ==
    /\ pc[c] = "sleeping"
    /\ ~Aborted(c)
    /\ pc' = [pc EXCEPT ![c] = "awake"]
    /\ UNCHANGED <<attempt, calls, notified, delay, listeners, aborted, outcome>>
TimerFires_RemovesUnregistered(c) ==
    /\ pc[c] = "sleeping"
    /\ ~Aborted(c)
    /\ pc' = [pc EXCEPT ![c] = "awake"]
    /\ listeners' = [listeners EXCEPT ![c] = @ - 1]
    /\ UNCHANGED <<attempt, calls, notified, delay, aborted, outcome>>
TimerFires(c) ==
    /\ pc[c] = "sleeping"
    /\ ~Aborted(c)    \* the abort listener has cleared the timer otherwise
    /\ pc' = [pc EXCEPT ![c] = "awake"]
    /\ listeners' = [listeners EXCEPT ![c] = IF HasSignal[c] THEN @ - 1 ELSE @]
    /\ UNCHANGED <<attempt, calls, notified, delay, aborted, outcome>>

(* After the timer, the loop's next turn.                                  *)
Wake(c) ==
    /\ pc[c] = "awake"
    /\ Attempt(c, attempt[c] + 1)
    /\ UNCHANGED <<notified, delay, listeners, aborted>>

(* The abort listener rejected the backoff's promise; it clears the timer. *)
Interrupt_WithoutReject(c) == pc[c] = "sleeping" /\ Aborted(c) /\ UNCHANGED vars
Interrupt(c) ==
    /\ pc[c] = "sleeping"
    /\ Aborted(c)
    /\ Settle(c, "reason")
    /\ UNCHANGED <<attempt, calls, notified, delay, listeners, aborted>>

(* The owner of the signal aborts it.                                      *)
Abort ==
    /\ ~aborted
    /\ aborted' = TRUE
    /\ UNCHANGED <<pc, attempt, calls, notified, delay, listeners, outcome>>

(* Nothing runs between shouldRetry and the onRetry that follows it: the   *)
(* two are steps of their own only to tell what happens between them.      *)
Undisturbed == \A c \in Calls : pc[c] # "accepted"

Next ==
    \/ \E c \in Calls : OnRetry(c)
    \/ /\ Undisturbed
       /\ \/ Abort
          \/ \E c \in Calls :
                \/ Call(c) \/ FnResolves(c)
                \/ GiveUpAborted(c) \/ GiveUpFailed(c) \/ ShouldRetry(c)
                \/ TimerFires(c) \/ Wake(c) \/ Interrupt(c)

(* Timers fire, continuations run and a stretch that has begun goes on.    *)
(* That fn settles is the caller's business: it is assumed only where a    *)
(* property says so.                                                       *)
FnSettles(c) ==
    FnResolves(c) \/ GiveUpAborted(c) \/ GiveUpFailed(c) \/ ShouldRetry(c)
Fairness ==
    \A c \in Calls :
        /\ WF_vars(OnRetry(c)) /\ WF_vars(TimerFires(c))
        /\ WF_vars(Wake(c)) /\ WF_vars(Interrupt(c))
FnFairness == \A c \in Calls : WF_vars(FnSettles(c))

Spec == Init /\ [][Next]_vars
LiveSpec == Spec /\ Fairness /\ FnFairness

-----------------------------------------------------------------------------
(* Properties *)

(* The type invariant: in particular no listener is removed that was never *)
(* added. The delay has an invariant of its own.                           *)
TypeOK ==
    /\ pc \in [Calls -> {"idle", "calling", "accepted", "sleeping", "awake", "settled"}]
    /\ attempt \in [Calls -> Nat]
    /\ calls \in [Calls -> Nat]
    /\ notified \in [Calls -> Nat]
    /\ listeners \in [Calls -> Nat]
    /\ aborted \in BOOLEAN
    /\ outcome \in [Calls -> 
          {"pending", "value", "lastError", "reason", "callbackError", "typeError"}]

(* "Hard upper bound for a single backoff delay in milliseconds, enforced  *)
(* after jitter".                                                          *)
DelayBounded == \A c \in Calls : delay[c] \in 0..MaxDelayMs

(* "The operation is invoked at most retries + 1 times", and never when    *)
(* `retries` is rejected.                                                  *)
AtMostRetriesPlusOne ==
    \A c \in Calls :
        IF ValidRetries(c) THEN calls[c] <= Retries[c] + 1 ELSE calls[c] = 0

(* onRetry is told of each retry before it is made, with its number, and   *)
(* of at most one that is not: while fn runs, the last number told is that *)
(* of the running retry, and a call that ends with fn's value or its last  *)
(* error has made every retry it told of. Only one that ends with the      *)
(* signal's reason or with a callback's exception may have told of a next. *)
OnRetryAnnouncesEachRetry ==
    \A c \in Calls :
        /\ notified[c] \in {calls[c] - 1, calls[c]}
        /\ pc[c] \in {"sleeping", "awake"} => notified[c] = calls[c]
        /\ pc[c] \in {"calling", "accepted"} \/ outcome[c] \in {"value", "lastError"} =>
              notified[c] + 1 = calls[c]

(* "a pending backoff is interrupted and no further attempts are made":    *)
(* once the signal has aborted, no call that was given it invokes fn, and  *)
(* none tells onRetry of a retry either, unless the abort came from inside *)
(* the shouldRetry that has just accepted this retry.                      *)
NoAttemptAfterAbort ==
    [][\A c \in Calls : Aborted(c) =>
          /\ calls'[c] = calls[c]
          /\ pc[c] # "accepted" => notified'[c] = notified[c]]_vars

(* "a long-lived signal does not accumulate listeners": as long as it has  *)
(* not aborted, it carries one listener for each call in a backoff.        *)
NoListenerLeak ==
    ~aborted => \A c \in Calls :
        listeners[c] = IF pc[c] = "sleeping" /\ HasSignal[c] THEN 1 ELSE 0

(* A call settles if fn always does: the loop is finite and no backoff,    *)
(* aborted or not, is waited for forever.                                  *)
CallsSettle == \A c \in Calls : pc[c] = "calling" ~> pc[c] = "settled"
=============================================================================
