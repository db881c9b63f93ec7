--------------------------- MODULE WithRetryProofs ---------------------------
(***************************************************************************)
(* Proofs about module WithRetry, for any number of calls and any options. *)
(* The provers know nothing of the power the delays are made of; the bound *)
(* of a delay follows from its clamping alone, whatever the power is.      *)
(***************************************************************************)
EXTENDS WithRetry, TLAPS

(* Where a call stands determines how often fn and onRetry were called.    *)
LoopInv ==
    \A c \in Calls :
        /\ pc[c] = "idle" => attempt[c] = 0 /\ calls[c] = 0 /\ notified[c] = 0
        /\ pc[c] \in {"calling", "accepted", "sleeping", "awake"} =>
              ValidRetries(c) /\ attempt[c] <= Retries[c] /\ calls[c] = attempt[c] + 1
        /\ pc[c] \in {"calling", "accepted"} => notified[c] = attempt[c]
        /\ pc[c] = "accepted" => attempt[c] < Retries[c]
        /\ pc[c] \in {"sleeping", "awake"} =>
              attempt[c] < Retries[c] /\ notified[c] = attempt[c] + 1
        /\ pc[c] # "settled" <=> outcome[c] = "pending"

(* The inductive invariant. Type correctness needs the listener count: a   *)
(* timer that fires may remove a listener only because there is one.       *)
IInv ==
    /\ TypeOK
    /\ LoopInv
    /\ AtMostRetriesPlusOne
    /\ OnRetryAnnouncesEachRetry
    /\ NoListenerLeak

LEMMA RetriesType == \A c \in Calls : ValidRetries(c) => Retries[c] \in Nat
BY WithRetryAssumption DEF RetryOptions, ValidRetries

LEMMA InitIInv == Init => IInv
<1> SUFFICES ASSUME Init
             PROVE  IInv
  OBVIOUS
<1>1. TypeOK
  BY DEF Init, TypeOK
<1>2. LoopInv
  BY DEF Init, LoopInv
<1>3. AtMostRetriesPlusOne
  <2>1. ASSUME NEW c \in Calls, ValidRetries(c)
        PROVE  0 <= Retries[c] + 1
    BY <2>1, RetriesType
  <2> QED
    BY <2>1 DEF Init, AtMostRetriesPlusOne
<1>4. OnRetryAnnouncesEachRetry
  BY DEF Init, OnRetryAnnouncesEachRetry
<1>5. NoListenerLeak
  BY DEF Init, NoListenerLeak
<1> QED
  BY <1>1, <1>2, <1>3, <1>4, <1>5 DEF IInv

(* One turn of the loop, first or later, keeps the invariant.              *)
LEMMA AttemptStep ==
    ASSUME IInv, NEW c \in Calls, NEW n \in Nat,
           ValidRetries(c), n <= Retries[c], calls[c] = n, notified[c] = n,
           pc[c] \in {"idle", "awake"},
           Attempt(c, n), UNCHANGED <<notified, listeners, aborted>>
    PROVE  IInv'
<1> USE RetriesType
<1>1. CASE Aborted(c)
  BY <1>1 DEF Attempt, Settle, IInv, TypeOK, LoopInv, AtMostRetriesPlusOne,
     OnRetryAnnouncesEachRetry, NoListenerLeak, Aborted, ValidRetries
<1>2. CASE ~Aborted(c)
  <2> USE DEF Attempt, IInv
  <2>1. TypeOK' /\ LoopInv'
    BY <1>2 DEF TypeOK, LoopInv, ValidRetries
  <2>2. AtMostRetriesPlusOne' /\ OnRetryAnnouncesEachRetry'
    BY <1>2 DEF TypeOK, LoopInv, AtMostRetriesPlusOne, OnRetryAnnouncesEachRetry, ValidRetries
  <2>3. NoListenerLeak'
    BY <1>2 DEF TypeOK, NoListenerLeak
  <2> QED
    BY <2>1, <2>2, <2>3
<1> QED
  BY <1>1, <1>2

LEMMA NextIInv == IInv /\ [Next]_vars => IInv'
<1> SUFFICES ASSUME IInv, [Next]_vars
             PROVE  IInv'
  OBVIOUS
<1> USE RetriesType
<1> USE DEF IInv, TypeOK, LoopInv, AtMostRetriesPlusOne,
            OnRetryAnnouncesEachRetry, NoListenerLeak, ValidRetries
<1>1. CASE Abort
  BY <1>1 DEF Abort
<1>2. ASSUME NEW c \in Calls, Call(c)
      PROVE  IInv'
  <2>1. CASE ValidRetries(c)
    BY <1>2, <2>1, AttemptStep DEF Call
  <2>2. CASE ~ValidRetries(c)
    BY <1>2, <2>2 DEF Call, Settle
  <2> QED
    BY <2>1, <2>2
<1>3. ASSUME NEW c \in Calls, FnResolves(c)
      PROVE  IInv'
  BY <1>3 DEF FnResolves, Settle
<1>4. ASSUME NEW c \in Calls, GiveUpAborted(c)
      PROVE  IInv'
  BY <1>4 DEF GiveUpAborted, Settle
<1>5. ASSUME NEW c \in Calls, GiveUpFailed(c)
      PROVE  IInv'
  BY <1>5 DEF GiveUpFailed, Settle
<1>6. ASSUME NEW c \in Calls, ShouldRetry(c)
      PROVE  IInv'
  <2>1. TypeOK'
    <3>1. aborted' \in BOOLEAN
      BY <1>6, Zenon DEF ShouldRetry, MayAbort
    <3> QED
      BY <1>6, <3>1 DEF ShouldRetry, Settle
  <2>2. LoopInv'
    BY <1>6 DEF ShouldRetry, Settle, IsLast
  <2>3. AtMostRetriesPlusOne' /\ OnRetryAnnouncesEachRetry'
    BY <1>6 DEF ShouldRetry, Settle
  <2>4. NoListenerLeak'
    BY <1>6 DEF ShouldRetry, MayAbort, Settle
  <2> QED
    BY <2>1, <2>2, <2>3, <2>4
<1>7. ASSUME NEW c \in Calls, OnRetry(c)
      PROVE  IInv'
  <2>1. TypeOK'
    <3>1. attempt[c] + 1 \in Nat /\ listeners[c] + 1 \in Nat
      OBVIOUS
    <3>2. aborted' \in BOOLEAN
      BY <1>7, Zenon DEF OnRetry, MayAbort
    <3>3. notified' \in [Calls -> Nat]
      BY <1>7, <3>1 DEF OnRetry, Announced
    <3>4. listeners' \in [Calls -> Nat]
      BY <1>7, <3>1 DEF OnRetry
    <3> QED
      BY <1>7, <3>2, <3>3, <3>4 DEF OnRetry, Settle
  <2>2. LoopInv'
    BY <1>7 DEF OnRetry, Settle, Announced
  <2>3. AtMostRetriesPlusOne' /\ OnRetryAnnouncesEachRetry'
    BY <1>7 DEF OnRetry, Settle, Announced
  <2>4. NoListenerLeak'
    BY <1>7 DEF OnRetry, MayAbort, Settle
  <2> QED
    BY <2>1, <2>2, <2>3, <2>4
<1>8. ASSUME NEW c \in Calls, TimerFires(c)
      PROVE  IInv'
  BY <1>8 DEF TimerFires, Aborted
<1>9. ASSUME NEW c \in Calls, Wake(c)
      PROVE  IInv'
  BY <1>9, AttemptStep DEF Wake
<1>10. ASSUME NEW c \in Calls, Interrupt(c)
       PROVE  IInv'
  BY <1>10 DEF Interrupt, Settle, Aborted
<1>11. CASE UNCHANGED vars
  BY <1>11 DEF vars
<1> QED
  BY <1>1, <1>2, <1>3, <1>4, <1>5, <1>6, <1>7, <1>8, <1>9, <1>10, <1>11 DEF Next

LEMMA Invariance == Spec => []IInv
BY InitIInv, NextIInv, PTL DEF Spec

(* The types, and that no listener is removed twice.                       *)
THEOREM TypeCorrect == Spec => []TypeOK
BY Invariance, PTL DEF IInv

(* fn runs at most retries + 1 times, never with invalid retries.          *)
THEOREM CallsBounded == Spec => []AtMostRetriesPlusOne
BY Invariance, PTL DEF IInv

(* onRetry is told of the retries that are made, in order, and of at most  *)
(* one more, in a call that an abort or a callback's exception ended.      *)
THEOREM AnnouncementsCorrect == Spec => []OnRetryAnnouncesEachRetry
BY Invariance, PTL DEF IInv

(* A signal carries no listener of a backoff that is over.                 *)
THEOREM NoLeak == Spec => []NoListenerLeak
BY Invariance, PTL DEF IInv

(* After the abort fn is not called, and onRetry only where shouldRetry    *)
(* has just accepted the error.                                            *)
THEOREM AbortFinal == Spec => NoAttemptAfterAbort
<1> DEFINE Kept(c) == /\ calls'[c] = calls[c]
                      /\ pc[c] # "accepted" => notified'[c] = notified[c]
<1>1. ASSUME IInv, [Next]_vars, NEW c \in Calls, Aborted(c)
      PROVE  Kept(c)
  <2>1. ASSUME NEW d \in Calls, OnRetry(d)
        PROVE  Kept(c)
    BY <1>1, <2>1 DEF OnRetry, IInv, TypeOK
  <2>2. ASSUME NEW d \in Calls, Call(d) \/ Wake(d)
        PROVE  Kept(c)
    BY <1>1, <2>2 DEF Call, Wake, Attempt, IInv, TypeOK
  <2> QED
    BY <1>1, <2>1, <2>2 DEF Next, Abort, FnResolves, GiveUpAborted, GiveUpFailed,
       ShouldRetry, TimerFires, Interrupt, vars
<1>2. IInv /\ [Next]_vars => [\A c \in Calls : Aborted(c) => Kept(c)]_vars
  BY <1>1
<1> QED
  BY <1>2, Invariance, PTL DEF Spec, NoAttemptAfterAbort

(* A backoff is never longer than maxDelayMs, and never negative.          *)
LEMMA DelaysClamped == \A n : Delays(n) \subseteq 0..MaxDelayMs
<1> SUFFICES ASSUME NEW n, NEW d \in Jittered(n)
             PROVE  AtMost(MaxDelayMs, AtLeast(0, d)) \in 0..MaxDelayMs
  BY DEF Delays
<1>1. d \in Int
  BY DEF Jittered
<1> QED
  BY <1>1, WithRetryAssumption DEF RetryOptions, AtMost, AtLeast

THEOREM DelaysCorrect == Spec => []DelayBounded
<1> DEFINE DInv == delay \in [Calls -> 0..MaxDelayMs]
<1>1. Init => DInv
  BY WithRetryAssumption DEF Init, RetryOptions
<1>2. DInv /\ [Next]_vars => DInv'
  <2> SUFFICES ASSUME DInv, [Next]_vars
               PROVE  DInv'
    OBVIOUS
  <2>1. ASSUME NEW c \in Calls, OnRetry(c)
        PROVE  DInv'
    <3>1. CASE UNCHANGED delay
      BY <3>1
    <3>2. CASE \E d \in Delays(attempt[c]) : delay' = [delay EXCEPT ![c] = d]
      BY <3>2, DelaysClamped
    <3> QED
      BY <2>1, <3>1, <3>2 DEF OnRetry
  <2> QED
    BY <2>1 DEF Next, vars, Abort, Call, FnResolves, GiveUpAborted, GiveUpFailed,
       ShouldRetry, TimerFires, Wake, Interrupt
<1>3. DInv => DelayBounded
  BY DEF DelayBounded
<1> QED
  BY <1>1, <1>2, <1>3, PTL DEF Spec
=============================================================================
