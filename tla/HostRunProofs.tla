---------------------------- MODULE HostRunProofs ----------------------------
(***************************************************************************)
(* Proofs about module HostRun, for any calls, nested in any way, and any  *)
(* number of inputs.                                                       *)
(***************************************************************************)
EXTENDS HostRun, TLAPS

Known(c, i) == run[c][i] \in {"running", "succeeded", "failed"}

(* What a call has seen of its runs is true of them, and its values are    *)
(* those of the promises seen fulfilled so far.                            *)
Seen(c) ==
    /\ phase[c] = "idle" => Inputs(c) = {}
    /\ \A i \in Inputs(c) :
          /\ ref[c][i] = IF Known(c, i) THEN i ELSE Unset
          /\ promise[c][i] = "fulfilled" => Fulfillable(c, i)
          /\ promise[c][i] = "rejected" => Rejectable(c, i) /\ phase[c] = "rejected"
          /\ phase[c] = "resolved" => promise[c][i] = "fulfilled"
          /\ phase[c] # "rejected" =>
                values[c][i] = IF promise[c][i] = "fulfilled" THEN i ELSE Unset
    /\ phase[c] = "rejected" =>
          values[c][1] \in Inputs(c) /\ promise[c][values[c][1]] = "rejected"
SeenInv == \A c \in Calls : Seen(c)

(* The variables are functions of the calls; TypeOK types their values.    *)
Tables ==
    /\ run = [c \in Calls |-> run[c]]
    /\ ref = [c \in Calls |-> ref[c]]
    /\ promise = [c \in Calls |-> promise[c]]
    /\ values = [c \in Calls |-> values[c]]

IInv == TypeOK /\ Tables /\ SeenInv

(* A step concerns one call. *)
OnlyRow(c) ==
    \A d \in Calls \ {c} :
        /\ phase'[d] = phase[d] /\ wait'[d] = wait[d] /\ run'[d] = run[d]
        /\ ref'[d] = ref[d] /\ promise'[d] = promise[d] /\ values'[d] = values[d]

-----------------------------------------------------------------------------
LEMMA InitIInv == Init => IInv
<1> SUFFICES ASSUME Init
             PROVE  IInv
  OBVIOUS
<1>1. TypeOK
  <2>1. ASSUME NEW c \in Calls
        PROVE  HasSlots(c, 0)
    BY DEF Init, HasSlots
  <2> QED
    BY <2>1, HostRunAssumption DEF Init, TypeOK
<1>2. SeenInv
  BY DEF Init, SeenInv, Seen, Inputs
<1>3. Tables
  BY DEF Init, Tables
<1> QED
  BY <1>1, <1>2, <1>3 DEF IInv

(* So the row of that call decides whether it keeps the invariant.         *)
LEMMA OneRow ==
    ASSUME IInv, NEW c \in Calls, OnlyRow(c),
           phase' \in [Calls -> {"idle", "calling", "resolved", "rejected"}],
           wait' \in [Calls -> BOOLEAN], Tables',
           NEW n \in 0..MaxInputs, HasSlots(c, n)', Seen(c)'
    PROVE  IInv'
<1>1. ASSUME NEW d \in Calls, d # c
      PROVE  /\ \E k \in 0..MaxInputs : HasSlots(d, k)'
             /\ Seen(d)'
  <2>1. PICK k \in 0..MaxInputs : HasSlots(d, k)
    BY DEF IInv, TypeOK
  <2>2. HasSlots(d, k)'
    BY <1>1, <2>1 DEF HasSlots, OnlyRow
  <2>3. Seen(d)
    BY DEF IInv, SeenInv
  <2>4. Seen(d)'
    BY <1>1, <2>3 DEF Seen, OnlyRow, Inputs, Known, Fulfillable, Rejectable
  <2> QED
    BY <2>2, <2>4
<1> QED
  BY <1>1 DEF IInv, TypeOK, SeenInv

-----------------------------------------------------------------------------
(* A call's requests.                                                      *)
LEMMA CallStep ==
    ASSUME IInv, NEW c \in Calls, NEW n \in 0..MaxInputs, NEW w \in BOOLEAN, Call(c, n, w)
    PROVE  IInv'
<1>1. n \in Nat /\ 1..n \subseteq 1..MaxInputs
  BY HostRunAssumption
<1>2. OnlyRow(c)
  BY DEF OnlyRow, IInv, TypeOK, Tables, Call
<1>3. /\ run'[c] = Fill(n, "requested") /\ ref'[c] = Fill(n, Unset)
      /\ promise'[c] = Fill(n, "pending") /\ values'[c] = Fill(n, Unset)
      /\ phase'[c] \in {"calling", "resolved"} /\ (phase'[c] = "resolved" => n = 0)
  BY DEF IInv, TypeOK, Tables, Call
<1>4. HasSlots(c, n)'
  BY <1>1, <1>3 DEF HasSlots, Fill, States
<1>5. Tables' /\ phase' \in [Calls -> {"idle", "calling", "resolved", "rejected"}] /\ wait' \in [Calls -> BOOLEAN]
  BY DEF IInv, TypeOK, Tables, Call
<1>6. Seen(c)'
  <2>1. Inputs(c)' = 1..n
    BY <1>3 DEF Inputs, Fill
  <2>2. \A i \in Inputs(c)' :
          /\ run'[c][i] = "requested" /\ ref'[c][i] = Unset
          /\ promise'[c][i] = "pending" /\ values'[c][i] = Unset
    BY <1>3, <2>1 DEF Fill
  <2> QED
    BY <1>1, <1>3, <2>1, <2>2 DEF Seen, Known
<1> QED
  BY <1>2, <1>4, <1>5, <1>6, OneRow

-----------------------------------------------------------------------------
(* The server answers a request, or a run ends: nothing but the run, and   *)
(* for an answer the reference to it, changes.                             *)
LEMMA RunStep ==
    ASSUME IInv, NEW c \in Calls, NEW i \in Inputs(c), NEW s \in States,
           run' = [run EXCEPT ![c][i] = s],
           \/ /\ run[c][i] = "requested" /\ s = "running"
              /\ ref' = [ref EXCEPT ![c][i] = i]
           \/ /\ \/ run[c][i] = "requested" /\ s = "refused"
                 \/ run[c][i] = "running" /\ s \in {"succeeded", "failed"}
              /\ UNCHANGED ref,
           UNCHANGED <<phase, wait, promise, values>>
    PROVE  IInv'
<1>1. OnlyRow(c)
  BY DEF OnlyRow, IInv, TypeOK, Tables
<1>2. PICK n \in 0..MaxInputs : HasSlots(c, n)
  BY DEF IInv, TypeOK
<1>3. Inputs(c) = 1..n /\ i \in 1..MaxInputs
  BY <1>2, HostRunAssumption DEF HasSlots, Inputs
<1>4. run'[c] = [run[c] EXCEPT ![i] = s] /\ ref'[c] \in {ref[c], [ref[c] EXCEPT ![i] = i]}
  BY DEF IInv, Tables
<1>5. HasSlots(c, n)'
  <2>1. run'[c] \in [1..n -> States]
    BY <1>2, <1>3, <1>4 DEF HasSlots
  <2>2. ref'[c] \in [1..n -> 1..MaxInputs \cup {Unset}]
    BY <1>2, <1>3, <1>4 DEF HasSlots
  <2> QED
    BY <1>2, <2>1, <2>2 DEF HasSlots
<1>6. Tables' /\ phase' \in [Calls -> {"idle", "calling", "resolved", "rejected"}] /\ wait' \in [Calls -> BOOLEAN]
  BY DEF IInv, TypeOK, Tables
<1>7. Inputs(c)' = Inputs(c)
  BY <1>4 DEF Inputs
<1>8. Seen(c)
  BY DEF IInv, SeenInv
<1>9. Seen(c)'
  <2>1. ASSUME NEW j \in Inputs(c)
        PROVE  /\ ref'[c][j] = IF Known(c, j)' THEN j ELSE Unset
               /\ promise[c][j] = "fulfilled" => Fulfillable(c, j)'
               /\ promise[c][j] = "rejected" => Rejectable(c, j)'
    <3>1. CASE j # i
      <4>1. run'[c][j] = run[c][j] /\ ref'[c][j] = ref[c][j]
        BY <1>2, <1>3, <1>4, <3>1 DEF HasSlots
      <4> QED
        BY <1>8, <4>1 DEF Seen, Known, Fulfillable, Rejectable
    <3>2. CASE j = i
      <4>1. run'[c][i] = s
        BY <1>2, <1>3, <1>4 DEF HasSlots
      <4>2. ref'[c][i] = IF s = "running" THEN i ELSE ref[c][i]
        BY <1>2, <1>3 DEF HasSlots, IInv, Tables
      <4> QED
        BY <1>8, <3>2, <4>1, <4>2 DEF Seen, Known, Fulfillable, Rejectable
    <3> QED
      BY <3>1, <3>2
  <2> QED
    BY <1>7, <1>8, <2>1 DEF Seen
<1> QED
  BY <1>1, <1>5, <1>6, <1>9, OneRow

-----------------------------------------------------------------------------
(* A promise is handled while the call awaits it, or ignored afterwards.   *)
LEMMA PendingRow ==
    ASSUME IInv, NEW c \in Calls, NEW i \in Inputs(c), promise[c][i] = "pending"
    PROVE  phase[c] \in {"calling", "rejected"}
BY DEF IInv, TypeOK, SeenInv, Seen

LEMMA FulfilStep ==
    ASSUME IInv, NEW c \in Calls, NEW i \in 1..MaxInputs, Fulfil(c, i)
    PROVE  IInv'
<1>1. OnlyRow(c)
  BY DEF OnlyRow, IInv, TypeOK, Tables, Fulfil
<1>2. PICK n \in 0..MaxInputs : HasSlots(c, n)
  BY DEF IInv, TypeOK
<1>3. Inputs(c) = 1..n /\ i \in Inputs(c) /\ i \in 1..MaxInputs /\ Inputs(c)' = Inputs(c)
  BY <1>2, HostRunAssumption DEF HasSlots, Inputs, Fulfil
<1>4. /\ Seen(c)
      /\ phase[c] \in {"calling", "rejected"}
  BY <1>3, PendingRow DEF IInv, SeenInv, Fulfil
<1>5. ref[c][i] = i
  BY <1>3, <1>4 DEF Seen, Fulfil, Fulfillable, Known
<1>6. /\ run'[c] = run[c] /\ ref'[c] = ref[c] /\ wait' = wait
      /\ promise'[c] = [promise[c] EXCEPT ![i] = "fulfilled"]
  BY DEF Fulfil, IInv, Tables
<1>7. Tables' /\ phase' \in [Calls -> {"idle", "calling", "resolved", "rejected"}] /\ wait' \in [Calls -> BOOLEAN]
  BY DEF Fulfil, IInv, TypeOK, Tables
<1>8. CASE phase[c] = "calling"
  <2>1. /\ values'[c] = [values[c] EXCEPT ![i] = i]
        /\ phase'[c] = IF \A j \in Inputs(c) \ {i} : promise[c][j] = "fulfilled"
                       THEN "resolved" ELSE "calling"
    BY <1>5, <1>8 DEF Fulfil, Place, IInv, TypeOK, Tables
  <2>2. HasSlots(c, n)'
    <3>1. promise'[c] \in [1..n -> {"pending", "fulfilled", "rejected"}]
      BY <1>2, <1>3, <1>6 DEF HasSlots
    <3>2. values'[c] \in [1..n -> 1..MaxInputs \cup {Unset}]
      BY <1>2, <1>3, <1>8, <2>1 DEF HasSlots
    <3> QED
      BY <1>2, <1>6, <2>1, <3>1, <3>2 DEF HasSlots
  <2>3. ASSUME NEW j \in Inputs(c), j # i
        PROVE  promise'[c][j] = promise[c][j] /\ values'[c][j] = values[c][j]
    BY <1>2, <1>3, <1>6, <1>8, <2>1, <2>3 DEF HasSlots
  <2>4. promise'[c][i] = "fulfilled" /\ values'[c][i] = i
    BY <1>2, <1>3, <1>6, <1>8, <2>1 DEF HasSlots
  <2>5. Seen(c)'
    BY <1>3, <1>4, <1>5, <1>6, <1>8, <2>1, <2>3, <2>4
       DEF Seen, Known, Fulfillable, Rejectable, Fulfil
  <2> QED
    BY <1>1, <1>7, <2>2, <2>5, OneRow
<1>9. CASE phase[c] = "rejected"
  <2>1. values' = values /\ phase' = phase
    BY <1>9 DEF Fulfil
  <2>2. HasSlots(c, n)'
    <3>1. promise'[c] \in [1..n -> {"pending", "fulfilled", "rejected"}]
      BY <1>2, <1>3, <1>6 DEF HasSlots
    <3> QED
      BY <1>2, <1>6, <2>1, <3>1 DEF HasSlots
  <2>3. \A j \in Inputs(c) : promise'[c][j] = IF j = i THEN "fulfilled" ELSE promise[c][j]
    BY <1>2, <1>3, <1>6 DEF HasSlots
  <2>4. Seen(c)'
    BY <1>3, <1>4, <1>6, <1>9, <2>1, <2>3 DEF Seen, Known, Fulfillable, Rejectable, Fulfil
  <2> QED
    BY <1>1, <1>7, <2>2, <2>4, OneRow
<1> QED
  BY <1>4, <1>8, <1>9

LEMMA RejectStep ==
    ASSUME IInv, NEW c \in Calls, NEW i \in 1..MaxInputs, Reject(c, i)
    PROVE  IInv'
<1>1. OnlyRow(c)
  BY DEF OnlyRow, IInv, TypeOK, Tables, Reject
<1>2. PICK n \in 0..MaxInputs : HasSlots(c, n)
  BY DEF IInv, TypeOK
<1>3. Inputs(c) = 1..n /\ i \in Inputs(c) /\ Inputs(c)' = Inputs(c)
  BY <1>2, HostRunAssumption DEF HasSlots, Inputs, Reject
<1>4. /\ Seen(c)
      /\ phase[c] \in {"calling", "rejected"}
  BY <1>3, PendingRow DEF IInv, SeenInv, Reject
<1>5. /\ run'[c] = run[c] /\ ref'[c] = ref[c] /\ wait' = wait
      /\ promise'[c] = [promise[c] EXCEPT ![i] = "rejected"]
      /\ phase'[c] = "rejected"
      /\ values'[c] = IF phase[c] = "calling" THEN <<i>> ELSE values[c]
  BY <1>4 DEF Reject, Fails, Reason, IInv, TypeOK, Tables
<1>6. Tables' /\ phase' \in [Calls -> {"idle", "calling", "resolved", "rejected"}] /\ wait' \in [Calls -> BOOLEAN]
  BY DEF Reject, IInv, TypeOK, Tables
<1>7. HasSlots(c, n)'
  <2>1. promise'[c] \in [1..n -> {"pending", "fulfilled", "rejected"}]
    BY <1>2, <1>3, <1>5 DEF HasSlots
  <2>2. values'[c] \in [1..1 -> 1..n]
    BY <1>2, <1>3, <1>4, <1>5 DEF HasSlots
  <2> QED
    BY <1>2, <1>5, <2>1, <2>2 DEF HasSlots
<1>8. Seen(c)'
  <2>1. \A j \in Inputs(c) : promise'[c][j] = IF j = i THEN "rejected" ELSE promise[c][j]
    BY <1>2, <1>3, <1>5 DEF HasSlots
  <2>2. values'[c][1] \in Inputs(c) /\ promise'[c][values'[c][1]] = "rejected"
    BY <1>3, <1>4, <1>5, <2>1 DEF Seen
  <2> QED
    BY <1>3, <1>4, <1>5, <2>1, <2>2 DEF Seen, Known, Fulfillable, Rejectable, Reject
<1> QED
  BY <1>1, <1>6, <1>7, <1>8, OneRow

-----------------------------------------------------------------------------
LEMMA NextIInv == IInv /\ [Next]_vars => IInv'
<1> SUFFICES ASSUME IInv, [Next]_vars
             PROVE  IInv'
  OBVIOUS
<1>1. CASE UNCHANGED vars
  <2>1. TypeOK'
    BY <1>1 DEF vars, IInv, TypeOK, HasSlots
  <2>2. Tables'
    BY <1>1 DEF vars, IInv, Tables
  <2>3. SeenInv'
    BY <1>1 DEF vars, IInv, SeenInv, Seen, Inputs, Known, Fulfillable, Rejectable
  <2> QED
    BY <2>1, <2>2, <2>3 DEF IInv
<1>2. ASSUME NEW c \in Calls, NEW w \in BOOLEAN, NEW n \in 0..MaxInputs, Call(c, n, w)
      PROVE  IInv'
  BY <1>2, CallStep
<1>3. ASSUME NEW c \in Calls, NEW i \in 1..MaxInputs, Accept(c, i)
      PROVE  IInv'
  BY <1>3, RunStep DEF Accept, States
<1>4. ASSUME NEW c \in Calls, NEW i \in 1..MaxInputs, Refuse(c, i)
      PROVE  IInv'
  BY <1>4, RunStep DEF Refuse, States
<1>5. ASSUME NEW c \in Calls, NEW i \in 1..MaxInputs, NEW s \in {"succeeded", "failed"}, End(c, i, s)
      PROVE  IInv'
  BY <1>5, RunStep DEF End, IsRunning, States
<1>6. ASSUME NEW c \in Calls, NEW i \in 1..MaxInputs, Settle(c, i)
      PROVE  IInv'
  BY <1>6, FulfilStep, RejectStep DEF Settle
<1> QED
  BY <1>1, <1>2, <1>3, <1>4, <1>5, <1>6 DEF Next, Settle

LEMMA Invariance == Spec => []IInv
BY InitIInv, NextIInv, PTL DEF Spec

(* The type invariant, for any calls and any bound on the inputs.          *)
THEOREM TypeCorrect == Spec => []TypeOK
<1>1. IInv => TypeOK
  BY DEF IInv
<1> QED
  BY <1>1, Invariance, PTL

(* A call resolves with its runs' outputs, each in the place of its input. *)
THEOREM ResultsCorrect == Spec => []ResultsMatchInputs
<1>1. IInv => ResultsMatchInputs
  <2> SUFFICES ASSUME IInv, NEW c \in Calls, phase[c] = "resolved"
               PROVE  /\ values[c] = [i \in Inputs(c) |-> i]
                      /\ \A i \in Inputs(c) :
                            run[c][i] \in {"succeeded"} \cup IF wait[c] THEN {} ELSE {"running", "failed"}
    BY DEF ResultsMatchInputs
  <2>1. PICK n \in 0..MaxInputs : HasSlots(c, n)
    BY DEF IInv, TypeOK
  <2>2. Inputs(c) = 1..n
    BY <2>1 DEF HasSlots, Inputs
  <2>3. ASSUME NEW i \in Inputs(c)
        PROVE  values[c][i] = i /\ Fulfillable(c, i)
    BY DEF IInv, SeenInv, Seen
  <2> QED
    BY <2>1, <2>2, <2>3 DEF HasSlots, Fulfillable
<1> QED
  BY <1>1, Invariance, PTL

(* A call is rejected exactly when it has learnt of a failure of its own.  *)
THEOREM FailuresCorrect == Spec => []FailuresReported
<1>1. IInv => FailuresReported
  BY DEF IInv, SeenInv, Seen, FailuresReported, Rejectable
<1> QED
  BY <1>1, Invariance, PTL
=============================================================================
