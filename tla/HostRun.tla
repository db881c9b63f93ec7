-------------------------------- MODULE HostRun --------------------------------
(***************************************************************************)
(* packages/hatchet, execution/host-run/adapter-factory.ts: Client.run and *)
(* ctx.run. A call with one input or an array of them asks the server for  *)
(* one run per input, all at once, and resolves with their outputs (wait,  *)
(* the default) or with references to them. A run may call ctx.run in its  *)
(* turn; whether its method waits for what it calls is the method's own    *)
(* business. The server starts or refuses runs, and runs end, in any       *)
(* order, and that need not be the order in which their promises are       *)
(* handled: `promise` is what the call has seen of each run so far.        *)
(***************************************************************************)
EXTENDS Integers, Sequences, FiniteSets

CONSTANTS Calls,      \* calls of run(), each made at most once
          Caller,     \* of a ctx.run: the run it is made in, as the call and the
                      \*   input of that call it belongs to; of a Client.run, Unset
          MaxInputs,  \* bound on the length of an input array
          Unset       \* JavaScript's undefined

ASSUME HostRunAssumption ==
    /\ MaxInputs \in Nat \ {0}
    /\ Unset \notin (1..MaxInputs) \cup (Calls \X (1..MaxInputs))
    /\ Caller \in [Calls -> (Calls \X (1..MaxInputs)) \cup {Unset}]

VARIABLES phase,    \* "idle", "calling", "resolved", "rejected"
          wait,     \* options.wait ?? true
          run,      \* external, of each input: "requested", "refused", "running",
                    \*   "succeeded", "failed"
          ref,      \* what the requests have resolved with: which input's run
          promise,  \* of each input: "pending", "fulfilled", "rejected"
          values    \* what the promises have been fulfilled with; of a rejected
                    \*   call, the run that failed it

vars == <<phase, wait, run, ref, promise, values>>

Inputs(c) == DOMAIN run[c]
IsRunning(c, i) == i \in Inputs(c) /\ run[c][i] = "running"

Init ==
    /\ phase = [c \in Calls |-> "idle"]
    /\ wait = [c \in Calls |-> TRUE]
    /\ run = [c \in Calls |-> <<>>]
    /\ ref = [c \in Calls |-> <<>>]
    /\ promise = [c \in Calls |-> <<>>]
    /\ values = [c \in Calls |-> <<>>]

-----------------------------------------------------------------------------
Fill(n, v) == [i \in 1..n |-> v]

(* Every request is made before anything is awaited. A single input is     *)
(* like an array of one, but for the shape of the result; Promise.all([])  *)
(* resolves at once.                                                       *)
Call(c, n, w) ==
    /\ phase[c] = "idle"
    /\ Caller[c] # Unset => IsRunning(Caller[c][1], Caller[c][2])
    /\ phase' = [phase EXCEPT ![c] = IF n = 0 THEN "resolved" ELSE "calling"]
    /\ wait' = [wait EXCEPT ![c] = w]
    /\ run' = [run EXCEPT ![c] = Fill(n, "requested")]
    /\ ref' = [ref EXCEPT ![c] = Fill(n, Unset)]
    /\ promise' = [promise EXCEPT ![c] = Fill(n, "pending")]
    /\ values' = [values EXCEPT ![c] = Fill(n, Unset)]

-----------------------------------------------------------------------------
(* External: the Hatchet server.                                           *)

Accept(c, i) ==
    /\ i \in Inputs(c) /\ run[c][i] = "requested"
    /\ run' = [run EXCEPT ![c][i] = "running"]
    /\ ref' = [ref EXCEPT ![c][i] = i]
    /\ UNCHANGED <<phase, wait, promise, values>>

Refuse(c, i) ==
    /\ i \in Inputs(c) /\ run[c][i] = "requested"
    /\ run' = [run EXCEPT ![c][i] = "refused"]
    /\ UNCHANGED <<phase, wait, ref, promise, values>>

(* A run ends when its method does, whatever it has called meanwhile.      *)
End(c, i, s) ==
    /\ IsRunning(c, i)
    /\ run' = [run EXCEPT ![c][i] = s]
    /\ UNCHANGED <<phase, wait, ref, promise, values>>

-----------------------------------------------------------------------------
(* Microtasks of the call: `p.then((r) => r.output)` under Promise.all, or *)
(* `await runner(...)` and the returned output.                            *)

Fulfillable(c, i) ==
    IF wait[c] THEN run[c][i] = "succeeded"
    ELSE run[c][i] \in {"running", "succeeded", "failed"}

Rejectable_RefusalsOnly(c, i) == run[c][i] = "refused"
Rejectable(c, i) == run[c][i] = "refused" \/ (wait[c] /\ run[c][i] = "failed")

(* A value takes the place of its input, not that of its arrival.          *)
Place_Arrival(c, i) == CHOOSE k \in Inputs(c) :
    values[c][k] = Unset /\ \A j \in 1..k-1 : values[c][j] # Unset
Place(c, i) == i

Fulfil(c, i) ==
    /\ i \in Inputs(c) /\ promise[c][i] = "pending"
    /\ Fulfillable(c, i)
    /\ promise' = [promise EXCEPT ![c][i] = "fulfilled"]
    /\ IF phase[c] = "calling"
       THEN /\ values' = [values EXCEPT ![c][Place(c, i)] = ref[c][i]]
            /\ phase' = [phase EXCEPT ![c] =
                   IF \A j \in Inputs(c) \ {i} : promise[c][j] = "fulfilled"
                   THEN "resolved" ELSE @]
       ELSE UNCHANGED <<phase, values>>
    /\ UNCHANGED <<wait, run, ref>>

(* The first rejection rejects the call; the other runs go on, and what    *)
(* becomes of them is handled but ignored.                                 *)
Fails_AllSettled(c) == phase[c] = "calling" /\ Cardinality({i \in Inputs(c) : promise[c][i] = "pending"}) = 1
Fails(c) == phase[c] = "calling"

Reason_Ref(c, i) == ref[c][i]
Reason(c, i) == i

Reject(c, i) ==
    /\ i \in Inputs(c) /\ promise[c][i] = "pending"
    /\ Rejectable(c, i)
    /\ promise' = [promise EXCEPT ![c][i] = "rejected"]
    /\ IF Fails(c)
       THEN /\ phase' = [phase EXCEPT ![c] = "rejected"]
            /\ values' = [values EXCEPT ![c] = <<Reason(c, i)>>]
       ELSE UNCHANGED <<phase, values>>
    /\ UNCHANGED <<wait, run, ref>>

Settle(c, i) == Fulfil(c, i) \/ Reject(c, i)

Next ==
    \E c \in Calls :
        \/ \E w \in BOOLEAN, n \in 0..MaxInputs : Call(c, n, w)
        \/ \E i \in 1..MaxInputs :
              \/ Accept(c, i) \/ Refuse(c, i)
              \/ \E s \in {"succeeded", "failed"} : End(c, i, s)
              \/ Fulfil(c, i) \/ Reject(c, i)

(* The event loop runs its microtasks and the server answers requests; no  *)
(* run need ever end.                                                      *)
Spec == Init /\ [][Next]_vars
LiveSpec ==
    /\ Spec
    /\ \A c \in Calls, i \in 1..MaxInputs :
          WF_vars(Settle(c, i)) /\ WF_vars(Accept(c, i) \/ Refuse(c, i))

-----------------------------------------------------------------------------
(* Properties *)

States == {"requested", "refused", "running", "succeeded", "failed"}

HasSlots(c, n) ==
    /\ run[c] \in [1..n -> States]
    /\ ref[c] \in [1..n -> 1..MaxInputs \cup {Unset}]
    /\ promise[c] \in [1..n -> {"pending", "fulfilled", "rejected"}]
    /\ values[c] \in IF phase[c] = "rejected" THEN [1..1 -> 1..n]
                     ELSE [1..n -> 1..MaxInputs \cup {Unset}]

(* The type invariant: a call keeps one slot per input. (The functions     *)
(* from 1..n are the sequences of length n.)                               *)
TypeOK ==
    /\ phase \in [Calls -> {"idle", "calling", "resolved", "rejected"}]
    /\ wait \in [Calls -> BOOLEAN]
    /\ \A c \in Calls : \E n \in 0..MaxInputs : HasSlots(c, n)

(* A call resolves with one value per input, the i-th being that of the    *)
(* i-th input's run, in whatever order the runs started and ended; and, if *)
(* it waits, only when every one of them has succeeded.                    *)
ResultsMatchInputs ==
    \A c \in Calls : phase[c] = "resolved" =>
        /\ values[c] = [i \in Inputs(c) |-> i]
        /\ \A i \in Inputs(c) :
              run[c][i] \in {"succeeded"} \cup IF wait[c] THEN {} ELSE {"running", "failed"}

(* No failure is swallowed, and none invented: a call that has learnt of   *)
(* the failure of one of its runs is rejected, with the failure of a run   *)
(* of its own; without wait only a refusal counts.                         *)
FailuresReported ==
    \A c \in Calls :
        /\ (\E i \in Inputs(c) : promise[c][i] = "rejected") <=> phase[c] = "rejected"
        /\ phase[c] = "rejected" =>
              run[c][values[c][1]] \in {"refused"} \cup IF wait[c] THEN {"failed"} ELSE {}

(* A call without wait settles although no run ever ends; one that waits   *)
(* settles when its runs have ended, and for nothing else.                 *)
CallsSettle ==
    \A c \in Calls :
        phase[c] = "calling" /\ (wait[c] => \A i \in Inputs(c) : run[c][i] \in {"refused", "succeeded", "failed"})
            ~> phase[c] \in {"resolved", "rejected"}
=============================================================================
