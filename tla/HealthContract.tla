--------------------------- MODULE HealthContract ---------------------------
(***************************************************************************)
(* What @abinnovision/nestjs-healthz promises of its probes, without the   *)
(* cache, the timers or the asynchronous calls that keep the promise:      *)
(*                                                                         *)
(*  - a probe request gets one verdict per attestor: the outcome of the    *)
(*    attestor's last completed check if that is younger than the          *)
(*    attestor's minInterval, otherwise the outcome of a check of its own; *)
(*  - it is answered once, when every verdict is known, with the status    *)
(*    the verdicts call for.                                               *)
(***************************************************************************)
EXTENDS Integers

CONSTANTS Attestors,      \* the registered attestors
          Requests,       \* probe requests, each used once
          Unset,          \* an option that is not given, a value not known yet
          MinInterval,    \* [Attestors -> Int \cup {Unset}]
          IsCritical,     \* [Attestors -> BOOLEAN]
          LastArrival,    \* bound: no request arrives after this time
          Horizon         \* bound: the clock stops here

VARIABLES now,            \* the clock
          asked,          \* the requests that have arrived
          verdict,        \* [Requests -> [Attestors -> outcome or Unset]]
          reply,          \* [Requests -> status or Unset]
          last            \* [Attestors -> last completed check or Unset]

vars == <<now, asked, verdict, reply, last>>

Outcomes == {"ok", "down"}
Statuses == {"ok", "degraded", "down"}

Young(a) ==
    /\ MinInterval[a] # Unset /\ MinInterval[a] > 0
    /\ last[a] # Unset
    /\ now < last[a].at + MinInterval[a]

(* The three-valued status of a complete row of verdicts. *)
StatusOf(row) ==
    LET failed == {a \in Attestors : row[a] = "down"}
    IN  CASE \E a \in failed : IsCritical[a] -> "down"
          [] failed # {} /\ (\A a \in failed : ~IsCritical[a]) -> "degraded"
          [] failed = {} -> "ok"

Init ==
    /\ now = 0
    /\ asked = {}
    /\ verdict = [r \in Requests |-> [a \in Attestors |-> Unset]]
    /\ reply = [r \in Requests |-> Unset]
    /\ last = [a \in Attestors |-> Unset]

Tick ==
    /\ now < Horizon
    /\ now' = now + 1
    /\ UNCHANGED <<asked, verdict, reply, last>>

Ask(r) ==
    /\ r \in Requests \ asked
    /\ now <= LastArrival
    /\ asked' = asked \cup {r}
    /\ verdict' = [verdict EXCEPT ![r] =
           [a \in Attestors |-> IF Young(a) THEN last[a].outcome ELSE Unset]]
    /\ UNCHANGED <<now, reply, last>>

Conclude(r, a, o) ==
    /\ r \in asked
    /\ verdict[r][a] = Unset
    /\ verdict' = [verdict EXCEPT ![r][a] = o]
    /\ last' = [last EXCEPT ![a] = [outcome |-> o, at |-> now]]
    /\ UNCHANGED <<now, asked, reply>>

Answer(r) ==
    /\ r \in asked
    /\ reply[r] = Unset
    /\ \A a \in Attestors : verdict[r][a] # Unset
    /\ reply' = [reply EXCEPT ![r] = StatusOf(verdict[r])]
    /\ UNCHANGED <<now, asked, verdict, last>>

Next ==
    \/ Tick
    \/ \E r \in Requests : Ask(r) \/ Answer(r)
    \/ \E r \in Requests, a \in Attestors, o \in Outcomes : Conclude(r, a, o)

Spec == Init /\ [][Next]_vars
=============================================================================
