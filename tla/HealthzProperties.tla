-------------------------- MODULE HealthzProperties --------------------------
(***************************************************************************)
(* What the probe endpoints of packages/healthz must satisfy, over the     *)
(* detailed model of module Healthz.                                       *)
(***************************************************************************)
EXTENDS Healthz

(* No two attestors share a name: what the docs ask for, and what          *)
(* warnOnDuplicates() reports but does not enforce.                        *)
UniqueNames == DuplicateNames = {}

HasInterval(a) == MinIntervalMs[a] # Unset /\ MinIntervalMs[a] > 0

(* The attestor's last completed check is younger than its minIntervalMs.  *)
Young(a) == HasInterval(a) /\ last[a] # Unset /\ now < last[a].at + MinIntervalMs[a]

-----------------------------------------------------------------------------
(* The type invariant. In particular what a check threw, or that it timed  *)
(* out, never shows up as a verdict.                                       *)
TypeOK ==
    /\ now \in Nat
    /\ entries \in [Names -> CachedEntry \cup {Unset}]
    /\ probe \in [Requests -> {"idle", "running", "answered"}]
    /\ phase \in [Requests -> [Attestors -> {"idle", "checking", "settled", "done"}]]
    /\ timer \in [Requests -> [Attestors -> Nat \cup {Unset}]]
    /\ result \in [Requests -> [Attestors -> Results \cup {Unset}]]
    /\ verdict \in [Requests -> [Attestors -> Outcomes \cup {Unset}]]
    /\ reply \in [Requests -> Statuses \cup {Unset}]
    /\ last \in [Attestors -> Completion \cup {Unset}]

(* The bookkeeping of one request: a verdict is there exactly once runOne  *)
(* has returned, nothing has happened before the request arrives, and no   *)
(* status is sent before the end. The refinement needs it.                 *)
PhasesAgree ==
    \A r \in Requests :
        /\ probe[r] # "answered" => reply[r] = Unset
        /\ \A a \in Attestors :
              /\ phase[r][a] = "idle" <=> probe[r] = "idle"
              /\ phase[r][a] = "done" <=> verdict[r][a] # Unset

(* The cache says of each attestor exactly what its last completed check   *)
(* said: an entry is that check's outcome, good for minIntervalMs from its *)
(* completion, and there is no entry only if that time has passed. This    *)
(* is what overlapping requests could break: one deletes, another writes,  *)
(* between the first one's lookup and its own write (cache.get before the  *)
(* await in runOne, cache.set after it).                                   *)
CacheHoldsLastCheck ==
    \A a \in Attestors :
        LET e == entries[NameOf[a]]
        IN  /\ ~HasInterval(a) => e = Unset
            /\ e # Unset => /\ last[a] # Unset
                            /\ e.outcome = last[a].outcome
                            /\ e.expiresAt = last[a].at + MinIntervalMs[a]
            /\ e = Unset => ~Young(a)

(* A request is served the earlier outcome of an attestor exactly while    *)
(* that is younger than minIntervalMs: within the interval no check is     *)
(* started once one has completed, and an older outcome is never reported. *)
ReuseExactlyWhileYoung ==
    [][\A r \in Requests, a \in Attestors :
          phase[r][a] = "idle" /\ phase'[r][a] # "idle"
              => (phase'[r][a] = "done" <=> Young(a))]_vars

(* Whatever a request reports of an attestor is the outcome of that        *)
(* attestor's own most recently completed check at that moment, however    *)
(* the checks of concurrent requests overlap.                              *)
OwnVerdict ==
    [][\A r \in Requests, a \in Attestors :
          verdict[r][a] = Unset /\ verdict'[r][a] # Unset
              => last'[a] # Unset /\ verdict'[r][a] = last'[a].outcome]_vars

(* Every request that arrives is answered, even if a check never settles:  *)
(* withTimeout bounds each of them.                                        *)
EveryRequestAnswered ==
    \A r \in Requests : probe[r] = "running" ~> probe[r] = "answered"

-----------------------------------------------------------------------------
(* Refinement: with the cache read as "the last completed check", the      *)
(* lookups, races and writes implement the contract.                       *)
Asked == {r \in Requests : probe[r] # "idle"}
Contract == INSTANCE HealthContract WITH
    MinInterval <- MinIntervalMs,
    IsCritical <- [a \in Attestors |-> Critical(a)],
    asked <- Asked

(* HealthzService and its cache implement the abstract probe contract.     *)
RefinesContract == Contract!Spec

-----------------------------------------------------------------------------
(* What the documentation says and the code does not do: each is checked   *)
(* by a run that finds it violated.                                        *)

(* "this caps the actual call rate to the subsystem at 1 / minIntervalMs"  *)
(* (health-attestor.ts): no check of an attestor starts less than          *)
(* minIntervalMs after another one that is still running has started.      *)
RateCapped ==
    [][\A r, q \in Requests, a \in Attestors :
          /\ HasInterval(a)
          /\ phase[r][a] = "idle" /\ phase'[r][a] \in {"checking", "settled"}
          /\ phase[q][a] = "checking"
          => now >= (timer[q][a] - Timeout(a)) + MinIntervalMs[a]]_vars

(* "When unset, the check runs on every request" (health-attestor.ts), and *)
(* of duplicate names "Each will be invoked" (warnOnDuplicates): an        *)
(* attestor without minIntervalMs is checked by every request.             *)
UncappedAlwaysChecked ==
    [][\A r \in Requests, a \in Attestors :
          phase[r][a] = "idle" /\ phase'[r][a] # "idle" /\ MinIntervalMs[a] = Unset
              => phase'[r][a] # "done"]_vars
=============================================================================
