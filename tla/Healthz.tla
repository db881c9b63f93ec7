------------------------------- MODULE Healthz -------------------------------
(***************************************************************************)
(* The probe endpoints of packages/healthz: HealthzController.respond ->   *)
(* HealthzService.runAll -> one runOne per attestor, each going through    *)
(* the shared AttestorCache and the AttestorRunner's timeout race.         *)
(*                                                                         *)
(* JavaScript runs each synchronous stretch of code without interruption,  *)
(* so a step of this model is one stretch between two awaits:              *)
(*   RunAll        the request handler up to the first await: every cache  *)
(*                 lookup and every check() call of the request;           *)
(*   CheckSettles, TimerFires   the two sides of the Promise.race;         *)
(*   Resume        runOne after its await: the cache write;                *)
(*   Respond       runAll and respond after Promise.all.                   *)
(* Requests interleave freely at the awaits, and the clock may advance     *)
(* between any two stretches.                                              *)
(***************************************************************************)
EXTENDS Integers

CONSTANTS Providers,         \* DiscoveryService.getProviders()
          ClassProviders,    \* ... whose metatype is a class,
          Decorated,         \* ... @HealthAttestor() or derived from one that is,
          Instantiated,      \* ... that have an instance,
          Checkable,         \* ... which has a method check()
          Requests,          \* probe requests (GET /readyz, GET /healthz)
          Names,             \* attestor names, the keys of the cache
          Unset,             \* JavaScript's undefined
          NameOf,            \* [Attestors -> Names]            options.name
          MinIntervalMs,     \* [Attestors -> Int or Unset]     options.minIntervalMs
          TimeoutMs,         \* [Attestors -> Nat or Unset]     options.timeoutMs
          CriticalOption,    \* [Attestors -> BOOLEAN or Unset] options.critical
          DefaultTimeoutMs,  \* DEFAULT_TIMEOUT_MS
          LastArrival,       \* bound: no request arrives after this time
          Horizon            \* bound: the clock stops here

(* AttestorExplorer.getAll(), filled once at bootstrap; whatever else is   *)
(* provided, or decorated by mistake, is passed over.                      *)
Attestors == Providers \cap ClassProviders \cap Decorated \cap Instantiated \cap Checkable

(* warnOnDuplicates(): it warns, and all of them stay.                     *)
DuplicateNames ==
    {n \in Names : \E a, b \in Attestors : a # b /\ NameOf[a] = n /\ NameOf[b] = n}

Outcomes == {"ok", "down"}              \* HealthCheckOutcome.status
Statuses == {"ok", "degraded", "down"}  \* HealthStatus

(* How an execution ends: check()'s own answer, an exception or a rejected *)
(* promise, or the timer.                                                  *)
Settlements == Outcomes \cup {"threw"}
Results == Settlements \cup {"timeout"}

CachedEntry == [outcome : Outcomes, expiresAt : Int]
Completion == [outcome : Outcomes, at : Int]

Timeout(a) == IF TimeoutMs[a] = Unset THEN DefaultTimeoutMs ELSE TimeoutMs[a]
Critical(a) == IF CriticalOption[a] = Unset THEN TRUE ELSE CriticalOption[a]

(* The options of @HealthAttestor(), all but the name optional.            *)
HealthAttestorOptions ==
    /\ NameOf \in [Attestors -> Names]
    /\ MinIntervalMs \in [Attestors -> Int \cup {Unset}]
    /\ TimeoutMs \in [Attestors -> Nat \cup {Unset}]
    /\ CriticalOption \in [Attestors -> BOOLEAN \cup {Unset}]

ASSUME HealthzAssumption ==
    /\ Unset \notin Int \cup BOOLEAN \cup Results \cup Statuses
    /\ Unset \notin CachedEntry \cup Completion
    /\ HealthAttestorOptions
    /\ DefaultTimeoutMs \in Nat
    /\ LastArrival \in Nat
    /\ Horizon \in Nat

VARIABLES now,        \* Date.now(), which the cache and the timers share
          entries,    \* AttestorCache.entries: [Names -> CachedEntry or Unset]
          probe,      \* [Requests -> "idle", "running", "answered"]
          phase,      \* where runOne(a) of request r stands: "idle", "checking"
                      \*   (awaiting the race), "settled" (race decided, the
                      \*   continuation not yet run), "done"
          timer,      \* when the pending timer of (r, a) is due, Unset if none
          result,     \* what the race of (r, a) was decided by, until runOne
                      \*   has resumed with it
          verdict,    \* the outcome runOne(a) of request r returned
          reply,      \* the aggregate status sent, Unset before
          last        \* history: the last completed check of each attestor

vars == <<now, entries, probe, phase, timer, result, verdict, reply, last>>

Row(v) == [r \in Requests |-> [a \in Attestors |-> v]]

-----------------------------------------------------------------------------
(* AttestorCache *)

(* `entry.expiresAt <= this.clock()` evicts, so an entry serves strictly   *)
(* before its expiry.                                                      *)
IsLive_Inclusive(e) == e # Unset /\ now <= e.expiresAt
IsLive(e) == e # Unset /\ now < e.expiresAt

(* get(name) for every attestor of a request, one after the other in one   *)
(* stretch: stale entries among the names looked up are deleted.           *)
Evicted == [n \in Names |->
    IF n \in {NameOf[a] : a \in Attestors} /\ ~IsLive(entries[n])
    THEN Unset ELSE entries[n]]

Set_FirstWins(n, o, ttl) ==
    IF ttl <= 0 \/ IsLive(entries[n])
    THEN entries
    ELSE [entries EXCEPT ![n] = [outcome |-> o, expiresAt |-> now + ttl]]
Set_OneSlot(n, o, ttl) ==
    IF ttl <= 0
    THEN entries
    ELSE [m \in Names |-> [outcome |-> o, expiresAt |-> now + ttl]]
Set(n, o, ttl) ==
    IF ttl <= 0
    THEN entries
    ELSE [entries EXCEPT ![n] = [outcome |-> o, expiresAt |-> now + ttl]]

-----------------------------------------------------------------------------
(* AttestorRunner and HealthzService *)

(* execute(): exceptions and timeouts become a `down` outcome.             *)
OutcomeOf_Raw(res) == res
OutcomeOf(res) == IF res \in Outcomes THEN res ELSE "down"

(* deriveStatus(): a critical `down` decides, any other only degrades.     *)
DeriveStatus_LastDownWins(row) ==
    LET failed == {a \in Attestors : row[a] = "down"}
    IN  CASE \E a \in failed : ~Critical(a) -> "degraded"
          [] failed # {} /\ \A a \in failed : Critical(a) -> "down"
          [] OTHER -> "ok"
DeriveStatus(row) ==
    LET failed == {a \in Attestors : row[a] = "down"}
    IN  IF \E a \in failed : Critical(a) THEN "down"
        ELSE IF failed # {} THEN "degraded" ELSE "ok"

Init ==
    /\ now = 0
    /\ entries = [n \in Names |-> Unset]
    /\ probe = [r \in Requests |-> "idle"]
    /\ phase = Row("idle")
    /\ timer = Row(Unset)
    /\ result = Row(Unset)
    /\ verdict = Row(Unset)
    /\ reply = [r \in Requests |-> Unset]
    /\ last = [a \in Attestors |-> Unset]

(* The clock, and with it the event loop's timers, advances.               *)
Tick ==
    /\ now < Horizon
    /\ now' = now + 1
    /\ UNCHANGED <<entries, probe, phase, timer, result, verdict, reply, last>>

(* runAll() up to the await: each runOne looks its name up in the cache    *)
(* and returns what it finds, or else calls check(). `thrown` are the      *)
(* attestors whose check() throws before returning a promise: execute()    *)
(* catches that and never starts a timer.                                  *)
RunAll(r) ==
    /\ probe[r] = "idle"
    /\ now <= LastArrival
    /\ LET hit(a) == IsLive(entries[NameOf[a]])
       IN  \E thrown \in SUBSET {a \in Attestors : ~hit(a)} :
             /\ phase' = [phase EXCEPT ![r] = [a \in Attestors |->
                    IF hit(a) THEN "done"
                    ELSE IF a \in thrown THEN "settled" ELSE "checking"]]
             /\ verdict' = [verdict EXCEPT ![r] = [a \in Attestors |->
                    IF hit(a) THEN entries[NameOf[a]].outcome ELSE Unset]]
             /\ result' = [result EXCEPT ![r] = [a \in Attestors |->
                    IF a \in thrown THEN "threw" ELSE Unset]]
             /\ timer' = [timer EXCEPT ![r] = [a \in Attestors |->
                    IF hit(a) \/ a \in thrown THEN Unset ELSE now + Timeout(a)]]
    /\ entries' = Evicted
    /\ probe' = [probe EXCEPT ![r] = "running"]
    /\ UNCHANGED <<now, reply, last>>

(* check()'s promise settles first: the race is decided, the timer will be *)
(* cleared. A promise that settles after the timer won changes nothing.    *)
CheckSettles(r, a, s) ==
    /\ phase[r][a] = "checking"
    /\ phase' = [phase EXCEPT ![r][a] = "settled"]
    /\ result' = [result EXCEPT ![r][a] = s]
    /\ timer' = [timer EXCEPT ![r][a] = Unset]
    /\ UNCHANGED <<now, entries, probe, verdict, reply, last>>

(* setTimeout(reject, ms): fires once ms have passed, or later.            *)
TimerFires_NoDefault(r, a) ==
    /\ phase[r][a] = "checking"
    /\ TimeoutMs[a] # Unset /\ now >= timer[r][a]
    /\ phase' = [phase EXCEPT ![r][a] = "settled"]
    /\ result' = [result EXCEPT ![r][a] = "timeout"]
    /\ timer' = [timer EXCEPT ![r][a] = Unset]
    /\ UNCHANGED <<now, entries, probe, verdict, reply, last>>
TimerFires(r, a) ==
    /\ phase[r][a] = "checking"
    /\ now >= timer[r][a]
    /\ phase' = [phase EXCEPT ![r][a] = "settled"]
    /\ result' = [result EXCEPT ![r][a] = "timeout"]
    /\ timer' = [timer EXCEPT ![r][a] = Unset]
    /\ UNCHANGED <<now, entries, probe, verdict, reply, last>>

(* runOne() after its await: the outcome is cached under the attestor's    *)
(* name if it has a minIntervalMs, then returned.                          *)
Resume(r, a) ==
    /\ phase[r][a] = "settled"
    /\ LET o == OutcomeOf(result[r][a])
       IN  /\ verdict' = [verdict EXCEPT ![r][a] = o]
           /\ entries' = IF MinIntervalMs[a] = Unset THEN entries
                         ELSE Set(NameOf[a], o, MinIntervalMs[a])
           /\ last' = [last EXCEPT ![a] = [outcome |-> o, at |-> now]]
    /\ phase' = [phase EXCEPT ![r][a] = "done"]
    /\ result' = [result EXCEPT ![r][a] = Unset]
    /\ UNCHANGED <<now, probe, timer, reply>>

(* Promise.all resolved: the status is derived and the response sent, 503  *)
(* exactly for "down".                                                     *)
Respond(r) ==
    /\ probe[r] = "running"
    /\ \A a \in Attestors : phase[r][a] = "done"
    /\ reply' = [reply EXCEPT ![r] = DeriveStatus(verdict[r])]
    /\ probe' = [probe EXCEPT ![r] = "answered"]
    /\ UNCHANGED <<now, entries, phase, timer, result, verdict, last>>

Next ==
    \/ Tick
    \/ \E r \in Requests : RunAll(r) \/ Respond(r)
    \/ \E r \in Requests, a \in Attestors :
          \/ \E s \in Settlements : CheckSettles(r, a, s)
          \/ TimerFires(r, a)
          \/ Resume(r, a)

(* What the event loop guarantees: time passes, due timers fire, queued    *)
(* continuations run. Nothing makes a check settle, or a request arrive.   *)
Fairness ==
    /\ WF_vars(Tick)
    /\ \A r \in Requests : WF_vars(Respond(r))
    /\ \A r \in Requests, a \in Attestors :
          WF_vars(TimerFires(r, a)) /\ WF_vars(Resume(r, a))

Spec == Init /\ [][Next]_vars
LiveSpec == Spec /\ Fairness
=============================================================================
