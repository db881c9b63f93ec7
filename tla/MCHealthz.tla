------------------------------ MODULE MCHealthz ------------------------------
(* Instances of Healthz for TLC: a rate-capped critical attestor and an    *)
(* uncapped non-critical one, among a value, a service that is none, one   *)
(* without a check() and one that was never instantiated.                  *)
EXTENDS HealthzProperties, TLC

CONSTANTS db, queue, dbName, queueName, value, service, unchecked, dormant

MCProviders == {db, queue, value, service, unchecked, dormant}
MCClassProviders == MCProviders \ {value}
MCDecorated == {db, queue, unchecked, dormant}
MCInstantiated == MCProviders \ {dormant}
MCCheckable == {db, queue, service, dormant}
MCNames == {dbName, queueName}
MCMinIntervalMs == (db :> 2) @@ (queue :> Unset)
MCTimeoutMs == (db :> 1) @@ (queue :> Unset)
MCCriticalOption == (db :> Unset) @@ (queue :> FALSE)
MCNameOf == (db :> dbName) @@ (queue :> queueName)

(* Two attestors registered under one name, and a second name not used.    *)
MCSharedNameOf == (db :> dbName) @@ (queue :> dbName)
=============================================================================
