------------------------------ MODULE Application ------------------------------
(***************************************************************************)
(* An application put together like examples/hatchet-integration: its root *)
(* module provides a configx class, and HatchetModule.forRootAsync, which  *)
(* provides the same class once more (provideInjectionTokensFrom), makes   *)
(* the HatchetModuleConfig from its own instance of it. Nest constructs    *)
(* the providers in an order of its own, and calls onApplicationBootstrap  *)
(* when all are there. Configx and WorkerBootstrap move side by side; they *)
(* meet in the factory and in the failure of the startup.                  *)
(***************************************************************************)
EXTENDS WorkerBootstrap

CONSTANTS Providers, Variables, RefusedAsAWhole, Values, Environments, MaxSets,
          Root,           \* the provider whose instance the application uses
          Hatchet,        \* HatchetModule
          WorkerVariable, \* a worker is configured if this variable is `On`
          On

VARIABLES env, async, instance, thrown, sets, readFrom

Configx == INSTANCE Configx

ASSUME ApplicationAssumption ==
    /\ Configx!ConfigxAssumption
    /\ Hatchet \in Providers /\ Root \in Providers
    /\ WorkerVariable \in Configx!Names

configx_vars == <<env, async, instance, thrown, sets, readFrom>>
app_vars == <<vars, configx_vars>>

AppInit == Init /\ Configx!Init

(* A constructor returns, or what it throws ends the startup.              *)
Provide(p) ==
    /\ boot \in {"configuring", "starting"}
    /\ Configx!Construct(p)
    /\ UNCHANGED vars

ProviderThrows(p) == Configx!ConstructorThrows(p) /\ StartupFails

(* External: the factory the application gave to forRootAsync.             *)
UseFactory(c, orphans) ==
    [worker |-> c[WorkerVariable].parsed = On, enableOrphanDetection |-> orphans]

ForRootAsync(orphans) ==
    /\ instance[Hatchet] # Unset
    /\ Configure(UseFactory(instance[Hatchet], orphans))
    /\ UNCHANGED configx_vars

(* Something else of the application throws.                               *)
AppFails == StartupFails /\ UNCHANGED configx_vars

(* The hooks are called when every provider has been constructed.          *)
AllProvided == (\A p \in Providers : instance[p] # Unset) /\ UNCHANGED configx_vars

AppNext ==
    \/ \E p \in Providers : Provide(p) \/ ProviderThrows(p)
    \/ \E orphans \in BOOLEAN \cup {Unset} : ForRootAsync(orphans)
    \/ AppFails
    \/ BootWithoutWorker /\ AllProvided
    \/ RegisterWorker /\ AllProvided
    \/ DeclarationThrows /\ AllProvided
    \/ DeclarationRegistered /\ UNCHANGED configx_vars
    \/ WorkerRegistered /\ UNCHANGED configx_vars
    \/ WorkerRefused /\ UNCHANGED configx_vars
    \/ PageArrives /\ UNCHANGED configx_vars
    \/ PageFails /\ UNCHANGED configx_vars
    \/ \E n \in Workflows :
          \/ RemoteRegisters(n) /\ UNCHANGED configx_vars
          \/ RemoteDeletes(n) /\ UNCHANGED configx_vars
    \/ \E v \in Configx!Names, x \in Values \cup {Unset} :
          Configx!SetEnv(v, x) /\ UNCHANGED vars

AppSpec == AppInit /\ [][AppNext]_app_vars

-----------------------------------------------------------------------------
(* Properties *)

(* "Fail-fast validation at startup": whenever the environment changes, no *)
(* hook of the application runs and no workflow is registered unless every *)
(* copy of the class was constructed from an environment its schema took;  *)
(* each copy keeps what it read then, the worker's config comes from the   *)
(* copy of HatchetModule, and an error names exactly the refused variables.*)
AcceptedOf(e) == {i \in DOMAIN Variables :
    LET x == e[Variables[i].name]
    IN  x \in Variables[i].accepts \/ (x = Unset /\ Variables[i].default # Unset)}

ConfigFailsFast ==
    /\ \A p \in Providers : instance[p] # Unset =>
          /\ ~async /\ AcceptedOf(readFrom[p]) = DOMAIN Variables
          /\ readFrom[p] \notin RefusedAsAWhole
          /\ \A v \in Configx!Names : readFrom[p][v] # Unset =>
                instance[p][v] = [parsed |-> readFrom[p][v]]
    /\ boot \in {"registering", "booted"} =>
          /\ thrown = Unset
          /\ \A p \in Providers : instance[p] # Unset
          /\ config.worker <=> instance[Hatchet][WorkerVariable].parsed = On
    /\ thrown # Unset =>
          /\ boot = "failed" /\ \A n \in Workflows : serves[n] = Unset
          /\ ~async => \E p \in Providers :
                LET named == thrown.message
                IN  /\ instance[p] = Unset /\ readFrom[p] # Unset
                    /\ named # {}
                    /\ named # {<<"@">>} =>
                          {i \in DOMAIN Variables : <<Variables[i].name>> \in named}
                              = DOMAIN Variables \ AcceptedOf(readFrom[p])
=============================================================================
