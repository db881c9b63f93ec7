------------------------------- MODULE Flydrive -------------------------------
(***************************************************************************)
(* packages/flydrive: from the module's registration to the disks its      *)
(* consumers use.                                                          *)
(*                                                                         *)
(* FlydriveModule.forRoot or forRootAsync validates the registration; Nest *)
(* then instantiates the providers, one per disk reference, in an order of *)
(* its own, an alias for the default disk, and calls                       *)
(* DiskRegistry.onModuleInit when all are there. From the registry's       *)
(* instantiation on, whoever holds the FlydriveTester may replace the      *)
(* driver of a disk and restore it. Consumers call their disks all along,  *)
(* and may take a method from one and call it later.                       *)
(*                                                                         *)
(* The driver factory of the i-th configured entry is named i, and so is   *)
(* the driver it builds; fake drivers are model values.                    *)
(***************************************************************************)
EXTENDS Integers, Sequences, SequencesExt

CONSTANTS Refs,        \* disk reference classes
          DefaultDisk, \* the class that stands for the default disk
          Overridden,  \* refs whose provider a test replaces (overrideProvider)
          Override,    \* ... and what it is replaced with
          Fakes,       \* the drivers tests use as fakes
          Unset,       \* JavaScript's undefined
          MaxEntries   \* bound: entries of a disk list

SwappableDisk == [object : Nat, original : 1..MaxEntries, current : Fakes \cup 1..MaxEntries]
Proxy == [ref : Refs, object : Nat]

ASSUME FlydriveAssumption ==
    /\ Overridden \subseteq Refs
    /\ DefaultDisk \notin Refs
    /\ Unset \notin Fakes \cup Nat \cup Refs \cup SwappableDisk \cup Proxy \cup {Override}
    /\ Override \notin Fakes \cup Nat \cup Refs \cup Proxy
    /\ Fakes \cap Nat = {}
    /\ MaxEntries \in Nat

VARIABLES phase,     \* "registering", "configuring" (useFactory pending),
                     \*   "instantiating", "running", "failed"
          declared,  \* the refs registered with the module
          default,   \* ResolvedFlydriveConfig.default
          config,    \* ResolvedFlydriveConfig.disks: the ref of each entry
          disks,     \* DiskRegistry.disks: the SwappableDisk of each ref, or Unset
          injected,  \* what the consumers of a token hold: the SwappableDisk behind
                     \*   their proxy, as [ref, object], Override, or Unset
          objects,   \* how many SwappableDisks were made for each ref: the n-th
                     \*   is named n, and made by one call of the driver factory
          held,      \* the driver of the Disk that a method taken from a proxy is
                     \*   bound to, or Unset
          faked      \* history: the fake consumers of ref should reach, or Unset

module_vars == <<phase, declared, default, config>>
vars == <<module_vars, disks, injected, objects, held, faked>>

Tokens == Refs \cup {DefaultDisk}

Lists == BoundedSeq(Refs, MaxEntries)

(* fake() takes a driver, or a function that returns one.                  *)
FakeArguments == [form : {"instance", "factory"}, driver : Fakes]

-----------------------------------------------------------------------------
(* internal/validation.ts *)

NoDuplicateRefs(s) == IsInjective(s)
DefaultInDisks(ref, s) == ref \in ToSet(s)

(* The declared refs and those of the returned entries, compared as sets.  *)
DriversMatchDisks_ExtrasOnly(decl, returned) == ToSet(returned) \subseteq ToSet(decl)
DriversMatchDisks(decl, returned) == ToSet(returned) = ToSet(decl)

-----------------------------------------------------------------------------
Init ==
    /\ phase = "registering"
    /\ declared = <<>>
    /\ default = Unset
    /\ config = <<>>
    /\ disks = [ref \in Refs |-> Unset]
    /\ injected = [t \in Tokens |-> Unset]
    /\ objects = [ref \in Refs |-> 0]
    /\ held = Unset
    /\ faked = [ref \in Refs |-> Unset]

(* forRoot(): an invalid list is refused where the module is imported.     *)
ForRoot(s, ref) ==
    /\ phase = "registering"
    /\ declared' = s
    /\ default' = ref
    /\ IF NoDuplicateRefs(s) /\ DefaultInDisks(ref, s)
       THEN phase' = "instantiating" /\ config' = s
       ELSE phase' = "failed" /\ UNCHANGED config
    /\ UNCHANGED <<disks, injected, objects, held, faked>>

(* forRootAsync(): which driver builds which disk is the user factory's to *)
(* say.                                                                    *)
ForRootAsync(s, ref) ==
    /\ phase = "registering"
    /\ declared' = s
    /\ default' = ref
    /\ phase' = IF NoDuplicateRefs(s) /\ DefaultInDisks(ref, s)
                THEN "configuring" ELSE "failed"
    /\ UNCHANGED <<config, disks, injected, objects, held, faked>>

(* The config provider: await userFactory(), then validate what it returns.*)
UserFactoryReturns(s) ==
    /\ phase = "configuring"
    /\ IF DriversMatchDisks(declared, s)
       THEN phase' = "instantiating" /\ config' = s
       ELSE phase' = "failed" /\ UNCHANGED config
    /\ UNCHANGED <<declared, default, disks, injected, objects, held, faked>>

UserFactoryRejects ==
    /\ phase = "configuring"
    /\ phase' = "failed"
    /\ UNCHANGED <<declared, default, config, disks, injected, objects, held, faked>>

-----------------------------------------------------------------------------
(* DiskRegistry *)

(* config.disks.find((d) => d.ref === ref): the first entry wins.          *)
EntryOf(ref) == CHOOSE i \in DOMAIN config :
    config[i] = ref /\ \A j \in DOMAIN config : config[j] = ref => i <= j

(* `disks` after ensure(ref) of each of `refs`, in whatever order.         *)
Missing_Always(refs) == refs
Missing(refs) == {ref \in refs : disks[ref] = Unset}
Ensured(refs) ==
    [ref \in Refs |-> IF ref \in Missing(refs)
        THEN [object |-> objects[ref] + 1, original |-> EntryOf(ref), current |-> EntryOf(ref)]
        ELSE disks[ref]]
Counted(refs) ==
    [ref \in Refs |-> IF ref \in Missing(refs) THEN objects[ref] + 1 ELSE objects[ref]]

(* Nest instantiates the provider of a ref: registry.resolve(ref). Its     *)
(* consumers get the proxy of the SwappableDisk.                           *)
Instantiate(ref) ==
    /\ phase = "instantiating"
    /\ ref \in ToSet(declared)
    /\ injected[ref] = Unset
    /\ IF ref \in Overridden
       THEN injected' = [injected EXCEPT ![ref] = Override] /\ UNCHANGED <<disks, objects>>
       ELSE /\ ref \in ToSet(config)
            /\ disks' = Ensured({ref})
            /\ objects' = Counted({ref})
            /\ injected' = [injected EXCEPT
                   ![ref] = [ref |-> ref, object |-> Ensured({ref})[ref].object]]
    /\ UNCHANGED <<module_vars, held, faked>>

(* The alias: DefaultDisk is what the default ref was resolved to.         *)
DefaultDiskAlias ==
    /\ phase = "instantiating"
    /\ injected[DefaultDisk] = Unset
    /\ injected[default] # Unset
    /\ injected' = [injected EXCEPT ![DefaultDisk] = injected[default]]
    /\ UNCHANGED <<module_vars, disks, objects, held, faked>>

(* All providers are there: onModuleInit ensures every configured ref.     *)
OnModuleInit ==
    /\ phase = "instantiating"
    /\ \A t \in ToSet(declared) \cup {DefaultDisk} : injected[t] # Unset
    /\ disks' = Ensured(ToSet(config))
    /\ objects' = Counted(ToSet(config))
    /\ phase' = "running"
    /\ UNCHANGED <<declared, default, config, injected, held, faked>>

(* ensure() throws, in either of the two: a driver factory does, or a      *)
(* declared ref has no entry. Startup is over.                             *)
EnsureThrows ==
    /\ phase = "instantiating"
    /\ \E ref \in ToSet(config) \cup ToSet(declared) : disks[ref] = Unset
    /\ phase' = "failed"
    /\ UNCHANGED <<declared, default, config, disks, injected, objects, held, faked>>

-----------------------------------------------------------------------------
(* FlydriveTester. A ref that is not configured makes ensure() throw, and  *)
(* nothing changes.                                                        *)

Driver_Uncalled(arg) == IF arg.form = "factory" THEN Unset ELSE arg.driver
Driver(arg) == arg.driver

(* SwappableDisk.swap(): a new Disk behind the same proxy.                 *)
Swapped_NewObject(ref, d) ==
    [Ensured({ref}) EXCEPT ![ref].current = d, ![ref].object = @ + 1]
Swapped(ref, d) == [Ensured({ref}) EXCEPT ![ref].current = d]

Fake(ref, arg) ==
    /\ phase \in {"instantiating", "running"}
    /\ ref \in ToSet(config)
    /\ disks' = Swapped(ref, Driver(arg))
    /\ objects' = Counted({ref})
    /\ faked' = [faked EXCEPT ![ref] = arg.driver]
    /\ UNCHANGED <<module_vars, injected, held>>

Restored(ref) == [Ensured({ref}) EXCEPT ![ref].current = Ensured({ref})[ref].original]

Restore(ref) ==
    /\ phase \in {"instantiating", "running"}
    /\ ref \in ToSet(config)
    /\ disks' = Restored(ref)
    /\ objects' = Counted({ref})
    /\ faked' = [faked EXCEPT ![ref] = Unset]
    /\ UNCHANGED <<module_vars, injected, held>>

(* The disk a token was resolved to, unless to a test's override.          *)
Source(t) == IF injected[t] \in Proxy THEN injected[t].ref ELSE injected[t]

(* The proxy's get trap: a property is read from the Disk of the moment,   *)
(* and a method is bound to that Disk. The driver a call through the proxy *)
(* of `t` reaches; an object the registry has dropped is lost.             *)
Reached(t) ==
    IF injected[t] \notin Proxy THEN injected[t]
    ELSE LET disk == disks[Source(t)]
         IN  IF disk # Unset /\ disk.object = injected[t].object THEN disk.current ELSE Unset

(* A consumer takes a method from its disk: const { put } = disk.          *)
Take(t) ==
    /\ Reached(t) # Unset
    /\ held' = Reached(t)
    /\ UNCHANGED <<module_vars, disks, injected, objects, faked>>

Next ==
    \/ \E s \in Lists, ref \in Refs : ForRoot(s, ref) \/ ForRootAsync(s, ref)
    \/ \E s \in Lists : UserFactoryReturns(s)
    \/ UserFactoryRejects
    \/ \E ref \in Refs : Instantiate(ref) \/ Restore(ref)
    \/ DefaultDiskAlias
    \/ OnModuleInit
    \/ EnsureThrows
    \/ \E t \in Tokens : Take(t)
    \/ \E ref \in Refs, arg \in FakeArguments : Fake(ref, arg)

Spec == Init /\ [][Next]_vars

-----------------------------------------------------------------------------
(* Properties *)

(* The type invariant: a disk's driver is always a driver, never the       *)
(* function fake() was given.                                              *)
TypeOK ==
    /\ phase \in {"registering", "configuring", "instantiating", "running", "failed"}
    /\ declared \in Seq(Refs)
    /\ default \in Refs \cup {Unset}
    /\ config \in Seq(Refs)
    /\ disks \in [Refs -> SwappableDisk \cup {Unset}]
    /\ injected \in [Tokens -> Proxy \cup {Override, Unset}]
    /\ objects \in [Refs -> Nat]
    /\ held \in Fakes \cup 1..MaxEntries \cup {Override, Unset}
    /\ faked \in [Refs -> Fakes \cup {Unset}]

(* An application that runs has a disk for each ref it declared, also for  *)
(* those whose provider a test overrides, and its default disk is one of   *)
(* them: no resolve() of a declared ref throws or builds a driver late.    *)
RunningHasEveryDisk ==
    phase = "running" =>
        /\ \A ref \in ToSet(declared) : disks[ref] # Unset
        /\ default \in ToSet(declared)

(* "already-resolved consumers transparently see the new behaviour": a     *)
(* call through an injected disk reaches the last fake since restore(),    *)
(* or the configured driver if there is none, however often the tester     *)
(* intervened and whether before or after the injection; and "DefaultDisk  *)
(* and the chosen ref class always resolve to the same Disk instance".     *)
ConsumersFollowTester ==
    /\ \A t \in Tokens : Source(t) \in Refs =>
          Reached(t) = IF faked[Source(t)] # Unset THEN faked[Source(t)] ELSE EntryOf(Source(t))
    /\ injected[DefaultDisk] # Unset => injected[DefaultDisk] = injected[default]

(* The registry, its proxies and the tester implement the abstract disks:  *)
(* "Construction happens at most once per ref", whatever the order of      *)
(* instantiation, fakes and onModuleInit; and only the tester ever changes *)
(* what the calls of a consumer reach, never a call on another disk, a     *)
(* later injection or the end of the startup. A method that was taken from *)
(* a disk stays bound to the driver it was taken with: no fake reaches it. *)
Contract == INSTANCE DiskContract WITH
    Drivers <- 1..MaxEntries,
    \* built twice is no state of the contract
    built <- [ref \in Refs |-> IF disks[ref] = Unset THEN Unset
                               ELSE IF objects[ref] = 1 THEN disks[ref].original ELSE Override],
    current <- [ref \in Refs |-> IF disks[ref] = Unset THEN Unset ELSE disks[ref].current],
    source <- [t \in Tokens |-> Source(t)],
    reached <- [t \in Tokens |-> Reached(t)]

RefinesDisks == Contract!Spec

(* "The returned `drivers` array must have exactly one entry per ref class *)
(* in `disks`" (flydrive.module-config.ts). A run finds it violated.       *)
OneDriverPerRef ==
    phase \in {"instantiating", "running"} =>
        IsInjective(config) /\ ToSet(config) = ToSet(declared)
=============================================================================
