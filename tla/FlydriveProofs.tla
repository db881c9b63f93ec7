---------------------------- MODULE FlydriveProofs ----------------------------
(***************************************************************************)
(* Proofs about module Flydrive, for any disks, overrides, fakes and       *)
(* number of entries: the type invariant, what consumers reach, and that   *)
(* the registry, its proxies and the tester implement DiskContract.        *)
(***************************************************************************)
EXTENDS Flydrive, FiniteSetTheorems, WellFoundedInduction, TLAPS

(* The driver a disk should have now, and the disk itself.                 *)
Driven(ref) == IF faked[ref] # Unset THEN faked[ref] ELSE EntryOf(ref)
Disk(ref) == [object |-> 1, original |-> EntryOf(ref), current |-> Driven(ref)]

(* The registry holds nothing but the one disk it made for a ref of the    *)
(* configuration, and a fake never stands without it.                      *)
DisksInv ==
    \A ref \in Refs :
        \/ disks[ref] = Unset /\ objects[ref] = 0 /\ faked[ref] = Unset
        \/ disks[ref] = Disk(ref) /\ objects[ref] = 1 /\ ref \in ToSet(config)

(* Consumers hold the proxy of a disk the registry still has.              *)
ProxiesInv ==
    /\ \A t \in Tokens : injected[t] \in Proxy =>
          injected[t].object = 1 /\ disks[injected[t].ref] # Unset
    /\ injected[DefaultDisk] # Unset => injected[DefaultDisk] = injected[default]

(* What each phase of the startup has established.                         *)
PhasesInv ==
    /\ declared \in Lists /\ config \in Lists
    /\ phase \in {"registering", "configuring"} =>
          /\ \A ref \in Refs : disks[ref] = Unset
          /\ \A t \in Tokens : injected[t] = Unset
    /\ phase \in {"configuring", "instantiating", "running"} => default \in ToSet(declared)
    /\ phase \in {"instantiating", "running"} => ToSet(config) = ToSet(declared)
    /\ phase = "running" => \A ref \in ToSet(declared) : disks[ref] # Unset

IInv == TypeOK /\ DisksInv /\ ProxiesInv /\ PhasesInv

-----------------------------------------------------------------------------
(* Every set of indices has a least one.                                   *)
LEMMA LeastIndex ==
    ASSUME NEW T \in SUBSET Nat, T # {}
    PROVE  \E i \in T : \A j \in T : i <= j
<1> DEFINE W == {0..i : i \in T}
<1>1. W \subseteq FiniteSubsetsOf(Nat) /\ W # {}
  <2>1. ASSUME NEW i \in T  PROVE 0..i \in FiniteSubsetsOf(Nat)
    <3>1. IsFiniteSet(0..i)
      <4>1. 0 \in Int /\ i \in Int
        OBVIOUS
      <4> QED
        BY <4>1, FS_Interval
    <3>2. 0..i \in SUBSET Nat
      OBVIOUS
    <3> QED
      BY <3>1, <3>2, Zenon DEF FiniteSubsetsOf
  <2> QED
    BY <2>1
<1>2. \E w \in W : \A v \in W : <<v, w>> \notin StrictSubsetOrdering(Nat)
  <2> HIDE DEF W
  <2>1. IsWellFoundedOn(StrictSubsetOrdering(Nat), FiniteSubsetsOf(Nat))
    BY FS_StrictSubsetOrderingWellFounded
  <2> QED
    BY <1>1, <2>1, WFMin
<1>3. PICK i \in T : \A j \in T : <<0..j, 0..i>> \notin StrictSubsetOrdering(Nat)
  BY <1>2
<1>4. ASSUME NEW j \in T, j < i  PROVE FALSE
  <2>1. 0..j \subseteq 0..i /\ i \in 0..i /\ i \notin 0..j
    BY <1>4
  <2>2. 0..j \in SUBSET Nat /\ 0..i \in SUBSET Nat
    OBVIOUS
  <2> QED
    BY <1>3, <2>1, <2>2 DEF StrictSubsetOrdering
<1> QED
  BY <1>4

(* A configured ref has an entry, and EntryOf is one of its indices.       *)
LEMMA EntryOfRange ==
    ASSUME PhasesInv, NEW ref \in ToSet(config)
    PROVE  EntryOf(ref) \in 1..MaxEntries
<1> DEFINE I == {i \in DOMAIN config : config[i] = ref}
<1>1. PICK n \in 0..MaxEntries : config \in [1..n -> Refs]
  BY DEF PhasesInv, Lists, BoundedSeq, SeqOf
<1>2. I \subseteq 1..n /\ n \in Nat
  BY <1>1, FlydriveAssumption
<1>3. I # {}
  BY DEF ToSet
<1>4. I \in SUBSET Nat
  BY <1>2
<1> HIDE DEF I
<1>5. \E i \in I : \A j \in I : i <= j
  BY <1>3, <1>4, LeastIndex
<1>6. \E i \in DOMAIN config :
        config[i] = ref /\ \A j \in DOMAIN config : config[j] = ref => i <= j
  BY <1>5 DEF I
<1>7. EntryOf(ref) \in DOMAIN config
  BY <1>6 DEF EntryOf
<1> QED
  BY <1>1, <1>7, FlydriveAssumption

(* The lists of the registration are lists of refs.                        *)
LEMMA ListType ==
    ASSUME NEW s \in Lists
    PROVE  s \in Seq(Refs) /\ ToSet(s) \subseteq Refs
<1>1. PICK n \in 0..MaxEntries : s \in [1..n -> Refs]
  BY DEF Lists, BoundedSeq, SeqOf
<1>2. n \in Nat
  BY FlydriveAssumption
<1> QED
  BY <1>1, <1>2 DEF ToSet

(* What a disk that exists is: never Unset, never twice.                   *)
LEMMA DiskType ==
    ASSUME IInv, NEW ref \in ToSet(config)
    PROVE  /\ ref \in Refs
           /\ Disk(ref) \in SwappableDisk
           /\ Disk(ref) # Unset
           /\ Driven(ref) \in Fakes \cup 1..MaxEntries
           /\ Driven(ref) # Unset
<1>1. ref \in Refs
  BY ListType DEF IInv, PhasesInv
<1>2. EntryOf(ref) \in 1..MaxEntries
  BY EntryOfRange DEF IInv
<1>3. Driven(ref) \in Fakes \cup 1..MaxEntries
  BY <1>1, <1>2 DEF Driven, IInv, TypeOK
<1>4. Disk(ref) \in SwappableDisk
  BY <1>2, <1>3 DEF Disk, SwappableDisk
<1>5. 1..MaxEntries \subseteq Nat
  BY FlydriveAssumption
<1> QED
  BY <1>1, <1>3, <1>4, <1>5, FlydriveAssumption

(* ensure() leaves the disks there are alone, and makes the others as they *)
(* should be.                                                              *)
LEMMA EnsuredDisks ==
    ASSUME IInv, NEW S \in SUBSET ToSet(config), NEW ref \in Refs
    PROVE  /\ ref \in S \/ disks[ref] # Unset =>
                Ensured(S)[ref] = Disk(ref) /\ Counted(S)[ref] = 1
           /\ ref \notin S /\ disks[ref] = Unset =>
                Ensured(S)[ref] = Unset /\ Counted(S)[ref] = 0
<1>1. CASE disks[ref] # Unset
  BY <1>1 DEF IInv, DisksInv, Ensured, Counted, Missing
<1>2. CASE disks[ref] = Unset /\ ref \in S
  <2>1. ref \in Missing(S)
    BY <1>2 DEF Missing
  <2>2. objects[ref] = 0 /\ faked[ref] = Unset
    BY <1>2, DiskType DEF IInv, DisksInv
  <2> QED
    BY <1>2, <2>1, <2>2 DEF Ensured, Counted, Disk, Driven
<1>3. CASE disks[ref] = Unset /\ ref \notin S
  <2>1. objects[ref] = 0
    BY <1>3, DiskType DEF IInv, DisksInv
  <2> QED
    BY <1>3, <2>1 DEF Ensured, Counted, Missing
<1> QED
  BY <1>1, <1>2, <1>3

-----------------------------------------------------------------------------
(* The inductive invariant holds initially and is preserved.               *)
LEMMA InitInv == Init => IInv
<1> SUFFICES ASSUME Init PROVE IInv
  OBVIOUS
<1>1. <<>> \in Lists /\ <<>> \in Seq(Refs)
  <2>1. <<>> \in [1..0 -> Refs] /\ 0 \in 0..MaxEntries
    BY FlydriveAssumption
  <2> QED
    BY <2>1 DEF Lists, BoundedSeq, SeqOf
<1>2. TypeOK
  BY <1>1 DEF Init, TypeOK
<1>3. Unset \notin Proxy
  BY FlydriveAssumption
<1> QED
  BY <1>1, <1>2, <1>3 DEF Init, IInv, DisksInv, ProxiesInv, PhasesInv, Tokens

(* What registration does to the invariant: nothing is there yet.          *)
LEMMA RegistrationStep ==
    ASSUME IInv,
           \/ \E s \in Lists, ref \in Refs : ForRoot(s, ref) \/ ForRootAsync(s, ref)
           \/ \E s \in Lists : UserFactoryReturns(s)
           \/ UserFactoryRejects
    PROVE  IInv'
<1>1. UNCHANGED <<disks, injected, objects, held, faked>> /\ phase \in {"registering", "configuring"}
  BY DEF ForRoot, ForRootAsync, UserFactoryReturns, UserFactoryRejects
<1>2. (\A ref \in Refs : disks[ref] = Unset) /\ (\A t \in Tokens : injected[t] = Unset)
  BY <1>1 DEF IInv, PhasesInv
<1>3. declared' \in Lists /\ config' \in Lists
  BY DEF ForRoot, ForRootAsync, UserFactoryReturns, UserFactoryRejects, IInv, PhasesInv
<1>4. TypeOK'
  <2>1. declared' \in Seq(Refs) /\ config' \in Seq(Refs)
    BY <1>3, ListType
  <2>2. phase' \in {"configuring", "instantiating", "failed"} /\ default' \in Refs \cup {Unset}
    BY DEF ForRoot, ForRootAsync, UserFactoryReturns, UserFactoryRejects, IInv, TypeOK
  <2> QED
    BY <1>1, <2>1, <2>2 DEF IInv, TypeOK
<1>5. DisksInv'
  <2>1. \A ref \in Refs : objects[ref] = 0 /\ faked[ref] = Unset
    <3> SUFFICES ASSUME NEW ref \in Refs PROVE objects[ref] = 0 /\ faked[ref] = Unset
      OBVIOUS
    <3>1. disks[ref] # Disk(ref) \/ ref \notin ToSet(config)
      BY <1>2, DiskType
    <3> QED
      BY <3>1 DEF IInv, DisksInv
  <2> QED
    BY <1>1, <1>2, <2>1 DEF DisksInv
<1>6. ProxiesInv'
  BY <1>1, <1>2, FlydriveAssumption DEF ProxiesInv, Tokens
<1>7. PhasesInv'
  <2>1. phase' \in {"configuring", "instantiating", "running"} => default' \in ToSet(declared')
    BY DEF ForRoot, ForRootAsync, UserFactoryReturns, UserFactoryRejects, IInv, PhasesInv, DefaultInDisks
  <2>2. phase' \in {"instantiating", "running"} => ToSet(config') = ToSet(declared')
    BY DEF ForRoot, ForRootAsync, UserFactoryReturns, UserFactoryRejects, DriversMatchDisks
  <2>3. phase' # "running"
    BY DEF ForRoot, ForRootAsync, UserFactoryReturns, UserFactoryRejects
  <2> QED
    BY <1>1, <1>2, <1>3, <2>1, <2>2, <2>3 DEF PhasesInv
<1> QED
  BY <1>4, <1>5, <1>6, <1>7 DEF IInv

(* A step that builds the disks of S and leaves everything else alone      *)
(* keeps the registry right.                                               *)
LEMMA EnsureStep ==
    ASSUME IInv, NEW S \in SUBSET ToSet(config),
           config' = config, faked' = faked,
           disks' = Ensured(S), objects' = Counted(S)
    PROVE  /\ DisksInv'
           /\ disks' \in [Refs -> SwappableDisk \cup {Unset}] /\ objects' \in [Refs -> Nat]
           /\ \A ref \in Refs : ref \in S \/ disks[ref] # Unset => disks'[ref] = Disk(ref) /\ disks'[ref] # Unset
<1>1. \A ref \in Refs : Disk(ref)' = Disk(ref)
  BY DEF Disk, Driven, EntryOf
<1>2. ASSUME NEW ref \in Refs
      PROVE  \/ /\ disks[ref] = Unset /\ ref \notin S
                /\ disks'[ref] = Unset /\ objects'[ref] = 0 /\ faked[ref] = Unset
             \/ /\ disks'[ref] = Disk(ref) /\ objects'[ref] = 1 /\ ref \in ToSet(config)
                /\ Disk(ref) \in SwappableDisk /\ Disk(ref) # Unset
  <2>1. CASE ref \in S \/ disks[ref] # Unset
    <3>1. ref \in ToSet(config)
      BY <2>1 DEF IInv, DisksInv
    <3> QED
      BY <2>1, <3>1, EnsuredDisks, DiskType
  <2>2. CASE ref \notin S /\ disks[ref] = Unset
    <3>1. faked[ref] = Unset
      BY <2>2, DiskType DEF IInv, DisksInv
    <3> QED
      BY <2>2, <3>1, EnsuredDisks
  <2> QED
    BY <2>1, <2>2
<1>3. DisksInv'
  BY <1>1, <1>2 DEF DisksInv
<1>4. disks' = [ref \in Refs |-> disks'[ref]] /\ objects' = [ref \in Refs |-> objects'[ref]]
  BY DEF Ensured, Counted
<1>5. \A ref \in Refs : disks'[ref] \in SwappableDisk \cup {Unset} /\ objects'[ref] \in Nat
  BY <1>2
<1> QED
  BY <1>2, <1>3, <1>4, <1>5

(* What consumers hold is not disturbed by disks that are added.           *)
LEMMA ProxiesStay ==
    ASSUME IInv, UNCHANGED <<injected, default>>,
           \A ref \in Refs : disks[ref] # Unset => disks'[ref] # Unset
    PROVE  ProxiesInv'
BY DEF IInv, TypeOK, ProxiesInv, Proxy

LEMMA InstantiateStep ==
    ASSUME IInv, NEW ref \in Refs, Instantiate(ref)
    PROVE  IInv'
<1>1. /\ phase = "instantiating" /\ ref \in ToSet(config) /\ injected[ref] = Unset
      /\ UNCHANGED <<module_vars, held, faked>>
  BY DEF Instantiate, IInv, PhasesInv
<1>2. CASE ref \in Overridden
  <2>1. injected' = [injected EXCEPT ![ref] = Override] /\ UNCHANGED <<disks, objects>>
    BY <1>2 DEF Instantiate
  <2>2. TypeOK'
    BY <1>1, <2>1 DEF IInv, TypeOK, module_vars, Tokens
  <2>3. DisksInv'
    BY <1>1, <2>1 DEF IInv, DisksInv, Disk, Driven, EntryOf, module_vars
  <2>4. ProxiesInv'
    BY <1>1, <2>1, FlydriveAssumption
       DEF IInv, TypeOK, ProxiesInv, PhasesInv, Tokens, module_vars, Proxy
  <2>5. PhasesInv'
    BY <1>1, <2>1 DEF IInv, PhasesInv, module_vars
  <2> QED
    BY <2>2, <2>3, <2>4, <2>5 DEF IInv
<1>3. CASE ref \notin Overridden
  <2>1. /\ disks' = Ensured({ref}) /\ objects' = Counted({ref})
        /\ injected' = [injected EXCEPT
               ![ref] = [ref |-> ref, object |-> Ensured({ref})[ref].object]]
    BY <1>3 DEF Instantiate
  <2>2. /\ DisksInv'
        /\ disks' \in [Refs -> SwappableDisk \cup {Unset}] /\ objects' \in [Refs -> Nat]
        /\ \A r \in Refs : r = ref \/ disks[r] # Unset => disks'[r] = Disk(r) /\ disks'[r] # Unset
    BY <1>1, <2>1, EnsureStep DEF module_vars
  <2>3. injected' = [injected EXCEPT ![ref] = [ref |-> ref, object |-> 1]]
    <3>1. Ensured({ref})[ref] = Disk(ref)
      BY <2>1, <2>2
    <3>2. Disk(ref).object = 1
      BY DEF Disk
    <3> QED
      BY <2>1, <3>1, <3>2
  <2>4. TypeOK'
    BY <1>1, <2>2, <2>3 DEF IInv, TypeOK, module_vars, Tokens, Proxy
  <2>5. ProxiesInv'
    BY <1>1, <2>2, <2>3, FlydriveAssumption
       DEF IInv, TypeOK, ProxiesInv, PhasesInv, Tokens, module_vars, Proxy
  <2>6. PhasesInv'
    BY <1>1, <2>2, ListType DEF IInv, PhasesInv, module_vars
  <2> QED
    BY <2>2, <2>4, <2>5, <2>6 DEF IInv
<1> QED
  BY <1>2, <1>3

LEMMA AliasStep ==
    ASSUME IInv, DefaultDiskAlias
    PROVE  IInv'
<1>1. /\ phase = "instantiating"
      /\ injected' = [injected EXCEPT ![DefaultDisk] = injected[default]]
      /\ UNCHANGED <<module_vars, disks, objects, held, faked>>
  BY DEF DefaultDiskAlias
<1>2. default \in Refs
  BY <1>1, ListType DEF IInv, PhasesInv
<1>3. TypeOK'
  BY <1>1, <1>2 DEF IInv, TypeOK, module_vars, Tokens
<1>4. DisksInv'
  BY <1>1 DEF IInv, DisksInv, Disk, Driven, EntryOf, module_vars
<1>5. ProxiesInv'
  BY <1>1, <1>2, FlydriveAssumption DEF IInv, TypeOK, ProxiesInv, Tokens, module_vars
<1>6. PhasesInv'
  BY <1>1 DEF IInv, PhasesInv, module_vars
<1> QED
  BY <1>3, <1>4, <1>5, <1>6 DEF IInv

LEMMA OnModuleInitStep ==
    ASSUME IInv, OnModuleInit
    PROVE  IInv'
<1>1. /\ phase = "instantiating" /\ phase' = "running"
      /\ UNCHANGED <<declared, default, config, injected, held, faked>>
      /\ disks' = Ensured(ToSet(config)) /\ objects' = Counted(ToSet(config))
  BY DEF OnModuleInit
<1>2. /\ DisksInv'
      /\ disks' \in [Refs -> SwappableDisk \cup {Unset}] /\ objects' \in [Refs -> Nat]
      /\ \A r \in Refs : r \in ToSet(config) \/ disks[r] # Unset => disks'[r] # Unset
  BY <1>1, EnsureStep
<1>3. TypeOK'
  BY <1>1, <1>2 DEF IInv, TypeOK
<1>4. ProxiesInv'
  BY <1>1, <1>2, ProxiesStay
<1>5. PhasesInv'
  BY <1>1, <1>2, ListType DEF IInv, PhasesInv
<1> QED
  BY <1>2, <1>3, <1>4, <1>5 DEF IInv

(* fake() and restore(): a disk is ensured and then gets the driver d,     *)
(* which is remembered as f if it is a fake.                               *)
LEMMA TesterStep ==
    ASSUME IInv, NEW ref \in ToSet(config), NEW f \in Fakes \cup {Unset},
           phase \in {"instantiating", "running"},
           UNCHANGED <<module_vars, injected, held>>,
           faked' = [faked EXCEPT ![ref] = f],
           objects' = Counted({ref}),
           disks' = [Ensured({ref}) EXCEPT
               ![ref].current = IF f = Unset THEN EntryOf(ref) ELSE f]
    PROVE  /\ IInv'
           /\ disks'[ref] = [object |-> 1, original |-> EntryOf(ref),
                             current |-> IF f = Unset THEN EntryOf(ref) ELSE f]
           /\ \A r \in Refs \ {ref} : disks'[r] = disks[r]
<1>1. ref \in Refs
  BY DiskType
<1>2. Ensured({ref})[ref] = Disk(ref) /\ objects'[ref] = 1
  BY <1>1, EnsuredDisks
<1>3. disks'[ref] = [object |-> 1, original |-> EntryOf(ref),
                     current |-> IF f = Unset THEN EntryOf(ref) ELSE f]
  <2>1. ref \in DOMAIN Ensured({ref})
    BY <1>1 DEF Ensured
  <2> QED
    BY <1>2, <2>1 DEF Disk
<1>4. \A r \in Refs \ {ref} : disks'[r] = disks[r] /\ objects'[r] = objects[r]
  BY <1>1 DEF Ensured, Counted, Missing
<1>5. disks'[ref] \in SwappableDisk /\ disks'[ref] # Unset
  <2>1. EntryOf(ref) \in 1..MaxEntries
    BY EntryOfRange DEF IInv
  <2>2. disks'[ref] \in SwappableDisk
    BY <1>3, <2>1 DEF SwappableDisk
  <2> QED
    BY <2>2, FlydriveAssumption
<1>6. TypeOK'
  <2>1. disks' = [r \in Refs |-> disks'[r]] /\ objects' = [r \in Refs |-> objects'[r]]
    BY DEF Ensured, Counted
  <2>2. ASSUME NEW r \in Refs
        PROVE  disks'[r] \in SwappableDisk \cup {Unset} /\ objects'[r] \in Nat
    <3>1. CASE r = ref
      BY <3>1, <1>2, <1>5
    <3>2. CASE r # ref
      BY <3>2, <1>4 DEF IInv, TypeOK
    <3> QED
      BY <3>1, <3>2
  <2>3. disks' \in [Refs -> SwappableDisk \cup {Unset}] /\ objects' \in [Refs -> Nat]
    BY <2>1, <2>2
  <2> QED
    BY <1>1, <2>3 DEF IInv, TypeOK, module_vars
<1>7. DisksInv'
  <2>1. \A r \in Refs \ {ref} : faked'[r] = faked[r]
    BY DEF IInv, TypeOK
  <2>2. \A r \in Refs \ {ref} : Disk(r)' = Disk(r)
    BY <2>1 DEF Disk, Driven, EntryOf, module_vars
  <2>3. disks'[ref] = Disk(ref)'
    <3>1. faked'[ref] = f
      BY <1>1 DEF IInv, TypeOK
    <3>2. Driven(ref)' = IF f = Unset THEN EntryOf(ref) ELSE f
      BY <3>1 DEF Driven, EntryOf, module_vars
    <3>3. Disk(ref)' = [object |-> 1, original |-> EntryOf(ref), current |-> Driven(ref)']
      BY DEF Disk, EntryOf, module_vars
    <3> QED
      BY <1>3, <3>2, <3>3
  <2> QED
    BY <1>2, <1>4, <2>1, <2>2, <2>3 DEF IInv, DisksInv, module_vars
<1>8. ProxiesInv'
  BY <1>4, <1>5, ProxiesStay DEF module_vars
<1>9. PhasesInv'
  BY <1>4, <1>5, ListType DEF IInv, PhasesInv, module_vars
<1> QED
  BY <1>3, <1>4, <1>6, <1>7, <1>8, <1>9 DEF IInv

LEMMA FakeStep ==
    ASSUME IInv, NEW ref \in Refs, NEW arg \in FakeArguments, Fake(ref, arg)
    PROVE  /\ IInv'
           /\ disks'[ref] = [object |-> 1, original |-> EntryOf(ref), current |-> arg.driver]
           /\ \A r \in Refs \ {ref} : disks'[r] = disks[r]
<1>1. arg.driver \in Fakes /\ arg.driver # Unset
  BY FlydriveAssumption DEF FakeArguments
<1>2. disks' = [Ensured({ref}) EXCEPT
          ![ref].current = IF arg.driver = Unset THEN EntryOf(ref) ELSE arg.driver]
  BY <1>1 DEF Fake, Swapped, Driver
<1> QED
  BY <1>1, <1>2, TesterStep DEF Fake

LEMMA RestoreStep ==
    ASSUME IInv, NEW ref \in Refs, Restore(ref)
    PROVE  /\ IInv'
           /\ disks'[ref] = [object |-> 1, original |-> EntryOf(ref), current |-> EntryOf(ref)]
           /\ \A r \in Refs \ {ref} : disks'[r] = disks[r]
<1>1. Ensured({ref})[ref] = Disk(ref)
  BY EnsuredDisks DEF Restore
<1>2. disks' = [Ensured({ref}) EXCEPT ![ref].current = EntryOf(ref)]
  <2>1. Ensured({ref})[ref].original = EntryOf(ref)
    BY <1>1 DEF Disk
  <2> QED
    BY <2>1, Zenon DEF Restore, Restored
<1> QED
  BY <1>2, TesterStep DEF Restore

LEMMA Inductive == IInv /\ [Next]_vars => IInv'
<1> SUFFICES ASSUME IInv, [Next]_vars PROVE IInv'
  OBVIOUS
<1>1. CASE \/ \E s \in Lists, ref \in Refs : ForRoot(s, ref) \/ ForRootAsync(s, ref)
           \/ \E s \in Lists : UserFactoryReturns(s)
           \/ UserFactoryRejects
  BY <1>1, RegistrationStep
<1>2. CASE \E ref \in Refs : Instantiate(ref)
  BY <1>2, InstantiateStep
<1>3. CASE DefaultDiskAlias
  BY <1>3, AliasStep
<1>4. CASE OnModuleInit
  BY <1>4, OnModuleInitStep
<1>5. CASE \E ref \in Refs, arg \in FakeArguments : Fake(ref, arg)
  BY <1>5, FakeStep
<1>6. CASE \E ref \in Refs : Restore(ref)
  BY <1>6, RestoreStep
<1>7. CASE EnsureThrows \/ (\E t \in Tokens : Take(t)) \/ UNCHANGED vars
  <2>1. UNCHANGED <<declared, default, config, disks, injected, objects, faked>>
    BY <1>7 DEF EnsureThrows, Take, vars, module_vars
  <2>2. phase' = phase \/ phase' = "failed"
    BY <1>7 DEF EnsureThrows, Take, vars, module_vars
  <2>3. held' = held \/ \E t \in Tokens : held' = Reached(t)
    BY <1>7 DEF EnsureThrows, Take, vars
  <2>4. TypeOK'
    <3>1. ASSUME NEW t \in Tokens
          PROVE  Reached(t) \in Fakes \cup 1..MaxEntries \cup {Override, Unset}
      <4>1. CASE injected[t] \notin Proxy
        BY <4>1 DEF IInv, TypeOK, Reached
      <4>2. CASE injected[t] \in Proxy
        <5>1. Source(t) \in Refs
          BY <4>2 DEF Source, Proxy
        <5>2. disks[Source(t)] \in SwappableDisk \cup {Unset}
          BY <5>1 DEF IInv, TypeOK
        <5> QED
          BY <4>2, <5>2 DEF Reached, SwappableDisk
      <4> QED
        BY <4>1, <4>2
    <3> QED
      BY <2>1, <2>2, <2>3, <3>1 DEF IInv, TypeOK
  <2>5. DisksInv'
    BY <2>1 DEF IInv, DisksInv, Disk, Driven, EntryOf
  <2>6. ProxiesInv'
    BY <2>1 DEF IInv, ProxiesInv
  <2>7. PhasesInv'
    BY <2>1, <2>2 DEF IInv, PhasesInv
  <2> QED
    BY <2>4, <2>5, <2>6, <2>7 DEF IInv
<1> QED
  BY <1>1, <1>2, <1>3, <1>4, <1>5, <1>6, <1>7 DEF Next

LEMMA Invariance == Spec => []IInv
BY InitInv, Inductive, PTL DEF Spec

-----------------------------------------------------------------------------
(* A disk's driver is always a driver, never the function that fake() was  *)
(* given, and consumers never hold anything but a proxy or an override.    *)
THEOREM TypeCorrect == Spec => []TypeOK
<1>1. IInv => TypeOK
  BY DEF IInv
<1> QED
  BY <1>1, Invariance, PTL

(* An application that runs has a disk for each ref it declared.           *)
THEOREM RunningCorrect == Spec => []RunningHasEveryDisk
<1>1. IInv => RunningHasEveryDisk
  BY DEF IInv, PhasesInv, RunningHasEveryDisk
<1> QED
  BY <1>1, Invariance, PTL

(* What consumers hold leads to a disk the registry has, with the driver   *)
(* it should have.                                                         *)
LEMMA Follows ==
    ASSUME IInv, NEW t \in Tokens
    PROVE  /\ Source(t) \in Refs => disks[Source(t)] = Disk(Source(t)) /\ disks[Source(t)] # Unset
           /\ Reached(t) = IF Source(t) \in Refs THEN disks[Source(t)].current ELSE Source(t)
           /\ injected[t] = Unset <=> Source(t) = Unset
           /\ Source(t) \in Refs \cup {Override, Unset}
<1>1. CASE injected[t] \notin Proxy
  BY <1>1, FlydriveAssumption DEF IInv, TypeOK, Source, Reached
<1>2. CASE injected[t] \in Proxy
  <2>1. Source(t) = injected[t].ref /\ Source(t) \in Refs
    BY <1>2 DEF Source, Proxy
  <2>2. injected[t].object = 1 /\ disks[Source(t)] # Unset
    BY <1>2, <2>1 DEF IInv, ProxiesInv
  <2>3. disks[Source(t)] = Disk(Source(t))
    BY <2>1, <2>2 DEF IInv, DisksInv
  <2>4. Disk(Source(t)).object = 1
    BY DEF Disk
  <2>5. Reached(t) = disks[Source(t)].current
    BY <1>2, <2>2, <2>3, <2>4 DEF Reached
  <2>6. Source(t) # Unset /\ injected[t] # Unset
    BY <1>2, <2>1, FlydriveAssumption
  <2> QED
    BY <2>1, <2>2, <2>3, <2>5, <2>6
<1> QED
  BY <1>1, <1>2

(* A call through an injected disk reaches the last fake since restore(),  *)
(* or the configured driver; and DefaultDisk is the default disk.          *)
THEOREM ConsumersCorrect == Spec => []ConsumersFollowTester
<1>1. IInv => ConsumersFollowTester
  <2> SUFFICES ASSUME IInv PROVE ConsumersFollowTester
    OBVIOUS
  <2>1. ASSUME NEW t \in Tokens, Source(t) \in Refs
        PROVE  Reached(t) = IF faked[Source(t)] # Unset THEN faked[Source(t)] ELSE EntryOf(Source(t))
    <3>1. Reached(t) = Disk(Source(t)).current
      BY <2>1, Follows
    <3> QED
      BY <3>1 DEF Disk, Driven
  <2>2. injected[DefaultDisk] # Unset => injected[DefaultDisk] = injected[default]
    BY DEF IInv, ProxiesInv
  <2> QED
    BY <2>1, <2>2 DEF ConsumersFollowTester
<1> QED
  BY <1>1, Invariance, PTL

-----------------------------------------------------------------------------
(* The refinement. The variables of DiskContract as functions of the       *)
(* module's: what Contract puts in their place.                            *)
BuiltBar == [ref \in Refs |-> IF disks[ref] = Unset THEN Unset
                              ELSE IF objects[ref] = 1 THEN disks[ref].original ELSE Override]
CurrentBar == [ref \in Refs |-> IF disks[ref] = Unset THEN Unset ELSE disks[ref].current]
SourceBar == [t \in Tokens |-> Source(t)]
ReachedBar == [t \in Tokens |-> Reached(t)]

(* Every token follows its disk: the abstract specification's Follow.      *)
TokensFollow ==
    ReachedBar = [t \in Tokens |->
        IF SourceBar[t] \in Refs THEN CurrentBar[SourceBar[t]] ELSE SourceBar[t]]

LEMMA FollowsBar == IInv => TokensFollow
<1> SUFFICES ASSUME IInv PROVE TokensFollow
  OBVIOUS
<1>1. ASSUME NEW t \in Tokens
      PROVE  Reached(t) = IF Source(t) \in Refs THEN CurrentBar[Source(t)] ELSE Source(t)
  BY Follows DEF CurrentBar
<1> QED
  BY <1>1 DEF TokensFollow, ReachedBar, SourceBar

LEMMA FollowsBarPrime == IInv' => TokensFollow'
BY FollowsBar, PTL

(* The value of the mapping at a disk, by whether it has been built.       *)
LEMMA DiskBar ==
    ASSUME IInv, NEW ref \in Refs
    PROVE  /\ disks[ref] = Unset => BuiltBar[ref] = Unset /\ CurrentBar[ref] = Unset
           /\ disks[ref] # Unset => /\ BuiltBar[ref] = EntryOf(ref) /\ CurrentBar[ref] = Driven(ref)
                                     /\ EntryOf(ref) \in 1..MaxEntries
                                     /\ EntryOf(ref) # Unset
<1>1. CASE disks[ref] = Unset
  BY <1>1 DEF BuiltBar, CurrentBar
<1>2. CASE disks[ref] # Unset
  <2>1. disks[ref] = Disk(ref) /\ objects[ref] = 1 /\ ref \in ToSet(config)
    BY <1>2 DEF IInv, DisksInv
  <2>2. Disk(ref).original = EntryOf(ref) /\ Disk(ref).current = Driven(ref)
    BY DEF Disk
  <2>3. EntryOf(ref) \in 1..MaxEntries /\ 1..MaxEntries \subseteq Nat
    BY <2>1, EntryOfRange, FlydriveAssumption DEF IInv
  <2>4. EntryOf(ref) # Unset
    BY <2>3, FlydriveAssumption
  <2> QED
    BY <1>2, <2>1, <2>2, <2>3, <2>4 DEF BuiltBar, CurrentBar
<1> QED
  BY <1>1, <1>2

DisksBuilt == \A ref \in Refs : disks[ref] # Unset => BuiltBar[ref] = EntryOf(ref) /\ BuiltBar[ref] # Unset

LEMMA BuiltBarLemma == IInv => DisksBuilt
BY DiskBar DEF DisksBuilt

LEMMA BuiltBarPrime == IInv' => DisksBuilt'
BY BuiltBarLemma, PTL

(* A step that adds disks and leaves those there are alone is a Build of   *)
(* the contract.                                                           *)
LEMMA BuildBar ==
    ASSUME IInv, IInv', UNCHANGED config, NEW S \in SUBSET Refs,
           \A r \in Refs : disks'[r] = disks[r] \/ (r \in S /\ disks[r] = Unset),
           UNCHANGED faked
    PROVE  /\ BuiltBar' \in [Refs -> 1..MaxEntries \cup {Unset}]
           /\ \A d \in Refs : BuiltBar'[d] # BuiltBar[d] => d \in S /\ BuiltBar[d] = Unset
           /\ CurrentBar' = [d \in Refs |->
                  IF BuiltBar'[d] # BuiltBar[d] THEN BuiltBar'[d] ELSE CurrentBar[d]]
<1>1. ASSUME NEW r \in Refs
      PROVE  /\ BuiltBar'[r] \in 1..MaxEntries \cup {Unset}
             /\ BuiltBar'[r] # BuiltBar[r] => r \in S /\ BuiltBar[r] = Unset
             /\ CurrentBar'[r] = IF BuiltBar'[r] # BuiltBar[r] THEN BuiltBar'[r] ELSE CurrentBar[r]
  <2>1. EntryOf(r)' = EntryOf(r) /\ Driven(r)' = Driven(r)
    BY DEF Driven, EntryOf
  <2>2. /\ disks'[r] = Unset => BuiltBar'[r] = Unset /\ CurrentBar'[r] = Unset
        /\ disks'[r] # Unset => /\ BuiltBar'[r] = EntryOf(r) /\ CurrentBar'[r] = Driven(r)
                                /\ EntryOf(r) \in 1..MaxEntries
                                /\ EntryOf(r) # Unset
    <3>1. (disks'[r] # Unset => disks'[r] = Disk(r)' /\ objects'[r] = 1) /\ (disks'[r] # Unset => r \in ToSet(config))
      BY DEF IInv, DisksInv
    <3>2. disks'[r] = Unset => BuiltBar'[r] = Unset /\ CurrentBar'[r] = Unset
      BY DEF BuiltBar, CurrentBar
    <3>3. Disk(r)' = [object |-> 1, original |-> EntryOf(r), current |-> Driven(r)]
      BY DEF Disk, Driven, EntryOf
    <3>4. disks'[r] # Unset => BuiltBar'[r] = EntryOf(r) /\ CurrentBar'[r] = Driven(r)
      BY <3>1, <3>3 DEF BuiltBar, CurrentBar
    <3>5. disks'[r] # Unset => EntryOf(r) \in 1..MaxEntries /\ 1..MaxEntries \subseteq Nat
      BY <3>1, EntryOfRange, FlydriveAssumption DEF IInv
    <3> QED
      BY <3>2, <3>4, <3>5, FlydriveAssumption
  <2>3. disks[r] = Unset /\ disks'[r] # Unset => Driven(r) = EntryOf(r)
    <3>1. DisksInv
      BY DEF IInv
    <3>2. faked[r] = Unset \/ (disks[r] = Disk(r) /\ r \in ToSet(config))
      BY <3>1, Zenon DEF DisksInv
    <3>3. r \in ToSet(config) => Disk(r) # Unset
      BY DiskType
    <3> QED
      BY <3>2, <3>3 DEF Driven
  <2> QED
    BY <2>2, <2>3, DiskBar
<1>2. BuiltBar' = [d \in Refs |-> BuiltBar'[d]] /\ CurrentBar' = [d \in Refs |-> CurrentBar'[d]]
  BY DEF BuiltBar, CurrentBar
<1> QED
  BY <1>1, <1>2

(* The contract's steps, in terms of the mapping.                          *)
BuildsBar(S) ==
    /\ BuiltBar' \in [Refs -> 1..MaxEntries \cup {Unset}]
    /\ \A d \in Refs : BuiltBar'[d] # BuiltBar[d] => d \in S /\ BuiltBar[d] = Unset

FreshBar == [d \in Refs |-> IF BuiltBar'[d] # BuiltBar[d] THEN BuiltBar'[d] ELSE CurrentBar[d]]

FollowBar ==
    ReachedBar' = [t \in Tokens |->
        IF SourceBar'[t] \in Refs THEN CurrentBar'[SourceBar'[t]] ELSE SourceBar'[t]]

BuildAllBar ==
    /\ UNCHANGED <<SourceBar, held>>
    /\ BuildsBar(Refs)
    /\ CurrentBar' = FreshBar
    /\ FollowBar

ResolveBar(t, d) ==
    /\ SourceBar[t] = Unset
    /\ SourceBar' = [SourceBar EXCEPT ![t] = d]
    /\ BuildsBar({d})
    /\ d \in Refs => BuiltBar'[d] # Unset
    /\ CurrentBar' = FreshBar
    /\ UNCHANGED held
    /\ FollowBar

ReplaceBar(d, f) ==
    /\ UNCHANGED <<SourceBar, held>>
    /\ BuildsBar({d})
    /\ BuiltBar'[d] # Unset
    /\ CurrentBar' = [CurrentBar EXCEPT ![d] = IF f = Unset THEN BuiltBar'[d] ELSE f]
    /\ FollowBar

TakeBar(t) ==
    /\ ReachedBar[t] # Unset
    /\ held' = ReachedBar[t]
    /\ UNCHANGED <<BuiltBar, CurrentBar, SourceBar, ReachedBar>>

NextBar ==
    \/ BuildAllBar
    \/ \E t \in Tokens, d \in Refs \cup {Override} : ResolveBar(t, d)
    \/ \E d \in Refs, f \in Fakes \cup {Unset} : ReplaceBar(d, f)
    \/ \E t \in Tokens : TakeBar(t)

vars_bar == <<BuiltBar, CurrentBar, SourceBar, ReachedBar, held>>

(* A token is resolved to d: what Instantiate and the alias come to.       *)
LEMMA SourceStep ==
    ASSUME IInv, NEW t \in Tokens, NEW v,
           injected' = [injected EXCEPT ![t] = v], injected[t] = Unset
    PROVE  /\ SourceBar[t] = Unset
           /\ SourceBar' = [SourceBar EXCEPT ![t] = IF v \in Proxy THEN v.ref ELSE v]
<1>1. Source(t) = Unset
  BY Follows
<1>2. injected'[t] = v /\ \A u \in Tokens \ {t} : injected'[u] = injected[u]
  BY DEF IInv, TypeOK
<1>3. \A u \in Tokens : Source(u)' = IF u = t THEN (IF v \in Proxy THEN v.ref ELSE v) ELSE Source(u)
  BY <1>2 DEF Source
<1> QED
  BY <1>1, <1>3 DEF SourceBar

LEMMA InstantiateBar ==
    ASSUME IInv, IInv', NEW ref \in Refs, Instantiate(ref)
    PROVE  NextBar
<1>1. /\ ref \in ToSet(config) /\ injected[ref] = Unset /\ ref \in Tokens
      /\ UNCHANGED <<config, faked, held>>
  BY DEF Instantiate, module_vars, Tokens, IInv, PhasesInv
<1>2. FollowBar
  BY FollowsBarPrime DEF FollowBar, TokensFollow
<1>3. CASE ref \in Overridden
  <2>1. injected' = [injected EXCEPT ![ref] = Override] /\ UNCHANGED disks
    BY <1>3 DEF Instantiate
  <2>2. SourceBar[ref] = Unset /\ SourceBar' = [SourceBar EXCEPT ![ref] = Override]
    BY <1>1, <2>1, SourceStep, FlydriveAssumption
  <2>3. BuildsBar({}) /\ CurrentBar' = FreshBar
    <3>1. \A r \in Refs : disks'[r] = disks[r] \/ (r \in {} /\ disks[r] = Unset)
      BY <2>1
    <3>2. {} \in SUBSET Refs
      OBVIOUS
    <3> QED
      BY <1>1, <3>1, <3>2, BuildBar DEF BuildsBar, FreshBar
  <2>4. BuildsBar({Override})
    BY <2>3 DEF BuildsBar
  <2>5. ResolveBar(ref, Override)
    BY <1>1, <1>2, <2>2, <2>3, <2>4, FlydriveAssumption DEF ResolveBar
  <2> QED
    BY <1>1, <2>5 DEF NextBar
<1>4. CASE ref \notin Overridden
  <2>1. /\ disks' = Ensured({ref})
        /\ injected' = [injected EXCEPT
               ![ref] = [ref |-> ref, object |-> Ensured({ref})[ref].object]]
    BY <1>4 DEF Instantiate
  <2>2. Ensured({ref})[ref] = Disk(ref) /\ Disk(ref).object = 1 /\ Disk(ref) # Unset
    BY <1>1, EnsuredDisks, DiskType DEF Disk
  <2>3. [ref |-> ref, object |-> 1] \in Proxy
    BY DEF Proxy
  <2>4. SourceBar[ref] = Unset /\ SourceBar' = [SourceBar EXCEPT ![ref] = ref]
    BY <1>1, <2>1, <2>2, <2>3, SourceStep
  <2>5. BuildsBar({ref}) /\ CurrentBar' = FreshBar
    <3>1. \A r \in Refs : disks'[r] = disks[r] \/ (r \in {ref} /\ disks[r] = Unset)
      BY <2>1 DEF Ensured, Missing
    <3> QED
      BY <1>1, <3>1, BuildBar DEF BuildsBar, FreshBar
  <2>6. BuiltBar'[ref] # Unset
    BY <2>1, <2>2, BuiltBarPrime DEF DisksBuilt
  <2>7. ResolveBar(ref, ref)
    BY <1>1, <1>2, <2>4, <2>5, <2>6 DEF ResolveBar
  <2> QED
    BY <1>1, <2>7 DEF NextBar
<1> QED
  BY <1>3, <1>4

LEMMA AliasBar ==
    ASSUME IInv, IInv', DefaultDiskAlias
    PROVE  NextBar
<1>1. /\ injected[DefaultDisk] = Unset /\ injected[default] # Unset
      /\ injected' = [injected EXCEPT ![DefaultDisk] = injected[default]]
      /\ UNCHANGED <<config, faked, held, disks>> /\ phase = "instantiating"
  BY DEF DefaultDiskAlias, module_vars
<1>2. default \in Tokens /\ DefaultDisk \in Tokens
  BY <1>1, ListType DEF IInv, PhasesInv, Tokens
<1> DEFINE d == Source(default)
<1>3. d \in Refs \cup {Override}
  BY <1>1, <1>2, Follows
<1>4. d \in Refs => disks[d] # Unset
  BY <1>2, Follows
<1>5. SourceBar[DefaultDisk] = Unset /\ SourceBar' = [SourceBar EXCEPT ![DefaultDisk] = d]
  BY <1>1, <1>2, SourceStep DEF Source
<1> HIDE DEF d
<1>6. BuildsBar({}) /\ CurrentBar' = FreshBar
  <2>1. \A r \in Refs : disks'[r] = disks[r] \/ (r \in {} /\ disks[r] = Unset)
    BY <1>1
  <2>2. {} \in SUBSET Refs
    OBVIOUS
  <2> QED
    BY <1>1, <2>1, <2>2, BuildBar DEF BuildsBar, FreshBar
<1>7. BuildsBar({d})
  BY <1>6 DEF BuildsBar
<1>8. d \in Refs => BuiltBar'[d] # Unset
  BY <1>1, <1>4, BuiltBarPrime DEF DisksBuilt
<1>9. FollowBar
  BY FollowsBarPrime DEF FollowBar, TokensFollow
<1>10. ResolveBar(DefaultDisk, d)
  BY <1>1, <1>5, <1>6, <1>7, <1>8, <1>9 DEF ResolveBar
<1> QED
  BY <1>2, <1>3, <1>10 DEF NextBar

LEMMA OnModuleInitBar ==
    ASSUME IInv, IInv', OnModuleInit
    PROVE  NextBar
<1>1. UNCHANGED <<config, faked, held, injected>> /\ disks' = Ensured(ToSet(config))
  BY DEF OnModuleInit
<1>2. UNCHANGED SourceBar
  BY <1>1 DEF SourceBar, Source
<1>3. BuildsBar(Refs) /\ CurrentBar' = FreshBar
  <2>1. \A r \in Refs : disks'[r] = disks[r] \/ (r \in Refs /\ disks[r] = Unset)
    BY <1>1 DEF Ensured, Missing
  <2> QED
    BY <1>1, <2>1, BuildBar DEF BuildsBar, FreshBar
<1>4. FollowBar
  BY FollowsBarPrime DEF FollowBar, TokensFollow
<1> QED
  BY <1>1, <1>2, <1>3, <1>4 DEF NextBar, BuildAllBar

(* What fake() and restore() come to.                                      *)
LEMMA TesterBar ==
    ASSUME IInv, IInv', NEW ref \in ToSet(config), NEW f \in Fakes \cup {Unset},
           UNCHANGED <<config, held, injected>>,
           disks'[ref] = [object |-> 1, original |-> EntryOf(ref),
                          current |-> IF f = Unset THEN EntryOf(ref) ELSE f],
           \A r \in Refs \ {ref} : disks'[r] = disks[r] /\ objects'[r] = objects[r]
    PROVE  NextBar
<1>1. ref \in Refs /\ EntryOf(ref) \in 1..MaxEntries /\ EntryOf(ref) # Unset
  <2>1. 1..MaxEntries \subseteq Nat
    BY FlydriveAssumption
  <2> QED
    BY <2>1, DiskType, EntryOfRange, FlydriveAssumption DEF IInv
<1>2. UNCHANGED SourceBar
  BY DEF SourceBar, Source
<1>3. disks'[ref] # Unset
  <2>1. disks'[ref] \in SwappableDisk
    BY <1>1 DEF SwappableDisk
  <2> QED
    BY <2>1, FlydriveAssumption
<1>4. BuiltBar'[ref] = EntryOf(ref)
  <2>1. EntryOf(ref)' = EntryOf(ref)
    BY DEF EntryOf
  <2> QED
    BY <1>1, <1>3, <2>1, BuiltBarPrime DEF DisksBuilt
<1>5. \A r \in Refs \ {ref} : BuiltBar'[r] = BuiltBar[r] /\ CurrentBar'[r] = CurrentBar[r]
  BY DEF BuiltBar, CurrentBar
<1>6. CurrentBar'[ref] = IF f = Unset THEN BuiltBar'[ref] ELSE f
  BY <1>1, <1>3, <1>4 DEF CurrentBar
<1>7. BuildsBar({ref})
  <2>1. \A r \in Refs : BuiltBar[r] \in 1..MaxEntries \cup {Unset}
    BY DiskBar
  <2>2. BuiltBar[ref] = Unset \/ BuiltBar[ref] = EntryOf(ref)
    BY <1>1, DiskBar
  <2>3. BuiltBar' = [r \in Refs |-> BuiltBar'[r]]
    BY DEF BuiltBar
  <2>4. \A r \in Refs : BuiltBar'[r] \in 1..MaxEntries \cup {Unset}
    BY <1>1, <1>4, <1>5, <2>1
  <2>5. BuiltBar' \in [Refs -> 1..MaxEntries \cup {Unset}]
    BY <2>3, <2>4
  <2> QED
    BY <1>4, <1>5, <2>2, <2>5 DEF BuildsBar
<1>8. CurrentBar' = [CurrentBar EXCEPT ![ref] = IF f = Unset THEN BuiltBar'[ref] ELSE f]
  BY <1>1, <1>5, <1>6 DEF CurrentBar
<1>9. FollowBar
  BY FollowsBarPrime DEF FollowBar, TokensFollow
<1>10. ReplaceBar(ref, f)
  BY <1>1, <1>2, <1>4, <1>7, <1>8, <1>9 DEF ReplaceBar
<1> QED
  BY <1>1, <1>10 DEF NextBar

LEMMA FakeBar ==
    ASSUME IInv, IInv', NEW ref \in Refs, NEW arg \in FakeArguments, Fake(ref, arg)
    PROVE  NextBar
<1>1. arg.driver \in Fakes /\ arg.driver # Unset
  BY FlydriveAssumption DEF FakeArguments
<1>2. disks'[ref] = [object |-> 1, original |-> EntryOf(ref),
                     current |-> IF arg.driver = Unset THEN EntryOf(ref) ELSE arg.driver]
  BY <1>1, FakeStep
<1>3. \A r \in Refs \ {ref} : disks'[r] = disks[r] /\ objects'[r] = objects[r]
  BY FakeStep DEF Fake, Counted, Missing
<1> QED
  BY <1>1, <1>2, <1>3, TesterBar DEF Fake, module_vars

LEMMA RestoreBar ==
    ASSUME IInv, IInv', NEW ref \in Refs, Restore(ref)
    PROVE  NextBar
<1>1. disks'[ref] = [object |-> 1, original |-> EntryOf(ref), current |-> EntryOf(ref)]
  BY RestoreStep
<1>2. \A r \in Refs \ {ref} : disks'[r] = disks[r] /\ objects'[r] = objects[r]
  BY RestoreStep DEF Restore, Counted, Missing
<1>3. ref \in ToSet(config) /\ UNCHANGED <<config, held, injected>>
  BY DEF Restore, module_vars
<1> QED
  BY <1>1, <1>2, <1>3, TesterBar

LEMMA StepBar == IInv /\ IInv' /\ [Next]_vars => [NextBar]_vars_bar
<1> SUFFICES ASSUME IInv, IInv', [Next]_vars PROVE [NextBar]_vars_bar
  OBVIOUS
<1>1. CASE \E ref \in Refs : Instantiate(ref)
  BY <1>1, InstantiateBar
<1>2. CASE DefaultDiskAlias
  BY <1>2, AliasBar
<1>3. CASE OnModuleInit
  BY <1>3, OnModuleInitBar
<1>4. CASE \E ref \in Refs, arg \in FakeArguments : Fake(ref, arg)
  BY <1>4, FakeBar
<1>5. CASE \E ref \in Refs : Restore(ref)
  BY <1>5, RestoreBar
<1>6. CASE \E t \in Tokens : Take(t)
  <2>1. PICK t \in Tokens : Take(t)
    BY <1>6
  <2>2. Reached(t) # Unset /\ held' = Reached(t) /\ UNCHANGED <<disks, injected, objects>>
    BY <2>1 DEF Take
  <2>3. UNCHANGED <<BuiltBar, CurrentBar, SourceBar, ReachedBar>>
    BY <2>2 DEF BuiltBar, CurrentBar, SourceBar, ReachedBar, Source, Reached
  <2>4. TakeBar(t)
    BY <2>2, <2>3 DEF TakeBar, ReachedBar
  <2> QED
    BY <2>4 DEF NextBar
<1>7. CASE UNCHANGED <<disks, injected, objects, held>>
  BY <1>7 DEF vars_bar, BuiltBar, CurrentBar, SourceBar, ReachedBar, Source, Reached
<1> QED
  BY <1>1, <1>2, <1>3, <1>4, <1>5, <1>6, <1>7
     DEF Next, ForRoot, ForRootAsync, UserFactoryReturns, UserFactoryRejects, EnsureThrows, vars

(* The registry, its proxies and the tester implement the abstract disks.  *)
THEOREM Implementation == Spec => RefinesDisks
<1>1. Init => Contract!Init
  <2>1. Unset \notin Proxy
    BY FlydriveAssumption
  <2> QED
    BY <2>1 DEF Init, Contract!Init, Source, Reached, Tokens
<1>2. [NextBar]_vars_bar => [Contract!Next]_(Contract!vars)
  BY DEF NextBar, BuildAllBar, ResolveBar, ReplaceBar, TakeBar, BuildsBar, FreshBar, FollowBar,
         vars_bar, BuiltBar, CurrentBar, SourceBar, ReachedBar,
         Contract!Next, Contract!BuildAll, Contract!Resolve, Contract!Replace, Contract!Take,
         Contract!Build, Contract!Fresh, Contract!Follow, Contract!vars
<1> QED
  BY <1>1, <1>2, StepBar, Invariance, PTL DEF Spec, RefinesDisks, Contract!Spec
=============================================================================
