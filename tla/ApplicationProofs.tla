-------------------------- MODULE ApplicationProofs --------------------------
(***************************************************************************)
(* Proofs about module Application, for any applications, environments and *)
(* schemas, any list the server may hold, any size and limit of pages and  *)
(* any number of changes by others. What the model computes recursively,   *)
(* over the features, the registered hosts and the collected names, is     *)
(* reasoned about by induction on the length of a list, said of a set of   *)
(* numbers (Ascend).                                                       *)
(***************************************************************************)
EXTENDS Application, FiniteSetTheorems, NaturalsInduction, SequenceTheorems,
        WellFoundedInduction, TLAPS

Started == {"starting", "registering", "booted"}

-----------------------------------------------------------------------------
(* The configuration *)

(* The instance was made from the environment it is said to be made from.  *)
Valid(p) ==
    /\ ~async /\ readFrom[p] \in Configx!Env
    /\ Configx!Issues(readFrom[p]) = {}
    /\ instance[p] = Configx!Output(readFrom[p])

(* The error is about the environment that a failed construction read.     *)
Explained(p) ==
    /\ instance[p] = Unset /\ readFrom[p] \in Configx!Env
    /\ Configx!Issues(readFrom[p]) # {}
    /\ thrown = Configx!FromSchemaIssues(Configx!Issues(readFrom[p]))

ConfigxInv ==
    /\ env \in Configx!Env
    /\ instance = [p \in Providers |-> instance[p]]
    /\ readFrom = [p \in Providers |-> readFrom[p]]
    /\ \A p \in Providers : instance[p] # Unset => Valid(p)
    /\ thrown # Unset => boot = "failed"
    /\ thrown # Unset /\ ~async => \E p \in Providers : Explained(p)

(* How far the boot has come tells what is configured, and a startup that  *)
(* a provider ended has registered nothing.                                *)
BootInv ==
    /\ serves = [n \in Workflows |-> serves[n]]
    /\ boot \in {"configuring", "starting"} \/ thrown # Unset =>
          \A n \in Workflows : serves[n] = Unset
    /\ boot \in {"registering", "booted"} =>
          thrown = Unset /\ \A p \in Providers : instance[p] # Unset
    /\ boot \in Started =>
          /\ instance[Hatchet] # Unset
          /\ config.worker <=> instance[Hatchet][WorkerVariable].parsed = On

ConfigInv == ConfigxInv /\ BootInv

LEMMA InitConfigInv == AppInit => ConfigInv
<1> SUFFICES ASSUME AppInit
             PROVE  ConfigInv
  OBVIOUS
<1>1. Environments \subseteq Configx!Env
  BY ApplicationAssumption DEF Configx!ConfigxAssumption
<1>2. ConfigxInv
  BY <1>1 DEF AppInit, Configx!Init, ConfigxInv
<1>3. BootInv
  BY DEF AppInit, Init, Configx!Init, BootInv, Started
<1> QED
  BY <1>2, <1>3 DEF ConfigInv

(* A step of the boot alone, in which no workflow gets a host before the   *)
(* hooks are called.                                                       *)
LEMMA BootStep ==
    ASSUME ConfigInv, UNCHANGED configx_vars,
           serves' = [n \in Workflows |-> serves'[n]],
           \/ serves' = serves
           \/ boot = "registering"
           \/ \A n \in Workflows : serves'[n] \in {serves[n], Unset},
           \/ boot' = boot
           \/ boot' = "failed" /\ boot # "booted"
           \/ boot = "starting" /\ boot' \in {"registering", "booted"} /\ AllProvided
           \/ boot = "registering" /\ boot' = "booted",
           config' = config
    PROVE  ConfigInv'
<1>1. UNCHANGED <<env, async, instance, thrown, sets, readFrom>>
  BY DEF configx_vars
<1>2. ConfigxInv'
  BY <1>1 DEF ConfigInv, ConfigxInv, Valid, Explained
<1>3. BootInv'
  BY <1>1 DEF ConfigInv, ConfigxInv, BootInv, AllProvided, Started
<1> QED
  BY <1>2, <1>3 DEF ConfigInv

(* Of the steps of WorkerBootstrap, those that BootStep is about.          *)
LEMMA WorkerSteps ==
    ASSUME ConfigInv, UNCHANGED configx_vars,
           \/ StartupFails \/ DeclarationRegistered \/ WorkerRegistered \/ WorkerRefused
           \/ PageArrives \/ PageFails
           \/ \E n \in Workflows : RemoteRegisters(n) \/ RemoteDeletes(n)
           \/ (BootWithoutWorker \/ RegisterWorker \/ DeclarationThrows) /\ AllProvided
    PROVE  ConfigInv'
<1>1. CASE StartupFails
  BY <1>1, BootStep DEF StartupFails, local_vars, server_vars, ConfigInv, BootInv
<1>2. CASE WorkerRegistered \/ WorkerRefused
  BY <1>2, BootStep DEF WorkerRegistered, WorkerRefused, local_vars, server_vars, ConfigInv, BootInv
<1>3. CASE DeclarationRegistered
  BY <1>3, BootStep DEF DeclarationRegistered, local_vars, ConfigInv, BootInv
<1>4. CASE PageArrives \/ PageFails
  BY <1>4, BootStep DEF PageArrives, PageFails, local_vars, boot_vars, server_vars, ConfigInv, BootInv
<1>5. ASSUME NEW n \in Workflows, RemoteRegisters(n)
      PROVE  ConfigInv'
  BY <1>5, BootStep DEF RemoteRegisters, local_vars, boot_vars, ConfigInv, BootInv
<1>6. ASSUME NEW n \in Workflows, RemoteDeletes(n)
      PROVE  ConfigInv'
  BY <1>6, BootStep DEF RemoteDeletes, local_vars, boot_vars, ConfigInv, BootInv
<1>7. CASE (BootWithoutWorker \/ RegisterWorker \/ DeclarationThrows) /\ AllProvided
  BY <1>7, BootStep DEF BootWithoutWorker, RegisterWorker, DeclarationThrows, local_vars,
     server_vars, ConfigInv, BootInv
<1> QED
  BY <1>1, <1>2, <1>3, <1>4, <1>5, <1>6, <1>7

LEMMA ProvideStep ==
    ASSUME ConfigInv, NEW p \in Providers, Provide(p)
    PROVE  ConfigInv'
<1>1. /\ instance[p] = Unset /\ thrown = Unset
      /\ ~async /\ Configx!Issues(env) = {}
      /\ instance' = [instance EXCEPT ![p] = Configx!Output(env)]
      /\ readFrom' = [readFrom EXCEPT ![p] = env]
      /\ UNCHANGED <<env, async, thrown, sets>>
      /\ boot \in {"configuring", "starting"}
      /\ UNCHANGED <<boot, serves, config>>
  BY DEF Provide, Configx!Construct, Configx!Resolved, vars, boot_vars, local_vars, server_vars
<1>2. Valid(p)' /\ instance'[p] = Configx!Output(env)
  BY <1>1 DEF ConfigInv, ConfigxInv, Valid
<1>3. \A q \in Providers \ {p} : instance'[q] = instance[q] /\ readFrom'[q] = readFrom[q]
  BY <1>1 DEF ConfigInv, ConfigxInv
<1>4. ConfigxInv'
  BY <1>1, <1>2, <1>3 DEF ConfigInv, ConfigxInv, Valid
<1>5. Hatchet # p \/ boot = "configuring"
  BY <1>1 DEF ConfigInv, BootInv, Started
<1>6. Hatchet \in Providers
  BY ApplicationAssumption
<1>7. BootInv'
  BY <1>1, <1>3, <1>5, <1>6 DEF ConfigInv, BootInv, Started
<1> QED
  BY <1>4, <1>7 DEF ConfigInv

LEMMA ProviderThrowsStep ==
    ASSUME ConfigInv, NEW p \in Providers, ProviderThrows(p)
    PROVE  ConfigInv'
<1>1. /\ instance[p] = Unset /\ thrown = Unset
      /\ async \/ Configx!Issues(env) # {}
      /\ ~async => thrown' = Configx!FromSchemaIssues(Configx!Issues(env))
      /\ readFrom' = [readFrom EXCEPT ![p] = env]
      /\ UNCHANGED <<env, async, instance, sets>>
      /\ boot \in {"configuring", "starting"} /\ boot' = "failed"
      /\ UNCHANGED <<serves, config>>
  BY DEF ProviderThrows, StartupFails, Configx!ConstructorThrows, Configx!Resolved, local_vars,
     server_vars
<1>2. ~async => Explained(p)'
  BY <1>1 DEF ConfigInv, ConfigxInv, Explained
<1>3. \A q \in Providers \ {p} : readFrom'[q] = readFrom[q]
  BY <1>1 DEF ConfigInv, ConfigxInv
<1>4. ConfigxInv'
  BY <1>1, <1>2, <1>3 DEF ConfigInv, ConfigxInv, Valid
<1>5. BootInv'
  BY <1>1 DEF ConfigInv, BootInv, Started
<1> QED
  BY <1>4, <1>5 DEF ConfigInv

LEMMA ForRootAsyncStep ==
    ASSUME ConfigInv, NEW orphans \in BOOLEAN \cup {Unset}, ForRootAsync(orphans)
    PROVE  ConfigInv'
<1>1. /\ instance[Hatchet] # Unset
      /\ boot = "configuring" /\ boot' = "starting"
      /\ config' = UseFactory(instance[Hatchet], orphans)
      /\ UNCHANGED serves
      /\ UNCHANGED <<env, async, instance, thrown, sets, readFrom>>
  BY DEF ForRootAsync, Configure, configx_vars, server_vars
<1>2. config'.worker = (instance[Hatchet][WorkerVariable].parsed = On)
  BY <1>1 DEF UseFactory
<1>3. ConfigxInv'
  BY <1>1 DEF ConfigInv, ConfigxInv, Valid, Explained
<1>4. BootInv'
  BY <1>1, <1>2 DEF ConfigInv, ConfigxInv, BootInv, Started
<1> QED
  BY <1>3, <1>4 DEF ConfigInv

LEMMA SetEnvStep ==
    ASSUME ConfigInv, NEW v \in Configx!Names, NEW x \in Values \cup {Unset},
           Configx!SetEnv(v, x), UNCHANGED vars
    PROVE  ConfigInv'
<1>1. /\ env' = [env EXCEPT ![v] = x]
      /\ UNCHANGED <<async, instance, thrown, readFrom>>
      /\ UNCHANGED <<boot, serves, config>>
  BY DEF Configx!SetEnv, vars, boot_vars, local_vars, server_vars
<1>2. env' \in Configx!Env
  BY <1>1 DEF ConfigInv, ConfigxInv, Configx!Env
<1>3. ConfigxInv'
  BY <1>1, <1>2 DEF ConfigInv, ConfigxInv, Valid, Explained
<1>4. BootInv'
  BY <1>1 DEF ConfigInv, BootInv, Started
<1> QED
  BY <1>3, <1>4 DEF ConfigInv

LEMMA NextConfigInv == ConfigInv /\ [AppNext]_app_vars => ConfigInv'
<1> SUFFICES ASSUME ConfigInv, [AppNext]_app_vars
             PROVE  ConfigInv'
  OBVIOUS
<1>1. CASE UNCHANGED app_vars
  BY <1>1, BootStep DEF app_vars, configx_vars, vars, boot_vars, local_vars, server_vars,
     ConfigInv, BootInv
<1>2. CASE AppNext
  BY <1>2, WorkerSteps, ProvideStep, ProviderThrowsStep, ForRootAsyncStep, SetEnvStep
     DEF AppNext, AppFails, AllProvided
<1> QED
  BY <1>1, <1>2

(* What the schema's verdict says of an environment.                       *)
LEMMA NoIssues ==
    ASSUME NEW e \in Configx!Env, Configx!Issues(e) = {}
    PROVE  AcceptedOf(e) = DOMAIN Variables /\ e \notin RefusedAsAWhole
<1>1. \A i \in DOMAIN Variables : ~Configx!Refuses(Variables[i], e)
  BY DEF Configx!Issues
<1>2. e \notin RefusedAsAWhole
  BY <1>1 DEF Configx!Issues
<1> QED
  BY <1>1, <1>2 DEF AcceptedOf, Configx!Refuses

LEMMA IssuesNamed ==
    ASSUME NEW e \in Configx!Env, Configx!Issues(e) # {},
           NEW named, named = Configx!FromSchemaIssues(Configx!Issues(e)).message
    PROVE  /\ named # {}
           /\ named # {<<"@">>} =>
                {i \in DOMAIN Variables : <<Variables[i].name>> \in named}
                    = DOMAIN Variables \ AcceptedOf(e)
<1>1. named = {Configx!FormatIssue(issue) : issue \in Configx!Issues(e)}
  BY DEF Configx!FromSchemaIssues
<1>2. named # {}
  BY <1>1
<1> DEFINE refused == {i \in DOMAIN Variables : Configx!Refuses(Variables[i], e)}
<1>3. refused = DOMAIN Variables \ AcceptedOf(e)
  <2>1. \A i \in DOMAIN Variables : Variables[i].accepts \subseteq Values /\ Unset \notin Values
    BY ApplicationAssumption DEF Configx!ConfigxAssumption
  <2> QED
    BY <2>1 DEF AcceptedOf, Configx!Refuses
<1>4. CASE refused # {}
  <2>1. Configx!Issues(e) = {[path |-> <<Variables[i].name>>] : i \in refused}
    BY <1>4 DEF Configx!Issues
  <2>2. \A i \in refused : Configx!FormatIssue([path |-> <<Variables[i].name>>]) = <<Variables[i].name>>
    BY DEF Configx!FormatIssue
  <2>3. \A x : x \in named <=> \E i \in refused : x = <<Variables[i].name>>
    <3>1. \A x : x \in named <=> \E issue \in Configx!Issues(e) : x = Configx!FormatIssue(issue)
      BY <1>1
    <3>2. \A issue : issue \in Configx!Issues(e) <=> \E i \in refused : issue = [path |-> <<Variables[i].name>>]
      BY <2>1
    <3> HIDE DEF refused
    <3>3. ASSUME NEW i \in refused
          PROVE  <<Variables[i].name>> \in named
      <4>1. [path |-> <<Variables[i].name>>] \in Configx!Issues(e)
        BY <3>2
      <4> QED
        BY <2>2, <3>1, <4>1
    <3>4. ASSUME NEW x \in named
          PROVE  \E i \in refused : x = <<Variables[i].name>>
      <4>1. PICK issue \in Configx!Issues(e) : x = Configx!FormatIssue(issue)
        BY <3>1
      <4>2. PICK i \in refused : issue = [path |-> <<Variables[i].name>>]
        BY <3>2
      <4> QED
        BY <2>2, <4>1, <4>2
    <3> QED
      BY <3>3, <3>4
  <2>4. \A i, j \in DOMAIN Variables : Variables[i].name = Variables[j].name => i = j
    BY ApplicationAssumption DEF Configx!ConfigxAssumption
  <2>5. ASSUME NEW i \in DOMAIN Variables
        PROVE  <<Variables[i].name>> \in named <=> i \in refused
    BY <2>3, <2>4
  <2> QED
    BY <1>2, <1>3, <2>5
<1>5. CASE refused = {}
  <2>1. Configx!Issues(e) = {[path |-> <<>>]}
    BY <1>5 DEF Configx!Issues
  <2>2. named = {<<"@">>}
    BY <1>1, <2>1 DEF Configx!FormatIssue
  <2> QED
    BY <1>2, <2>2
<1> QED
  BY <1>4, <1>5

(* No hook runs on a refused configuration, and the error says what is     *)
(* wrong with the environment its constructor read.                        *)
THEOREM ConfigCorrect == AppSpec => []ConfigFailsFast
<1>1. ASSUME ConfigInv, NEW p \in Providers, instance[p] # Unset
      PROVE  /\ ~async /\ AcceptedOf(readFrom[p]) = DOMAIN Variables
             /\ readFrom[p] \notin RefusedAsAWhole
             /\ \A v \in Configx!Names : readFrom[p][v] # Unset =>
                   instance[p][v] = [parsed |-> readFrom[p][v]]
  <2>1. Valid(p)
    BY <1>1 DEF ConfigInv, ConfigxInv
  <2>2. \A v \in Configx!Names : readFrom[p][v] # Unset =>
            Configx!Output(readFrom[p])[v] = [parsed |-> readFrom[p][v]]
    BY DEF Configx!Output
  <2> QED
    BY <2>1, <2>2, NoIssues DEF Valid
<1>2. ASSUME ConfigInv, boot \in {"registering", "booted"}
      PROVE  /\ thrown = Unset
             /\ \A p \in Providers : instance[p] # Unset
             /\ config.worker <=> instance[Hatchet][WorkerVariable].parsed = On
  BY <1>2 DEF ConfigInv, BootInv, Started
<1>3. ASSUME ConfigInv, thrown # Unset
      PROVE  boot = "failed" /\ \A n \in Workflows : serves[n] = Unset
  BY <1>3 DEF ConfigInv, ConfigxInv, BootInv
<1>4. ASSUME ConfigInv, thrown # Unset, ~async
      PROVE  \E p \in Providers :
                LET named == thrown.message
                IN  /\ instance[p] = Unset /\ readFrom[p] # Unset
                    /\ named # {}
                    /\ named # {<<"@">>} =>
                          {i \in DOMAIN Variables : <<Variables[i].name>> \in named}
                              = DOMAIN Variables \ AcceptedOf(readFrom[p])
  <2>1. PICK p \in Providers : Explained(p)
    BY <1>4 DEF ConfigInv, ConfigxInv
  <2>2. Unset \notin Configx!Env
    BY ApplicationAssumption DEF Configx!ConfigxAssumption
  <2> QED
    BY <2>1, <2>2, IssuesNamed DEF Explained
<1>5. ConfigInv => ConfigFailsFast
  BY <1>1, <1>2, <1>3, <1>4 DEF ConfigFailsFast
<1> QED
  BY <1>5, InitConfigInv, NextConfigInv, PTL DEF AppSpec

-----------------------------------------------------------------------------
(* The orphan detection *)

(* What has been registered is on the server unless others deleted it, and *)
(* detection starts from a server that has everything.                     *)
DetectionInv ==
    /\ server \in Seq(ToSet(server)) /\ registered \in Nat
    /\ boot \in {"configuring", "starting"} => registered = 0
    /\ boot = "registering" =>
          /\ config.worker
          /\ \A i \in 1..Len(AllHosts) : i <= registered =>
                NameOf[AllHosts[i]] \in ToSet(server) \cup deleted
    /\ detection # "off" =>
          /\ boot = "booted" /\ worker = "started" /\ registered = Len(AllHosts)
          /\ LocalNames # {} /\ config.worker
          /\ config.enableOrphanDetection # FALSE
          /\ LocalNames \subseteq seen \cup deleted

LEMMA SelfTyped ==
    ASSUME NEW S, NEW s \in Seq(S)
    PROVE  s \in Seq(ToSet(s)) /\ \A x : x \in ToSet(s) <=> \E i \in 1..Len(s) : x = s[i]
<1>1. Len(s) \in Nat /\ s \in [1..Len(s) -> S]
  BY LenProperties
<1>2. s \in [1..Len(s) -> ToSet(s)]
  BY <1>1 DEF ToSet
<1>3. s \in Seq(ToSet(s))
  BY <1>1, <1>2
<1>4. \A x : x \in ToSet(s) <=> \E i \in 1..Len(s) : x = s[i]
  BY LenProperties DEF ToSet
<1> QED
  BY <1>3, <1>4

(* The server's list with a name more, or an entry less.                   *)
LEMMA Prepended ==
    ASSUME NEW s, s \in Seq(ToSet(s)), NEW n
    PROVE  <<n>> \o s \in Seq(ToSet(<<n>> \o s)) /\ ToSet(s) \cup {n} \subseteq ToSet(<<n>> \o s)
<1> DEFINE S == ToSet(s) \cup {n}
           t == <<n>> \o s
<1>1. s \in Seq(S) /\ <<n>> \in Seq(S) /\ Len(<<n>>) = 1 /\ <<n>>[1] = n
  BY SeqMonotonic
<1>2. /\ t \in Seq(S) /\ Len(t) = 1 + Len(s)
      /\ \A i \in 1..Len(t) : t[i] = IF i <= 1 THEN n ELSE s[i - 1]
  BY <1>1, ConcatProperties
<1>3. Len(s) \in Nat
  BY <1>1, LenProperties
<1> HIDE DEF t
<1>4. t \in Seq(ToSet(t)) /\ \A x : x \in ToSet(t) <=> \E i \in 1..Len(t) : x = t[i]
  BY <1>2, SelfTyped
<1>5. ASSUME NEW i \in 1..Len(s)
      PROVE  s[i] \in ToSet(t)
  <2>1. i + 1 \in 1..Len(t) /\ t[i + 1] = s[i]
    BY <1>2, <1>3
  <2> QED
    BY <1>4, <2>1
<1>6. n \in ToSet(t)
  <2>1. 1 \in 1..Len(t) /\ t[1] = n
    BY <1>2, <1>3
  <2> QED
    BY <1>4, <2>1
<1>7. \A x : x \in ToSet(s) <=> \E i \in 1..Len(s) : x = s[i]
  BY <1>1, SelfTyped
<1> QED
  BY <1>4, <1>5, <1>6, <1>7 DEF t

LEMMA Closed ==
    ASSUME NEW S, NEW s \in Seq(S), NEW k \in 1..Len(s),
           NEW t \in Seq(S), Len(t) = Len(s) - 1,
           \A i \in 1..(k - 1) : t[i] = s[i],
           \A i \in k..(Len(s) - 1) : t[i] = s[i + 1]
    PROVE  t \in Seq(ToSet(t)) /\ ToSet(s) \subseteq ToSet(t) \cup {s[k]}
<1>1. Len(s) \in Nat /\ k \in Int /\ 1 <= k /\ k <= Len(s)
  BY LenProperties
<1>2. t \in Seq(ToSet(t)) /\ \A x : x \in ToSet(t) <=> \E i \in 1..Len(t) : x = t[i]
  BY SelfTyped
<1>3. ASSUME NEW i \in 1..Len(s), i # k
      PROVE  s[i] \in ToSet(t)
  <2>1. CASE i < k
    <3>1. i \in 1..Len(t) /\ i \in 1..(k - 1)
      BY <1>1, <2>1
    <3> QED
      BY <1>2, <3>1
  <2>2. CASE i > k
    <3>1. i - 1 \in 1..Len(t) /\ i - 1 \in k..(Len(s) - 1) /\ (i - 1) + 1 = i
      BY <1>1, <2>2
    <3> QED
      BY <1>2, <3>1
  <2> QED
    BY <1>1, <1>3, <2>1, <2>2
<1>4. \A x : x \in ToSet(s) <=> \E i \in 1..Len(s) : x = s[i]
  BY SelfTyped
<1> QED
  BY <1>2, <1>3, <1>4

LEMMA Removed ==
    ASSUME NEW s, s \in Seq(ToSet(s)), NEW k \in DOMAIN s
    PROVE  /\ RemoveAt(s, k) \in Seq(ToSet(s)) /\ RemoveAt(s, k) \in Seq(ToSet(RemoveAt(s, k)))
           /\ ToSet(s) \subseteq ToSet(RemoveAt(s, k)) \cup {s[k]}
<1>1. Len(s) \in Nat /\ DOMAIN s = 1..Len(s) /\ k \in 1..Len(s)
  BY LenProperties
<1>2. \A i \in 1..Len(s) : s[i] \in ToSet(s)
  BY <1>1, ElementOfSeq
<1>3. PICK a : a = SubSeq(s, 1, k - 1)
  OBVIOUS
<1>4. PICK b : b = SubSeq(s, k + 1, Len(s))
  OBVIOUS
<1>5. /\ a \in Seq(ToSet(s)) /\ Len(a) = k - 1
      /\ \A i \in 1..(k - 1) : a[i] = s[i]
  BY <1>1, <1>2, <1>3, SubSeqProperties
<1>6. /\ b \in Seq(ToSet(s)) /\ Len(b) = Len(s) - k
      /\ \A i \in 1..(Len(s) - k) : b[i] = s[k + i]
  <2>1. \A i \in (k + 1)..Len(s) : s[i] \in ToSet(s)
    BY <1>1, <1>2
  <2>2. /\ b \in Seq(ToSet(s))
        /\ Len(b) = IF k + 1 <= Len(s) THEN Len(s) - (k + 1) + 1 ELSE 0
        /\ \A i \in 1..(Len(s) - (k + 1) + 1) : b[i] = s[(k + 1) + i - 1]
    BY <1>1, <1>4, <2>1, SubSeqProperties
  <2>3. Len(b) = Len(s) - k
    BY <1>1, <2>2
  <2>4. ASSUME NEW i \in 1..(Len(s) - k)
        PROVE  b[i] = s[k + i]
    <3>1. i \in 1..(Len(s) - (k + 1) + 1) /\ (k + 1) + i - 1 = k + i
      BY <1>1
    <3> QED
      BY <2>2, <3>1
  <2> QED
    BY <2>2, <2>3, <2>4
<1>7. PICK t : t = RemoveAt(s, k)
  OBVIOUS
<1>8. /\ t \in Seq(ToSet(s)) /\ Len(t) = Len(a) + Len(b)
      /\ \A i \in 1..Len(a) + Len(b) : t[i] = IF i <= Len(a) THEN a[i] ELSE b[i - Len(a)]
  <2>1. t = a \o b
    BY <1>3, <1>4, <1>7 DEF RemoveAt
  <2>2. /\ a \o b \in Seq(ToSet(s)) /\ Len(a \o b) = Len(a) + Len(b)
        /\ \A i \in 1..Len(a) + Len(b) : (a \o b)[i] = IF i <= Len(a) THEN a[i] ELSE b[i - Len(a)]
    BY <1>5, <1>6, ConcatProperties
  <2> QED
    BY <2>1, <2>2, Zenon
<1>9. Len(t) = Len(s) - 1
  BY <1>1, <1>5, <1>6, <1>8
<1>10. \A i \in 1..(k - 1) : t[i] = s[i]
  BY <1>1, <1>5, <1>6, <1>8
<1>11. ASSUME NEW i \in k..(Len(s) - 1)
       PROVE  t[i] = s[i + 1]
  <2>1. Len(a) = k - 1 /\ Len(a) + Len(b) = Len(s) - 1
    BY <1>1, <1>5, <1>6
  <2>2. i - (k - 1) \in 1..(Len(s) - k) /\ k + (i - (k - 1)) = i + 1
    BY <1>1
  <2>3. i \in 1..Len(s) - 1 /\ ~(i <= k - 1)
    BY <1>1
  <2>4. t[i] = b[i - (k - 1)]
    BY <1>8, <2>1, <2>3
  <2>5. b[i - (k - 1)] = s[k + (i - (k - 1))]
    BY <1>6, <2>2
  <2> QED
    BY <2>2, <2>4, <2>5
<1>12. t \in Seq(ToSet(s)) /\ \A i \in k..(Len(s) - 1) : t[i] = s[i + 1]
  BY <1>8, <1>11
<1>13. t \in Seq(ToSet(t)) /\ ToSet(s) \subseteq ToSet(t) \cup {s[k]}
  BY <1>1, <1>9, <1>10, <1>12, Closed
<1> QED
  BY <1>7, <1>12, <1>13, Zenon

LEMMA InitDetectionInv == AppInit => DetectionInv
<1> SUFFICES ASSUME AppInit
             PROVE  DetectionInv
  OBVIOUS
<1>1. server \in Seq(Workflows)
  BY WorkerBootstrapAssumption DEF AppInit, Init
<1> QED
  BY <1>1, SelfTyped DEF AppInit, Init, DetectionInv

(* AllHosts and LocalNames are those of the application.                   *)
LEMMA SameHosts ==
    ASSUME app' = app
    PROVE  AllHosts' = AllHosts /\ LocalNames' = LocalNames
BY DEF AllHosts, LocalNames

(* A step that neither registers nor asks the server for anything new.     *)
LEMMA OtherStep ==
    ASSUME DetectionInv, UNCHANGED <<app, registered, worker, server, deleted, seen>>,
           \/ UNCHANGED <<boot, config>> /\ (detection' = detection \/ detection = "listing")
           \/ UNCHANGED <<config, detection>> /\ boot \in {"configuring", "starting", "registering"}
              /\ boot' = "failed"
           \/ UNCHANGED detection /\ boot = "configuring" /\ boot' = "starting"
           \/ UNCHANGED <<config, detection>> /\ boot = "starting" /\ boot' = "booted"
           \/ UNCHANGED <<config, detection>> /\ boot = "starting" /\ boot' = "registering"
              /\ config.worker
    PROVE  DetectionInv'
<1>1. AllHosts' = AllHosts /\ LocalNames' = LocalNames
  BY SameHosts
<1>2. CASE UNCHANGED <<boot, config>> /\ (detection' = detection \/ detection = "listing")
  BY <1>1, <1>2 DEF DetectionInv
<1>3. CASE boot # "booted" /\ UNCHANGED detection /\ boot' # "registering" /\ boot' \notin {"configuring"}
           /\ (boot' = "starting" => boot = "configuring")
  BY <1>1, <1>3 DEF DetectionInv
<1>4. CASE UNCHANGED <<config, detection>> /\ boot = "starting" /\ boot' = "registering" /\ config.worker
  <2>1. detection' = "off" /\ registered' = 0
    BY <1>4 DEF DetectionInv
  <2>2. \A i \in 1..Len(AllHosts) : ~(i <= 0)
    OBVIOUS
  <2> QED
    BY <1>1, <1>4, <2>1, <2>2 DEF DetectionInv
<1> QED
  BY <1>2, <1>3, <1>4

(* Others change the server's list.                                        *)
LEMMA RemoteStep ==
    ASSUME DetectionInv, NEW list, NEW kind, Noted(list, kind), list \in Seq(ToSet(list)),
           deleted \subseteq deleted', ToSet(server) \subseteq ToSet(list) \cup deleted',
           UNCHANGED <<local_vars, boot_vars, detection_vars>>
    PROVE  DetectionInv'
<1>1. UNCHANGED <<app, config, boot, registered, worker, detection>>
  BY DEF local_vars, boot_vars, detection_vars
<1>2. AllHosts' = AllHosts /\ LocalNames' = LocalNames
  BY <1>1, SameHosts
<1>3. server' = list /\ seen \subseteq seen'
  BY DEF Noted
<1> QED
  BY <1>1, <1>2, <1>3 DEF DetectionInv

LEMMA DeclarationRegisteredStep ==
    ASSUME DetectionInv, DeclarationRegistered
    PROVE  DetectionInv'
<1> DEFINE name == NameOf[AllHosts[registered + 1]]
<1>1. /\ boot = "registering" /\ detection = "off"
      /\ registered' = registered + 1
      /\ UNCHANGED <<app, config, boot, detection, deleted>>
      /\ server' = IF name \in ToSet(server) THEN server ELSE <<name>> \o server
  BY DEF DeclarationRegistered, local_vars, history_vars, detection_vars, DetectionInv
<1>2. AllHosts' = AllHosts /\ LocalNames' = LocalNames
  BY <1>1, SameHosts
<1>3. server' \in Seq(ToSet(server')) /\ ToSet(server) \cup {name} \subseteq ToSet(server')
  BY <1>1, Prepended DEF DetectionInv
<1>4. ASSUME NEW i \in 1..Len(AllHosts), i <= registered + 1
      PROVE  NameOf[AllHosts[i]] \in ToSet(server') \cup deleted
  <2>1. i <= registered \/ i = registered + 1
    BY <1>4 DEF DetectionInv
  <2> QED
    BY <1>1, <1>3, <2>1 DEF DetectionInv
<1>5. boot' = "registering" /\ detection' = "off" /\ config'.worker /\ registered' \in Nat
  BY <1>1 DEF DetectionInv
<1>6. \A i \in 1..Len(AllHosts') : i <= registered' =>
          NameOf[AllHosts'[i]] \in ToSet(server') \cup deleted'
  BY <1>1, <1>2, <1>4
<1> QED
  BY <1>3, <1>5, <1>6 DEF DetectionInv

LEMMA WorkerRegisteredStep ==
    ASSUME DetectionInv, WorkerRegistered
    PROVE  DetectionInv'
<1>1. /\ boot = "registering" /\ registered = Len(AllHosts) /\ detection = "off"
      /\ boot' = "booted" /\ worker' = "started"
      /\ UNCHANGED <<app, config, registered, server, deleted>>
  BY DEF WorkerRegistered, local_vars, server_vars, DetectionInv
<1>2. AllHosts' = AllHosts /\ LocalNames' = LocalNames
  BY <1>1, SameHosts
<1>3. CASE Enabled /\ config.worker /\ LocalNames # {}
  <2>1. seen' = ToSet(server)
    BY <1>3 DEF WorkerRegistered, StartDetection
  <2>2. LocalNames \subseteq ToSet(server) \cup deleted
    BY <1>1 DEF LocalNames, DetectionInv
  <2>3. config.enableOrphanDetection # FALSE
    BY <1>3, WorkerBootstrapAssumption, Zenon DEF Enabled
  <2> QED
    BY <1>1, <1>2, <1>3, <2>1, <2>2, <2>3 DEF DetectionInv
<1>4. CASE ~(Enabled /\ config.worker /\ LocalNames # {})
  <2>1. detection' = detection
    BY <1>4 DEF WorkerRegistered, StartDetection
  <2> QED
    BY <1>1, <1>2, <2>1 DEF DetectionInv
<1> QED
  BY <1>3, <1>4

LEMMA BootWithoutWorkerStep ==
    ASSUME DetectionInv, BootWithoutWorker
    PROVE  DetectionInv'
<1>1. ~(config.worker /\ LocalNames # {})
  <2>1. AllHosts = <<>> => LocalNames = {}
    BY DEF LocalNames
  <2> QED
    BY <2>1 DEF BootWithoutWorker
<1>2. UNCHANGED <<detection, seen>>
  BY <1>1 DEF BootWithoutWorker, StartDetection
<1>3. boot = "starting" /\ boot' = "booted" /\ detection = "off"
  BY DEF BootWithoutWorker, DetectionInv
<1>4. UNCHANGED <<app, config, registered, worker, server, deleted>>
  BY DEF BootWithoutWorker, local_vars, server_vars
<1> QED
  BY <1>2, <1>3, <1>4, OtherStep

LEMMA NextDetectionInv == DetectionInv /\ [AppNext]_app_vars => DetectionInv'
<1> SUFFICES ASSUME DetectionInv, [AppNext]_app_vars
             PROVE  DetectionInv'
  OBVIOUS
<1>1. CASE UNCHANGED vars
  <2>1. UNCHANGED <<app, config, boot, registered, worker, detection, server, deleted, seen>>
    BY <1>1 DEF vars, local_vars, boot_vars, detection_vars, server_vars, history_vars
  <2> QED
    BY <2>1, OtherStep
<1>2. ASSUME NEW orphans \in BOOLEAN \cup {Unset}, ForRootAsync(orphans)
      PROVE  DetectionInv'
  <2>1. /\ boot = "configuring" /\ boot' = "starting"
        /\ UNCHANGED <<app, registered, worker, detection, server, deleted, seen>>
    BY <1>2 DEF ForRootAsync, Configure, detection_vars, server_vars, history_vars
  <2> QED
    BY <2>1, OtherStep
<1>3. CASE StartupFails \/ DeclarationThrows \/ WorkerRefused
  <2>1. /\ boot \in {"configuring", "starting", "registering"} /\ boot' = "failed"
        /\ UNCHANGED <<app, config, registered, worker, detection, server, deleted, seen>>
    BY <1>3 DEF StartupFails, DeclarationThrows, WorkerRefused, local_vars, detection_vars,
       server_vars, history_vars
  <2> QED
    BY <2>1, OtherStep
<1>4. CASE RegisterWorker
  <2>1. /\ boot = "starting" /\ boot' = "registering" /\ config.worker
        /\ UNCHANGED <<app, config, registered, worker, detection, server, deleted, seen>>
    BY <1>4 DEF RegisterWorker, local_vars, detection_vars, server_vars, history_vars
  <2> QED
    BY <2>1, OtherStep
<1>5. CASE PageArrives \/ PageFails
  <2>1. /\ detection = "listing"
        /\ UNCHANGED <<app, config, boot, registered, worker, server, deleted, seen>>
    BY <1>5 DEF PageArrives, PageFails, local_vars, boot_vars, server_vars, history_vars
  <2> QED
    BY <2>1, OtherStep
<1>6. ASSUME NEW n \in Workflows, RemoteRegisters(n)
      PROVE  DetectionInv'
  <2>1. server \in Seq(ToSet(server))
    BY DEF DetectionInv
  <2>2. /\ Noted(<<n>> \o server, "grown") /\ deleted' = deleted
        /\ UNCHANGED <<local_vars, boot_vars, detection_vars>>
    BY <1>6 DEF RemoteRegisters
  <2> QED
    BY <2>1, <2>2, RemoteStep, Prepended
<1>7. ASSUME NEW n \in Workflows, RemoteDeletes(n)
      PROVE  DetectionInv'
  <2>1. server \in Seq(ToSet(server))
    BY DEF DetectionInv
  <2>2. PICK i \in DOMAIN server : server[i] = n /\ Noted(RemoveAt(server, i), "shrunk")
    BY <1>7 DEF RemoteDeletes
  <2>3. deleted' = deleted \cup {n} /\ UNCHANGED <<local_vars, boot_vars, detection_vars>>
    BY <1>7 DEF RemoteDeletes
  <2>4. /\ RemoveAt(server, i) \in Seq(ToSet(RemoveAt(server, i)))
        /\ ToSet(server) \subseteq ToSet(RemoveAt(server, i)) \cup {n}
    BY <2>1, <2>2, Removed
  <2> QED
    BY <2>2, <2>3, <2>4, RemoteStep
<1>8. CASE \E p \in Providers : Provide(p) \/ ProviderThrows(p)
  BY <1>1, <1>3, <1>8 DEF Provide, ProviderThrows
<1>9. CASE UNCHANGED app_vars
  BY <1>1, <1>9 DEF app_vars
<1> QED
  BY <1>1, <1>2, <1>3, <1>4, <1>5, <1>6, <1>7, <1>8, <1>9, DeclarationRegisteredStep,
     WorkerRegisteredStep, BootWithoutWorkerStep DEF AppNext, AppFails

(* The server is asked only when it has had everything from this process.  *)
THEOREM DetectionCorrect == AppSpec => []DetectionFollowsRegistration
<1>1. DetectionInv => DetectionFollowsRegistration
  BY DEF DetectionInv, DetectionFollowsRegistration
<1> QED
  BY <1>1, InitDetectionInv, NextDetectionInv, PTL DEF AppSpec

-----------------------------------------------------------------------------
(* Recursion over a list *)

(* Induction, said of a set: what holds of 0 and of each number's successor *)
(* up to n holds of all of them.                                           *)
LEMMA Ascend ==
    ASSUME NEW n \in Nat, NEW S, 0 \in S, \A i \in 1..n : i - 1 \in S => i \in S
    PROVE  0..n \subseteq S
<1> DEFINE T == (0..n) \ S
<1> SUFFICES ASSUME T # {}
             PROVE  FALSE
  OBVIOUS
<1>1. PICK i \in T : \A j \in T : ~(j < i)
  <2> DEFINE R == OpToRel(<, Nat)
  <2>1. T \subseteq Nat
    OBVIOUS
  <2>2. IsWellFoundedOn(R, Nat)
    BY NatLessThanWellFounded
  <2> HIDE DEF R, T
  <2>3. \E x \in T : \A y \in T : <<y, x>> \notin R
    BY <2>1, <2>2, WFMin
  <2> QED
    BY <2>1, <2>3 DEF R, OpToRel
<1>2. i - 1 \notin T
  BY <1>1
<1> QED
  BY <1>2

(* A recursion over 1..n defines a function.                               *)
Recurs(acc, m, base, step) == acc[0] = base /\ \A i \in 1..m : acc[i] = step[i][acc[i - 1]]

LEMMA Recursion ==
    ASSUME NEW n \in Nat, NEW A, NEW base \in A, NEW step \in [1..n -> [A -> A]]
    PROVE  \E acc \in [0..n -> A] : Recurs(acc, n, base, step)
<1> DEFINE S == {m \in 0..n : \E acc \in [0..m -> A] : Recurs(acc, m, base, step)}
<1>1. 0 \in S
  <2>1. [i \in 0..0 |-> base] \in [0..0 -> A] /\ Recurs([i \in 0..0 |-> base], 0, base, step)
    BY DEF Recurs
  <2> QED
    BY <2>1
<1>2. ASSUME NEW m \in 1..n, m - 1 \in S
      PROVE  m \in S
  <2>1. PICK acc \in [0..(m - 1) -> A] : Recurs(acc, m - 1, base, step)
    BY <1>2
  <2> DEFINE next == [i \in 0..m |-> IF i = m THEN step[m][acc[m - 1]] ELSE acc[i]]
  <2>2. step[m][acc[m - 1]] \in A
    OBVIOUS
  <2>3. next \in [0..m -> A]
    BY <2>2
  <2>4. Recurs(next, m, base, step)
    BY <2>1 DEF Recurs
  <2> HIDE DEF next
  <2> QED
    BY <2>3, <2>4
<1>3. 0..n \subseteq S
  <2> HIDE DEF S
  <2> QED
    BY <1>1, <1>2, Ascend
<1> QED
  BY <1>3

(* Every set of indices that is not empty has a greatest one.              *)
LEMMA Greatest ==
    ASSUME NEW n \in Nat, NEW S \in SUBSET (1..n), S # {}
    PROVE  Max(S) \in S /\ \A i \in S : i <= Max(S)
<1>1. \E x \in S : \A i \in S : x >= i
  <2> SUFFICES ASSUME \A x \in S : \E i \in S : ~(x >= i)
               PROVE  FALSE
    OBVIOUS
  <2> DEFINE U == {m \in 0..n : \A i \in S : i <= n - m}
  <2>1. 0 \in U
    OBVIOUS
  <2>2. ASSUME NEW m \in 1..n, m - 1 \in U
        PROVE  m \in U
    <3>1. \A i \in S : i <= n - m + 1
      BY <2>2
    <3>2. n - m + 1 \notin S
      BY <3>1
    <3> QED
      BY <3>1, <3>2
  <2>3. n \in U
    <3> HIDE DEF U
    <3>1. 0..n \subseteq U
      BY <2>1, <2>2, Ascend
    <3> QED
      BY <3>1
  <2>4. PICK i \in S : TRUE
    OBVIOUS
  <2>5. i \in 1..n /\ i <= n - n
    BY <2>3, <2>4
  <2> QED
    BY <2>5
<1> QED
  BY <1>1 DEF Max

(* What is in a list of lists laid end to end.                             *)
LEMMA Concatenated ==
    ASSUME NEW S, NEW s \in Seq(S), NEW t \in Seq(S)
    PROVE  s \o t \in Seq(S) /\ ToSet(s \o t) = ToSet(s) \cup ToSet(t)
<1>1. /\ s \o t \in Seq(S) /\ Len(s \o t) = Len(s) + Len(t) /\ Len(s) \in Nat /\ Len(t) \in Nat
      /\ \A i \in 1..Len(s) + Len(t) : (s \o t)[i] = IF i <= Len(s) THEN s[i] ELSE t[i - Len(s)]
  BY ConcatProperties, LenProperties
<1>2. PICK u : u = s \o t
  OBVIOUS
<1>3. \A v \in Seq(S) : \A x : x \in ToSet(v) <=> \E i \in 1..Len(v) : x = v[i]
  BY SelfTyped
<1>4. \A i \in 1..Len(s) : i \in 1..Len(u) /\ u[i] = s[i]
  BY <1>1, <1>2
<1>5. \A i \in 1..Len(t) : Len(s) + i \in 1..Len(u) /\ u[Len(s) + i] = t[i]
  BY <1>1, <1>2
<1>6. \A i \in 1..Len(u) : (i \in 1..Len(s) /\ u[i] = s[i])
                             \/ (i - Len(s) \in 1..Len(t) /\ u[i] = t[i - Len(s)])
  BY <1>1, <1>2
<1>7. ASSUME NEW x  PROVE x \in ToSet(u) <=> x \in ToSet(s) \/ x \in ToSet(t)
  <2>1. u \in Seq(S)
    BY <1>1, <1>2
  <2>2. /\ x \in ToSet(u) <=> \E i \in 1..Len(u) : x = u[i]
        /\ x \in ToSet(s) <=> \E i \in 1..Len(s) : x = s[i]
        /\ x \in ToSet(t) <=> \E i \in 1..Len(t) : x = t[i]
    BY <1>3, <2>1
  <2> QED
    BY <1>4, <1>5, <1>6, <2>2
<1> QED
  BY <1>1, <1>2, <1>7

LEMMA Flattened ==
    ASSUME NEW S, NEW seqs \in Seq(Seq(S))
    PROVE  /\ FlattenSeq(seqs) \in Seq(S)
           /\ \A x : x \in ToSet(FlattenSeq(seqs)) <=> \E i \in DOMAIN seqs : x \in ToSet(seqs[i])
<1>1. Len(seqs) \in Nat /\ DOMAIN seqs = 1..Len(seqs) /\ \A i \in 1..Len(seqs) : seqs[i] \in Seq(S)
  BY LenProperties, ElementOfSeq
<1>2. CASE Len(seqs) = 0
  <2>1. FlattenSeq(seqs) = <<>>
    BY <1>2 DEF FlattenSeq
  <2>2. ToSet(<<>>) = {}
    BY DEF ToSet
  <2> QED
    BY <1>1, <1>2, <2>1, <2>2
<1>3. CASE Len(seqs) # 0
  <2> DEFINE n == Len(seqs)
             Joined(a, b) == a \o b
             Recursive(f) == [i \in 1..n |-> IF i = 1 THEN seqs[i] ELSE Joined(f[i - 1], seqs[i])]
             flatten == CHOOSE f : f = Recursive(f)
  <2>1. FlattenSeq(seqs) = flatten[n]
    BY <1>3 DEF FlattenSeq
  <2>2. n \in Nat \ {0} /\ \A i \in 1..n : seqs[i] \in Seq(S)
    BY <1>1, <1>3
  <2>3. \A a, b \in Seq(S) : Joined(a, b) \in Seq(S) /\ ToSet(Joined(a, b)) = ToSet(a) \cup ToSet(b)
    BY Concatenated
  <2> HIDE DEF n, Joined
  <2>4. \E f : f = Recursive(f)
    <3> DEFINE A == Seq(S)
               m == n - 1
               step == [i \in 1..m |-> [r \in A |-> Joined(r, seqs[i + 1])]]
    <3>1. m \in Nat /\ n = m + 1
      BY <2>2
    <3>2. \A i \in 1..m : i + 1 \in 1..n
      BY <3>1
    <3> HIDE DEF m
    <3>3. \A i \in 1..m, r \in A : Joined(r, seqs[i + 1]) \in A
      BY <2>2, <2>3, <3>2
    <3>4. step \in [1..m -> [A -> A]] /\ seqs[1] \in A
      BY <2>2, <3>3
    <3>5. \A i \in 1..m, r \in A : step[i][r] = Joined(r, seqs[i + 1])
      OBVIOUS
    <3> HIDE DEF A, step
    <3>6. PICK acc \in [0..m -> A] : Recurs(acc, m, seqs[1], step)
      BY <3>1, <3>4, Recursion
    <3>7. acc[0] = seqs[1] /\ \A i \in 1..m : acc[i] = Joined(acc[i - 1], seqs[i + 1])
      <4>1. \A i \in 1..m : i - 1 \in 0..m /\ acc[i - 1] \in A
        BY <3>1
      <4>2. acc[0] = seqs[1] /\ \A i \in 1..m : acc[i] = step[i][acc[i - 1]]
        BY <3>6 DEF Recurs
      <4> QED
        BY <3>5, <4>1, <4>2
    <3> DEFINE f == [i \in 1..n |-> acc[i - 1]]
    <3>8. f[1] = seqs[1]
      BY <2>2, <3>7
    <3>9. ASSUME NEW i \in 1..n, i # 1
          PROVE  f[i] = Joined(f[i - 1], seqs[i])
      <4>1. i - 1 \in 1..m /\ (i - 1) + 1 = i /\ i - 1 \in 1..n
        BY <3>1, <3>9
      <4>2. acc[i - 1] = Joined(acc[(i - 1) - 1], seqs[i])
        BY <3>7, <4>1
      <4> QED
        BY <4>1, <4>2
    <3>10. f = [i \in 1..n |-> IF i = 1 THEN seqs[i] ELSE Joined(f[i - 1], seqs[i])]
      BY <3>8, <3>9
    <3> QED
      BY <3>10
  <2>5. flatten = Recursive(flatten)
    <3> HIDE DEF Recursive
    <3> QED
      BY <2>4
  <2> HIDE DEF flatten
  <2>6. flatten[1] = seqs[1] /\ \A i \in 2..n : flatten[i] = Joined(flatten[i - 1], seqs[i])
    BY <2>2, <2>5
  <2> DEFINE Holds(x, m) == \E i \in 1..m : x \in ToSet(seqs[i])
             T == {m \in 0..(n - 1) :
                     flatten[m + 1] \in Seq(S) /\ \A x : x \in ToSet(flatten[m + 1]) <=> Holds(x, m + 1)}
  <2>7. 0 \in T
    BY <2>2, <2>6
  <2>8. ASSUME NEW m \in 1..(n - 1), m - 1 \in T
        PROVE  m \in T
    <3>1. m - 1 + 1 = m /\ m + 1 \in 2..n /\ (m + 1) - 1 = m
      BY <2>2
    <3>2. flatten[m] \in Seq(S) /\ \A x : x \in ToSet(flatten[m]) <=> Holds(x, m)
      BY <2>8, <3>1
    <3>3. flatten[m + 1] = Joined(flatten[m], seqs[m + 1]) /\ seqs[m + 1] \in Seq(S)
      BY <2>2, <2>6, <3>1
    <3>4. flatten[m + 1] \in Seq(S) /\ ToSet(flatten[m + 1]) = ToSet(flatten[m]) \cup ToSet(seqs[m + 1])
      BY <2>3, <3>2, <3>3
    <3>5. \A x : Holds(x, m + 1) <=> Holds(x, m) \/ x \in ToSet(seqs[m + 1])
      <4>1. \A i : i \in 1..(m + 1) <=> i \in 1..m \/ i = m + 1
        BY <3>1
      <4> QED
        BY <4>1
    <3> HIDE DEF Holds
    <3>6. \A x : x \in ToSet(flatten[m + 1]) <=> Holds(x, m + 1)
      BY <3>2, <3>4, <3>5
    <3> QED
      BY <3>4, <3>6
  <2>9. n - 1 \in T
    <3> HIDE DEF T
    <3>1. n - 1 \in Nat
      BY <2>2
    <3>2. 0..(n - 1) \subseteq T
      BY <2>7, <2>8, <3>1, Ascend
    <3> QED
      BY <3>1, <3>2
  <2>10. n - 1 + 1 = n
    BY <2>2
  <2> QED
    BY <1>1, <2>1, <2>9, <2>10 DEF n
<1> QED
  BY <1>2, <1>3

-----------------------------------------------------------------------------
(* The hosts that are served *)

(* Of the first m hosts, a workflow runs the last one of its name, and only *)
(* a deletion leaves a name without host.                                   *)
Served(hosts, m, s, gone) ==
    /\ s \in [Workflows -> Hosts \cup {Unset}]
    /\ \A n \in Workflows : s[n] # Unset =>
          \E i \in 1..m : /\ NameOf[hosts[i]] = n /\ s[n] = hosts[i]
                          /\ \A j \in 1..m : NameOf[hosts[j]] = n => j <= i
    /\ \A i \in 1..m : NameOf[hosts[i]] \in gone \/ s[NameOf[hosts[i]]] # Unset

ServesInv ==
    /\ app \in Apps /\ registered \in 0..Len(AllHosts)
    /\ boot \in {"configuring", "starting"} => registered = 0
    /\ worker = "started" => boot = "booted" /\ registered = Len(AllHosts)
    /\ boot = "registering" \/ registered > 0 => ToSet(AllHosts) \subseteq app.usable
    /\ Served(AllHosts, registered, serves, deleted)

LEMMA HostsTyped ==
    ASSUME app \in Apps
    PROVE  /\ AllHosts \in Seq(Hosts) /\ Len(AllHosts) \in Nat
           /\ DOMAIN AllHosts = 1..Len(AllHosts)
           /\ \A i \in 1..Len(AllHosts) : AllHosts[i] \in Hosts /\ NameOf[AllHosts[i]] \in Workflows
           /\ Registered = ToSet(AllHosts)
           /\ \A h : h \in Registered <=> \E i \in 1..Len(AllHosts) : h = AllHosts[i]
<1>1. app.features \in Seq(Seq(Hosts))
  BY WorkerBootstrapAssumption DEF HatchetFeatureRegistration
<1>2. /\ AllHosts \in Seq(Hosts)
      /\ \A h : h \in ToSet(AllHosts) <=> \E i \in DOMAIN app.features : h \in ToSet(app.features[i])
  BY <1>1, Flattened DEF AllHosts
<1>3. Len(AllHosts) \in Nat /\ DOMAIN AllHosts = 1..Len(AllHosts)
  BY <1>2, LenProperties
<1>4. \A i \in 1..Len(AllHosts) : AllHosts[i] \in Hosts
  BY <1>2, ElementOfSeq
<1>5. \A i \in 1..Len(AllHosts) : NameOf[AllHosts[i]] \in Workflows
  BY <1>4, WorkerBootstrapAssumption
<1>6. \A h : h \in ToSet(AllHosts) <=> \E i \in 1..Len(AllHosts) : h = AllHosts[i]
  BY <1>2, SelfTyped
<1>7. Registered = ToSet(AllHosts)
  BY <1>2, <1>4, <1>6 DEF Registered
<1> QED
  BY <1>2, <1>3, <1>4, <1>5, <1>6, <1>7

LEMMA OneMoreServed ==
    ASSUME NEW hosts, NEW m \in Nat, NEW s, NEW gone, Served(hosts, m, s, gone),
           hosts[m + 1] \in Hosts, \A i \in 1..m + 1 : NameOf[hosts[i]] \in Workflows
    PROVE  Served(hosts, m + 1, [s EXCEPT ![NameOf[hosts[m + 1]]] = hosts[m + 1]], gone)
<1> DEFINE name == NameOf[hosts[m + 1]]
           t == [s EXCEPT ![name] = hosts[m + 1]]
<1>1. hosts[m + 1] # Unset
  BY WorkerBootstrapAssumption
<1>2. /\ t \in [Workflows -> Hosts \cup {Unset}] /\ t[name] = hosts[m + 1]
      /\ \A n \in Workflows \ {name} : t[n] = s[n]
  BY DEF Served
<1>3. \A i \in 1..m + 1 : i \in 1..m \/ i = m + 1
  OBVIOUS
<1>4. 1..m \subseteq 1..m + 1 /\ m + 1 \in 1..m + 1 /\ \A i \in 1..m + 1 : i <= m + 1
  OBVIOUS
<1> HIDE DEF t
<1>5. ASSUME NEW n \in Workflows, t[n] # Unset
      PROVE  \E i \in 1..m + 1 : /\ NameOf[hosts[i]] = n /\ t[n] = hosts[i]
                                 /\ \A j \in 1..m + 1 : NameOf[hosts[j]] = n => j <= i
  <2>1. CASE n = name
    BY <1>2, <1>4, <2>1
  <2>2. CASE n # name
    <3>1. PICK i \in 1..m : /\ NameOf[hosts[i]] = n /\ s[n] = hosts[i]
                            /\ \A j \in 1..m : NameOf[hosts[j]] = n => j <= i
      BY <1>2, <1>5, <2>2 DEF Served
    <3> QED
      BY <1>2, <1>3, <1>4, <2>2, <3>1
  <2> QED
    BY <2>1, <2>2
<1>6. ASSUME NEW i \in 1..m + 1
      PROVE  NameOf[hosts[i]] \in gone \/ t[NameOf[hosts[i]]] # Unset
  <2>1. CASE NameOf[hosts[i]] = name
    BY <1>1, <1>2, <2>1
  <2>2. CASE NameOf[hosts[i]] # name
    <3>1. i \in 1..m
      BY <1>3, <2>2
    <3>2. NameOf[hosts[i]] \in Workflows /\ (NameOf[hosts[i]] \in gone \/ s[NameOf[hosts[i]]] # Unset)
      BY <3>1 DEF Served
    <3> QED
      BY <1>2, <2>2, <3>2
  <2> QED
    BY <2>1, <2>2
<1> QED
  BY <1>2, <1>5, <1>6 DEF Served, t

LEMMA InitServesInv == AppInit => ServesInv
<1> SUFFICES ASSUME AppInit
             PROVE  ServesInv
  OBVIOUS
<1>1. /\ app \in Apps /\ registered = 0 /\ boot = "configuring" /\ worker = "none"
      /\ serves = [n \in Workflows |-> Unset]
  BY DEF AppInit, Init
<1>2. Len(AllHosts) \in Nat
  BY <1>1, HostsTyped
<1>3. Served(AllHosts, 0, serves, deleted)
  BY <1>1 DEF Served
<1> QED
  BY <1>1, <1>2, <1>3 DEF ServesInv

(* Steps that leave alone what the server has of this application.         *)
LEMMA ServesStays ==
    ASSUME ServesInv, UNCHANGED <<app, registered, serves, deleted>>,
           \/ boot' = boot \/ boot' = "failed"
           \/ boot = "configuring" /\ boot' = "starting"
           \/ boot = "starting" /\ boot' = "registering" /\ ToSet(AllHosts) \subseteq app.usable
           \/ boot \in {"starting", "registering"} /\ boot' = "booted",
           boot' = "failed" => boot # "booted",
           worker' = worker \/ (worker' = "started" /\ boot' = "booted" /\ registered = Len(AllHosts))
    PROVE  ServesInv'
<1>1. AllHosts' = AllHosts
  BY SameHosts
<1>2. registered > 0 \/ registered = 0
  BY DEF ServesInv
<1>3. Served(AllHosts, registered, serves, deleted)'
  BY <1>1 DEF ServesInv, Served
<1> QED
  BY <1>1, <1>2, <1>3 DEF ServesInv

LEMMA NextServesInv == ServesInv /\ [AppNext]_app_vars => ServesInv'
<1> SUFFICES ASSUME ServesInv, [AppNext]_app_vars
             PROVE  ServesInv'
  OBVIOUS
<1>1. CASE UNCHANGED vars
  <2>1. UNCHANGED <<app, registered, boot, worker, serves, deleted>>
    BY <1>1 DEF vars, local_vars, boot_vars, server_vars
  <2> QED
    BY <2>1, ServesStays
<1>2. ASSUME NEW orphans \in BOOLEAN \cup {Unset}, ForRootAsync(orphans)
      PROVE  ServesInv'
  <2>1. boot = "configuring" /\ boot' = "starting" /\ UNCHANGED <<app, registered, worker, serves, deleted>>
    BY <1>2 DEF ForRootAsync, Configure, server_vars
  <2> QED
    BY <2>1, ServesStays
<1>3. CASE StartupFails \/ DeclarationThrows \/ WorkerRefused
  <2>1. /\ boot # "booted" /\ boot' = "failed"
        /\ UNCHANGED <<app, registered, worker, serves, deleted>>
    BY <1>3 DEF StartupFails, DeclarationThrows, WorkerRefused, local_vars, server_vars
  <2> QED
    BY <2>1, ServesStays
<1>4. CASE RegisterWorker \/ BootWithoutWorker
  <2>1. /\ boot = "starting" /\ UNCHANGED <<app, registered, worker, serves, deleted>>
        /\ (boot' = "registering" /\ ToSet(AllHosts) \subseteq app.usable) \/ boot' = "booted"
    BY <1>4 DEF RegisterWorker, BootWithoutWorker, local_vars, server_vars
  <2> QED
    BY <2>1, ServesStays
<1>5. CASE WorkerRegistered
  <2>1. /\ boot = "registering" /\ boot' = "booted" /\ worker' = "started"
        /\ registered = Len(AllHosts) /\ UNCHANGED <<app, registered, serves, deleted>>
    BY <1>5 DEF WorkerRegistered, local_vars, server_vars
  <2> QED
    BY <2>1, ServesStays
<1>6. CASE DeclarationRegistered
  <2> DEFINE host == AllHosts[registered + 1]
  <2>1. /\ boot = "registering" /\ registered < Len(AllHosts) /\ registered' = registered + 1
        /\ serves' = [serves EXCEPT ![NameOf[host]] = host]
        /\ UNCHANGED <<app, boot, worker, deleted>>
    BY <1>6 DEF DeclarationRegistered, local_vars
  <2>2. AllHosts' = AllHosts
    BY <2>1, SameHosts
  <2>3. /\ Len(AllHosts) \in Nat
        /\ \A i \in 1..Len(AllHosts) : AllHosts[i] \in Hosts /\ NameOf[AllHosts[i]] \in Workflows
    BY HostsTyped DEF ServesInv
  <2>4. registered \in Nat /\ registered + 1 \in 1..Len(AllHosts)
    BY <2>1, <2>3 DEF ServesInv
  <2>5. \A i \in 1..registered + 1 : NameOf[AllHosts[i]] \in Workflows
    BY <2>3, <2>4
  <2>6. Served(AllHosts, registered + 1, serves', deleted)
    BY <2>1, <2>3, <2>4, <2>5, OneMoreServed DEF ServesInv
  <2>7. Served(AllHosts, registered, serves, deleted)'
    BY <2>1, <2>2, <2>6 DEF Served
  <2> QED
    BY <2>1, <2>2, <2>3, <2>4, <2>7 DEF ServesInv
<1>7. CASE PageArrives \/ PageFails
  <2>1. UNCHANGED <<app, registered, boot, worker, serves, deleted>>
    BY <1>7 DEF PageArrives, PageFails, local_vars, boot_vars, server_vars
  <2> QED
    BY <2>1, ServesStays
<1>8. ASSUME NEW n \in Workflows, RemoteRegisters(n)
      PROVE  ServesInv'
  <2>1. UNCHANGED <<app, registered, boot, worker, serves, deleted>>
    BY <1>8 DEF RemoteRegisters, local_vars, boot_vars
  <2> QED
    BY <2>1, ServesStays
<1>9. ASSUME NEW n \in Workflows, RemoteDeletes(n)
      PROVE  ServesInv'
  <2>1. /\ UNCHANGED <<app, registered, boot, worker>>
        /\ serves' = [serves EXCEPT ![n] = Unset] /\ deleted' = deleted \cup {n}
    BY <1>9 DEF RemoteDeletes, local_vars, boot_vars
  <2>2. AllHosts' = AllHosts
    BY <2>1, SameHosts
  <2>3. \A i \in 1..registered : NameOf[AllHosts[i]] \in Workflows
    <3>1. /\ Len(AllHosts) \in Nat /\ registered \in 0..Len(AllHosts)
          /\ \A i \in 1..Len(AllHosts) : NameOf[AllHosts[i]] \in Workflows
      BY HostsTyped DEF ServesInv
    <3> QED
      BY <3>1
  <2>4. Served(AllHosts, registered, serves', deleted')
    BY <2>1, <2>3 DEF ServesInv, Served
  <2>5. Served(AllHosts, registered, serves, deleted)'
    BY <2>1, <2>2, <2>4 DEF Served
  <2> QED
    BY <2>1, <2>2, <2>5 DEF ServesInv
<1>10. CASE \E p \in Providers : Provide(p) \/ ProviderThrows(p)
  BY <1>1, <1>3, <1>10 DEF Provide, ProviderThrows
<1>11. CASE UNCHANGED app_vars
  BY <1>1, <1>11 DEF app_vars
<1> QED
  BY <1>1, <1>2, <1>3, <1>4, <1>5, <1>6, <1>7, <1>8, <1>9, <1>10, <1>11 DEF AppNext, AppFails

(* The host a name stands for, once all are registered.                    *)
LEMMA LastServed ==
    ASSUME app \in Apps, NEW n \in Workflows, NEW i \in 1..Len(AllHosts), NameOf[AllHosts[i]] = n,
           \A j \in 1..Len(AllHosts) : NameOf[AllHosts[j]] = n => j <= i
    PROVE  LastNamed(n) = AllHosts[i]
<1> DEFINE places == {j \in DOMAIN AllHosts : NameOf[AllHosts[j]] = n}
<1>1. Len(AllHosts) \in Nat /\ DOMAIN AllHosts = 1..Len(AllHosts)
  BY HostsTyped
<1>2. places \in SUBSET (1..Len(AllHosts)) /\ i \in places /\ \A j \in places : j <= i
  BY <1>1
<1>3. LastNamed(n) = AllHosts[Max(places)]
  BY DEF LastNamed, AllHosts
<1> HIDE DEF places
<1>4. Max(places) \in places /\ \A j \in places : j <= Max(places)
  BY <1>1, <1>2, Greatest
<1>5. PICK latest : latest = Max(places)
  OBVIOUS
<1>6. latest \in Int /\ i \in Int /\ latest <= i /\ i <= latest
  BY <1>1, <1>2, <1>4, <1>5
<1>7. Max(places) = i
  BY <1>5, <1>6
<1> QED
  BY <1>3, <1>7

(* A running worker serves every host that was given to forFeature().      *)
THEOREM HostsCorrect == AppSpec => []RegisteredHostsServed
<1>1. ASSUME ServesInv
      PROVE  RegisteredHostsServed
  <2>1. /\ Len(AllHosts) \in Nat
        /\ \A i \in 1..Len(AllHosts) : AllHosts[i] \in Hosts /\ NameOf[AllHosts[i]] \in Workflows
        /\ Registered = ToSet(AllHosts)
        /\ \A h : h \in Registered <=> \E i \in 1..Len(AllHosts) : h = AllHosts[i]
    BY <1>1, HostsTyped DEF ServesInv
  <2>2. registered \in 0..Len(AllHosts) /\ Served(AllHosts, registered, serves, deleted) /\ app \in Apps
    BY <1>1 DEF ServesInv
  <2>3. ASSUME worker = "started", NEW h \in Registered, NameOf[h] \notin deleted
        PROVE  serves[NameOf[h]] = LastNamed(NameOf[h])
    <3>1. registered = Len(AllHosts)
      BY <1>1, <2>3 DEF ServesInv
    <3>2. PICK i \in 1..Len(AllHosts) : h = AllHosts[i]
      BY <2>1
    <3>3. NameOf[h] \in Workflows /\ serves[NameOf[h]] # Unset
      BY <2>1, <2>2, <2>3, <3>1, <3>2 DEF Served
    <3>4. PICK k \in 1..Len(AllHosts) :
              /\ NameOf[AllHosts[k]] = NameOf[h] /\ serves[NameOf[h]] = AllHosts[k]
              /\ \A j \in 1..Len(AllHosts) : NameOf[AllHosts[j]] = NameOf[h] => j <= k
      BY <2>2, <3>1, <3>3 DEF Served
    <3>5. LastNamed(NameOf[h]) = AllHosts[k]
      BY <2>2, <3>3, <3>4, LastServed
    <3> QED
      BY <3>4, <3>5
  <2>4. ASSUME NEW n \in Workflows, serves[n] # Unset
        PROVE  serves[n] \in Registered /\ NameOf[serves[n]] = n /\ Registered \subseteq app.usable
    <3>1. PICK i \in 1..registered : NameOf[AllHosts[i]] = n /\ serves[n] = AllHosts[i]
      BY <2>2, <2>4 DEF Served
    <3>2. i \in 1..Len(AllHosts) /\ registered > 0
      BY <2>1, <2>2
    <3>3. ToSet(AllHosts) \subseteq app.usable
      BY <1>1, <3>2 DEF ServesInv
    <3> QED
      BY <2>1, <3>1, <3>2, <3>3
  <2> QED
    BY <2>3, <2>4 DEF RegisteredHostsServed
<1> QED
  BY <1>1, InitServesInv, NextServesInv, PTL DEF AppSpec

-----------------------------------------------------------------------------
(* The warnings *)

(* The places, up to the m-th, of the names that are not declared locally. *)
Foreign(names, m) == {j \in 1..m : names[j] \notin LocalNames}

LEMMA ForeignCounted ==
    ASSUME NEW names, NEW m \in Nat
    PROVE  Cardinality(Foreign(names, m)) \in 0..m /\ IsFiniteSet(Foreign(names, m))
<1>1. IsFiniteSet(1..m) /\ Cardinality(1..m) = m
  <2>1. 1 \in Int /\ m \in Int
    OBVIOUS
  <2>2. IsFiniteSet(1..m) /\ Cardinality(1..m) = IF 1 > m THEN 0 ELSE m - 1 + 1
    BY <2>1, FS_Interval
  <2> QED
    BY <2>2
<1>2. Foreign(names, m) \in SUBSET (1..m)
  BY DEF Foreign
<1>3. IsFiniteSet(Foreign(names, m)) /\ Cardinality(Foreign(names, m)) <= Cardinality(1..m)
  BY <1>1, <1>2, FS_Subset
<1>4. Cardinality(Foreign(names, m)) \in Nat
  BY <1>3, FS_CardinalityType
<1> QED
  BY <1>1, <1>3, <1>4

(* Listed in the order of their places.                                    *)
Lists(o, names, m, S) ==
    /\ o \in Seq(S) /\ Len(o) = Cardinality(Foreign(names, m))
    /\ \A i \in Foreign(names, m) : o[Cardinality(Foreign(names, i))] = names[i]
    /\ \A k \in 1..Len(o) : \E i \in Foreign(names, m) : o[k] = names[i]

(* Every foreign name has a place in the list.                             *)
LEMMA PlaceListed ==
    ASSUME NEW S, NEW names, NEW m \in Nat, NEW o, Lists(o, names, m, S), NEW k \in Foreign(names, m)
    PROVE  Cardinality(Foreign(names, k)) \in 1..Len(o)
<1>1. k \in 1..m /\ k \in Foreign(names, k)
  BY DEF Foreign
<1>2. Foreign(names, k) \in SUBSET Foreign(names, m)
  BY <1>1 DEF Foreign
<1>3. /\ IsFiniteSet(Foreign(names, m)) /\ IsFiniteSet(Foreign(names, k))
      /\ Cardinality(Foreign(names, m)) \in Nat /\ Cardinality(Foreign(names, k)) \in Nat
  BY <1>1, ForeignCounted
<1>4. Cardinality(Foreign(names, k)) <= Cardinality(Foreign(names, m))
  BY <1>2, <1>3, FS_Subset
<1>5. Cardinality(Foreign(names, k)) # 0
  BY <1>1, <1>3, FS_EmptySet
<1>6. Len(o) = Cardinality(Foreign(names, m))
  BY DEF Lists
<1> QED
  BY <1>3, <1>4, <1>5, <1>6

LEMMA ListsOneMore ==
    ASSUME NEW S, NEW names, NEW m \in Nat, names[m + 1] \in S,
           NEW o, Lists(o, names, m, S)
    PROVE  IF names[m + 1] \in LocalNames THEN Lists(o, names, m + 1, S)
           ELSE Lists(Append(o, names[m + 1]), names, m + 1, S)
<1>1. \A i : i \in 1..(m + 1) <=> i \in 1..m \/ i = m + 1
  OBVIOUS
<1>2. CASE names[m + 1] \in LocalNames
  <2>1. Foreign(names, m + 1) = Foreign(names, m)
    BY <1>1, <1>2 DEF Foreign
  <2> QED
    BY <1>2, <2>1 DEF Lists
<1>3. CASE names[m + 1] \notin LocalNames
  <2> DEFINE p == Append(o, names[m + 1])
  <2>1. Foreign(names, m + 1) = Foreign(names, m) \cup {m + 1} /\ m + 1 \notin Foreign(names, m)
    BY <1>1, <1>3 DEF Foreign
  <2>2. Cardinality(Foreign(names, m + 1)) = Cardinality(Foreign(names, m)) + 1
    BY <2>1, ForeignCounted, FS_AddElement
  <2>3. o \in Seq(S) /\ Len(o) = Cardinality(Foreign(names, m)) /\ Len(o) \in Nat
    BY ForeignCounted DEF Lists
  <2>4. /\ p \in Seq(S) /\ Len(p) = Len(o) + 1 /\ p[Len(o) + 1] = names[m + 1]
        /\ \A k \in 1..Len(o) : p[k] = o[k]
    BY <2>3, AppendProperties
  <2>5. \A k : k \in 1..(Len(o) + 1) <=> k \in 1..Len(o) \/ k = Len(o) + 1
    BY <2>3
  <2> HIDE DEF p
  <2>6. ASSUME NEW i \in Foreign(names, m + 1)
        PROVE  p[Cardinality(Foreign(names, i))] = names[i]
    <3>1. CASE i = m + 1
      BY <2>2, <2>3, <2>4, <3>1
    <3>2. CASE i \in Foreign(names, m)
      <4>1. i \in Nat /\ i <= m
        BY <3>2 DEF Foreign
      <4>2. Foreign(names, i) \in SUBSET Foreign(names, m) /\ i \in Foreign(names, i)
        BY <3>2, <4>1 DEF Foreign
      <4>3. Cardinality(Foreign(names, i)) <= Len(o) /\ Cardinality(Foreign(names, i)) \in Nat
        BY <2>3, <4>1, <4>2, ForeignCounted, FS_Subset
      <4>4. Cardinality(Foreign(names, i)) # 0
        BY <4>1, <4>2, ForeignCounted, FS_EmptySet
      <4>5. Cardinality(Foreign(names, i)) \in 1..Len(o)
        BY <2>3, <4>3, <4>4
      <4>6. o[Cardinality(Foreign(names, i))] = names[i]
        BY <3>2 DEF Lists
      <4> QED
        BY <2>4, <4>5, <4>6
    <3> QED
      BY <2>1, <3>1, <3>2
  <2>7. ASSUME NEW k \in 1..Len(p)
        PROVE  \E i \in Foreign(names, m + 1) : p[k] = names[i]
    <3>1. CASE k = Len(o) + 1
      BY <2>1, <2>4, <3>1
    <3>2. CASE k \in 1..Len(o)
      <4>1. PICK i \in Foreign(names, m) : o[k] = names[i]
        BY <3>2 DEF Lists
      <4> QED
        BY <2>1, <2>4, <3>2, <4>1
    <3> QED
      BY <2>4, <2>5, <3>1, <3>2
  <2>8. Lists(p, names, m + 1, S)
    BY <2>2, <2>3, <2>4, <2>6, <2>7 DEF Lists
  <2> QED
    BY <1>3, <2>8 DEF p
<1> QED
  BY <1>2, <1>3

LEMMA OrphansListed ==
    ASSUME NEW S, NEW names \in Seq(S)
    PROVE  Lists(Orphans(names), names, Len(names), S)
<1> DEFINE n == Len(names)
           Local(i) == names[i] \in LocalNames
           Appended(o, i) == Append(o, names[i])
           Recursive(f) == [i \in 0..n |-> IF i = 0 THEN <<>>
                                           ELSE IF Local(i) THEN f[i - 1] ELSE Appended(f[i - 1], i)]
           orphans == CHOOSE f : f = Recursive(f)
<1>1. Orphans(names) = orphans[n]
  BY DEF Orphans
<1>2. n \in Nat /\ \A i \in 1..n : names[i] \in S
  BY LenProperties, ElementOfSeq
<1>3. \A o \in Seq(S), i \in 1..n : Appended(o, i) \in Seq(S)
  BY <1>2, AppendProperties
<1> HIDE DEF n, Local, Appended
<1>4. \E f : f = Recursive(f)
  <2> DEFINE A == Seq(S)
             step == [i \in 1..n |-> [o \in A |-> IF Local(i) THEN o ELSE Appended(o, i)]]
  <2>1. <<>> \in A
    BY EmptySeq
  <2>2. step \in [1..n -> [A -> A]]
    BY <1>3
  <2>3. \A i \in 1..n, o \in A : step[i][o] = IF Local(i) THEN o ELSE Appended(o, i)
    OBVIOUS
  <2> HIDE DEF A, step
  <2>4. PICK acc \in [0..n -> A] : Recurs(acc, n, <<>>, step)
    BY <1>2, <2>1, <2>2, Recursion
  <2>5. acc[0] = <<>> /\ \A i \in 1..n : acc[i] = IF Local(i) THEN acc[i - 1] ELSE Appended(acc[i - 1], i)
    <3>1. \A i \in 1..n : i - 1 \in 0..n /\ acc[i - 1] \in A
      BY <1>2
    <3>2. acc[0] = <<>> /\ \A i \in 1..n : acc[i] = step[i][acc[i - 1]]
      BY <2>4 DEF Recurs
    <3> QED
      BY <2>3, <3>1, <3>2
  <2>6. acc = [i \in 0..n |-> IF i = 0 THEN <<>>
                              ELSE IF Local(i) THEN acc[i - 1] ELSE Appended(acc[i - 1], i)]
    <3>1. \A i \in 0..n : i = 0 \/ i \in 1..n
      BY <1>2
    <3> QED
      BY <2>5, <3>1
  <2> QED
    BY <2>6
<1>5. orphans = Recursive(orphans)
  <2> HIDE DEF Recursive
  <2> QED
    BY <1>4
<1> HIDE DEF orphans
<1>6. /\ orphans[0] = <<>>
      /\ \A i \in 1..n : orphans[i] = IF Local(i) THEN orphans[i - 1] ELSE Appended(orphans[i - 1], i)
  BY <1>2, <1>5
<1> DEFINE T == {m \in 0..n : Lists(orphans[m], names, m, S)}
<1>7. 0 \in T
  <2>1. Foreign(names, 0) = {}
    BY DEF Foreign
  <2>2. Cardinality(Foreign(names, 0)) = 0
    BY <2>1, FS_EmptySet
  <2>3. Lists(<<>>, names, 0, S)
    BY <2>1, <2>2 DEF Lists
  <2> QED
    BY <1>2, <1>6, <2>3
<1>8. ASSUME NEW i \in 1..n, i - 1 \in T
      PROVE  i \in T
  <2>1. PICK m \in Nat : m = i - 1 /\ i = m + 1
    BY <1>2
  <2>2. Lists(orphans[m], names, m, S) /\ names[m + 1] \in S
    BY <1>2, <1>8, <2>1
  <2>3. IF names[i] \in LocalNames THEN Lists(orphans[m], names, i, S)
        ELSE Lists(Append(orphans[m], names[i]), names, i, S)
    BY <2>1, <2>2, ListsOneMore
  <2>4. orphans[i] = IF names[i] \in LocalNames THEN orphans[m] ELSE Append(orphans[m], names[i])
    BY <1>6, <2>1 DEF Local, Appended
  <2>5. Lists(orphans[i], names, i, S)
    BY <2>3, <2>4
  <2> QED
    BY <1>2, <2>5
<1>9. n \in T
  <2> HIDE DEF T
  <2>1. 0..n \subseteq T
    BY <1>2, <1>7, <1>8, Ascend
  <2> QED
    BY <1>2, <2>1
<1> QED
  BY <1>1, <1>9 DEF n

-----------------------------------------------------------------------------
(* The pages *)

(* Where the offset stands, and, while the server stays as it is, what has *)
(* been collected: the list up to there. Whatever is collected or listed   *)
(* has been seen.                                                          *)
Limit == AtMost(PageSize * MaxPages, Len(server))

PagesInv ==
    /\ app \in Apps /\ server \in Seq(Workflows)
    /\ collected \in Seq(Workflows) /\ ToSet(collected) \subseteq seen
    /\ \A n \in ToSet(warned) : n \notin LocalNames /\ n \in seen
    /\ detection = "off" =>
          page = 0 /\ offset = 0 /\ collected = <<>> /\ warned = <<>>
    /\ detection = "listing" =>
          /\ page \in 0..MaxPages - 1 /\ offset = page * PageSize
          /\ ToSet(server) \subseteq seen
          /\ changed = "not" => offset <= Len(server) /\ collected = SubSeq(server, 1, offset)
    /\ detection = "done" /\ changed = "not" =>
          collected = SubSeq(server, 1, Limit) /\ warned = Orphans(collected)

(* Pages in full.                                                          *)
LEMMA PageArithmetic ==
    ASSUME NEW p \in 0..MaxPages - 1
    PROVE  /\ p * PageSize \in Nat /\ p * PageSize + PageSize = (p + 1) * PageSize
           /\ PageSize * MaxPages \in Nat
           /\ (p + 1) * PageSize <= PageSize * MaxPages
           /\ p + 1 = MaxPages => (p + 1) * PageSize = PageSize * MaxPages
<1>1. PageSize \in Nat \ {0} /\ MaxPages \in Nat \ {0}
  BY WorkerBootstrapAssumption
<1>2. p \in Nat /\ p + 1 \in Nat
  BY <1>1
<1>3. p * PageSize \in Nat /\ p * PageSize + PageSize = (p + 1) * PageSize /\ PageSize * MaxPages \in Nat
  BY <1>1, <1>2
<1>4. PICK rest \in Nat : MaxPages = (p + 1) + rest
  <2>1. MaxPages - (p + 1) \in Nat /\ MaxPages = (p + 1) + (MaxPages - (p + 1))
    BY <1>1, <1>2
  <2> QED
    BY <2>1
<1>5. PageSize * ((p + 1) + rest) = (p + 1) * PageSize + rest * PageSize /\ rest * PageSize \in Nat
      /\ (p + 1) * PageSize \in Nat
  BY <1>1, <1>2
<1> QED
  BY <1>1, <1>2, <1>3, <1>4, <1>5

LEMMA RowsTyped ==
    ASSUME server \in Seq(Workflows), NEW k \in Nat, k = offset
    PROVE  /\ Rows \in Seq(Workflows) /\ ToSet(Rows) \subseteq ToSet(server)
           /\ offset <= Len(server) => Len(Rows) = AtMost(offset + PageSize, Len(server)) - offset
<1>1. Len(server) \in Nat /\ \A i \in 1..Len(server) : server[i] \in Workflows
  BY LenProperties, ElementOfSeq
<1>2. \A x : x \in ToSet(server) <=> \E i \in 1..Len(server) : x = server[i]
  BY SelfTyped
<1>3. PICK last \in Nat : last = AtMost(offset + PageSize, Len(server))
  BY <1>1, WorkerBootstrapAssumption DEF AtMost
<1>4. last <= Len(server) /\ (k <= Len(server) => k <= last)
  BY <1>1, <1>3, WorkerBootstrapAssumption DEF AtMost
<1>5. \A i \in k + 1..last : i \in 1..Len(server) /\ server[i] \in ToSet(server) /\ server[i] \in Workflows
  BY <1>1, <1>2, <1>4
<1>6. k + 1 \in Int /\ last \in Int
  OBVIOUS
<1>7. Rows = SubSeq(server, k + 1, last)
  BY <1>3 DEF Rows
<1>8. /\ Rows \in Seq(ToSet(server))
      /\ Len(Rows) = IF k + 1 <= last THEN last - (k + 1) + 1 ELSE 0
  BY <1>5, <1>6, <1>7, SubSeqProperties
<1>9. Rows \in Seq(Workflows)
  BY <1>5, <1>6, <1>7, SubSeqProperties
<1>10. ToSet(Rows) \subseteq ToSet(server)
  <2>1. \A x : x \in ToSet(Rows) <=> \E i \in 1..Len(Rows) : x = Rows[i]
    BY <1>8, SelfTyped
  <2>2. \A i \in 1..Len(Rows) : Rows[i] \in ToSet(server)
    BY <1>8, ElementOfSeq
  <2> QED
    BY <2>1, <2>2
<1>11. offset <= Len(server) => Len(Rows) = last - k
  BY <1>3, <1>4, <1>8
<1> QED
  BY <1>3, <1>9, <1>10, <1>11

(* What a page adds to what the quiet server's pages have brought.         *)
LEMMA NextPage ==
    ASSUME PagesInv, detection = "listing", changed = "not"
    PROVE  LET last == AtMost(offset + PageSize, Len(server))
           IN  /\ collected \o Rows = SubSeq(server, 1, last)
               /\ IF IsLastPage(Rows) THEN last = Limit
                  ELSE last = offset + PageSize /\ offset + PageSize <= Len(server)
<1> DEFINE last == AtMost(offset + PageSize, Len(server))
<1>1. /\ page \in 0..MaxPages - 1 /\ offset = page * PageSize /\ offset <= Len(server)
      /\ collected = SubSeq(server, 1, offset) /\ server \in Seq(Workflows)
  BY DEF PagesInv
<1>2. Len(server) \in Nat /\ PageSize \in Nat \ {0} /\ MaxPages \in Nat \ {0}
  BY <1>1, LenProperties, WorkerBootstrapAssumption
<1>3. /\ offset \in Nat /\ PageSize * MaxPages \in Nat
      /\ offset + PageSize <= PageSize * MaxPages
      /\ page + 1 = MaxPages => offset + PageSize = PageSize * MaxPages
  BY <1>1, PageArithmetic
<1>4. /\ last \in offset..Len(server)
      /\ last = offset + PageSize \/ (last = Len(server) /\ last < offset + PageSize)
  BY <1>1, <1>2, <1>3 DEF AtMost
<1>5. Len(Rows) = last - offset
  BY <1>1, <1>3, RowsTyped
<1>6. collected \o Rows = SubSeq(server, 1, last)
  <2>1. 1 \in 1..Len(server) + 1 /\ offset \in 1 - 1..Len(server)
    BY <1>1, <1>2, <1>3
  <2>2. Rows = SubSeq(server, offset + 1, last)
    BY DEF Rows
  <2> HIDE DEF last
  <2>3. SubSeq(server, 1, offset) \o SubSeq(server, offset + 1, last) = SubSeq(server, 1, last)
    BY <1>1, <1>4, <2>1, ConcatAdjacentSubSeq
  <2> QED
    BY <1>1, <2>2, <2>3
<1>7. CASE IsLastPage(Rows)
  <2>1. last < offset + PageSize \/ page + 1 = MaxPages
    BY <1>2, <1>3, <1>4, <1>5, <1>7 DEF IsLastPage
  <2>2. last = Limit
    BY <1>2, <1>3, <1>4, <2>1 DEF Limit, AtMost
  <2> QED
    BY <1>6, <1>7, <2>2
<1>8. CASE ~IsLastPage(Rows)
  <2>1. ~(last < offset + PageSize)
    BY <1>2, <1>3, <1>4, <1>5, <1>8 DEF IsLastPage
  <2> QED
    BY <1>2, <1>3, <1>4, <1>6, <1>8, <2>1
<1> QED
  BY <1>7, <1>8

(* Steps in which no page arrives.                                         *)
LEMMA ListStays ==
    ASSUME PagesInv, UNCHANGED <<app, page, offset, collected, warned>>,
           \/ UNCHANGED <<server, seen, changed>> /\ (detection' = detection \/ detection' = "failed")
           \/ detection' = detection /\ detection = "off" /\ server' \in Seq(Workflows) /\ UNCHANGED seen
           \/ /\ UNCHANGED detection /\ changed' # "not" /\ server' \in Seq(Workflows)
              /\ seen \subseteq seen' /\ (detection = "listing" => ToSet(server') \subseteq seen')
    PROVE  PagesInv'
<1>1. LocalNames' = LocalNames
  BY SameHosts
<1>2. (detection = "done" /\ changed = "not" => collected = SubSeq(server, 1, Limit) /\ warned = Orphans(collected))'
  <2>1. CASE UNCHANGED <<server, changed>> /\ (detection' = detection \/ detection' = "failed")
    <3>1. Limit' = Limit /\ Orphans(collected)' = Orphans(collected)
      BY <1>1, <2>1 DEF Limit, Orphans
    <3> QED
      BY <2>1, <3>1 DEF PagesInv
  <2> QED
    BY <2>1
<1>3. /\ app' \in Apps /\ server' \in Seq(Workflows)
      /\ collected' \in Seq(Workflows) /\ ToSet(collected') \subseteq seen'
      /\ \A n \in ToSet(warned') : n \notin LocalNames' /\ n \in seen'
  BY <1>1 DEF PagesInv
<1>4. (detection = "off" => page = 0 /\ offset = 0 /\ collected = <<>> /\ warned = <<>>)'
  BY DEF PagesInv
<1>5. (detection = "listing" =>
          /\ page \in 0..MaxPages - 1 /\ offset = page * PageSize
          /\ ToSet(server) \subseteq seen
          /\ changed = "not" => offset <= Len(server) /\ collected = SubSeq(server, 1, offset))'
  BY DEF PagesInv
<1> QED
  BY <1>2, <1>3, <1>4, <1>5 DEF PagesInv

LEMMA ListingStarts ==
    ASSUME PagesInv, detection = "off", StartDetection,
           UNCHANGED <<app, page, offset, collected, warned, server, changed>>
    PROVE  PagesInv'
<1>1. CASE Enabled /\ config.worker /\ LocalNames # {}
  <2>1. detection' = "listing" /\ seen' = ToSet(server)
    BY <1>1 DEF StartDetection
  <2>2. page = 0 /\ offset = 0 /\ collected = <<>> /\ warned = <<>>
    BY DEF PagesInv
  <2>3. server \in Seq(Workflows) /\ Len(server) \in Nat
    BY LenProperties DEF PagesInv
  <2>4. SubSeq(server, 1, 0) = <<>>
    BY SubSeqEmpty
  <2>5. 0 \in 0..MaxPages - 1 /\ 0 * PageSize = 0
    BY WorkerBootstrapAssumption
  <2>6. ToSet(<<>>) = {} /\ <<>> \in Seq(Workflows)
    BY DEF ToSet
  <2> QED
    BY <2>1, <2>2, <2>3, <2>4, <2>5, <2>6 DEF PagesInv
<1>2. CASE ~(Enabled /\ config.worker /\ LocalNames # {})
  <2>1. UNCHANGED <<detection, seen>>
    BY <1>2 DEF StartDetection
  <2> QED
    BY <2>1, ListStays
<1> QED
  BY <1>1, <1>2

LEMMA PageArrivesStep ==
    ASSUME PagesInv, PageArrives
    PROVE  PagesInv'
<1> DEFINE last == AtMost(offset + PageSize, Len(server))
<1>1. /\ detection = "listing" /\ collected' = collected \o Rows /\ page' = page + 1
      /\ UNCHANGED <<app, server, seen, changed>>
  BY DEF PageArrives, local_vars, server_vars, history_vars
<1>2. /\ page \in 0..MaxPages - 1 /\ offset = page * PageSize /\ server \in Seq(Workflows)
      /\ collected \in Seq(Workflows) /\ ToSet(collected) \subseteq seen /\ ToSet(server) \subseteq seen
  BY <1>1 DEF PagesInv
<1>3. offset \in Nat /\ offset + PageSize = (page + 1) * PageSize
  BY <1>2, PageArithmetic
<1>4. Rows \in Seq(Workflows) /\ ToSet(Rows) \subseteq ToSet(server)
  BY <1>2, <1>3, RowsTyped
<1>5. collected' \in Seq(Workflows) /\ ToSet(collected') \subseteq seen
  BY <1>1, <1>2, <1>4, Concatenated
<1>6. LocalNames' = LocalNames /\ Limit' = Limit /\ app' \in Apps
  BY <1>1, SameHosts DEF PagesInv, Limit
<1>7. CASE IsLastPage(Rows)
  <2>1. detection' = "done" /\ warned' = Orphans(collected')
    BY <1>7 DEF PageArrives
  <2>2. Lists(Orphans(collected'), collected', Len(collected'), Workflows)
    BY <1>5, OrphansListed
  <2>3. ASSUME NEW n \in ToSet(warned')
        PROVE  n \notin LocalNames /\ n \in seen
    <3>1. PICK o \in Seq(Workflows) : o = warned'
      BY <2>1, <2>2 DEF Lists
    <3>2. PICK k \in 1..Len(o) : n = o[k]
      BY <3>1, <2>3, SelfTyped
    <3>3. PICK i \in Foreign(collected', Len(collected')) : n = collected'[i]
      BY <2>1, <2>2, <3>1, <3>2 DEF Lists
    <3>4. i \in 1..Len(collected') /\ n \notin LocalNames
      BY <3>3 DEF Foreign
    <3>5. n \in ToSet(collected')
      BY <1>5, <3>3, <3>4, SelfTyped
    <3> QED
      BY <1>5, <3>4, <3>5
  <2>4. changed = "not" => collected' = SubSeq(server, 1, Limit)
    BY <1>1, <1>7, NextPage
  <2>5. Orphans(collected)' = Orphans(collected')
    BY <1>6 DEF Orphans
  <2> QED
    BY <1>1, <1>2, <1>5, <1>6, <2>1, <2>3, <2>4, <2>5 DEF PagesInv
<1>8. CASE ~IsLastPage(Rows)
  <2>1. detection' = "listing" /\ warned' = warned /\ offset' = offset + PageSize
    BY <1>1, <1>8 DEF PageArrives, NextOffset
  <2>2. page + 1 \in 0..MaxPages - 1
    BY <1>2, <1>8, WorkerBootstrapAssumption DEF IsLastPage
  <2>3. changed = "not" => offset' <= Len(server) /\ collected' = SubSeq(server, 1, offset')
    BY <1>1, <1>8, <2>1, NextPage
  <2>4. \A n \in ToSet(warned) : n \notin LocalNames /\ n \in seen
    BY DEF PagesInv
  <2> QED
    BY <1>1, <1>2, <1>3, <1>5, <1>6, <2>1, <2>2, <2>3, <2>4 DEF PagesInv
<1> QED
  BY <1>7, <1>8

LEMMA RemovedTyped ==
    ASSUME server \in Seq(Workflows), NEW i \in DOMAIN server
    PROVE  RemoveAt(server, i) \in Seq(Workflows)
<1>1. server \in Seq(ToSet(server)) /\ \A x : x \in ToSet(server) <=> \E j \in 1..Len(server) : x = server[j]
  BY SelfTyped
<1>2. \A j \in 1..Len(server) : server[j] \in Workflows
  BY ElementOfSeq
<1>3. RemoveAt(server, i) \in Seq(ToSet(server)) /\ ToSet(server) \subseteq Workflows
  BY <1>1, <1>2, Removed
<1> QED
  BY <1>3, SeqMonotonic

OrphanInv == DetectionInv /\ PagesInv

LEMMA InitOrphanInv == AppInit => OrphanInv
<1> SUFFICES ASSUME AppInit
             PROVE  PagesInv
  BY InitDetectionInv DEF OrphanInv
<1>1. server \in Seq(Workflows) /\ app \in Apps
  BY WorkerBootstrapAssumption DEF AppInit, Init
<1>2. ToSet(<<>>) = {} /\ <<>> \in Seq(Workflows)
  BY DEF ToSet
<1> QED
  BY <1>1, <1>2 DEF AppInit, Init, PagesInv

LEMMA NextOrphanInv == OrphanInv /\ [AppNext]_app_vars => OrphanInv'
<1> SUFFICES ASSUME DetectionInv, PagesInv, [AppNext]_app_vars
             PROVE  PagesInv'
  BY NextDetectionInv DEF OrphanInv
<1>1. CASE UNCHANGED <<app, detection_vars, server, history_vars>>
  <2>1. UNCHANGED <<app, detection, page, offset, collected, warned, server, seen, changed>>
    BY <1>1 DEF detection_vars, history_vars
  <2> QED
    BY <2>1, ListStays
<1>2. CASE UNCHANGED vars
  BY <1>1, <1>2 DEF vars, local_vars, server_vars
<1>3. CASE StartupFails \/ DeclarationThrows \/ WorkerRefused \/ RegisterWorker
  BY <1>1, <1>3 DEF StartupFails, DeclarationThrows, WorkerRefused, RegisterWorker, local_vars, server_vars
<1>4. ASSUME NEW orphans \in BOOLEAN \cup {Unset}, ForRootAsync(orphans)
      PROVE  PagesInv'
  BY <1>1, <1>4 DEF ForRootAsync, Configure, server_vars
<1>5. CASE BootWithoutWorker \/ WorkerRegistered
  <2>1. /\ detection = "off" /\ StartDetection
        /\ UNCHANGED <<app, page, offset, collected, warned, server, changed>>
    BY <1>5 DEF BootWithoutWorker, WorkerRegistered, DetectionInv, local_vars, server_vars
  <2> QED
    BY <2>1, ListingStarts
<1>6. CASE DeclarationRegistered
  <2> DEFINE name == NameOf[AllHosts[registered + 1]]
  <2>1. /\ boot = "registering" /\ registered < Len(AllHosts)
        /\ server' = IF name \in ToSet(server) THEN server ELSE <<name>> \o server
        /\ UNCHANGED <<app, detection, page, offset, collected, warned, seen, changed>>
    BY <1>6 DEF DeclarationRegistered, local_vars, detection_vars, history_vars
  <2>2. detection = "off" /\ registered \in Nat
    BY <2>1 DEF DetectionInv
  <2>3. name \in Workflows
    <3>1. /\ Len(AllHosts) \in Nat
          /\ \A i \in 1..Len(AllHosts) : NameOf[AllHosts[i]] \in Workflows
      BY HostsTyped DEF PagesInv
    <3>2. registered + 1 \in 1..Len(AllHosts)
      BY <2>1, <2>2, <3>1
    <3> QED
      BY <3>1, <3>2
  <2>4. server' \in Seq(Workflows)
    <3> HIDE DEF name
    <3>1. <<name>> \in Seq(Workflows) /\ server \in Seq(Workflows)
      BY <2>3 DEF PagesInv
    <3>2. <<name>> \o server \in Seq(Workflows)
      BY <3>1, ConcatProperties
    <3> QED
      BY <2>1, <3>1, <3>2
  <2> QED
    BY <2>1, <2>2, <2>4, ListStays
<1>7. CASE PageFails
  <2>1. /\ detection' = "failed"
        /\ UNCHANGED <<app, page, offset, collected, warned, server, seen, changed>>
    BY <1>7 DEF PageFails, local_vars, server_vars, history_vars
  <2> QED
    BY <2>1, ListStays
<1>8. ASSUME NEW list \in Seq(Workflows), NEW kind \in {"grown", "shrunk"},
             Noted(list, kind), UNCHANGED <<local_vars, detection_vars>>
      PROVE  PagesInv'
  <2>1. /\ server' = list
        /\ changed' = IF detection = "off" \/ changed = "shrunk" THEN changed ELSE kind
        /\ UNCHANGED <<app, detection, page, offset, collected, warned>>
    BY <1>8 DEF Noted, local_vars, detection_vars
  <2>2. CASE detection = "listing"
    <3>1. seen' = seen \cup ToSet(list)
      BY <1>8, <2>2 DEF Noted
    <3> QED
      BY <2>1, <2>2, <3>1, ListStays
  <2>3. CASE detection # "listing"
    <3>1. seen' = seen
      BY <1>8, <2>3 DEF Noted
    <3> QED
      BY <1>8, <2>1, <2>3, <3>1, ListStays
  <2> QED
    BY <2>2, <2>3
<1>9. ASSUME NEW n \in Workflows, RemoteRegisters(n)
      PROVE  PagesInv'
  <2>1. <<n>> \in Seq(Workflows) /\ server \in Seq(Workflows)
    BY DEF PagesInv
  <2>2. <<n>> \o server \in Seq(Workflows)
    BY <2>1, ConcatProperties
  <2> QED
    BY <1>8, <1>9, <2>2 DEF RemoteRegisters
<1>10. ASSUME NEW n \in Workflows, RemoteDeletes(n)
       PROVE  PagesInv'
  <2>1. PICK i \in DOMAIN server : Noted(RemoveAt(server, i), "shrunk")
    BY <1>10 DEF RemoteDeletes
  <2>2. RemoveAt(server, i) \in Seq(Workflows)
    BY <2>1, RemovedTyped DEF PagesInv
  <2> QED
    BY <1>8, <1>10, <2>1, <2>2 DEF RemoteDeletes
<1>11. CASE \E p \in Providers : Provide(p) \/ ProviderThrows(p)
  BY <1>2, <1>3, <1>11 DEF Provide, ProviderThrows
<1>12. CASE UNCHANGED app_vars
  BY <1>2, <1>12 DEF app_vars
<1> QED
  BY <1>2, <1>3, <1>4, <1>5, <1>6, <1>7, <1>9, <1>10, <1>11, <1>12, PageArrivesStep DEF AppNext, AppFails

LEMMA LocalNamesAre ==
    ASSUME app \in Apps, NEW n
    PROVE  n \notin LocalNames <=> \A h \in Registered : NameOf[h] # n
BY HostsTyped DEF LocalNames

(* No local workflow is called an orphan, nor one that never was there.    *)
THEOREM WarningsCorrect == AppSpec => []WarningsJustified
<1>1. OrphanInv => WarningsJustified
  BY LocalNamesAre DEF OrphanInv, PagesInv, WarningsJustified
<1> QED
  BY <1>1, InitOrphanInv, NextOrphanInv, PTL DEF AppSpec

-----------------------------------------------------------------------------
(* The orphans that were there all the time *)

(* While the list only grows, its names move away from the beginning: what *)
(* stands before the offset was there before, too, and has been collected, *)
(* unless it is new.                                                       *)
Reach == IF detection = "done" THEN PageSize * MaxPages ELSE offset

KeptInv ==
    /\ detection = "done" => warned = Orphans(collected)
    /\ detection \in {"listing", "done"} /\ changed # "shrunk" =>
          /\ present \subseteq ToSet(server)
          /\ \A i \in 1..Len(server) :
                i <= Reach /\ server[i] \in present => server[i] \in ToSet(collected)

LEMMA KeptStays ==
    ASSUME KeptInv, UNCHANGED <<app, offset, collected, warned>>,
           \/ UNCHANGED <<server, present, changed>> /\ (detection' = detection \/ detection' = "failed")
           \/ UNCHANGED detection /\ (changed' = "shrunk" \/ detection = "off")
    PROVE  KeptInv'
<1>1. LocalNames' = LocalNames /\ Orphans(collected)' = Orphans(collected)
  BY SameHosts DEF Orphans
<1>2. CASE UNCHANGED <<server, present, changed>> /\ UNCHANGED detection
  <2>1. Reach' = Reach
    BY <1>2 DEF Reach
  <2> QED
    BY <1>1, <1>2, <2>1 DEF KeptInv
<1> QED
  BY <1>1, <1>2 DEF KeptInv

(* A name is registered.                                                   *)
LEMMA KeptGrows ==
    ASSUME PagesInv, KeptInv, detection \in {"listing", "done"}, changed # "shrunk",
           NEW n \in Workflows, n \notin ToSet(server), server' = <<n>> \o server,
           UNCHANGED <<app, detection, offset, collected, warned>>,
           present' \subseteq present
    PROVE  KeptInv'
<1>1. LocalNames' = LocalNames /\ Orphans(collected)' = Orphans(collected) /\ Reach' = Reach
  BY SameHosts DEF Orphans, Reach
<1>2. server \in Seq(Workflows) /\ Len(server) \in Nat /\ present \subseteq ToSet(server)
  BY LenProperties DEF PagesInv, KeptInv
<1>3. /\ ToSet(server) \subseteq ToSet(server')
      /\ Len(server') = Len(server) + 1 /\ server'[1] = n
      /\ \A i \in 2..Len(server) + 1 : server'[i] = server[i - 1]
  <2>1. <<n>> \in Seq(Workflows) /\ Len(<<n>>) = 1 /\ <<n>>[1] = n
    OBVIOUS
  <2>2. /\ Len(<<n>> \o server) = 1 + Len(server)
        /\ \A i \in 1..1 + Len(server) :
              (<<n>> \o server)[i] = IF i <= 1 THEN <<n>>[i] ELSE server[i - 1]
    BY <1>2, <2>1, ConcatProperties
  <2>3. PICK t : t = server'
    OBVIOUS
  <2>4. Len(t) = 1 + Len(server) /\ \A i \in 1..1 + Len(server) : t[i] = IF i <= 1 THEN <<n>>[i] ELSE server[i - 1]
    BY <2>2, <2>3, Zenon
  <2>5. Len(t) = Len(server) + 1 /\ t[1] = n /\ \A i \in 2..Len(server) + 1 : t[i] = server[i - 1]
    BY <1>2, <2>1, <2>4
  <2>6. ToSet(server) \subseteq ToSet(server')
    <3>1. server \in Seq(ToSet(server))
      BY <1>2, SelfTyped
    <3> QED
      BY <3>1, Prepended
  <2> QED
    BY <2>3, <2>5, <2>6
<1>4. Reach \in Nat
  <2>1. detection = "listing" => offset \in Nat
    <3>1. detection = "listing" => page \in 0..MaxPages - 1 /\ offset = page * PageSize
      BY DEF PagesInv
    <3> QED
      BY <3>1, PageArithmetic
  <2> QED
    BY <2>1, WorkerBootstrapAssumption DEF Reach
<1>5. ASSUME NEW i \in 1..Len(server'), i <= Reach, server'[i] \in present'
      PROVE  server'[i] \in ToSet(collected)
  <2>1. i # 1
    BY <1>2, <1>3, <1>5
  <2>2. i \in 2..Len(server) + 1 /\ i - 1 \in 1..Len(server) /\ i - 1 <= Reach
    BY <1>2, <1>3, <1>4, <1>5, <2>1
  <2>3. server'[i] = server[i - 1] /\ server[i - 1] \in present
    BY <1>3, <1>5, <2>2
  <2> QED
    BY <2>2, <2>3 DEF KeptInv
<1>6. warned' = warned /\ collected' = collected /\ detection' = detection
  OBVIOUS
<1> QED
  BY <1>1, <1>2, <1>3, <1>5, <1>6 DEF KeptInv

(* A page reaches up to the next offset, or to the end of the list.        *)
LEMMA RowsReach ==
    ASSUME server \in Seq(Workflows), offset \in Nat,
           NEW i \in 1..Len(server), i > offset, i <= offset + PageSize
    PROVE  server[i] \in ToSet(Rows)
<1>1. Len(server) \in Nat /\ \A j \in 1..Len(server) : server[j] \in Workflows
  BY LenProperties, ElementOfSeq
<1>2. PICK last \in Nat : last = AtMost(offset + PageSize, Len(server))
  BY <1>1, WorkerBootstrapAssumption DEF AtMost
<1>3. i \in (offset + 1)..last /\ last <= Len(server)
  BY <1>1, <1>2, WorkerBootstrapAssumption DEF AtMost
<1>4. \A j \in (offset + 1)..last : server[j] \in Workflows
  BY <1>1, <1>3
<1>5. PICK rows : rows = SubSeq(server, offset + 1, last)
  OBVIOUS
<1>6. /\ rows \in Seq(Workflows)
      /\ Len(rows) = IF offset + 1 <= last THEN last - (offset + 1) + 1 ELSE 0
      /\ \A j \in 1..last - (offset + 1) + 1 : rows[j] = server[(offset + 1) + j - 1]
  <2>1. offset + 1 \in Int /\ last \in Int
    BY <1>2
  <2> QED
    BY <1>4, <1>5, <2>1, SubSeqProperties
<1>7. Rows = rows
  BY <1>2, <1>5 DEF Rows
<1>8. i - offset \in 1..Len(rows) /\ rows[i - offset] = server[i]
  <2>1. i - offset \in 1..last - (offset + 1) + 1 /\ (offset + 1) + (i - offset) - 1 = i
    BY <1>3
  <2>2. Len(rows) = last - (offset + 1) + 1
    BY <1>3, <1>6
  <2> QED
    BY <1>6, <2>1, <2>2
<1> QED
  BY <1>6, <1>7, <1>8, SelfTyped

LEMMA KeptPage ==
    ASSUME PagesInv, KeptInv, PageArrives
    PROVE  KeptInv'
<1>1. /\ detection = "listing" /\ collected' = collected \o Rows
      /\ UNCHANGED <<app, server, present, changed>>
  BY DEF PageArrives, local_vars, server_vars, history_vars
<1>2. /\ page \in 0..MaxPages - 1 /\ offset = page * PageSize /\ server \in Seq(Workflows)
      /\ collected \in Seq(Workflows)
  BY <1>1 DEF PagesInv
<1>3. /\ offset \in Nat /\ PageSize * MaxPages \in Nat
      /\ page + 1 = MaxPages => offset + PageSize = PageSize * MaxPages
  BY <1>2, PageArithmetic
<1>4. Rows \in Seq(Workflows) /\ ToSet(collected') = ToSet(collected) \cup ToSet(Rows)
  BY <1>1, <1>2, <1>3, RowsTyped, Concatenated
<1>5. LocalNames' = LocalNames
  BY <1>1, SameHosts
<1>6. ASSUME changed # "shrunk", NEW i \in 1..Len(server), i <= offset + PageSize, server[i] \in present
      PROVE  server[i] \in ToSet(collected')
  <2>1. CASE i <= offset
    <3>1. i <= Reach
      BY <1>1, <2>1 DEF Reach
    <3> QED
      BY <1>1, <1>4, <1>6, <3>1 DEF KeptInv
  <2>2. CASE ~(i <= offset)
    BY <1>2, <1>3, <1>4, <1>6, <2>2, RowsReach
  <2> QED
    BY <2>1, <2>2
<1>7. CASE IsLastPage(Rows)
  <2>1. detection' = "done" /\ warned' = Orphans(collected') /\ Orphans(collected)' = Orphans(collected')
    BY <1>5, <1>7 DEF PageArrives, Orphans
  <2>2. ASSUME NEW i \in 1..Len(server), i <= PageSize * MaxPages
        PROVE  i <= offset + PageSize
    <3>1. CASE page + 1 = MaxPages
      BY <1>3, <2>2, <3>1
    <3>2. CASE Len(Rows) < PageSize /\ offset <= Len(server)
      <4>1. Len(Rows) = AtMost(offset + PageSize, Len(server)) - offset
        BY <1>2, <1>3, <3>2, RowsTyped
      <4>2. Len(server) \in Nat /\ PageSize \in Nat
        BY <1>2, LenProperties, WorkerBootstrapAssumption
      <4>3. Len(server) <= offset + PageSize
        BY <1>3, <3>2, <4>1, <4>2 DEF AtMost
      <4> QED
        BY <1>3, <4>2, <4>3
    <3>3. CASE ~(offset <= Len(server))
      <4>1. Len(server) \in Nat /\ PageSize \in Nat
        BY <1>2, LenProperties, WorkerBootstrapAssumption
      <4> QED
        BY <1>3, <3>3, <4>1
    <3> QED
      BY <1>7, <3>1, <3>2, <3>3 DEF IsLastPage
  <2>3. Reach' = PageSize * MaxPages
    BY <2>1 DEF Reach
  <2> QED
    BY <1>1, <1>6, <2>1, <2>2, <2>3 DEF KeptInv
<1>8. CASE ~IsLastPage(Rows)
  <2>1. detection' = "listing" /\ offset' = offset + PageSize
    BY <1>1, <1>8 DEF PageArrives, NextOffset
  <2>2. Reach' = offset + PageSize
    BY <2>1 DEF Reach
  <2> QED
    BY <1>1, <1>6, <2>1, <2>2 DEF KeptInv
<1> QED
  BY <1>7, <1>8

LEMMA InitKeptInv == AppInit => KeptInv
BY DEF AppInit, Init, KeptInv

LEMMA NextKeptInv == OrphanInv /\ KeptInv /\ [AppNext]_app_vars => KeptInv'
<1> SUFFICES ASSUME DetectionInv, PagesInv, KeptInv, [AppNext]_app_vars
             PROVE  KeptInv'
  BY DEF OrphanInv
<1>1. CASE UNCHANGED <<app, detection_vars, server, history_vars>>
  <2>1. UNCHANGED <<app, detection, offset, collected, warned, server, present, changed>>
    BY <1>1 DEF detection_vars, history_vars
  <2> QED
    BY <2>1, KeptStays
<1>2. CASE UNCHANGED vars
  BY <1>1, <1>2 DEF vars, local_vars, server_vars
<1>3. CASE StartupFails \/ DeclarationThrows \/ WorkerRefused \/ RegisterWorker
  BY <1>1, <1>3 DEF StartupFails, DeclarationThrows, WorkerRefused, RegisterWorker, local_vars, server_vars
<1>4. ASSUME NEW orphans \in BOOLEAN \cup {Unset}, ForRootAsync(orphans)
      PROVE  KeptInv'
  BY <1>1, <1>4 DEF ForRootAsync, Configure, server_vars
<1>5. CASE BootWithoutWorker \/ WorkerRegistered
  <2>1. /\ detection = "off" /\ StartDetection
        /\ UNCHANGED <<app, page, offset, collected, warned, server, changed>>
    BY <1>5 DEF BootWithoutWorker, WorkerRegistered, DetectionInv, local_vars, server_vars
  <2>2. CASE detection' = "listing" /\ present' = ToSet(server)
    <3>1. offset' = 0 /\ Reach' = 0 /\ ToSet(server)' = ToSet(server)
      BY <2>1, <2>2 DEF PagesInv, Reach
    <3>2. \A i \in 1..Len(server) : ~(i <= 0)
      BY LenProperties DEF PagesInv
    <3> QED
      BY <2>1, <2>2, <3>1, <3>2 DEF KeptInv
  <2>3. CASE UNCHANGED <<detection, present>>
    BY <2>1, <2>3, KeptStays
  <2> QED
    BY <2>1, <2>2, <2>3 DEF StartDetection
<1>6. CASE DeclarationRegistered
  <2>1. detection = "off" /\ UNCHANGED <<app, detection, offset, collected, warned>>
    BY <1>6 DEF DeclarationRegistered, DetectionInv, local_vars, detection_vars
  <2> QED
    BY <2>1, KeptStays
<1>7. CASE PageFails
  <2>1. /\ detection' = "failed"
        /\ UNCHANGED <<app, offset, collected, warned, server, present, changed>>
    BY <1>7 DEF PageFails, local_vars, server_vars, history_vars
  <2> QED
    BY <2>1, KeptStays
<1>8. ASSUME NEW n \in Workflows, RemoteRegisters(n)
      PROVE  KeptInv'
  <2>1. /\ n \notin ToSet(server) /\ Noted(<<n>> \o server, "grown")
        /\ UNCHANGED <<app, detection, offset, collected, warned>>
    BY <1>8 DEF RemoteRegisters, local_vars, detection_vars
  <2>2. server' = <<n>> \o server /\ present' \subseteq present
        /\ changed' = IF detection = "off" \/ changed = "shrunk" THEN changed ELSE "grown"
    BY <2>1 DEF Noted
  <2>3. CASE detection = "off" \/ changed = "shrunk"
    BY <2>1, <2>2, <2>3, KeptStays
  <2>4. CASE detection \in {"listing", "done"} /\ changed # "shrunk"
    BY <2>1, <2>2, <2>4, KeptGrows
  <2>5. CASE detection \notin {"listing", "done"}
    BY <2>1, <2>5 DEF KeptInv
  <2> QED
    BY <2>3, <2>4, <2>5
<1>9. ASSUME NEW n \in Workflows, RemoteDeletes(n)
      PROVE  KeptInv'
  <2>1. PICK i \in DOMAIN server : Noted(RemoveAt(server, i), "shrunk")
    BY <1>9 DEF RemoteDeletes
  <2>2. UNCHANGED <<app, detection, offset, collected, warned>> /\ (changed' = "shrunk" \/ detection = "off")
    BY <1>9, <2>1 DEF RemoteDeletes, Noted, local_vars, detection_vars
  <2> QED
    BY <2>2, KeptStays
<1>10. CASE \E p \in Providers : Provide(p) \/ ProviderThrows(p)
  BY <1>2, <1>3, <1>10 DEF Provide, ProviderThrows
<1>11. CASE UNCHANGED app_vars
  BY <1>2, <1>11 DEF app_vars
<1> QED
  BY <1>2, <1>3, <1>4, <1>5, <1>6, <1>7, <1>8, <1>9, <1>10, <1>11, KeptPage DEF AppNext, AppFails

(* The warnings about a quiet server are its orphans, in its order; those  *)
(* about a server that grows are of all the orphans that stayed.           *)
THEOREM CompletenessCorrect == AppSpec => []NoOrphanOverlooked
<1>1. ASSUME PagesInv, detection = "done", changed = "not"
      PROVE  /\ Len(warned) = Cardinality(OrphanPlaces)
             /\ \A i \in OrphanPlaces :
                   warned[Cardinality({j \in OrphanPlaces : j <= i})] = server[i]
  <2>1. /\ collected = SubSeq(server, 1, Limit) /\ warned = Orphans(collected)
        /\ collected \in Seq(Workflows) /\ server \in Seq(Workflows) /\ app \in Apps
    BY <1>1 DEF PagesInv
  <2>2. Limit \in 0..Len(server) /\ Len(server) \in Nat
    <3>1. PageSize * MaxPages \in Nat /\ Len(server) \in Nat
      BY <2>1, LenProperties, WorkerBootstrapAssumption
    <3> QED
      BY <3>1 DEF Limit, AtMost
  <2>3. Len(collected) = Limit /\ \A i \in 1..Limit : collected[i] = server[i]
    <3>1. \A i \in 1..Len(server) : server[i] \in Workflows
      BY <2>1, ElementOfSeq
    <3>2. \A i \in 1..Limit : server[i] \in Workflows
      BY <2>2, <3>1
    <3>3. /\ Len(collected) = IF 1 <= Limit THEN Limit - 1 + 1 ELSE 0
          /\ \A i \in 1..Limit - 1 + 1 : collected[i] = server[1 + i - 1]
      BY <2>1, <2>2, <3>2, SubSeqProperties
    <3> QED
      BY <2>2, <3>3
  <2>4. Lists(warned, collected, Limit, Workflows)
    BY <2>1, <2>3, OrphansListed
  <2>5. OrphanPlaces = Foreign(collected, Limit)
    BY <2>1, <2>3, LocalNamesAre DEF OrphanPlaces, Foreign, Limit
  <2>6. \A i \in OrphanPlaces : i \in 1..Limit /\ {j \in OrphanPlaces : j <= i} = Foreign(collected, i)
    BY <2>2, <2>5 DEF Foreign
  <2> QED
    BY <2>3, <2>4, <2>5, <2>6 DEF Lists
<1>2. ASSUME PagesInv, KeptInv, detection = "done", changed = "grown",
             NEW i \in OrphanPlaces, server[i] \in present
      PROVE  server[i] \in ToSet(warned)
  <2>1. warned = Orphans(collected) /\ collected \in Seq(Workflows) /\ app \in Apps
    BY <1>2 DEF PagesInv, KeptInv
  <2>2. i \in 1..Len(server) /\ i <= Reach
    <3>1. Len(server) \in Nat /\ PageSize * MaxPages \in Nat
      BY <1>2, LenProperties, WorkerBootstrapAssumption DEF PagesInv
    <3>2. Reach = PageSize * MaxPages
      BY <1>2 DEF Reach
    <3> QED
      BY <3>1, <3>2 DEF OrphanPlaces, AtMost
  <2>3. server[i] \in ToSet(collected) /\ server[i] \notin LocalNames
    BY <1>2, <2>1, <2>2, LocalNamesAre DEF KeptInv, OrphanPlaces
  <2>4. PICK k \in 1..Len(collected) : server[i] = collected[k]
    BY <2>1, <2>3, SelfTyped
  <2>5. /\ Lists(warned, collected, Len(collected), Workflows)
        /\ k \in Foreign(collected, Len(collected))
    BY <2>1, <2>3, <2>4, OrphansListed DEF Foreign
  <2>6. PICK place : place = Cardinality(Foreign(collected, k))
    OBVIOUS
  <2>7. warned \in Seq(Workflows) /\ warned[place] = server[i] /\ place \in 1..Len(warned)
    <3>1. warned \in Seq(Workflows) /\ warned[place] = server[i]
      BY <2>4, <2>5, <2>6 DEF Lists
    <3>2. place \in 1..Len(warned)
      BY <2>4, <2>5, <2>6, PlaceListed
    <3> QED
      BY <3>1, <3>2
  <2> QED
    BY <2>7, SelfTyped
<1>3. OrphanInv /\ KeptInv => NoOrphanOverlooked
  BY <1>1, <1>2 DEF OrphanInv, NoOrphanOverlooked
<1> QED
  BY <1>3, InitOrphanInv, NextOrphanInv, InitKeptInv, NextKeptInv, PTL DEF AppSpec

-----------------------------------------------------------------------------
(* The bootstrap in its application *)

(* What the application adds, the factory, the providers and their errors, *)
(* only ever leads to steps that the bootstrap takes on its own: whatever  *)
(* holds of every WorkerBootstrap holds of the one in an application.      *)
THEOREM Embedded == AppSpec => Spec
<1>1. AppInit => Init
  BY DEF AppInit
<1>2. ASSUME [AppNext]_app_vars
      PROVE  [Next]_vars
  <2>1. ASSUME NEW orphans \in BOOLEAN \cup {Unset}, ForRootAsync(orphans)
        PROVE  Next
    <3>1. UseFactory(instance[Hatchet], orphans) \in HatchetModuleConfig
      BY DEF UseFactory, HatchetModuleConfig
    <3>2. Configure(UseFactory(instance[Hatchet], orphans))
      BY <2>1 DEF ForRootAsync
    <3> QED
      BY <3>1, <3>2, Zenon DEF Next
  <2>2. CASE \E p \in Providers : Provide(p) \/ ProviderThrows(p)
    BY <2>2 DEF Provide, ProviderThrows, Next
  <2>3. CASE UNCHANGED app_vars
    BY <2>3 DEF app_vars
  <2> QED
    BY <1>2, <2>1, <2>2, <2>3, Zenon DEF AppNext, AppFails, Next
<1> QED
  BY <1>1, <1>2, PTL DEF AppSpec, Spec

(* The types of what no other invariant speaks of.                         *)
Stages == {"configuring", "starting", "registering", "booted", "failed"}
Phases == {"off", "listing", "done", "failed"}

TypesInv ==
    /\ config \in HatchetModuleConfig \cup {Unset} /\ boot \in Stages
    /\ worker \in {"none", "started"} /\ detection \in Phases
    /\ page \in 0..MaxPages
    /\ offset = page * PageSize \/ (detection = "done" /\ offset = (page - 1) * PageSize)
    /\ warned \in Seq(Workflows)
    /\ changes \in 0..MaxChanges /\ deleted \subseteq Workflows
    /\ present \subseteq seen /\ seen \subseteq Workflows
    /\ changed \in {"not", "grown", "shrunk"}

LEMMA InitTypesInv == AppInit => TypesInv
<1> SUFFICES ASSUME AppInit
             PROVE  TypesInv
  OBVIOUS
<1>1. PageSize \in Nat /\ MaxPages \in Nat /\ MaxChanges \in Nat
  BY WorkerBootstrapAssumption
<1>2. 0 \in 0..MaxPages /\ 0 \in 0..MaxChanges /\ 0 = 0 * PageSize /\ <<>> \in Seq(Workflows)
  BY <1>1
<1> QED
  BY <1>2 DEF AppInit, Init, TypesInv, Stages, Phases

(* Steps that leave the detection and the server alone.                    *)
LEMMA TypesStay ==
    ASSUME TypesInv, UNCHANGED <<detection_vars, changes, deleted, history_vars>>,
           config' \in HatchetModuleConfig \cup {Unset}, boot' \in Stages,
           worker' \in {"none", "started"}
    PROVE  TypesInv'
BY DEF TypesInv, detection_vars, history_vars

LEMMA TypesListing ==
    ASSUME TypesInv, PagesInv, detection = "off", StartDetection, boot' \in Stages,
           worker' \in {"none", "started"},
           UNCHANGED <<config, page, offset, warned, changes, deleted, changed>>
    PROVE  TypesInv'
<1>1. ToSet(server) \subseteq Workflows
  <2>1. server \in Seq(Workflows)
    BY DEF PagesInv
  <2> QED
    BY <2>1, SelfTyped, ElementOfSeq
<1>2. /\ detection' \in Phases /\ detection' # "done" /\ present' \subseteq seen'
      /\ seen' \subseteq Workflows
  BY <1>1 DEF StartDetection, TypesInv, Phases
<1> QED
  BY <1>2 DEF TypesInv

LEMMA TypesPage ==
    ASSUME TypesInv, PagesInv, PageArrives
    PROVE  TypesInv'
<1>1. /\ detection = "listing" /\ page' = page + 1 /\ collected' = collected \o Rows
      /\ UNCHANGED <<config, boot, worker, changes, deleted, present, seen, changed>>
  BY DEF PageArrives, local_vars, boot_vars, server_vars, history_vars
<1>2. /\ page \in 0..MaxPages - 1 /\ offset = page * PageSize /\ server \in Seq(Workflows)
      /\ collected \in Seq(Workflows)
  BY <1>1 DEF PagesInv
<1>3. offset \in Nat /\ offset + PageSize = (page + 1) * PageSize
  BY <1>2, PageArithmetic
<1>4. page' \in 0..MaxPages /\ page' - 1 = page
  BY <1>1, <1>2, WorkerBootstrapAssumption
<1>5. CASE IsLastPage(Rows)
  <2>1. Rows \in Seq(Workflows)
    BY <1>2, <1>3, RowsTyped
  <2>2. collected' \in Seq(Workflows)
    BY <1>1, <1>2, <2>1, Concatenated
  <2>3. detection' = "done" /\ warned' = Orphans(collected') /\ offset' = offset
    BY <1>5 DEF PageArrives
  <2>4. warned' \in Seq(Workflows)
    BY <2>2, <2>3, OrphansListed DEF Lists
  <2>5. offset' = (page' - 1) * PageSize
    BY <1>2, <1>4, <2>3
  <2> QED
    BY <1>1, <1>4, <2>3, <2>4, <2>5 DEF TypesInv, Phases
<1>6. CASE ~IsLastPage(Rows)
  <2>1. detection' = "listing" /\ warned' = warned /\ offset' = offset + PageSize
    BY <1>1, <1>6 DEF PageArrives, NextOffset
  <2>2. offset' = page' * PageSize
    BY <1>1, <1>3, <2>1
  <2> QED
    BY <1>1, <1>4, <2>1, <2>2 DEF TypesInv, Phases
<1> QED
  BY <1>5, <1>6

LEMMA TypesNoted ==
    ASSUME TypesInv, NEW list \in Seq(Workflows), NEW kind \in {"grown", "shrunk"},
           Noted(list, kind), changes < MaxChanges, deleted' \subseteq Workflows,
           UNCHANGED <<local_vars, boot_vars, detection_vars>>
    PROVE  TypesInv'
<1>1. UNCHANGED <<config, boot, worker, detection, page, offset, warned>>
  BY DEF local_vars, boot_vars, detection_vars
<1>2. changes' \in 0..MaxChanges
  BY WorkerBootstrapAssumption DEF TypesInv, Noted
<1>3. changed' \in {"not", "grown", "shrunk"}
  BY DEF TypesInv, Noted
<1>4. ToSet(list) \subseteq Workflows
  BY SelfTyped, ElementOfSeq
<1>5. present' \subseteq seen' /\ seen' \subseteq Workflows
  BY <1>4 DEF TypesInv, Noted
<1> QED
  BY <1>1, <1>2, <1>3, <1>5 DEF TypesInv

LEMMA NextTypesInv == OrphanInv /\ TypesInv /\ [AppNext]_app_vars => TypesInv'
<1> SUFFICES ASSUME DetectionInv, PagesInv, TypesInv, [AppNext]_app_vars
             PROVE  TypesInv'
  BY DEF OrphanInv
<1>0. /\ config \in HatchetModuleConfig \cup {Unset} /\ boot \in Stages
      /\ worker \in {"none", "started"}
  BY DEF TypesInv
<1>1. CASE UNCHANGED vars
  <2>1. UNCHANGED <<config, boot, worker, detection_vars, changes, deleted, history_vars>>
    BY <1>1 DEF vars, local_vars, boot_vars, server_vars
  <2> QED
    BY <1>0, <2>1, TypesStay
<1>2. ASSUME NEW orphans \in BOOLEAN \cup {Unset}, ForRootAsync(orphans)
      PROVE  TypesInv'
  <2>1. /\ config' = UseFactory(instance[Hatchet], orphans) /\ boot' = "starting"
        /\ UNCHANGED <<worker, detection_vars, changes, deleted, history_vars>>
    BY <1>2 DEF ForRootAsync, Configure, server_vars
  <2>2. config' \in HatchetModuleConfig
    BY <2>1 DEF UseFactory, HatchetModuleConfig
  <2> QED
    BY <1>0, <2>1, <2>2, TypesStay DEF Stages
<1>3. CASE StartupFails \/ DeclarationThrows \/ WorkerRefused \/ RegisterWorker
  <2>1. /\ boot' \in {"failed", "registering"}
        /\ UNCHANGED <<config, worker, detection_vars, changes, deleted, history_vars>>
    BY <1>3 DEF StartupFails, DeclarationThrows, WorkerRefused, RegisterWorker, local_vars, server_vars
  <2> QED
    BY <1>0, <2>1, TypesStay DEF Stages
<1>4. CASE DeclarationRegistered
  <2>1. UNCHANGED <<config, boot, worker, detection_vars, changes, deleted, history_vars>>
    BY <1>4 DEF DeclarationRegistered, local_vars
  <2> QED
    BY <1>0, <2>1, TypesStay
<1>5. CASE BootWithoutWorker \/ WorkerRegistered
  <2>1. /\ detection = "off" /\ StartDetection /\ boot' = "booted"
        /\ worker' = worker \/ worker' = "started"
        /\ UNCHANGED <<config, page, offset, warned, changes, deleted, changed>>
    BY <1>5 DEF BootWithoutWorker, WorkerRegistered, DetectionInv, local_vars, server_vars
  <2> QED
    BY <1>0, <2>1, TypesListing DEF Stages
<1>6. CASE PageFails
  <2>1. /\ detection = "listing" /\ detection' = "failed"
        /\ UNCHANGED <<config, boot, worker, page, offset, warned, changes, deleted, present, seen, changed>>
    BY <1>6 DEF PageFails, local_vars, boot_vars, server_vars, history_vars
  <2> QED
    BY <2>1 DEF TypesInv, Phases
<1>7. ASSUME NEW n \in Workflows, RemoteRegisters(n)
      PROVE  TypesInv'
  <2>1. <<n>> \in Seq(Workflows) /\ server \in Seq(Workflows)
    BY DEF PagesInv
  <2>2. <<n>> \o server \in Seq(Workflows)
    BY <2>1, ConcatProperties
  <2>3. deleted' \subseteq Workflows
    BY <1>7 DEF RemoteRegisters, TypesInv
  <2> QED
    BY <1>7, <2>2, <2>3, TypesNoted DEF RemoteRegisters
<1>8. ASSUME NEW n \in Workflows, RemoteDeletes(n)
      PROVE  TypesInv'
  <2>1. PICK i \in DOMAIN server : Noted(RemoveAt(server, i), "shrunk")
    BY <1>8 DEF RemoteDeletes
  <2>2. RemoveAt(server, i) \in Seq(Workflows)
    BY <2>1, RemovedTyped DEF PagesInv
  <2>3. deleted' \subseteq Workflows
    BY <1>8 DEF RemoteDeletes, TypesInv
  <2> QED
    BY <1>8, <2>1, <2>2, <2>3, TypesNoted DEF RemoteDeletes
<1>9. CASE \E p \in Providers : Provide(p) \/ ProviderThrows(p)
  BY <1>1, <1>3, <1>9 DEF Provide, ProviderThrows
<1>10. CASE UNCHANGED app_vars
  BY <1>1, <1>10 DEF app_vars
<1> QED
  BY <1>1, <1>2, <1>3, <1>4, <1>5, <1>6, <1>7, <1>8, <1>9, <1>10, TypesPage DEF AppNext, AppFails

(* In particular the offset of a pending request lies within the limit.    *)
THEOREM TypeCorrect == AppSpec => []TypeOK
<1>1. ASSUME OrphanInv, ServesInv, TypesInv
      PROVE  TypeOK
  <2>1. /\ app \in Apps /\ collected \in Seq(Workflows) /\ server \in Seq(Workflows)
    BY <1>1 DEF OrphanInv, PagesInv
  <2>2. registered \in 0..Len(AllHosts) /\ serves \in [Workflows -> Hosts \cup {Unset}]
    BY <1>1 DEF ServesInv, Served
  <2> QED
    BY <1>1, <2>1, <2>2 DEF TypesInv, TypeOK, Stages, Phases
<1> QED
  BY <1>1, InitOrphanInv, NextOrphanInv, InitServesInv, NextServesInv, InitTypesInv, NextTypesInv, PTL
     DEF AppSpec
=============================================================================
