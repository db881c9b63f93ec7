---------------------------- MODULE WorkerBootstrap ----------------------------
(***************************************************************************)
(* packages/hatchet, hatchet.module.ts and explorer/worker-management: what*)
(* happens when the application boots. Once the module has its config,     *)
(* initWorker builds the declarations of all hosts given to forFeature()   *)
(* and has a worker register them at the Hatchet server; then, without     *)
(* holding up the boot, detectOrphanWorkflows pages through the server's   *)
(* workflows and warns of those that are not declared locally. Other       *)
(* deployments register and delete workflows all the while.                *)
(***************************************************************************)
EXTENDS Integers, Sequences, SequencesExt

CONSTANTS Hosts,           \* host classes
          NameOf,          \* fromCtor(host).name: two hosts may have one name
          Apps,            \* the applications: see `app`
          Workflows,       \* workflow names
          Unset,           \* JavaScript's undefined
          PageSize,        \* pageSize of fetchAllServerWorkflows
          MaxPages,        \* maxPages of fetchAllServerWorkflows
          InitialServers,  \* the lists the server may hold at first
          MaxChanges       \* bound: changes made by other deployments

HatchetModuleConfig == [worker : BOOLEAN, enableOrphanDetection : BOOLEAN \cup {Unset}]
HatchetFeatureRegistration == Seq(Hosts)

ASSUME WorkerBootstrapAssumption ==
    /\ Unset \notin BOOLEAN \cup Hosts \cup HatchetModuleConfig
    /\ NameOf \in [Hosts -> Workflows]
    /\ Apps \subseteq [features : Seq(HatchetFeatureRegistration), usable : SUBSET Hosts]
    /\ PageSize \in Nat \ {0} /\ MaxPages \in Nat \ {0}
    /\ InitialServers \subseteq Seq(Workflows)
    /\ MaxChanges \in Nat

VARIABLES app,        \* `features`: the hosts of each forFeature() call, as
                      \*   ModuleRef finds them; `usable`: the hosts that are
                      \*   provided somewhere and sound
          config,     \* the injected HatchetModuleConfig, Unset before
          boot,       \* "configuring", "starting" (module initialised),
                      \*   "registering" (awaiting client.worker), "booted", "failed"
          registered, \* how many declarations client.worker() has registered
          worker,     \* "none" or "started"
          detection,  \* "off", "listing" (awaiting workflows.list), "done", "failed"
          page,       \* loop variable of fetchAllServerWorkflows
          offset,     \* offset of the pending workflows.list
          collected,  \* allWorkflows
          warned,     \* the names warned of, in order
          server,     \* external: the server's workflows, in the order it lists them
          serves,     \* external: the host of this application a workflow runs
          changes,    \* bound: changes made by other deployments so far
          deleted,    \* history: names deleted by others
          present,    \* history: names on the server since the listing began
          seen,       \* history: names on the server at some time of the listing
          changed     \* history: what has become of the server's list since then:
                      \*   "not" changed, only "grown", or "shrunk"

local_vars == <<app, config>>
boot_vars == <<boot, registered, worker>>
detection_vars == <<detection, page, offset, collected, warned>>
server_vars == <<server, serves, changes, deleted>>
history_vars == <<present, seen, changed>>
vars == <<local_vars, boot_vars, detection_vars, server_vars, history_vars>>

Init ==
    /\ app \in Apps
    /\ config = Unset
    /\ boot = "configuring" /\ registered = 0 /\ worker = "none"
    /\ detection = "off" /\ page = 0 /\ offset = 0
    /\ collected = <<>> /\ warned = <<>>
    /\ server \in InitialServers /\ serves = [n \in Workflows |-> Unset]
    /\ changes = 0 /\ deleted = {}
    /\ present = {} /\ seen = {} /\ changed = "not"

-----------------------------------------------------------------------------
(* registrations.flatMap((it) => it.refs): the hosts of every forFeature() *)
(* call; without any call, discoverFeatureRegistrations returns none.      *)
AllHosts_FirstFeature == IF app.features = <<>> THEN <<>> ELSE Head(app.features)
AllHosts == FlattenSeq(app.features)

LocalNames == {NameOf[AllHosts[i]] : i \in 1..Len(AllHosts)}

(* HatchetModule.forRoot(config), or what forRootAsync's factory returned. *)
Configure(c) ==
    /\ boot = "configuring"
    /\ config' = c
    /\ boot' = "starting"
    /\ UNCHANGED <<app, registered, worker, detection_vars, server_vars, history_vars>>

(* A provider throws, the factory of forRootAsync rejects, or the builder  *)
(* does not find an interceptor: Nest gives up before any hook is called.  *)
StartupFails ==
    /\ boot \in {"configuring", "starting"}
    /\ boot' = "failed"
    /\ UNCHANGED <<local_vars, registered, worker, detection_vars, server_vars, history_vars>>

-----------------------------------------------------------------------------
(* onApplicationBootstrap after initWorker: detection starts if enabled,   *)
(* with a worker and local workflows; it calls workflows.list and the boot *)
(* goes on without it.                                                     *)
Enabled == IF config.enableOrphanDetection = Unset THEN TRUE
           ELSE config.enableOrphanDetection

StartDetection ==
    IF Enabled /\ config.worker /\ LocalNames # {}
    THEN /\ detection' = "listing"
         /\ present' = ToSet(server)
         /\ seen' = ToSet(server)
    ELSE UNCHANGED <<detection, present, seen>>

(* Without worker configuration, or without any host, initWorker returns   *)
(* at once.                                                                *)
BootWithoutWorker ==
    /\ boot = "starting"
    /\ ~config.worker \/ AllHosts = <<>>
    /\ boot' = "booted"
    /\ StartDetection
    /\ UNCHANGED <<local_vars, registered, worker, page, offset, collected, warned, server_vars, changed>>

(* buildDeclarations, then client.worker(): both before the first await.   *)
RegisterWorker_NotAwaited ==
    /\ boot = "starting"
    /\ config.worker /\ AllHosts # <<>>
    /\ ToSet(AllHosts) \subseteq app.usable
    /\ boot' = "registering"
    /\ StartDetection
    /\ UNCHANGED <<local_vars, registered, worker, page, offset, collected, warned, server_vars, changed>>
RegisterWorker ==
    /\ boot = "starting"
    /\ config.worker /\ AllHosts # <<>>
    /\ ToSet(AllHosts) \subseteq app.usable
    /\ boot' = "registering"
    /\ UNCHANGED <<local_vars, registered, worker, detection_vars, server_vars, history_vars>>

(* moduleRef.get() or createDeclaration() throws.                          *)
DeclarationThrows ==
    /\ boot = "starting"
    /\ config.worker /\ ~(ToSet(AllHosts) \subseteq app.usable)
    /\ boot' = "failed"
    /\ UNCHANGED <<local_vars, registered, worker, detection_vars, server_vars, history_vars>>

(* External: client.worker() registers one declaration after the other; a  *)
(* new name comes first in the server's list, a known one is redefined.    *)
DeclarationRegistered ==
    /\ boot = "registering" /\ registered < Len(AllHosts)
    /\ registered' = registered + 1
    /\ LET host == AllHosts[registered + 1]
           name == NameOf[host]
       IN  /\ server' = IF name \in ToSet(server) THEN server ELSE <<name>> \o server
           /\ serves' = [serves EXCEPT ![name] = host]
    /\ UNCHANGED <<local_vars, boot, worker, detection_vars, changes, deleted, history_vars>>

(* client.worker() resolves; worker.start() is called and not awaited.     *)
WorkerRegistered ==
    /\ boot = "registering" /\ registered = Len(AllHosts)
    /\ worker' = "started"
    /\ boot' = "booted"
    /\ StartDetection
    /\ UNCHANGED <<local_vars, registered, page, offset, collected, warned, server_vars, changed>>

(* client.worker() rejects, having registered some or none of them.        *)
WorkerRefused ==
    /\ boot = "registering"
    /\ boot' = "failed"
    /\ UNCHANGED <<local_vars, registered, worker, detection_vars, server_vars, history_vars>>

-----------------------------------------------------------------------------
(* detectOrphanWorkflows *)

AtMost(x, y) == IF x <= y THEN x ELSE y

(* workflows.list({ offset, limit: pageSize }). An empty page may come     *)
(* without rows; the code takes the one for the other.                     *)
Rows == SubSeq(server, offset + 1, AtMost(offset + PageSize, Len(server)))

(* The loop ends with a page that is not full, or at the page limit.       *)
IsLastPage_OneEarly(rows) == Len(rows) < PageSize \/ page + 2 >= MaxPages
IsLastPage(rows) == Len(rows) < PageSize \/ page + 1 = MaxPages

Orphans_All(names) == names
Orphans(names) ==
    LET orphans[i \in 0..Len(names)] ==
            IF i = 0 THEN <<>>
            ELSE IF names[i] \in LocalNames THEN orphans[i - 1]
            ELSE Append(orphans[i - 1], names[i])
    IN  orphans[Len(names)]

NextOffset_Same == offset
NextOffset == offset + PageSize

PageArrives ==
    /\ detection = "listing"
    /\ collected' = collected \o Rows
    /\ page' = page + 1
    /\ IF IsLastPage(Rows)
       THEN /\ detection' = "done"
            /\ warned' = Orphans(collected')
            /\ UNCHANGED offset
       ELSE /\ offset' = NextOffset
            /\ UNCHANGED <<detection, warned>>
    /\ UNCHANGED <<local_vars, boot_vars, server_vars, history_vars>>

(* workflows.list() rejects: the error is swallowed, nothing is warned of. *)
PageFails ==
    /\ detection = "listing"
    /\ detection' = "failed"
    /\ UNCHANGED <<local_vars, boot_vars, page, offset, collected, warned,
                   server_vars, history_vars>>

-----------------------------------------------------------------------------
(* External: the other deployments' workers and operators.                 *)

Noted(newServer, kind) ==
    /\ server' = newServer
    /\ changes' = changes + 1
    /\ changed' = IF detection = "off" \/ changed = "shrunk" THEN changed ELSE kind
    /\ IF detection = "listing"
       THEN /\ present' = present \cap ToSet(newServer)
            /\ seen' = seen \cup ToSet(newServer)
       ELSE UNCHANGED <<present, seen>>

RemoteRegisters(n) ==
    /\ changes < MaxChanges
    /\ n \notin ToSet(server)
    /\ Noted(<<n>> \o server, "grown")
    /\ UNCHANGED <<local_vars, boot_vars, detection_vars, serves, deleted>>

RemoteDeletes(n) ==
    /\ changes < MaxChanges
    /\ \E i \in DOMAIN server : server[i] = n /\ Noted(RemoveAt(server, i), "shrunk")
    /\ serves' = [serves EXCEPT ![n] = Unset]
    /\ deleted' = deleted \cup {n}
    /\ UNCHANGED <<local_vars, boot_vars, detection_vars>>

Next ==
    \/ \E c \in HatchetModuleConfig : Configure(c)
    \/ StartupFails
    \/ BootWithoutWorker \/ RegisterWorker \/ DeclarationThrows
    \/ DeclarationRegistered \/ WorkerRegistered \/ WorkerRefused
    \/ PageArrives \/ PageFails
    \/ \E n \in Workflows : RemoteRegisters(n) \/ RemoteDeletes(n)

Spec == Init /\ [][Next]_vars

-----------------------------------------------------------------------------
(* Properties *)

(* The type invariant: in particular an offset never passes the page limit.*)
TypeOK ==
    /\ app \in Apps /\ config \in HatchetModuleConfig \cup {Unset}
    /\ boot \in {"configuring", "starting", "registering", "booted", "failed"}
    /\ registered \in 0..Len(AllHosts)
    /\ worker \in {"none", "started"}
    /\ detection \in {"off", "listing", "done", "failed"}
    /\ page \in 0..MaxPages
    /\ offset = page * PageSize \/ (detection = "done" /\ offset = (page - 1) * PageSize)
    /\ collected \in Seq(Workflows)
    /\ warned \in Seq(Workflows)
    /\ server \in Seq(Workflows) /\ serves \in [Workflows -> Hosts \cup {Unset}]
    /\ changes \in 0..MaxChanges /\ deleted \subseteq Workflows
    /\ present \subseteq seen /\ seen \subseteq Workflows
    /\ changed \in {"not", "grown", "shrunk"}

(* The hosts of all forFeature() calls, and the one of them that a name    *)
(* stands for in the end.                                                  *)
Registered == {h \in Hosts : \E i \in DOMAIN app.features : h \in ToSet(app.features[i])}
LastNamed(n) ==
    LET hosts == FlattenSeq(app.features)
    IN  hosts[Max({i \in DOMAIN hosts : NameOf[hosts[i]] = n})]

(* A running worker serves the hosts of every forFeature() call, wherever  *)
(* it was made, unless another deployment deleted the workflow; of hosts   *)
(* with one name only the last is served, unnoticed. One host that is not  *)
(* provided or unsound keeps the whole application from registering any.   *)
RegisteredHostsServed ==
    /\ worker = "started" =>
          \A h \in Registered :
              NameOf[h] \in deleted \/ serves[NameOf[h]] = LastNamed(NameOf[h])
    /\ \A n \in Workflows : serves[n] # Unset =>
          serves[n] \in Registered /\ NameOf[serves[n]] = n /\ Registered \subseteq app.usable

(* The server is asked only by an application that has booted with a       *)
(* running worker and whose declarations are all registered, also if that  *)
(* was refused half-way, unless the config says no.                        *)
DetectionFollowsRegistration ==
    detection # "off" =>
        /\ boot = "booted" /\ worker = "started" /\ registered = Len(AllHosts)
        /\ LocalNames # {} /\ config.worker
        /\ config.enableOrphanDetection # FALSE
        /\ LocalNames \subseteq seen \cup deleted

(* Whatever changes while the pages are fetched, no local workflow is ever *)
(* called an orphan, nor one the server never had.                         *)
WarningsJustified ==
    \A n \in ToSet(warned) :
        (\A h \in Registered : NameOf[h] # n) /\ n \in seen

(* On a server that stays as it is, exactly the orphans within the page    *)
(* limit are warned of, each once, in the server's order: the one listed   *)
(* as the k-th of them is the k-th warning. While other deployments only   *)
(* register workflows, the pages shift under the reader, but no orphan     *)
(* that was there from the beginning and is within the limit is missed.    *)
OrphanPlaces ==
    {i \in 1..AtMost(PageSize * MaxPages, Len(server)) : \A h \in Registered : NameOf[h] # server[i]}

NoOrphanOverlooked ==
    detection = "done" =>
        /\ changed = "not" =>
              /\ Len(warned) = Cardinality(OrphanPlaces)
              /\ \A i \in OrphanPlaces :
                    warned[Cardinality({j \in OrphanPlaces : j <= i})] = server[i]
        /\ changed = "grown" =>
              \A i \in OrphanPlaces : server[i] \in present => server[i] \in ToSet(warned)

(* "Fetches all workflows registered on the Hatchet server using          *)
(* pagination": whatever was there all the time is in the result. A run    *)
(* finds it violated.                                                      *)
FetchesAllWorkflows == detection = "done" => present \subseteq ToSet(collected)
=============================================================================
