-------------------------------- MODULE Configx --------------------------------
(***************************************************************************)
(* packages/configx: a class made by configx(schema) reads process.env     *)
(* when it is constructed, validates what it finds and copies the schema's *)
(* output to itself. Every module that provides the class constructs one   *)
(* instance of it; the environment may change between any two of them, and *)
(* afterwards. Schemas are external: a schema refuses each variable that   *)
(* is missing without a default or has a value it does not accept, and may *)
(* refuse the environment as a whole.                                      *)
(***************************************************************************)
EXTENDS Integers, Sequences, SequencesExt

CONSTANTS Providers,     \* the modules that provide the class
          Variables,     \* the fields of the schema, a sequence: their names,
                         \*   defaults and the values they accept
          RefusedAsAWhole, \* environments the schema refuses although each field is valid
          Values,        \* what an environment variable may be set to
          Environments,  \* what process.env may be at first
          Unset,         \* JavaScript's undefined
          MaxSets        \* bound: changes of process.env

Names == {Variables[i].name : i \in DOMAIN Variables}
Env == [Names -> Values \cup {Unset}]

(* What a module that uses this one assumes of the constants.             *)
ConfigxAssumption ==
    /\ \A i \in DOMAIN Variables :
          /\ Variables[i].default \in Values \cup {Unset}
          /\ Variables[i].accepts \subseteq Values
          /\ \A j \in DOMAIN Variables : Variables[i].name = Variables[j].name => i = j
    /\ Environments \subseteq Env /\ RefusedAsAWhole \subseteq Env
    /\ Unset \notin Values \cup Env
    /\ MaxSets \in Nat

VARIABLES env,       \* process.env
          async,     \* does the schema validate asynchronously
          instance,  \* each provider's instance of the class, Unset before
          thrown,    \* the error that ended the startup, if any
          sets,      \* bound: changes of process.env so far
          readFrom   \* history: what process.env was when an instance was made

vars == <<env, async, instance, thrown, sets, readFrom>>

Init ==
    /\ env \in Environments
    /\ async \in BOOLEAN
    /\ instance = [p \in Providers |-> Unset]
    /\ thrown = Unset
    /\ sets = 0
    /\ readFrom = [p \in Providers |-> Unset]

-----------------------------------------------------------------------------
(* schema["~standard"].validate(process.env): the output, or the issues.   *)
Refuses(field, e) ==
    IF e[field.name] = Unset THEN field.default = Unset ELSE e[field.name] \notin field.accepts

Output(e) ==
    [v \in Names |->
        LET field == CHOOSE f \in ToSet(Variables) : f.name = v
        IN  [parsed |-> IF e[v] = Unset THEN field.default ELSE e[v]]]

Issues(e) ==
    LET refused == {i \in DOMAIN Variables : Refuses(Variables[i], e)}
    IN  IF refused # {} THEN {[path |-> <<Variables[i].name>>] : i \in refused}
        ELSE IF e \in RefusedAsAWhole THEN {[path |-> <<>>]} ELSE {}

-----------------------------------------------------------------------------
(* errors.ts: each issue under its path, the root's under "@".             *)
FormatIssue(issue) == IF issue.path = <<>> THEN <<"@">> ELSE issue.path

FromSchemaIssues(issues) ==
    [name |-> "InvalidConfigError", message |-> {FormatIssue(issue) : issue \in issues}]

(* resolveConfig: a Promise is refused, whatever it will resolve to.       *)
Resolved_PromiseTaken == async \/ Issues(env) = {}
Resolved == ~async /\ Issues(env) = {}

Construct(p) ==
    /\ instance[p] = Unset /\ thrown = Unset
    /\ Resolved
    /\ instance' = [instance EXCEPT ![p] = Output(env)]
    /\ readFrom' = [readFrom EXCEPT ![p] = env]
    /\ UNCHANGED <<env, async, thrown, sets>>

ConstructorThrows(p) ==
    /\ instance[p] = Unset /\ thrown = Unset
    /\ ~Resolved
    /\ thrown' = IF async THEN [name |-> "ConfigxError"] ELSE FromSchemaIssues(Issues(env))
    /\ readFrom' = [readFrom EXCEPT ![p] = env]
    /\ UNCHANGED <<env, async, instance, sets>>

(* External: dotenv, a test, or the application itself.                    *)
SetEnv(v, x) ==
    /\ sets < MaxSets /\ env[v] # x
    /\ env' = [env EXCEPT ![v] = x]
    /\ sets' = sets + 1
    /\ UNCHANGED <<async, instance, thrown, readFrom>>
=============================================================================
