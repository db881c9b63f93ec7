----------------------------- MODULE TaskExecution -----------------------------
(***************************************************************************)
(* packages/hatchet: from what triggers a task to the host's method. An    *)
(* event emitted through Client.emit, one pushed by a foreign system, a    *)
(* direct run or a cron schedule makes the Hatchet server start a run of   *)
(* the host (external). The declaration's `fn` then infers the trigger     *)
(* from the run's metadata, validates the input of direct runs, and calls  *)
(* the host's method through the chain of interceptors; the method asks    *)
(* the event guards what triggered it.                                     *)
(*                                                                         *)
(* A payload is a model value. An input is a payload with the event marker *)
(* it carries, if any, and its form: "raw" as it arrived, or the "output"  *)
(* of a schema, which may have transformed it.                             *)
(***************************************************************************)
EXTENDS Integers, Sequences, SequencesExt

CONSTANTS Runs,          \* runs of one host, each started at most once
          Events,        \* event definitions
          Names,         \* the names of events
          Definition,    \* the name and the schema of each event definition
          HostOpts,      \* what @Host() was given: onEvents and onCrons
          Payloads,      \* what a sender may send
          Empty,         \* the input {}
          HostVerdicts,  \* what the host's input schema may answer to a payload
          UserKeys,      \* bound: the server's own keys that a sender may put among
                         \*   the additionalMetadata of a run or an event
          Interceptors,  \* the interceptors of forRoot, in order
          Method,        \* the host's decorated method
          Unset,         \* JavaScript's undefined
          MaxCalls       \* bound: no next() is called once there have been so many
                         \*   calls of interceptors and methods in all runs

(* The fields of an EventDefinition. Its schema reports no issues of the   *)
(* payloads it accepts, which is all that cast() asks. A strict one refuses *)
(* the keys it does not know, the marker among them; an asynchronous one   *)
(* is not supported.                                                       *)
EventDefinition == [name : Names, accepts : SUBSET Payloads, strict : BOOLEAN, async : BOOLEAN]

(* A host listens to events by name or by definition; Unset is no option.  *)
Listed == {Unset} \cup Seq([name : Names, definition : BOOLEAN])

(* What a schema reports of a field: a message and the path to the field,  *)
(* a sequence of keys, bare or in a PathSegment object. The text of a key  *)
(* is a sequence of words, so that "items.id" can be a key too.            *)
Punctuation == {".", "[", "]", ""}
Text == Seq(STRING \cup Punctuation)
PathEntry == [segment : BOOLEAN, number : BOOLEAN, text : Text]
Issue == [message : STRING, path : {Unset} \cup Seq(PathEntry)]

(* External: the result of a schema, as the Standard Schema interface has  *)
(* it. A result without a value has issues, but some libraries return a    *)
(* value, perhaps a partial one, next to the issues.                       *)
Verdict == [value : {"none", "output", "undefined"}, issues : {Unset} \cup Seq(Issue)]

ServerKeys == {"hatchet__event_key", "hatchet__cron_name"}

Inputs == [payload : Payloads \cup {Empty}, marker : Names \cup {Unset}, form : {"raw", "output"}]

ASSUME TaskExecutionAssumption ==
    /\ Definition \in [Events -> EventDefinition]
    /\ HostOpts.onEvents \in Listed /\ HostOpts.onCrons \in {Unset} \cup Seq(STRING)
    /\ HostVerdicts \in [Payloads \cup {Empty} -> SUBSET Verdict]
    /\ \A p \in Payloads \cup {Empty} : \A v \in HostVerdicts[p] :
          v.value = "none" => v.issues # Unset
    /\ UserKeys \subseteq SUBSET ServerKeys
    /\ Empty \notin Payloads /\ Unset \notin Names \cup Inputs \cup Verdict /\ Unset \notin Text
    /\ Interceptors \in Seq(ToSet(Interceptors)) /\ Method \notin ToSet(Interceptors)
    /\ MaxCalls \in Nat

VARIABLES hasSchema,  \* does the host declare an inputSchema
          trigger,    \* history: what started a run: [by, event, user], with those
                      \*   of the server's keys that its sender set; Unset before
          metadata,   \* the keys of ctx.additionalMetadata()
          input,      \* ctx.input, Unset if the run was given none
          phase,      \* "idle", "started", "validating", "executing", "settled"
          called,     \* whom of the chain, intercept() or the method, has been
                      \*   called, in order
          outcome,    \* "pending", "value", "error", "invalidInput"
          verdict,    \* history: what the host's schema answered, Unset before
          issues      \* the issues of the InputValidationFailedException

verdict_vars == <<verdict, issues>>
vars == <<hasSchema, trigger, metadata, input, phase, called, outcome, verdict_vars>>

Init ==
    /\ hasSchema \in BOOLEAN
    /\ trigger = [r \in Runs |-> Unset]
    /\ metadata = [r \in Runs |-> {}]
    /\ input = [r \in Runs |-> Unset]
    /\ phase = [r \in Runs |-> "idle"]
    /\ called = [r \in Runs |-> <<>>]
    /\ outcome = [r \in Runs |-> "pending"]
    /\ verdict = [r \in Runs |-> Unset] /\ issues = [r \in Runs |-> <<>>]

-----------------------------------------------------------------------------
(* The triggers. translateHostOpts hands the server the names of the       *)
(* events; a host that lists none is triggered by none. The context tells  *)
(* the host's code the same names.                                         *)
OnEvents ==
    IF HostOpts.onEvents = Unset THEN <<>>
    ELSE [i \in DOMAIN HostOpts.onEvents |-> HostOpts.onEvents[i].name]
OnCrons == IF HostOpts.onCrons = Unset THEN <<>> ELSE HostOpts.onCrons

HostTriggerConfig == [onEvents |-> OnEvents, onCrons |-> OnCrons]
Subscribed == ToSet(OnEvents)

Given(p, marker) == [payload |-> p, marker |-> marker, form |-> "raw"]
Sendable(markers) == {Given(p, n) : p \in Payloads, n \in markers} \cup {Unset}

(* The sender's additionalMetadata are forwarded and stand beside the keys *)
(* the server adds.                                                        *)
Begin(rs, by, event, user, keys, given) ==
    /\ \A r \in rs : phase[r] = "idle"
    /\ trigger' = [r \in Runs |->
                     IF r \in rs THEN [by |-> by, event |-> event, user |-> user] ELSE trigger[r]]
    /\ metadata' = [r \in Runs |-> IF r \in rs THEN keys \cup user ELSE metadata[r]]
    /\ input' = [r \in Runs |-> IF r \in rs THEN given[r] ELSE input[r]]
    /\ phase' = [r \in Runs |-> IF r \in rs THEN "started" ELSE phase[r]]
    /\ UNCHANGED <<hasSchema, called, outcome, verdict_vars>>

(* Client.emit: the marker is set over whatever the payload carries, which *)
(* may be another event's marker if it is itself some run's input.         *)
Marked_KeepsOld(e, p, old) == Given(p, IF old = Unset THEN e ELSE old)
Marked(e, p, old) == Given(p, e)

(* A single payload or an array of them, an array of none being nothing.   *)
Emit(e, rs) ==
    /\ rs # {} /\ Definition[e].name \in Subscribed
    /\ \E ps \in [rs -> Payloads], olds \in [rs -> Names \cup {Unset}], user \in UserKeys :
          Begin(rs, "emit", Definition[e].name, user, {"hatchet__event_key"},
                [r \in rs |-> Marked(Definition[e].name, ps[r], olds[r])])

(* External: an event pushed without this library, hence without marker.   *)
Push(n, r) ==
    /\ n \in Subscribed
    /\ \E p \in Payloads, user \in UserKeys :
          Begin({r}, "push", n, user, {"hatchet__event_key"}, [q \in {r} |-> Given(p, Unset)])

(* Client.run or ctx.run: the input may be another run's, marker included, *)
(* and so may the metadata among the options. The server adds no key.      *)
Run(r) ==
    \E given \in Sendable(Names \cup {Unset}), user \in UserKeys :
        Begin({r}, "run", Unset, user, {}, [q \in {r} |-> given])

(* External: a cron schedule, with or without an input of its own.         *)
Cron(r) ==
    /\ OnCrons # <<>>
    /\ \E given \in Sendable({Unset}) :
        Begin({r}, "cron", Unset, {}, {"hatchet__cron_name"}, [q \in {r} |-> given])

-----------------------------------------------------------------------------
(* preProcessContext *)

InferTriggerSource_ByMarker(r) ==
    IF "hatchet__cron_name" \in metadata[r] THEN "cron"
    ELSE IF input[r] # Unset /\ input[r].marker # Unset THEN "event" ELSE "run"
InferTriggerSource(r) ==
    IF "hatchet__cron_name" \in metadata[r] THEN "cron"
    ELSE IF "hatchet__event_key" \in metadata[r] THEN "event" ELSE "run"

(* `context.input ?? {}` *)
Normalized(r) == IF input[r] = Unset THEN Given(Empty, Unset) ELSE input[r]

(* The chain: the first interceptor is called first, its `next` calls the  *)
(* second, the last one's `next` the method.                               *)
Chain == Interceptors \o <<Method>>

Calls == MapThenSumSet(LAMBDA r : Len(called[r]), Runs)

(* Without need to validate, the first call follows at once.               *)
PreProcess(r) ==
    /\ phase[r] = "started"
    /\ input' = [input EXCEPT ![r] = Normalized(r)]
    /\ IF InferTriggerSource(r) = "run" /\ hasSchema
       THEN phase' = [phase EXCEPT ![r] = "validating"] /\ UNCHANGED called
       ELSE /\ phase' = [phase EXCEPT ![r] = "executing"]
            /\ called' = [called EXCEPT ![r] = <<1>>]
    /\ UNCHANGED <<hasSchema, trigger, metadata, outcome, verdict_vars>>

(* Whatever result has a value is accepted, issues or not, and the value,  *)
(* be it undefined, is the input from now on.                              *)
Accept(r) ==
    /\ phase[r] = "validating"
    /\ \E v \in HostVerdicts[input[r].payload] :
          /\ v.value # "none"
          /\ verdict' = [verdict EXCEPT ![r] = v]
          /\ \E marker \in {input[r].marker, Unset} :   \* a schema may strip unknown keys
                input' = [input EXCEPT ![r] =
                             IF v.value = "undefined" THEN Unset
                             ELSE [payload |-> @.payload, marker |-> marker, form |-> "output"]]
    /\ phase' = [phase EXCEPT ![r] = "executing"]
    /\ called' = [called EXCEPT ![r] = <<1>>]
    /\ UNCHANGED <<hasSchema, trigger, metadata, outcome, issues>>

(* normalizeIssues: numeric keys in brackets, others joined by dots; a     *)
(* failure at the root has no path.                                        *)
ToSegmentKey(entry) == [number |-> entry.number, text |-> entry.text]

Bracketed_Dotted(path, text) == IF path = <<>> THEN text ELSE path \o <<".">> \o text
Bracketed(path, text) == path \o <<"[">> \o text \o <<"]">>

Extended(path, key) ==
    IF key.number THEN Bracketed(path, key.text)
    ELSE IF path = <<>> THEN key.text ELSE path \o <<".">> \o key.text

FormatPath(keys) ==
    LET path[i \in 0..Len(keys)] == IF i = 0 THEN <<>> ELSE Extended(path[i - 1], keys[i])
    IN  path[Len(keys)]

Keys(issue) ==
    IF issue.path = Unset THEN <<>>
    ELSE [i \in DOMAIN issue.path |-> ToSegmentKey(issue.path[i])]

NormalizeIssues(raw) ==
    [i \in DOMAIN raw |->
        [message |-> raw[i].message,
         path |-> IF Keys(raw[i]) = <<>> THEN Unset ELSE FormatPath(Keys(raw[i]))]]

(* Only a result without a value is an InputValidationFailedException.     *)
Reject(r) ==
    /\ phase[r] = "validating"
    /\ \E v \in HostVerdicts[input[r].payload] :
          /\ v.value = "none"
          /\ verdict' = [verdict EXCEPT ![r] = v]
          /\ issues' = [issues EXCEPT ![r] = NormalizeIssues(v.issues)]
    /\ phase' = [phase EXCEPT ![r] = "settled"]
    /\ outcome' = [outcome EXCEPT ![r] = "invalidInput"]
    /\ UNCHANGED <<hasSchema, trigger, metadata, input, called>>

(* External: the schema's own code throws, or its promise rejects.         *)
SchemaThrows(r) ==
    /\ phase[r] = "validating"
    /\ phase' = [phase EXCEPT ![r] = "settled"]
    /\ outcome' = [outcome EXCEPT ![r] = "error"]
    /\ UNCHANGED <<hasSchema, trigger, metadata, input, called, verdict_vars>>

-----------------------------------------------------------------------------
(* executeWithInterceptors. What an interceptor does is its own business:  *)
(* it may call next() never, once or again, wait for it or not, and settle *)
(* as it likes. `next` is a closure: it may also be called after the call  *)
(* it was handed to has settled, even when the run itself has.             *)
CallNext(r) ==
    /\ Calls < MaxCalls
    /\ \E k \in ToSet(called[r]) :
          /\ k < Len(Chain)
          /\ called' = [called EXCEPT ![r] = Append(@, k + 1)]
    /\ UNCHANGED <<hasSchema, trigger, metadata, input, phase, outcome, verdict_vars>>

(* The run settles with its first call, whatever the others do.            *)
Return(r, v) ==
    /\ phase[r] = "executing"
    /\ phase' = [phase EXCEPT ![r] = "settled"]
    /\ outcome' = [outcome EXCEPT ![r] = v]
    /\ UNCHANGED <<hasSchema, trigger, metadata, input, called, verdict_vars>>

Next ==
    \/ \E e \in Events, rs \in SUBSET Runs : Emit(e, rs)
    \/ \E n \in Names, r \in Runs : Push(n, r)
    \/ \E r \in Runs :
          \/ Run(r) \/ Cron(r) \/ PreProcess(r)
          \/ Accept(r) \/ Reject(r) \/ SchemaThrows(r)
          \/ CallNext(r)
          \/ \E v \in {"value", "error"} : Return(r, v)

Spec == Init /\ [][Next]_vars

-----------------------------------------------------------------------------
(* What interceptors and the method are given: the context, and the guards *)
(* they may ask at any time. EventDefinition.cast and isCtx may be handed  *)
(* any context, the undefined input that a schema made of another one      *)
(* included; "malformed" is an EventPayloadMalformedException, and         *)
(* "unsupported" the error that asks for a synchronous schema.             *)
Ctx(r) ==
    [triggerSource |-> InferTriggerSource(r), input |-> input[r], hostConfig |-> HostTriggerConfig]

Cast(ctx, e) ==
    IF ctx.input = Unset THEN "no"
    ELSE IF Definition[e].async THEN "unsupported"
    ELSE IF /\ ctx.input.payload \in Definition[e].accepts
            /\ ctx.input.marker # Unset => ~Definition[e].strict
         THEN "yes" ELSE "malformed"

IsCtx(ctx, e) ==
    IF ctx.input # Unset /\ ctx.input.marker = Definition[e].name THEN Cast(ctx, e) ELSE "no"

IsRun(ctx) == ctx.triggerSource = "run"
IsCron(ctx) == ctx.triggerSource = "cron"
IsAnyEvent(ctx) == ctx.triggerSource = "event"
IsEvent(ctx, e) == IF IsAnyEvent(ctx) THEN IsCtx(ctx, e) ELSE "no"

-----------------------------------------------------------------------------
(* Properties *)

Entered(r) == called[r] # <<>>

(* The type invariant: in particular the code that runs never sees an      *)
(* undefined input, unless that is what the host's schema made of it.      *)
TypeOK ==
    /\ hasSchema \in BOOLEAN
    /\ \A r \in Runs :
          /\ phase[r] \in {"idle", "started", "validating", "executing", "settled"}
          /\ trigger[r] # Unset =>
                /\ trigger[r].by \in {"emit", "push", "run", "cron"}
                /\ trigger[r].event \in Names \cup {Unset} /\ trigger[r].user \in UserKeys \cup {{}}
          /\ metadata[r] \subseteq ServerKeys
          /\ verdict[r] \in {Unset} \cup Verdict
          /\ phase[r] \in {"validating", "executing", "settled"} =>
                \/ input[r] \in Inputs
                \/ input[r] = Unset /\ verdict[r] # Unset /\ verdict[r].value = "undefined"
          /\ called[r] \in Seq(1..Len(Chain))
          /\ outcome[r] \in {"pending", "value", "error", "invalidInput"}

(* The sender set a key of the server's that makes its run look like one   *)
(* with another trigger: inferTriggerSource cannot tell who set a key.     *)
Misled(r) ==
    IF trigger[r].by \in {"emit", "push"} THEN "hatchet__cron_name" \in trigger[r].user
    ELSE trigger[r].user # {}

(* A direct run that is recognised as one.                                 *)
Direct(r) == trigger[r].by = "run" /\ ~Misled(r)

(* The input is the value that the host's schema answered, whatever issues *)
(* it reported with it.                                                    *)
Validated(r) ==
    /\ verdict[r] # Unset /\ verdict[r].value # "none"
    /\ IF verdict[r].value = "undefined" THEN input[r] = Unset
       ELSE /\ input[r] \in Inputs /\ input[r].form = "output"
            /\ verdict[r] \in HostVerdicts[input[r].payload]

(* "When true, ctx.input is the validated host schema type", says isRun(): *)
(* it is true of the direct runs whose sender set none of the server's     *)
(* keys, also if the input was forwarded from a run triggered by an event, *)
(* and the code of a host with a schema then finds the value the schema    *)
(* answered. Everything else runs unvalidated, but never with an undefined *)
(* input. No code runs for a run that was refused, however late an         *)
(* interceptor calls next(), and only direct runs are.                     *)
NothingRunsUnvalidated ==
    \A r \in Runs :
        /\ Entered(r) =>
              /\ IsRun(Ctx(r)) <=> Direct(r)
              /\ IF hasSchema /\ Direct(r) THEN Validated(r) ELSE input[r] \in Inputs
        /\ outcome[r] = "invalidInput" =>
              ~Entered(r) /\ Direct(r) /\ verdict[r] # Unset /\ verdict[r].value = "none"

(* A path of keys without the punctuation of paths.                        *)
Plain(issue) ==
    \A i \in DOMAIN Keys(issue) :
        Len(Keys(issue)[i].text) = 1 /\ Keys(issue)[i].text[1] \notin Punctuation

(* "So callers can react programmatically": a refused run is rejected with *)
(* every issue the schema reported, in its order, and issues have the same *)
(* path exactly if they are about the same field: an array's element, a    *)
(* property named like its index and a field of another nesting are told   *)
(* apart, however the schema writes its paths. Only the root has none.     *)
IssuesLocateFields ==
    \A r \in Runs : outcome[r] = "invalidInput" =>
        LET raw == verdict[r].issues
            thrown == issues[r]
        IN  /\ Len(thrown) = Len(raw)
            /\ \A i \in DOMAIN raw :
                  /\ thrown[i].message = raw[i].message
                  /\ thrown[i].path = Unset <=> Keys(raw[i]) = <<>>
            /\ \A i, j \in {k \in DOMAIN raw : Plain(raw[k])} :
                  thrown[i].path = thrown[j].path <=> Keys(raw[i]) = Keys(raw[j])

(* An event emitted through the client is recognised by the guards of the  *)
(* definitions of its name and by no other, whatever the payload carried   *)
(* before; a payload their schema refuses is reported as malformed, not as *)
(* another event, and so is, because of the marker, every payload of a     *)
(* strict schema. hostConfig lists the event. A direct or scheduled run is *)
(* never taken for an event. All that as long as no sender sets the        *)
(* server's keys among the metadata: the detection is best-effort.         *)
EmittedEventsRecognised ==
    \A r \in Runs, e \in Events : Entered(r) /\ ~Misled(r) =>
        LET said == IsEvent(Ctx(r), e)
            def == Definition[e]
        IN  IF trigger[r].by \in {"emit", "push"}
            THEN /\ IsAnyEvent(Ctx(r)) /\ trigger[r].event \in ToSet(Ctx(r).hostConfig.onEvents)
                 /\ trigger[r].by = "emit" =>
                       said = IF def.name # trigger[r].event THEN "no"
                              ELSE IF def.async THEN "unsupported"
                              ELSE IF def.strict \/ input[r].payload \notin def.accepts
                              THEN "malformed" ELSE "yes"
            ELSE said = "no" /\ (IsCron(Ctx(r)) <=> trigger[r].by = "cron")
=============================================================================
