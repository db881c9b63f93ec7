------------------------ MODULE TaskExecutionProofs ------------------------
(***************************************************************************)
(* Proofs about module TaskExecution, for any runs, events, payloads,      *)
(* interceptors and host options, and any issues a schema may report.      *)
(***************************************************************************)
EXTENDS TaskExecution, NaturalsInduction, SequenceTheorems, WellFoundedInduction, TLAPS

Phases == {"idle", "started", "validating", "executing", "settled"}

TypeInv ==
    /\ hasSchema \in BOOLEAN
    /\ trigger = [r \in Runs |-> trigger[r]]
    /\ metadata = [r \in Runs |-> metadata[r]]
    /\ input \in [Runs -> Inputs \cup {Unset}]
    /\ phase \in [Runs -> Phases]
    /\ called \in [Runs -> Seq(1..Len(Chain))]
    /\ outcome \in [Runs -> {"pending", "value", "error", "invalidInput"}]
    /\ verdict \in [Runs -> {Unset} \cup Verdict]
    /\ issues = [r \in Runs |-> issues[r]]

(* The metadata tell what started the run, unless its sender set keys of   *)
(* the server's, and an emitted event's input still carries its marker.    *)
Traced(r) ==
    \/ /\ trigger[r].by = "emit"
       /\ metadata[r] = {"hatchet__event_key"} \cup trigger[r].user
       /\ trigger[r].event \in Subscribed
       /\ input[r] \in Inputs /\ input[r].marker = trigger[r].event
    \/ /\ trigger[r].by = "push"
       /\ metadata[r] = {"hatchet__event_key"} \cup trigger[r].user
       /\ trigger[r].event \in Subscribed
    \/ trigger[r].by = "run" /\ metadata[r] = trigger[r].user
    \/ /\ trigger[r].by = "cron" /\ trigger[r].user = {}
       /\ metadata[r] = {"hatchet__cron_name"}

(* A run is refused for the verdict of its host's schema.                  *)
Refused(r) ==
    /\ phase[r] = "settled" /\ ~Entered(r) /\ Direct(r)
    /\ verdict[r] # Unset /\ verdict[r].value = "none" /\ verdict[r].issues \in Seq(Issue)
    /\ issues[r] = NormalizeIssues(verdict[r].issues)

(* Nothing is called before the validation, and what is called after it    *)
(* finds the value that the schema, if it was asked, has answered.         *)
RunOK(r) ==
    /\ phase[r] = "idle" => trigger[r] = Unset /\ metadata[r] = {}
    /\ phase[r] # "idle" =>
          /\ Traced(r) /\ trigger[r].event \in Names \cup {Unset}
          /\ trigger[r].user \in UserKeys \cup {{}}
    /\ phase[r] = "executing" => Entered(r)
    /\ Entered(r) => phase[r] \in {"executing", "settled"}
    /\ phase[r] = "validating" => hasSchema /\ Direct(r)
    /\ phase[r] = "validating" \/ (phase[r] = "settled" /\ ~Entered(r)) => input[r] \in Inputs
    /\ Entered(r) => IF hasSchema /\ Direct(r) THEN Validated(r) ELSE input[r] \in Inputs
    /\ outcome[r] = "invalidInput" => Refused(r)

IInv == TypeInv /\ \A r \in Runs : RunOK(r)

LEMMA InitIInv == Init => IInv
BY DEF Init, IInv, TypeInv, RunOK, Phases, Entered

LEMMA KeysOfUsers == \A user \in UserKeys \cup {{}} : user \subseteq ServerKeys
BY TaskExecutionAssumption

(* There is a first in the chain, if only the method.                      *)
LEMMA FirstCall == Len(Chain) \in Nat \ {0} /\ <<1>> \in Seq(1..Len(Chain)) /\ <<1>> # <<>>
<1>1. Interceptors \in Seq(ToSet(Interceptors)) /\ <<Method>> \in Seq({Method})
  BY TaskExecutionAssumption
<1>2. Len(Interceptors) \in Nat
  BY <1>1
<1>3. Len(Chain) = Len(Interceptors) + 1
  BY <1>1, <1>2 DEF Chain
<1>4. Len(Chain) \in Nat \ {0} /\ 1 \in 1..Len(Chain)
  BY <1>2, <1>3
<1> HIDE DEF Chain
<1> QED
  BY <1>4

(* A run of which nothing changes stays as it was.                         *)
LEMMA OtherRuns ==
    ASSUME IInv, hasSchema' = hasSchema, NEW q \in Runs,
           trigger'[q] = trigger[q], metadata'[q] = metadata[q], input'[q] = input[q],
           phase'[q] = phase[q], called'[q] = called[q], outcome'[q] = outcome[q],
           verdict'[q] = verdict[q], issues'[q] = issues[q]
    PROVE  RunOK(q)'
<1>1. RunOK(q)
  BY DEF IInv
<1> QED
  BY <1>1 DEF RunOK, Traced, Refused, Entered, Direct, Misled, Validated, Subscribed, OnEvents

(* The runs in rs were idle, and are started as the trigger wants it.      *)
LEMMA BeginStep ==
    ASSUME IInv, NEW rs \in SUBSET Runs, NEW by, NEW event \in Names \cup {Unset},
           NEW user \in UserKeys \cup {{}}, NEW keys,
           NEW given \in [rs -> Inputs \cup {Unset}],
           Begin(rs, by, event, user, keys, given),
           \A r \in rs :
              \/ /\ by = "emit" /\ keys = {"hatchet__event_key"} /\ event \in Subscribed
                 /\ given[r] \in Inputs /\ given[r].marker = event
              \/ by = "push" /\ keys = {"hatchet__event_key"} /\ event \in Subscribed
              \/ by = "run" /\ keys = {}
              \/ by = "cron" /\ keys = {"hatchet__cron_name"} /\ user = {}
    PROVE  IInv'
<1>1. TypeInv'
  BY DEF Begin, IInv, TypeInv, Phases, verdict_vars
<1>2. ASSUME NEW r \in Runs, r \in rs
      PROVE  RunOK(r)'
  <2>1. phase[r] = "idle" /\ phase'[r] = "started"
    BY <1>2 DEF Begin
  <2>2. called'[r] = <<>> /\ outcome'[r] # "invalidInput"
    BY <2>1 DEF Begin, IInv, RunOK, Entered, Refused
  <2>3. /\ trigger'[r].by = by /\ trigger'[r].event = event /\ trigger'[r].user = user
        /\ metadata'[r] = keys \cup user /\ input'[r] = given[r]
    BY <1>2 DEF Begin
  <2>4. Traced(r)'
    BY <1>2, <2>3 DEF Traced, Subscribed, OnEvents
  <2> QED
    BY <2>1, <2>2, <2>3, <2>4 DEF RunOK, Entered
<1>3. ASSUME NEW r \in Runs, r \notin rs
      PROVE  RunOK(r)'
  BY <1>3, OtherRuns DEF Begin, verdict_vars
<1> QED
  BY <1>1, <1>2, <1>3 DEF IInv

LEMMA EmitStep ==
    ASSUME IInv, NEW e \in Events, NEW rs \in SUBSET Runs, Emit(e, rs)
    PROVE  IInv'
<1> DEFINE name == Definition[e].name
<1>1. name \in Names /\ name \in Subscribed
  BY TaskExecutionAssumption DEF Emit, EventDefinition
<1>2. PICK ps \in [rs -> Payloads], olds \in [rs -> Names \cup {Unset}], user \in UserKeys :
        Begin(rs, "emit", name, user, {"hatchet__event_key"},
              [r \in rs |-> Marked(name, ps[r], olds[r])])
  BY DEF Emit
<1> DEFINE given == [r \in rs |-> Marked(name, ps[r], olds[r])]
<1>3. given \in [rs -> Inputs] /\ \A r \in rs : given[r].marker = name
  BY <1>1 DEF Marked, Given, Inputs
<1>4. given \in [rs -> Inputs \cup {Unset}] /\ \A r \in rs : given[r] \in Inputs
  BY <1>3
<1>5. Begin(rs, "emit", name, user, {"hatchet__event_key"}, given)
  BY <1>2
<1> HIDE DEF name, given
<1> QED
  BY <1>1, <1>3, <1>4, <1>5, BeginStep

LEMMA PushStep ==
    ASSUME IInv, NEW n \in Names, NEW r \in Runs, Push(n, r)
    PROVE  IInv'
<1>1. PICK p \in Payloads, user \in UserKeys :
        Begin({r}, "push", n, user, {"hatchet__event_key"}, [q \in {r} |-> Given(p, Unset)])
  BY DEF Push
<1>2. [q \in {r} |-> Given(p, Unset)] \in [{r} -> Inputs \cup {Unset}]
  BY DEF Given, Inputs
<1>3. n \in Subscribed /\ user \in UserKeys \cup {{}} /\ n \in Names \cup {Unset}
  BY DEF Push
<1> DEFINE given == [q \in {r} |-> Given(p, Unset)]
<1> HIDE DEF given
<1>4. given \in [{r} -> Inputs \cup {Unset}] /\ Begin({r}, "push", n, user, {"hatchet__event_key"}, given)
  BY <1>1, <1>2 DEF given
<1> QED
  BY <1>3, <1>4, BeginStep

LEMMA SendableInputs ==
    ASSUME NEW markers \in SUBSET (Names \cup {Unset})
    PROVE  Sendable(markers) \subseteq Inputs \cup {Unset}
BY DEF Sendable, Given, Inputs

LEMMA RunStep ==
    ASSUME IInv, NEW r \in Runs, Run(r)
    PROVE  IInv'
<1>1. PICK given \in Sendable(Names \cup {Unset}), user \in UserKeys :
        Begin({r}, "run", Unset, user, {}, [q \in {r} |-> given])
  BY DEF Run
<1> DEFINE inputs == [q \in {r} |-> given]
<1>2. inputs \in [{r} -> Inputs \cup {Unset}]
  BY <1>1, SendableInputs
<1>3. Begin({r}, "run", Unset, user, {}, inputs) /\ user \in UserKeys \cup {{}}
  BY <1>1
<1> HIDE DEF inputs
<1> QED
  BY <1>2, <1>3, BeginStep

LEMMA CronStep ==
    ASSUME IInv, NEW r \in Runs, Cron(r)
    PROVE  IInv'
<1>1. PICK given \in Sendable({Unset}) :
        Begin({r}, "cron", Unset, {}, {"hatchet__cron_name"}, [q \in {r} |-> given])
  BY DEF Cron
<1> DEFINE inputs == [q \in {r} |-> given]
<1>2. inputs \in [{r} -> Inputs \cup {Unset}]
  BY <1>1, SendableInputs
<1>3. Begin({r}, "cron", Unset, {}, {"hatchet__cron_name"}, inputs) /\ {} \in UserKeys \cup {{}}
  BY <1>1
<1> HIDE DEF inputs
<1> QED
  BY <1>2, <1>3, BeginStep

(* The detection finds the direct runs, if nobody misleads it.             *)
LEMMA Detection ==
    ASSUME NEW r \in Runs, Traced(r), trigger[r].user \in UserKeys \cup {{}}
    PROVE  /\ InferTriggerSource(r) = "run" <=> Direct(r)
           /\ ~Misled(r) => /\ InferTriggerSource(r) = "cron" <=> trigger[r].by = "cron"
                            /\ InferTriggerSource(r) = "event" <=> trigger[r].by \in {"emit", "push"}
<1>1. trigger[r].user \subseteq {"hatchet__event_key", "hatchet__cron_name"}
  BY KeysOfUsers DEF ServerKeys
<1>2. trigger[r].user = {} \/ "hatchet__event_key" \in trigger[r].user
                          \/ "hatchet__cron_name" \in trigger[r].user
  BY <1>1
<1> QED
  BY <1>2 DEF Traced, InferTriggerSource, Direct, Misled

LEMMA PreProcessStep ==
    ASSUME IInv, NEW r \in Runs, PreProcess(r)
    PROVE  IInv'
<1>1. /\ phase[r] = "started" /\ RunOK(r) /\ Traced(r) /\ called[r] = <<>>
      /\ outcome[r] # "invalidInput"
  BY DEF PreProcess, IInv, RunOK, Entered, Refused
<1>2. Normalized(r) \in Inputs /\ (trigger[r].by = "emit" => Normalized(r) = input[r])
  <2>1. CASE input[r] = Unset
    BY <1>1, <2>1, TaskExecutionAssumption DEF Normalized, Given, Inputs, Traced
  <2>2. CASE input[r] # Unset
    BY <2>2 DEF Normalized, IInv, TypeInv
  <2> QED
    BY <2>1, <2>2
<1>3. InferTriggerSource(r) = "run" <=> Direct(r)
  BY <1>1, Detection DEF RunOK
<1>4. /\ input' = [input EXCEPT ![r] = Normalized(r)]
      /\ UNCHANGED <<hasSchema, trigger, metadata, outcome, verdict, issues>>
  BY DEF PreProcess, verdict_vars
<1>5. \/ /\ hasSchema /\ Direct(r) /\ phase' = [phase EXCEPT ![r] = "validating"] /\ UNCHANGED called
      \/ /\ ~(hasSchema /\ Direct(r)) /\ phase' = [phase EXCEPT ![r] = "executing"]
         /\ called' = [called EXCEPT ![r] = <<1>>]
  BY <1>3 DEF PreProcess
<1>6. TypeInv'
  BY <1>2, <1>4, <1>5, FirstCall DEF IInv, TypeInv, Phases
<1>7. input'[r] = Normalized(r) /\ Traced(r)'
  BY <1>1, <1>2, <1>4 DEF IInv, TypeInv, Traced, Subscribed, OnEvents
<1>8. Direct(r)' <=> Direct(r)
  BY <1>4 DEF Direct, Misled
<1>9. RunOK(r)'
  <2>1. CASE hasSchema /\ Direct(r)
    <3>1. phase'[r] = "validating" /\ called'[r] = <<>>
      BY <1>1, <1>5, <2>1 DEF IInv, TypeInv
    <3> QED
      BY <1>1, <1>2, <1>4, <1>7, <1>8, <2>1, <3>1 DEF RunOK, Entered
  <2>2. CASE ~(hasSchema /\ Direct(r))
    <3>1. phase'[r] = "executing" /\ called'[r] # <<>>
      BY <1>5, <2>2, FirstCall DEF IInv, TypeInv
    <3> QED
      BY <1>1, <1>2, <1>4, <1>7, <1>8, <2>2, <3>1 DEF RunOK, Entered
  <2> QED
    BY <2>1, <2>2
<1>10. ASSUME NEW q \in Runs \ {r}  PROVE RunOK(q)'
  BY <1>4, <1>5, OtherRuns DEF IInv, TypeInv
<1> QED
  BY <1>6, <1>9, <1>10 DEF IInv

LEMMA AcceptStep ==
    ASSUME IInv, NEW r \in Runs, Accept(r)
    PROVE  IInv'
<1>1. /\ phase[r] = "validating" /\ input[r] \in Inputs /\ RunOK(r) /\ hasSchema /\ Direct(r)
      /\ outcome[r] # "invalidInput"
  BY DEF Accept, IInv, RunOK, Refused
<1>2. PICK v \in HostVerdicts[input[r].payload] :
        /\ v.value # "none" /\ verdict' = [verdict EXCEPT ![r] = v]
        /\ \E marker \in {input[r].marker, Unset} :
              input' = [input EXCEPT ![r] =
                           IF v.value = "undefined" THEN Unset
                           ELSE [payload |-> @.payload, marker |-> marker, form |-> "output"]]
  BY DEF Accept
<1>3. PICK marker \in {input[r].marker, Unset} :
        input' = [input EXCEPT ![r] =
                     IF v.value = "undefined" THEN Unset
                     ELSE [payload |-> input[r].payload, marker |-> marker, form |-> "output"]]
  BY <1>2
<1> DEFINE value == [payload |-> input[r].payload, marker |-> marker, form |-> "output"]
           next == IF v.value = "undefined" THEN Unset ELSE value
<1>4. value \in Inputs /\ input[r].payload \in Payloads \cup {Empty}
  BY <1>1 DEF Inputs
<1>5. v \in Verdict /\ v # Unset
  <2>1. v \in Verdict
    BY <1>2, <1>4, TaskExecutionAssumption
  <2>2. Unset \notin Verdict
    BY TaskExecutionAssumption
  <2> QED
    BY <2>1, <2>2
<1>6. /\ phase' = [phase EXCEPT ![r] = "executing"] /\ called' = [called EXCEPT ![r] = <<1>>]
      /\ UNCHANGED <<hasSchema, trigger, metadata, outcome, issues>>
  BY DEF Accept
<1>7. next \in Inputs \cup {Unset} /\ input' = [input EXCEPT ![r] = next]
  BY <1>3, <1>4
<1>8. value.payload = input[r].payload /\ value.form = "output"
  OBVIOUS
<1> HIDE DEF value
<1>9. \/ next = Unset /\ v.value = "undefined"
      \/ next = value /\ v.value # "undefined"
  OBVIOUS
<1> HIDE DEF next
<1>10. TypeInv'
  BY <1>2, <1>5, <1>6, <1>7, FirstCall DEF IInv, TypeInv, Phases
<1>11. /\ input'[r] = next /\ verdict'[r] = v /\ phase'[r] = "executing" /\ called'[r] # <<>>
  BY <1>2, <1>6, <1>7, FirstCall DEF IInv, TypeInv
<1>12. Validated(r)'
  BY <1>2, <1>4, <1>5, <1>8, <1>9, <1>11 DEF Validated
<1>13. Direct(r)' /\ Traced(r)'
  BY <1>1, <1>6 DEF Direct, Misled, RunOK, Traced
<1>14. RunOK(r)'
  BY <1>1, <1>6, <1>11, <1>12, <1>13 DEF RunOK, Entered
<1>15. ASSUME NEW q \in Runs \ {r}  PROVE RunOK(q)'
  BY <1>2, <1>6, <1>7, OtherRuns DEF IInv, TypeInv
<1> QED
  BY <1>10, <1>14, <1>15 DEF IInv

LEMMA RejectStep ==
    ASSUME IInv, NEW r \in Runs, Reject(r)
    PROVE  IInv'
<1>1. /\ phase[r] = "validating" /\ input[r] \in Inputs /\ RunOK(r) /\ Direct(r) /\ ~Entered(r)
  BY DEF Reject, IInv, RunOK
<1>2. PICK v \in HostVerdicts[input[r].payload] :
        /\ v.value = "none" /\ verdict' = [verdict EXCEPT ![r] = v]
        /\ issues' = [issues EXCEPT ![r] = NormalizeIssues(v.issues)]
  BY DEF Reject
<1>3. v \in Verdict /\ v # Unset /\ v.issues \in Seq(Issue)
  <2>1. input[r].payload \in Payloads \cup {Empty}
    BY <1>1 DEF Inputs
  <2>2. v \in Verdict /\ v.issues # Unset
    BY <1>2, <2>1, TaskExecutionAssumption
  <2>3. Unset \notin Verdict
    BY TaskExecutionAssumption
  <2> QED
    BY <2>2, <2>3 DEF Verdict
<1>4. /\ phase' = [phase EXCEPT ![r] = "settled"] /\ outcome' = [outcome EXCEPT ![r] = "invalidInput"]
      /\ UNCHANGED <<hasSchema, trigger, metadata, input, called>>
  BY DEF Reject
<1>5. TypeInv'
  BY <1>2, <1>3, <1>4 DEF IInv, TypeInv, Phases
<1>6. /\ phase'[r] = "settled" /\ verdict'[r] = v /\ issues'[r] = NormalizeIssues(v.issues)
      /\ called'[r] = <<>>
  BY <1>1, <1>2, <1>4 DEF IInv, TypeInv, Entered
<1>7. Direct(r)' /\ Traced(r)'
  BY <1>1, <1>4 DEF Direct, Misled, RunOK, Traced
<1>8. Refused(r)'
  BY <1>2, <1>3, <1>6, <1>7 DEF Refused, Entered
<1>9. RunOK(r)'
  BY <1>1, <1>4, <1>6, <1>7, <1>8 DEF RunOK, Entered
<1>10. ASSUME NEW q \in Runs \ {r}  PROVE RunOK(q)'
  BY <1>2, <1>4, OtherRuns DEF IInv, TypeInv
<1> QED
  BY <1>5, <1>9, <1>10 DEF IInv

(* The schema throws before anything is called, or the chain's first call  *)
(* settles: a run ends with something else than a refusal.                 *)
LEMMA EndStep ==
    ASSUME IInv, NEW r \in Runs, NEW v \in {"value", "error"},
           (SchemaThrows(r) /\ v = "error") \/ Return(r, v)
    PROVE  IInv'
<1>1. /\ phase[r] \in {"validating", "executing"} /\ RunOK(r)
      /\ phase' = [phase EXCEPT ![r] = "settled"] /\ outcome' = [outcome EXCEPT ![r] = v]
      /\ UNCHANGED <<hasSchema, trigger, metadata, input, called, verdict, issues>>
  BY DEF SchemaThrows, Return, verdict_vars, IInv
<1>2. TypeInv'
  BY <1>1 DEF IInv, TypeInv, Phases
<1>3. phase'[r] = "settled" /\ outcome'[r] # "invalidInput"
  BY <1>1 DEF IInv, TypeInv
<1>4. RunOK(r)'
  BY <1>1, <1>3 DEF RunOK, Traced, Entered, Direct, Misled, Validated, Subscribed, OnEvents
<1>5. ASSUME NEW q \in Runs \ {r}  PROVE RunOK(q)'
  BY <1>1, OtherRuns DEF IInv, TypeInv
<1> QED
  BY <1>2, <1>4, <1>5 DEF IInv

(* However late next() is called, the calls only grow in number, and what  *)
(* has been called finds the input that the first call found.              *)
LEMMA CallNextStep ==
    ASSUME IInv, NEW r \in Runs, CallNext(r)
    PROVE  IInv'
<1>1. PICK k \in ToSet(called[r]) :
        k < Len(Chain) /\ called' = [called EXCEPT ![r] = Append(called[r], k + 1)]
  BY DEF CallNext
<1>2. /\ RunOK(r) /\ called[r] \in Seq(1..Len(Chain))
      /\ UNCHANGED <<hasSchema, trigger, metadata, input, phase, outcome, verdict, issues>>
  BY DEF CallNext, verdict_vars, IInv, TypeInv
<1>3. k \in 1..Len(Chain) /\ called[r] # <<>>
  BY <1>2 DEF ToSet
<1>4. Append(called[r], k + 1) \in Seq(1..Len(Chain)) /\ Append(called[r], k + 1) # <<>>
  <2>1. k + 1 \in 1..Len(Chain)
    BY <1>1, <1>3, FirstCall
  <2> QED
    BY <1>2, <2>1
<1>5. TypeInv'
  BY <1>1, <1>2, <1>4 DEF IInv, TypeInv
<1>6. called'[r] # <<>>
  BY <1>1, <1>4 DEF IInv, TypeInv
<1>7. RunOK(r)'
  BY <1>2, <1>3, <1>6
     DEF RunOK, Traced, Refused, Entered, Direct, Misled, Validated, Subscribed, OnEvents
<1>8. ASSUME NEW q \in Runs \ {r}  PROVE RunOK(q)'
  BY <1>1, <1>2, OtherRuns DEF IInv, TypeInv
<1> QED
  BY <1>5, <1>7, <1>8 DEF IInv

LEMMA NextIInv == IInv /\ [Next]_vars => IInv'
<1> SUFFICES ASSUME IInv, [Next]_vars
             PROVE  IInv'
  OBVIOUS
<1>1. CASE UNCHANGED vars
  <2>1. TypeInv'
    BY <1>1 DEF vars, verdict_vars, IInv, TypeInv
  <2>2. ASSUME NEW q \in Runs  PROVE RunOK(q)'
    BY <1>1, OtherRuns DEF vars, verdict_vars
  <2> QED
    BY <2>1, <2>2 DEF IInv
<1>2. CASE Next
  BY <1>2, EmitStep, PushStep, RunStep, CronStep, PreProcessStep, AcceptStep, RejectStep,
     EndStep, CallNextStep DEF Next
<1> QED
  BY <1>1, <1>2

LEMMA Invariance == Spec => []IInv
BY InitIInv, NextIInv, PTL DEF Spec

(* The types. In particular nothing is called that is not in the chain.    *)
THEOREM TypeCorrect == Spec => []TypeOK
<1>1. ASSUME IInv, NEW r \in Runs
      PROVE  /\ phase[r] \in {"idle", "started", "validating", "executing", "settled"}
             /\ trigger[r] # Unset =>
                   /\ trigger[r].by \in {"emit", "push", "run", "cron"}
                   /\ trigger[r].event \in Names \cup {Unset}
                   /\ trigger[r].user \in UserKeys \cup {{}}
             /\ metadata[r] \subseteq ServerKeys
             /\ phase[r] \in {"validating", "executing", "settled"} =>
                   \/ input[r] \in Inputs
                   \/ input[r] = Unset /\ verdict[r] # Unset /\ verdict[r].value = "undefined"
  <2>1. RunOK(r) /\ phase[r] \in Phases
    BY <1>1 DEF IInv, TypeInv
  <2>2. CASE phase[r] = "idle"
    BY <2>1, <2>2 DEF RunOK, Phases
  <2>3. CASE phase[r] # "idle"
    <3>1. /\ Traced(r) /\ trigger[r].event \in Names \cup {Unset}
          /\ trigger[r].user \in UserKeys \cup {{}} /\ trigger[r].user \subseteq ServerKeys
      BY <2>1, <2>3, KeysOfUsers DEF RunOK
    <3>2. metadata[r] \subseteq ServerKeys /\ trigger[r].by \in {"emit", "push", "run", "cron"}
      BY <3>1 DEF Traced, ServerKeys
    <3>3. phase[r] \in {"validating", "executing", "settled"} =>
             \/ input[r] \in Inputs
             \/ input[r] = Unset /\ verdict[r] # Unset /\ verdict[r].value = "undefined"
      <4>1. CASE Entered(r)
        BY <2>1, <4>1 DEF RunOK, Validated
      <4>2. CASE ~Entered(r)
        BY <2>1, <4>2 DEF RunOK
      <4> QED
        BY <4>1, <4>2
    <3> QED
      BY <2>1, <3>1, <3>2, <3>3 DEF Phases
  <2> QED
    BY <2>2, <2>3
<1>2. IInv => TypeOK
  BY <1>1 DEF IInv, TypeInv, TypeOK
<1> QED
  BY <1>2, Invariance, PTL

(* What the context says of a run that has been entered.                   *)
LEMMA SourceCorrect ==
    ASSUME IInv, NEW r \in Runs, Entered(r)
    PROVE  /\ Traced(r)
           /\ IsRun(Ctx(r)) <=> Direct(r)
           /\ ~Misled(r) => /\ IsCron(Ctx(r)) <=> trigger[r].by = "cron"
                            /\ IsAnyEvent(Ctx(r)) <=> trigger[r].by \in {"emit", "push"}
<1>1. Traced(r) /\ trigger[r].user \in UserKeys \cup {{}}
  BY DEF IInv, RunOK
<1> QED
  BY <1>1, Detection DEF IsRun, IsCron, IsAnyEvent, Ctx

(* A run whose context says that it is a direct one finds the value its    *)
(* host's schema answered, and nothing is ever called for a refused one.   *)
THEOREM ValidatedFirst == Spec => []NothingRunsUnvalidated
<1>1. ASSUME IInv, NEW r \in Runs, Entered(r)
      PROVE  /\ IsRun(Ctx(r)) <=> Direct(r)
             /\ IF hasSchema /\ Direct(r) THEN Validated(r) ELSE input[r] \in Inputs
  BY <1>1, SourceCorrect DEF IInv, RunOK
<1>2. ASSUME IInv, NEW r \in Runs, outcome[r] = "invalidInput"
      PROVE  ~Entered(r) /\ Direct(r) /\ verdict[r] # Unset /\ verdict[r].value = "none"
  BY <1>2 DEF IInv, RunOK, Refused
<1>3. IInv => NothingRunsUnvalidated
  BY <1>1, <1>2 DEF NothingRunsUnvalidated
<1> QED
  BY <1>3, Invariance, PTL

(* As long as nobody misleads the detection, the guards recognise an       *)
(* emitted event, and nothing but an event.                                *)
THEOREM EventsRecognised == Spec => []EmittedEventsRecognised
<1>1. ASSUME IInv, NEW r \in Runs, NEW e \in Events, Entered(r), ~Misled(r), trigger[r].by = "emit"
      PROVE  IsEvent(Ctx(r), e) =
               IF Definition[e].name # trigger[r].event THEN "no"
               ELSE IF Definition[e].async THEN "unsupported"
               ELSE IF Definition[e].strict \/ input[r].payload \notin Definition[e].accepts
               THEN "malformed" ELSE "yes"
  <2>1. IsAnyEvent(Ctx(r)) /\ input[r] \in Inputs /\ input[r].marker = trigger[r].event
    BY <1>1, SourceCorrect DEF Traced
  <2>2. /\ Definition[e].name # Unset /\ input[r] # Unset
        /\ Definition[e].strict \in BOOLEAN /\ Definition[e].async \in BOOLEAN
    BY <2>1, TaskExecutionAssumption DEF EventDefinition
  <2>3. Ctx(r).input = input[r]
    BY DEF Ctx
  <2> QED
    BY <2>1, <2>2, <2>3 DEF IsEvent, IsCtx, Cast
<1>2. ASSUME IInv, NEW r \in Runs, NEW e \in Events, Entered(r), ~Misled(r),
             trigger[r].by \in {"emit", "push"}
      PROVE  IsAnyEvent(Ctx(r)) /\ trigger[r].event \in ToSet(Ctx(r).hostConfig.onEvents)
  <2>1. trigger[r].event \in Subscribed
    BY <1>2, SourceCorrect DEF Traced
  <2>2. Ctx(r).hostConfig.onEvents = OnEvents
    BY DEF Ctx, HostTriggerConfig
  <2> QED
    BY <1>2, <2>1, <2>2, SourceCorrect DEF Subscribed
<1>3. ASSUME IInv, NEW r \in Runs, NEW e \in Events, Entered(r), ~Misled(r),
             trigger[r].by \notin {"emit", "push"}
      PROVE  IsEvent(Ctx(r), e) = "no" /\ (IsCron(Ctx(r)) <=> trigger[r].by = "cron")
  BY <1>3, SourceCorrect DEF IsEvent
<1>4. IInv => EmittedEventsRecognised
  BY <1>1, <1>2, <1>3 DEF EmittedEventsRecognised
<1> QED
  BY <1>4, Invariance, PTL

-----------------------------------------------------------------------------
(* The paths of the issues *)

(* Induction, said of a set: what holds of 0 and of each number's successor *)
(* up to n holds of all of them.                                           *)
LEMMA Ascend ==
    ASSUME NEW n \in Nat, NEW S, 0 \in S, \A i \in 1..n : i - 1 \in S => i \in S
    PROVE  0..n \subseteq S
<1> DEFINE T == (0..n) \ S
<1> SUFFICES ASSUME T # {}
             PROVE  FALSE
  OBVIOUS
<1>1. PICK i \in T : \A j \in T : ~(j < i)
  <2> DEFINE R == OpToRel(<, Nat)
  <2>1. T \subseteq Nat
    OBVIOUS
  <2>2. IsWellFoundedOn(R, Nat)
    BY NatLessThanWellFounded
  <2> HIDE DEF R, T
  <2>3. \E x \in T : \A y \in T : <<y, x>> \notin R
    BY <2>1, <2>2, WFMin
  <2> QED
    BY <2>1, <2>3 DEF R, OpToRel
<1>2. i - 1 \notin T
  BY <1>1
<1> QED
  BY <1>2

(* A recursion over 1..n defines a function.                               *)
Recurs(acc, m, base, step) == acc[0] = base /\ \A i \in 1..m : acc[i] = step[i][acc[i - 1]]

LEMMA Recursion ==
    ASSUME NEW n \in Nat, NEW A, NEW base \in A, NEW step \in [1..n -> [A -> A]]
    PROVE  \E acc \in [0..n -> A] : Recurs(acc, n, base, step)
<1> DEFINE S == {m \in 0..n : \E acc \in [0..m -> A] : Recurs(acc, m, base, step)}
<1>1. 0 \in S
  <2>1. [i \in 0..0 |-> base] \in [0..0 -> A] /\ Recurs([i \in 0..0 |-> base], 0, base, step)
    BY DEF Recurs
  <2> QED
    BY <2>1
<1>2. ASSUME NEW m \in 1..n, m - 1 \in S
      PROVE  m \in S
  <2>1. PICK acc \in [0..(m - 1) -> A] : Recurs(acc, m - 1, base, step)
    BY <1>2
  <2> DEFINE next == [i \in 0..m |-> IF i = m THEN step[m][acc[m - 1]] ELSE acc[i]]
  <2>2. step[m][acc[m - 1]] \in A
    OBVIOUS
  <2>3. next \in [0..m -> A]
    BY <2>2
  <2>4. Recurs(next, m, base, step)
    BY <2>1 DEF Recurs
  <2> HIDE DEF next
  <2> QED
    BY <2>3, <2>4
<1>3. 0..n \subseteq S
  <2> HIDE DEF S
  <2> QED
    BY <1>1, <1>2, Ascend
<1> QED
  BY <1>3

(* The text of a path, made key by key, is told apart from every other.    *)
Word == STRING \cup Punctuation
SegmentKey == [number : BOOLEAN, text : Seq(Word)]
PlainKey == {key \in SegmentKey : Len(key.text) = 1 /\ key.text[1] \notin Punctuation}

LEMMA Joined ==
    ASSUME NEW s \in Seq(Word), NEW t \in Seq(Word)
    PROVE  /\ s \o t \in Seq(Word) /\ Len(s \o t) = Len(s) + Len(t)
           /\ Len(s) \in Nat /\ Len(t) \in Nat
           /\ \A i \in 1..Len(s) : (s \o t)[i] = s[i]
           /\ \A i \in 1..Len(t) : (s \o t)[Len(s) + i] = t[i]
<1>1. /\ s \o t \in Seq(Word) /\ Len(s \o t) = Len(s) + Len(t)
      /\ \A i \in 1..Len(s) + Len(t) : (s \o t)[i] = IF i <= Len(s) THEN s[i] ELSE t[i - Len(s)]
  BY ConcatProperties
<1>2. Len(s) \in Nat /\ Len(t) \in Nat
  BY LenProperties
<1>3. \A i \in 1..Len(s) : i \in 1..Len(s) + Len(t) /\ i <= Len(s)
  BY <1>2
<1>4. \A i \in 1..Len(t) : /\ Len(s) + i \in 1..Len(s) + Len(t) /\ ~(Len(s) + i <= Len(s))
                           /\ (Len(s) + i) - Len(s) = i
  BY <1>2
<1>5. \A i \in 1..Len(t) : (s \o t)[Len(s) + i] = t[i]
  BY <1>1, <1>4
<1> QED
  BY <1>1, <1>2, <1>3, <1>5

(* Two texts that agree are equal, if what was added to them is as long.   *)
Together(s, t) == s \o t

LEMMA SameFront ==
    ASSUME NEW s \in Seq(Word), NEW t \in Seq(Word), NEW u \in Seq(Word), NEW v \in Seq(Word),
           Len(u) = Len(v), Together(s, u) = Together(t, v)
    PROVE  s = t /\ \A i \in 1..Len(u) : u[i] = v[i]
<1> USE DEF Together
<1>1. Len(s) = Len(t) /\ Len(s) \in Nat
  BY Joined
<1>2. \A i \in 1..Len(s) : s[i] = t[i]
  BY <1>1, Joined
<1>3. s = t
  BY <1>1, <1>2, SeqEqual
<1>4. /\ \A i \in 1..Len(u) : (s \o u)[Len(s) + i] = u[i]
      /\ \A i \in 1..Len(v) : (t \o v)[Len(t) + i] = v[i]
  BY Joined
<1>5. \A i \in 1..Len(u) : u[i] = v[i]
  BY <1>1, <1>4
<1> QED
  BY <1>3, <1>5

(* Short lists, and what they add to a longer one.                         *)
LEMMA Triple ==
    ASSUME NEW x \in Word, NEW y \in Word, NEW z \in Word
    PROVE  <<x, y, z>> \in Seq(Word) /\ Len(<<x, y, z>>) = 3 /\ <<x, y, z>>[2] = y
OBVIOUS

LEMMA Words ==
    ASSUME NEW s \in Seq(Word), NEW x \in Word, NEW y \in Word, NEW z \in Word
    PROVE  /\ <<x>> \in Seq(Word) /\ Len(<<x>>) = 1
           /\ Len(s \o <<x, y>>) = Len(s) + 2 /\ (s \o <<x, y>>)[Len(s) + 2] = y
           /\ Len(s \o <<x, y, z>>) = Len(s) + 3 /\ (s \o <<x, y, z>>)[Len(s) + 3] = z
OBVIOUS

LEMMA Regrouped ==
    ASSUME NEW s \in Seq(Word), NEW x \in Word, NEW y \in Word, NEW z \in Word
    PROVE  /\ s \o <<x>> \o <<y>> = s \o <<x, y>>
           /\ s \o <<x>> \o <<y>> \o <<z>> = s \o <<x, y, z>>
<1>1. /\ <<x>> \in Seq(Word) /\ <<y>> \in Seq(Word) /\ <<z>> \in Seq(Word)
      /\ Len(<<x>>) = 1 /\ <<x>>[1] = x /\ Len(<<y>>) = 1 /\ <<y>>[1] = y
      /\ Len(<<z>>) = 1 /\ <<z>>[1] = z
  OBVIOUS
<1>2. <<x, y>> \in Seq(Word) /\ Len(<<x, y>>) = 2 /\ <<x, y>>[1] = x /\ <<x, y>>[2] = y
  OBVIOUS
<1>3. /\ <<x, y, z>> \in Seq(Word) /\ Len(<<x, y, z>>) = 3
      /\ <<x, y, z>>[1] = x /\ <<x, y, z>>[2] = y /\ <<x, y, z>>[3] = z
  OBVIOUS
<1>4. <<x>> \o <<y>> = <<x, y>>
  <2>1. /\ <<x>> \o <<y>> \in Seq(Word) /\ Len(<<x>> \o <<y>>) = 2
        /\ (<<x>> \o <<y>>)[1] = x /\ (<<x>> \o <<y>>)[2] = y
    OBVIOUS
  <2>2. \A i \in 1..2 : (<<x>> \o <<y>>)[i] = <<x, y>>[i]
    BY <1>2, <2>1
  <2> QED
    BY <1>2, <2>1, <2>2, SeqEqual
<1>5. <<x, y>> \o <<z>> = <<x, y, z>>
  <2>1. /\ <<x, y>> \o <<z>> \in Seq(Word) /\ Len(<<x, y>> \o <<z>>) = 3
        /\ (<<x, y>> \o <<z>>)[1] = x /\ (<<x, y>> \o <<z>>)[2] = y /\ (<<x, y>> \o <<z>>)[3] = z
    OBVIOUS
  <2>2. \A i \in 1..3 : (<<x, y>> \o <<z>>)[i] = <<x, y, z>>[i]
    BY <1>3, <2>1
  <2> QED
    BY <1>3, <2>1, <2>2, SeqEqual
<1>6. s \o <<x>> \o <<y>> = s \o <<x, y>>
  <2>1. (s \o <<x>>) \o <<y>> = s \o (<<x>> \o <<y>>)
    <3>1. \A t, u \in Seq(Word) : (s \o t) \o u = s \o (t \o u)
      BY ConcatAssociative
    <3> QED
      BY <1>1, <3>1, Zenon
  <2> QED
    BY <1>4, <2>1, Zenon
<1>7. s \o <<x>> \o <<y>> \o <<z>> = s \o <<x, y, z>>
  <2>1. (s \o <<x, y>>) \o <<z>> = s \o (<<x, y>> \o <<z>>)
    <3>1. \A t, u \in Seq(Word) : (s \o t) \o u = s \o (t \o u)
      BY ConcatAssociative
    <3> QED
      BY <1>1, <1>2, <3>1, Zenon
  <2> QED
    BY <1>5, <1>6, <2>1, Zenon
<1> QED
  BY <1>6, <1>7

LEMMA Marks == "[" \in Word /\ "]" \in Word /\ "." \in Word
BY DEF Word, Punctuation

LEMMA ExtendedTyped ==
    ASSUME NEW path \in Seq(Word), NEW key \in SegmentKey
    PROVE  Extended(path, key) \in Seq(Word)
<1>1. <<"[">> \in Seq(Word) /\ <<"]">> \in Seq(Word) /\ <<".">> \in Seq(Word) /\ key.text \in Seq(Word)
  <2>1. \A w \in Word : <<w>> \in Seq(Word)
    OBVIOUS
  <2>2. key.text \in Seq(Word)
    BY DEF SegmentKey
  <2> QED
    BY <2>1, <2>2, Marks
<1>2. /\ path \o <<"[">> \in Seq(Word) /\ path \o <<".">> \in Seq(Word)
  BY <1>1, Joined
<1>3. (path \o <<"[">>) \o key.text \in Seq(Word) /\ (path \o <<".">>) \o key.text \in Seq(Word)
  BY <1>1, <1>2, Joined
<1>4. ((path \o <<"[">>) \o key.text) \o <<"]">> \in Seq(Word)
  BY <1>1, <1>3, Joined
<1> QED
  BY <1>1, <1>3, <1>4 DEF Extended, Bracketed

(* What a plain key adds to a path, and how it ends.                       *)
LEMMA ExtendedPlain ==
    ASSUME NEW path \in Seq(Word), NEW key \in PlainKey
    PROVE  LET word == key.text[1]
               text == Extended(path, key)
           IN  /\ key.text = <<word>> /\ word \in Word
               /\ text # <<>> /\ Len(text) \in Nat
               /\ key.number => text = path \o <<"[", word, "]">> /\ text[Len(text)] = "]"
               /\ ~key.number => text[Len(text)] = word
               /\ ~key.number /\ path = <<>> => Len(text) = 1
               /\ ~key.number /\ path # <<>> => text = path \o <<".", word>> /\ Len(text) > 1
<1> DEFINE word == key.text[1]
<1>1. key.text \in Seq(Word) /\ Len(key.text) = 1 /\ key.number \in BOOLEAN
  BY DEF PlainKey, SegmentKey
<1>2. key.text = <<word>> /\ word \in Word
  BY <1>1
<1> HIDE DEF word
<1>3. Len(path) \in Nat
  BY LenProperties
<1>4. CASE key.number
  <2>1. Extended(path, key) = path \o <<"[">> \o <<word>> \o <<"]">>
    BY <1>2, <1>4 DEF Extended, Bracketed
  <2>2. path \o <<"[">> \o <<word>> \o <<"]">> = path \o <<"[", word, "]">>
    BY <1>2, Regrouped, Marks
  <2>3. /\ Len(path \o <<"[", word, "]">>) = Len(path) + 3
        /\ (path \o <<"[", word, "]">>)[Len(path) + 3] = "]"
    BY <1>2, Words, Marks
  <2>4. PICK text : text = path \o <<"[", word, "]">>
    OBVIOUS
  <2>5. Extended(path, key) = text
    BY <2>1, <2>2, <2>4, Zenon
  <2>6. Len(text) = Len(path) + 3 /\ text[Len(path) + 3] = "]"
    BY <2>3, <2>4, Zenon
  <2>7. Len(text) \in Nat /\ text # <<>> /\ text[Len(text)] = "]"
    BY <1>3, <2>6
  <2> QED
    BY <1>2, <1>4, <2>4, <2>5, <2>7, Zenon DEF word
<1>5. CASE ~key.number /\ path = <<>>
  <2>1. Extended(path, key) = <<word>>
    BY <1>2, <1>5 DEF Extended
  <2> QED
    BY <1>2, <1>5, <2>1 DEF word
<1>6. CASE ~key.number /\ path # <<>>
  <2>1. Extended(path, key) = path \o <<".">> \o <<word>>
    BY <1>2, <1>6 DEF Extended
  <2>2. path \o <<".">> \o <<word>> = path \o <<".", word>>
    BY <1>2, Regrouped, Marks
  <2>3. /\ Len(path \o <<".", word>>) = Len(path) + 2
        /\ (path \o <<".", word>>)[Len(path) + 2] = word
    BY <1>2, Words, Marks
  <2> QED
    BY <1>2, <1>3, <1>6, <2>1, <2>2, <2>3 DEF word
<1> QED
  BY <1>1, <1>4, <1>5, <1>6

LEMMA ExtendedApart ==
    ASSUME NEW p \in Seq(Word), NEW k \in PlainKey, NEW q \in Seq(Word), NEW l \in PlainKey,
           Extended(p, k) = Extended(q, l)
    PROVE  p = q /\ k = l
<1> DEFINE v == k.text[1]
           w == l.text[1]
           text == Extended(p, k)
<1>1. v # "]" /\ w # "]" /\ k \in SegmentKey /\ l \in SegmentKey
  BY DEF PlainKey, Punctuation
<1>2. k.text = <<v>> /\ l.text = <<w>> /\ v \in Word /\ w \in Word
  BY ExtendedPlain
<1>3. /\ k.number \in BOOLEAN /\ l.number \in BOOLEAN
      /\ k.number => text[Len(text)] = "]"
      /\ ~k.number => text[Len(text)] = v
      /\ l.number => text[Len(text)] = "]"
      /\ ~l.number => text[Len(text)] = w
  <2>1. k.number \in BOOLEAN /\ l.number \in BOOLEAN
    BY <1>1 DEF SegmentKey
  <2>2. (k.number => text[Len(text)] = "]") /\ (~k.number => text[Len(text)] = v)
    BY ExtendedPlain
  <2>3. text = Extended(q, l)
    OBVIOUS
  <2> HIDE DEF text
  <2>4. (l.number => text[Len(text)] = "]") /\ (~l.number => text[Len(text)] = w)
    BY <2>3, ExtendedPlain
  <2> QED
    BY <2>1, <2>2, <2>4
<1>4. k.number = l.number
  <2> HIDE DEF v, w, text
  <2>1. k.number <=> l.number
    BY <1>1, <1>3, Zenon
  <2> QED
    BY <1>3, <2>1
<1>5. p = q /\ v = w
  <2>1. CASE k.number
    <3>1. p \o <<"[", v, "]">> = q \o <<"[", w, "]">>
      <4>1. l.number
        BY <1>4, <2>1
      <4>2. Extended(p, k) = p \o <<"[", v, "]">>
        BY <2>1, ExtendedPlain
      <4>3. Extended(q, l) = q \o <<"[", w, "]">>
        BY <4>1, ExtendedPlain
      <4> QED
        BY <4>2, <4>3, Zenon
    <3> HIDE DEF v, w
    <3>2. \A x \in Word : /\ <<"[", x, "]">> \in Seq(Word) /\ Len(<<"[", x, "]">>) = 3
                            /\ <<"[", x, "]">>[2] = x
      BY Triple, Marks, Zenon
    <3>3. PICK a \in Seq(Word) : a = <<"[", v, "]">>
      BY <1>2, <3>2
    <3>4. PICK b \in Seq(Word) : b = <<"[", w, "]">>
      BY <1>2, <3>2
    <3>5. Len(a) = 3 /\ Len(b) = 3 /\ a[2] = v /\ b[2] = w
      BY <1>2, <3>2, <3>3, <3>4
    <3>6. Together(p, a) = Together(q, b)
      BY <3>1, <3>3, <3>4 DEF Together
    <3>7. p = q /\ \A i \in 1..Len(a) : a[i] = b[i]
      BY <3>5, <3>6, SameFront
    <3> QED
      BY <3>5, <3>7
  <2>2. CASE ~k.number
    <3>1. p = <<>> <=> q = <<>>
      <4>1. /\ Len(text) \in Nat
            /\ p = <<>> => Len(text) = 1
            /\ p # <<>> => Len(text) > 1
            /\ q = <<>> => Len(text) = 1
            /\ q # <<>> => Len(text) > 1
        BY <1>4, <2>2, ExtendedPlain
      <4> HIDE DEF text
      <4>2. \A n \in Nat : ~(n = 1 /\ n > 1)
        OBVIOUS
      <4> QED
        BY <4>1, <4>2, Zenon
    <3>2. v = w
      BY <1>3, <1>4, <2>2
    <3>3. CASE p = <<>>
      BY <3>1, <3>2, <3>3
    <3>4. CASE p # <<>>
      <4>1. p \o <<".", v>> = q \o <<".", w>>
        BY <1>4, <2>2, <3>1, <3>4, ExtendedPlain
      <4> HIDE DEF v, w
      <4>2. <<".", v>> \in Seq(Word) /\ <<".", w>> \in Seq(Word) /\ Len(<<".", v>>) = Len(<<".", w>>)
        BY <1>2, Words, Marks
      <4>3. Together(p, <<".", v>>) = Together(q, <<".", w>>)
        BY <4>1 DEF Together
      <4>4. p = q
        BY <4>2, <4>3, SameFront
      <4> QED
        BY <3>2, <4>4
    <3> QED
      BY <3>3, <3>4
  <2> QED
    BY <2>1, <2>2
<1>6. k.text = l.text
  BY <1>2, <1>5
<1>7. k = [number |-> k.number, text |-> k.text] /\ l = [number |-> l.number, text |-> l.text]
  BY <1>1 DEF SegmentKey
<1>8. k = l
  BY <1>4, <1>6, <1>7, Zenon
<1> QED
  BY <1>5, <1>8

(* The texts that the keys are made into, one after the other.             *)
Texts(path, keys) ==
    /\ path \in [0..Len(keys) -> Seq(Word)] /\ path[0] = <<>>
    /\ \A i \in 1..Len(keys) : path[i] = Extended(path[i - 1], keys[i])

LEMMA PathTexts ==
    ASSUME NEW keys \in Seq(SegmentKey)
    PROVE  \E path : Texts(path, keys) /\ FormatPath(keys) = path[Len(keys)]
<1> DEFINE n == Len(keys)
           Recursive(f) == [i \in 0..n |-> IF i = 0 THEN <<>> ELSE Extended(f[i - 1], keys[i])]
           path == CHOOSE f : f = Recursive(f)
<1>1. FormatPath(keys) = path[n]
  BY DEF FormatPath
<1>2. n \in Nat /\ \A i \in 1..n : keys[i] \in SegmentKey
  BY LenProperties, ElementOfSeq
<1> HIDE DEF n
<1>3. PICK acc \in [0..n -> Seq(Word)] :
        acc[0] = <<>> /\ \A i \in 1..n : acc[i] = Extended(acc[i - 1], keys[i])
  <2> DEFINE A == Seq(Word)
             step == [i \in 1..n |-> [p \in A |-> Extended(p, keys[i])]]
  <2>1. <<>> \in A
    BY EmptySeq
  <2>2. \A i \in 1..n, p \in A : Extended(p, keys[i]) \in A
    BY <1>2, ExtendedTyped
  <2>3. step \in [1..n -> [A -> A]]
    BY <2>2
  <2>4. \A i \in 1..n, p \in A : step[i][p] = Extended(p, keys[i])
    OBVIOUS
  <2> HIDE DEF A, step
  <2>5. PICK acc \in [0..n -> A] : Recurs(acc, n, <<>>, step)
    BY <1>2, <2>1, <2>3, Recursion
  <2>6. \A i \in 1..n : i - 1 \in 0..n /\ acc[i - 1] \in A
    BY <1>2
  <2>7. acc[0] = <<>> /\ \A i \in 1..n : acc[i] = step[i][acc[i - 1]]
    BY <2>5 DEF Recurs
  <2>8. acc[0] = <<>> /\ \A i \in 1..n : acc[i] = Extended(acc[i - 1], keys[i])
    BY <2>4, <2>6, <2>7
  <2> QED
    BY <2>8 DEF A
<1>4. \A i \in 0..n : i = 0 \/ i \in 1..n
  BY <1>2
<1>5. acc = Recursive(acc)
  BY <1>3, <1>4
<1>6. path = Recursive(path)
  <2> HIDE DEF Recursive
  <2> QED
    BY <1>5
<1> HIDE DEF path
<1>7. path[0] = <<>> /\ \A i \in 1..n : path[i] = Extended(path[i - 1], keys[i])
  BY <1>2, <1>6
<1>8. path = acc
  <2> DEFINE T == {i \in 0..n : path[i] = acc[i]}
  <2>1. 0 \in T
    BY <1>2, <1>3, <1>7
  <2>2. ASSUME NEW i \in 1..n, i - 1 \in T
        PROVE  i \in T
    BY <1>2, <1>3, <1>7, <2>2
  <2>3. 0..n \subseteq T
    <3> HIDE DEF T
    <3> QED
      BY <1>2, <2>1, <2>2, Ascend
  <2>4. \A i \in 0..n : path[i] = acc[i]
    BY <2>3
  <2>5. path = [i \in 0..n |-> path[i]] /\ acc = [i \in 0..n |-> acc[i]]
    BY <1>3, <1>6
  <2> QED
    BY <2>4, <2>5
<1>9. Texts(path, keys)
  BY <1>3, <1>7, <1>8 DEF Texts, n
<1> QED
  BY <1>1, <1>9 DEF n

(* Different fields have different paths.                                  *)
LEMMA PathsApart ==
    ASSUME NEW a \in Seq(PlainKey), NEW b \in Seq(PlainKey), FormatPath(a) = FormatPath(b)
    PROVE  a = b
<1>1. a \in Seq(SegmentKey) /\ b \in Seq(SegmentKey)
  <2>1. PlainKey \subseteq SegmentKey
    BY DEF PlainKey
  <2> QED
    BY <2>1, SeqMonotonic
<1>2. PICK p : Texts(p, a) /\ FormatPath(a) = p[Len(a)]
  BY <1>1, PathTexts
<1>3. PICK q : Texts(q, b) /\ FormatPath(b) = q[Len(b)]
  BY <1>1, PathTexts
<1>4. /\ Len(a) \in Nat /\ \A i \in 1..Len(a) : a[i] \in PlainKey
      /\ Len(b) \in Nat /\ \A i \in 1..Len(b) : b[i] \in PlainKey
  BY LenProperties, ElementOfSeq
<1>5. \A i \in 1..Len(a) : p[i - 1] \in Seq(Word) /\ p[i] = Extended(p[i - 1], a[i]) /\ p[i] # <<>>
  <2> SUFFICES ASSUME NEW i \in 1..Len(a)
               PROVE  p[i - 1] \in Seq(Word) /\ p[i] = Extended(p[i - 1], a[i]) /\ p[i] # <<>>
    OBVIOUS
  <2>1. i - 1 \in 0..Len(a) /\ a[i] \in PlainKey
    BY <1>4
  <2>2. p[i - 1] \in Seq(Word) /\ p[i] = Extended(p[i - 1], a[i])
    BY <1>2, <2>1 DEF Texts
  <2>3. Extended(p[i - 1], a[i]) # <<>>
    BY <2>1, <2>2, ExtendedPlain
  <2> QED
    BY <2>2, <2>3
<1>6. \A j \in 1..Len(b) : q[j - 1] \in Seq(Word) /\ q[j] = Extended(q[j - 1], b[j]) /\ q[j] # <<>>
  <2> SUFFICES ASSUME NEW j \in 1..Len(b)
               PROVE  q[j - 1] \in Seq(Word) /\ q[j] = Extended(q[j - 1], b[j]) /\ q[j] # <<>>
    OBVIOUS
  <2>1. j - 1 \in 0..Len(b) /\ b[j] \in PlainKey
    BY <1>4
  <2>2. q[j - 1] \in Seq(Word) /\ q[j] = Extended(q[j - 1], b[j])
    BY <1>3, <2>1 DEF Texts
  <2>3. Extended(q[j - 1], b[j]) # <<>>
    BY <2>1, <2>2, ExtendedPlain
  <2> QED
    BY <2>2, <2>3
<1>7. p[0] = <<>> /\ q[0] = <<>>
  BY <1>2, <1>3 DEF Texts
<1> DEFINE T == {i \in 0..Len(a) : \A j \in 0..Len(b) :
                    p[i] = q[j] => i = j /\ \A k \in 1..i : a[k] = b[k]}
<1>8. 0 \in T
  <2>1. \A j \in 0..Len(b) : j = 0 \/ j \in 1..Len(b)
    BY <1>4
  <2> QED
    BY <1>4, <1>6, <1>7, <2>1
<1>9. ASSUME NEW i \in 1..Len(a), i - 1 \in T
      PROVE  i \in T
  <2>1. ASSUME NEW j \in 0..Len(b), p[i] = q[j]
        PROVE  i = j /\ \A k \in 1..i : a[k] = b[k]
    <3>1. j \in 1..Len(b) /\ j - 1 \in 0..Len(b)
      <4>1. j # 0
        BY <1>5, <1>7, <2>1
      <4> QED
        BY <1>4, <4>1
    <3>2. p[i - 1] = q[j - 1] /\ a[i] = b[j]
      BY <1>4, <1>5, <1>6, <2>1, <3>1, ExtendedApart
    <3>3. i - 1 = j - 1 /\ \A k \in 1..(i - 1) : a[k] = b[k]
      BY <1>9, <3>1, <3>2
    <3>4. i = j
      BY <3>3
    <3>5. \A k \in 1..i : k \in 1..(i - 1) \/ k = i
      OBVIOUS
    <3> QED
      BY <3>2, <3>3, <3>4, <3>5
  <2> QED
    BY <2>1
<1>10. Len(a) \in T
  <2> HIDE DEF T
  <2>1. 0..Len(a) \subseteq T
    BY <1>4, <1>8, <1>9, Ascend
  <2> QED
    BY <1>4, <2>1
<1>11. Len(a) = Len(b) /\ \A k \in 1..Len(a) : a[k] = b[k]
  <2>1. Len(b) \in 0..Len(b) /\ p[Len(a)] = q[Len(b)]
    <3>1. \A n \in Nat : n \in 0..n
      OBVIOUS
    <3> QED
      BY <1>2, <1>3, <1>4, <3>1, Zenon
  <2> QED
    BY <1>10, <2>1
<1> QED
  BY <1>11, SeqEqual

LEMMA KeysTyped ==
    ASSUME NEW issue \in Issue
    PROVE  /\ Keys(issue) \in Seq(SegmentKey)
           /\ Plain(issue) => Keys(issue) \in Seq(PlainKey)
<1>1. CASE issue.path = Unset
  BY <1>1 DEF Keys
<1>2. CASE issue.path # Unset
  <2>1. issue.path \in Seq(PathEntry)
    BY <1>2 DEF Issue
  <2>2. Len(issue.path) \in Nat /\ DOMAIN issue.path = 1..Len(issue.path)
    BY <2>1, LenProperties
  <2>3. Keys(issue) = [i \in 1..Len(issue.path) |-> ToSegmentKey(issue.path[i])]
    BY <1>2, <2>2 DEF Keys
  <2>4. \A i \in 1..Len(issue.path) : ToSegmentKey(issue.path[i]) \in SegmentKey
    <3> SUFFICES ASSUME NEW i \in 1..Len(issue.path)
                 PROVE  ToSegmentKey(issue.path[i]) \in SegmentKey
      OBVIOUS
    <3>1. issue.path[i] \in PathEntry
      BY <2>1, ElementOfSeq
    <3>2. issue.path[i].number \in BOOLEAN /\ issue.path[i].text \in Seq(Word)
      BY <3>1 DEF PathEntry, Text, Word
    <3> QED
      BY <3>2 DEF ToSegmentKey, SegmentKey
  <2>5. Keys(issue) \in Seq(SegmentKey)
    BY <2>2, <2>3, <2>4
  <2>6. ASSUME Plain(issue)  PROVE Keys(issue) \in Seq(PlainKey)
    <3>1. \A i \in 1..Len(issue.path) : ToSegmentKey(issue.path[i]) \in PlainKey
      BY <2>3, <2>4, <2>6 DEF Plain, PlainKey
    <3> QED
      BY <2>2, <2>3, <3>1
  <2> QED
    BY <2>5, <2>6
<1> QED
  BY <1>1, <1>2

LEMMA NormalizedLength ==
    ASSUME NEW raw \in Seq(Issue)
    PROVE  Len(NormalizeIssues(raw)) = Len(raw)
<1>1. Len(raw) \in Nat /\ DOMAIN raw = 1..Len(raw)
  BY LenProperties
<1>2. PICK thrown : thrown = NormalizeIssues(raw)
  OBVIOUS
<1>3. thrown = [i \in 1..Len(raw) |-> thrown[i]]
  BY <1>1, <1>2 DEF NormalizeIssues
<1> QED
  BY <1>1, <1>2, <1>3

(* A refused run is told of all its issues, and those on keys that are not *)
(* spelled like a path have the same path only if they have the same keys. *)
THEOREM IssuesCorrect == Spec => []IssuesLocateFields
<1>2. ASSUME NEW raw \in Seq(Issue), NEW thrown, thrown = NormalizeIssues(raw)
      PROVE  /\ Len(thrown) = Len(raw)
             /\ \A i \in DOMAIN raw :
                   /\ thrown[i].message = raw[i].message
                   /\ thrown[i].path = Unset <=> Keys(raw[i]) = <<>>
             /\ \A i, j \in {k \in DOMAIN raw : Plain(raw[k])} :
                   thrown[i].path = thrown[j].path <=> Keys(raw[i]) = Keys(raw[j])
  <2>1. Len(raw) \in Nat /\ DOMAIN raw = 1..Len(raw) /\ \A i \in 1..Len(raw) : raw[i] \in Issue
    BY LenProperties, ElementOfSeq
  <2>2. \A i \in DOMAIN raw :
           /\ thrown[i].message = raw[i].message
           /\ thrown[i].path = IF Keys(raw[i]) = <<>> THEN Unset ELSE FormatPath(Keys(raw[i]))
    BY <1>2 DEF NormalizeIssues
  <2>3. Len(thrown) = Len(raw)
    BY <1>2, NormalizedLength
  <2>4. \A i \in DOMAIN raw : FormatPath(Keys(raw[i])) # Unset
    <3> SUFFICES ASSUME NEW i \in DOMAIN raw  PROVE FormatPath(Keys(raw[i])) # Unset
      OBVIOUS
    <3>1. Keys(raw[i]) \in Seq(SegmentKey) /\ Len(Keys(raw[i])) \in Nat
      BY <2>1, KeysTyped, LenProperties
    <3>2. PICK path : Texts(path, Keys(raw[i])) /\ FormatPath(Keys(raw[i])) = path[Len(Keys(raw[i]))]
      BY <3>1, PathTexts
    <3>3. FormatPath(Keys(raw[i])) \in Seq(Word)
      BY <3>1, <3>2 DEF Texts
    <3> QED
      BY <3>3, TaskExecutionAssumption DEF Text, Word
  <2>5. ASSUME NEW i \in DOMAIN raw, NEW j \in DOMAIN raw, Plain(raw[i]), Plain(raw[j]),
               thrown[i].path = thrown[j].path
        PROVE  Keys(raw[i]) = Keys(raw[j])
    <3>1. Keys(raw[i]) \in Seq(PlainKey) /\ Keys(raw[j]) \in Seq(PlainKey)
      BY <2>1, <2>5, KeysTyped
    <3>2. CASE Keys(raw[i]) = <<>> \/ Keys(raw[j]) = <<>>
      BY <2>2, <2>4, <2>5, <3>2
    <3>3. CASE Keys(raw[i]) # <<>> /\ Keys(raw[j]) # <<>>
      <4>1. FormatPath(Keys(raw[i])) = FormatPath(Keys(raw[j]))
        BY <2>2, <2>5, <3>3
      <4> QED
        BY <3>1, <4>1, PathsApart
    <3> QED
      BY <3>2, <3>3
  <2> QED
    BY <2>2, <2>3, <2>4, <2>5
<1>3. ASSUME IInv, NEW r \in Runs, outcome[r] = "invalidInput"
      PROVE  verdict[r].issues \in Seq(Issue) /\ issues[r] = NormalizeIssues(verdict[r].issues)
  BY <1>3 DEF IInv, RunOK, Refused
<1>4. IInv => IssuesLocateFields
  BY <1>2, <1>3 DEF IssuesLocateFields
<1> QED
  BY <1>4, Invariance, PTL
=============================================================================
