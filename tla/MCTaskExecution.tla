-------------------------- MODULE MCTaskExecution --------------------------
(* Instance of TaskExecution for TLC: a host that listens to two events,    *)
(* one by name and one by definition, a second version of the first event   *)
(* under its name, with a strict schema, and of the other with one that     *)
(* validates asynchronously, two interceptors, a payload everyone accepts   *)
(* and one that only one of the events does. The host's schema transforms   *)
(* the first; of the other it reports issues at the root, of fields and of  *)
(* array elements, alone or next to a value; of {} it makes undefined.      *)
EXTENDS TaskExecution, TLC

CONSTANTS created, createdV2, deleted, audited, order, note, tracing, tenancy

MCEvents == {created, createdV2, deleted, audited}
MCNames == {"order:created", "order:deleted"}
MCDefinition ==
    LET Def(name, accepts, strict) == [name |-> name, accepts |-> accepts, strict |-> strict, async |-> FALSE]
        Async(def) == [def EXCEPT !.async = TRUE]
    IN  (created :> Def("order:created", {order}, FALSE))
        @@ (createdV2 :> Def("order:created", {order, note}, TRUE))
        @@ (deleted :> Def("order:deleted", {order, note}, FALSE))
        @@ (audited :> Async(Def("order:deleted", {order}, FALSE)))
MCHostOpts ==
    [onEvents |-> <<[name |-> "order:created", definition |-> FALSE],
                    [name |-> "order:deleted", definition |-> TRUE]>>,
     onCrons |-> <<"0 * * * *">>]
MCPayloads == {order, note}

Key(text) == [segment |-> FALSE, number |-> FALSE, text |-> text]
Index(text) == [segment |-> FALSE, number |-> TRUE, text |-> text]
Wrapped(key) == [key EXCEPT !.segment = TRUE]
At(path) == [message |-> "Invalid", path |-> path]

MCHostIssues ==
    {<<At(Unset), At(<<>>)>>,
     <<At(<<Key(<<"items">>), Index(<<"0">>), Key(<<"id">>)>>),
       At(<<Key(<<"items">>), Key(<<"0">>), Wrapped(Key(<<"id">>))>>),
       At(<<Wrapped(Key(<<"items">>)), Wrapped(Index(<<"0">>)), Key(<<"id">>)>>)>>,
     <<At(<<Key(<<"items", ".", "id">>)>>), At(<<Key(<<"items">>), Key(<<"id">>)>>),
       At(<<Index(<<"0">>), Key(<<"id">>)>>), At(<<Key(<<"id">>)>>)>>}

MCHostVerdicts ==
    LET Of(value, raw) == [value |-> value, issues |-> raw]
    IN  (order :> {Of("output", Unset)})
        @@ (note :> {Of("none", reported) : reported \in MCHostIssues} \cup {Of("output", <<At(Unset)>>)})
        @@ (Empty :> {Of("undefined", Unset)})

MCUserKeys == {{}, {"hatchet__event_key"}, {"hatchet__cron_name"}}
MCInterceptors == <<tracing, tenancy>>
MCSymmetry == Permutations(Runs)
=============================================================================
