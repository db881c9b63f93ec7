---------------------------- MODULE HostDeclaration ----------------------------
(***************************************************************************)
(* packages/hatchet, references/ and explorer/declaration-builder.service: *)
(* how a host class is checked, first by the compiler where the class is   *)
(* referenced and its parents are named, then when the application boots,  *)
(* and what the server runs of it. The compiler goes by the type of a      *)
(* method's first parameter, the boot by the decorators. A WorkflowHost's  *)
(* decorated methods and their `parents` are put into a graph, sorted      *)
(* topologically and declared one by one, each with the declarations of    *)
(* its parents; a TaskHost has a single method. createDeclaration is one   *)
(* synchronous stretch; the model shows the turns of its loop as steps     *)
(* because each may be the one that throws.                                *)
(***************************************************************************)
EXTENDS Integers, Sequences, FiniteSets, Functions

CONSTANTS Methods,    \* the host's own methods
          Strangers,  \* names in `parents` that are not methods of the host
          Mistyped,   \* bound: the methods that may take a HelperCtx although decorated
          Hidden,    \* bound: the methods that may be private or protected
          Unset       \* JavaScript's undefined

ASSUME HostDeclarationAssumption ==
    /\ IsFiniteSet(Methods)
    /\ Methods \cap Strangers = {}
    /\ Mistyped \subseteq Methods /\ Hidden \subseteq Methods
    /\ Unset \notin Nat \cup Methods /\ \A S \in SUBSET Methods : S # Unset

VARIABLES kind,      \* "task" (TaskHost) or "workflow" (WorkflowHost)
          inherited, \* the Strangers that are task methods of the host's base class
          method,    \* each method: its decorator `mark`, its WorkflowTaskOpts.parents,
                     \*   the type `ctx` of its first parameter, how many
                     \*   design:paramtypes it has, Unset without metadata, and
                     \*   whether it is `public`
          phase,     \* "defining", "created", "declaring", "declared", "failed"
          memo,      \* methodsCache.get(ctor), Unset before the first look
          ref,       \* taskRef(host).method, "none" before the call
          queue,     \* what is left of topoSorted
          declared,  \* the keys of taskDecls: the tasks declared so far
          decls,     \* ... and the parents each of them was declared with
          state,     \* external: "waiting", "running", "succeeded", "failed", of
                     \*   each task in one run of the declared workflow
          read       \* history: the tasks whose outputs ctx.parent() gave each task

class_vars == <<kind, inherited, method>>
boot_vars == <<phase, memo, ref, queue, declared, decls>>
vars == <<class_vars, boot_vars, state, read>>

OwnMark == IF kind = "workflow" THEN "WorkflowTask" ELSE "Task"
OwnCtx == IF kind = "workflow" THEN "WorkflowCtx" ELSE "TaskCtx"
Decorated == {m \in Methods : method[m].mark = OwnMark}

(* Only what the checks look at varies: the parents of workflow tasks, the *)
(* parameters of a TaskHost's tasks, whether a method's signature and its  *)
(* decorator go together, and who may see it.                              *)
Described(k, m) ==
    LET Method(mark, ctxs, pss, ns) ==
            [mark : {mark}, ctx : ctxs, parents : pss, params : ns,
             public : {TRUE} \cup IF m \in Hidden THEN {FALSE} ELSE {}]
        Typed(ctx) == {ctx} \cup IF m \in Mistyped THEN {"HelperCtx"} ELSE {}
        none == {{}}
    IN  IF k = "workflow"
        THEN Method("none", {"WorkflowCtx", "HelperCtx"}, none, {1})
             \cup Method("Task", Typed("TaskCtx"), none, {1})
             \cup Method("WorkflowTask", Typed("WorkflowCtx"), SUBSET (Methods \cup Strangers), {1})
        ELSE Method("none", {"TaskCtx", "HelperCtx"}, none, {1})
             \cup Method("Task", Typed("TaskCtx"), none, {1, 2, Unset})
             \cup Method("Task", {Unset}, none, {0})
             \cup Method("WorkflowTask", Typed("WorkflowCtx"), none, {1})

Init ==
    /\ kind \in {"task", "workflow"}
    /\ inherited \in SUBSET Strangers
    /\ method \in [Methods -> UNION {Described(kind, m) : m \in Methods}]
    /\ \A m \in Methods : method[m] \in Described(kind, m)
    /\ phase = "defining" /\ memo = Unset /\ ref = "none"
    /\ queue = <<>> /\ declared = {} /\ decls = [m \in Methods |-> {}]
    /\ state = [m \in Methods |-> "waiting"]
    /\ read = [m \in Methods |-> {}]

-----------------------------------------------------------------------------
(* What the compiler checks *)

(* TASK_MARKER brands TaskCtx and WorkflowCtx, but not HelperCtx.          *)
IsTaskRunnableSignature(ctx, C) ==
    /\ ctx \in {"TaskCtx", "WorkflowCtx"}
    /\ C = "WorkflowCtx" => ctx = "WorkflowCtx"

(* The keys of the instance type, own or inherited: `keyof` does not see   *)
(* what is private or protected.                                           *)
ContextMethodKeys(C) ==
    {m \in Methods : method[m].public /\ IsTaskRunnableSignature(method[m].ctx, C)}
        \cup inherited

(* The argument of taskRef(): not never, and no union.                     *)
ValidTaskHost_AnyNumber == ContextMethodKeys("BaseCtx") # {}
ValidTaskHost == Cardinality(ContextMethodKeys("BaseCtx")) = 1

(* The argument of workflowRef().                                          *)
ValidWorkflowHost == ContextMethodKeys("BaseCtx") # {}

RefCompiles == IF kind = "task" THEN ValidTaskHost ELSE ValidWorkflowHost

(* @WorkflowTask<typeof Host>({ parents }).                                *)
ParentsCompile ==
    \A m \in Decorated : method[m].parents \subseteq ContextMethodKeys("WorkflowCtx")

-----------------------------------------------------------------------------
(* HostAccessor.methods: the own methods with the decorator that fits the  *)
(* kind of host, whoever may see them, remembered from the first look on.  *)
(* A static initializer of the class runs before the decorators of its     *)
(* methods.                                                                *)
Accessed ==
    IF memo # Unset THEN memo
    ELSE IF phase = "defining" THEN {} ELSE Decorated

TaskRef ==
    /\ phase \in {"defining", "created"} /\ ref = "none"
    /\ kind = "task" /\ RefCompiles
    /\ memo' = Accessed
    /\ IF Accessed = {} THEN ref' = Unset ELSE ref' \in Accessed
    /\ UNCHANGED <<class_vars, phase, queue, declared, decls, state, read>>

Define ==
    /\ phase = "defining"
    /\ phase' = "created"
    /\ UNCHANGED <<class_vars, memo, ref, queue, declared, decls, state, read>>

Fail ==
    /\ phase' = "failed"
    /\ memo' = Accessed
    /\ UNCHANGED <<class_vars, ref, queue, declared, decls, state, read>>

-----------------------------------------------------------------------------
(* createTaskWorkflow: exactly one decorated method with one parameter.    *)
ValidateTaskHost == Cardinality(Accessed) = 1 /\ \A m \in Accessed : method[m].params = 1

CreateTaskWorkflow ==
    /\ phase = "created" /\ kind = "task"
    /\ ValidateTaskHost
    /\ memo' = Accessed
    /\ declared' = Accessed
    /\ phase' = "declared"
    /\ UNCHANGED <<class_vars, ref, queue, decls, state, read>>

RefuseTaskHost ==
    /\ phase = "created" /\ kind = "task"
    /\ ~ValidateTaskHost
    /\ Fail

-----------------------------------------------------------------------------
(* buildWorkflowHostGraph: an edge from each parent to its child. The      *)
(* graph library ignores an edge without vertices at both ends.            *)
Edges_ToParent == {e \in Accessed \X Accessed : e[2] \in method[e[1]].parents}
Edges == {e \in Accessed \X Accessed : e[1] \in method[e[2]].parents}

(* External: topologicalSort returns one of these, undefined if there is   *)
(* none.                                                                   *)
TopologicalOrders ==
    {s \in [1..Cardinality(Accessed) -> Accessed] :
        /\ IsInjective(s)
        /\ \A i, j \in DOMAIN s : <<s[i], s[j]>> \in Edges => i < j}

CreateWorkflow ==
    /\ phase = "created" /\ kind = "workflow"
    /\ Accessed # {}
    /\ queue' \in TopologicalOrders
    /\ phase' = "declaring"
    /\ memo' = Accessed
    /\ UNCHANGED <<class_vars, ref, declared, decls, state, read>>

(* No decorated method, or a circular dependency.                          *)
RefuseWorkflowHost ==
    /\ phase = "created" /\ kind = "workflow"
    /\ Accessed = {} \/ TopologicalOrders = {}
    /\ Fail

(* The loop over topoSorted: each parent must have been declared before.   *)
ResolvedParents_Dropped(m) == {}
ResolvedParents(m) == method[m].parents

Resolvable_Always(m) == TRUE
Resolvable(m) == method[m].parents \subseteq declared

DeclareTask ==
    /\ phase = "declaring"
    /\ Resolvable(Head(queue))
    /\ declared' = declared \cup {Head(queue)}
    /\ decls' = [decls EXCEPT ![Head(queue)] = ResolvedParents(Head(queue))]
    /\ queue' = Tail(queue)
    /\ phase' = IF Tail(queue) = <<>> THEN "declared" ELSE "declaring"
    /\ UNCHANGED <<class_vars, memo, ref, state, read>>

RefuseParent ==
    /\ phase = "declaring"
    /\ ~Resolvable(Head(queue))
    /\ Fail

-----------------------------------------------------------------------------
(* One run of the declaration. External: the server starts a task when the *)
(* parents it was declared with have succeeded, and it ends as it likes.   *)
Succeeded == {m \in Methods : state[m] = "succeeded"}

Start(m) ==
    /\ phase = "declared"
    /\ m \in declared /\ decls[m] \subseteq Succeeded
    /\ state[m] = "waiting"
    /\ state' = [state EXCEPT ![m] = "running"]
    /\ UNCHANGED <<class_vars, boot_vars, read>>

Finish(m, s) ==
    /\ state[m] = "running"
    /\ state' = [state EXCEPT ![m] = s]
    /\ UNCHANGED <<class_vars, boot_vars, read>>

(* ctx.parent(method) compiles for any method with a task's signature, in  *)
(* the class itself for a private one too. External: the SDK finds the     *)
(* output under the method's name if it is a parent the task was declared  *)
(* with, and rejects if not, which changes nothing.                        *)
Parent(m, p) ==
    /\ kind = "workflow" /\ state[m] = "running"
    /\ IsTaskRunnableSignature(method[p].ctx, "BaseCtx")
    /\ p \in decls[m]
    /\ read' = [read EXCEPT ![m] = @ \cup {p}]
    /\ UNCHANGED <<class_vars, boot_vars, state>>

Next ==
    \/ TaskRef \/ Define
    \/ CreateTaskWorkflow \/ RefuseTaskHost
    \/ CreateWorkflow \/ RefuseWorkflowHost
    \/ DeclareTask \/ RefuseParent
    \/ \E m \in Methods : Start(m)
    \/ \E m \in Methods, s \in {"succeeded", "failed"} : Finish(m, s)
    \/ \E m, p \in Methods : Parent(m, p)

(* The server goes on with what it can start, and every method returns.    *)
Fairness == \A m \in Methods : WF_vars(Start(m)) /\ WF_vars(\E s \in {"succeeded", "failed"} : Finish(m, s))
Spec == Init /\ [][Next]_vars
LiveSpec == Spec /\ Fairness

-----------------------------------------------------------------------------
(* Properties *)

(* The type invariant: in particular a declared parent is a task itself,   *)
(* never a name.                                                           *)
TypeOK ==
    /\ kind \in {"task", "workflow"} /\ inherited \subseteq Strangers
    /\ \A m \in Methods : method[m] \in Described(kind, m)
    /\ phase \in {"defining", "created", "declaring", "declared", "failed"}
    /\ memo \in {Unset} \cup SUBSET Methods
    /\ ref \in Methods \cup {Unset, "none"}
    /\ queue \in Seq(Methods)
    /\ declared \subseteq Methods /\ decls \in [Methods -> SUBSET Methods]
    /\ state \in [Methods -> {"waiting", "running", "succeeded", "failed"}]
    /\ read \in [Methods -> SUBSET Methods]

(* What the host's author must have written: for a workflow, tasks that    *)
(* name only tasks as parents and can be ranked by their dependencies.     *)
Ranked == \E rank \in [Decorated -> 1..Cardinality(Decorated)] :
    \A m \in Decorated : \A p \in method[m].parents \cap Decorated : rank[p] < rank[m]
Sound ==
    IF kind = "task"
    THEN Cardinality(Decorated) = 1 /\ \A m \in Decorated : method[m].params = 1
    ELSE Decorated # {} /\ Ranked /\ \A m \in Decorated : method[m].parents \subseteq Decorated

(* A host is declared exactly if it is sound, whatever order its methods   *)
(* are written in and whichever topological order the library chooses: no  *)
(* cycle and no unknown parent gets through, and no sound host is refused  *)
(* because a parent is declared after its child. Only a reference taken by *)
(* the class's own static initializer spoils a sound host: the methods are *)
(* looked up before they are decorated, and their absence is remembered.   *)
DeclaredExactlyIfSound ==
    /\ phase = "declared" => Sound
    /\ phase = "failed" /\ memo = Decorated => ~Sound

(* The author's part of the bargain: exactly the methods typed with the    *)
(* host's context are decorated, they are the host's own, and a task has   *)
(* no other parameter.                                                     *)
Disciplined ==
    /\ inherited = {}
    /\ \A m \in Methods : IF m \in Decorated THEN method[m].ctx = OwnCtx /\ method[m].params = 1
                           ELSE method[m].ctx = "HelperCtx"

HiddenTasks == {m \in Decorated : ~method[m].public}

(* "Compile-time validation ensures the host has exactly one task method"  *)
(* (helpers.ts:16) - one that is public: of such a host, what compiles     *)
(* also boots unless its parents form a cycle, or it is a TaskHost with a  *)
(* private task, which only the boot sees; what boots also compiles unless *)
(* a task is private; and a reference, taken once the class is defined,    *)
(* names the very method that was declared.                                *)
CompiledHostsDeclared ==
    Disciplined /\ memo = Decorated =>
        /\ phase = "failed" => \/ ~RefCompiles \/ ~ParentsCompile \/ ~Ranked
                               \/ (kind = "task" /\ HiddenTasks # {})
        /\ phase = "declared" => (RefCompiles /\ ParentsCompile) \/ HiddenTasks # {}
        /\ ref # "none" /\ phase = "declared" => declared = {ref}

(* A method runs only when every method it names as a parent has           *)
(* succeeded, so ctx.parent() of each finds its output, and it never gives *)
(* a task the output of one that has not.                                  *)
ParentsSucceedFirst ==
    \A m \in Methods :
        /\ state[m] # "waiting" =>
              m \in Decorated /\ \A p \in method[m].parents : p \in Methods /\ state[p] = "succeeded"
        /\ read[m] \subseteq method[m].parents \cap Succeeded

(* Every decorated method runs unless a task fails: no dependency keeps    *)
(* the tasks of a declared workflow waiting for each other.                *)
DeclaredWorkflowsFinish ==
    phase = "declared" ~>
        \/ \E m \in Decorated : state[m] = "failed"
        \/ \A m \in Decorated : state[m] = "succeeded"
=============================================================================
