------------------------ MODULE HostDeclarationProofs ------------------------
(***************************************************************************)
(* Proofs about module HostDeclaration, for any methods, decorated in any  *)
(* way and with any parents. That a sound host is declared needs a         *)
(* topological order of its tasks to exist: they can be listed by rank, or *)
(* a smallest set of them that cannot would have none. That declared       *)
(* workflows finish is left to TLC.                                        *)
(***************************************************************************)
EXTENDS HostDeclaration, FiniteSetTheorems, TLAPS

TypeInv ==
    /\ kind \in {"task", "workflow"}
    /\ \A m \in Methods : method[m] \in Described(kind, m)
    /\ declared \subseteq Decorated
    /\ decls \in [Methods -> SUBSET Methods]
    /\ state \in [Methods -> {"waiting", "running", "succeeded", "failed"}]
    /\ read \in [Methods -> SUBSET Methods]

(* Only decorated methods are looked up and queued; a task is declared     *)
(* with the very parents it names, which are methods of the host.          *)
BootInv ==
    /\ memo # Unset => memo \subseteq Decorated
    /\ phase \in {"defining", "created"} => declared = {} /\ decls = [m \in Methods |-> {}]
    /\ phase = "declaring" => kind = "workflow" /\ queue \in Seq(Decorated) /\ queue # <<>>
    /\ \A m \in declared : decls[m] = method[m].parents /\ method[m].parents \subseteq Methods

(* What has been started was declared, and its parents had succeeded.      *)
RunInv ==
    /\ \A m \in Methods : state[m] # "waiting" =>
          phase = "declared" /\ m \in declared /\ decls[m] \subseteq Succeeded
    /\ \A m \in Methods : read[m] # {} => state[m] # "waiting"
    /\ \A m \in Methods : read[m] \subseteq decls[m]

IInv == TypeInv /\ BootInv /\ RunInv

LEMMA AccessedDecorated == IInv => Accessed \subseteq Decorated
BY DEF IInv, BootInv, Accessed

LEMMA DecoratedFinite == IsFiniteSet(Decorated)
BY HostDeclarationAssumption, FS_Subset DEF Decorated

(* The methods of a TaskHost have no parents.                              *)
LEMMA TaskHostParents == IInv /\ kind = "task" => \A m \in Methods : method[m].parents = {}
<1> SUFFICES ASSUME IInv, kind = "task", NEW m \in Methods
             PROVE  method[m].parents = {}
  OBVIOUS
<1>1. method[m] \in Described("task", m)
  BY DEF IInv, TypeInv
<1> QED
  BY <1>1 DEF Described

LEMMA InitIInv == Init => IInv
<1> SUFFICES ASSUME Init
             PROVE  IInv
  OBVIOUS
<1>1. TypeInv
  BY DEF Init, TypeInv
<1>2. BootInv
  BY DEF Init, BootInv
<1>3. RunInv
  BY DEF Init, RunInv
<1> QED
  BY <1>1, <1>2, <1>3 DEF IInv

(* The host's description never changes, and with it what is decorated.    *)
LEMMA ClassStays == UNCHANGED class_vars => Decorated' = Decorated
BY DEF class_vars, Decorated, OwnMark

(* Until something is declared, nothing runs.                              *)
LEMMA NotYetRunning ==
    ASSUME IInv, phase # "declared"
    PROVE  \A m \in Methods : state[m] = "waiting" /\ read[m] = {}
BY DEF IInv, RunInv

(* A step of the boot that declares nothing.                               *)
LEMMA LookupStep ==
    ASSUME IInv, memo' \in {memo, Accessed}, phase # "declared", phase' # "declaring",
           phase' \in {"defining", "created"} => phase \in {"defining", "created"},
           UNCHANGED <<class_vars, declared, decls, state, read>>
    PROVE  IInv'
<1>1. UNCHANGED <<kind, inherited, method>> /\ Decorated' = Decorated
  BY ClassStays DEF class_vars
<1>2. TypeInv'
  BY <1>1 DEF IInv, TypeInv
<1>3. BootInv'
  BY <1>1, AccessedDecorated DEF IInv, BootInv
<1>4. RunInv'
  BY NotYetRunning DEF IInv, RunInv
<1> QED
  BY <1>2, <1>3, <1>4 DEF IInv

LEMMA FailStep ==
    ASSUME IInv, phase # "declared", Fail
    PROVE  IInv'
BY LookupStep DEF Fail

LEMMA CreateTaskWorkflowStep ==
    ASSUME IInv, CreateTaskWorkflow
    PROVE  IInv'
<1>1. /\ UNCHANGED <<kind, inherited, method>> /\ Decorated' = Decorated
      /\ phase = "created" /\ kind = "task" /\ phase' = "declared"
      /\ memo' = Accessed /\ declared' = Accessed
      /\ UNCHANGED <<decls, state, read>>
  BY ClassStays DEF CreateTaskWorkflow, class_vars
<1>2. Accessed \subseteq Decorated
  BY AccessedDecorated
<1>3. TypeInv'
  BY <1>1, <1>2 DEF IInv, TypeInv
<1>4. Decorated \subseteq Methods
  BY DEF Decorated
<1>5. BootInv'
  BY <1>1, <1>2, <1>4, TaskHostParents DEF IInv, BootInv
<1>6. RunInv'
  BY <1>1, NotYetRunning DEF IInv, RunInv
<1> QED
  BY <1>3, <1>5, <1>6 DEF IInv

(* The sorted methods are decorated ones, and there are some.              *)
LEMMA CreateWorkflowStep ==
    ASSUME IInv, CreateWorkflow
    PROVE  IInv'
<1>1. /\ UNCHANGED <<kind, inherited, method>> /\ Decorated' = Decorated
      /\ phase = "created" /\ kind = "workflow" /\ phase' = "declaring"
      /\ memo' = Accessed /\ UNCHANGED <<declared, decls, state, read>>
  BY ClassStays DEF CreateWorkflow, class_vars
<1>2. Accessed \subseteq Decorated
  BY AccessedDecorated
<1>3. queue' \in Seq(Decorated) /\ queue' # <<>>
  <2> DEFINE n == Cardinality(Accessed)
  <2>1. IsFiniteSet(Accessed)
    BY <1>2, DecoratedFinite, FS_Subset
  <2>2. n \in Nat /\ n # 0
    BY <2>1, FS_CardinalityType, FS_EmptySet DEF CreateWorkflow
  <2>3. queue' \in [1..n -> Accessed]
    BY DEF CreateWorkflow, TopologicalOrders
  <2> HIDE DEF n
  <2>4. queue' \in Seq(Decorated) /\ Len(queue') = n
    BY <1>2, <2>2, <2>3
  <2> QED
    BY <2>2, <2>4
<1>4. TypeInv'
  BY <1>1 DEF IInv, TypeInv
<1>5. BootInv'
  BY <1>1, <1>2, <1>3 DEF IInv, BootInv
<1>6. RunInv'
  BY <1>1, NotYetRunning DEF IInv, RunInv
<1> QED
  BY <1>4, <1>5, <1>6 DEF IInv

LEMMA DeclareTaskStep ==
    ASSUME IInv, DeclareTask
    PROVE  IInv'
<1> DEFINE m == Head(queue)
<1>1. /\ UNCHANGED <<kind, inherited, method>> /\ Decorated' = Decorated
      /\ phase = "declaring" /\ kind = "workflow"
      /\ UNCHANGED <<memo, state, read>>
  BY ClassStays DEF DeclareTask, class_vars, IInv, BootInv
<1>2. queue \in Seq(Decorated) /\ queue # <<>>
  BY <1>1 DEF IInv, BootInv
<1>3. m \in Decorated /\ Tail(queue) \in Seq(Decorated) /\ Decorated \subseteq Methods
  BY <1>2 DEF Decorated
<1>4. /\ method[m].parents \subseteq Methods
      /\ declared' = declared \cup {m}
      /\ decls' = [decls EXCEPT ![m] = method[m].parents]
  BY <1>3 DEF DeclareTask, Resolvable, ResolvedParents, IInv, TypeInv
<1>5. /\ queue' = Tail(queue)
      /\ phase' \in {"declared", "declaring"}
      /\ phase' = "declaring" => Tail(queue) # <<>>
  BY DEF DeclareTask
<1> HIDE DEF m
<1>6. TypeInv'
  BY <1>1, <1>3, <1>4 DEF IInv, TypeInv
<1>7. BootInv'
  <2>1. \A t \in declared' : decls'[t] = method[t].parents /\ method[t].parents \subseteq Methods
    BY <1>3, <1>4 DEF IInv, TypeInv, BootInv
  <2> QED
    BY <1>1, <1>3, <1>5, <2>1 DEF IInv, BootInv
<1>8. RunInv'
  BY <1>1, NotYetRunning DEF RunInv
<1> QED
  BY <1>6, <1>7, <1>8 DEF IInv

(* A step of the declared workflow's run: no task stops having succeeded.  *)
LEMMA TaskStep ==
    ASSUME IInv, NEW m \in Methods, m \in declared, phase = "declared",
           decls[m] \subseteq Succeeded, state[m] # "succeeded",
           NEW s \in {"running", "succeeded", "failed"},
           state' = [state EXCEPT ![m] = s],
           UNCHANGED <<class_vars, boot_vars, read>>
    PROVE  IInv'
<1>1. /\ UNCHANGED <<kind, inherited, method>> /\ Decorated' = Decorated
      /\ UNCHANGED <<phase, memo, queue, declared, decls, read>>
  BY ClassStays DEF class_vars, boot_vars
<1>2. TypeInv'
  BY <1>1 DEF IInv, TypeInv
<1>3. BootInv'
  BY <1>1 DEF IInv, BootInv
<1>4. Succeeded \subseteq Succeeded'
  BY DEF Succeeded, IInv, TypeInv
<1>5. RunInv'
  BY <1>1, <1>4 DEF IInv, TypeInv, RunInv
<1> QED
  BY <1>2, <1>3, <1>5 DEF IInv

LEMMA ParentStep ==
    ASSUME IInv, NEW m \in Methods, NEW p \in Methods, Parent(m, p)
    PROVE  IInv'
<1>1. /\ UNCHANGED <<kind, inherited, method>> /\ Decorated' = Decorated
      /\ UNCHANGED <<phase, memo, queue, declared, decls, state>>
      /\ p \in decls[m] /\ state[m] # "waiting"
      /\ read' = [read EXCEPT ![m] = @ \cup {p}]
  BY ClassStays DEF Parent, class_vars, boot_vars
<1>2. TypeInv'
  BY <1>1 DEF IInv, TypeInv
<1>3. BootInv'
  BY <1>1 DEF IInv, BootInv
<1>4. Succeeded' = Succeeded
  BY <1>1 DEF Succeeded
<1>5. RunInv'
  BY <1>1, <1>4 DEF IInv, TypeInv, RunInv
<1> QED
  BY <1>2, <1>3, <1>5 DEF IInv

LEMMA NextIInv == IInv /\ [Next]_vars => IInv'
<1> SUFFICES ASSUME IInv, [Next]_vars
             PROVE  IInv'
  OBVIOUS
<1>1. CASE TaskRef \/ Define
  BY <1>1, LookupStep DEF TaskRef, Define
<1>2. CASE RefuseTaskHost \/ RefuseWorkflowHost \/ RefuseParent
  BY <1>2, FailStep DEF RefuseTaskHost, RefuseWorkflowHost, RefuseParent
<1>3. CASE CreateTaskWorkflow \/ CreateWorkflow \/ DeclareTask
  BY <1>3, CreateTaskWorkflowStep, CreateWorkflowStep, DeclareTaskStep
<1>4. ASSUME NEW m \in Methods, Start(m)
      PROVE  IInv'
  BY <1>4, TaskStep DEF Start
<1>5. ASSUME NEW m \in Methods, NEW s \in {"succeeded", "failed"}, Finish(m, s)
      PROVE  IInv'
  <2>1. phase = "declared" /\ m \in declared /\ decls[m] \subseteq Succeeded
    BY <1>5 DEF Finish, IInv, RunInv
  <2> QED
    BY <1>5, <2>1, TaskStep DEF Finish
<1>6. ASSUME NEW m \in Methods, NEW p \in Methods, Parent(m, p)
      PROVE  IInv'
  BY <1>6, ParentStep
<1>7. CASE UNCHANGED vars
  <2>1. UNCHANGED <<kind, inherited, method, phase, memo, queue, declared, decls, state, read>>
    BY <1>7 DEF vars, class_vars, boot_vars
  <2>2. Decorated' = Decorated /\ Succeeded' = Succeeded
    BY <2>1 DEF Decorated, OwnMark, Succeeded
  <2> QED
    BY <2>1, <2>2 DEF IInv, TypeInv, BootInv, RunInv
<1> QED
  BY <1>1, <1>2, <1>3, <1>4, <1>5, <1>6, <1>7 DEF Next

(* Whatever the decorators say and the library sorts, a method runs only   *)
(* after all the parents it names, and reads no other output.              *)
THEOREM ParentsFirst == Spec => []ParentsSucceedFirst
<1>1. IInv => ParentsSucceedFirst
  <2> SUFFICES ASSUME IInv, NEW m \in Methods
               PROVE  /\ state[m] # "waiting" =>
                            /\ m \in Decorated
                            /\ \A p \in method[m].parents : p \in Methods /\ state[p] = "succeeded"
                      /\ read[m] \subseteq method[m].parents \cap Succeeded
    BY DEF ParentsSucceedFirst
  <2>1. CASE state[m] = "waiting"
    BY <2>1 DEF IInv, RunInv
  <2>2. CASE state[m] # "waiting"
    <3>1. /\ m \in Decorated /\ decls[m] = method[m].parents
          /\ decls[m] \subseteq Succeeded /\ read[m] \subseteq decls[m]
      BY <2>2 DEF IInv, TypeInv, BootInv, RunInv
    <3> QED
      BY <3>1 DEF Succeeded
  <2> QED
    BY <2>1, <2>2
<1> QED
  BY <1>1, InitIInv, NextIInv, PTL DEF Spec

-----------------------------------------------------------------------------
(* Sorting by dependencies *)

(* Every set of numbers has a least one, since sets of numbers below it    *)
(* cannot shrink forever.                                                  *)
LEMMA LeastNumber ==
    ASSUME NEW T \in SUBSET Nat, T # {}
    PROVE  \E i \in T : \A j \in T : i <= j
<1>1. IsWellFoundedOn(OpToRel(<, Nat), Nat)
  BY NatLessThanWellFounded
<1>2. PICK i \in T : \A j \in T : <<j, i>> \notin OpToRel(<, Nat)
  <2> DEFINE R == OpToRel(<, Nat)
  <2>1. IsWellFoundedOn(R, Nat)
    BY <1>1
  <2> HIDE DEF R
  <2>2. \E x \in T : \A y \in T : <<y, x>> \notin R
    BY <2>1, WFMin
  <2> QED
    BY <2>2 DEF R
<1>3. \A j \in T : ~(j < i)
  BY <1>2 DEF OpToRel
<1> QED
  BY <1>3

(* A ranked set can be listed so that the ranks never fall.                *)
SortedBy(rank, T) ==
    {s \in [1..Cardinality(T) -> T] :
        IsInjective(s) /\ \A i, j \in DOMAIN s : rank[s[i]] < rank[s[j]] => i < j}

LEMMA HighestRank ==
    ASSUME NEW T, T # {}, NEW n \in Nat, NEW rank, \A t \in T : rank[t] \in 1..n
    PROVE  \E x \in T : \A t \in T : rank[t] <= rank[x]
<1> DEFINE Gaps == {n - rank[t] : t \in T}
<1>1. Gaps \in SUBSET Nat /\ Gaps # {}
  OBVIOUS
<1>2. PICK g \in Gaps : \A h \in Gaps : g <= h
  <2> HIDE DEF Gaps
  <2> QED
    BY <1>1, LeastNumber
<1>3. PICK x \in T : g = n - rank[x]
  OBVIOUS
<1>4. ASSUME NEW t \in T  PROVE rank[t] <= rank[x]
  <2>1. n - rank[x] <= n - rank[t]
    BY <1>2, <1>3
  <2> QED
    BY <2>1
<1> QED
  BY <1>4

LEMMA Appended ==
    ASSUME NEW T, IsFiniteSet(T), NEW x \in T, NEW n \in Nat, NEW rank,
           \A t \in T : rank[t] \in 1..n /\ rank[t] <= rank[x],
           SortedBy(rank, T \ {x}) # {}
    PROVE  SortedBy(rank, T) # {}
<1> DEFINE k == Cardinality(T \ {x})
<1>1. k \in Nat /\ Cardinality(T) = k + 1
  <2>1. IsFiniteSet(T \ {x}) /\ k = Cardinality(T) - 1
    BY FS_RemoveElement
  <2>2. k \in Nat /\ Cardinality(T) \in Nat
    BY <2>1, FS_CardinalityType
  <2> QED
    BY <2>1, <2>2
<1>2. PICK s \in [1..k -> T \ {x}] :
          IsInjective(s) /\ \A i, j \in 1..k : rank[s[i]] < rank[s[j]] => i < j
  BY DEF SortedBy
<1> DEFINE s1 == [i \in 1..(k + 1) |-> IF i = k + 1 THEN x ELSE s[i]]
<1> HIDE DEF k
<1>3. \A i \in 1..(k + 1) : s1[i] = IF i = k + 1 THEN x ELSE s[i]
  OBVIOUS
<1>4. \A i \in 1..k : s[i] \in T /\ s[i] # x /\ i # k + 1 /\ i \in 1..(k + 1)
  BY <1>1, <1>2
<1>5. \A i \in 1..(k + 1) : i = k + 1 \/ i \in 1..k
  BY <1>1
<1>6. s1 \in [1..(k + 1) -> T]
  BY <1>4, <1>5
<1>7. IsInjective(s1)
  <2>1. \A i, j \in 1..k : s[i] = s[j] => i = j
    BY <1>2 DEF IsInjective
  <2>2. \A i, j \in 1..(k + 1) : s1[i] = s1[j] => i = j
    BY <1>3, <1>4, <1>5, <2>1
  <2> QED
    BY <2>2 DEF IsInjective
<1>8. ASSUME NEW i \in 1..(k + 1), NEW j \in 1..(k + 1), rank[s1[i]] < rank[s1[j]]
      PROVE  i < j
  <2>1. CASE i \in 1..k /\ j \in 1..k
    BY <1>2, <1>3, <1>4, <1>8, <2>1
  <2>2. CASE j = k + 1 /\ i \in 1..k
    BY <1>1, <2>2
  <2>3. CASE i = k + 1
    <3>1. rank[s1[i]] = rank[x] /\ s1[j] \in T
      BY <1>3, <1>6, <2>3
    <3>2. rank[s1[j]] <= rank[x] /\ rank[x] \in Nat /\ rank[s1[j]] \in Nat
      BY <3>1
    <3> QED
      BY <1>8, <3>1, <3>2
  <2> QED
    BY <1>5, <2>1, <2>2, <2>3
<1> HIDE DEF s1
<1>9. s1 \in SortedBy(rank, T)
  <2>1. DOMAIN s1 = 1..(k + 1)
    BY <1>6
  <2> QED
    BY <1>1, <1>6, <1>7, <1>8, <2>1 DEF SortedBy
<1> QED
  BY <1>9

(* A smallest set that could not be listed would lose the element of the   *)
(* highest rank and still be one.                                          *)
LEMMA Sortable ==
    ASSUME NEW S, IsFiniteSet(S), NEW n \in Nat, NEW rank \in [S -> 1..n]
    PROVE  SortedBy(rank, S) # {}
<1> DEFINE Bad == {T \in SUBSET S : SortedBy(rank, T) = {}}
<1>1. SUFFICES ASSUME Bad # {}
               PROVE  FALSE
  OBVIOUS
<1>2. FiniteSubsetsOf(S) = SUBSET S
  BY FS_FiniteSubsetsOfFinite
<1>3. PICK T \in Bad : \A U \in Bad : <<U, T>> \notin StrictSubsetOrdering(S)
  <2>1. Bad \subseteq FiniteSubsetsOf(S)
    BY <1>2
  <2> HIDE DEF Bad
  <2>2. IsWellFoundedOn(StrictSubsetOrdering(S), FiniteSubsetsOf(S))
    BY FS_StrictSubsetOrderingWellFounded
  <2> QED
    BY <1>1, <2>1, <2>2, WFMin
<1>4. T \subseteq S /\ SortedBy(rank, T) = {} /\ IsFiniteSet(T)
  BY FS_Subset
<1>5. T # {}
  <2> SUFFICES ASSUME T = {}
               PROVE  FALSE
    OBVIOUS
  <2>1. Cardinality(T) = 0
    BY FS_EmptySet
  <2> DEFINE none == [i \in 1..0 |-> i]
  <2>2. none \in [1..0 -> T] /\ IsInjective(none)
    BY DEF IsInjective
  <2>3. none \in SortedBy(rank, T)
    BY <2>1, <2>2 DEF SortedBy
  <2> QED
    BY <1>4, <2>3
<1>6. PICK x \in T : \A t \in T : rank[t] <= rank[x]
  BY <1>4, <1>5, HighestRank
<1>7. SortedBy(rank, T \ {x}) # {}
  <2>1. <<T \ {x}, T>> \in StrictSubsetOrdering(S)
    BY <1>4 DEF StrictSubsetOrdering
  <2> QED
    BY <1>3, <1>4, <2>1
<1>8. \A t \in T : rank[t] \in 1..n /\ rank[t] <= rank[x]
  BY <1>4, <1>6
<1> QED
  BY <1>4, <1>7, <1>8, Appended

-----------------------------------------------------------------------------
(* What is declared *)

(* Every decorated method is declared or still in the queue, each of them  *)
(* behind its parents.                                                     *)
QueueInv ==
    /\ memo = Decorated /\ Decorated # {} /\ Ranked
    /\ \A m \in Decorated : m \in declared \/ \E i \in 1..Len(queue) : queue[i] = m
    /\ \A m \in declared : method[m].parents \subseteq Decorated
    /\ \A i \in 1..Len(queue) : \A p \in method[queue[i]].parents \cap Decorated :
          p \in declared \/ \E j \in 1..(i - 1) : queue[j] = p

(* The methods were looked up too early or all of them were found, and the *)
(* boot ends as it should in the second case.                              *)
VerdictInv ==
    /\ memo \in {Unset, {}, Decorated}
    /\ ref # "none" => kind = "task" /\ memo # Unset /\ (ref \in memo \/ (memo = {} /\ ref = Unset))
    /\ phase = "declaring" => QueueInv
    /\ phase = "declared" => Sound /\ memo = Decorated /\ declared = Decorated
    /\ phase = "failed" /\ memo = Decorated => ~Sound

LEMMA AccessedAll == VerdictInv => Accessed \in {{}, Decorated} /\ Accessed # Unset
BY HostDeclarationAssumption DEF VerdictInv, Accessed, Decorated

LEMMA SoundStays == UNCHANGED class_vars => Sound' = Sound /\ Ranked' = Ranked
<1> SUFFICES ASSUME UNCHANGED class_vars
             PROVE  Sound' = Sound /\ Ranked' = Ranked
  OBVIOUS
<1>1. Decorated' = Decorated /\ kind' = kind /\ method' = method
  BY ClassStays DEF class_vars
<1>2. Ranked' = Ranked
  BY <1>1 DEF Ranked
<1> QED
  BY <1>1, <1>2 DEF Sound

(* Each method gets a place of its own in a topological order, and there   *)
(* are as many places as methods.                                          *)
LEMMA OrderIsComplete ==
    ASSUME VerdictInv, Accessed # {}, NEW s \in TopologicalOrders
    PROVE  /\ Cardinality(Decorated) \in Nat
           /\ s \in [1..Cardinality(Decorated) -> Decorated]
           /\ \A i, j \in 1..Cardinality(Decorated) : s[i] = s[j] => i = j
           /\ \A m \in Decorated : \E i \in 1..Cardinality(Decorated) : s[i] = m
           /\ \A i, j \in 1..Cardinality(Decorated) : <<s[i], s[j]>> \in Edges => i < j
<1> DEFINE n == Cardinality(Decorated)
<1>1. Accessed = Decorated
  BY AccessedAll
<1>2. n \in Nat
  BY DecoratedFinite, FS_CardinalityType
<1>3. s \in [1..n -> Decorated] /\ IsInjective(s)
  BY <1>1 DEF TopologicalOrders
<1>4. \A i, j \in 1..n : <<s[i], s[j]>> \in Edges => i < j
  BY <1>1 DEF TopologicalOrders
<1> HIDE DEF n
<1>5. \A i, j \in 1..n : s[i] = s[j] => i = j
  BY <1>3 DEF IsInjective
<1>6. IsFiniteSet(1..n) /\ Cardinality(1..n) = n
  <2>1. 1 \in Int /\ n \in Int
    BY <1>2
  <2> QED
    BY <1>2, <2>1, FS_Interval
<1>7. s \in Surjection(1..n, Decorated)
  <2>1. s \in Injection(1..n, Decorated)
    BY <1>3, <1>5 DEF Injection, IsInjective
  <2>2. Cardinality(1..n) = Cardinality(Decorated)
    BY <1>6 DEF n
  <2> QED
    BY <2>1, <2>2, DecoratedFinite, FS_Injection
<1>8. \A m \in Decorated : \E i \in 1..n : s[i] = m
  BY <1>7 DEF Surjection
<1> QED
  BY <1>2, <1>3, <1>4, <1>5, <1>8 DEF n

(* Who has an order can rank, who can rank has an order.                   *)
LEMMA RankedIfSorted ==
    ASSUME VerdictInv, Accessed # {}, TopologicalOrders # {}
    PROVE  Ranked
<1> DEFINE n == Cardinality(Decorated)
<1>1. PICK s : s \in TopologicalOrders
  OBVIOUS
<1>2. /\ s \in [1..n -> Decorated]
      /\ \A i, j \in 1..n : s[i] = s[j] => i = j
      /\ \A m \in Decorated : \E i \in 1..n : s[i] = m
      /\ \A i, j \in 1..n : <<s[i], s[j]>> \in Edges => i < j
  BY <1>1, OrderIsComplete
<1> DEFINE rank == [m \in Decorated |-> CHOOSE i \in 1..n : s[i] = m]
<1> HIDE DEF n
<1>3. \A m \in Decorated : rank[m] \in 1..n /\ s[rank[m]] = m
  BY <1>2
<1>4. rank \in [Decorated -> 1..n]
  BY <1>3
<1> HIDE DEF rank
<1>5. ASSUME NEW m \in Decorated, NEW p \in method[m].parents \cap Decorated
      PROVE  rank[p] < rank[m]
  <2>1. <<p, m>> \in Edges
    BY <1>5, AccessedAll DEF Edges
  <2> QED
    BY <1>2, <1>3, <2>1
<1> QED
  BY <1>4, <1>5 DEF Ranked, n

LEMMA SortedIfRanked ==
    ASSUME VerdictInv, Accessed # {}, Ranked
    PROVE  TopologicalOrders # {}
<1> DEFINE n == Cardinality(Decorated)
<1>1. Accessed = Decorated
  BY AccessedAll
<1>2. PICK rank \in [Decorated -> 1..n] :
          \A m \in Decorated : \A p \in method[m].parents \cap Decorated : rank[p] < rank[m]
  BY DEF Ranked
<1>3. n \in Nat
  BY DecoratedFinite, FS_CardinalityType
<1>4. SortedBy(rank, Decorated) # {}
  <2> HIDE DEF n
  <2> QED
    BY <1>2, <1>3, DecoratedFinite, Sortable
<1>5. PICK s \in [1..n -> Decorated] :
          IsInjective(s) /\ \A i, j \in DOMAIN s : rank[s[i]] < rank[s[j]] => i < j
  BY <1>4 DEF SortedBy
<1>6. ASSUME NEW i \in DOMAIN s, NEW j \in DOMAIN s, <<s[i], s[j]>> \in Edges
      PROVE  i < j
  <2>1. s[i] \in method[s[j]].parents \cap Decorated /\ s[j] \in Decorated
    BY <1>1, <1>6 DEF Edges
  <2> QED
    BY <1>2, <1>5, <2>1
<1>7. s \in TopologicalOrders
  BY <1>1, <1>5, <1>6 DEF TopologicalOrders
<1> QED
  BY <1>7

LEMMA InitVerdict == Init => VerdictInv
BY DEF Init, VerdictInv

(* Looking the methods up: too early, none are found.                      *)
LEMMA TaskRefVerdict ==
    ASSUME IInv, VerdictInv, TaskRef
    PROVE  VerdictInv'
<1>1. /\ kind = "task" /\ memo' = Accessed /\ ref' \in Accessed \cup {Unset}
      /\ (Accessed = {} => ref' = Unset) /\ (Accessed # {} => ref' \in Accessed)
      /\ phase \in {"defining", "created"} /\ UNCHANGED <<kind, phase>>
      /\ Decorated' = Decorated
  BY ClassStays DEF TaskRef, class_vars
<1> QED
  BY <1>1, AccessedAll DEF VerdictInv

LEMMA FailVerdict ==
    ASSUME VerdictInv, Fail, Accessed = Decorated => ~Sound
    PROVE  VerdictInv'
<1>1. /\ phase' = "failed" /\ memo' = Accessed /\ UNCHANGED <<kind, ref>>
      /\ Decorated' = Decorated /\ Sound' = Sound
  BY ClassStays, SoundStays DEF Fail, class_vars
<1>2. memo # Unset => memo' = memo
  BY <1>1 DEF Accessed
<1> QED
  BY <1>1, <1>2, AccessedAll DEF VerdictInv

LEMMA TaskHostVerdict ==
    ASSUME IInv, VerdictInv, CreateTaskWorkflow \/ RefuseTaskHost
    PROVE  VerdictInv'
<1>1. CASE RefuseTaskHost
  <2>1. Accessed = Decorated => ~Sound
    BY <1>1 DEF RefuseTaskHost, ValidateTaskHost, Sound
  <2> QED
    BY <1>1, <2>1, FailVerdict DEF RefuseTaskHost
<1>2. CASE CreateTaskWorkflow
  <2>1. /\ phase' = "declared" /\ memo' = Accessed /\ declared' = Accessed /\ UNCHANGED <<kind, ref>>
        /\ Decorated' = Decorated /\ Sound' = Sound /\ kind = "task"
    BY <1>2, ClassStays, SoundStays DEF CreateTaskWorkflow, class_vars
  <2>2. Accessed # {}
    BY <1>2, FS_EmptySet DEF CreateTaskWorkflow, ValidateTaskHost
  <2>3. Accessed = Decorated
    BY <2>2, AccessedAll
  <2>4. Sound
    BY <1>2, <2>1, <2>3 DEF CreateTaskWorkflow, ValidateTaskHost, Sound
  <2>5. memo # Unset => memo' = memo
    BY <2>1 DEF Accessed
  <2> QED
    BY <2>1, <2>3, <2>4, <2>5 DEF VerdictInv
<1> QED
  BY <1>1, <1>2

LEMMA WorkflowHostVerdict ==
    ASSUME IInv, VerdictInv, CreateWorkflow \/ RefuseWorkflowHost
    PROVE  VerdictInv'
<1>1. CASE RefuseWorkflowHost
  <2>1. ASSUME Accessed = Decorated  PROVE ~Sound
    <3>1. kind = "workflow" /\ (Accessed = {} \/ TopologicalOrders = {})
      BY <1>1 DEF RefuseWorkflowHost
    <3> QED
      BY <2>1, <3>1, SortedIfRanked DEF Sound
  <2> QED
    BY <1>1, <2>1, FailVerdict DEF RefuseWorkflowHost
<1>2. CASE CreateWorkflow
  <2> DEFINE n == Cardinality(Decorated)
  <2>1. /\ phase = "created" /\ kind = "workflow" /\ phase' = "declaring"
        /\ memo' = Accessed /\ Accessed # {} /\ queue' \in TopologicalOrders
        /\ UNCHANGED <<kind, method, ref, declared>> /\ Decorated' = Decorated /\ Ranked' = Ranked
    BY <1>2, ClassStays, SoundStays DEF CreateWorkflow, class_vars
  <2>2. Accessed = Decorated /\ ref = "none" /\ declared = {}
    BY <2>1, AccessedAll DEF VerdictInv, IInv, BootInv
  <2>3. Ranked
    BY <2>1, RankedIfSorted
  <2>4. /\ n \in Nat
        /\ queue' \in [1..n -> Decorated]
        /\ \A m \in Decorated : \E i \in 1..n : queue'[i] = m
        /\ \A i, j \in 1..n : <<queue'[i], queue'[j]>> \in Edges => i < j
    BY <2>1, OrderIsComplete
  <2> HIDE DEF n
  <2>5. Len(queue') = n
    BY <2>4
  <2>6. ASSUME NEW i \in 1..n, NEW p \in method[queue'[i]].parents \cap Decorated
        PROVE  \E j \in 1..(i - 1) : queue'[j] = p
    <3>1. PICK j \in 1..n : queue'[j] = p
      BY <2>4
    <3>2. <<queue'[j], queue'[i]>> \in Edges
      BY <2>2, <2>4, <3>1 DEF Edges
    <3>3. j < i
      BY <2>4, <3>2
    <3> QED
      BY <2>4, <3>1, <3>3
  <2>7. QueueInv'
    BY <2>1, <2>2, <2>3, <2>4, <2>5, <2>6 DEF QueueInv
  <2> QED
    BY <2>1, <2>2, <2>7 DEF VerdictInv
<1> QED
  BY <1>1, <1>2

(* The first in the queue is resolvable unless it names a stranger, or a   *)
(* method that is no task; then the others move up behind it.              *)
LEMMA LoopVerdict ==
    ASSUME IInv, VerdictInv, DeclareTask \/ RefuseParent
    PROVE  VerdictInv'
<1> DEFINE m == Head(queue)
<1>1. phase = "declaring" /\ kind = "workflow" /\ QueueInv
  BY DEF DeclareTask, RefuseParent, VerdictInv, IInv, BootInv
<1>2. queue \in Seq(Decorated) /\ queue # <<>> /\ declared \subseteq Decorated
  BY <1>1 DEF IInv, TypeInv, BootInv
<1>3. m = queue[1] /\ m \in Decorated /\ Len(queue) \in Nat /\ Len(queue) >= 1
  BY <1>2
<1>4. ref = "none" /\ memo = Decorated /\ Accessed = Decorated
  <2>1. ref = "none" /\ memo = Decorated
    BY <1>1 DEF VerdictInv, QueueInv
  <2>2. Decorated \subseteq Methods
    BY DEF Decorated
  <2> QED
    BY <2>1, <2>2, HostDeclarationAssumption DEF Accessed
<1>5. CASE RefuseParent
  <2>1. ~(method[m].parents \subseteq declared)
    BY <1>5 DEF RefuseParent, Resolvable
  <2>2. \A p \in method[m].parents \cap Decorated : p \in declared
    BY <1>1, <1>3 DEF QueueInv
  <2>3. ~Sound
    BY <1>1, <1>3, <2>1, <2>2 DEF Sound
  <2> QED
    BY <1>5, <2>3, FailVerdict DEF RefuseParent
<1>6. CASE DeclareTask
  <2> DEFINE rest == Tail(queue)
  <2>1. /\ method[m].parents \subseteq declared
        /\ declared' = declared \cup {m} /\ queue' = rest
        /\ phase' = IF rest = <<>> THEN "declared" ELSE "declaring"
        /\ UNCHANGED <<kind, method, memo, ref>> /\ Decorated' = Decorated
        /\ Ranked' = Ranked /\ Sound' = Sound
    BY <1>6, ClassStays, SoundStays DEF DeclareTask, Resolvable, class_vars
  <2>2. Len(rest) = Len(queue) - 1 /\ \A i \in 1..Len(rest) : rest[i] = queue[i + 1]
    BY <1>2
  <2> HIDE DEF m, rest
  <2>3. rest = <<>> => Len(rest) = 0
    OBVIOUS
  <2>4. \A d \in declared' : method[d].parents \subseteq Decorated
    BY <1>1, <1>2, <2>1 DEF QueueInv
  <2>5. ASSUME NEW d \in Decorated, d \notin declared'
        PROVE  \E i \in 1..Len(rest) : rest[i] = d
    <3>1. PICK i \in 1..Len(queue) : queue[i] = d
      BY <1>1, <2>1, <2>5 DEF QueueInv
    <3>2. i # 1
      BY <1>3, <2>1, <2>5, <3>1
    <3>3. i - 1 \in 1..Len(rest) /\ rest[i - 1] = d
      BY <1>3, <2>2, <3>1, <3>2
    <3> QED
      BY <3>3
  <2>6. ASSUME NEW i \in 1..Len(rest), NEW p \in method[rest[i]].parents \cap Decorated,
               p \notin declared'
        PROVE  \E j \in 1..(i - 1) : rest[j] = p
    <3>1. i + 1 \in 1..Len(queue) /\ rest[i] = queue[i + 1] /\ p \notin declared
      BY <1>3, <2>1, <2>2, <2>6
    <3>2. PICK j \in 1..((i + 1) - 1) : queue[j] = p
      BY <1>1, <2>6, <3>1 DEF QueueInv
    <3>3. j # 1
      BY <1>3, <2>1, <2>6, <3>2
    <3>4. j - 1 \in 1..(i - 1) /\ j - 1 \in 1..Len(rest) /\ rest[j - 1] = p
      BY <1>3, <2>2, <3>1, <3>2, <3>3
    <3> QED
      BY <3>4
  <2>7. CASE rest = <<>>
    <3>1. declared' = Decorated
      BY <1>2, <1>3, <2>1, <2>3, <2>5, <2>7
    <3>2. Sound
      BY <1>1, <2>4, <3>1 DEF Sound, QueueInv
    <3> QED
      BY <1>4, <2>1, <2>7, <3>1, <3>2 DEF VerdictInv
  <2>8. CASE rest # <<>>
    <3>1. QueueInv'
      BY <1>1, <2>1, <2>4, <2>5, <2>6 DEF QueueInv
    <3> QED
      BY <1>4, <2>1, <2>8, <3>1 DEF VerdictInv
  <2> QED
    BY <2>7, <2>8
<1> QED
  BY <1>5, <1>6

LEMMA NextVerdict == IInv /\ VerdictInv /\ [Next]_vars => VerdictInv'
<1> SUFFICES ASSUME IInv, VerdictInv, [Next]_vars
             PROVE  VerdictInv'
  OBVIOUS
<1>1. ASSUME UNCHANGED <<class_vars, memo, ref, queue, declared>>,
             phase' = phase \/ (phase = "defining" /\ phase' = "created")
      PROVE  VerdictInv'
  <2>1. /\ UNCHANGED <<kind, method, memo, ref, queue, declared>> /\ Decorated' = Decorated
        /\ Sound' = Sound /\ Ranked' = Ranked
    BY <1>1, ClassStays, SoundStays DEF class_vars
  <2>2. QueueInv' = QueueInv
    BY <2>1 DEF QueueInv
  <2> QED
    BY <1>1, <2>1, <2>2 DEF VerdictInv
<1>2. CASE TaskRef
  BY <1>2, TaskRefVerdict
<1>3. CASE Define
  BY <1>1, <1>3 DEF Define
<1>4. CASE CreateTaskWorkflow \/ RefuseTaskHost
  BY <1>4, TaskHostVerdict
<1>5. CASE CreateWorkflow \/ RefuseWorkflowHost
  BY <1>5, WorkflowHostVerdict
<1>6. CASE DeclareTask \/ RefuseParent
  BY <1>6, LoopVerdict
<1>7. CASE \/ \E m \in Methods : Start(m)
           \/ \E m \in Methods, s \in {"succeeded", "failed"} : Finish(m, s)
           \/ \E m, p \in Methods : Parent(m, p)
           \/ UNCHANGED vars
  <2>1. UNCHANGED <<class_vars, boot_vars>>
    BY <1>7 DEF Start, Finish, Parent, vars
  <2> QED
    BY <1>1, <2>1 DEF boot_vars
<1> QED
  BY <1>2, <1>3, <1>4, <1>5, <1>6, <1>7 DEF Next

LEMMA Verdict == Spec => [](IInv /\ VerdictInv)
BY InitIInv, NextIInv, InitVerdict, NextVerdict, PTL DEF Spec

(* For any host: no cycle and no unknown parent gets through, and no sound *)
(* host is refused, whichever order the library chooses.                   *)
THEOREM DeclaredIfSound == Spec => []DeclaredExactlyIfSound
<1>1. IInv /\ VerdictInv => DeclaredExactlyIfSound
  BY DEF VerdictInv, DeclaredExactlyIfSound
<1> QED
  BY <1>1, Verdict, PTL

(* For any host of a disciplined author, what compiles also boots, and the *)
(* other way round, but for tasks that are private.                        *)
THEOREM CompiledDeclared == Spec => []CompiledHostsDeclared
<1>1. IInv /\ VerdictInv => CompiledHostsDeclared
  <2> SUFFICES ASSUME IInv, VerdictInv, Disciplined, memo = Decorated
               PROVE  /\ phase = "failed" => \/ ~RefCompiles \/ ~ParentsCompile \/ ~Ranked
                                             \/ (kind = "task" /\ HiddenTasks # {})
                      /\ phase = "declared" => (RefCompiles /\ ParentsCompile) \/ HiddenTasks # {}
                      /\ ref # "none" /\ phase = "declared" => declared = {ref}
    BY DEF CompiledHostsDeclared
  <2>1. kind \in {"task", "workflow"} /\ inherited = {} /\ Decorated \subseteq Methods
    BY DEF IInv, TypeInv, Disciplined, Decorated
  <2>2. \A m \in Methods : IF m \in Decorated THEN method[m].ctx = OwnCtx /\ method[m].params = 1
                           ELSE method[m].ctx = "HelperCtx"
    BY DEF Disciplined
  <2> DEFINE Visible == Decorated \ HiddenTasks
  <2>3. ContextMethodKeys("BaseCtx") = Visible
    BY <2>1, <2>2 DEF ContextMethodKeys, IsTaskRunnableSignature, OwnCtx, HiddenTasks
  <2>4. kind = "workflow" => ContextMethodKeys("WorkflowCtx") = Visible
    BY <2>1, <2>2 DEF ContextMethodKeys, IsTaskRunnableSignature, OwnCtx, HiddenTasks
  <2>5. kind = "task" => ParentsCompile
    BY <2>1, TaskHostParents DEF ParentsCompile
  <2>6. kind = "workflow" => (ParentsCompile <=> \A m \in Decorated : method[m].parents \subseteq Visible)
    BY <2>4 DEF ParentsCompile
  <2>7. ASSUME RefCompiles, ParentsCompile, Ranked, kind = "workflow" \/ HiddenTasks = {}
        PROVE  Sound
    <3>1. CASE kind = "task"
      <4>1. Visible = Decorated /\ Cardinality(Visible) = 1
        BY <2>3, <2>7, <3>1 DEF RefCompiles, ValidTaskHost
      <4>2. \A m \in Decorated : method[m].params = 1
        BY <2>1, <2>2
      <4>3. Cardinality(Decorated) = 1
        BY <4>1
      <4> QED
        BY <3>1, <4>2, <4>3 DEF Sound
    <3>2. CASE kind = "workflow"
      <4>1. Visible # {} /\ \A m \in Decorated : method[m].parents \subseteq Visible
        BY <2>3, <2>6, <2>7, <3>2 DEF RefCompiles, ValidWorkflowHost
      <4> QED
        BY <2>7, <3>2, <4>1 DEF Sound
    <3> QED
      BY <2>1, <3>1, <3>2
  <2>8. ASSUME Sound, HiddenTasks = {}
        PROVE  RefCompiles /\ ParentsCompile
    <3>1. Visible = Decorated
      BY <2>8
    <3> QED
      BY <2>1, <2>3, <2>5, <2>6, <2>8, <3>1 DEF RefCompiles, ValidTaskHost, ValidWorkflowHost, Sound
  <2>9. ASSUME ref # "none", phase = "declared"  PROVE declared = {ref}
    <3>1. kind = "task" /\ Sound /\ declared = Decorated
      BY <2>9 DEF VerdictInv
    <3>2. PICK m : Decorated = {m}
      BY <3>1, DecoratedFinite, FS_Singleton DEF Sound
    <3>3. ref \in Decorated
      BY <2>9, <3>2 DEF VerdictInv
    <3> QED
      BY <3>1, <3>2, <3>3
  <2> QED
    BY <2>1, <2>7, <2>8, <2>9 DEF VerdictInv
<1> QED
  BY <1>1, Verdict, PTL

-----------------------------------------------------------------------------
(* Types *)

(* What only the reference and the loop over the sorted methods use.       *)
LoopInv ==
    /\ inherited \subseteq Strangers
    /\ phase \in {"defining", "created", "declaring", "declared", "failed"}
    /\ ref \in Methods \cup {Unset, "none"}
    /\ queue \in Seq(Methods)

LEMMA NextLoopInv == IInv /\ LoopInv /\ [Next]_vars => LoopInv'
<1> SUFFICES ASSUME IInv, LoopInv, [Next]_vars
             PROVE  LoopInv'
  OBVIOUS
<1>1. Accessed \subseteq Methods
  BY AccessedDecorated DEF Decorated
<1>2. CASE TaskRef
  BY <1>1, <1>2 DEF TaskRef, LoopInv, class_vars
<1>3. CASE Define \/ CreateTaskWorkflow \/ RefuseTaskHost \/ RefuseWorkflowHost \/ RefuseParent
  BY <1>3 DEF Define, CreateTaskWorkflow, RefuseTaskHost, RefuseWorkflowHost, RefuseParent, Fail,
     LoopInv, class_vars
<1>4. CASE CreateWorkflow
  <2>1. IsFiniteSet(Accessed)
    BY AccessedDecorated, DecoratedFinite, FS_Subset
  <2>2. Cardinality(Accessed) \in Nat
    BY <2>1, FS_CardinalityType
  <2>3. queue' \in [1..Cardinality(Accessed) -> Accessed]
    BY <1>4 DEF CreateWorkflow, TopologicalOrders
  <2>4. queue' \in Seq(Methods)
    BY <1>1, <2>2, <2>3
  <2> QED
    BY <1>4, <2>4 DEF CreateWorkflow, LoopInv, class_vars
<1>5. CASE DeclareTask
  <2>1. queue # <<>>
    BY <1>5 DEF DeclareTask, IInv, BootInv
  <2>2. Tail(queue) \in Seq(Methods)
    BY <2>1 DEF LoopInv
  <2> QED
    BY <1>5, <2>2 DEF DeclareTask, LoopInv, class_vars
<1>6. CASE UNCHANGED <<class_vars, boot_vars>>
  BY <1>6 DEF LoopInv, class_vars, boot_vars
<1> QED
  BY <1>2, <1>3, <1>4, <1>5, <1>6 DEF Next, Start, Finish, Parent, vars

(* In particular a task is declared with methods of the host as parents,   *)
(* never with a name that means nothing.                                   *)
THEOREM TypeCorrect == Spec => []TypeOK
<1>1. Init => LoopInv
  BY DEF Init, LoopInv
<1>2. IInv /\ LoopInv => TypeOK
  <2>1. Decorated \subseteq Methods
    BY DEF Decorated
  <2> QED
    BY <2>1 DEF IInv, TypeInv, BootInv, LoopInv, TypeOK
<1> QED
  BY <1>1, <1>2, InitIInv, NextIInv, NextLoopInv, PTL DEF Spec
=============================================================================
