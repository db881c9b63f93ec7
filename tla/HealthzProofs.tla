---------------------------- MODULE HealthzProofs ----------------------------
(***************************************************************************)
(* Proofs about module Healthz, for any attestors, options, requests and   *)
(* bounds: the type invariant for every configuration, the rest for        *)
(* configurations whose attestor names are unique.                         *)
(***************************************************************************)
EXTENDS HealthzProperties, TLAPS

(* What the assumption says of the options is needed everywhere.            *)
USE DEF HealthAttestorOptions

(* A cache write yields a well-typed cache.                                *)
LEMMA SetType ==
    ASSUME TypeOK, NEW n \in Names, NEW o \in Outcomes, NEW ttl \in Int
    PROVE  Set(n, o, ttl) \in [Names -> CachedEntry \cup {Unset}]
<1>1. now + ttl \in Int
  BY DEF TypeOK
<1>2. [outcome |-> o, expiresAt |-> now + ttl] \in CachedEntry
  BY <1>1 DEF CachedEntry
<1> QED
  BY <1>2 DEF Set, TypeOK

(* Looking names up only ever removes entries.                             *)
LEMMA EvictedType ==
    ASSUME TypeOK
    PROVE  Evicted \in [Names -> CachedEntry \cup {Unset}]
BY DEF Evicted, TypeOK

(* deriveStatus() and execute() stay within their result types.            *)
LEMMA StatusType == \A row : DeriveStatus(row) \in Statuses
BY DEF DeriveStatus, Statuses

LEMMA OutcomeType == \A res : OutcomeOf(res) \in Outcomes
BY DEF OutcomeOf, Outcomes

(* The type invariant holds in every behaviour, duplicates or not.         *)
THEOREM TypeCorrect == Spec => []TypeOK
<1>1. Init => TypeOK
  BY HealthzAssumption DEF Init, TypeOK, Row
<1>2. TypeOK /\ [Next]_vars => TypeOK'
  <2> SUFFICES ASSUME TypeOK, [Next]_vars
               PROVE  TypeOK'
    OBVIOUS
  <2> USE HealthzAssumption
  <2>1. CASE Tick
    BY <2>1 DEF Tick, TypeOK
  <2>2. ASSUME NEW r \in Requests, RunAll(r)
        PROVE  TypeOK'
    <3> DEFINE hit(a) == IsLive(entries[NameOf[a]])
    <3>1. PICK thrown \in SUBSET {a \in Attestors : ~hit(a)} :
            /\ phase' = [phase EXCEPT ![r] = [a \in Attestors |->
                    IF hit(a) THEN "done"
                    ELSE IF a \in thrown THEN "settled" ELSE "checking"]]
            /\ verdict' = [verdict EXCEPT ![r] = [a \in Attestors |->
                    IF hit(a) THEN entries[NameOf[a]].outcome ELSE Unset]]
            /\ result' = [result EXCEPT ![r] = [a \in Attestors |->
                    IF a \in thrown THEN "threw" ELSE Unset]]
            /\ timer' = [timer EXCEPT ![r] = [a \in Attestors |->
                    IF hit(a) \/ a \in thrown THEN Unset ELSE now + Timeout(a)]]
      BY <2>2 DEF RunAll
    <3>2. phase' \in [Requests -> [Attestors -> {"idle", "checking", "settled", "done"}]]
      BY <3>1 DEF TypeOK
    <3>3. \A a \in Attestors : hit(a) => entries[NameOf[a]].outcome \in Outcomes
      BY DEF TypeOK, IsLive, CachedEntry
    <3>4. verdict' \in [Requests -> [Attestors -> Outcomes \cup {Unset}]]
      <4> DEFINE row == [a \in Attestors |->
                    IF hit(a) THEN entries[NameOf[a]].outcome ELSE Unset]
      <4>1. row \in [Attestors -> Outcomes \cup {Unset}]
        BY <3>3
      <4> HIDE DEF row, hit
      <4>2. verdict' = [verdict EXCEPT ![r] = row]
        BY <3>1 DEF row
      <4> QED
        BY <4>1, <4>2 DEF TypeOK
    <3>5. result' \in [Requests -> [Attestors -> Results \cup {Unset}]]
      BY <3>1 DEF TypeOK, Results, Settlements
    <3>6. \A a \in Attestors : now + Timeout(a) \in Nat
      BY DEF TypeOK, Timeout
    <3>7. timer' \in [Requests -> [Attestors -> Nat \cup {Unset}]]
      BY <3>1, <3>6 DEF TypeOK
    <3>8. entries' \in [Names -> CachedEntry \cup {Unset}]
      BY <2>2, EvictedType DEF RunAll
    <3> HIDE DEF hit
    <3> QED
      BY <2>2, <3>2, <3>4, <3>5, <3>7, <3>8 DEF RunAll, TypeOK
  <2>3. ASSUME NEW r \in Requests, Respond(r)
        PROVE  TypeOK'
    BY <2>3, StatusType DEF Respond, TypeOK
  <2>4. ASSUME NEW r \in Requests, NEW a \in Attestors, NEW s \in Settlements,
               CheckSettles(r, a, s)
        PROVE  TypeOK'
    BY <2>4 DEF CheckSettles, TypeOK, Results
  <2>5. ASSUME NEW r \in Requests, NEW a \in Attestors, TimerFires(r, a)
        PROVE  TypeOK'
    BY <2>5 DEF TimerFires, TypeOK, Results
  <2>6. ASSUME NEW r \in Requests, NEW a \in Attestors, Resume(r, a)
        PROVE  TypeOK'
    <3> DEFINE o == OutcomeOf(result[r][a])
    <3>1. o \in Outcomes
      BY OutcomeType
    <3>2. [outcome |-> o, at |-> now] \in Completion
      BY <3>1 DEF Completion, TypeOK
    <3>3. last' \in [Attestors -> Completion \cup {Unset}]
      BY <2>6, <3>2 DEF Resume, TypeOK
    <3>4. entries' \in [Names -> CachedEntry \cup {Unset}]
      BY <2>6, <3>1, SetType DEF Resume, TypeOK
    <3>5. verdict' \in [Requests -> [Attestors -> Outcomes \cup {Unset}]]
      BY <2>6, <3>1 DEF Resume, TypeOK
    <3> QED
      BY <2>6, <3>3, <3>4, <3>5 DEF Resume, TypeOK
  <2>7. CASE UNCHANGED vars
    BY <2>7 DEF vars, TypeOK
  <2> QED
    BY <2>1, <2>2, <2>3, <2>4, <2>5, <2>6, <2>7 DEF Next
<1> QED
  BY <1>1, <1>2, PTL DEF Spec

-----------------------------------------------------------------------------
(* What a lookup finds of a registered attestor is what eviction leaves.   *)
LEMMA LookupIsYoung ==
    ASSUME TypeOK, CacheHoldsLastCheck, NEW a \in Attestors
    PROVE  IsLive(entries[NameOf[a]]) <=> Young(a)
<1> DEFINE e == entries[NameOf[a]]
<1>1. e \in CachedEntry \cup {Unset} /\ now \in Int /\ Unset \notin CachedEntry
  BY HealthzAssumption DEF TypeOK
<1>2. last[a] \in Completion \cup {Unset} /\ MinIntervalMs[a] \in Int \cup {Unset}
  BY HealthzAssumption DEF TypeOK
<1>3. ASSUME IsLive(e) PROVE Young(a)
  BY <1>1, <1>2, <1>3 DEF IsLive, Young, CacheHoldsLastCheck
<1>4. ASSUME Young(a) PROVE IsLive(e)
  BY <1>1, <1>2, <1>4 DEF IsLive, Young, CacheHoldsLastCheck
<1> QED
  BY <1>3, <1>4

(* With unique names, each step keeps the cache in line with the last      *)
(* completed checks, although lookups and writes of concurrent requests    *)
(* are separate steps: TypeOK /\ CacheHoldsLastCheck is inductive.         *)
LEMMA CacheStep ==
    ASSUME UniqueNames, TypeOK, CacheHoldsLastCheck, [Next]_vars
    PROVE  CacheHoldsLastCheck'
<1> USE HealthzAssumption
<1>1. CASE Tick
  <2> SUFFICES ASSUME NEW a \in Attestors
               PROVE  Young(a)' => Young(a)
    BY <1>1 DEF Tick, CacheHoldsLastCheck, HasInterval
  <2>1. last[a] = Unset \/ last[a].at \in Int
    BY DEF TypeOK, Completion
  <2> QED
    BY <1>1, <2>1 DEF Tick, Young, HasInterval, TypeOK
<1>2. ASSUME NEW r \in Requests, RunAll(r)
      PROVE  CacheHoldsLastCheck'
  <2> SUFFICES ASSUME NEW a \in Attestors
               PROVE  /\ ~HasInterval(a) => entries'[NameOf[a]] = Unset
                      /\ entries'[NameOf[a]] # Unset =>
                            entries'[NameOf[a]] = entries[NameOf[a]]
                      /\ entries'[NameOf[a]] = Unset => ~Young(a)
    BY <1>2 DEF RunAll, CacheHoldsLastCheck, HasInterval, Young
  <2>1. entries' = Evicted
    BY <1>2 DEF RunAll
  <2>2. entries'[NameOf[a]] =
          IF IsLive(entries[NameOf[a]]) THEN entries[NameOf[a]] ELSE Unset
    BY <2>1 DEF Evicted
  <2> QED
    BY <2>2, LookupIsYoung DEF CacheHoldsLastCheck, IsLive
<1>3. ASSUME NEW r \in Requests, Respond(r)
      PROVE  CacheHoldsLastCheck'
  BY <1>3 DEF Respond, CacheHoldsLastCheck, HasInterval, Young
<1>4. ASSUME NEW r \in Requests, NEW a \in Attestors, NEW s \in Settlements,
             CheckSettles(r, a, s)
      PROVE  CacheHoldsLastCheck'
  BY <1>4 DEF CheckSettles, CacheHoldsLastCheck, HasInterval, Young
<1>5. ASSUME NEW r \in Requests, NEW a \in Attestors, TimerFires(r, a)
      PROVE  CacheHoldsLastCheck'
  BY <1>5 DEF TimerFires, CacheHoldsLastCheck, HasInterval, Young
<1>6. ASSUME NEW r \in Requests, NEW a \in Attestors, Resume(r, a)
      PROVE  CacheHoldsLastCheck'
  <2> DEFINE o == OutcomeOf(result[r][a])
             done == [outcome |-> o, at |-> now]
             entry == [outcome |-> o, expiresAt |-> now + MinIntervalMs[a]]
  <2>1. o \in Outcomes /\ now \in Int
    BY OutcomeType DEF TypeOK
  <2>2. done \in Completion /\ done # Unset
    BY <2>1 DEF Completion
  <2>3. last' = [last EXCEPT ![a] = done] /\ now' = now
    BY <1>6 DEF Resume
  <2>4. CASE HasInterval(a)
    <3>1. MinIntervalMs[a] \in Int
      BY <2>4 DEF HasInterval
    <3>2. entry \in CachedEntry /\ entry # Unset
      BY <2>1, <3>1 DEF CachedEntry
    <3>3. entries' = [entries EXCEPT ![NameOf[a]] = entry]
      BY <1>6, <2>4, <3>1 DEF Resume, HasInterval, Set
    <3> HIDE DEF o
    <3> SUFFICES ASSUME NEW b \in Attestors
                 PROVE  LET e == entries'[NameOf[b]]
                        IN  /\ ~HasInterval(b) => e = Unset
                            /\ e # Unset => /\ last'[b] # Unset
                                            /\ e.outcome = last'[b].outcome
                                            /\ e.expiresAt = last'[b].at + MinIntervalMs[b]
                            /\ e = Unset => ~Young(b)'
      BY DEF CacheHoldsLastCheck, HasInterval
    <3>4. CASE b = a
      BY <2>2, <2>3, <2>4, <3>2, <3>3, <3>4 DEF TypeOK
    <3>5. CASE b # a
      <4>1. entries'[NameOf[b]] = entries[NameOf[b]] /\ last'[b] = last[b]
        BY <2>3, <3>3, <3>5, HealthzAssumption DEF UniqueNames, DuplicateNames, TypeOK
      <4> QED
        BY <2>3, <4>1 DEF CacheHoldsLastCheck, Young, HasInterval
    <3> QED
      BY <3>4, <3>5
  <2>5. CASE ~HasInterval(a)
    <3>1. entries' = entries
      BY <1>6, <2>5 DEF Resume, HasInterval, Set
    <3>2. entries[NameOf[a]] = Unset
      BY <2>5 DEF CacheHoldsLastCheck
    <3>3. \A b \in Attestors : b # a => last'[b] = last[b]
      BY <2>3 DEF TypeOK
    <3> QED
      BY <2>3, <2>5, <3>1, <3>2, <3>3 DEF CacheHoldsLastCheck, Young, HasInterval
  <2> QED
    BY <2>4, <2>5
<1>7. CASE UNCHANGED vars
  BY <1>7 DEF vars, CacheHoldsLastCheck, HasInterval, Young
<1> QED
  BY <1>1, <1>2, <1>3, <1>4, <1>5, <1>6, <1>7 DEF Next

(* With unique names the cache always holds the last completed checks.     *)
THEOREM CacheCorrect ==
    ASSUME UniqueNames
    PROVE  Spec => []CacheHoldsLastCheck
<1>1. Init => CacheHoldsLastCheck
  BY HealthzAssumption DEF Init, CacheHoldsLastCheck, Young
<1>2. TypeOK /\ CacheHoldsLastCheck /\ [Next]_vars => CacheHoldsLastCheck'
  BY CacheStep
<1> QED
  BY <1>1, <1>2, TypeCorrect, PTL DEF Spec

-----------------------------------------------------------------------------
(* The phases, verdicts and replies of a request agree in every behaviour. *)
LEMMA PhasesCorrect == Spec => []PhasesAgree
<1>1. Init => PhasesAgree
  BY DEF Init, PhasesAgree, Row
<1>2. TypeOK /\ PhasesAgree /\ [Next]_vars => PhasesAgree'
  <2> SUFFICES ASSUME TypeOK, PhasesAgree, [Next]_vars
               PROVE  PhasesAgree'
    OBVIOUS
  <2> USE HealthzAssumption
  <2>1. CASE Tick
    BY <2>1 DEF Tick, PhasesAgree
  <2>2. ASSUME NEW r \in Requests, RunAll(r)
        PROVE  PhasesAgree'
    <3> DEFINE hit(a) == IsLive(entries[NameOf[a]])
    <3>1. \A a \in Attestors : hit(a) => entries[NameOf[a]].outcome \in Outcomes
      BY DEF TypeOK, IsLive, CachedEntry
    <3>2. \A a \in Attestors : hit(a) => entries[NameOf[a]].outcome # Unset
      BY <3>1 DEF Results, Settlements
    <3>3. /\ phase' = [phase EXCEPT ![r] = phase'[r]]
          /\ verdict' = [verdict EXCEPT ![r] = verdict'[r]]
      BY <2>2 DEF RunAll, TypeOK
    <3>4. ASSUME NEW a \in Attestors
          PROVE  /\ phase'[r][a] # "idle"
                 /\ phase'[r][a] = "done" <=> hit(a)
                 /\ verdict'[r][a] = IF hit(a) THEN entries[NameOf[a]].outcome ELSE Unset
      BY <2>2 DEF RunAll, TypeOK
    <3> HIDE DEF hit
    <3> QED
      BY <2>2, <3>2, <3>3, <3>4 DEF RunAll, TypeOK, PhasesAgree
  <2>3. ASSUME NEW r \in Requests, Respond(r)
        PROVE  PhasesAgree'
    BY <2>3 DEF Respond, TypeOK, PhasesAgree
  <2>4. ASSUME NEW r \in Requests, NEW a \in Attestors, NEW s \in Settlements,
               CheckSettles(r, a, s)
        PROVE  PhasesAgree'
    BY <2>4 DEF CheckSettles, TypeOK, PhasesAgree
  <2>5. ASSUME NEW r \in Requests, NEW a \in Attestors, TimerFires(r, a)
        PROVE  PhasesAgree'
    BY <2>5 DEF TimerFires, TypeOK, PhasesAgree
  <2>6. ASSUME NEW r \in Requests, NEW a \in Attestors, Resume(r, a)
        PROVE  PhasesAgree'
    <3>1. OutcomeOf(result[r][a]) # Unset
      BY OutcomeType DEF Results, Settlements
    <3> QED
      BY <2>6, <3>1 DEF Resume, TypeOK, PhasesAgree
  <2>7. CASE UNCHANGED vars
    BY <2>7 DEF vars, PhasesAgree
  <2> QED
    BY <2>1, <2>2, <2>3, <2>4, <2>5, <2>6, <2>7 DEF Next
<1> QED
  BY <1>1, <1>2, TypeCorrect, PTL DEF Spec

(* What a request finds for an attestor when it arrives: its verdict if    *)
(* the last completed check is young, nothing otherwise.                   *)
LEMMA RunAllVerdicts ==
    ASSUME TypeOK, CacheHoldsLastCheck, NEW r \in Requests, RunAll(r),
           NEW a \in Attestors
    PROVE  /\ phase'[r][a] = "done" <=> Young(a)
           /\ phase'[r][a] # "idle"
           /\ verdict'[r][a] = IF Young(a) THEN last[a].outcome ELSE Unset
<1> DEFINE hit(b) == IsLive(entries[NameOf[b]])
<1>1. /\ phase'[r][a] = "done" <=> hit(a)
      /\ phase'[r][a] # "idle"
      /\ verdict'[r][a] = IF hit(a) THEN entries[NameOf[a]].outcome ELSE Unset
  BY DEF RunAll, TypeOK
<1>2. hit(a) <=> Young(a)
  BY LookupIsYoung
<1>3. hit(a) => entries[NameOf[a]].outcome = last[a].outcome
  BY DEF CacheHoldsLastCheck, IsLive
<1> QED
  BY <1>1, <1>2, <1>3

(* With unique names, requests reuse outcomes exactly while they are young.*)
THEOREM ReuseCorrect ==
    ASSUME UniqueNames
    PROVE  Spec => ReuseExactlyWhileYoung
<1>1. ASSUME TypeOK, CacheHoldsLastCheck, [Next]_vars,
             NEW r \in Requests, NEW a \in Attestors,
             phase[r][a] = "idle", phase'[r][a] # "idle"
      PROVE  phase'[r][a] = "done" <=> Young(a)
  <2>1. ASSUME NEW q \in Requests, RunAll(q)
        PROVE  phase'[r][a] = "done" <=> Young(a)
    <3>1. q = r
      BY <1>1, <2>1 DEF RunAll, TypeOK
    <3> QED
      BY <1>1, <2>1, <3>1, RunAllVerdicts
  <2>2. ASSUME NEW q \in Requests, NEW b \in Attestors, NEW s \in Settlements,
               CheckSettles(q, b, s)
        PROVE  FALSE
    BY <1>1, <2>2 DEF CheckSettles, TypeOK
  <2>3. ASSUME NEW q \in Requests, NEW b \in Attestors, TimerFires(q, b)
        PROVE  FALSE
    BY <1>1, <2>3 DEF TimerFires, TypeOK
  <2>4. ASSUME NEW q \in Requests, NEW b \in Attestors, Resume(q, b)
        PROVE  FALSE
    BY <1>1, <2>4 DEF Resume, TypeOK
  <2> QED
    BY <1>1, <2>1, <2>2, <2>3, <2>4 DEF Next, Tick, Respond, vars
<1>2. TypeOK /\ CacheHoldsLastCheck /\ [Next]_vars =>
        [\A r \in Requests, a \in Attestors :
            phase[r][a] = "idle" /\ phase'[r][a] # "idle"
                => (phase'[r][a] = "done" <=> Young(a))]_vars
  BY <1>1
<1> QED
  BY <1>2, TypeCorrect, CacheCorrect, PTL DEF Spec, ReuseExactlyWhileYoung

(* With unique names, a reported outcome is the attestor's own last one.   *)
THEOREM OwnVerdictCorrect ==
    ASSUME UniqueNames
    PROVE  Spec => OwnVerdict
<1>1. ASSUME TypeOK, CacheHoldsLastCheck, [Next]_vars,
             NEW r \in Requests, NEW a \in Attestors,
             verdict[r][a] = Unset, verdict'[r][a] # Unset
      PROVE  last'[a] # Unset /\ verdict'[r][a] = last'[a].outcome
  <2>1. ASSUME NEW q \in Requests, RunAll(q)
        PROVE  last'[a] # Unset /\ verdict'[r][a] = last'[a].outcome
    <3>1. q = r
      BY <1>1, <2>1 DEF RunAll, TypeOK
    <3>2. Young(a) /\ verdict'[r][a] = last[a].outcome
      BY <1>1, <2>1, <3>1, RunAllVerdicts
    <3> QED
      BY <2>1, <3>2 DEF RunAll, Young
  <2>2. ASSUME NEW q \in Requests, NEW b \in Attestors, Resume(q, b)
        PROVE  last'[a] # Unset /\ verdict'[r][a] = last'[a].outcome
    <3> DEFINE o == OutcomeOf(result[q][b])
    <3>1. o \in Outcomes /\ now \in Int
      BY <1>1, OutcomeType DEF TypeOK
    <3>2. [outcome |-> o, at |-> now] \in Completion
      BY <3>1 DEF Completion
    <3>3. q = r /\ b = a
      BY <1>1, <2>2 DEF Resume, TypeOK
    <3>4. verdict'[r][a] = o /\ last'[a] = [outcome |-> o, at |-> now]
      BY <1>1, <2>2, <3>3 DEF Resume, TypeOK
    <3> QED
      BY <3>2, <3>4, HealthzAssumption
  <2> QED
    BY <1>1, <2>1, <2>2 DEF Next, Tick, Respond, CheckSettles, TimerFires, vars
<1>2. TypeOK /\ CacheHoldsLastCheck /\ [Next]_vars =>
        [\A r \in Requests, a \in Attestors :
            verdict[r][a] = Unset /\ verdict'[r][a] # Unset
                => last'[a] # Unset /\ verdict'[r][a] = last'[a].outcome]_vars
  BY <1>1
<1> QED
  BY <1>2, TypeCorrect, CacheCorrect, PTL DEF Spec, OwnVerdict

-----------------------------------------------------------------------------
(* The model's derived status is the contract's.                           *)
LEMMA StatusAgrees == \A row : DeriveStatus(row) = Contract!StatusOf(row)
<1> SUFFICES ASSUME NEW row
             PROVE  DeriveStatus(row) = Contract!StatusOf(row)
  OBVIOUS
<1> DEFINE failed == {a \in Attestors : row[a] = "down"}
<1>1. \A a \in failed : [b \in Attestors |-> Critical(b)][a] = Critical(a)
  OBVIOUS
<1>2. \A a \in Attestors : Critical(a) \in BOOLEAN
  BY HealthzAssumption DEF Critical
<1>3. CASE failed = {}
  BY <1>3 DEF DeriveStatus, Contract!StatusOf
<1>4. CASE failed # {} /\ \E a \in failed : Critical(a)
  BY <1>1, <1>4 DEF DeriveStatus, Contract!StatusOf
<1>5. CASE failed # {} /\ \A a \in failed : ~Critical(a)
  BY <1>1, <1>5 DEF DeriveStatus, Contract!StatusOf
<1> QED
  BY <1>3, <1>4, <1>5

(* "Young" means the same in the model and in the contract.                *)
LEMMA YoungAgrees ==
    ASSUME TypeOK, NEW a \in Attestors
    PROVE  Young(a) <=> Contract!Young(a)
<1>1. /\ MinIntervalMs[a] = Unset \/ MinIntervalMs[a] \in Int
      /\ last[a] = Unset \/ (last[a].at \in Int)
      /\ now \in Int
  BY HealthzAssumption DEF TypeOK, Completion
<1> QED
  BY <1>1 DEF Young, HasInterval, Contract!Young

(* With unique names the endpoints implement the abstract probe contract.  *)
THEOREM Implementation ==
    ASSUME UniqueNames
    PROVE  Spec => RefinesContract
<1>1. Init => Contract!Init
  BY DEF Init, Contract!Init, Asked, Row
<1>2. ASSUME TypeOK, CacheHoldsLastCheck, PhasesAgree, [Next]_vars
      PROVE  [Contract!Next]_(Contract!vars)
  <2> USE <1>2, HealthzAssumption
  <2>1. CASE Tick
    <3>1. Contract!Tick
      BY <2>1 DEF Tick, Contract!Tick, Asked
    <3> QED
      BY <3>1 DEF Contract!Next
  <2>2. ASSUME NEW r \in Requests, RunAll(r)
        PROVE  Contract!Ask(r)
    <3>1. r \in Requests \ Asked
      BY <2>2 DEF RunAll, Asked
    <3>2. Asked' = Asked \cup {r}
      BY <2>2 DEF RunAll, Asked, TypeOK
    <3>3. \A a \in Attestors : verdict'[r][a] =
            IF Contract!Young(a) THEN last[a].outcome ELSE Unset
      BY <2>2, RunAllVerdicts, YoungAgrees
    <3>4. verdict' = [verdict EXCEPT ![r] = verdict'[r]]
          /\ verdict'[r] = [a \in Attestors |-> verdict'[r][a]]
      BY <2>2 DEF RunAll, TypeOK
    <3>5. verdict'[r] = [a \in Attestors |->
            IF Contract!Young(a) THEN last[a].outcome ELSE Unset]
      BY <3>3, <3>4
    <3>6. verdict' = [verdict EXCEPT ![r] = [a \in Attestors |->
            IF Contract!Young(a) THEN last[a].outcome ELSE Unset]]
      BY <3>4, <3>5
    <3> QED
      BY <2>2, <3>1, <3>2, <3>6 DEF RunAll, Contract!Ask
  <2>3. ASSUME NEW r \in Requests, Respond(r)
        PROVE  Contract!Answer(r)
    <3>1. r \in Asked /\ Asked' = Asked
      BY <2>3 DEF Respond, Asked, TypeOK
    <3>2. reply[r] = Unset /\ \A a \in Attestors : verdict[r][a] # Unset
      BY <2>3 DEF Respond, PhasesAgree
    <3> QED
      BY <2>3, <3>1, <3>2, StatusAgrees DEF Respond, Contract!Answer
  <2>4. ASSUME NEW r \in Requests, NEW a \in Attestors, Resume(r, a)
        PROVE  Contract!Conclude(r, a, OutcomeOf(result[r][a]))
    <3>1. r \in Asked /\ Asked' = Asked /\ verdict[r][a] = Unset
      BY <2>4 DEF Resume, Asked, PhasesAgree
    <3> QED
      BY <2>4, <3>1 DEF Resume, Contract!Conclude
  <2>5. ASSUME \/ \E r \in Requests, a \in Attestors, s \in Settlements :
                     CheckSettles(r, a, s)
               \/ \E r \in Requests, a \in Attestors : TimerFires(r, a)
               \/ UNCHANGED vars
        PROVE  UNCHANGED Contract!vars
    BY <2>5 DEF CheckSettles, TimerFires, vars, Contract!vars, Asked
  <2>6. \A r \in Requests, a \in Attestors :
          Resume(r, a) => OutcomeOf(result[r][a]) \in Contract!Outcomes
    BY OutcomeType DEF Outcomes, Contract!Outcomes
  <2> QED
    BY <2>1, <2>2, <2>3, <2>4, <2>5, <2>6 DEF Next, Contract!Next
<1> QED
  BY <1>1, <1>2, TypeCorrect, CacheCorrect, PhasesCorrect, PTL
     DEF Spec, Contract!Spec, RefinesContract

=============================================================================
