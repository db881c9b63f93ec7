------------------------ MODULE ExceptionFilterProofs ------------------------
(***************************************************************************)
(* Proofs about module ExceptionFilter, for any exceptions, classes and    *)
(* display names: what a client is told of the errors, with which status   *)
(* and with which headers. What the model computes recursively, over the   *)
(* keys of a record and the list of errors, is reasoned about by induction *)
(* on a number of turns, said of a set of numbers (Ascend).                *)
(***************************************************************************)
EXTENDS ExceptionFilter, FiniteSetTheorems, NaturalsInduction, SequenceTheorems,
        WellFoundedInduction, TLAPS

AppExceptions ==
    [code : AllCodes, httpStatus : (100..599) \cup {Unset}, headers : Headers \cup {<<>>},
     entity : Entities \cup {Unset}, detail : Details]

Thrown(x) ==
    \/ x.kind \in {"app", "multi"} /\ x.errors \in Seq(AppExceptions)
    \/ x.kind = "http" /\ x.status \in HttpStatuses
    \/ x.kind = "other"

(* What was created when the display names were others is kept as it is.   *)
ThrownInv ==
    /\ displayNames \in [Entities -> Displays \cup {Unset}]
    /\ created \in Seq(AppExceptions)
    /\ exception # Unset => Thrown(exception)

(* The lookup of the graphql package is remembered, and remembered right.  *)
CacheInv ==
    /\ package \in BOOLEAN
    /\ cache = "unresolved" \/ cache = IF package THEN "loaded" ELSE "missing"
    /\ context \in {"http", "graphql"}

IInv ==
    /\ ThrownInv /\ CacheInv
    /\ reply # Unset => exception # Unset
    /\ RepliesComplete

(* What the client should be told of an exception.                         *)
Expected(x) ==
    CASE x.kind = "other" -> <<[code |-> Internal, status |-> 500, detail |-> Internal]>>
      [] x.kind = "http" -> <<[code |-> HttpCode, status |-> x.status, detail |-> Text]>>
      [] OTHER -> [i \in DOMAIN x.errors |->
            [code |-> x.errors[i].code, status |-> x.errors[i].httpStatus, detail |-> x.errors[i].detail]]

LEMMA ToldExpected ==
    ASSUME NEW x, Thrown(x)
    PROVE  /\ Told(Convert(x)) = Expected(x)
           /\ Len(Convert(x)) = Len(Expected(x)) /\ Len(Convert(x)) \in Nat
           /\ Convert(x) = <<>> <=> Expected(x) = <<>>
           /\ Expected(x) # <<>> =>
                 Convert(x)[1].code = Head(Expected(x)).code /\ Convert(x)[1].detail = Head(Expected(x)).detail
<1>1. CASE x.kind = "other"
  <2>1. Convert(x) = <<InternalServerError>>
    BY <1>1 DEF Convert
  <2>2. Expected(x) = <<[code |-> Internal, status |-> 500, detail |-> Internal]>>
    BY <1>1 DEF Expected
  <2> QED
    BY <2>1, <2>2 DEF Told, InternalServerError
<1>2. CASE x.kind = "http"
  <2>1. Convert(x) = <<[code |-> HttpCode, status |-> x.status, detail |-> Text, headers |-> <<>>]>>
    BY <1>2 DEF Convert
  <2>2. Expected(x) = <<[code |-> HttpCode, status |-> x.status, detail |-> Text]>>
    BY <1>2 DEF Expected
  <2> QED
    BY <2>1, <2>2 DEF Told
<1>3. CASE x.kind \in {"app", "multi"}
  <2>1. /\ x.errors \in Seq(AppExceptions) /\ Len(x.errors) \in Nat
        /\ DOMAIN x.errors = 1..Len(x.errors)
    BY <1>3, LenProperties DEF Thrown
  <2> DEFINE n == Len(x.errors)
  <2>2. Convert(x) = [i \in 1..n |-> ConvertAppException(x.errors[i])]
    BY <1>3, <2>1 DEF Convert
  <2>3. Expected(x) = [i \in 1..n |->
            [code |-> x.errors[i].code, status |-> x.errors[i].httpStatus, detail |-> x.errors[i].detail]]
    BY <1>3, <2>1 DEF Expected
  <2> HIDE DEF n
  <2>4. n \in Nat
    BY <2>1 DEF n
  <2>5. Told(Convert(x)) = Expected(x)
    BY <2>2, <2>3 DEF Told, ConvertAppException, Rendered
  <2>6. Len(Convert(x)) = n /\ Len(Expected(x)) = n
    BY <2>2, <2>3, <2>4
  <2>7. Convert(x) = <<>> <=> n = 0
    BY <2>2, <2>4
  <2>8. Expected(x) = <<>> <=> n = 0
    BY <2>3, <2>4
  <2>9. ASSUME n # 0
        PROVE  Convert(x)[1].code = Head(Expected(x)).code /\ Convert(x)[1].detail = Head(Expected(x)).detail
    <3>1. 1 \in 1..n
      BY <2>4, <2>9
    <3>2. Head(Expected(x)) = Expected(x)[1]
      BY <2>3, <2>4, <2>9
    <3> QED
      BY <2>2, <2>3, <3>1, <3>2 DEF ConvertAppException, Rendered
  <2> QED
    BY <2>4, <2>5, <2>6, <2>7, <2>8, <2>9
<1> QED
  BY <1>1, <1>2, <1>3 DEF Thrown

(* RepliesComplete, said of a reply to an exception.                       *)
First(x) == IF Expected(x) = <<>> THEN [code |-> Internal, detail |-> Internal] ELSE Head(Expected(x))
Complete(r, x) ==
    IF context = "http" THEN r.errors = Expected(x)
    ELSE r =
      IF ~package THEN [type |-> "Error", detail |-> First(x).detail]
      ELSE IF Len(Expected(x)) > 1
      THEN [type |-> "GraphQLErrors", code |-> First(x).code, errors |-> Expected(x)]
      ELSE [type |-> "GraphQLError", code |-> First(x).code, detail |-> First(x).detail]

LEMMA CompleteReplies == RepliesComplete <=> (reply # Unset => Complete(reply, exception))
BY DEF RepliesComplete, Complete, First, Expected

LEMMA InitIInv == Init => IInv
BY DEF Init, IInv, ThrownInv, CacheInv, RepliesComplete

(* The application configures, creates or throws: there is no reply yet,   *)
(* or it is not touched.                                                   *)
LEMMA ApplicationStep ==
    ASSUME IInv, ThrownInv', UNCHANGED <<package, cache, context, reply>>,
           exception' = exception \/ exception = Unset
    PROVE  IInv'
<1>1. CacheInv'
  BY DEF IInv, CacheInv
<1>2. CASE reply = Unset
  BY <1>1, <1>2 DEF IInv, RepliesComplete
<1>3. CASE reply # Unset
  <2>1. exception' = exception
    BY <1>3 DEF IInv
  <2>2. Complete(reply, exception)
    BY <1>3, CompleteReplies DEF IInv
  <2>3. Complete(reply, exception)'
    <3>1. Expected(exception)' = Expected(exception)
      BY <2>1 DEF Expected
    <3>2. First(exception)' = First(exception)
      BY <3>1 DEF First
    <3> QED
      BY <2>2, <3>1, <3>2 DEF Complete
  <2>4. RepliesComplete'
    BY <2>3, CompleteReplies, PTL
  <2> QED
    BY <1>1, <2>1, <2>4 DEF IInv
<1> QED
  BY <1>2, <1>3

LEMMA CreateStep ==
    ASSUME IInv, NEW class, NEW entity, NEW detail, NEW headers,
           AppException(class, entity, detail, headers) \in AppExceptions,
           Create(class, entity, detail, headers)
    PROVE  IInv'
<1>1. created' \in Seq(AppExceptions)
  BY DEF Create, IInv, ThrownInv
<1> QED
  BY <1>1, ApplicationStep DEF Create, IInv, ThrownInv

LEMMA ThrowStep ==
    ASSUME IInv, Fails, Thrown(exception')
    PROVE  IInv'
<1>1. ThrownInv'
  BY DEF Fails, IInv, ThrownInv
<1> QED
  BY <1>1, ApplicationStep DEF Fails

LEMMA EntityExceptions ==
    ASSUME IInv, NEW e \in Entities,
           NEW class \in {EntityNotFoundException, EntityMutationFailedException}
    PROVE  AppException(class, e, DisplayName(e), <<>>) \in AppExceptions
<1>1. DisplayName(e) \in Details
  BY DEF IInv, ThrownInv, DisplayName, Details
<1>2. class.code \in AllCodes /\ class.status \in 100..599
  BY DEF EntityNotFoundException, EntityMutationFailedException, AllCodes
<1> QED
  BY <1>1, <1>2 DEF AppException, AppExceptions

LEMMA PlainExceptions ==
    ASSUME NEW class \in Classes, NEW headers \in Headers
    PROVE  AppException(class, Unset, Text, headers) \in AppExceptions
<1>1. class.code \in AllCodes /\ class.status \in (100..599) \cup {Unset}
  BY ExceptionFilterAssumption DEF AllCodes
<1>2. Text \in Details
  BY DEF Details
<1> QED
  BY <1>1, <1>2 DEF AppException, AppExceptions

LEMMA CatchStep ==
    ASSUME IInv, CatchHttp \/ CatchGraphQL
    PROVE  IInv'
<1>1. /\ exception # Unset /\ Thrown(exception)
      /\ UNCHANGED <<package, displayNames, context, created, exception>>
  BY DEF CatchHttp, CatchGraphQL, IInv, ThrownInv
<1>2. ThrownInv'
  BY <1>1 DEF IInv, ThrownInv
<1>3. CacheInv'
  BY <1>1 DEF CatchHttp, CatchGraphQL, Resolved, IInv, CacheInv
<1>4. ASSUME CatchHttp
      PROVE  Complete(reply, exception)'
  <2>1. context' = "http" /\ reply'.errors = Told(Convert(exception))
    BY <1>1, <1>4 DEF CatchHttp
  <2>2. Expected(exception)' = Expected(exception)
    BY <1>1 DEF Expected
  <2>3. reply'.errors = Expected(exception)'
    BY <1>1, <2>1, <2>2, ToldExpected
  <2> QED
    BY <2>1, <2>3 DEF Complete
<1>5. ASSUME CatchGraphQL
      PROVE  Complete(reply, exception)'
  <2>1. context = "graphql" /\ (Resolved = "missing" <=> ~package)
    BY <1>5 DEF CatchGraphQL, Resolved, IInv, CacheInv
  <2> DEFINE errors == Convert(exception)
             primary == IF errors = <<>> THEN InternalServerError ELSE errors[1]
  <2>2. reply' = IF ~package THEN [type |-> "Error", detail |-> primary.detail]
                 ELSE IF Len(errors) > 1
                 THEN [type |-> "GraphQLErrors", code |-> primary.code, errors |-> Told(errors)]
                 ELSE [type |-> "GraphQLError", code |-> primary.code, detail |-> primary.detail]
    BY <1>5, <2>1 DEF CatchGraphQL
  <2>3. /\ primary.code = First(exception).code /\ primary.detail = First(exception).detail
        /\ Told(errors) = Expected(exception) /\ Len(errors) = Len(Expected(exception))
    BY <1>1, ToldExpected DEF First, InternalServerError
  <2> HIDE DEF errors, primary
  <2>4. Expected(exception)' = Expected(exception) /\ First(exception)' = First(exception)
    BY <1>1 DEF Expected, First
  <2>5. package \in BOOLEAN /\ context' # "http"
    BY <1>1, <2>1 DEF IInv, CacheInv
  <2>6. CASE ~package
    BY <1>1, <2>2, <2>3, <2>4, <2>5, <2>6 DEF Complete
  <2>7. CASE package /\ Len(Expected(exception)) > 1
    BY <1>1, <2>2, <2>3, <2>4, <2>5, <2>7 DEF Complete
  <2>8. CASE package /\ ~(Len(Expected(exception)) > 1)
    BY <1>1, <2>2, <2>3, <2>4, <2>5, <2>8 DEF Complete
  <2> QED
    BY <2>5, <2>6, <2>7, <2>8
<1>6. Complete(reply, exception)'
  BY <1>4, <1>5
<1>7. RepliesComplete'
  BY <1>6, CompleteReplies, PTL
<1> QED
  BY <1>1, <1>2, <1>3, <1>7 DEF IInv

LEMMA NextIInv == IInv /\ [Next]_vars => IInv'
<1> SUFFICES ASSUME IInv, [Next]_vars
             PROVE  IInv'
  OBVIOUS
<1>1. ASSUME NEW table \in [Entities -> Displays \cup {Unset}], Configure(table)
      PROVE  IInv'
  <2>1. ThrownInv'
    BY <1>1 DEF Configure, IInv, ThrownInv
  <2> QED
    BY <1>1, <2>1, ApplicationStep DEF Configure
<1>2. ASSUME NEW class \in Classes, NEW headers \in Headers,
             Create(class, Unset, Text, headers)
      PROVE  IInv'
  BY <1>2, CreateStep, PlainExceptions
<1>3. ASSUME NEW class \in {EntityNotFoundException, EntityMutationFailedException},
             NEW e \in Entities, CreateAboutEntity(class, e)
      PROVE  IInv'
  BY <1>3, CreateStep, EntityExceptions DEF CreateAboutEntity
<1>4. CASE ThrowAppException
  <2>1. PICK i \in DOMAIN created : exception' = [kind |-> "app", errors |-> <<created[i]>>]
    BY <1>4 DEF ThrowAppException
  <2>2. created[i] \in AppExceptions
    BY DEF IInv, ThrownInv
  <2>3. Thrown(exception')
    BY <2>1, <2>2 DEF Thrown
  <2> QED
    BY <1>4, <2>3, ThrowStep DEF ThrowAppException
<1>5. CASE ThrowMultiAppException
  <2>1. Thrown(exception')
    BY <1>5 DEF ThrowMultiAppException, Thrown, IInv, ThrownInv
  <2> QED
    BY <1>5, <2>1, ThrowStep DEF ThrowMultiAppException
<1>6. CASE ThrowOther \/ \E status \in HttpStatuses : ThrowHttpException(status)
  <2>1. Thrown(exception')
    BY <1>6 DEF ThrowOther, ThrowHttpException, Thrown
  <2> QED
    BY <1>6, <2>1, ThrowStep DEF ThrowOther, ThrowHttpException
<1>7. CASE Done
  BY <1>7 DEF Done, IInv, ThrownInv, CacheInv, RepliesComplete
<1>8. CASE UNCHANGED vars
  <2>1. ThrownInv'
    BY <1>8 DEF vars, IInv, ThrownInv
  <2> QED
    BY <1>8, <2>1, ApplicationStep DEF vars
<1> QED
  BY <1>1, <1>2, <1>3, <1>4, <1>5, <1>6, <1>7, <1>8, CatchStep DEF Next

(* The HTTP client of a failed request, and the GraphQL client if the      *)
(* graphql package is there, is told of every error, in order, as it was   *)
(* when it was created, and of nothing else; a GraphQL client without the  *)
(* package is told the detail of the first and no more.                    *)
THEOREM RepliesCorrect == Spec => []RepliesComplete
<1>1. IInv => RepliesComplete
  BY DEF IInv
<1> QED
  BY <1>1, InitIInv, NextIInv, PTL DEF Spec

-----------------------------------------------------------------------------
(* The status of a response *)

IsResponse(r, x) ==
    /\ r.status = StatusCode(Convert(x))
    /\ r.headers = SetHeaders(AggregatedHeaders(Convert(x)))

ResponseInv == Answered => IsResponse(reply, exception)

LEMMA NextResponseInv == IInv /\ ResponseInv /\ [Next]_vars => ResponseInv'
<1> SUFFICES ASSUME IInv, ResponseInv, [Next]_vars, Answered'
             PROVE  IsResponse(reply', exception')
  BY DEF ResponseInv, IsResponse
<1>1. reply' # Unset /\ context' = "http"
  BY DEF Answered
<1>2. CASE CatchHttp
  BY <1>2 DEF CatchHttp, IsResponse
<1>3. CASE CatchGraphQL
  BY <1>1, <1>3 DEF CatchGraphQL
<1>4. CASE Done
  BY <1>1, <1>4 DEF Done
<1>5. ASSUME UNCHANGED <<context, reply>>, exception' = exception \/ exception = Unset
      PROVE  IsResponse(reply', exception')
  <2>1. Answered /\ exception' = exception
    BY <1>1, <1>5 DEF Answered, IInv
  <2> QED
    BY <1>5, <2>1 DEF ResponseInv
<1>6. CASE \/ \E table \in [Entities -> Displays \cup {Unset}] : Configure(table)
           \/ \E class \in Classes, headers \in Headers : Create(class, Unset, Text, headers)
           \/ \E e \in Entities :
                 \/ CreateAboutEntity(EntityNotFoundException, e)
                 \/ CreateAboutEntity(EntityMutationFailedException, e)
           \/ ThrowAppException \/ ThrowMultiAppException \/ ThrowOther
           \/ \E status \in HttpStatuses : ThrowHttpException(status)
           \/ UNCHANGED vars
  BY <1>5, <1>6 DEF Configure, Create, CreateAboutEntity, ThrowAppException,
     ThrowMultiAppException, ThrowHttpException, ThrowOther, Fails, vars
<1> QED
  BY <1>2, <1>3, <1>4, <1>6 DEF Next

(* The errors keep the statuses of the exceptions, place by place.         *)
LEMMA SameClasses ==
    ASSUME exception # Unset, Thrown(exception), exception.kind \in {"app", "multi"}
    PROVE  /\ Len(Convert(exception)) = Len(exception.errors) /\ Len(exception.errors) \in Nat
           /\ \A i \in DOMAIN exception.errors :
                 Convert(exception)[i].status = exception.errors[i].httpStatus
           /\ \A n \in {4, 5} : OfClass(Convert(exception), n) =
                 {i \in DOMAIN AppStatuses : AppStatuses[i] # Unset /\ AppStatuses[i] \div 100 = n}
           /\ \A n \in {4, 5} : Count(AppStatuses, n) \in Nat
<1>1. exception.errors \in Seq(AppExceptions)
  BY DEF Thrown
<1>2. Convert(exception) = [i \in DOMAIN exception.errors |-> ConvertAppException(exception.errors[i])]
  BY DEF Convert
<1> DEFINE s == exception.errors
<1>3. Len(s) \in Nat /\ DOMAIN s = 1..Len(s)
  BY <1>1
<1>4. Len(Convert(exception)) = Len(s) /\ DOMAIN Convert(exception) = 1..Len(s)
  BY <1>2, <1>3
<1>5. \A i \in DOMAIN s : Convert(exception)[i].status = s[i].httpStatus
  BY <1>2 DEF ConvertAppException
<1>6. DOMAIN AppStatuses = 1..Len(s) /\ \A i \in DOMAIN s : AppStatuses[i] = s[i].httpStatus
  BY <1>3 DEF AppStatuses
<1> HIDE DEF s
<1>7. \A n \in {4, 5} : OfClass(Convert(exception), n) =
          {i \in DOMAIN AppStatuses : AppStatuses[i] # Unset /\ AppStatuses[i] \div 100 = n}
  BY <1>3, <1>4, <1>5, <1>6 DEF OfClass
<1>8. ASSUME NEW n \in {4, 5}  PROVE Count(AppStatuses, n) \in Nat
  <2> DEFINE C == {i \in DOMAIN AppStatuses : AppStatuses[i] # Unset /\ AppStatuses[i] \div 100 = n}
  <2>1. IsFiniteSet(1..Len(s))
    <3>1. 1 \in Int /\ Len(s) \in Int
      BY <1>3
    <3> QED
      BY <3>1, FS_Interval
  <2>2. C \in SUBSET (1..Len(s))
    BY <1>6
  <2> HIDE DEF C
  <2>3. Cardinality(C) \in Nat
    BY <2>1, <2>2, FS_Subset, FS_CardinalityType
  <2> QED
    BY <2>3 DEF Count, C
<1> QED
  BY <1>3, <1>4, <1>5, <1>7, <1>8 DEF s

(* One error is answered with its own status, several with the status of   *)
(* those to blame, for any number of them.                                 *)
THEOREM StatusCorrect == Spec => []StatusReflectsErrors
<1>1. Init => ResponseInv
  BY DEF Init, ResponseInv, Answered
<1>2. IInv /\ ResponseInv => StatusReflectsErrors
  <2> SUFFICES ASSUME IInv, ResponseInv, Answered
               PROVE  StatusReflectsErrors
    BY DEF StatusReflectsErrors
  <2>1. exception # Unset /\ Thrown(exception) /\ reply.status = StatusCode(Convert(exception))
    BY DEF Answered, IInv, ThrownInv, ResponseInv, IsResponse
  <2>2. CASE exception.kind \in {"http", "other"}
    <3>1. Len(Convert(exception)) = 1 /\ Convert(exception)[1].status =
             IF exception.kind = "other" THEN 500 ELSE exception.status
      BY <2>2 DEF Convert, InternalServerError
    <3>2. StatusCode(Convert(exception)) = OwnStatus(Convert(exception)[1])
      BY <3>1 DEF StatusCode
    <3>3. 500 # Unset
      BY ExceptionFilterAssumption
    <3>4. ASSUME exception.kind = "http"
          PROVE  exception.status # Unset
      <4>1. exception.status \in HttpStatuses
        BY <2>1, <3>4 DEF Thrown
      <4>2. HttpStatuses \subseteq 100..599 /\ Unset \notin 100..599
        BY ExceptionFilterAssumption
      <4> QED
        BY <4>1, <4>2, Zenon
    <3>5. CASE exception.kind = "other"
      <4>1. reply.status = 500
        BY <2>1, <3>1, <3>2, <3>3, <3>5 DEF OwnStatus
      <4> QED
        BY <3>5, <4>1, Zenon DEF StatusReflectsErrors
    <3>6. CASE exception.kind = "http"
      <4>1. reply.status = exception.status
        BY <2>1, <3>1, <3>2, <3>4, <3>6 DEF OwnStatus
      <4>2. exception.kind # "other"
        BY <3>6
      <4> QED
        BY <3>6, <4>1, <4>2, Zenon DEF StatusReflectsErrors
    <3> QED
      BY <2>2, <3>5, <3>6
  <2>3. CASE exception.kind \in {"app", "multi"}
    <3>1. /\ Len(Convert(exception)) = Len(exception.errors) /\ Len(exception.errors) \in Nat
          /\ \A i \in DOMAIN exception.errors :
                Convert(exception)[i].status = exception.errors[i].httpStatus
          /\ ClientErrorsPrevail(Convert(exception)) <=> Count(AppStatuses, 4) > Count(AppStatuses, 5)
          /\ Count(AppStatuses, 4) \in Nat /\ Count(AppStatuses, 5) \in Nat
      BY <2>1, <2>3, SameClasses DEF ClientErrorsPrevail, Count
    <3>2. CASE Len(exception.errors) = 1
      <4>1. 1 \in DOMAIN exception.errors
        BY <2>1, <2>3, <3>2 DEF Thrown
      <4>2. AppStatuses[1] = Convert(exception)[1].status
        BY <3>1, <4>1 DEF AppStatuses
      <4>3. reply.status = IF AppStatuses[1] = Unset THEN 500 ELSE AppStatuses[1]
        BY <2>1, <3>1, <3>2, <4>2 DEF StatusCode, OwnStatus
      <4> QED
        BY <2>3, <3>2, <4>3 DEF StatusReflectsErrors
    <3>3. CASE Len(exception.errors) # 1
      <4> DEFINE surplus == Count(AppStatuses, 4) - Count(AppStatuses, 5)
      <4>1. reply.status = IF ClientErrorsPrevail(Convert(exception)) THEN 400 ELSE 500
        BY <2>1, <3>1, <3>3 DEF StatusCode
      <4>2. reply.status = IF surplus > 0 THEN 400 ELSE 500
        BY <3>1, <4>1
      <4> HIDE DEF surplus
      <4>3. exception.kind # "other" /\ exception.kind # "http"
        BY <2>3
      <4> QED
        BY <3>3, <4>2, <4>3, Zenon DEF StatusReflectsErrors, surplus
    <3> QED
      BY <3>2, <3>3
  <2> QED
    BY <2>1, <2>2, <2>3 DEF Thrown
<1> QED
  BY <1>1, <1>2, InitIInv, NextIInv, NextResponseInv, PTL DEF Spec

-----------------------------------------------------------------------------
(* Recursion over a list *)

(* Induction, said of a set: what holds of 0 and of each number's successor *)
(* up to n holds of all of them.                                           *)
LEMMA Ascend ==
    ASSUME NEW n \in Nat, NEW S, 0 \in S, \A i \in 1..n : i - 1 \in S => i \in S
    PROVE  0..n \subseteq S
<1> DEFINE T == (0..n) \ S
<1> SUFFICES ASSUME T # {}
             PROVE  FALSE
  OBVIOUS
<1>1. PICK i \in T : \A j \in T : ~(j < i)
  <2> DEFINE R == OpToRel(<, Nat)
  <2>1. T \subseteq Nat
    OBVIOUS
  <2>2. IsWellFoundedOn(R, Nat)
    BY NatLessThanWellFounded
  <2> HIDE DEF R, T
  <2>3. \E x \in T : \A y \in T : <<y, x>> \notin R
    BY <2>1, <2>2, WFMin
  <2> QED
    BY <2>1, <2>3 DEF R, OpToRel
<1>2. i - 1 \notin T
  BY <1>1
<1> QED
  BY <1>2

(* A recursion over 1..n defines a function.                               *)
Recurs(acc, m, base, step) == acc[0] = base /\ \A i \in 1..m : acc[i] = step[i][acc[i - 1]]

LEMMA Recursion ==
    ASSUME NEW n \in Nat, NEW A, NEW base \in A, NEW step \in [1..n -> [A -> A]]
    PROVE  \E acc \in [0..n -> A] : Recurs(acc, n, base, step)
<1> DEFINE S == {m \in 0..n : \E acc \in [0..m -> A] : Recurs(acc, m, base, step)}
<1>1. 0 \in S
  <2>1. [i \in 0..0 |-> base] \in [0..0 -> A] /\ Recurs([i \in 0..0 |-> base], 0, base, step)
    BY DEF Recurs
  <2> QED
    BY <2>1
<1>2. ASSUME NEW m \in 1..n, m - 1 \in S
      PROVE  m \in S
  <2>1. PICK acc \in [0..(m - 1) -> A] : Recurs(acc, m - 1, base, step)
    BY <1>2
  <2> DEFINE next == [i \in 0..m |-> IF i = m THEN step[m][acc[m - 1]] ELSE acc[i]]
  <2>2. step[m][acc[m - 1]] \in A
    OBVIOUS
  <2>3. next \in [0..m -> A]
    BY <2>2
  <2>4. Recurs(next, m, base, step)
    BY <2>1 DEF Recurs
  <2> HIDE DEF next
  <2> QED
    BY <2>3, <2>4
<1>3. 0..n \subseteq S
  <2> HIDE DEF S
  <2> QED
    BY <1>1, <1>2, Ascend
<1> QED
  BY <1>3

(* Every set of indices that is not empty has a greatest one.              *)
LEMMA Greatest ==
    ASSUME NEW n \in Nat, NEW S \in SUBSET (1..n), S # {}
    PROVE  Max(S) \in S /\ \A i \in S : i <= Max(S)
<1>1. \E x \in S : \A i \in S : x >= i
  <2> SUFFICES ASSUME \A x \in S : \E i \in S : ~(x >= i)
               PROVE  FALSE
    OBVIOUS
  <2> DEFINE U == {m \in 0..n : \A i \in S : i <= n - m}
  <2>1. 0 \in U
    OBVIOUS
  <2>2. ASSUME NEW m \in 1..n, m - 1 \in U
        PROVE  m \in U
    <3>1. \A i \in S : i <= n - m + 1
      BY <2>2
    <3>2. n - m + 1 \notin S
      BY <3>1
    <3> QED
      BY <3>1, <3>2
  <2>3. n \in U
    <3> HIDE DEF U
    <3>1. 0..n \subseteq U
      BY <2>1, <2>2, Ascend
    <3> QED
      BY <3>1
  <2>4. PICK i \in S : TRUE
    OBVIOUS
  <2>5. i \in 1..n /\ i <= n - n
    BY <2>3, <2>4
  <2> QED
    BY <2>5
<1> QED
  BY <1>1 DEF Max

-----------------------------------------------------------------------------
(* The headers of a response *)

Entry == [key : Keys, value : Nat]
Value(key, v) == [key |-> key, value |-> v]

(* The entries `new` are the entries `old` with those of the keys replaced.*)
Replaced(old, keys, v, new) ==
    \A x : x \in new <=> (x \in old /\ x.key \notin keys) \/ \E key \in keys : x = Value(key, v)

(* A put replaces the entries of its key, in place, or is a new entry.     *)
LEMMA PutEntries ==
    ASSUME NEW record \in Seq(Entry), NEW key \in Keys, NEW v \in Nat
    PROVE  /\ Put(record, key, v) \in Seq(Entry)
           /\ Replaced(ToSet(record), {key}, v, ToSet(Put(record, key, v)))
<1> DEFINE new == Value(key, v)
<1>1. new \in Entry /\ new.key = key
  BY DEF Entry, Value
<1>2. DOMAIN record = 1..Len(record) /\ Len(record) \in Nat /\ \A i \in DOMAIN record : record[i] \in Entry
  OBVIOUS
<1>3. CASE \E i \in DOMAIN record : record[i].key = key
  <2> DEFINE changed == [i \in DOMAIN record |-> IF record[i].key = key THEN new ELSE record[i]]
  <2>1. Put(record, key, v) = changed
    BY <1>3 DEF Put, Value
  <2> HIDE DEF new
  <2>2. changed \in Seq(Entry) /\ DOMAIN changed = DOMAIN record
    BY <1>1, <1>2
  <2>3. ASSUME NEW x
        PROVE  x \in ToSet(changed) <=> (x \in ToSet(record) /\ x.key # key) \/ x = new
    <3>1. x \in ToSet(changed) <=> \E i \in DOMAIN record : x = changed[i]
      BY DEF ToSet
    <3>2. x \in ToSet(record) <=> \E i \in DOMAIN record : x = record[i]
      BY DEF ToSet
    <3> QED
      BY <1>1, <1>3, <3>1, <3>2
  <2> QED
    BY <2>1, <2>2, <2>3 DEF new, Replaced
<1>4. CASE ~\E i \in DOMAIN record : record[i].key = key
  <2>1. Put(record, key, v) = Append(record, new)
    BY <1>4 DEF Put, Value
  <2> HIDE DEF new
  <2>2. /\ Append(record, new) \in Seq(Entry)
        /\ DOMAIN Append(record, new) = 1..(Len(record) + 1)
        /\ \A i \in DOMAIN record : Append(record, new)[i] = record[i]
        /\ Append(record, new)[Len(record) + 1] = new
    BY <1>1, <1>2
  <2>3. ASSUME NEW x
        PROVE  x \in ToSet(Append(record, new)) <=> (x \in ToSet(record) /\ x.key # key) \/ x = new
    <3>1. x \in ToSet(Append(record, new)) <=> \E i \in 1..(Len(record) + 1) : x = Append(record, new)[i]
      BY <2>2 DEF ToSet
    <3>2. x \in ToSet(record) <=> \E i \in DOMAIN record : x = record[i]
      BY DEF ToSet
    <3>3. x \in ToSet(Append(record, new)) <=> x \in ToSet(record) \/ x = new
      BY <1>2, <2>2, <3>1, <3>2
    <3> QED
      BY <1>4, <3>2, <3>3
  <2> QED
    BY <2>1, <2>2, <2>3 DEF new, Replaced
<1> QED
  BY <1>3, <1>4

(* The keys of a record, and an order its entries are in.                  *)
KeysOf(record) == {record[i].key : i \in DOMAIN record}
Ordered(record, R) ==
    \A a, b \in DOMAIN record : a < b => <<record[a].key, record[b].key>> \in R

LEMMA KeysReplaced ==
    ASSUME NEW old, NEW new, NEW keys, NEW v, Replaced(ToSet(old), keys, v, ToSet(new))
    PROVE  KeysOf(new) = KeysOf(old) \cup keys
<1>1. \A r : \A k : k \in KeysOf(r) <=> \E x \in ToSet(r) : x.key = k
  BY DEF KeysOf, ToSet
<1>2. \A k : Value(k, v).key = k
  BY DEF Value
<1>3. \A x : x \in ToSet(new) <=>
          (x \in ToSet(old) /\ x.key \notin keys) \/ \E key \in keys : x = Value(key, v)
  BY DEF Replaced
<1>4. ASSUME NEW k
      PROVE  k \in KeysOf(new) <=> k \in KeysOf(old) \cup keys
  <2>1. (\E x \in ToSet(new) : x.key = k) <=> (\E x \in ToSet(old) : x.key = k) \/ k \in keys
    BY <1>2, <1>3
  <2> QED
    BY <1>1, <2>1
<1> QED
  BY <1>4

(* A put keeps the order if a key that is new comes after those there.     *)
LEMMA PutOrder ==
    ASSUME NEW record \in Seq(Entry), NEW key \in Keys, NEW v \in Nat,
           NEW R, Ordered(record, R),
           key \notin KeysOf(record) => \A l \in KeysOf(record) : <<l, key>> \in R
    PROVE  Ordered(Put(record, key, v), R)
<1> DEFINE new == Value(key, v)
           put == Put(record, key, v)
<1>1. new.key = key
  BY DEF Value
<1>2. DOMAIN record = 1..Len(record) /\ Len(record) \in Nat
  OBVIOUS
<1>3. CASE \E i \in DOMAIN record : record[i].key = key
  <2>1. put = [i \in DOMAIN record |-> IF record[i].key = key THEN new ELSE record[i]]
    BY <1>3 DEF Put, Value
  <2> HIDE DEF new, put
  <2>2. DOMAIN put = DOMAIN record /\ \A i \in DOMAIN record : put[i].key = record[i].key
    BY <1>1, <2>1
  <2>3. Ordered(put, R)
    BY <2>2 DEF Ordered
  <2> QED
    BY <2>3 DEF put
<1>4. CASE ~\E i \in DOMAIN record : record[i].key = key
  <2> DEFINE n == Len(record)
  <2>1. put = Append(record, new)
    BY <1>4 DEF Put, Value
  <2>2. key \notin KeysOf(record)
    BY <1>4 DEF KeysOf
  <2> HIDE DEF new, put
  <2>3. /\ DOMAIN put = 1..(n + 1) /\ put[n + 1].key = key
        /\ \A i \in DOMAIN record : put[i].key = record[i].key
    BY <1>1, <1>2, <2>1
  <2> HIDE DEF n
  <2>4. n \in Nat /\ DOMAIN record = 1..n
    BY <1>2 DEF n
  <2>5. \A i : i \in DOMAIN put <=> i \in DOMAIN record \/ i = n + 1
    BY <2>3, <2>4
  <2>6. \A l \in KeysOf(record) : <<l, key>> \in R
    BY <2>2
  <2>7. ASSUME NEW a \in DOMAIN put, NEW b \in DOMAIN put, a < b
        PROVE  <<put[a].key, put[b].key>> \in R
    <3>1. a \in DOMAIN record
      BY <2>3, <2>4, <2>7
    <3>2. CASE b \in DOMAIN record
      BY <2>3, <2>7, <3>1, <3>2 DEF Ordered
    <3>3. CASE b = n + 1
      <4>1. record[a].key \in KeysOf(record)
        BY <3>1 DEF KeysOf
      <4> QED
        BY <2>3, <2>6, <3>1, <3>3, <4>1
    <3> QED
      BY <2>5, <3>2, <3>3
  <2>8. Ordered(put, R)
    BY <2>7 DEF Ordered
  <2> QED
    BY <2>8 DEF put
<1> QED
  BY <1>3, <1>4

(* Each key that is new comes after those that were there.                 *)
Listed(keys, k) == {keys[j] : j \in 1..k}
NewLast(old, keys, R) ==
    \A k \in 1..Len(keys) :
        LET there == old \cup Listed(keys, k - 1)
        IN  keys[k] \notin there => \A l \in there : <<l, keys[k]>> \in R

(* The headers of one error replace those of their keys.                   *)
LEMMA AssignedEntries ==
    ASSUME NEW record \in Seq(Entry), NEW keys \in Seq(Keys), NEW v \in Nat
    PROVE  /\ Assigned(record, keys, v) \in Seq(Entry)
           /\ Replaced(ToSet(record), ToSet(keys), v, ToSet(Assigned(record, keys, v)))
           /\ \A R : Ordered(record, R) /\ NewLast(KeysOf(record), keys, R) =>
                    Ordered(Assigned(record, keys, v), R)
<1> DEFINE n == Len(keys)
           Recursive(f) == [k \in 0..n |-> IF k = 0 THEN record ELSE Put(f[k - 1], keys[k], v)]
           assigned == CHOOSE f : f = Recursive(f)
           A == Seq(Entry)
           step == [k \in 1..n |-> [r \in A |-> Put(r, keys[k], v)]]
<1>1. n \in Nat /\ DOMAIN keys = 1..n /\ \A k \in 1..n : keys[k] \in Keys
  OBVIOUS
<1>2. \E f : f = Recursive(f)
  <2>1. step \in [1..n -> [A -> A]]
    <3>1. \A k \in 1..n, r \in A : Put(r, keys[k], v) \in A
      BY <1>1, PutEntries
    <3> QED
      BY <3>1
  <2>2. \A k \in 1..n, r \in A : step[k][r] = Put(r, keys[k], v)
    OBVIOUS
  <2>3. record \in A
    OBVIOUS
  <2> HIDE DEF n, A, step
  <2>4. PICK f \in [0..n -> A] : Recurs(f, n, record, step)
    BY <1>1, <2>1, <2>3, Recursion
  <2>5. f[0] = record /\ \A k \in 1..n : f[k] = Put(f[k - 1], keys[k], v)
    BY <1>1, <2>2, <2>4 DEF Recurs
  <2>6. f = [k \in 0..n |-> IF k = 0 THEN record ELSE Put(f[k - 1], keys[k], v)]
    BY <1>1, <2>5
  <2> QED
    BY <2>6 DEF n
<1>3. assigned = Recursive(assigned)
  <2> HIDE DEF Recursive
  <2> QED
    BY <1>2
<1>4. Assigned(record, keys, v) = assigned[n]
  BY DEF Assigned
<1> HIDE DEF assigned
<1> DEFINE S == {k \in 0..n :
                   /\ assigned[k] \in Seq(Entry)
                   /\ Replaced(ToSet(record), Listed(keys, k), v, ToSet(assigned[k]))
                   /\ \A R : Ordered(record, R) /\ NewLast(KeysOf(record), keys, R) =>
                            Ordered(assigned[k], R)}
<1>5. assigned[0] = record /\ \A k \in 1..n : assigned[k] = Put(assigned[k - 1], keys[k], v)
  <2> HIDE DEF A, step, S, n
  <2>1. \A k \in 0..n : assigned[k] = IF k = 0 THEN record ELSE Put(assigned[k - 1], keys[k], v)
    BY <1>3
  <2>2. 0 \in 0..n /\ \A k \in 1..n : k \in 0..n /\ k # 0
    BY <1>1
  <2> QED
    BY <2>1, <2>2
<1> HIDE DEF n
<1>6. 0 \in S
  <2>1. Listed(keys, 0) = {}
    BY DEF Listed
  <2>2. Replaced(ToSet(record), {}, v, ToSet(record))
    BY DEF Replaced
  <2>3. assigned[0] = record /\ 0 \in 0..n
    BY <1>1, <1>5
  <2>4. Replaced(ToSet(record), Listed(keys, 0), v, ToSet(assigned[0]))
    BY <2>1, <2>2, <2>3, Zenon
  <2>5. assigned[0] \in Seq(Entry)
    BY <2>3
  <2>6. \A R : Ordered(record, R) /\ NewLast(KeysOf(record), keys, R) => Ordered(assigned[0], R)
    BY <2>3
  <2> QED
    BY <2>3, <2>4, <2>5, <2>6, Zenon
<1>7. ASSUME NEW k \in 1..n, k - 1 \in S
      PROVE  k \in S
  <2> DEFINE before == Listed(keys, k - 1)
             done == Listed(keys, k)
  <2>1. /\ assigned[k - 1] \in Seq(Entry) /\ Replaced(ToSet(record), before, v, ToSet(assigned[k - 1]))
        /\ \A R : Ordered(record, R) /\ NewLast(KeysOf(record), keys, R) =>
                 Ordered(assigned[k - 1], R)
    BY <1>7
  <2>2. keys[k] \in Keys /\ assigned[k] = Put(assigned[k - 1], keys[k], v)
    BY <1>1, <1>5
  <2>3. done = before \cup {keys[k]}
    <3>1. \A j : j \in 1..k <=> j \in 1..(k - 1) \/ j = k
      BY <1>1
    <3> QED
      BY <3>1 DEF Listed
  <2> HIDE DEF before, done
  <2>4. assigned[k] \in Seq(Entry) /\ Replaced(ToSet(assigned[k - 1]), {keys[k]}, v, ToSet(assigned[k]))
    BY <2>1, <2>2, PutEntries
  <2>5. Replaced(ToSet(record), done, v, ToSet(assigned[k]))
    <3>1. \A key : Value(key, v).key = key
      BY DEF Value
    <3> QED
      BY <2>1, <2>3, <2>4, <3>1 DEF Replaced
  <2>6. KeysOf(assigned[k - 1]) = KeysOf(record) \cup before
    BY <2>1, KeysReplaced
  <2>7. ASSUME NEW R, Ordered(record, R), NewLast(KeysOf(record), keys, R)
        PROVE  Ordered(assigned[k], R)
    <3>1. keys[k] \notin KeysOf(assigned[k - 1]) =>
              \A l \in KeysOf(assigned[k - 1]) : <<l, keys[k]>> \in R
      BY <2>6, <2>7 DEF NewLast, n, before
    <3>2. Ordered(assigned[k - 1], R)
      BY <2>1, <2>7
    <3>3. assigned[k - 1] \in Seq(Entry)
      BY <2>1
    <3>4. Ordered(Put(assigned[k - 1], keys[k], v), R)
      BY <2>2, <3>1, <3>2, <3>3, PutOrder
    <3> QED
      BY <2>2, <3>4
  <2> QED
    BY <2>4, <2>5, <2>7 DEF done
<1>8. n \in S
  <2> HIDE DEF S
  <2>1. 0..n \subseteq S
    BY <1>1, <1>6, <1>7, Ascend
  <2> QED
    BY <1>1, <2>1
<1>9. ToSet(keys) = Listed(keys, n)
  BY <1>1 DEF ToSet, Listed
<1> QED
  BY <1>4, <1>8, <1>9

(* What has come of the first m errors: each key with its last value.      *)
LastValues(errors, m, entries) ==
    \A x : x \in entries <=>
        \E i \in 1..m : \E key \in ToSet(errors[i].headers) :
            x = Value(key, i) /\ \A j \in (i + 1)..m : key \notin ToSet(errors[j].headers)

(* A key is used ahead of another: once before all the uses of that one.   *)
Ahead(errors, l, k) ==
    \E i \in 1..Len(errors) : \E p \in DOMAIN errors[i].headers :
        /\ errors[i].headers[p] = l
        /\ \A j \in 1..Len(errors) : \A q \in DOMAIN errors[j].headers :
              errors[j].headers[q] = k => i < j \/ (i = j /\ p < q)
AheadIn(errors) == {x \in Keys \X Keys : Ahead(errors, x[1], x[2])}

(* The headers of the m-th error that no error before it has come after    *)
(* all that have been used.                                                *)
LEMMA NewAhead ==
    ASSUME NEW errors, NEW m \in 1..Len(errors), Len(errors) \in Nat,
           \A i \in 1..Len(errors) : errors[i].headers \in Seq(Keys),
           NEW old, \A key : key \in old <=> \E i \in 1..(m - 1) : key \in ToSet(errors[i].headers)
    PROVE  NewLast(old, errors[m].headers, AheadIn(errors))
<1> DEFINE n == Len(errors)
           keys == errors[m].headers
           H(i) == errors[i].headers
<1>1. n \in Nat /\ m \in 1..n /\ \A i \in 1..n : DOMAIN H(i) = 1..Len(H(i)) /\ Len(H(i)) \in Nat
  OBVIOUS
<1>2. ASSUME NEW k \in 1..Len(keys), keys[k] \notin old \cup Listed(keys, k - 1),
             NEW l \in old \cup Listed(keys, k - 1)
      PROVE  <<l, keys[k]>> \in AheadIn(errors)
  <2>1. \E i \in 1..n : \E p \in DOMAIN H(i) : H(i)[p] = l /\ (i < m \/ (i = m /\ p < k))
    <3>1. CASE l \in old
      <4>1. PICK i \in 1..(m - 1) : l \in ToSet(H(i))
        BY <3>1
      <4>2. PICK p \in DOMAIN H(i) : H(i)[p] = l
        BY <4>1 DEF ToSet
      <4>3. i \in 1..n /\ i < m
        BY <1>1
      <4> QED
        BY <4>2, <4>3
    <3>2. CASE l \in Listed(keys, k - 1)
      <4>1. PICK p \in 1..(k - 1) : keys[p] = l
        BY <3>2 DEF Listed
      <4>2. p \in DOMAIN H(m) /\ p < k
        BY <1>1
      <4> QED
        BY <1>1, <4>1, <4>2
    <3> QED
      BY <1>2, <3>1, <3>2
  <2>2. ASSUME NEW j \in 1..n, NEW q \in DOMAIN H(j), H(j)[q] = keys[k]
        PROVE  m < j \/ (m = j /\ k <= q)
    <3>1. j \notin 1..(m - 1)
      <4>1. keys[k] \in ToSet(H(j))
        BY <2>2 DEF ToSet
      <4> QED
        BY <1>2, <4>1
    <3>2. ASSUME j = m
          PROVE  q \notin 1..(k - 1)
      BY <1>2, <2>2, <3>2 DEF Listed
    <3> QED
      BY <1>1, <3>1, <3>2
  <2>3. PICK i \in 1..n : \E p \in DOMAIN H(i) : H(i)[p] = l /\ (i < m \/ (i = m /\ p < k))
    BY <2>1
  <2>4. PICK p \in DOMAIN H(i) : H(i)[p] = l /\ (i < m \/ (i = m /\ p < k))
    BY <2>3
  <2>5. ASSUME NEW j \in 1..n, NEW q \in DOMAIN H(j), H(j)[q] = keys[k]
        PROVE  i < j \/ (i = j /\ p < q)
    <3>1. m < j \/ (m = j /\ k <= q)
      BY <2>2, <2>5
    <3>2. k \in Nat /\ i \in Nat /\ j \in Nat /\ m \in Nat
      BY <1>1
    <3>3. DOMAIN H(i) \subseteq Nat /\ DOMAIN H(j) \subseteq Nat
      <4>1. \A x \in 1..n : DOMAIN H(x) = 1..Len(H(x)) /\ Len(H(x)) \in Nat
        BY <1>1
      <4> HIDE DEF H, n
      <4> QED
        BY <4>1
    <3>4. p \in Nat /\ q \in Nat
      BY <3>3
    <3> HIDE DEF H, n
    <3> QED
      BY <2>4, <3>1, <3>2, <3>4
  <2>6. Ahead(errors, l, keys[k])
    BY <2>4, <2>5 DEF Ahead
  <2>7. keys[k] \in Keys /\ l \in Keys
    <3>1. \A j \in 1..n : \A q \in DOMAIN H(j) : H(j)[q] \in Keys
      OBVIOUS
    <3>2. k \in DOMAIN H(m)
      BY <1>1
    <3> QED
      BY <1>1, <2>4, <3>1, <3>2
  <2> QED
    BY <2>6, <2>7 DEF AheadIn
<1> QED
  BY <1>2 DEF NewLast

LEMMA AggregatedEntries ==
    ASSUME NEW errors, Len(errors) \in Nat, \A i \in 1..Len(errors) : errors[i].headers \in Seq(Keys)
    PROVE  /\ AggregatedHeaders(errors) \in Seq(Entry)
           /\ LastValues(errors, Len(errors), ToSet(AggregatedHeaders(errors)))
           /\ Ordered(AggregatedHeaders(errors), AheadIn(errors))
<1> DEFINE n == Len(errors)
           Recursive(f) ==
               [i \in 0..n |-> IF i = 0 THEN <<>> ELSE Assigned(f[i - 1], errors[i].headers, i)]
           aggregated == CHOOSE f : f = Recursive(f)
           A == Seq(Entry)
           step == [i \in 1..n |-> [r \in A |-> Assigned(r, errors[i].headers, i)]]
<1>1. n \in Nat /\ \A i \in 1..n : errors[i].headers \in Seq(Keys)
  OBVIOUS
<1>2. \E f : f = Recursive(f)
  <2>1. step \in [1..n -> [A -> A]]
    <3>1. ASSUME NEW i \in 1..n, NEW r \in A
          PROVE  Assigned(r, errors[i].headers, i) \in A
      <4>1. errors[i].headers \in Seq(Keys) /\ i \in Nat
        BY <1>1
      <4> QED
        BY <4>1, AssignedEntries
    <3> QED
      BY <3>1
  <2>2. \A i \in 1..n, r \in A : step[i][r] = Assigned(r, errors[i].headers, i)
    OBVIOUS
  <2>3. <<>> \in A
    OBVIOUS
  <2> HIDE DEF n, A, step
  <2>4. PICK f \in [0..n -> A] : Recurs(f, n, <<>>, step)
    BY <1>1, <2>1, <2>3, Recursion
  <2>5. f[0] = <<>> /\ \A i \in 1..n : f[i] = Assigned(f[i - 1], errors[i].headers, i)
    <3>1. f[0] = <<>> /\ \A i \in 1..n : f[i] = step[i][f[i - 1]]
      BY <2>4 DEF Recurs
    <3>2. \A i \in 1..n : f[i - 1] \in A
      BY <1>1
    <3> QED
      BY <2>2, <3>1, <3>2
  <2>6. f = [i \in 0..n |-> IF i = 0 THEN <<>> ELSE Assigned(f[i - 1], errors[i].headers, i)]
    BY <1>1, <2>5
  <2> QED
    BY <2>6 DEF n
<1>3. aggregated = Recursive(aggregated)
  <2> HIDE DEF Recursive
  <2> QED
    BY <1>2
<1>4. AggregatedHeaders(errors) = aggregated[n]
  BY DEF AggregatedHeaders
<1> HIDE DEF aggregated
<1> DEFINE S == {m \in 0..n :
                   /\ aggregated[m] \in Seq(Entry) /\ LastValues(errors, m, ToSet(aggregated[m]))
                   /\ \A key : key \in KeysOf(aggregated[m]) <=>
                                \E i \in 1..m : key \in ToSet(errors[i].headers)
                   /\ Ordered(aggregated[m], AheadIn(errors))}
<1>5. /\ aggregated[0] = <<>>
      /\ \A i \in 1..n : aggregated[i] = Assigned(aggregated[i - 1], errors[i].headers, i)
  BY <1>1, <1>3
<1> HIDE DEF n
<1>6. 0 \in S
  <2>1. ToSet(<<>>) = {} /\ <<>> \in Seq(Entry)
    BY DEF ToSet
  <2>2. LastValues(errors, 0, {})
    BY DEF LastValues
  <2>3. aggregated[0] \in Seq(Entry) /\ LastValues(errors, 0, ToSet(aggregated[0]))
    BY <1>5, <2>1, <2>2
  <2>4. DOMAIN <<>> = {}
    OBVIOUS
  <2>5. KeysOf(aggregated[0]) = {} /\ Ordered(aggregated[0], AheadIn(errors))
    BY <1>5, <2>4 DEF KeysOf, Ordered
  <2>6. \A key : key \in KeysOf(aggregated[0]) <=> \E i \in 1..0 : key \in ToSet(errors[i].headers)
    BY <2>5
  <2> QED
    BY <1>1, <2>3, <2>5, <2>6
<1>7. ASSUME NEW m \in 1..n, m - 1 \in S
      PROVE  m \in S
  <2> DEFINE keys == ToSet(errors[m].headers)
             old == ToSet(aggregated[m - 1])
             new == ToSet(aggregated[m])
  <2>1. /\ aggregated[m - 1] \in Seq(Entry) /\ LastValues(errors, m - 1, old)
        /\ \A key : key \in KeysOf(aggregated[m - 1]) <=>
                     \E i \in 1..(m - 1) : key \in ToSet(errors[i].headers)
        /\ Ordered(aggregated[m - 1], AheadIn(errors))
    BY <1>7
  <2>2. m \in Nat /\ errors[m].headers \in Seq(Keys)
        /\ aggregated[m] = Assigned(aggregated[m - 1], errors[m].headers, m)
    BY <1>1, <1>5
  <2>3. aggregated[m] \in Seq(Entry) /\ Replaced(old, keys, m, new)
    BY <2>1, <2>2, AssignedEntries
  <2>4. LastValues(errors, m, new)
    <3> DEFINE Is(x, i, key) == x = Value(key, i)
               Latest(i, key, k) == \A j \in (i + 1)..k : key \notin ToSet(errors[j].headers)
    <3>1. \A key, i : Value(key, i).key = key
      BY DEF Value
    <3>2. \A i \in 1..(m - 1) : \A key : Latest(i, key, m) <=> Latest(i, key, m - 1) /\ key \notin keys
      <4>1. \A i \in 1..(m - 1) : \A j : j \in (i + 1)..m <=> j \in (i + 1)..(m - 1) \/ j = m
        BY <1>1
      <4> QED
        BY <4>1
    <3>3. \A key : Latest(m, key, m)
      BY <1>1
    <3>4. \A i : i \in 1..m <=> i \in 1..(m - 1) \/ i = m
      BY <1>1
    <3>5. \A x : x \in old <=> \E i \in 1..(m - 1) : \E key \in ToSet(errors[i].headers) :
                                  Is(x, i, key) /\ Latest(i, key, m - 1)
      BY <2>1 DEF LastValues
    <3> HIDE DEF Latest, keys, old, new
    <3>6. ASSUME NEW x
          PROVE  x \in new <=> \E i \in 1..m : \E key \in ToSet(errors[i].headers) :
                                  Is(x, i, key) /\ Latest(i, key, m)
      <4>1. x \in new <=> (x \in old /\ x.key \notin keys) \/ \E key \in keys : Is(x, m, key)
        BY <2>3 DEF Replaced
      <4>2. (x \in old /\ x.key \notin keys) <=>
               \E i \in 1..(m - 1) : \E key \in ToSet(errors[i].headers) : Is(x, i, key) /\ Latest(i, key, m)
        BY <3>1, <3>2, <3>5
      <4>3. (\E key \in keys : Is(x, m, key)) <=>
               \E key \in ToSet(errors[m].headers) : Is(x, m, key) /\ Latest(m, key, m)
        BY <3>3 DEF keys
      <4> HIDE DEF Is
      <4> QED
        BY <3>4, <4>1, <4>2, <4>3
    <3> QED
      BY <3>6 DEF Latest, LastValues, new
  <2>5. \A key : key \in KeysOf(aggregated[m]) <=> \E i \in 1..m : key \in ToSet(errors[i].headers)
    <3>1. KeysOf(aggregated[m]) = KeysOf(aggregated[m - 1]) \cup keys
      BY <2>3, KeysReplaced
    <3>2. \A i : i \in 1..m <=> i \in 1..(m - 1) \/ i = m
      BY <1>1
    <3> QED
      BY <2>1, <3>1, <3>2
  <2>6. Ordered(aggregated[m], AheadIn(errors))
    <3>1. NewLast(KeysOf(aggregated[m - 1]), errors[m].headers, AheadIn(errors))
      BY <1>1, <2>1, NewAhead DEF n
    <3> DEFINE before == aggregated[m - 1]
               R == AheadIn(errors)
    <3> HIDE DEF before, R
    <3>2. Ordered(before, R) /\ NewLast(KeysOf(before), errors[m].headers, R) /\ before \in Seq(Entry)
      BY <2>1, <3>1 DEF before, R
    <3>3. Ordered(Assigned(before, errors[m].headers, m), R)
      BY <2>2, <3>2, AssignedEntries
    <3> QED
      BY <2>2, <3>3 DEF before, R
  <2> QED
    BY <2>3, <2>4, <2>5, <2>6
<1>8. n \in S
  <2> HIDE DEF S
  <2>1. 0..n \subseteq S
    BY <1>1, <1>6, <1>7, Ascend
  <2> QED
    BY <1>1, <2>1
<1> QED
  BY <1>4, <1>8 DEF n

(* An error carries the headers of its exception if it has a status.       *)
LEMMA SameHeaders ==
    ASSUME exception # Unset, Thrown(exception), exception.kind \in {"app", "multi"}
    PROVE  /\ Len(Convert(exception)) \in Nat /\ DOMAIN exception.errors = 1..Len(Convert(exception))
           /\ \A i \in DOMAIN exception.errors : Convert(exception)[i].headers \in Seq(Keys)
           /\ \A key : Carriers(key) =
                 {i \in DOMAIN exception.errors : key \in ToSet(Convert(exception)[i].headers)}
<1> DEFINE s == exception.errors
<1>1. s \in Seq(AppExceptions)
  BY DEF Thrown
<1>2. Len(s) \in Nat /\ DOMAIN s = 1..Len(s) /\ \A i \in DOMAIN s : s[i] \in AppExceptions
  BY <1>1
<1>3. Convert(exception) = [i \in DOMAIN s |-> ConvertAppException(s[i])]
  BY DEF Convert
<1>4. Len(Convert(exception)) = Len(s)
  BY <1>2, <1>3
<1>5. \A i \in DOMAIN s :
          Convert(exception)[i].headers = IF s[i].httpStatus # Unset THEN s[i].headers ELSE <<>>
  BY <1>3 DEF ConvertAppException, IsHttpAware
<1>6. ToSet(<<>>) = {} /\ <<>> \in Seq(Keys)
  BY DEF ToSet
<1>7. \A x \in AppExceptions : x.headers \in Seq(Keys)
  <2>1. Headers \subseteq UNION {[1..m -> Keys] : m \in 0..MaxHeaders}
    BY DEF Headers, BoundedSeq, SeqOf
  <2>2. ASSUME NEW m \in 0..MaxHeaders, NEW h \in [1..m -> Keys]
        PROVE  h \in Seq(Keys)
    <3>1. m \in Nat
      BY ExceptionFilterAssumption
    <3> QED
      BY <3>1
  <2>3. ASSUME NEW h \in Headers \cup {<<>>}
        PROVE  h \in Seq(Keys)
    <3>1. CASE h \in Headers
      <4>1. PICK m \in 0..MaxHeaders : h \in [1..m -> Keys]
        BY <2>1, <3>1
      <4> QED
        BY <2>2, <4>1
    <3> QED
      BY <1>6, <3>1
  <2>4. \A x \in AppExceptions : x.headers \in Headers \cup {<<>>}
    BY DEF AppExceptions
  <2> QED
    BY <2>3, <2>4
<1>8. \A i \in DOMAIN s : Convert(exception)[i].headers \in Seq(Keys)
  BY <1>2, <1>5, <1>7, <1>6
<1>9. \A key, i : i \in Carriers(key) <=> i \in DOMAIN s /\ key \in ToSet(Convert(exception)[i].headers)
  <2>1. \A key, i : i \in Carriers(key) <=>
           i \in DOMAIN s /\ s[i].httpStatus # Unset /\ key \in ToSet(s[i].headers)
    BY DEF Carriers
  <2> HIDE DEF s
  <2> QED
    BY <1>5, <1>6, <2>1
<1> QED
  BY <1>2, <1>4, <1>8, <1>9

LEMMA SameUses ==
    ASSUME exception # Unset, Thrown(exception), exception.kind \in {"app", "multi"},
           NEW l, NEW k, Ahead(Convert(exception), l, k)
    PROVE  UsedAhead(l, k)
<1> DEFINE errors == Convert(exception)
           s == exception.errors
<1>1. DOMAIN s = 1..Len(errors) /\ \A key : Carriers(key) = {i \in 1..Len(errors) : key \in ToSet(errors[i].headers)}
  BY SameHeaders
<1>2. \A key : \A i \in Carriers(key) : errors[i].headers = s[i].headers
  <2>1. \A i \in DOMAIN s : s[i].httpStatus # Unset => errors[i].headers = s[i].headers
    BY DEF Convert, ConvertAppException, IsHttpAware
  <2>2. \A key : \A i \in Carriers(key) : i \in DOMAIN s /\ s[i].httpStatus # Unset
    BY DEF Carriers
  <2> QED
    BY <2>1, <2>2
<1> HIDE DEF errors, s
<1>3. Ahead(errors, l, k)
  BY DEF errors
<1>4. PICK i \in 1..Len(errors) : \E p \in DOMAIN errors[i].headers :
        /\ errors[i].headers[p] = l
        /\ \A j \in 1..Len(errors) : \A q \in DOMAIN errors[j].headers :
              errors[j].headers[q] = k => i < j \/ (i = j /\ p < q)
  BY <1>3 DEF Ahead
<1>5. i \in Carriers(l) /\ errors[i].headers = s[i].headers
  BY <1>1, <1>2, <1>4 DEF ToSet
<1>6. PICK p \in DOMAIN s[i].headers :
        /\ s[i].headers[p] = l
        /\ \A j \in 1..Len(errors) : \A q \in DOMAIN errors[j].headers :
              errors[j].headers[q] = k => i < j \/ (i = j /\ p < q)
  BY <1>4, <1>5
<1>7. \A j \in Carriers(k) : j \in 1..Len(errors) /\ errors[j].headers = s[j].headers
  BY <1>1, <1>2
<1>8. \A j \in Carriers(k) : \A q \in DOMAIN s[j].headers :
          s[j].headers[q] = k => i < j \/ (i = j /\ p < q)
  BY <1>6, <1>7
<1> QED
  BY <1>5, <1>6, <1>8 DEF UsedAhead, s

(* A name is set to the value of an entry of that name, if there is one.   *)
LEMMA HeaderSet ==
    ASSUME NEW record \in Seq(Entry), NEW n \in Names
    PROVE  \/ /\ SetHeaders(record)[n] = Unset
              /\ \A x \in ToSet(record) : NameOf[x.key] # n
           \/ \E b \in DOMAIN record :
                 /\ NameOf[record[b].key] = n /\ SetHeaders(record)[n] = record[b].value
                 /\ \A a \in DOMAIN record : NameOf[record[a].key] = n => a <= b
<1> DEFINE named == {i \in DOMAIN record : NameOf[record[i].key] = n}
<1>1. SetHeaders(record)[n] = IF named = {} THEN Unset ELSE record[Max(named)].value
  BY DEF SetHeaders
<1>2. ToSet(record) = {record[i] : i \in DOMAIN record}
  BY DEF ToSet
<1>3. CASE named = {}
  BY <1>1, <1>2, <1>3
<1>4. CASE named # {}
  <2>1. Len(record) \in Nat /\ named \in SUBSET (1..Len(record))
    OBVIOUS
  <2> HIDE DEF named
  <2>2. Max(named) \in named /\ \A a \in named : a <= Max(named)
    BY <1>4, <2>1, Greatest
  <2> QED
    BY <1>1, <1>2, <1>4, <2>2 DEF named
<1> QED
  BY <1>3, <1>4

(* Each header of a response has the last value of the spelling of its     *)
(* name that came up last.                                                 *)
THEOREM HeadersCorrect == Spec => []LaterErrorsWin
<1>1. Init => ResponseInv
  BY DEF Init, ResponseInv, Answered
<1>2. IInv /\ ResponseInv => LaterErrorsWin
  <2> SUFFICES ASSUME IInv, ResponseInv, Answered, NEW n \in Names
               PROVE  IF exception.kind \in {"http", "other"} THEN reply.headers[n] = Unset
                      ELSE LET used == {k \in Keys : NameOf[k] = n /\ Carriers(k) # {}}
                           IN IF used = {} THEN reply.headers[n] = Unset
                              ELSE \E k \in used :
                                  /\ \A l \in used \ {k} : UsedAhead(l, k)
                                  /\ reply.headers[n] \in Carriers(k)
                                  /\ \A i \in Carriers(k) : i <= reply.headers[n]
    BY DEF LaterErrorsWin
  <2> DEFINE errors == Convert(exception)
             record == AggregatedHeaders(errors)
  <2>1. exception # Unset /\ Thrown(exception) /\ reply.headers[n] = SetHeaders(record)[n]
    BY DEF Answered, IInv, ThrownInv, ResponseInv, IsResponse
  <2>2. CASE exception.kind \in {"http", "other"}
    <3>1. Len(errors) = 1 /\ errors[1].headers = <<>>
      BY <2>2 DEF Convert, InternalServerError
    <3>2. <<>> \in Seq(Keys) /\ ToSet(<<>>) = {}
      BY DEF ToSet
    <3> HIDE DEF errors
    <3>3. record \in Seq(Entry) /\ LastValues(errors, 1, ToSet(record))
      <4>1. Len(errors) \in Nat
        BY <3>1
      <4>2. ASSUME NEW i \in 1..Len(errors)  PROVE errors[i].headers \in Seq(Keys)
        <5>1. i = 1
          BY <3>1
        <5> QED
          BY <3>1, <3>2, <5>1
      <4>3. record \in Seq(Entry) /\ LastValues(errors, Len(errors), ToSet(record))
        BY <4>1, <4>2, AggregatedEntries
      <4> HIDE DEF record
      <4> QED
        BY <3>1, <4>3
    <3>4. ToSet(record) = {}
      BY <3>1, <3>2, <3>3 DEF LastValues
    <3> HIDE DEF record
    <3>5. SetHeaders(record)[n] = Unset
      BY <3>3, <3>4, HeaderSet DEF ToSet
    <3> QED
      BY <2>1, <2>2, <3>5
  <2>3. CASE exception.kind \in {"app", "multi"}
    <3> DEFINE used == {k \in Keys : NameOf[k] = n /\ Carriers(k) # {}}
               m == Len(errors)
               set == reply.headers[n]
    <3>1. /\ m \in Nat /\ DOMAIN exception.errors = 1..m
          /\ \A i \in 1..m : errors[i].headers \in Seq(Keys)
          /\ \A k : Carriers(k) = {i \in 1..m : k \in ToSet(errors[i].headers)}
      BY <2>1, <2>3, SameHeaders
    <3> HIDE DEF errors
    <3>2. /\ record \in Seq(Entry) /\ LastValues(errors, m, ToSet(record))
          /\ Ordered(record, AheadIn(errors))
      BY <3>1, AggregatedEntries
    <3> HIDE DEF record, m
    <3>3. \A x \in ToSet(record) : x.key \in Keys
      <4>1. \A i \in DOMAIN record : record[i] \in Entry
        BY <3>2
      <4> QED
        BY <4>1 DEF ToSet, Entry
    <3>4. ASSUME NEW x \in ToSet(record)
          PROVE  x.value \in Carriers(x.key) /\ \A i \in Carriers(x.key) : i <= x.value
      <4>1. PICK i \in 1..m : \E k \in ToSet(errors[i].headers) :
                x = Value(k, i) /\ \A j \in (i + 1)..m : k \notin ToSet(errors[j].headers)
        BY <3>2 DEF LastValues
      <4>2. PICK k \in ToSet(errors[i].headers) :
                x = Value(k, i) /\ \A j \in (i + 1)..m : k \notin ToSet(errors[j].headers)
        BY <4>1
      <4>3. x.key = k /\ x.value = i
        BY <4>2 DEF Value
      <4>4. \A j \in Carriers(k) : j <= i
        BY <3>1, <4>2
      <4> QED
        BY <3>1, <4>2, <4>3, <4>4
    <3>5. ASSUME NEW k \in used
          PROVE  \E x \in ToSet(record) : x.key = k
      <4> DEFINE last == Max(Carriers(k))
      <4>1. Carriers(k) \in SUBSET (1..m) /\ Carriers(k) # {}
        BY <3>1
      <4>2. last \in Carriers(k) /\ \A i \in Carriers(k) : i <= last
        BY <3>1, <4>1, Greatest
      <4> HIDE DEF last
      <4>3. last \in 1..m /\ k \in ToSet(errors[last].headers)
        BY <3>1, <4>2
      <4>4. \A j \in (last + 1)..m : k \notin ToSet(errors[j].headers)
        BY <3>1, <4>2, <4>3
      <4>5. Value(k, last) \in ToSet(record)
        BY <3>2, <4>3, <4>4 DEF LastValues
      <4>6. Value(k, last).key = k
        BY DEF Value
      <4> QED
        BY <4>5, <4>6
    <3>6. CASE \A x \in ToSet(record) : NameOf[x.key] # n
      <4>1. used = {}
        BY <3>5, <3>6
      <4>2. set = Unset
        BY <2>1, <3>2, <3>6, HeaderSet DEF ToSet
      <4> QED
        BY <2>3, <4>1, <4>2
    <3>7. CASE ~\A x \in ToSet(record) : NameOf[x.key] # n
      <4>1. PICK b \in DOMAIN record :
                /\ NameOf[record[b].key] = n /\ set = record[b].value
                /\ \A a \in DOMAIN record : NameOf[record[a].key] = n => a <= b
        <5>1. \A x \in ToSet(record) : \E a \in DOMAIN record : x = record[a]
          BY DEF ToSet
        <5> QED
          BY <2>1, <3>2, <3>7, HeaderSet
      <4> DEFINE k == record[b].key
      <4>2. record[b] \in ToSet(record)
        BY <4>1 DEF ToSet
      <4>3. k \in used
        BY <3>3, <3>4, <4>1, <4>2
      <4>4. set \in Carriers(k) /\ \A i \in Carriers(k) : i <= set
        BY <3>4, <4>1, <4>2
      <4>5. ASSUME NEW l \in used \ {k}
            PROVE  UsedAhead(l, k)
        <5>1. PICK a \in DOMAIN record : record[a].key = l
          BY <3>5 DEF ToSet
        <5>2. a # b /\ a <= b
          BY <4>1, <4>5, <5>1
        <5>3. a \in Nat /\ b \in Nat
          BY <3>2, <4>1, <5>1
        <5>4. <<l, k>> \in AheadIn(errors)
          BY <3>2, <4>1, <5>1, <5>2, <5>3 DEF Ordered
        <5>5. Ahead(errors, l, k)
          BY <5>4 DEF AheadIn
        <5> QED
          BY <2>1, <2>3, <5>5, SameUses DEF errors
      <4> HIDE DEF used, set, k
      <4> QED
        BY <2>3, <4>3, <4>4, <4>5 DEF used, set
    <3> QED
      BY <3>6, <3>7
  <2> QED
    BY <2>1, <2>2, <2>3 DEF Thrown
<1> QED
  BY <1>1, <1>2, InitIInv, NextIInv, NextResponseInv, PTL DEF Spec

-----------------------------------------------------------------------------
(* Types *)

(* A request throws no more errors than it may create, and then has none   *)
(* left.                                                                   *)
BoundInv ==
    /\ Len(created) <= MaxErrors
    /\ exception # Unset => created = <<>>
    /\ exception # Unset /\ exception.kind \in {"app", "multi"} => Len(exception.errors) <= MaxErrors

LEMMA NextBoundInv == IInv /\ BoundInv /\ [Next]_vars => BoundInv'
<1> SUFFICES ASSUME IInv, BoundInv, [Next]_vars
             PROVE  BoundInv'
  OBVIOUS
<1>1. created \in Seq(AppExceptions) /\ Len(created) \in Nat /\ MaxErrors \in Nat /\ Len(<<>>) = 0
  BY LenProperties, ExceptionFilterAssumption DEF IInv, ThrownInv
<1>2. ASSUME NEW class, NEW entity, NEW detail, NEW headers, Create(class, entity, detail, headers)
      PROVE  BoundInv'
  <2>1. exception = Unset /\ exception' = Unset
    BY <1>2 DEF Create
  <2>2. Len(created') = Len(created) + 1 /\ Len(created) < MaxErrors
    BY <1>1, <1>2, AppendProperties DEF Create
  <2> QED
    BY <1>1, <2>1, <2>2 DEF BoundInv
<1>3. ASSUME Fails, exception'.kind \in {"app", "multi"} => Len(exception'.errors) <= MaxErrors
      PROVE  BoundInv'
  BY <1>1, <1>3 DEF Fails, BoundInv
<1>4. CASE ThrowAppException
  <2>1. PICK i \in DOMAIN created : exception' = [kind |-> "app", errors |-> <<created[i]>>]
    BY <1>4 DEF ThrowAppException
  <2>2. 1 <= MaxErrors
    BY <1>1, <2>1 DEF BoundInv
  <2>3. Len(exception'.errors) = 1
    BY <2>1
  <2> QED
    BY <1>3, <1>4, <2>2, <2>3 DEF ThrowAppException
<1>5. CASE ThrowMultiAppException
  <2>1. exception'.errors = created
    BY <1>5 DEF ThrowMultiAppException
  <2> QED
    BY <1>3, <1>5, <2>1 DEF ThrowMultiAppException, BoundInv
<1>6. CASE ThrowOther \/ \E status \in HttpStatuses : ThrowHttpException(status)
  <2>1. exception'.kind \in {"other", "http"}
    BY <1>6 DEF ThrowOther, ThrowHttpException
  <2> QED
    BY <1>3, <1>6, <2>1 DEF ThrowOther, ThrowHttpException
<1>7. CASE Done
  BY <1>7 DEF Done, BoundInv
<1>8. CASE UNCHANGED <<created, exception>>
  BY <1>8 DEF BoundInv
<1> QED
  BY <1>2, <1>4, <1>5, <1>6, <1>7, <1>8
     DEF Next, Configure, CreateAboutEntity, CatchHttp, CatchGraphQL, vars

(* A header's value is the place of an error that has headers.             *)
LEMMA HeaderValues ==
    ASSUME NEW errors, Len(errors) \in Nat, \A i \in 1..Len(errors) : errors[i].headers \in Seq(Keys),
           NEW n \in Names
    PROVE  SetHeaders(AggregatedHeaders(errors))[n] \in
               {i \in 1..Len(errors) : ToSet(errors[i].headers) # {}} \cup {Unset}
<1>1. PICK record \in Seq(Entry) :
        record = AggregatedHeaders(errors) /\ LastValues(errors, Len(errors), ToSet(record))
  BY AggregatedEntries
<1>2. CASE SetHeaders(record)[n] = Unset
  BY <1>1, <1>2
<1>3. ASSUME NEW x \in ToSet(record), SetHeaders(record)[n] = x.value
      PROVE  x.value \in {i \in 1..Len(errors) : ToSet(errors[i].headers) # {}}
  <2>1. PICK i \in 1..Len(errors) : \E key \in ToSet(errors[i].headers) : x = Value(key, i)
    BY <1>1, <1>3 DEF LastValues
  <2>2. x.value = i /\ ToSet(errors[i].headers) # {}
    BY <2>1 DEF Value
  <2> QED
    BY <2>2
<1>4. SetHeaders(record)[n] = Unset \/ \E x \in ToSet(record) : SetHeaders(record)[n] = x.value
  <2>1. \A b \in DOMAIN record : record[b] \in ToSet(record)
    BY DEF ToSet
  <2> QED
    BY <2>1, HeaderSet
<1> QED
  BY <1>1, <1>2, <1>3, <1>4, Zenon

LEMMA ResponseTyped ==
    ASSUME exception # Unset, Thrown(exception), BoundInv
    PROVE  /\ StatusCode(Convert(exception)) \in 100..599
           /\ SetHeaders(AggregatedHeaders(Convert(exception))) \in [Names -> 1..MaxErrors \cup {Unset}]
<1> DEFINE errors == Convert(exception)
           headers == SetHeaders(AggregatedHeaders(errors))
<1>1. CASE exception.kind \in {"http", "other"}
  <2>1. /\ Len(errors) = 1 /\ errors[1].headers = <<>>
        /\ errors[1].status = IF exception.kind = "other" THEN 500 ELSE exception.status
    BY <1>1 DEF Convert, InternalServerError
  <2>2. errors[1].status \in 100..599
    <3>1. HttpStatuses \subseteq 100..599
      BY ExceptionFilterAssumption
    <3>2. CASE exception.kind = "http"
      <4>1. exception.status \in HttpStatuses /\ exception.kind # "other"
        BY <3>2 DEF Thrown
      <4> QED
        BY <2>1, <3>1, <4>1, Zenon
    <3>3. CASE exception.kind = "other"
      BY <2>1, <3>3
    <3> QED
      BY <1>1, <3>2, <3>3
  <2>3. ToSet(<<>>) = {} /\ <<>> \in Seq(Keys)
    BY DEF ToSet
  <2> HIDE DEF errors
  <2>4. StatusCode(errors) \in 100..599
    BY <2>1, <2>2, ExceptionFilterAssumption DEF StatusCode, OwnStatus
  <2>5. Len(errors) \in Nat /\ \A i \in 1..Len(errors) : i = 1
    BY <2>1
  <2>6. \A i \in 1..Len(errors) : errors[i].headers \in Seq(Keys) /\ ToSet(errors[i].headers) = {}
    BY <2>1, <2>3, <2>5
  <2>7. \A n \in Names : headers[n] = Unset
    BY <2>5, <2>6, HeaderValues
  <2>8. headers \in [Names -> 1..MaxErrors \cup {Unset}]
    BY <2>7 DEF SetHeaders
  <2> QED
    BY <2>4, <2>8 DEF errors
<1>2. CASE exception.kind \in {"app", "multi"}
  <2>1. /\ Len(errors) = Len(exception.errors) /\ Len(errors) \in Nat
        /\ \A i \in 1..Len(errors) : errors[i].status = exception.errors[i].httpStatus
        /\ \A i \in 1..Len(errors) : errors[i].headers \in Seq(Keys)
    <3>1. DOMAIN exception.errors = 1..Len(errors) /\ Len(errors) \in Nat
          /\ \A i \in DOMAIN exception.errors : errors[i].headers \in Seq(Keys)
      BY <1>2, SameHeaders
    <3>2. Len(errors) = Len(exception.errors)
          /\ \A i \in DOMAIN exception.errors : errors[i].status = exception.errors[i].httpStatus
      BY <1>2, SameClasses
    <3> QED
      BY <3>1, <3>2
  <2>2. \A i \in 1..Len(errors) : errors[i].status \in (100..599) \cup {Unset}
    <3>1. exception.errors \in Seq(AppExceptions)
      BY <1>2 DEF Thrown
    <3>2. \A i \in 1..Len(exception.errors) : exception.errors[i] \in AppExceptions
      BY <3>1, ElementOfSeq
    <3>3. \A x \in AppExceptions : x.httpStatus \in (100..599) \cup {Unset}
      BY DEF AppExceptions
    <3>4. ASSUME NEW i \in 1..Len(errors)
          PROVE  errors[i].status \in (100..599) \cup {Unset}
      <4>1. exception.errors[i] \in AppExceptions /\ errors[i].status = exception.errors[i].httpStatus
        BY <2>1, <3>2, Zenon
      <4> QED
        BY <3>3, <4>1, Zenon
    <3> QED
      BY <3>4
  <2>3. Len(errors) <= MaxErrors /\ MaxErrors \in Nat
    BY <1>2, <2>1, ExceptionFilterAssumption DEF BoundInv
  <2> HIDE DEF errors
  <2>4. StatusCode(errors) \in 100..599
    <3>1. CASE Len(errors) = 1
      <4>1. errors[1].status \in (100..599) \cup {Unset}
        BY <2>2, <3>1
      <4>2. OwnStatus(errors[1]) \in 100..599
        BY <4>1 DEF OwnStatus
      <4> QED
        BY <3>1, <4>2 DEF StatusCode
    <3>2. CASE Len(errors) # 1
      <4>1. StatusCode(errors) = 400 \/ StatusCode(errors) = 500
        BY <3>2 DEF StatusCode
      <4> QED
        BY <4>1
    <3> QED
      BY <3>1, <3>2
  <2>5. \A n \in Names : headers[n] \in 1..Len(errors) \cup {Unset}
    BY <2>1, HeaderValues
  <2>6. \A n \in Names : headers[n] \in 1..MaxErrors \cup {Unset}
    BY <2>1, <2>3, <2>5
  <2>7. headers \in [Names -> 1..MaxErrors \cup {Unset}]
    BY <2>6 DEF SetHeaders
  <2> QED
    BY <2>4, <2>7 DEF errors
<1> QED
  BY <1>1, <1>2 DEF Thrown

(* In particular a response always has a status HTTP knows.                *)
THEOREM TypeCorrect == Spec => []TypeOK
<1>1. Init => ResponseInv /\ BoundInv
  <2>1. Len(<<>>) = 0 /\ 0 <= MaxErrors
    BY ExceptionFilterAssumption
  <2> QED
    BY <2>1 DEF Init, ResponseInv, Answered, BoundInv
<1>2. ASSUME IInv, ResponseInv, BoundInv
      PROVE  TypeOK
  <2>1. ASSUME Answered
        PROVE  reply.status \in 100..599 /\ reply.headers \in [Names -> 1..MaxErrors \cup {Unset}]
    <3>1. exception # Unset /\ Thrown(exception)
      BY <1>2, <2>1 DEF Answered, IInv, ThrownInv
    <3> QED
      BY <1>2, <2>1, <3>1, ResponseTyped DEF ResponseInv, IsResponse
  <2>2. cache \in {"unresolved", "missing", "loaded"} /\ package \in BOOLEAN /\ context \in {"http", "graphql"}
    BY <1>2 DEF IInv, CacheInv
  <2>3. \A i \in DOMAIN created : created[i].code \in AllCodes /\ created[i].detail \in Details
    <3>1. \A i \in DOMAIN created : created[i] \in AppExceptions
      BY <1>2 DEF IInv, ThrownInv
    <3> QED
      BY <3>1 DEF AppExceptions
  <2>4. displayNames \in [Entities -> Displays \cup {Unset}]
    BY <1>2 DEF IInv, ThrownInv
  <2>5. reply # Unset => exception # Unset /\ created = <<>>
    BY <1>2 DEF IInv, BoundInv
  <2> QED
    BY <2>1, <2>2, <2>3, <2>4, <2>5 DEF TypeOK, Answered
<1> QED
  BY <1>1, <1>2, InitIInv, NextIInv, NextResponseInv, NextBoundInv, PTL DEF Spec
=============================================================================
