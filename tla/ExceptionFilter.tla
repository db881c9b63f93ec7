---------------------------- MODULE ExceptionFilter ----------------------------
(***************************************************************************)
(* packages/exceptions: what the client of a failed request is told. A     *)
(* handler creates AppExceptions, some about an entity, and throws one or  *)
(* a MultiAppException of them; or Nest throws an HttpException, or        *)
(* anything else is thrown. GenericExceptionFilter.catch turns it into a   *)
(* list of errors and that into an HTTP response or an exception for the   *)
(* GraphQL driver. Requests come one after the other: they share the       *)
(* cached GraphQLError constructor and the global display names, which may *)
(* be configured at any time.                                              *)
(***************************************************************************)
EXTENDS Integers, Sequences, FiniteSets, SequencesExt

CONSTANTS Codes,      \* error codes the application's exception classes have
          Classes,    \* those classes: their code and HTTP status, if any
          Keys,       \* header keys, spellings of ...
          Names,      \* ... header names, of which HTTP ignores the case
          NameOf,     \* [Keys -> Names]
          Entities,   \* entity names
          Displays,   \* display names
          NotFound,   \* the code of EntityNotFoundException
          MutationFailed,  \* ... of EntityMutationFailedException
          Internal,   \* code and detail of INTERNAL_SERVER_ERROR
          HttpCode,   \* the code of an HttpException
          HttpStatuses,  \* statuses of HttpExceptions
          Text,       \* a detail without a display name
          Unset,      \* JavaScript's undefined
          MaxErrors,  \* bound: exceptions a request creates
          MaxHeaders  \* bound: headers of an exception

AllCodes == Codes \cup {NotFound, MutationFailed, Internal, HttpCode}
Details == Entities \cup Displays \cup {Text}

ASSUME ExceptionFilterAssumption ==
    /\ Classes \subseteq [code : Codes, status : (100..599) \cup {Unset}]
    /\ HttpStatuses \subseteq 100..599
    /\ NameOf \in [Keys -> Names]
    /\ {NotFound, MutationFailed, Internal, HttpCode} \cap Codes = {}
    /\ Internal \notin Details
    /\ Unset \notin 100..599 /\ Unset \notin AllCodes \cup Displays
    /\ MaxErrors \in Nat /\ MaxHeaders \in Nat

VARIABLES package,    \* external: is the graphql package installed
          cache,      \* graphqlResolved, cachedGraphQLError: "unresolved",
                      \*   "missing", "loaded"
          displayNames,  \* globalDisplayNames
          context,    \* what the failing request is: "http" or "graphql"
          created,    \* the AppExceptions it has created
          exception,  \* what was thrown, Unset before
          reply       \* what catch() did about it, Unset before

vars == <<package, cache, displayNames, context, created, exception, reply>>

Init ==
    /\ package \in BOOLEAN
    /\ cache = "unresolved"
    /\ displayNames = [e \in Entities |-> Unset]
    /\ context \in {"http", "graphql"}
    /\ created = <<>>
    /\ exception = Unset
    /\ reply = Unset

-----------------------------------------------------------------------------
(* The application *)

(* configureEntityNameRenderer, resetEntityNameRenderer: the whole table   *)
(* is replaced.                                                            *)
Configure(table) ==
    /\ displayNames' = table
    /\ UNCHANGED <<package, cache, context, created, exception, reply>>

DisplayName(e) == IF displayNames[e] = Unset THEN e ELSE displayNames[e]

(* An AppException: `headers` are its keys in their order; those of the    *)
(* i-th error have value i. A class need not implement HttpAwareException  *)
(* to have a property named headers.                                       *)
AppException(class, entity, detail, headers) ==
    [code |-> class.code, httpStatus |-> class.status, headers |-> headers,
     entity |-> entity, detail |-> detail]

Create(class, entity, detail, headers) ==
    /\ exception = Unset /\ Len(created) < MaxErrors
    /\ created' = Append(created, AppException(class, entity, detail, headers))
    /\ UNCHANGED <<package, cache, displayNames, context, exception, reply>>

(* The constructor of EntityFocusedAppException renders the name; its two  *)
(* subclasses choose the text around it.                                   *)
EntityNotFoundException == [code |-> NotFound, status |-> 404]
EntityMutationFailedException == [code |-> MutationFailed, status |-> 400]
CreateAboutEntity(class, e) == Create(class, e, DisplayName(e), <<>>)

Headers == {ks \in BoundedSeq(Keys, MaxHeaders) : IsInjective(ks)}

(* The request fails; what was created and is not thrown is lost.          *)
Fails ==
    /\ exception = Unset
    /\ created' = <<>>
    /\ UNCHANGED <<package, cache, displayNames, context, reply>>

ThrowAppException ==
    Fails /\ \E i \in DOMAIN created : exception' = [kind |-> "app", errors |-> <<created[i]>>]
ThrowMultiAppException == Fails /\ exception' = [kind |-> "multi", errors |-> created]
ThrowHttpException(status) == Fails /\ exception' = [kind |-> "http", status |-> status]
ThrowOther == Fails /\ exception' = [kind |-> "other"]

-----------------------------------------------------------------------------
(* The intermediate error objects *)

(* convertAppException: without a status, headers are not looked at.       *)
(* The detail is the message rendered by the constructor.                  *)
Rendered_Late(x) == IF x.entity = Unset THEN x.detail ELSE DisplayName(x.entity)
Rendered(x) == x.detail

IsHttpAware(x) == x.httpStatus # Unset
ConvertAppException(x) ==
    [code |-> x.code, status |-> x.httpStatus, detail |-> Rendered(x),
     headers |-> IF IsHttpAware(x) THEN x.headers ELSE <<>>]

InternalServerError == [code |-> Internal, status |-> 500, detail |-> Internal, headers |-> <<>>]

Convert(x) ==
    CASE x.kind \in {"app", "multi"} ->
            [i \in DOMAIN x.errors |-> ConvertAppException(x.errors[i])]
      [] x.kind = "http" -> <<[code |-> HttpCode, status |-> x.status, detail |-> Text, headers |-> <<>>]>>
      [] x.kind = "other" -> <<InternalServerError>>

-----------------------------------------------------------------------------
(* resolveStatusCodeForHttp *)

OfClass(errors, n) ==
    {i \in DOMAIN errors : errors[i].status # Unset /\ errors[i].status \div 100 = n}
OwnStatus(e) == IF e.status = Unset THEN 500 ELSE e.status

ClientErrorsPrevail_Tie(errors) == Cardinality(OfClass(errors, 4)) >= Cardinality(OfClass(errors, 5))
ClientErrorsPrevail(errors) == Cardinality(OfClass(errors, 4)) > Cardinality(OfClass(errors, 5))

StatusCode(errors) ==
    IF Len(errors) = 1 THEN OwnStatus(errors[1])
    ELSE IF ClientErrorsPrevail(errors) THEN 400 ELSE 500

(* aggregateHeaders: a record in order of insertion; a key that is there   *)
(* keeps its place and gets the new value.                                 *)
Put_KeepsFirst(record, key, v) ==
    IF \E i \in DOMAIN record : record[i].key = key THEN record
    ELSE Append(record, [key |-> key, value |-> v])
Put(record, key, v) ==
    IF \E i \in DOMAIN record : record[i].key = key
    THEN [i \in DOMAIN record |-> IF record[i].key = key THEN [key |-> key, value |-> v] ELSE record[i]]
    ELSE Append(record, [key |-> key, value |-> v])

Assigned(record, keys, v) ==
    LET assigned[k \in 0..Len(keys)] ==
            IF k = 0 THEN record ELSE Put(assigned[k - 1], keys[k], v)
    IN  assigned[Len(keys)]

AggregatedHeaders(errors) ==
    LET aggregated[i \in 0..Len(errors)] ==
            IF i = 0 THEN <<>> ELSE Assigned(aggregated[i - 1], errors[i].headers, i)
    IN  aggregated[Len(errors)]

(* response.setHeader for each of them, the last of a name being kept;     *)
(* HTTP ignores the case of names.                                         *)
SetHeaders(record) ==
    [n \in Names |->
        LET named == {i \in DOMAIN record : NameOf[record[i].key] = n}
        IN  IF named = {} THEN Unset ELSE record[Max(named)].value]

-----------------------------------------------------------------------------
(* resolveGraphQLError: the package is required once, the result kept.     *)
Resolved ==
    IF cache # "unresolved" THEN cache ELSE IF package THEN "loaded" ELSE "missing"

(* What is told of each error: all but its headers.                        *)
Told(errors) ==
    [i \in DOMAIN errors |->
        [code |-> errors[i].code, status |-> errors[i].status, detail |-> errors[i].detail]]

CatchHttp ==
    /\ exception # Unset /\ reply = Unset /\ context = "http"
    /\ LET errors == Convert(exception)
       IN reply' = [status |-> StatusCode(errors),
                    headers |-> SetHeaders(AggregatedHeaders(errors)),
                    errors |-> Told(errors)]
    /\ UNCHANGED <<package, cache, displayNames, context, created, exception>>

(* createGraphQLError: the first error's code, and its detail or all of    *)
(* the errors; without the package a plain Error with the first detail.    *)
CatchGraphQL ==
    /\ exception # Unset /\ reply = Unset /\ context = "graphql"
    /\ cache' = Resolved
    /\ LET errors == Convert(exception)
           primary == IF errors = <<>> THEN InternalServerError ELSE errors[1]
       IN reply' = IF Resolved = "missing" THEN [type |-> "Error", detail |-> primary.detail]
                   ELSE IF Len(errors) > 1
                   THEN [type |-> "GraphQLErrors", code |-> primary.code, errors |-> Told(errors)]
                   ELSE [type |-> "GraphQLError", code |-> primary.code, detail |-> primary.detail]
    /\ UNCHANGED <<package, displayNames, context, created, exception>>

(* The next request.                                                       *)
Done ==
    /\ reply # Unset
    /\ exception' = Unset /\ reply' = Unset
    /\ context' \in {"http", "graphql"}
    /\ UNCHANGED <<package, cache, displayNames, created>>

Next ==
    \/ \E table \in [Entities -> Displays \cup {Unset}] : Configure(table)
    \/ \E class \in Classes, headers \in Headers : Create(class, Unset, Text, headers)
    \/ \E e \in Entities :
          \/ CreateAboutEntity(EntityNotFoundException, e)
          \/ CreateAboutEntity(EntityMutationFailedException, e)
    \/ ThrowAppException \/ ThrowMultiAppException
    \/ \E status \in HttpStatuses : ThrowHttpException(status)
    \/ ThrowOther
    \/ CatchHttp \/ CatchGraphQL \/ Done

Spec == Init /\ [][Next]_vars

-----------------------------------------------------------------------------
(* Properties *)

(* The type invariant: in particular a response always has a status.       *)
TypeOK ==
    /\ package \in BOOLEAN
    /\ cache \in {"unresolved", "missing", "loaded"}
    /\ context \in {"http", "graphql"}
    /\ displayNames \in [Entities -> Displays \cup {Unset}]
    /\ reply # Unset => exception # Unset /\ created = <<>>
    /\ reply # Unset /\ context = "http" =>
          /\ reply.status \in 100..599
          /\ reply.headers \in [Names -> 1..MaxErrors \cup {Unset}]
    /\ \A i \in DOMAIN created :
          created[i].code \in AllCodes /\ created[i].detail \in Details

AppStatuses == [i \in DOMAIN exception.errors |-> exception.errors[i].httpStatus]
Count(s, n) == Cardinality({i \in DOMAIN s : s[i] # Unset /\ s[i] \div 100 = n})
Answered == reply # Unset /\ context = "http"

(* One error is answered with its own status. Several, or none, are        *)
(* answered with 400 exactly if more of them have a 4xx than a 5xx status, *)
(* in whatever order they come; else with 500. Those with another status   *)
(* or none count for neither side, so it is not, as the comment of         *)
(* resolveStatusCodeForHttp has it, "400 if most are 4xx errors": one 409  *)
(* among errors without a status, each a 500 by itself, makes it a 400.    *)
StatusReflectsErrors ==
    Answered =>
        IF exception.kind = "other" THEN reply.status = 500
        ELSE IF exception.kind = "http" THEN reply.status = exception.status
        ELSE IF Len(exception.errors) = 1
        THEN reply.status = IF AppStatuses[1] = Unset THEN 500 ELSE AppStatuses[1]
        ELSE LET surplus == Count(AppStatuses, 4) - Count(AppStatuses, 5)
             IN reply.status = IF surplus > 0 THEN 400 ELSE 500

(* "Later errors take precedence for duplicate header keys": of a header   *)
(* in one spelling, the response carries the value of the last error that  *)
(* has both the header and a status; a header no such error has is not     *)
(* set. Of a header in several spellings it carries the last value of the  *)
(* spelling that came up last, even where another spelling came again      *)
(* later: the keys of a record keep the places they first got.             *)
Carriers(key) == {i \in DOMAIN exception.errors :
    exception.errors[i].httpStatus # Unset /\ key \in ToSet(exception.errors[i].headers)}

UsedAhead(l, k) ==
    \E i \in Carriers(l) : \E p \in DOMAIN exception.errors[i].headers :
        /\ exception.errors[i].headers[p] = l
        /\ \A j \in Carriers(k) : \A q \in DOMAIN exception.errors[j].headers :
              exception.errors[j].headers[q] = k => i < j \/ (i = j /\ p < q)

LaterErrorsWin ==
    Answered =>
        \A n \in Names :
            IF exception.kind \in {"http", "other"} THEN reply.headers[n] = Unset
            ELSE LET used == {k \in Keys : NameOf[k] = n /\ Carriers(k) # {}}
                 IN IF used = {} THEN reply.headers[n] = Unset
                    ELSE \E k \in used :
                        /\ \A l \in used \ {k} : UsedAhead(l, k)
                        /\ reply.headers[n] \in Carriers(k)
                        /\ \A i \in Carriers(k) : i <= reply.headers[n]

(* An HTTP client is told of every error, in order, with its code, its     *)
(* status and its detail as it was when the exception was created, however *)
(* the display names have been configured since; an unexpected exception   *)
(* reveals nothing of itself. A GraphQL client gets a GraphQLError if the  *)
(* package is there, at every request; it names the errors if they are     *)
(* several. Without the package it is told the first detail and no more.   *)
RepliesComplete ==
    reply # Unset =>
        LET expected ==
              CASE exception.kind = "other" -> <<[code |-> Internal, status |-> 500, detail |-> Internal]>>
                [] exception.kind = "http" ->
                      <<[code |-> HttpCode, status |-> exception.status, detail |-> Text]>>
                [] OTHER -> [i \in DOMAIN exception.errors |->
                      LET x == exception.errors[i]
                      IN [code |-> x.code, status |-> x.httpStatus, detail |-> x.detail]]
            first == IF expected = <<>> THEN [code |-> Internal, detail |-> Internal] ELSE Head(expected)
        IN IF context = "http" THEN reply.errors = expected
           ELSE reply =
              IF ~package THEN [type |-> "Error", detail |-> first.detail]
              ELSE IF Len(expected) > 1
              THEN [type |-> "GraphQLErrors", code |-> first.code, errors |-> expected]
              ELSE [type |-> "GraphQLError", code |-> first.code, detail |-> first.detail]
=============================================================================
