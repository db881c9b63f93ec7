-------------------------- MODULE MCExceptionFilter --------------------------
(* Instance of ExceptionFilter for TLC: exceptions of up to three errors,   *)
(* without status, 4xx or 5xx, some with one or both spellings of a header, *)
(* some about an entity.                                                    *)
EXTENDS ExceptionFilter, TLC

CONSTANTS retryAfter, upper, lower, conflict, overload, domain, user, account

MCClasses == {[code |-> conflict, status |-> 409], [code |-> overload, status |-> 503],
              [code |-> domain, status |-> Unset]}
MCKeys == {upper, lower}
MCNameOf == (upper :> retryAfter) @@ (lower :> retryAfter)
=============================================================================
