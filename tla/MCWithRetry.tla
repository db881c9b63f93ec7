----------------------------- MODULE MCWithRetry -----------------------------
(* Instance of WithRetry for TLC: two calls that share the signal and one   *)
(* without it, one of them with retries that fail validation.               *)
EXTENDS WithRetry, TLC

CONSTANTS fetch, poll, save, bad

MCCalls == {fetch, poll, save, bad}
MCRetries == (fetch :> 2) @@ (poll :> 1) @@ (save :> 1) @@ (bad :> NotAnInteger)
MCHasSignal == (fetch :> TRUE) @@ (poll :> TRUE) @@ (save :> FALSE) @@ (bad :> TRUE)
=============================================================================
