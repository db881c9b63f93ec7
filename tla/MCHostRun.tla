------------------------------ MODULE MCHostRun ------------------------------
(* Instance of HostRun for TLC: a Client.run of up to two inputs, whose     *)
(* second run calls ctx.run for up to two: every order of the starts,       *)
(* ends and microtasks of four runs.                                        *)
EXTENDS HostRun, TLC

CONSTANTS outer, inner

MCCalls == {outer, inner}
MCCaller == (outer :> Unset) @@ (inner :> <<outer, 2>>)
=============================================================================
