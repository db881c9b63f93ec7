----------------------------- MODULE DiskContract -----------------------------
(***************************************************************************)
(* What @abinnovision/nestjs-flydrive promises of its disks, without the   *)
(* registry, the proxies or the module's life cycle:                       *)
(*                                                                         *)
(*  - the driver of a disk is built at most once;                          *)
(*  - whoever injects a disk, by its class or as the DefaultDisk, reaches  *)
(*    with each call the driver the disk has at that moment: the one it    *)
(*    was built with, or the last fake, until the disk is restored;        *)
(*  - who injects what a test put in a disk's place reaches that, always;  *)
(*  - a method taken from a disk keeps to the driver it was taken with.    *)
(***************************************************************************)
CONSTANTS Refs,      \* the disks
          Tokens,    \* what consumers inject: the disks and DefaultDisk
          Drivers,   \* the drivers that are built
          Fakes,     \* the drivers that replace them
          Override,  \* what a test injects in place of a disk
          Unset      \* not built, not injected, not taken

VARIABLES built,     \* the driver built for each disk
          current,   \* the driver each disk has now
          source,    \* what each token was resolved to: a disk, or Override
          reached,   \* what a call through each token's object reaches
          held       \* what a call of the method someone took reaches

vars == <<built, current, source, reached, held>>

Init ==
    /\ built = [d \in Refs |-> Unset]
    /\ current = [d \in Refs |-> Unset]
    /\ source = [t \in Tokens |-> Unset]
    /\ reached = [t \in Tokens |-> Unset]
    /\ held = Unset

(* Every token follows the disk it was resolved to.                        *)
Follow ==
    reached' = [t \in Tokens |->
        IF source'[t] \in Refs THEN current'[source'[t]] ELSE source'[t]]

(* Disks of S that have no driver yet may get one.                         *)
Build(S) ==
    /\ built' \in [Refs -> Drivers \cup {Unset}]
    /\ \A d \in Refs : built'[d] # built[d] => d \in S /\ built[d] = Unset

Fresh == [d \in Refs |-> IF built'[d] # built[d] THEN built'[d] ELSE current[d]]

(* The application starts.                                                 *)
BuildAll ==
    /\ UNCHANGED <<source, held>>
    /\ Build(Refs)
    /\ current' = Fresh
    /\ Follow

(* A token is resolved, to a disk that is built if need be.                *)
Resolve(t, d) ==
    /\ source[t] = Unset
    /\ source' = [source EXCEPT ![t] = d]
    /\ Build({d})
    /\ d \in Refs => built'[d] # Unset
    /\ current' = Fresh
    /\ UNCHANGED held
    /\ Follow

(* A fake takes a disk's place; restoring it brings the built driver back. *)
Replace(d, f) ==
    /\ UNCHANGED <<source, held>>
    /\ Build({d})
    /\ built'[d] # Unset
    /\ current' = [current EXCEPT ![d] = IF f = Unset THEN built'[d] ELSE f]
    /\ Follow

Take(t) ==
    /\ reached[t] # Unset
    /\ held' = reached[t]
    /\ UNCHANGED <<built, current, source, reached>>

Next ==
    \/ BuildAll
    \/ \E t \in Tokens, d \in Refs \cup {Override} : Resolve(t, d)
    \/ \E d \in Refs, f \in Fakes \cup {Unset} : Replace(d, f)
    \/ \E t \in Tokens : Take(t)

Spec == Init /\ [][Next]_vars
=============================================================================
