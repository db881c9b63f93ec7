------------------------- MODULE MCHostDeclaration -------------------------
(* Instance of HostDeclaration for TLC: three methods and a parent that is  *)
(* no method: every graph of three tasks, cycles and self-references        *)
(* included.                                                                *)
EXTENDS HostDeclaration

CONSTANTS reserve, charge, ship, typo

MCMethods == {reserve, charge, ship}
MCStrangers == {typo}
MCMistyped == {ship}
MCHidden == {charge}
=============================================================================
