-------------------------- MODULE MCDomainController ---------------------------
(***************************************************************************)
(* DomainController with interchangeable queries.                          *)
(***************************************************************************)
EXTENDS DomainController, TLC

Interchangeable == Permutations(Proc)
================================================================================
