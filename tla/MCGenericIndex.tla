-------------------------- MODULE MCGenericIndex --------------------------
(***************************************************************************)
(* GenericIndex on small tables.                                           *)
(***************************************************************************)
EXTENDS GenericIndex
=============================================================================
