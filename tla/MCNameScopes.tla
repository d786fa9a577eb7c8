---------------------------- MODULE MCNameScopes ----------------------------
(***************************************************************************)
(* A small instance of NameScopes: two identifiers, a file, one it imports *)
(* and one it does not.                                                    *)
(***************************************************************************)
EXTENDS NameScopes
=============================================================================
