----------------------------- MODULE MCFieldSet -----------------------------
(***************************************************************************)
(* A small instance of FieldSet.  A message type with                      *)
(*   oneof { 1: a string; 3: a message }, 5: a number without presence,    *)
(*   4: a repeated extension; and number 2, a scalar, that it does not know. *)
(***************************************************************************)
EXTENDS FieldSet

MCOneofs == {{1, 3}}
=============================================================================
