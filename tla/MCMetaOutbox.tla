---------------------------- MODULE MCMetaOutbox ----------------------------
(* A small instance of MetaOutbox. *)
EXTENDS MetaOutbox
=============================================================================
