------------------------------- MODULE Values -------------------------------
(* The absent value: the zero value of a Go variable, an empty string, SQL NULL. *)
CONSTANT None
=============================================================================
