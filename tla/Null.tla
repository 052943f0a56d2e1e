----------------------------------- MODULE Null ---------------------------------
(***************************************************************************)
(* The null pointer, which the components that hold pointers share.        *)
(***************************************************************************)
CONSTANT NULL
=================================================================================
