---------------------------- MODULE MCSystemLock ----------------------------
(***************************************************************************)
(* Small instances of SystemLock.                                          *)
(***************************************************************************)
EXTENDS SystemLock

TwoPriorities == {1, 2}
=============================================================================
