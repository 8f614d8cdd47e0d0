-------------------------- MODULE MCTablePrivilege --------------------------
(***************************************************************************)
(* Two models, one of their fields; every way to write up to four          *)
(* operations into at most two migrations.                                 *)
(***************************************************************************)
EXTENDS TablePrivilege, TLC
=============================================================================
