----------------------------- MODULE MCSchedule -----------------------------
(***************************************************************************)
(* Six keys on two registers of two slots: four are hot, and a transaction  *)
(* can have two cold ones.  The frequencies have no key 7.  When key 3 is   *)
(* hotter than the rest together, a register gets a key more than U16.      *)
(* Five transactions for two workers.                                       *)
(***************************************************************************)
EXTENDS Schedule

MCKeys == 1 .. 6
MCAllKeys == 1 .. 7
MCFreqs == [Keys -> 1 .. 2] \cup {[k \in Keys |-> IF k = 3 THEN 5 ELSE 1]}
MCBlocks == {0, 1}
MCBuilds == {1, 2}
MCTraces == [1 .. N_OPS -> Keys] \cup {<<7, 1, 2>>, <<1, 7, 7>>}
MCLaterTraces == {<<5, 6, 1>>, <<1, 2, 3>>}
=============================================================================
