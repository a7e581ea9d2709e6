---------------------------- MODULE MCSwitchSim ----------------------------
(***************************************************************************)
(* Small traces for the simulator.                                         *)
(***************************************************************************)
EXTENDS SwitchSim

CONSTANTS k1, k2, k3, k4, k5

MCKeys == {k1, k2, k3, k4, k5}

\* Lines that name a key twice, and a fifth key that is cold.  In the second trace a
\* transaction that wants two locks follows one that may hold one of them, so that an
\* undo is of one alone.
MCYcsbTraces ==
  {<< <<k1, k2, k3, k1>>, <<k3, k4, k1>>, <<k4, k2, k5>>, <<k3, k4, k3>> >>,
   << <<k1, k2, k3, k1>>, <<k3, k4, k1>>, <<k4, k2, k5, k3, k1>>, <<k3, k4, k3>> >>}

\* Draws that have to be repeated.
MCSynDraws == {<< <<k1, k1, k2>>, <<k2, k2, k1>>, <<k3, k4>>, <<k2, k3>> >>}

\* Two orders one after the other.
MCOrders == {<< <<1, k1>>, <<1, k2>>, <<1, k3>>, <<2, k3>>, <<2, k1>>, <<3, k2>>, <<3, k3>> >>}
=============================================================================
