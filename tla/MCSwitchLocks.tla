--------------------------- MODULE MCSwitchLocks ---------------------------
(* Instances of SwitchLocks.  The cells are records 0, 1 and 2 of two       *)
(* registers, the hotter the lower; the header of a packet is what          *)
(* extract_hot_cold makes of the cells that its transaction uses.           *)
EXTENDS SwitchQueue, SequencesExt

CONSTANTS p1, p2, p3, p4, p5, p6, l1, l2, l3

MCCells == [reg : {1, 2}, rec : 0 .. 2]
MCLocks == {l1, l2, l3}

\* Record 0 has no lock; with more records than locks, two share one.
MClock_pos ==
  [c \in MCCells |-> CASE c.rec = 0 -> NoLock
                       [] c.rec = 1 -> (IF c.reg = 1 THEN l1 ELSE l2)
                       [] c.rec = 2 -> l3]

a1 == [reg |-> 1, rec |-> 0]
b1 == [reg |-> 1, rec |-> 1]
c1 == [reg |-> 1, rec |-> 2]
b2 == [reg |-> 2, rec |-> 1]
c2 == [reg |-> 2, rec |-> 2]

\* p1, p2 and p3 come to the hotter record last, so that they acquire its lock;
\* the second pass of p4 has no lock; p5 comes to the hotter one first and
\* acquires the lock of the other; p6 needs one pass.
MCtrace ==
  p1 :> <<c1, b1, c2, b2>> @@ p2 :> <<c1, b1, c2, b2>> @@ p3 :> <<c1, b1, b2>> @@
  p4 :> <<b1, a1>> @@ p5 :> <<b2, c2, b1>> @@ p6 :> <<b1, b2>>
MCPkts == {p1, p2, p3, p4, p5, p6}

\* One round of extract_hot_cold: of two records of a register the hotter goes to
\* the second pass, but it is the lock of the one met last that is acquired.
Round(txn, c) ==
  LET lock == {MClock_pos[c]} \ {NoLock}
      first == {d \in txn.pass1 : d.reg = c.reg}
      hotter == CHOOSE d \in first \cup {c} : \A e \in first \cup {c} : d.rec <= e.rec
  IN  IF first = {}
      THEN [txn EXCEPT !.pass1 = @ \cup {c}, !.check = @ \cup lock]
      ELSE [txn EXCEPT !.pass1 = (@ \cup {c}) \ {hotter}, !.pass2 = @ \cup {hotter},
                       !.check = @ \cup lock, !.acquire = @ \cup lock]

Extracted ==
  [p \in MCPkts |->
     FoldLeft(Round, [pass1 |-> {}, pass2 |-> {}, check |-> {}, acquire |-> {}], MCtrace[p])]

MCpass1 == [p \in MCPkts |-> Extracted[p].pass1]
MCpass2 == [p \in MCPkts |-> Extracted[p].pass2]
MClocks_check == [p \in MCPkts |-> Extracted[p].check]
MClocks_acquire == [p \in MCPkts |-> Extracted[p].acquire]
=============================================================================
