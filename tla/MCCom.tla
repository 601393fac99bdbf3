------------------------------- MODULE MCCom -------------------------------
(***************************************************************************)
(* Scripts of calls as the solvers make them, on three ranks: two calls of *)
(* COM in a row with one tag and other ranks; the exchanges of the Gauss-  *)
(* Seidel solver, where two patterns share a tag; all-to-all calls, one of *)
(* which exceeds INT_MAX on a single rank.                                 *)
(***************************************************************************)
EXTENDS Com

E(r, o) == [rank |-> r, obj |-> o, size |-> 1]
Nothing == <<>>
By(a, b, c) == [r \in Ranks |-> IF r = 0 THEN a ELSE IF r = 1 THEN b ELSE c]

First == By(<<E(1, "u"), E(2, "v"), E(1, "w")>>, <<E(1, "u"), E(0, "x")>>, Nothing)
Second == By(<<E(1, "w")>>, Nothing, <<E(0, "u"), [rank |-> 1, obj |-> "e", size |-> 0]>>)
Third == By(Nothing, <<E(0, "w")>>, <<E(1, "v"), E(0, "w")>>)

Op(call, tag, send) == [call |-> call, tag |-> tag, send |-> send]

Twice == <<Op("COM", 0, First), Op("COM", 0, Second)>>

Bottom(call) == Op(call, "BOTTOM", First)
Top(call) == Op(call, "TOP", Second)
Middle(call) == Op(call, "BOTTOM", Third)
Solver ==
    <<Bottom("COM_Pattern"), Top("COM_Pattern"), Middle("COM_Pattern"),
      Top("COM_Send"), Top("COM_Recv"), Middle("COM_Repeat"), Bottom("COM_Send"),
      Bottom("COM_Recv"), Bottom("COM_Send"), Bottom("COM_Recv"), Middle("COM_Repeat"),
      Top("COM_Send"), Top("COM_Recv")>>

(* only rank 1 receives more than it can index *)
AllToAll == <<Op("COMALL", 0, Second), Op("COMALL", 0, First), Op("COMALL2", 0, Third)>>

AllScripts == {Twice, Solver, AllToAll}
=============================================================================
