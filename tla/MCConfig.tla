------------------------------ MODULE MCConfig ------------------------------
(***************************************************************************)
(* Small instances of Config: two threads, one or two variables, up to     *)
(* four listeners.                                                         *)
(***************************************************************************)
EXTENDS Config, TLC

CONSTANTS t1, t2, o1, o2, l1, l2, l3, l4

Same == [n \in Names |-> n]
UpperLower == "port" :> "port" @@ "Port" :> "port" @@ "?" :> "?"

AllReturn == [l \in Listeners |-> "return"]
Throwing == [l \in Listeners |-> IF l = l2 THEN "throw" ELSE "return"]
\* These end in a deadlock.
ReadingEachOther == [l \in Listeners |-> "getOther"]
LookingUp == [l \in Listeners |-> "Lookup"]
ReadingOwn == [l \in Listeners |-> "getOwn"]

OneEntry == << <<"Port", 1>> >>
NoEntry == << >>
=============================================================================
