------------------------------ MODULE PacketQueue ------------------------------
(***************************************************************************)
(* What packets and io promise to the two ends of a connection: packets    *)
(* are read whole, in the order in which they were written and unchanged,  *)
(* and all of them unless the connection ends.                             *)
(***************************************************************************)
EXTENDS Naturals, Sequences
CONSTANT Packets
VARIABLES given, taken, over
vars == <<given, taken, over>>

Init == given = <<>> /\ taken = <<>> /\ over = FALSE
Put(p) == given' = Append(given, p) /\ UNCHANGED <<taken, over>>
Take == /\ ~over /\ Len(taken) < Len(given)
        /\ taken' = Append(taken, given[Len(taken) + 1])
        /\ UNCHANGED <<given, over>>
End == over' = TRUE /\ UNCHANGED <<given, taken>>
(* The next connection.                                                    *)
Again == over /\ given' = <<>> /\ taken' = <<>> /\ over' = FALSE

Next == Take \/ End \/ Again \/ \E p \in Packets : Put(p)
Spec == Init /\ [][Next]_vars /\ WF_vars(Take)
================================================================================
