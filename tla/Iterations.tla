------------------------------- MODULE Iterations ------------------------------
(***************************************************************************)
(* What an iteration over a collection promises, whatever its callbacks    *)
(* do: it visits each member that stays until it is visited, once, no      *)
(* member that left and none that came after it began.  Iterations nest;   *)
(* the deepest one is the one that moves.                                  *)
(***************************************************************************)
EXTENDS Naturals

CONSTANTS Colls, Items, Depths
VARIABLES
    members,    \* the members of each collection, none once it is destroyed
    running     \* the iterations, by their depth: their collection, what they
                \* have yet to visit, whether their callback stopped them
vars == <<members, running>>

Init == members = [c \in Colls |-> {}] /\ running = [n \in {} |-> {}]

Deepest(n) == n \in DOMAIN running /\ \A m \in DOMAIN running : m <= n

Join(c, i) == /\ i \notin members[c]
              /\ members' = [members EXCEPT ![c] = @ \cup {i}]
              /\ UNCHANGED running

(* Members leave one or several collections, and every iteration; the call *)
(* that makes them leave may be the callback that stops the deepest one.   *)
Leave(stop) ==
    /\ members' \in [Colls -> SUBSET Items]
    /\ \A c \in Colls : members'[c] \subseteq members[c]
    /\ running' = [n \in DOMAIN running |->
           [running[n] EXCEPT !.todo = @ \cap members'[running[n].c],
                              !.stopped = @ \/ (stop /\ Deepest(n))]]

Begin(n, c) ==
    /\ \A m \in DOMAIN running : m < n
    /\ running' = [m \in DOMAIN running \cup {n} |->
           IF m = n THEN [c |-> c, todo |-> members[c], stopped |-> FALSE] ELSE running[m]]
    /\ UNCHANGED members
Visit(n, i) == /\ Deepest(n)
               /\ i \in running[n].todo /\ ~running[n].stopped
               /\ running' = [running EXCEPT ![n].todo = @ \ {i}]
               /\ UNCHANGED members
End(n) == /\ Deepest(n)
          /\ running[n].todo = {} \/ running[n].stopped
          /\ running' = [m \in DOMAIN running \ {n} |-> running[m]]
          /\ UNCHANGED members

Next == \/ \E c \in Colls, i \in Items : Join(c, i)
        \/ \E stop \in BOOLEAN : Leave(stop)
        \/ \E n \in Depths, c \in Colls : Begin(n, c)
        \/ \E n \in Depths, i \in Items : Visit(n, i)
        \/ \E n \in Depths : End(n)
Spec == Init /\ [][Next]_vars
================================================================================
