------------------------- MODULE CollectionsRefinement -------------------------
(* Collections implements Iterations: a member is an instance an iterator  *)
(* can return, an iteration is a call in progress, at its place in the     *)
(* stack, and has yet to visit what its iterator can still reach.          *)
EXTENDS Collections

Members(s, c) == IF s.coll[c].destroyed THEN {} ELSE {i \in Linked(s, c) : Valid(s, c, i)}
Running(f) == f.op \in {"iterate", "match"}
Runs(s) == [n \in {m \in DOMAIN s.stack : Running(s.stack[m])} |->
    LET f == s.stack[n]
    IN  [c |-> f.c, todo |-> ToVisit(s, f.c, f.next), stopped |-> f.pc = "stop"]]

members == [c \in Colls |-> Members(State, c)]
running == Runs(State)
Abs == INSTANCE Iterations WITH Depths <- 1 .. MaxDepth

(* Every add, delete, destruction, lock and nested iteration is a step of  *)
(* Iterations or none: an iteration misses no member that stays, repeats   *)
(* none, and visits none that left.                                        *)
ImplementsIterations == Abs!Spec
================================================================================
