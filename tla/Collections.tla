------------------------------ MODULE Collections ------------------------------
(***************************************************************************)
(* Collections, the objects in them, and what callbacks do to both         *)
(* (collection.c, obj.c).  One thread runs; the difficulty is re-entrance: *)
(* the callback of an iteration, the holder of a lock or a reference, and  *)
(* the destructor of an object run code that adds, deletes, destroys and   *)
(* iterates again.  The C stack is the variable "stack": its top is the    *)
(* call in progress, and where its pc is "call" the code of the caller     *)
(* runs, which is any sequence of operations.                              *)
(*                                                                         *)
(* A collectible_instance is named by its collection and its item: callers *)
(* add an item where it is not linked yet.  self_locked is left out: it    *)
(* only serves to drop references when a destructor begins, when none is   *)
(* left.  A pointer to something freed is not used by the callers.         *)
(***************************************************************************)
EXTENDS Naturals, SequencesExt

CONSTANTS
    Colls,      \* the collections
    Items,      \* the objects that can be collected
    Cascade,    \* the collections of type C_CASCADE
    None,       \* the NULL pointer
    DestroyBusy,\* whether callers destroy a collection that is in use
    MaxDepth    \* bound on the nesting of calls made by callers

ASSUME CollectionAssumption ==
    /\ Cascade \subseteq Colls
    /\ None \notin Colls \cup Items
    /\ DestroyBusy \in BOOLEAN
    /\ MaxDepth \in Nat

VARIABLES
    coll,       \* struct collection: its list, its object, is_void
    item,       \* the object of an item and that of its struct collectible
    link,       \* the object of each instance
    stack       \* the calls in progress
vars == <<coll, item, link, stack>>

Ops == {"iterate", "match", "empty", "destroy", "unref", "dtor", "hold", "lock"}
Frame(op, c, i, next, pc) == [op |-> op, c |-> c, i |-> i, next |-> next, pc |-> pc]

NewColl == [order |-> <<>>, size |-> 0, ref |-> 0, destroyed |-> FALSE,
            called |-> FALSE, void |-> FALSE, freed |-> FALSE]
NewItem == [ref |-> 0, destroyed |-> FALSE, called |-> FALSE, cbRef |-> 0,
            cbDestroyed |-> FALSE, cbCalled |-> FALSE, freed |-> FALSE]
NewLink == [ref |-> 0, destroyed |-> FALSE]

(* The operations below take the state as a record and return the next one. *)
State == [coll |-> coll, item |-> item, link |-> link, stack |-> stack]
Become(s) == /\ coll' = s.coll
             /\ item' = s.item
             /\ link' = s.link
             /\ stack' = s.stack

Push(s, f) == [s EXCEPT !.stack = Append(@, f)]
Pop(s) == [s EXCEPT !.stack = Front(@)]
Top(s) == Last(s.stack)
SetTop(s, f) == [s EXCEPT !.stack[Len(s.stack)] = f]

(*------------------------ lists, iterators, instances ---------------------*)
Linked(s, c) == ToSet(s.coll[c].order)
(* What an iterator and collection_first look for: the instance, the       *)
(* collectible and its object are all valid.                               *)
Valid(s, c, i) == /\ ~s.link[c][i].destroyed
                  /\ ~s.item[i].cbDestroyed
                  /\ ~s.item[i].destroyed
                  /\ ~s.item[i].called          \* then cb->self is NULL
(* Lists: where i is, the list without it, what follows it, and what an    *)
(* iterator that is at n has before it.                                    *)
Pos(q, i) == CHOOSE k \in DOMAIN q : q[k] = i
Without(q, i) == RemoveAt(q, Pos(q, i))
After(q, i) == IF Pos(q, i) = Len(q) THEN None ELSE q[Pos(q, i) + 1]
Ahead(q, n) == IF n = None THEN {} ELSE {q[k] : k \in Pos(q, n) .. Len(q)}

(* collection_new_iterator *)
NewIterator(s, c) == IF s.coll[c].destroyed \/ s.coll[c].size = 0 THEN None
                     ELSE Head(s.coll[c].order)

(* The items an iterator at n has yet to return; collection_next returns   *)
(* the one that has the others ahead of it.                                *)
ToVisit(s, c, n) == IF s.coll[c].destroyed THEN {}
                    ELSE {i \in Ahead(s.coll[c].order, n) : Valid(s, c, i)}
Found(s, c, n) ==
    LET V == ToVisit(s, c, n)
    IN  IF V = {} THEN None ELSE CHOOSE i \in V : V \subseteq Ahead(s.coll[c].order, i)

(* Variant: the iterators stay where they are.                             *)
InstanceObjDestroyStuck(s, C, i) ==
    [s EXCEPT
        !.coll = [c \in Colls |->
            IF c \in C THEN [s.coll[c] EXCEPT !.order = Without(@, i)] ELSE s.coll[c]],
        !.link = [c \in Colls |->
            IF c \in C THEN [s.link[c] EXCEPT ![i] = NewLink] ELSE s.link[c]]]

(* instance_obj_destroy, for the instances of i in the collections C: the  *)
(* iterators that were to visit one of them move on.                       *)
InstanceObjDestroy(s, C, i) ==
    [s EXCEPT
        !.coll = [c \in Colls |->
            IF c \in C THEN [s.coll[c] EXCEPT !.order = Without(@, i)] ELSE s.coll[c]],
        !.link = [c \in Colls |->
            IF c \in C THEN [s.link[c] EXCEPT ![i] = NewLink] ELSE s.link[c]],
        !.stack = [n \in DOMAIN s.stack |->
            LET f == s.stack[n]
            IN  IF f.c \in C /\ f.next = i
                THEN [f EXCEPT !.next = After(s.coll[f.c].order, i)] ELSE f]]

(* Variant: an instance that is locked is not counted out.                 *)
InstanceDestroyUncounted(s, C, i) ==
    LET D == {c \in C : i \in Linked(s, c) /\ ~s.link[c][i].destroyed}
        F == {c \in D : s.link[c][i].ref = 0}
        marked == [s EXCEPT
            !.coll = [c \in Colls |->
                IF c \in F THEN [s.coll[c] EXCEPT !.size = @ - 1] ELSE s.coll[c]],
            !.link = [c \in Colls |->
                IF c \in D THEN [s.link[c] EXCEPT ![i].destroyed = TRUE] ELSE s.link[c]]]
    IN  InstanceObjDestroy(marked, F, i)

(* instance_destroy, for the instances of i in the collections C: an       *)
(* instance that is locked is marked, and counted out at once.             *)
InstanceDestroy(s, C, i) ==
    LET D == {c \in C : i \in Linked(s, c) /\ ~s.link[c][i].destroyed}
        marked == [s EXCEPT
            !.coll = [c \in Colls |->
                IF c \in D THEN [s.coll[c] EXCEPT !.size = @ - 1] ELSE s.coll[c]],
            !.link = [c \in Colls |->
                IF c \in D THEN [s.link[c] EXCEPT ![i].destroyed = TRUE] ELSE s.link[c]]]
    IN  InstanceObjDestroy(marked, {c \in D : s.link[c][i].ref = 0}, i)

(*-------------------------- objects and destructors -----------------------*)
(* The beginning of the destructor of an item: every one calls             *)
(* collectible_destroy first; its own code follows, in a frame.            *)
BeginDtor(s, i) ==
    LET called == [s EXCEPT !.item[i].called = TRUE]
        apart  == IF s.item[i].cbCalled THEN called
                  ELSE IF s.item[i].cbRef > 0
                  THEN [called EXCEPT !.item[i].cbDestroyed = TRUE]
                  ELSE InstanceDestroy([called EXCEPT !.item[i].cbCalled = TRUE], Colls, i)
    IN  Push(apart, Frame("dtor", None, i, None, "call"))

(* Variants: obj_destroy ignores the references, obj_unref the mark.       *)
ObjDestroyAtOnce(s, i) == IF s.item[i].called THEN s ELSE BeginDtor(s, i)
ObjUnrefOnly(s, i) == IF s.item[i].ref = 0 THEN s ELSE [s EXCEPT !.item[i].ref = @ - 1]

(* obj_destroy and obj_unref of an item.                                   *)
ObjDestroy(s, i) ==
    IF s.item[i].called THEN s
    ELSE IF s.item[i].ref > 0 THEN [s EXCEPT !.item[i].destroyed = TRUE]
    ELSE BeginDtor(s, i)
ObjUnref(s, i) ==
    IF s.item[i].ref = 0 THEN s
    ELSE LET t == [s EXCEPT !.item[i].ref = @ - 1]
         IN  IF t.item[i].destroyed /\ t.item[i].ref = 0 /\ ~t.item[i].called
             THEN BeginDtor(t, i) ELSE t

(* collectible_obj_destroy: out of all collections, then the item itself.  *)
CollectibleObjDestroy(s, i) ==
    LET apart == InstanceDestroy([s EXCEPT !.item[i].cbCalled = TRUE], Colls, i)
    IN  ObjDestroy(apart, i)
(* obj_destroy and obj_unref of the collectible in an item.                *)
CollectibleDestroy(s, i) ==
    IF s.item[i].cbCalled THEN s
    ELSE IF s.item[i].cbRef > 0 THEN [s EXCEPT !.item[i].cbDestroyed = TRUE]
    ELSE CollectibleObjDestroy(s, i)
CollectibleUnref(s, i) ==
    IF s.item[i].cbRef = 0 THEN s
    ELSE LET t == [s EXCEPT !.item[i].cbRef = @ - 1]
         IN  IF t.item[i].cbDestroyed /\ t.item[i].cbRef = 0 /\ ~t.item[i].cbCalled
             THEN CollectibleObjDestroy(t, i) ELSE t

(* obj_unref of an instance.                                               *)
InstanceUnref(s, c, i) ==
    IF s.link[c][i].ref = 0 THEN s
    ELSE LET t == [s EXCEPT !.link[c][i].ref = @ - 1]
         IN  IF t.link[c][i].destroyed /\ t.link[c][i].ref = 0
             THEN InstanceObjDestroy(t, {c}, i) ELSE t

(* collection_obj_destroy begins: no new items, and an iterator, which a   *)
(* collection that is marked destroyed does not give.                      *)
CollectionObjDestroy(s, c) ==
    Push([s EXCEPT !.coll[c].called = TRUE, !.coll[c].void = TRUE],
         Frame("destroy", c, None, NewIterator(s, c), "next"))
CollectionDestroy(s, c) ==
    IF s.coll[c].called THEN s
    ELSE IF s.coll[c].ref > 0 THEN [s EXCEPT !.coll[c].destroyed = TRUE]
    ELSE CollectionObjDestroy(s, c)
CollectionUnref(s, c) ==
    IF s.coll[c].ref = 0 THEN s
    ELSE LET t == [s EXCEPT !.coll[c].ref = @ - 1]
         IN  IF t.coll[c].destroyed /\ t.coll[c].ref = 0 /\ ~t.coll[c].called
             THEN CollectionObjDestroy(t, c) ELSE t

(* collection_lock refuses what is not valid and a void collection;        *)
(* collection_unlock does not ask whether the lock was had.                *)
LockItem(s, c, i) ==
    IF s.coll[c].destroyed \/ s.coll[c].void \/ ~Valid(s, c, i) THEN s
    ELSE [s EXCEPT !.coll[c].ref = @ + 1, !.item[i].ref = @ + 1,
                   !.item[i].cbRef = @ + 1, !.link[c][i].ref = @ + 1]
(* Variant: the collection stays locked.                                   *)
UnlockItemOnly(s, c, i) ==
    IF i \notin Linked(s, c) THEN s
    ELSE LET t == CollectibleUnref(InstanceUnref(s, c, i), i)
         IN  IF t.item[i].called THEN t ELSE ObjUnref(t, i)
UnlockItem(s, c, i) ==
    IF i \notin Linked(s, c) THEN s
    ELSE LET t == CollectibleUnref(
                      InstanceUnref(Push(s, Frame("unref", c, None, None, "next")), c, i), i)
         IN  IF t.item[i].called THEN t ELSE ObjUnref(t, i)

(*------------------------------ calls in progress -------------------------*)
CallerRuns == stack # <<>> => Last(stack).pc = "call"
CanNest == CallerRuns /\ Len(stack) < MaxDepth
InUse(c) == \E n \in DOMAIN stack : stack[n].c = c

Init == /\ coll = [c \in Colls |-> NewColl]
        /\ item = [i \in Items |-> NewItem]
        /\ link = [c \in Colls |-> [i \in Items |-> NewLink]]
        /\ stack = <<>>

(* Variant: an item is added last.                                         *)
AddLast(c, i) ==
    /\ CallerRuns /\ ~coll[c].freed /\ ~item[i].freed
    /\ i \notin Linked(State, c)
    /\ Valid(State, c, i) /\ ~coll[c].destroyed /\ ~coll[c].void
    /\ coll' = [coll EXCEPT ![c].order = @ \o <<i>>, ![c].size = @ + 1]
    /\ UNCHANGED <<item, link, stack>>

(* collection_add, at the front, where the assertions let it.              *)
Add(c, i) ==
    /\ CallerRuns /\ ~coll[c].freed /\ ~item[i].freed
    /\ i \notin Linked(State, c)
    /\ Valid(State, c, i) /\ ~coll[c].destroyed /\ ~coll[c].void
    /\ coll' = [coll EXCEPT ![c].order = <<i>> \o @, ![c].size = @ + 1]
    /\ UNCHANGED <<item, link, stack>>

(* collection_delete *)
Delete(c, i) ==
    /\ CallerRuns /\ ~coll[c].freed /\ ~item[i].freed
    /\ i \in Linked(State, c) /\ ~link[c][i].destroyed
    /\ Become(InstanceDestroy(State, {c}, i))

(* collection_movelast; its comment forbids it during an iteration.        *)
MoveLast(c, i) ==
    /\ CallerRuns /\ ~coll[c].freed /\ ~InUse(c)
    /\ i \in Linked(State, c) /\ Valid(State, c, i) /\ ~coll[c].destroyed
    /\ coll' = [coll EXCEPT ![c].order = Without(@, i) \o <<i>>]
    /\ UNCHANGED <<item, link, stack>>

(* collection_void; callers void what they do not match any more, and do   *)
(* not match or lock in it afterwards.                                     *)
MakeVoid(c) ==
    /\ CallerRuns /\ ~coll[c].freed
    /\ ~\E n \in DOMAIN stack : stack[n].op = "match" /\ stack[n].c = c
    /\ coll' = [coll EXCEPT ![c].void = TRUE]
    /\ UNCHANGED <<item, link, stack>>

DestroyItem(i) ==
    /\ CallerRuns /\ ~item[i].freed
    /\ Become(ObjDestroy(State, i))

DestroyCollection(c) ==
    /\ CallerRuns /\ ~coll[c].freed
    /\ coll[c].ref > 0 => DestroyBusy
    /\ Become(CollectionDestroy(State, c))

(* obj_ref by a caller, until the frame returns.                           *)
Hold(i) ==
    /\ CanNest /\ ~item[i].freed
    /\ Become(Push([State EXCEPT !.item[i].ref = @ + 1],
                   Frame("hold", None, i, None, "call")))

(* collection_lock by a caller (socket_poll_monitors), until it unlocks.   *)
Lock(c, i) ==
    /\ CanNest /\ ~coll[c].freed
    /\ i \in Linked(State, c) /\ Valid(State, c, i) /\ ~coll[c].destroyed
    /\ ~coll[c].void
    /\ Become(Push(LockItem(State, c, i), Frame("lock", c, i, None, "call")))

(* collection_empty, collection_iterate and collection_match begin.        *)
Begin(op, c) ==
    /\ CanNest /\ ~coll[c].freed /\ ~coll[c].destroyed
    /\ op = "match" => ~coll[c].void
    /\ Become(Push([State EXCEPT !.coll[c].ref = @ + 1],
                   Frame(op, c, None, NewIterator(State, c), "next")))

(* The loop of an iteration: collection_next, then the callback, or the    *)
(* end.  A match locks the item first, an iteration forgets it.            *)
Advance ==
    LET f == Last(stack)
        x == Found(State, f.c, f.next)
        Called(i) == SetTop(State, Frame(f.op, f.c, i, After(coll[f.c].order, x), "call"))
    IN  /\ stack # <<>> /\ f.op \in {"iterate", "match"} /\ f.pc = "next" /\ x # None
        /\ Become(IF f.op = "match" THEN LockItem(Called(x), f.c, x) ELSE Called(None))
Finish ==
    LET f == Last(stack)
    IN  /\ stack # <<>> /\ f.op \in {"iterate", "match"}
        /\ \/ f.pc = "stop"
           \/ f.pc = "next" /\ Found(State, f.c, f.next) = None
        /\ Become(CollectionUnref(Pop(State), f.c))

(* The callback of an iteration returns and asks to stop or to go on.  A   *)
(* match that finds its collection destroyed leaves without unlocking.     *)
CallbackReturns(stop) ==
    LET f == Last(stack)
        gone == coll[f.c].destroyed
        t == SetTop(State, [f EXCEPT !.i = None,
                                     !.pc = IF stop \/ gone THEN "stop" ELSE "next"])
    IN  /\ stack # <<>> /\ f.op \in {"iterate", "match"} /\ f.pc = "call"
        /\ Become(IF f.op = "match" /\ ~gone THEN UnlockItem(t, f.c, f.i) ELSE t)

(* The loop of collection_empty and of collection_obj_destroy.             *)
Sweep ==
    LET f == Last(stack)
        x == Found(State, f.c, f.next)
        out == InstanceDestroy(
                   SetTop(State, [f EXCEPT !.next = After(coll[f.c].order, x)]), {f.c}, x)
    IN  /\ stack # <<>> /\ f.op \in {"empty", "destroy"} /\ x # None
        /\ Become(IF f.c \in Cascade THEN CollectibleDestroy(out, x) ELSE out)
SweepEnds ==
    LET f == Last(stack)
    IN  /\ stack # <<>> /\ f.op \in {"empty", "destroy"}
        /\ Found(State, f.c, f.next) = None
        /\ Become(IF f.op = "empty" THEN CollectionUnref(Pop(State), f.c)
                  ELSE [Pop(State) EXCEPT !.coll[f.c].freed = TRUE])

(* The code that holds, locks or destroys an item is done; the reference   *)
(* of a lock to its collection goes last.                                  *)
Return ==
    LET f == Last(stack)
    IN  /\ stack # <<>>
        /\ \/ f.op = "hold" /\ Become(ObjUnref(Pop(State), f.i))
           \/ f.op = "lock" /\ Become(UnlockItem(Pop(State), f.c, f.i))
           \/ f.op = "dtor" /\ Become([Pop(State) EXCEPT !.item[f.i].freed = TRUE])
           \/ f.op = "unref" /\ Become(CollectionUnref(Pop(State), f.c))

Next ==
    \/ \E c \in Colls, i \in Items : Add(c, i) \/ Delete(c, i) \/ MoveLast(c, i) \/ Lock(c, i)
    \/ \E c \in Colls : MakeVoid(c) \/ DestroyCollection(c)
    \/ \E c \in Colls, op \in {"iterate", "match", "empty"} : Begin(op, c)
    \/ \E i \in Items : DestroyItem(i) \/ Hold(i)
    \/ Advance \/ Finish \/ Sweep \/ SweepEnds \/ Return
    \/ \E stop \in BOOLEAN : CallbackReturns(stop)

Spec == Init /\ [][Next]_vars

(*------------------------------- properties -------------------------------*)
(* Every variable has its type; the list of a collection names an item at  *)
(* most once.                                                              *)
TypeOK ==
    /\ coll \in [Colls -> [order : Seq(Items), size : Nat, ref : Nat, destroyed : BOOLEAN,
                           called : BOOLEAN, void : BOOLEAN, freed : BOOLEAN]]
    /\ \A c \in Colls : IsInjective(coll[c].order)
    /\ item \in [Items -> [ref : Nat, destroyed : BOOLEAN, called : BOOLEAN, cbRef : Nat,
                           cbDestroyed : BOOLEAN, cbCalled : BOOLEAN, freed : BOOLEAN]]
    /\ link \in [Colls -> [Items -> [ref : Nat, destroyed : BOOLEAN]]]
    /\ stack \in Seq([op : Ops, c : Colls \cup {None}, i : Items \cup {None},
                      next : Items \cup {None}, pc : {"call", "next", "stop"}])

(* collection_size counts the instances that are not marked destroyed,     *)
(* however an item leaves: deleted, destroyed, locked or not, or twice.    *)
SizesAgree ==
    \A c \in Colls : ~coll[c].freed =>
        coll[c].size = Cardinality({i \in Linked(State, c) : ~link[c][i].destroyed})

(* The next item of an iterator is still linked in the collection, so that *)
(* whatever was deleted or destroyed since, collection_next reads an       *)
(* instance that exists.                                                   *)
NextIsLinked ==
    \A n \in DOMAIN stack : stack[n].next # None =>
        stack[n].next \in Linked(State, stack[n].c)

(* What a call in progress holds, by obj_ref, by a lock, or as the         *)
(* collection it iterates, is not freed before it lets go, and nothing is  *)
(* destructed twice.                                                       *)
DestructedIn(n, i) == \E m \in n + 1 .. Len(stack) : stack[m].op = "dtor" /\ stack[m].i = i
HeldStays ==
    \A n \in DOMAIN stack : LET f == stack[n] IN
        /\ f.i # None => ~item[f.i].freed /\ ~DestructedIn(n, f.i)
        /\ f.c # None => ~coll[f.c].freed
        /\ f.op = "destroy" =>
               ~\E m \in n + 1 .. Len(stack) : stack[m].op = "destroy" /\ stack[m].c = f.c

(* An item is out of every collection when its destructor is done, and a   *)
(* collection that is freed keeps none but those that were marked, itself  *)
(* or its collectible, while somebody held them.                           *)
LinksAreLive ==
    \A c \in Colls : \A i \in Linked(State, c) :
        ~item[i].freed /\ (coll[c].freed => item[i].destroyed \/ item[i].cbDestroyed)

(* Lists, their sizes and the items in them agree (collection.c:61, 680).  *)
ListsAgree == TypeOK /\ SizesAgree /\ LinksAreLive

(* The references to an object are the calls in progress that hold it: a   *)
(* collection by iterating or unlocking in it and by the locks on its      *)
(* items, an item by obj_ref and by the locks on it.                       *)
LocksIt(f) == f.op = "lock" \/ (f.op = "match" /\ f.pc = "call")
Users(s, c) == {n \in DOMAIN s.stack : LET f == s.stack[n] IN
                   f.c = c /\ f.op \in {"iterate", "match", "empty", "unref"}}
Lockers(s, c) == {n \in DOMAIN s.stack : s.stack[n].c = c /\ LocksIt(s.stack[n])}
Holders(s, i) == {n \in DOMAIN s.stack : LET f == s.stack[n] IN
                     f.i = i /\ (f.op = "hold" \/ LocksIt(f))}
RefsAreHeld ==
    /\ \A c \in Colls :
           coll[c].ref = Cardinality(Users(State, c)) + Cardinality(Lockers(State, c))
    /\ \A i \in Items : item[i].ref = Cardinality(Holders(State, i))

(* When no call is in progress nothing is left half destroyed: what was    *)
(* marked is freed, and no instance waits for an unlock.                   *)
NothingLeft ==
    stack = <<>> =>
        /\ \A c \in Colls : coll[c].destroyed \/ coll[c].called => coll[c].freed
        /\ \A i \in Items : item[i].destroyed \/ item[i].called => item[i].freed
        /\ \A c \in Colls : \A i \in Linked(State, c) : ~link[c][i].destroyed
================================================================================
