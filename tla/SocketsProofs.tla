----------------------------- MODULE SocketsProofs -----------------------------
(***************************************************************************)
(* The safety of Sockets, for any number of users, descriptors and         *)
(* monitors and any size of a set.                                         *)
(*                                                                         *)
(* That a callback runs for the descriptor its user has now rests on three *)
(* things together: callbacks are hooked on the monitor of the descriptor  *)
(* their user has, and on no other (Hooked); a monitor that is dead but    *)
(* still in the set has lost its callbacks, except while the last of them  *)
(* runs (DeadIsLeft); and the set holds no monitor that was made since the *)
(* poll (HeldInBatch, HookedWerePolled).                                   *)
(***************************************************************************)
EXTENDS Sockets, TLAPS

Monitor == [on : BOOLEAN, fd : Fds \cup {None}, dead : BOOLEAN, connected : BOOLEAN,
            listening : BOOLEAN, held : BOOLEAN, marked : BOOLEAN]
InBatch(m) == \E i \in 1 .. Len(batch) : batch[i] = m
Passing == at \notin {"idle", "collect"}

Shape ==
    /\ fd \in [Users -> Fds \cup {None}] /\ polled \subseteq Users
    /\ mon \in [Monitors -> Monitor] /\ hooks \in [Monitors -> SUBSET Users]
    /\ left \subseteq Monitors /\ batch \in Seq(Monitors) /\ setsize \in Nat \ {0}
    /\ at \in {"idle", "collect", "begin", "write", "timeouts", "destroy", "cleanup"}
    /\ call = NoCall \/ call.user \in Users

(* Where the loop is says whether there is a set, and callbacks run while  *)
(* it is handled.                                                          *)
Places ==
    /\ at = "idle" => batch = <<>>
    /\ Passing => batch # <<>>
    /\ ~Passing \/ at = "begin" => call = NoCall

(* A monitor that is free is as Free says; the others have a descriptor.   *)
FreeOrOn == \A m \in Monitors : IF mon[m].on THEN mon[m].fd \in Fds ELSE mon[m] = Free

(* The loop holds what is in the set, each monitor once, and has not to    *)
(* visit it again.                                                         *)
HeldInBatch ==
    /\ \A m \in Monitors : mon[m].held <=> InBatch(m)
    /\ \A i, j \in 1 .. Len(batch) : batch[i] = batch[j] => i = j
    /\ \A m \in left : mon[m].on /\ ~mon[m].held

(* A user has a descriptor of his own and callbacks on one monitor, that   *)
(* of his descriptor; a monitor that is not dead has callbacks.            *)
Hooked ==
    /\ \A u, v \in Users : fd[u] = fd[v] /\ fd[u] # None => u = v
    /\ \A m \in Monitors : \A u \in hooks[m] : mon[m].on /\ mon[m].fd = fd[u]
    /\ \A m, n \in Monitors : \A u \in hooks[m] \cap hooks[n] : m = n
    /\ \A u \in Users : fd[u] # None => \E m \in Monitors : u \in hooks[m]
    /\ \A m \in Monitors : mon[m].on /\ ~mon[m].dead => hooks[m] # {}

(* A dead monitor is in the set until the loop lets it go; only the one    *)
(* whose end is being told has callbacks, those of who is told.            *)
DeadIsLeft ==
    /\ \A m \in Monitors : mon[m].marked => mon[m].dead
    /\ \A m \in Monitors : mon[m].dead =>
          mon[m].held /\ (mon[m].marked \/ (at = "destroy" /\ m = Handled))
    /\ at = "destroy" => mon[Handled].dead
    /\ \A m \in Monitors : \A u \in hooks[m] : mon[m].dead =>
          at = "destroy" /\ m = Handled /\ call.user = u /\ call.ends

(* Those whose callbacks may run were polled.                              *)
HookedWerePolled ==
    Passing => \A i \in 1 .. Len(batch) : hooks[batch[i]] \subseteq polled

IInv == Shape /\ Places /\ FreeOrOn /\ HeldInBatch /\ Hooked /\ DeadIsLeft /\ HookedWerePolled

--------------------------------------------------------------------------------
(* A monitor has the callbacks of one user, who holds its descriptor, and  *)
(* is the only one for it that is not dead.                                *)
LEMMA OneUser ==
    ASSUME IInv, NEW m \in Monitors, NEW u \in hooks[m]
    PROVE  /\ u \in Users /\ mon[m].on /\ fd[u] = mon[m].fd /\ fd[u] \in Fds /\ fd[u] # None
           /\ hooks[m] = {u}
           /\ \A n \in Monitors : mon[n].on /\ ~mon[n].dead /\ mon[n].fd = fd[u] => n = m
<1>1. u \in Users /\ mon[m].on /\ fd[u] = mon[m].fd /\ fd[u] \in Fds /\ fd[u] # None
  BY SocketsAssumption DEF SocketsAssumption, IInv, Shape, Hooked, FreeOrOn
<1>2. ASSUME NEW n \in Monitors, NEW v \in hooks[n], mon[n].fd = fd[u] PROVE v = u
  BY <1>1, <1>2 DEF IInv, Shape, Hooked
<1>3. hooks[m] = {u}
  BY <1>1, <1>2
<1>4. ASSUME NEW n \in Monitors, mon[n].on, ~mon[n].dead, mon[n].fd = fd[u] PROVE n = m
  <2>1. PICK v : v \in hooks[n]
    BY <1>4 DEF IInv, Hooked
  <2>2. v = u
    BY <1>2, <1>4, <2>1
  <2> QED
    BY <2>1, <2>2 DEF IInv, Hooked
<1> QED
  BY <1>1, <1>3, <1>4

(* What the invariant says of what the runs check.                         *)
LEMMA Checked == SocketsAssumption /\ IInv => MonitorsAgree
<1> SUFFICES ASSUME SocketsAssumption, IInv PROVE MonitorsAgree
  OBVIOUS
<1> USE DEF IInv, Shape
<1>1. \A i \in 1 .. Len(batch) : mon[batch[i]].on /\ mon[batch[i]].held
  BY DEF HeldInBatch, InBatch, FreeOrOn, Free
<1>2. TypeOK
  BY <1>1 DEF TypeOK, FreeOrOn, Hooked, HeldInBatch
<1>3. OpenIsMonitored
  <2> SUFFICES ASSUME NEW u \in Users, fd[u] # None
               PROVE  \/ \E m \in Monitors : /\ Hears(u, m) /\ hooks[m] = {u}
                                             /\ \A n \in Monitors : Hears(u, n) => n = m
                      \/ Over /\ call.user = u
    BY DEF OpenIsMonitored
  <2>1. PICK m \in Monitors : u \in hooks[m]
    BY DEF Hooked
  <2>2. mon[m].on /\ mon[m].fd = fd[u] /\ hooks[m] = {u}
    BY <2>1, OneUser
  <2>3. CASE ~mon[m].dead
    BY <2>1, <2>2, <2>3, OneUser DEF Hears
  <2>4. CASE mon[m].dead
    <3>1. call.user = u /\ call.ends
      BY <2>1, <2>4 DEF DeadIsLeft
    <3>2. GetFd(State, fd[u]) = {}
      BY <2>1, <2>4, OneUser DEF GetFd, State
    <3> QED
      BY <3>1, <3>2 DEF Over
  <2> QED
    BY <2>3, <2>4
<1>4. NothingLeft
  <2> SUFFICES ASSUME at = "idle", NEW m \in Monitors, mon[m].on
               PROVE  \E u \in Users : Hears(u, m) /\ ~mon[m].held /\ ~mon[m].marked
    BY DEF NothingLeft
  <2>1. ~mon[m].held
    BY DEF Places, HeldInBatch, InBatch
  <2>2. ~mon[m].dead /\ ~mon[m].marked
    BY <2>1 DEF DeadIsLeft
  <2>3. PICK u \in Users : u \in hooks[m]
    BY <2>2 DEF Hooked
  <2> QED
    BY <2>1, <2>2, <2>3 DEF Hears, Hooked
<1> QED
  BY <1>2, <1>3, <1>4 DEF MonitorsAgree

LEMMA InitInv == SocketsAssumption /\ Init => IInv
BY DEF SocketsAssumption, Init, IInv, Shape, Places, Passing, FreeOrOn, HeldInBatch, InBatch,
       Hooked, DeadIsLeft, HookedWerePolled, Free, Monitor, NoCall

--------------------------------------------------------------------------------
(* The steps of the loop.                                                  *)

(* Most only move on, or call back: nothing but at, call and whether a     *)
(* monitor is connected changes.                                           *)
LEMMA MovesOn ==
    ASSUME IInv, Passing, at # "destroy",
           UNCHANGED <<fd, polled, hooks, left, batch, setsize>>,
           mon' \in [Monitors -> Monitor],
           \A m \in Monitors : mon'[m] = mon[m] \/ (mon[m].on /\ mon'[m] = [mon[m] EXCEPT !.connected = TRUE]),
           at' \in {"write", "timeouts", "cleanup"},
           call' = NoCall \/ call'.user \in Users
    PROVE  IInv'
<1> USE DEF IInv, Shape
<1>1. \A m \in Monitors : /\ mon'[m].on = mon[m].on /\ mon'[m].fd = mon[m].fd
                          /\ mon'[m].dead = mon[m].dead /\ mon'[m].held = mon[m].held
                          /\ mon'[m].marked = mon[m].marked
                          /\ (mon[m].on \/ mon'[m] = mon[m])
  BY DEF Monitor
<1>2. Shape' /\ Places'
  BY DEF Places, Passing, NoCall
<1>3. FreeOrOn' /\ Hooked'
  BY <1>1 DEF FreeOrOn, Hooked
<1>4. HeldInBatch'
  BY <1>1 DEF HeldInBatch, InBatch
<1>5. DeadIsLeft'
  BY <1>1 DEF DeadIsLeft
<1>6. HookedWerePolled'
  BY DEF HookedWerePolled, Passing
<1> QED
  BY <1>2, <1>3, <1>4, <1>5, <1>6

(* What raising a signal from such a step is: one callback, of a user who  *)
(* has hooked the monitor, or none.                                        *)
LEMMA RaiseFacts ==
    ASSUME IInv, NEW s, NEW m \in Monitors, NEW sig, NEW ends, NEW next,
           s.hooks = hooks, Raise(s, m, sig, ends, next)
    PROVE  /\ Become(s) /\ at' = next
           /\ \/ hooks[m] = {} /\ call' = NoCall
              \/ \E u \in hooks[m] : call' = [user |-> u, sig |-> sig, ends |-> ends]
           /\ call' = NoCall \/ call'.user \in Users
BY DEF Raise, IInv, Shape

LEMMA HandledFacts ==
    ASSUME IInv, Passing
    PROVE  /\ Handled \in Monitors /\ 1 \in 1 .. Len(batch) /\ mon[Handled].held
           /\ mon[Handled].on /\ mon[Handled].fd \in Fds
BY DEF IInv, Shape, Places, HeldInBatch, InBatch, FreeOrOn, Free, Handled

LEMMA HandleMovesOn ==
    ASSUME IInv, \/ HandleAccept \/ HandleRead \/ NothingToRead \/ HandleConnected
                 \/ HandleWrite \/ NothingToWrite \/ Timeouts \/ Skip
                 \/ (HandleError /\ mon[Handled].connected)
    PROVE  IInv'
<1>1. Passing /\ at # "destroy"
  BY DEF HandleAccept, HandleRead, NothingToRead, HandleConnected, HandleWrite,
         NothingToWrite, Timeouts, Skip, HandleError, Here, Handle, Passing
<1>2. Handled \in Monitors /\ mon[Handled].on
  BY <1>1, HandledFacts
<1>3. State.hooks = hooks /\ (Become(State) => UNCHANGED <<fd, polled, hooks, left, batch, setsize, mon>>)
  BY DEF State, Become
<1>4. mon \in [Monitors -> Monitor] /\ (call = NoCall \/ call.user \in Users)
  BY DEF IInv, Shape
<1>5. ASSUME Become(State), at' \in {"write", "timeouts", "cleanup"},
             call' = NoCall \/ call'.user \in Users
      PROVE  IInv'
  BY <1>1, <1>3, <1>4, <1>5, MovesOn
<1>6. CASE HandleAccept \/ HandleRead \/ HandleWrite \/ (HandleError /\ mon[Handled].connected)
  <2>1. Become(State) /\ at' \in {"write", "timeouts", "cleanup"} /\ (call' = NoCall \/ call'.user \in Users)
    BY <1>2, <1>3, <1>6, RaiseFacts DEF HandleAccept, HandleRead, HandleWrite, HandleError
  <2> QED
    BY <2>1, <1>5
<1>7. CASE NothingToRead \/ NothingToWrite \/ Skip
  BY <1>4, <1>5, <1>7 DEF NothingToRead, NothingToWrite, Skip
<1>8. CASE Timeouts
  <2>1. Become(State) /\ at' \in {"write", "timeouts", "cleanup"} /\ (call' = NoCall \/ call'.user \in Users)
    BY <1>2, <1>3, <1>4, <1>8, RaiseFacts DEF Timeouts
  <2> QED
    BY <2>1, <1>5
<1>9. CASE HandleConnected
  <2> DEFINE s == [State EXCEPT !.mon[Handled].connected = TRUE]
  <2>1. s.hooks = hooks /\ s.fd = fd /\ s.polled = polled /\ s.left = left /\ s.batch = batch
        /\ s.mon = [mon EXCEPT ![Handled].connected = TRUE]
    BY DEF State
  <2>2. Raise(s, Handled, "connect", FALSE, "cleanup")
    BY <1>9 DEF HandleConnected
  <2> HIDE DEF s
  <2>3. Become(s) /\ at' = "cleanup" /\ (call' = NoCall \/ call'.user \in Users)
    BY <1>2, <2>1, <2>2, RaiseFacts
  <2>4. mon' = [mon EXCEPT ![Handled].connected = TRUE]
        /\ UNCHANGED <<fd, polled, hooks, left, batch, setsize>>
    BY <2>1, <2>3 DEF Become
  <2>5. mon' \in [Monitors -> Monitor]
    BY <1>2, <1>4, <2>4 DEF Monitor
  <2>6. \A m \in Monitors :
           mon'[m] = mon[m] \/ (mon[m].on /\ mon'[m] = [mon[m] EXCEPT !.connected = TRUE])
    BY <1>2, <1>4, <2>4
  <2> QED
    BY <1>1, <2>3, <2>4, <2>5, <2>6, MovesOn
<1> QED
  BY <1>6, <1>7, <1>8, <1>9

(* The end of a connection is told: the monitor dies first, and stays      *)
(* until the callback has returned.                                        *)
LEMMA EndsInv ==
    ASSUME IInv, HandleClose \/ (HandleError /\ ~mon[Handled].connected) PROVE IInv'
<1> DEFINE s == [State EXCEPT !.mon[Handled].dead = TRUE]
<1> USE DEF IInv, Shape
<1>1. at = "begin" /\ Passing /\ ~mon[Handled].dead
  BY DEF HandleClose, HandleError, Here, Stale, Passing
<1>2. Handled \in Monitors /\ mon[Handled].on /\ mon[Handled].held /\ mon[Handled].fd \in Fds
  BY <1>1, HandledFacts
<1>3. s.hooks = hooks /\ s.fd = fd /\ s.polled = polled /\ s.left = left /\ s.batch = batch
      /\ s.mon = [mon EXCEPT ![Handled].dead = TRUE]
  BY DEF State
<1>4. PICK sig \in {"close", "error"} : Raise(s, Handled, sig, TRUE, "destroy")
  BY DEF HandleClose, HandleError
<1> HIDE DEF s
<1>5. /\ Become(s) /\ at' = "destroy" /\ (call' = NoCall \/ call'.user \in Users)
      /\ \/ hooks[Handled] = {} /\ call' = NoCall
         \/ \E u \in hooks[Handled] : call'.user = u /\ call'.ends
  BY <1>2, <1>3, <1>4 DEF Raise
<1>6. mon' = [mon EXCEPT ![Handled].dead = TRUE]
      /\ UNCHANGED <<fd, polled, hooks, left, batch, setsize>>
  BY <1>3, <1>5 DEF Become
<1>7. /\ \A m \in Monitors : /\ mon'[m].on = mon[m].on /\ mon'[m].fd = mon[m].fd
                             /\ mon'[m].held = mon[m].held /\ mon'[m].marked = mon[m].marked
                             /\ (m # Handled => mon'[m] = mon[m])
      /\ mon'[Handled].dead
  BY <1>2, <1>6
<1>8. Shape'
  BY <1>2, <1>5, <1>6 DEF Monitor
<1>9. Places' /\ HookedWerePolled'
  BY <1>1, <1>5, <1>6 DEF Places, Passing, HookedWerePolled
<1>10. FreeOrOn' /\ HeldInBatch'
  BY <1>2, <1>6, <1>7 DEF FreeOrOn, HeldInBatch, InBatch
<1>11. Hooked'
  BY <1>6, <1>7 DEF Hooked
<1>12. \A u \in hooks[Handled] : call'.user = u /\ call'.ends
  BY <1>2, <1>5, OneUser
<1>13. Handled' = Handled
  BY <1>6 DEF Handled
<1>14. DeadIsLeft'
  BY <1>1, <1>2, <1>5, <1>6, <1>7, <1>12, <1>13 DEF DeadIsLeft
<1> QED
  BY <1>8, <1>9, <1>10, <1>11, <1>14

(* obj_destroy of the monitor whose end was told: the loop holds it.       *)
LEMMA HandleDestroyInv == ASSUME IInv, HandleDestroy PROVE IInv'
<1> USE DEF IInv, Shape
<1>1. at = "destroy" /\ Passing /\ call = NoCall /\ at' = "cleanup" /\ call' = call
  BY DEF HandleDestroy, Passing
<1>2. Handled \in Monitors /\ mon[Handled].on /\ mon[Handled].held /\ mon[Handled].fd \in Fds
      /\ mon[Handled].dead
  BY <1>1, HandledFacts DEF DeadIsLeft
<1>3. mon' = [m \in Monitors |-> IF m = Handled THEN [mon[m] EXCEPT !.marked = TRUE] ELSE mon[m]]
      /\ left' = left /\ UNCHANGED <<fd, polled, hooks, batch, setsize>>
  BY <1>2 DEF HandleDestroy, Become, ObjDestroy, State
<1>4. \A m \in Monitors : /\ mon'[m].on = mon[m].on /\ mon'[m].fd = mon[m].fd
                          /\ mon'[m].held = mon[m].held /\ mon'[m].dead = mon[m].dead
                          /\ (m # Handled => mon'[m] = mon[m])
  BY <1>3
<1>5. mon'[Handled].marked
  BY <1>2, <1>3 DEF Monitor
<1>6. Shape'
  BY <1>1, <1>2, <1>3 DEF Monitor
<1>7. Places' /\ HookedWerePolled'
  BY <1>1, <1>3 DEF Places, Passing, HookedWerePolled
<1>8. FreeOrOn' /\ HeldInBatch'
  BY <1>2, <1>3, <1>4 DEF FreeOrOn, HeldInBatch, InBatch
<1>9. Hooked'
  BY <1>3, <1>4 DEF Hooked
<1>10. \A m \in Monitors : \A u \in hooks[m] : ~mon[m].dead
  <2> SUFFICES ASSUME NEW m \in Monitors, NEW u \in hooks[m], mon[m].dead PROVE FALSE
    OBVIOUS
  <2>1. call.user = u /\ call.ends
    BY DEF DeadIsLeft
  <2> QED
    BY <1>1, <2>1 DEF NoCall
<1>11. DeadIsLeft'
  BY <1>1, <1>2, <1>3, <1>4, <1>5, <1>10 DEF DeadIsLeft
<1> QED
  BY <1>6, <1>7, <1>8, <1>9, <1>11

LEMMA ReturnInv == ASSUME IInv, Return PROVE IInv'
<1> USE DEF IInv, Shape
<1>1. call' = NoCall /\ call # NoCall /\ ~Over
      /\ UNCHANGED <<fd, polled, mon, hooks, left, batch, setsize, at>>
  BY DEF Return
<1>2. Shape' /\ Places' /\ FreeOrOn' /\ HeldInBatch' /\ Hooked' /\ HookedWerePolled'
  BY <1>1 DEF Places, FreeOrOn, HeldInBatch, Hooked, HookedWerePolled, InBatch, Passing
<1>3. ASSUME NEW m \in Monitors, NEW u \in hooks[m], mon[m].dead PROVE FALSE
  <2>1. call.user = u /\ call.ends
    BY <1>3 DEF DeadIsLeft
  <2>2. fd[u] # None
    BY OneUser
  <2>3. GetFd(State, fd[u]) = {}
    BY <1>3, OneUser DEF GetFd, State
  <2> QED
    BY <1>1, <2>1, <2>2, <2>3 DEF Over
<1>4. DeadIsLeft'
  BY <1>1, <1>3 DEF DeadIsLeft, Handled
<1> QED
  BY <1>2, <1>4

LEMMA StartPassInv == ASSUME IInv, StartPass PROVE IInv'
<1> USE DEF IInv, Shape
<1>1. at = "idle" /\ at' = "collect" /\ call = NoCall /\ left' = {m \in Monitors : mon[m].on}
      /\ UNCHANGED <<fd, polled, mon, hooks, batch, setsize, call>>
  BY DEF StartPass
<1>2. HeldInBatch'
  BY <1>1 DEF HeldInBatch, InBatch, Places
<1>3. Shape' /\ Places' /\ FreeOrOn' /\ Hooked' /\ HookedWerePolled'
  BY <1>1 DEF Places, Passing, FreeOrOn, Hooked, HookedWerePolled
<1>4. DeadIsLeft'
  BY <1>1 DEF DeadIsLeft
<1> QED
  BY <1>2, <1>3, <1>4

(* The next monitor joins the set: it is not dead, for the dead are in it. *)
LEMMA VisitInv == ASSUME IInv, Visit PROVE IInv'
<1> USE DEF IInv, Shape
<1>1. PICK m \in left :
         Become([State EXCEPT !.left = @ \ {m},
                              !.mon[m].held = ~mon[m].dead,
                              !.batch = IF mon[m].dead THEN @ ELSE Append(@, m)])
  BY DEF Visit
<1>2. m \in Monitors /\ mon[m].on /\ ~mon[m].held /\ ~mon[m].dead /\ ~InBatch(m)
  BY DEF HeldInBatch, DeadIsLeft
<1>3. left' = left \ {m} /\ mon' = [mon EXCEPT ![m].held = TRUE] /\ batch' = Append(batch, m)
      /\ UNCHANGED <<fd, polled, hooks, setsize>>
  BY <1>1, <1>2 DEF Become, State
<1>4. at = "collect" /\ UNCHANGED <<at, call>>
  BY DEF Visit
<1>5. /\ mon' \in [Monitors -> Monitor] /\ mon'[m].held
      /\ \A n \in Monitors : /\ mon'[n].on = mon[n].on /\ mon'[n].fd = mon[n].fd
                             /\ mon'[n].dead = mon[n].dead /\ mon'[n].marked = mon[n].marked
                             /\ (n # m => mon'[n] = mon[n])
  BY <1>2, <1>3 DEF Monitor
<1>6. Len(batch') = Len(batch) + 1 /\ batch'[Len(batch) + 1] = m /\ batch' \in Seq(Monitors)
      /\ \A i \in 1 .. Len(batch) : batch'[i] = batch[i]
  BY <1>2, <1>3
<1>7. Shape' /\ Places'
  BY <1>3, <1>4, <1>5, <1>6 DEF Places, Passing
<1>8. FreeOrOn' /\ Hooked'
  BY <1>2, <1>3, <1>5 DEF FreeOrOn, Hooked
<1>9. HeldInBatch'
  <2>1. \A n \in Monitors : InBatch(n)' <=> InBatch(n) \/ n = m
    <3> SUFFICES ASSUME NEW n \in Monitors PROVE InBatch(n)' <=> InBatch(n) \/ n = m
      OBVIOUS
    <3>1. Len(batch) \in Nat
      OBVIOUS
    <3>2. InBatch(n)' => InBatch(n) \/ n = m
      BY <1>6, <3>1 DEF InBatch
    <3>3. InBatch(n) => InBatch(n)'
      BY <1>6, <3>1 DEF InBatch
    <3>4. InBatch(m)'
      BY <1>6, <3>1 DEF InBatch
    <3> QED
      BY <3>2, <3>3, <3>4
  <2>2. \A i, j \in 1 .. Len(batch') : batch'[i] = batch'[j] => i = j
    BY <1>2, <1>6 DEF InBatch, HeldInBatch
  <2>3. \A n \in Monitors : mon'[n].held <=> InBatch(n)'
    BY <1>5, <2>1 DEF HeldInBatch
  <2>4. \A n \in left' : mon'[n].on /\ ~mon'[n].held
    BY <1>3, <1>5 DEF HeldInBatch
  <2> QED
    BY <2>2, <2>3, <2>4 DEF HeldInBatch
<1>10. DeadIsLeft'
  BY <1>2, <1>3, <1>4, <1>5 DEF DeadIsLeft
<1>11. HookedWerePolled'
  BY <1>4 DEF HookedWerePolled, Passing
<1> QED
  BY <1>7, <1>8, <1>9, <1>10, <1>11

(* Whoever has hooked a monitor of the set has its descriptor.             *)
LEMMA PollInv == ASSUME IInv, Poll PROVE IInv'
<1> USE DEF IInv, Shape
<1>1. /\ at = "collect" /\ at' \in {"idle", "begin"} /\ (at' = "idle" <=> batch = <<>>)
      /\ polled' = {u \in Users : \E i \in 1 .. Len(batch) : mon[batch[i]].fd = fd[u]}
      /\ UNCHANGED <<fd, mon, hooks, left, batch, setsize, call>>
  BY DEF Poll
<1>2. Shape' /\ Places' /\ FreeOrOn' /\ HeldInBatch' /\ Hooked'
  BY <1>1 DEF Places, Passing, FreeOrOn, HeldInBatch, InBatch, Hooked
<1>3. DeadIsLeft'
  BY <1>1 DEF DeadIsLeft
<1>4. HookedWerePolled'
  BY <1>1 DEF HookedWerePolled, Hooked
<1> QED
  BY <1>2, <1>3, <1>4

(* The loop lets a monitor go; one that was destroyed meanwhile is freed.  *)
LEMMA HandleCleanupInv == ASSUME IInv, HandleCleanup PROVE IInv'
<1> USE DEF IInv, Shape
<1> DEFINE m == Handled
<1>1. at = "cleanup" /\ call = NoCall /\ call' = call /\ Passing /\ at' = NextAt
      /\ at' \in {"begin", "collect"}
  BY DEF HandleCleanup, Passing, NextAt
<1>2. m \in Monitors /\ mon[m].on /\ mon[m].held /\ mon[m].fd \in Fds /\ 1 \in 1 .. Len(batch)
  BY <1>1, HandledFacts
<1>3. /\ mon' = [mon EXCEPT ![m] = IF mon[m].marked THEN Free ELSE [mon[m] EXCEPT !.held = FALSE]]
      /\ batch' = Tail(batch) /\ UNCHANGED <<fd, polled, hooks, left, setsize>>
  BY DEF HandleCleanup, Cleanup, Become, State
<1>4. /\ batch' \in Seq(Monitors) /\ Len(batch') = Len(batch) - 1
      /\ \A i \in 1 .. Len(batch') : batch'[i] = batch[i + 1] /\ i + 1 \in 1 .. Len(batch)
      /\ (batch' = <<>> <=> Len(batch) = 1)
  <2>1. batch # <<>> /\ Len(batch) \in Nat /\ Len(batch) >= 1
    BY <1>1 DEF Places
  <2>2. batch' \in Seq(Monitors) /\ Len(batch') = Len(batch) - 1
    BY <1>3, <2>1
  <2>3. \A i \in 1 .. Len(batch') : batch'[i] = batch[i + 1] /\ i + 1 \in 1 .. Len(batch)
    BY <1>3, <2>1, <2>2
  <2> QED
    BY <2>1, <2>2, <2>3
<1>5. mon' \in [Monitors -> Monitor]
  BY <1>2, <1>3 DEF Monitor, Free
<1>6. \A n \in Monitors : n # m => mon'[n] = mon[n]
  BY <1>3
<1>7. ~mon'[m].held /\ ~mon'[m].dead /\ ~mon'[m].marked
      /\ (mon[m].marked => mon'[m] = Free)
      /\ (~mon[m].marked => mon'[m].on /\ mon'[m].fd = mon[m].fd /\ ~mon[m].dead)
  BY <1>1, <1>2, <1>3 DEF Free, DeadIsLeft, Monitor
<1>8. \A n \in Monitors : \A u \in hooks[n] : ~mon[n].dead
  BY <1>1 DEF DeadIsLeft
<1>9. mon[m].marked => hooks[m] = {}
  BY <1>2, <1>8 DEF DeadIsLeft
<1> HIDE DEF m
<1>10. HeldInBatch'
  <2>1. \A n \in Monitors : InBatch(n)' <=> InBatch(n) /\ n # m
    <3> SUFFICES ASSUME NEW n \in Monitors PROVE InBatch(n)' <=> InBatch(n) /\ n # m
      OBVIOUS
    <3>1. InBatch(n)' => InBatch(n) /\ n # m
      BY <1>2, <1>4 DEF InBatch, m, Handled, HeldInBatch
    <3>2. ASSUME NEW i \in 1 .. Len(batch), batch[i] = n, n # m PROVE InBatch(n)'
      <4>1. i # 1 /\ i - 1 \in 1 .. Len(batch') /\ batch'[i - 1] = n
        BY <1>2, <1>4, <3>2 DEF m, Handled
      <4> QED
        BY <4>1 DEF InBatch
    <3> QED
      BY <3>1, <3>2 DEF InBatch
  <2>2. \A i, j \in 1 .. Len(batch') : batch'[i] = batch'[j] => i = j
    BY <1>4 DEF HeldInBatch
  <2>3. \A n \in Monitors : mon'[n].held <=> InBatch(n)'
    BY <1>6, <1>7, <2>1 DEF HeldInBatch
  <2>4. \A n \in left' : mon'[n].on /\ ~mon'[n].held
    BY <1>2, <1>3, <1>6 DEF HeldInBatch
  <2> QED
    BY <2>2, <2>3, <2>4 DEF HeldInBatch
<1>11. Shape' /\ Places'
  BY <1>1, <1>3, <1>4, <1>5 DEF Places, Passing, NextAt
<1>12. FreeOrOn'
  BY <1>2, <1>6, <1>7, <1>5 DEF FreeOrOn, Free
<1>13. Hooked'
  BY <1>2, <1>3, <1>6, <1>7, <1>9 DEF Hooked, Free
<1>14. DeadIsLeft'
  BY <1>1, <1>3, <1>6, <1>7, <1>8 DEF DeadIsLeft
<1>15. HookedWerePolled'
  BY <1>1, <1>3, <1>4 DEF HookedWerePolled, Passing
<1> QED
  BY <1>10, <1>11, <1>12, <1>13, <1>14, <1>15

--------------------------------------------------------------------------------
(* What users do, in callbacks and between the passes.                     *)

(* A descriptor that nobody has is monitored by nobody: its number may     *)
(* still be in the set, on a monitor that is dead.                         *)
LEMMA OpenInv == ASSUME IInv, NEW u \in Users, Open(u) PROVE IInv'
<1> USE DEF IInv, Shape
<1> DEFINE m == CHOOSE n \in Monitors : ~mon[n].on
<1>1. PICK d \in Fds \ {fd[v] : v \in Users}, kind \in Kinds : Become(Opened(State, u, d, m, kind))
  BY DEF Open
<1>2. fd[u] = None /\ UNCHANGED <<at, call>> /\ m \in Monitors /\ ~mon[m].on
  BY DEF Open
<1> HIDE DEF m
<1> DEFINE opened == [State EXCEPT !.fd[u] = d]
           made == [Free EXCEPT !.on = TRUE, !.fd = d, !.connected = kind.connected,
                                   !.listening = kind.listening]
           monitored == [opened EXCEPT !.mon[m] = made]
<1>3. mon[m] = Free /\ hooks[m] = {}
  BY <1>2 DEF FreeOrOn, Hooked
<1>4. made \in Monitor /\ made.on /\ made.fd = d /\ ~made.dead /\ ~made.held /\ ~made.marked
  <2>1. kind.connected \in BOOLEAN /\ kind.listening \in BOOLEAN
    BY DEF Kinds
  <2>2. made.on /\ made.fd = d /\ ~made.dead /\ ~made.held /\ ~made.marked
    BY DEF Free
  <2>3. made \in Monitor
    BY <2>1 DEF Free, Monitor
  <2> QED
    BY <2>2, <2>3
<1>5. GetFd(opened, d) = {}
  <2> SUFFICES ASSUME NEW n \in Monitors, mon[n].on, mon[n].fd = d, ~mon[n].dead PROVE FALSE
    BY DEF GetFd, State
  <2>1. PICK v : v \in hooks[n]
    BY DEF Hooked
  <2> QED
    BY <2>1 DEF Hooked
<1>6. MonitorNew(opened, m, d, kind) = monitored
  BY <1>5 DEF MonitorNew
<1>7. monitored.mon = [mon EXCEPT ![m] = made] /\ monitored.hooks = hooks /\ monitored.left = left
      /\ monitored.fd = [fd EXCEPT ![u] = d] /\ monitored.polled = polled /\ monitored.batch = batch
  BY DEF State
<1>8. GetFd(monitored, d) = {m}
  BY <1>2, <1>4, <1>5, <1>7 DEF GetFd, State
<1>9. Become(SignalAdd(monitored, {m}, u))
  BY <1>1, <1>6, <1>8 DEF Opened, MonitorSignalAdd
<1>10. /\ mon' = [mon EXCEPT ![m] = made] /\ fd' = [fd EXCEPT ![u] = d]
       /\ hooks' = [n \in Monitors |-> IF n = m THEN {u} ELSE hooks[n]]
       /\ UNCHANGED <<polled, left, batch, setsize>>
  <2> DEFINE t == SignalAdd(monitored, {m}, u)
  <2>1. /\ t.mon = monitored.mon /\ t.fd = monitored.fd /\ t.polled = monitored.polled
        /\ t.left = monitored.left /\ t.batch = monitored.batch
        /\ t.hooks = [n \in Monitors |-> IF n \in {m} THEN monitored.hooks[n] \cup {u}
                                                      ELSE monitored.hooks[n]]
    BY DEF SignalAdd, State
  <2>2. /\ mon' = t.mon /\ fd' = t.fd /\ polled' = t.polled /\ left' = t.left /\ batch' = t.batch
        /\ hooks' = t.hooks /\ setsize' = setsize
    BY <1>9 DEF Become
  <2> HIDE DEF t, monitored
  <2>3. hooks' = [n \in Monitors |-> IF n = m THEN {u} ELSE hooks[n]]
    BY <1>3, <1>7, <2>1, <2>2
  <2> QED
    BY <1>7, <2>1, <2>2, <2>3
<1> HIDE DEF opened, made, monitored
<1>11. /\ mon'[m] = made /\ hooks'[m] = {u} /\ fd'[u] = d /\ d \in Fds
       /\ \A n \in Monitors : n # m => mon'[n] = mon[n] /\ hooks'[n] = hooks[n]
       /\ \A v \in Users : v # u => fd'[v] = fd[v] /\ fd[v] # d
  BY <1>2, <1>10
<1>12. ~InBatch(m)
  BY <1>2, <1>3 DEF HeldInBatch, Free
<1>13. Shape' /\ Places'
  BY <1>2, <1>4, <1>10 DEF Places, Passing
<1>14. FreeOrOn'
  BY <1>4, <1>11 DEF FreeOrOn
<1>15. HeldInBatch'
  <2>1. \A n \in Monitors : InBatch(n)' <=> InBatch(n)
    BY <1>10 DEF InBatch
  <2>2. m \notin left
    BY <1>2 DEF HeldInBatch
  <2> QED
    BY <1>4, <1>10, <1>11, <1>12, <2>1, <2>2 DEF HeldInBatch
<1>16. Hooked'
  <2>1. \A n \in Monitors : u \notin hooks[n]
    BY <1>2, OneUser
  <2>2. \A v, w \in Users : fd'[v] = fd'[w] /\ fd'[v] # None => v = w
    BY <1>11 DEF Hooked
  <2>3. \A n \in Monitors : \A v \in hooks'[n] : mon'[n].on /\ mon'[n].fd = fd'[v]
    BY <1>4, <1>11, <2>1 DEF Hooked
  <2>4. \A n, k \in Monitors : \A v \in hooks'[n] \cap hooks'[k] : n = k
    BY <1>11, <2>1 DEF Hooked
  <2>5. \A v \in Users : fd'[v] # None => \E n \in Monitors : v \in hooks'[n]
    BY <1>2, <1>3, <1>11 DEF Hooked
  <2>6. \A n \in Monitors : mon'[n].on /\ ~mon'[n].dead => hooks'[n] # {}
    BY <1>11 DEF Hooked
  <2> QED
    BY <2>2, <2>3, <2>4, <2>5, <2>6 DEF Hooked
<1>17. DeadIsLeft'
  <2>1. Handled' = Handled /\ (at = "destroy" => Handled # m)
    BY <1>10, <1>12, HandledFacts DEF Handled, Passing, InBatch
  <2>2. at = "destroy" => Handled \in Monitors
    BY HandledFacts DEF Passing
  <2>3. \A n \in Monitors : \A v \in hooks'[n] : mon'[n].dead => n # m
    BY <1>4, <1>11
  <2> QED
    BY <1>2, <1>4, <1>11, <2>1, <2>2, <2>3 DEF DeadIsLeft
<1>18. HookedWerePolled'
  BY <1>2, <1>10, <1>11, <1>12 DEF HookedWerePolled, Passing, InBatch
<1> QED
  BY <1>13, <1>14, <1>15, <1>16, <1>17, <1>18

(* The monitor of a descriptor that is closed dies, and is freed unless    *)
(* the loop holds it.                                                      *)
LEMMA CloseInv == ASSUME IInv, NEW u \in Users, Close(u) PROVE IInv'
<1> USE DEF IInv, Shape
<1> DEFINE G == GetFd(State, fd[u])
<1>1. Become(CloseUser(State, u)) /\ fd[u] # None /\ UNCHANGED <<at, call>>
  BY DEF Close
<1>2. G = {n \in Monitors : mon[n].on /\ mon[n].fd = fd[u] /\ ~mon[n].dead}
  BY DEF GetFd, State
<1>3. GetFd([SignalClear(State, u) EXCEPT !.fd[u] = None, !.polled = @ \ {u}], fd[u]) = G
  BY DEF GetFd, State, SignalClear
<1> HIDE DEF G
<1>4. /\ fd' = [fd EXCEPT ![u] = None] /\ polled' = polled \ {u}
      /\ hooks' = [n \in Monitors |-> hooks[n] \ {u}]
      /\ UNCHANGED <<batch, setsize>>
  BY <1>1 DEF CloseUser, FdClosed, ObjDestroy, SignalClear, Become, State
<1>5. /\ mon' = [n \in Monitors |-> IF n \notin G THEN mon[n]
                                   ELSE IF mon[n].held THEN [mon[n] EXCEPT !.dead = TRUE, !.marked = TRUE]
                                   ELSE Free]
      /\ left' = left \ {n \in G : ~mon[n].held}
  <2> DEFINE t == [SignalClear(State, u) EXCEPT !.fd[u] = None, !.polled = @ \ {u}]
             killed == [n \in Monitors |-> IF n \in G THEN [mon[n] EXCEPT !.dead = TRUE] ELSE mon[n]]
             dying == [t EXCEPT !.mon = killed]
  <2>1. t.mon = mon /\ t.left = left
    BY DEF SignalClear, State
  <2>2. FdClosed(t, fd[u]) = ObjDestroy(dying, G)
    BY <1>3, <2>1 DEF FdClosed
  <2>3. dying.mon = killed /\ dying.left = left
    BY <2>1 DEF SignalClear, State
  <2>4. mon' = ObjDestroy(dying, G).mon /\ left' = ObjDestroy(dying, G).left
    BY <1>1, <2>2 DEF CloseUser, Become, State
  <2>5. ObjDestroy(dying, G).mon = [n \in Monitors |-> IF n \notin G THEN killed[n]
                                     ELSE IF killed[n].held THEN [killed[n] EXCEPT !.marked = TRUE]
                                     ELSE Free]
    BY <2>3 DEF ObjDestroy, SignalClear, State
  <2>6. ObjDestroy(dying, G).left = left \ {n \in G : ~killed[n].held}
    BY <2>3 DEF ObjDestroy, SignalClear, State
  <2> HIDE DEF t, dying
  <2>7. \A n \in G : n \in Monitors
    BY <1>2
  <2>8. \A n \in Monitors : killed[n].held = mon[n].held
    BY DEF Monitor
  <2>9. \A n \in G : [killed[n] EXCEPT !.marked = TRUE] = [mon[n] EXCEPT !.dead = TRUE, !.marked = TRUE]
    BY <2>7 DEF Monitor
  <2>10. \A n \in Monitors : n \notin G => killed[n] = mon[n]
    OBVIOUS
  <2> HIDE DEF killed
  <2>11. mon' = [n \in Monitors |-> IF n \notin G THEN mon[n]
                                   ELSE IF mon[n].held THEN [mon[n] EXCEPT !.dead = TRUE, !.marked = TRUE]
                                   ELSE Free]
    BY <2>4, <2>5, <2>8, <2>9, <2>10
  <2>12. {n \in G : ~killed[n].held} = {n \in G : ~mon[n].held}
    BY <2>7, <2>8
  <2> QED
    BY <2>4, <2>6, <2>11, <2>12
<1>6. \A n \in G : n \in Monitors /\ mon[n].on /\ mon[n].fd = fd[u] /\ hooks[n] = {u} /\ hooks'[n] = {}
  <2> SUFFICES ASSUME NEW n \in G PROVE mon[n].fd = fd[u] /\ hooks[n] = {u}
    BY <1>2, <1>4
  <2>1. n \in Monitors /\ mon[n].on /\ mon[n].fd = fd[u] /\ ~mon[n].dead
    BY <1>2
  <2>2. PICK v : v \in hooks[n]
    BY <2>1 DEF Hooked
  <2>3. hooks[n] = {v} /\ fd[v] = fd[u] /\ v \in Users
    BY <2>1, <2>2, OneUser
  <2> QED
    BY <1>1, <2>1, <2>3 DEF Hooked
<1>7. Shape' /\ Places'
  BY <1>1, <1>4, <1>5 DEF Places, Passing, Monitor, Free
<1>8. FreeOrOn'
  BY <1>5, <1>6 DEF FreeOrOn, Monitor, Free
<1>9. \A n \in Monitors : /\ mon'[n].held = mon[n].held
                          /\ (n \notin G => mon'[n] = mon[n])
                          /\ (n \in G /\ mon[n].held =>
                                mon'[n].on /\ mon'[n].dead /\ mon'[n].marked /\ mon'[n].fd = mon[n].fd)
                          /\ (n \in G /\ ~mon[n].held => mon'[n] = Free)
  BY <1>5, <1>6 DEF Monitor, Free
<1>10. HeldInBatch'
  <2>1. \A n \in Monitors : InBatch(n)' <=> InBatch(n)
    BY <1>4 DEF InBatch
  <2> QED
    BY <1>4, <1>5, <1>9, <2>1 DEF HeldInBatch
<1>11. Hooked'
  <2>1. \A v \in Users : v # u => fd'[v] = fd[v]
    BY <1>4
  <2>2. fd'[u] = None
    BY <1>4
  <2>3. \A n \in Monitors : \A v \in hooks'[n] : v \in hooks[n] /\ v # u /\ n \notin G
    BY <1>4, <1>6
  <2>4. \A n \in Monitors : \A v \in hooks[n] : v # u => v \in hooks'[n]
    BY <1>4
  <2>5. \A v, w \in Users : fd'[v] = fd'[w] /\ fd'[v] # None => v = w
    BY <2>1, <2>2 DEF Hooked
  <2>6. \A n \in Monitors : \A v \in hooks'[n] : mon'[n].on /\ mon'[n].fd = fd'[v]
    BY <1>9, <2>1, <2>3 DEF Hooked
  <2>7. \A n, k \in Monitors : \A v \in hooks'[n] \cap hooks'[k] : n = k
    BY <2>3 DEF Hooked
  <2>8. \A v \in Users : fd'[v] # None => \E n \in Monitors : v \in hooks'[n]
    BY <2>1, <2>2, <2>4 DEF Hooked
  <2>9. ASSUME NEW n \in Monitors, mon'[n].on, ~mon'[n].dead PROVE hooks'[n] # {}
    <3>1. n \notin G /\ mon[n].on /\ ~mon[n].dead
      BY <1>9, <2>9 DEF Free
    <3>2. PICK v : v \in hooks[n]
      BY <3>1 DEF Hooked
    <3>3. v # u
      BY <1>2, <3>1, <3>2, OneUser
    <3> QED
      BY <2>4, <3>2, <3>3
  <2> QED
    BY <2>5, <2>6, <2>7, <2>8, <2>9 DEF Hooked
<1>12. DeadIsLeft'
  <2>1. Handled' = Handled
    BY <1>4 DEF Handled
  <2>2. \A n \in Monitors : \A v \in hooks'[n] : v \in hooks[n] /\ n \notin G
    BY <1>4, <1>6
  <2>3. at = "destroy" => Handled \in Monitors /\ Handled \notin G
    BY <1>2, HandledFacts DEF DeadIsLeft, Passing
  <2>4. \A n \in Monitors : mon'[n].marked => mon'[n].dead
    BY <1>9 DEF DeadIsLeft, Free
  <2>5. \A n \in Monitors : mon'[n].dead =>
           mon'[n].held /\ (mon'[n].marked \/ (at' = "destroy" /\ n = Handled'))
    BY <1>1, <1>9, <2>1 DEF DeadIsLeft, Free
  <2>6. at' = "destroy" => mon'[Handled'].dead
    BY <1>1, <1>9, <2>1, <2>3 DEF DeadIsLeft
  <2>7. \A n \in Monitors : \A v \in hooks'[n] : mon'[n].dead =>
           at' = "destroy" /\ n = Handled' /\ call'.user = v /\ call'.ends
    BY <1>1, <1>9, <2>1, <2>2 DEF DeadIsLeft
  <2> QED
    BY <2>4, <2>5, <2>6, <2>7 DEF DeadIsLeft
<1>13. HookedWerePolled'
  BY <1>1, <1>4 DEF HookedWerePolled, Passing
<1> QED
  BY <1>7, <1>8, <1>10, <1>11, <1>12, <1>13

--------------------------------------------------------------------------------
LEMMA StepInv == IInv /\ [Next]_vars => IInv'
<1> SUFFICES ASSUME IInv, [Next]_vars PROVE IInv'
  OBVIOUS
<1>1. CASE UNCHANGED vars
  BY <1>1 DEF vars, IInv, Shape, Places, Passing, FreeOrOn, HeldInBatch, InBatch, Hooked,
              DeadIsLeft, HookedWerePolled, Handled
<1>2. CASE Loop
  BY <1>2, StartPassInv, VisitInv, PollInv, HandleCleanupInv, HandleMovesOn, EndsInv,
     HandleDestroyInv, ReturnInv DEF Loop, HandleError, HandleClose, Here, Handle
<1>3. CASE \E u \in Users : Open(u) \/ Close(u)
  BY <1>3, OpenInv, CloseInv
<1> QED
  BY <1>1, <1>2, <1>3 DEF Next

LEMMA Invariance == Spec => []IInv
<1>1. Init => IInv
  BY SocketsAssumption, InitInv
<1> QED
  BY <1>1, StepInv, PTL DEF Spec

(* A descriptor that is open is monitored, once and by its user alone, but *)
(* while he is being told that it is over, and nothing is left of one that *)
(* was closed when a pass ends; for any number of users and descriptors,   *)
(* whatever they open and close in their callbacks (socket.c:430, 566).    *)
THEOREM OpenDescriptorsAreMonitored == Spec => []MonitorsAgree
<1>1. IInv => MonitorsAgree
  BY SocketsAssumption, Checked
<1> QED
  BY <1>1, Invariance, PTL

(* A step that calls back does so for the monitor that is handled.         *)
LEMMA CallIsCurrent ==
    ASSUME IInv, [Next]_vars, call = NoCall, call'.user # None
    PROVE  call'.user \in polled /\ mon[Handled].fd = fd[call'.user]
<1>1. call' # call
  BY DEF NoCall
<1>2. PICK s \in {State, [State EXCEPT !.mon[Handled].dead = TRUE],
                  [State EXCEPT !.mon[Handled].connected = TRUE]},
          sig \in {"error", "connect", "close", "read", "write", "timeout"}, ends \in BOOLEAN,
          next \in {"cleanup", "destroy", "write", "timeouts"} :
         Raise(s, Handled, sig, ends, next) /\ Passing
  BY <1>1 DEF Next, Loop, vars, StartPass, Visit, Poll, HandleCleanup, Skip, HandleError, HandleAccept,
       HandleClose, HandleRead, NothingToRead, HandleConnected, HandleWrite, NothingToWrite, Timeouts,
       HandleDestroy, Return, Open, Close, Here, Handle, Passing
<1>3. s.hooks = hooks /\ Handled \in Monitors /\ 1 \in 1 .. Len(batch)
  BY <1>2, HandledFacts DEF State
<1>4. call'.user \in hooks[Handled]
  BY <1>2, <1>3 DEF Raise, NoCall
<1> QED
  BY <1>2, <1>3, <1>4, OneUser DEF IInv, HookedWerePolled, Handled

(* Callbacks run for the descriptor their user has now, never for a former *)
(* one whose number was given again within the pass (socket.c:604, 679).   *)
THEOREM CallbacksAreCurrent == Spec => CallsAreCurrent
<1>1. IInv /\ [Next]_vars => [call = NoCall /\ call'.user # None =>
         call'.user \in polled /\ mon[Handled].fd = fd[call'.user]]_vars
  BY CallIsCurrent
<1> QED
  BY <1>1, Invariance, PTL DEF Spec, CallsAreCurrent
================================================================================
