-------------------------------- MODULE Sockets ---------------------------------
(***************************************************************************)
(* The loop over the sockets (socket.c) and the signals it raises          *)
(* (signal.c).  A monitor belongs to a descriptor; whoever opened it hooks *)
(* callbacks on its signals, in a group of his own.  The kernel gives the  *)
(* number of a closed descriptor to the next one that is opened, in the    *)
(* same pass of the loop, while the answer of poll() for the former is     *)
(* still to be handled.                                                    *)
(*                                                                         *)
(* Everything runs in one thread.  An action is a piece of the loop up to  *)
(* the next callback, one operation of the code that runs in a callback    *)
(* (or between two passes: timers, scripts, timeouts), or the network's.   *)
(* A user is whatever holds a descriptor: a client, a slave, a data        *)
(* connection.  Collections is the model of the iterations.                *)
(***************************************************************************)
EXTENDS Naturals, Sequences
CONSTANTS
    Users, Fds, Monitors,
    None,       \* the NULL pointer, a descriptor of -1
    Sizes       \* what FD_SETSIZE may be: the monitors polled together at most
ASSUME SocketsAssumption ==
    /\ None \notin Users \cup Fds \cup Monitors /\ Sizes \subseteq Nat \ {0}

VARIABLES
    fd,         \* the descriptor each user holds
    polled,     \* the users whose descriptor was in the last poll(), not closed since
    mon,        \* struct socket_monitor
    hooks,      \* monitor -> the users whose callbacks are on its signals
    left,       \* the monitors the iteration of socket_poll has still to visit
    batch,      \* fdset_monitors, from the one that is being handled
    setsize,    \* FD_SETSIZE, fixed when the program is compiled
    at,         \* where the loop is
    call        \* the callback that runs
vars == <<fd, polled, mon, hooks, left, batch, setsize, at, call>>

Free == [on |-> FALSE, fd |-> None, dead |-> FALSE, connected |-> FALSE,
         listening |-> FALSE, held |-> FALSE, marked |-> FALSE]
NoCall == [user |-> None, sig |-> "none", ends |-> FALSE]

State == [fd |-> fd, polled |-> polled, mon |-> mon, hooks |-> hooks, batch |-> batch, left |-> left]
Become(s) == /\ fd' = s.fd /\ polled' = s.polled /\ mon' = s.mon /\ hooks' = s.hooks
             /\ batch' = s.batch /\ left' = s.left /\ UNCHANGED setsize

Init == /\ fd = [u \in Users |-> None] /\ polled = {}
        /\ mon = [m \in Monitors |-> Free] /\ hooks = [m \in Monitors |-> {}]
        /\ left = {} /\ batch = <<>> /\ at = "idle" /\ call = NoCall
        /\ setsize \in Sizes

(*----------------------------- monitors and signals -----------------------*)
(* Variant: a monitor that is dead still answers for its descriptor.       *)
GetFdDead(s, d) == {m \in Monitors : s.mon[m].on /\ s.mon[m].fd = d}
(* socket_monitor_get_fd: the monitor that is not dead.                    *)
GetFd(s, d) == {m \in Monitors : s.mon[m].on /\ s.mon[m].fd = d /\ ~s.mon[m].dead}

(* obj_destroy: a monitor that the loop holds goes when it lets it go.     *)
ObjDestroy(s, ms) ==
    [s EXCEPT !.mon = [m \in Monitors |-> IF m \notin ms THEN @[m]
                                          ELSE IF @[m].held THEN [@[m] EXCEPT !.marked = TRUE]
                                          ELSE Free],
              !.left = @ \ {m \in ms : ~s.mon[m].held}]

(* signal_clear: collection_empty destroys the callbacks of the group.     *)
SignalClear(s, u) == [s EXCEPT !.hooks = [m \in Monitors |-> @[m] \ {u}]]

(* socket_monitor_fd_closed.                                               *)
FdClosed(s, d) ==
    LET ms == GetFd(s, d)
    IN  ObjDestroy([s EXCEPT !.mon = [m \in Monitors |-> IF m \in ms THEN [@[m] EXCEPT !.dead = TRUE]
                                                                     ELSE @[m]]], ms)

(* signal_add, with the descriptor as the filter.                          *)
SignalAdd(s, ms, u) ==
    [s EXCEPT !.hooks = [m \in Monitors |-> IF m \in ms THEN @[m] \cup {u} ELSE @[m]]]

(* socket_monitor_new and socket_monitor_signal_add: both look the         *)
(* descriptor up.                                                          *)
MonitorNew(s, m, d, kind) ==
    IF GetFd(s, d) # {} THEN s
    ELSE [s EXCEPT !.mon[m] = [Free EXCEPT !.on = TRUE, !.fd = d, !.connected = kind.connected,
                                           !.listening = kind.listening]]
MonitorSignalAdd(s, d, u) == SignalAdd(s, GetFd(s, d), u)

(* What users do: a new descriptor is monitored and its callbacks hooked;  *)
(* to leave, a user clears its group, closes the descriptor and tells so.  *)
Kinds == {k \in [connected : BOOLEAN, listening : BOOLEAN] : k.connected => k.listening}
Opened(s, u, d, m, kind) ==
    MonitorSignalAdd(MonitorNew([s EXCEPT !.fd[u] = d], m, d, kind), d, u)
(* Variant: socket_monitor_fd_closed is left out.                          *)
CloseUserSilently(s, u) == [SignalClear(s, u) EXCEPT !.fd[u] = None, !.polled = @ \ {u}]
CloseUser(s, u) ==
    FdClosed([SignalClear(s, u) EXCEPT !.fd[u] = None, !.polled = @ \ {u}], s.fd[u])

(*---------------------------------- the loop ------------------------------*)
(* signal_raise: the callback of each user that has hooked the signal;     *)
(* there is one.                                                           *)
Raise(s, m, sig, ends, next) ==
    IF s.hooks[m] = {} THEN Become(s) /\ call' = NoCall /\ at' = next
    ELSE \E u \in s.hooks[m] :
            Become(s) /\ call' = [user |-> u, sig |-> sig, ends |-> ends] /\ at' = next

(* socket_poll begins an iteration over socket_monitors.                   *)
StartPass == /\ at = "idle" /\ call = NoCall
             /\ left' = {m \in Monitors : mon[m].on} /\ at' = "collect"
             /\ UNCHANGED <<fd, polled, mon, hooks, batch, setsize, call>>
(* socket_poll_monitors: the monitor is locked and referenced.             *)
Visit == /\ at = "collect" /\ Len(batch) < setsize
         /\ \E m \in left :
               Become([State EXCEPT
                   !.left = @ \ {m},
                   !.mon[m].held = ~mon[m].dead,
                   !.batch = IF mon[m].dead THEN @ ELSE Append(@, m)])
         /\ UNCHANGED <<at, call>>
(* poll(): each descriptor has some events or none.                        *)
Poll == /\ at = "collect" /\ (Len(batch) = setsize \/ left = {})
        /\ polled' = {u \in Users : \E i \in 1 .. Len(batch) : mon[batch[i]].fd = fd[u]}
        /\ at' = IF batch = <<>> THEN "idle" ELSE "begin"
        /\ UNCHANGED <<fd, mon, hooks, left, batch, setsize, call>>

Handled == batch[1]
(* The tests of dead, at the beginning and after each callback.            *)
Stale(m) == mon[m].dead

(* HANDLE_CLEANUP: the monitor is let go, and freed if it was destroyed.   *)
Cleanup(s, m) == [s EXCEPT !.batch = Tail(@),
                           !.mon[m] = IF @.marked THEN Free ELSE [@ EXCEPT !.held = FALSE]]
(* Variant: the pass ends when a full set has been handled.                *)
NextAtIdle == IF Len(batch) > 1 THEN "begin" ELSE "idle"
(* The iteration goes on after a set has been handled.                     *)
NextAt == IF Len(batch) > 1 THEN "begin" ELSE "collect"
HandleCleanup == /\ call = NoCall /\ at = "cleanup"
                 /\ Become(Cleanup(State, Handled))
                 /\ at' = NextAt /\ UNCHANGED call

(* socket_handle_fdset, from one callback to the next.                     *)
Handle == call = NoCall /\ at \in {"begin", "write"}
Here(place) == Handle /\ at = place /\ ~Stale(Handled)
Skip == Handle /\ Stale(Handled) /\ Become(State) /\ at' = "cleanup" /\ UNCHANGED call

(* What poll() found (revents) is any of what it was asked for.  An error  *)
(* comes before everything else, and ends an attempt to connect.           *)
HandleError ==
    /\ Here("begin")
    /\ IF mon[Handled].connected
         THEN Raise(State, Handled, "error", FALSE, "cleanup")
         ELSE Raise([State EXCEPT !.mon[Handled].dead = TRUE], Handled, "error", TRUE, "destroy")
HandleAccept ==
    /\ Here("begin") /\ ~mon[Handled].connected /\ mon[Handled].listening
    /\ Raise(State, Handled, "connect", FALSE, "cleanup")
(* POLLIN without a byte to read: the peer has closed.                     *)
HandleClose ==
    /\ Here("begin") /\ mon[Handled].connected
    /\ Raise([State EXCEPT !.mon[Handled].dead = TRUE], Handled, "close", TRUE, "destroy")
HandleRead ==
    /\ Here("begin") /\ mon[Handled].connected
    /\ Raise(State, Handled, "read", FALSE, "write")
NothingToRead ==
    /\ Here("begin") /\ Become(State) /\ at' = "write" /\ UNCHANGED call
HandleConnected ==
    /\ Here("write") /\ ~mon[Handled].connected /\ ~mon[Handled].listening
    /\ Raise([State EXCEPT !.mon[Handled].connected = TRUE], Handled, "connect", FALSE, "cleanup")
HandleWrite ==
    /\ Here("write") /\ mon[Handled].connected
    /\ Raise(State, Handled, "write", FALSE, "timeouts")
NothingToWrite ==
    /\ Here("write") /\ Become(State) /\ at' = "timeouts" /\ UNCHANGED call
(* signal_poll, if the monitor is still valid.                             *)
Timeouts ==
    /\ call = NoCall /\ at = "timeouts"
    /\ \/ Become(State) /\ at' = "cleanup" /\ UNCHANGED call
       \/ ~Stale(Handled) /\ Raise(State, Handled, "timeout", FALSE, "cleanup")
(* obj_destroy after the callback of a close or of a failed connect.       *)
HandleDestroy == /\ call = NoCall /\ at = "destroy"
                 /\ Become(ObjDestroy(State, {Handled})) /\ at' = "cleanup" /\ UNCHANGED call

(*----------------------- what runs in callbacks and between ---------------*)
Running == call # NoCall \/ at = "idle"
Open(u) == /\ Running /\ fd[u] = None
           /\ {m \in Monitors : ~mon[m].on} # {}
           /\ \E d \in Fds \ {fd[v] : v \in Users}, kind \in Kinds :
                 Become(Opened(State, u, d, CHOOSE m \in Monitors : ~mon[m].on, kind))
           /\ UNCHANGED <<at, call>>
Close(u) == Running /\ fd[u] # None /\ Become(CloseUser(State, u)) /\ UNCHANGED <<at, call>>
(* The callbacks of "socket-close", and of "socket-error" before the       *)
(* connection is made, close their descriptor.                             *)
Over == call.ends /\ fd[call.user] # None /\ GetFd(State, fd[call.user]) = {}
Return == /\ call # NoCall /\ ~Over
          /\ call' = NoCall /\ UNCHANGED <<fd, polled, mon, hooks, left, batch, setsize, at>>

Loop == \/ StartPass \/ Visit \/ Poll \/ HandleCleanup \/ Skip \/ HandleError
        \/ HandleAccept \/ HandleClose \/ HandleRead \/ NothingToRead \/ HandleConnected
        \/ HandleWrite \/ NothingToWrite \/ Timeouts \/ HandleDestroy \/ Return
Next == Loop \/ \E u \in Users : Open(u) \/ Close(u)
Spec == Init /\ [][Next]_vars
(* main calls socket_poll for ever, and callbacks return; those of a close *)
(* close their descriptor first.                                           *)
Leave == Over /\ Close(call.user)
FairSpec == Spec /\ WF_vars(Loop \/ Leave)

--------------------------------------------------------------------------------
TypeOK ==
    /\ fd \in [Users -> Fds \cup {None}]
    /\ polled \subseteq Users
    /\ \A m \in Monitors : mon[m].on => mon[m].fd \in Fds
    /\ \A m \in Monitors : hooks[m] \subseteq Users /\ (hooks[m] # {} => mon[m].on)
    /\ left \subseteq {m \in Monitors : mon[m].on}
    /\ \A i \in 1 .. Len(batch) : mon[batch[i]].on /\ mon[batch[i]].held
    /\ at \in {"idle", "collect", "begin", "write", "timeouts", "destroy", "cleanup"}

(* The monitor by which a user hears of its descriptor.                    *)
Hears(u, m) == mon[m].on /\ ~mon[m].dead /\ mon[m].fd = fd[u] /\ u \in hooks[m]

(* Whoever has a descriptor open hears of it, by one monitor that nobody   *)
(* else has hooked; only while he is being told that it is over does he    *)
(* not (socket.c:430 looks descriptors up among those not dead).           *)
OpenIsMonitored ==
    \A u \in Users : fd[u] # None =>
       \/ \E m \in Monitors : /\ Hears(u, m) /\ hooks[m] = {u}
                              /\ \A n \in Monitors : Hears(u, n) => n = m
       \/ Over /\ call.user = u

(* A callback runs for the descriptor its user has now, never for what     *)
(* poll() said of one that was closed since, even if the kernel gave its   *)
(* number again (socket.c:604, 679).                                       *)
CallsAreCurrent ==
    [][call = NoCall /\ call'.user # None =>
        call'.user \in polled /\ mon[Handled].fd = fd[call'.user]]_vars

(* Between two passes nothing is left of descriptors that were closed.     *)
NothingLeft ==
    at = "idle" => \A m \in Monitors : mon[m].on =>
                      \E u \in Users : Hears(u, m) /\ ~mon[m].held /\ ~mon[m].marked

(* Monitors and the descriptors that are open agree.                       *)
MonitorsAgree == TypeOK /\ OpenIsMonitored /\ NothingLeft

(* However many descriptors there are, each that stays open is polled      *)
(* (socket.c:763: when the set is full it is polled in the middle of the   *)
(* iteration).                                                             *)
EveryoneIsPolled == \A u \in Users : fd[u] # None ~> (u \in polled \/ fd[u] = None)
================================================================================
