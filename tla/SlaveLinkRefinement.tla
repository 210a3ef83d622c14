-------------------------- MODULE SlaveLinkRefinement --------------------------
(* SlaveLink implements Availability: what the rest of the master sees of  *)
(* a slave is in its slave_ctx and the connection it points at.            *)
EXTENDS SlaveLink

Session(s) ==
    IF s \notin known THEN "unknown"
    ELSE IF slaveCnx[s] = NoCnx THEN "away"
    ELSE IF stage[slaveCnx[s]] = "connecting" THEN "joining" ELSE "serving"
Online(s) == IF slaveCnx[s] = NoCnx THEN {} ELSE ix.avail[slaveCnx[s]]

Abs == INSTANCE Availability WITH
    session <- [s \in Slaves |-> Session(s)],
    online  <- [s \in Slaves |-> Online(s)],
    offline <- [s \in Slaves |-> ix.offline[s]]

(* Every step of the handshake, of the merge, of a wipe, of the loss of a  *)
(* connection and of a restart is one step of Availability or none.        *)
ImplementsAvailability == Abs!Spec
==============================================================================
