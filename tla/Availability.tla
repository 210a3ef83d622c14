----------------------------- MODULE Availability -----------------------------
(***************************************************************************)
(* What the link between the master and its slaves promises to the rest of *)
(* the master, which selects slaves for transfers, lists directories and   *)
(* counts sizes: for each slave, whether it takes part, and which files it *)
(* offers now (online) or will offer when it is back (offline).  There are *)
(* no connections, queries, packets or log files here.                     *)
(***************************************************************************)
CONSTANTS Slaves, Files

VARIABLES session, online, offline
vars == <<session, online, offline>>

Sessions == {"unknown", "away", "joining", "serving"}

TypeOK ==
    /\ session \in [Slaves -> Sessions]
    /\ online \in [Slaves -> SUBSET Files]
    /\ offline \in [Slaves -> SUBSET Files]

Init ==
    /\ session \in [Slaves -> {"unknown", "away"}]
    /\ online = [s \in Slaves |-> {}]
    /\ offline = [s \in Slaves |-> {}]

(* A slave is added, with nothing to offer, or deleted with all it had.    *)
Add(s) ==
    /\ session[s] = "unknown"
    /\ session' = [session EXCEPT ![s] = "away"]
    /\ UNCHANGED <<online, offline>>
Forget(s) ==
    /\ session[s] # "unknown"
    /\ session' = [session EXCEPT ![s] = "unknown"]
    /\ online' = [online EXCEPT ![s] = {}]
    /\ offline' = [offline EXCEPT ![s] = {}]

(* A slave connects.  Until its list is known its files stay offline.      *)
Join(s) ==
    /\ session[s] = "away"
    /\ session' = [session EXCEPT ![s] = "joining"]
    /\ UNCHANGED <<online, offline>>

(* Its list comes: all of it is online at once, and nothing else is left.  *)
Serve(s, F) ==
    /\ session[s] = "joining"
    /\ session' = [session EXCEPT ![s] = "serving"]
    /\ online' = [online EXCEPT ![s] = F]
    /\ offline' = [offline EXCEPT ![s] = {}]

(* Its list comes, and a script rejects it.                                *)
Reject(s, F) ==
    /\ session[s] = "joining"
    /\ session' = [session EXCEPT ![s] = "away"]
    /\ offline' = [offline EXCEPT ![s] = F]
    /\ UNCHANGED online

(* It goes: what it offered is offline, and no location is forgotten.      *)
Leave(s) ==
    /\ session[s] \in {"joining", "serving"}
    /\ session' = [session EXCEPT ![s] = "away"]
    /\ online' = [online EXCEPT ![s] = {}]
    /\ offline' = [offline EXCEPT ![s] = @ \cup online[s]]

(* A file is deleted, from all the slaves at once; or from what one slave  *)
(* that is away will offer.                                                *)
Delete(f) ==
    /\ online' = [s \in Slaves |-> online[s] \ {f}]
    /\ offline' = [s \in Slaves |-> offline[s] \ {f}]
    /\ UNCHANGED session
Unlist(s, f) ==
    /\ session[s] # "serving"
    /\ offline' = [offline EXCEPT ![s] = @ \ {f}]
    /\ UNCHANGED <<session, online>>

(* The master stops, and starts with the slaves of K and what it had noted *)
(* of their files.                                                         *)
Stop ==
    /\ session' = [s \in Slaves |-> "unknown"]
    /\ online' = [s \in Slaves |-> {}]
    /\ offline' = [s \in Slaves |-> {}]
Start(K, L) ==
    /\ \A s \in Slaves : session[s] = "unknown"
    /\ session' = [s \in Slaves |-> IF s \in K THEN "away" ELSE "unknown"]
    /\ offline' = [s \in Slaves |-> IF s \in K THEN L[s] ELSE {}]
    /\ UNCHANGED online

Next ==
    \/ \E s \in Slaves : Add(s) \/ Forget(s) \/ Join(s) \/ Leave(s)
    \/ \E s \in Slaves, F \in SUBSET Files : Serve(s, F) \/ Reject(s, F)
    \/ \E f \in Files : Delete(f) \/ \E s \in Slaves : Unlist(s, f)
    \/ Stop
    \/ \E K \in SUBSET Slaves, L \in [Slaves -> SUBSET Files] : Start(K, L)
Spec == Init /\ [][Next]_vars
==============================================================================
