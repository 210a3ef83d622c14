-------------------------------- MODULE Asynch --------------------------------
(***************************************************************************)
(* The questions a master asks a slave and the answers it gets             *)
(* (asynch.c, packet.h): each slave_connection has a collection of queries *)
(* to send and one of queries that await an answer, and collection_add     *)
(* puts an item FIRST, so both are kept newest first.  A uid is compared   *)
(* for equality only and is never reused while a query or a packet carries *)
(* it, so that the 64 bit counter asynch_next_uid is replaced by any       *)
(* choice of a uid not in use.  The payload of a packet is the set of the  *)
(* files it names.                                                         *)
(***************************************************************************)
EXTENDS FileIndex, SequencesExt
CONSTANT Uids       \* the uids of asynch commands

HandshakeKinds ==
    { "PUBLIC_KEY", "BLOWFISH_KEY", "HELLO", "CERTIFICATE_x509",
      "CERTIFICATE_PKEY", "DELETELOG", "FILE_LIST", "SFVLOG" }
Kinds == HandshakeKinds \cup {"STATS", "DELETE"}

Query == [uid : Uids, kind : Kinds, files : SUBSET Files]
Reply == [uid : Uids, type : Kinds \cup {"DELETED", "FAILURE"},
          files : SUBSET Files, from : Slaves]

(* asynch_new adds the command to cnx->asynch_queries.                     *)
AsynchNew(q, u, kind, F) == <<[uid |-> u, kind |-> kind, files |-> F]>> \o q

(* asynch_matcher, over the commands that await an answer.                 *)
Matches(q, u) == {i \in DOMAIN q : q[i].uid = u}

(* slaves_check_asynch_timeouts: all queries of this model have the same   *)
(* timeout, so the ones sent first expire first, and what is left of the   *)
(* collection begins with the newest.                                      *)
Unexpired(q) == {SubSeq(q, 1, n) : n \in 0 .. Len(q)}

UidsIn(q) == {m.uid : m \in ToSet(q)}
================================================================================
