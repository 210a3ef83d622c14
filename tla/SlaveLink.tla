------------------------------- MODULE SlaveLink -------------------------------
(***************************************************************************)
(* The link between the master (ftpd: slaves.c, asynch.c, stats.c, sfv.c   *)
(* and the wipes of ftpd.c) and its slaves (fsd.c): a slave connects, is   *)
(* asked its name, is told which files were deleted while it was away and  *)
(* is asked for its file list, which is merged in the master's index.      *)
(* From then on files are deleted, statistics are probed, the connection   *)
(* or either process can be lost, and the slave comes back.                *)
(*                                                                         *)
(* The master is one thread: each action below on its side is one whole    *)
(* signal handler, command or periodic call.  A slave is one thread of     *)
(* another machine.  Between the two is one TCP connection, two queues.    *)
(*                                                                         *)
(* Left out: transfers, mirrors, SFV and UPDATE queries, folders, lists    *)
(* with malformed entries, running out of memory or of disk space, and a   *)
(* slave that maps a path twice.                                           *)
(***************************************************************************)
EXTENDS Asynch, DeletelogLines
CONSTANTS
    NoSlave, NoCnx,     \* cnx->slave == NULL, slave->cnx == NULL
    SfvFiles,           \* the files whose name ends in .sfv
    Unremovable,        \* files a slave's remove() fails on (its result is ignored)
    UseEncryption,      \* slaves_use_encryption
    UseCertificate,     \* ftpd_certificate_file && ftpd_certificate_key
    Environment         \* which outside events happen, see Events

(* What may happen from outside: it names the calls and failures a model   *)
(* explores, and bounds nothing else.                                      *)
Events == { "stats", "wipe", "wipe_from", "slave_new", "slave_delete",
            "dump", "crash", "lost", "refuse", "slow", "slave_gone", "slave_fails",
            "send_fails" }

ASSUME NamesAssumption == NoSlave \notin Slaves /\ NoCnx \notin Cnx
ASSUME OptionsAssumption ==
    /\ SfvFiles \subseteq Files
    /\ Unremovable \subseteq Files
    /\ UseEncryption \in BOOLEAN
    /\ UseCertificate \in BOOLEAN
    /\ Environment \subseteq Events

VARIABLES
    running,    \* the master process runs
    known,      \* the slaves collection of the master
    configs,    \* the slaves that have a configuration file on the master's disk
    fileslog,   \* the files named in a slave's .fileslog on the master's disk
    deletelog,  \* the lines of its .deletelog
    ix,         \* the index of files
    stage,      \* the collection a connection is in: connecting_ or connected_slaves
    link,       \* cnx->slave
    slaveCnx,   \* slave->cnx
    ready,      \* cnx->ready
    queries,    \* cnx->asynch_queries, newest first
    response,   \* cnx->asynch_response, newest first
    toMaster,   \* the packets on their way to the master, oldest first
    toSlave,    \* the packets on their way to the slave, oldest first
    peer,       \* the slave process that holds the other end of a connection
    outbox,     \* enqueued_packets of that process, newest first
    mapped,     \* mapped_disks of a slave
    disk        \* the files on the disks of a slave

durable == <<configs, fileslog, deletelog>>
session == <<stage, link, slaveCnx, ready, queries, response>>
storage == <<mapped, disk>>
remote  == <<toSlave, peer, outbox, mapped, disk>>
vars == <<running, known, durable, ix, session, toMaster, remote>>

TypeOK ==
    /\ running \in BOOLEAN
    /\ known \subseteq Slaves
    /\ configs \subseteq Slaves
    /\ fileslog \in [Slaves -> SUBSET Files]
    /\ deletelog \in [Slaves -> Deletelog(Files)]
    /\ ix \in Index
    /\ stage \in [Cnx -> {"closed", "connecting", "connected"}]
    /\ link \in [Cnx -> Slaves \cup {NoSlave}]
    /\ slaveCnx \in [Slaves -> Cnx \cup {NoCnx}]
    /\ ready \in [Cnx -> BOOLEAN]
    /\ queries \in [Cnx -> Seq(Query)]
    /\ response \in [Cnx -> Seq(Query)]
    /\ toMaster \in [Cnx -> Seq(Reply)]
    /\ toSlave \in [Cnx -> Seq(Query)]
    /\ peer \in [Cnx -> Slaves \cup {NoSlave}]
    /\ outbox \in [Cnx -> Seq(Reply)]
    /\ mapped \in [Slaves -> SUBSET Files]
    /\ disk \in [Slaves -> SUBSET Files]

--------------------------------------------------------------------------------
(* A fresh master: the slaves it knows have been added (slave_new) and none *)
(* has connected; every slave maps what is on its disks.                   *)
Init ==
    /\ running = TRUE
    /\ known \in SUBSET Slaves
    /\ configs = known
    /\ fileslog = [s \in Slaves |-> {}]
    /\ deletelog = [s \in Slaves |-> EmptyLog]
    /\ ix = NoFiles
    /\ stage = [c \in Cnx |-> "closed"]
    /\ link = [c \in Cnx |-> NoSlave]
    /\ slaveCnx = [s \in Slaves |-> NoCnx]
    /\ ready = [c \in Cnx |-> FALSE]
    /\ queries = [c \in Cnx |-> <<>>]
    /\ response = [c \in Cnx |-> <<>>]
    /\ toMaster = [c \in Cnx |-> <<>>]
    /\ toSlave = [c \in Cnx |-> <<>>]
    /\ peer = [c \in Cnx |-> NoSlave]
    /\ outbox = [c \in Cnx |-> <<>>]
    /\ disk \in [Slaves -> SUBSET Files]
    /\ mapped = disk

--------------------------------------------------------------------------------
Open(c) == stage[c] # "closed"

InUse(c) == UNION {UidsIn(q) : q \in { queries[c], response[c], toSlave[c],
                                       outbox[c], toMaster[c] }}
Free(c) == Uids \ InUse(c)
NewUid(c) == CHOOSE u \in Free(c) : TRUE
(* A call from outside leaves a uid for the query a handler will ask.      *)
Spare(c) == \E u, v \in Free(c) : u # v

(* A handler makes the next query of the handshake.                        *)
Ask(c, kind, F) ==
    /\ Free(c) # {}
    /\ queries' = [queries EXCEPT ![c] = AsynchNew(@, NewUid(c), kind, F)]

(* make_deletelog_query: nothing in the deletelog (config_load_file gives  *)
(* no buffer for an empty file either), then straight to the file list.    *)
AskDeletelog(c, s) ==
    \/ deletelog[s] = EmptyLog /\ Ask(c, "FILE_LIST", {})
    \/ deletelog[s] # EmptyLog /\ Ask(c, "DELETELOG", LinesRead(deletelog[s]))

(* With the slave forgotten before its files are looked at, they lose      *)
(* their location.                                                         *)
DisconnectForgets(c, at) ==
    /\ stage' = [stage EXCEPT ![c] = "closed"]
    /\ ready' = [ready EXCEPT ![c] = FALSE]
    /\ queries' = [queries EXCEPT ![c] = <<>>]
    /\ response' = [response EXCEPT ![c] = <<>>]
    /\ toMaster' = [toMaster EXCEPT ![c] = <<>>]
    /\ link' = [link EXCEPT ![c] = NoSlave]
    /\ slaveCnx' = [s \in Slaves |-> IF s = link[c] THEN NoCnx ELSE slaveCnx[s]]
    /\ configs' = configs \cup ({link[c]} \cap Slaves)
    /\ ix' = ForgetConnection(at, c)
    /\ UNCHANGED <<running, known, fileslog, deletelog, remote>>

(* slave_connection_obj_destroy, with the index the handler has made so    *)
(* far: its files become offline from its slave, its commands are freed    *)
(* without their callbacks being called, and slave_dump saves the          *)
(* configuration of the slave with the time it was last online.            *)
Disconnect(c, at) ==
    /\ stage' = [stage EXCEPT ![c] = "closed"]
    /\ ready' = [ready EXCEPT ![c] = FALSE]
    /\ queries' = [queries EXCEPT ![c] = <<>>]
    /\ response' = [response EXCEPT ![c] = <<>>]
    /\ toMaster' = [toMaster EXCEPT ![c] = <<>>]
    /\ link' = [link EXCEPT ![c] = NoSlave]
    /\ slaveCnx' = [s \in Slaves |-> IF s = link[c] THEN NoCnx ELSE slaveCnx[s]]
    /\ configs' = configs \cup ({link[c]} \cap Slaves)
    /\ ix' = IF link[c] = NoSlave THEN at
             ELSE MarkOffline(at, c, link[c], at.avail[c])
    /\ UNCHANGED <<running, known, fileslog, deletelog, remote>>

(* slave_connection_read: a whole packet has arrived.                      *)
Arrived(c) == Open(c) /\ toMaster[c] # <<>>
Answer(c) == Head(toMaster[c])
Matched(c) == Arrived(c) /\ Matches(response[c], Answer(c).uid) # {}
Slot(c) == CHOOSE i \in Matches(response[c], Answer(c).uid) : TRUE
Answers(c, kind) == Matched(c) /\ response[c][Slot(c)].kind = kind

(* asynch_match has called the callback and destroyed the command; the     *)
(* packet is consumed, and slave_check_timeouts then destroys the commands *)
(* whose time is up: their callbacks return 0, but nobody looks at it.     *)
TimeoutsAfter(c, rest) ==
    \E r \in Unexpired(rest) :
        /\ "slow" \notin Environment => r = rest
        /\ response' = [response EXCEPT ![c] = r]
SettleKeeps(c) ==
    /\ toMaster' = [toMaster EXCEPT ![c] = Tail(@)]
    /\ TimeoutsAfter(c, response[c])
Settle(c) ==
    /\ toMaster' = [toMaster EXCEPT ![c] = Tail(@)]
    /\ TimeoutsAfter(c, RemoveAt(response[c], Slot(c)))

--------------------------------------------------------------------------------
(* slaves_connect and slave_connection_new, for slave process s: the first *)
(* query is enqueued.  A connection rejected by onSlaveConnect leaves no   *)
(* trace.  One slave process keeps one connection at a time.               *)
Accept(c, s) ==
    /\ running /\ ~Open(c)
    /\ peer[c] = NoSlave /\ \A d \in Cnx : peer[d] # s
    /\ stage' = [stage EXCEPT ![c] = "connecting"]
    /\ peer' = [peer EXCEPT ![c] = s]
    /\ Ask(c, IF UseEncryption THEN "PUBLIC_KEY" ELSE "HELLO", {})
    /\ UNCHANGED <<running, known, durable, ix, link, slaveCnx, ready, response,
                   toMaster, toSlave, outbox, storage>>

(* Variant: what was behind the newest query is forgotten.                 *)
WriteForgetsOlder(c) ==
    /\ Open(c) /\ queries[c] # <<>>
    /\ queries' = [queries EXCEPT ![c] = <<>>]
    /\ response' = [response EXCEPT ![c] = <<Head(queries[c])>> \o @]
    /\ toSlave' = IF peer[c] = NoSlave THEN toSlave
                  ELSE [toSlave EXCEPT ![c] = Append(@, Head(queries[c]))]
    /\ UNCHANGED <<running, known, durable, ix, stage, link, slaveCnx, ready,
                   toMaster, peer, outbox, storage>>

(* slave_connection_write: send_asynch_query sends the first query of the  *)
(* collection, the newest.                                                 *)
SlaveConnectionWrite(c) ==
    /\ Open(c) /\ queries[c] # <<>>
    /\ queries' = [queries EXCEPT ![c] = Tail(@)]
    /\ response' = [response EXCEPT ![c] = <<Head(queries[c])>> \o @]
    /\ toSlave' = IF peer[c] = NoSlave THEN toSlave
                  ELSE [toSlave EXCEPT ![c] = Append(@, Head(queries[c]))]
    /\ UNCHANGED <<running, known, durable, ix, stage, link, slaveCnx, ready,
                   toMaster, peer, outbox, storage>>

(* slave_connection_close, _error, a failed read or write, a write timeout *)
(* or a slave kicked by a script: any time, from outside.                  *)
ConnectionLost(c) == "lost" \in Environment /\ Open(c) /\ Disconnect(c, ix)

(* slave_connection_read_timeout: nothing has come for 60 seconds.         *)
ReadTimeoutOnceReady(c) == ready[c] /\ toMaster[c] = <<>> /\ Disconnect(c, ix)
SlaveConnectionReadTimeout(c) == Open(c) /\ toMaster[c] = <<>> /\ Disconnect(c, ix)

(* slave_connection_read when io_read_packet has but a part of the packet: *)
(* the timeouts are checked.                                               *)
PartialRead(c) ==
    /\ "slow" \in Environment /\ Arrived(c)
    /\ TimeoutsAfter(c, response[c])
    /\ UNCHANGED <<running, known, durable, ix, stage, link, slaveCnx, ready, queries,
                   toMaster, remote>>

(* asynch_match finds no command: "this is not critical".                  *)
UnmatchedReply(c) ==
    /\ Arrived(c) /\ ~Matched(c)
    /\ toMaster' = [toMaster EXCEPT ![c] = Tail(@)]
    /\ TimeoutsAfter(c, response[c])
    /\ UNCHANGED <<running, known, durable, ix, stage, link, slaveCnx, ready, queries, remote>>

(* public_key_query_callback and blowfish_key_query_callback: the next     *)
(* query is made unless a key is refused by the crypto library.            *)
KeyAnswered(c, kind, next) ==
    /\ Answers(c, kind)
    /\ \/ Answer(c).type = kind /\ Ask(c, next, {}) /\ Settle(c)
          /\ UNCHANGED <<running, known, durable, ix, stage, link, slaveCnx, ready, remote>>
       \/ Answer(c).type # kind /\ Disconnect(c, ix)
       \/ "refuse" \in Environment /\ Disconnect(c, ix)
PublicKeyAnswered(c) == KeyAnswered(c, "PUBLIC_KEY", "BLOWFISH_KEY")
BlowfishKeyAnswered(c) == KeyAnswered(c, "BLOWFISH_KEY", "HELLO")

(* hello_query_callback: the connection and the slave are linked, unless   *)
(* the slave is not known or has a connection already.                     *)
WelcomeTwice(s) == s \in known
Welcome(s) == s \in known /\ slaveCnx[s] = NoCnx

HelloAnswered(c) ==
    LET s == Answer(c).from IN
    /\ Answers(c, "HELLO")
    /\ \/ /\ Answer(c).type = "HELLO" /\ Welcome(s)
          /\ link' = [link EXCEPT ![c] = s]
          /\ slaveCnx' = [slaveCnx EXCEPT ![s] = c]
          /\ IF UseCertificate THEN Ask(c, "CERTIFICATE_x509", {}) ELSE AskDeletelog(c, s)
          /\ Settle(c)
          /\ UNCHANGED <<running, known, durable, ix, stage, ready, remote>>
       \/ /\ Answer(c).type = "HELLO" => ~Welcome(s)
          /\ Disconnect(c, ix)

(* sslcert_x509_query_callback and sslcert_pkey_query_callback: an answer  *)
(* of another type means a slave without SSL, and is no reason to stop.    *)
CertificateAnswered(c) ==
    /\ \/ Answers(c, "CERTIFICATE_x509") /\ Ask(c, "CERTIFICATE_PKEY", {})
       \/ Answers(c, "CERTIFICATE_PKEY") /\ AskDeletelog(c, link[c])
    /\ Settle(c)
    /\ UNCHANGED <<running, known, durable, ix, stage, link, slaveCnx, ready, remote>>

(* deletelog_query_callback: the file is emptied, whatever it holds now.   *)
DeletelogAnswered(c) ==
    /\ Answers(c, "DELETELOG")
    /\ \/ /\ Answer(c).type = "DELETED"
          /\ deletelog' = [deletelog EXCEPT ![link[c]] = EmptyLog]
          /\ Ask(c, "FILE_LIST", {})
          /\ Settle(c)
          /\ UNCHANGED <<running, known, configs, fileslog, ix, stage, link, slaveCnx,
                         ready, remote>>
       \/ Answer(c).type # "DELETED" /\ Disconnect(c, ix)

(* file_list_query_callback: the list, of entries that are well formed     *)
(* (else slaves.c:1128-1137 give up), is merged, the connection becomes a  *)
(* connected one, and it is ready if no SFV needs to be asked for and the  *)
(* event onSlaveIdentSuccess accepts it.  The SFV files whose contents the *)
(* master has not got from another merge may be any.                       *)
FileListAnswered(c) ==
    LET listed == Answer(c).files
        merged == MergeFileList(ix, c, link[c], listed)
    IN
    /\ Answers(c, "FILE_LIST")
    /\ \/ /\ Answer(c).type = "FILE_LIST"
          /\ ix' = merged
          /\ stage' = [stage EXCEPT ![c] = "connected"]
          /\ \E missing \in SUBSET (listed \cap SfvFiles) :
                \/ missing = {} /\ ready' = [ready EXCEPT ![c] = TRUE] /\ UNCHANGED queries
                \/ missing # {} /\ Ask(c, "SFVLOG", missing) /\ UNCHANGED ready
          /\ Settle(c)
          /\ UNCHANGED <<running, known, durable, link, slaveCnx, remote>>
       \/ /\ "refuse" \in Environment
          /\ Answer(c).type = "FILE_LIST"
          /\ Disconnect(c, merged)
       \/ Answer(c).type # "FILE_LIST" /\ Disconnect(c, ix)

(* sfvlog_query_callback: ready whatever the type of the answer, unless    *)
(* onSlaveIdentSuccess rejects it.                                         *)
SfvlogAnswered(c) ==
    /\ Answers(c, "SFVLOG")
    /\ \/ /\ ready' = [ready EXCEPT ![c] = TRUE]
          /\ Settle(c)
          /\ UNCHANGED <<running, known, durable, ix, stage, link, slaveCnx, queries, remote>>
       \/ "refuse" \in Environment /\ Disconnect(c, ix)

(* probe_stats_callback: anything but statistics disconnects the slave.    *)
(* delete_query_callback: nothing is done, the file was deleted or not.    *)
StatsAnswered(c) ==
    /\ Answers(c, "STATS")
    /\ \/ Answer(c).type = "STATS" /\ Settle(c)
          /\ UNCHANGED <<running, known, durable, ix, stage, link, slaveCnx, ready, queries, remote>>
       \/ Answer(c).type # "STATS" /\ Disconnect(c, ix)
DeleteAnswered(c) ==
    /\ Answers(c, "DELETE") /\ Settle(c)
    /\ UNCHANGED <<running, known, durable, ix, stage, link, slaveCnx, ready, queries, remote>>

SlaveConnectionRead(c) ==
    \/ UnmatchedReply(c)
    \/ PublicKeyAnswered(c) \/ BlowfishKeyAnswered(c) \/ HelloAnswered(c)
    \/ CertificateAnswered(c) \/ DeletelogAnswered(c)
    \/ FileListAnswered(c) \/ SfvlogAnswered(c)
    \/ StatsAnswered(c) \/ DeleteAnswered(c)

--------------------------------------------------------------------------------
(* probe_stats, for one of the connected slaves.                           *)
ProbeStats(c) ==
    /\ "stats" \in Environment
    /\ running /\ stage[c] = "connected" /\ Spare(c)
    /\ Ask(c, "STATS", {})
    /\ UNCHANGED <<running, known, durable, ix, stage, link, slaveCnx, ready, response,
                   toMaster, remote>>

(* slave_delete_file on each connection of D.                              *)
AskDelete(D, f) ==
    queries' = [c \in Cnx |->
        IF c \in D THEN AsynchNew(queries[c], NewUid(c), "DELETE", {f}) ELSE queries[c]]

(* ftpd_wipe (DELE): the slaves the file is online from are told to delete *)
(* it, it goes to the deletelog of the others, and the element is removed. *)
Wipe(f) ==
    /\ "wipe" \in Environment
    /\ running /\ f \in ix.vfs
    /\ \A c \in ix.availFrom[f] : Spare(c)
    /\ AskDelete(ix.availFrom[f], f)
    /\ deletelog' = [s \in Slaves |->
           IF s \in ix.offlineFrom[f] THEN LoggingWrite(deletelog[s], f)
           ELSE deletelog[s]]
    /\ ix' = DeleteElements(ix, {f})
    /\ UNCHANGED <<running, known, configs, fileslog, stage, link, slaveCnx, ready, response,
                   toMaster, remote>>

(* ftpd_wipe_from: the same for one slave; the element goes only when it   *)
(* is available from nowhere anymore.                                      *)
WipeFrom(f, s) ==
    LET D == {c \in ix.availFrom[f] : link[c] = s} IN
    /\ "wipe_from" \in Environment
    /\ running /\ f \in ix.vfs /\ s \in known
    /\ \A c \in D : Spare(c)
    /\ AskDelete(D, f)
    /\ \/ /\ s \in ix.offlineFrom[f]
          /\ deletelog' = [deletelog EXCEPT ![s] = LoggingWrite(@, f)]
          /\ ix' = DeleteIfNowhere(OfflineDelete(ix, s, {f}), {f})
       \/ /\ s \notin ix.offlineFrom[f]
          /\ ix' = DeleteIfNowhere(ix, {f})
          /\ UNCHANGED deletelog
    /\ UNCHANGED <<running, known, configs, fileslog, stage, link, slaveCnx, ready, response,
                   toMaster, remote>>

(* What slave_dump_fileslog writes for s.                                  *)
Listed(s) == ix.offline[s] \cup
             (IF slaveCnx[s] = NoCnx THEN {} ELSE ix.avail[slaveCnx[s]])

(* slaves_dump_fileslog, for the slave whose time has come.                *)
DumpFileslog(s) ==
    /\ "dump" \in Environment
    /\ running /\ s \in known
    /\ fileslog' = [fileslog EXCEPT ![s] = Listed(s)]
    /\ UNCHANGED <<running, known, configs, deletelog, ix, session, toMaster, remote>>

(* slave_new, under a name no configuration file has.                      *)
SlaveNew(s) ==
    /\ "slave_new" \in Environment
    /\ running /\ s \notin known \cup configs
    /\ known' = known \cup {s}
    /\ configs' = configs \cup {s}
    /\ UNCHANGED <<running, fileslog, deletelog, ix, session, toMaster, remote>>

(* slave_delete: the three files are removed, the slave leaves every       *)
(* collection; its connection, if any, is destroyed, and saves the         *)
(* configuration file it finds open in slave->config.                      *)
SlaveDelete(s) ==
    /\ "slave_delete" \in Environment
    /\ running /\ s \in known
    /\ known' = known \ {s}
    /\ fileslog' = [fileslog EXCEPT ![s] = {}]
    /\ deletelog' = [deletelog EXCEPT ![s] = EmptyLog]
    /\ \/ /\ slaveCnx[s] = NoCnx
          /\ configs' = configs \ {s}
          /\ ix' = ForgetSlave(ix, s)
          /\ UNCHANGED <<session, toMaster>>
       \/ \E c \in Cnx :
          /\ slaveCnx[s] = c
          /\ configs' = (configs \ {s}) \cup {s}
          /\ ix' = ForgetSlave(ForgetConnection(ix, c), s)
          /\ stage' = [stage EXCEPT ![c] = "closed"]
          /\ ready' = [ready EXCEPT ![c] = FALSE]
          /\ link' = [link EXCEPT ![c] = NoSlave]
          /\ slaveCnx' = [slaveCnx EXCEPT ![s] = NoCnx]
          /\ queries' = [queries EXCEPT ![c] = <<>>]
          /\ response' = [response EXCEPT ![c] = <<>>]
          /\ toMaster' = [toMaster EXCEPT ![c] = <<>>]
    /\ UNCHANGED <<running, remote>>

(* The master stops without notice: nothing is saved on the way out        *)
(* (slaves_free is empty), and a fileslog that was being written, by       *)
(* fopen "w", has lost any part of what it named.                          *)
MasterCrash ==
    /\ "crash" \in Environment
    /\ running
    /\ running' = FALSE
    /\ known' = {}
    /\ ix' = NoFiles
    /\ stage' = [c \in Cnx |-> "closed"]
    /\ ready' = [c \in Cnx |-> FALSE]
    /\ link' = [c \in Cnx |-> NoSlave]
    /\ slaveCnx' = [s \in Slaves |-> NoCnx]
    /\ queries' = [c \in Cnx |-> <<>>]
    /\ response' = [c \in Cnx |-> <<>>]
    /\ toMaster' = [c \in Cnx |-> <<>>]
    /\ \/ UNCHANGED fileslog
       \/ \E s \in known : \E part \in SUBSET Listed(s) :
              /\ "dump" \in Environment
              /\ fileslog' = [fileslog EXCEPT ![s] = part]
    /\ UNCHANGED <<configs, deletelog, remote>>

(* slave_remove_deletelog_files: what the deletelog of a slave names is    *)
(* taken out of what its fileslog names.                                   *)
Kept == [s \in Slaves |-> fileslog[s] \ LinesRead(deletelog[s])]

(* slaves_load_config: every slave with a configuration file is loaded,    *)
(* and its fileslog is written again if its deletelog made a difference    *)
(* (slave_load).                                                           *)
MasterStart ==
    /\ ~running
    /\ running' = TRUE
    /\ known' = configs
    /\ ix' = LoadOffline(configs, Kept)
    /\ fileslog' = [s \in Slaves |-> IF s \in configs THEN Kept[s] ELSE fileslog[s]]
    /\ UNCHANGED <<configs, deletelog, session, toMaster, remote>>

--------------------------------------------------------------------------------
(* The slave process, fsd.c.                                               *)
Asked(c) == Head(toSlave[c])
CanProcess(c) == peer[c] # NoSlave /\ toSlave[c] # <<>>

(* enqueue_packet puts the packet first in enqueued_packets.               *)
EnqueuePacket(c, type, F) ==
    /\ toSlave' = [toSlave EXCEPT ![c] = Tail(@)]
    /\ outbox' = [outbox EXCEPT ![c] =
          <<[uid |-> Asked(c).uid, type |-> type, files |-> F, from |-> peer[c]]>> \o @]

(* process_file_list: the files a slave has in its map, and not what is on *)
(* its disks by now.                                                       *)
FileListFromDisk(c) == disk[peer[c]]
FileList(c) == mapped[peer[c]]

(* handle_inputs for the queries that leave the disks alone: they are      *)
(* answered with a packet of the same type.                                *)
HandleInputs(c) ==
    /\ CanProcess(c) /\ Asked(c).kind \notin {"DELETE", "DELETELOG"}
    /\ EnqueuePacket(c, Asked(c).kind,
                     IF Asked(c).kind = "FILE_LIST" THEN FileList(c) ELSE {})
    /\ UNCHANGED <<running, known, durable, ix, session, toMaster, peer, storage>>

(* reply_failure: out of memory, no SSL, or a query this build of the      *)
(* slave does not have (the default branch of handle_inputs).  A slave     *)
(* that has the file but fails to delete it is Unremovable's business.     *)
ReplyFailure(c) ==
    /\ "slave_fails" \in Environment
    /\ CanProcess(c) /\ Asked(c).kind # "DELETE"
    /\ EnqueuePacket(c, "FAILURE", {})
    /\ UNCHANGED <<running, known, durable, ix, session, toMaster, peer, storage>>

(* file_unmap: out of the map, and off the disk if remove() succeeds.      *)
FileUnmap(s, F) ==
    /\ mapped' = [mapped EXCEPT ![s] = @ \ F]
    /\ disk' = [disk EXCEPT ![s] = @ \ ((F \cap mapped[s]) \ Unremovable)]

(* process_slave_delete: a file that is not mapped is a failure.           *)
ProcessSlaveDelete(c) ==
    LET s == peer[c] IN
    /\ CanProcess(c) /\ Asked(c).kind = "DELETE"
    /\ \/ /\ Asked(c).files \subseteq mapped[s]
          /\ FileUnmap(s, Asked(c).files)
          /\ EnqueuePacket(c, "DELETED", {})
       \/ /\ ~(Asked(c).files \subseteq mapped[s])
          /\ EnqueuePacket(c, "FAILURE", {})
          /\ UNCHANGED storage
    /\ UNCHANGED <<running, known, durable, ix, session, toMaster, peer>>

(* process_slave_deletelog: the files there are, and IO_DELETED anyway.    *)
DeletelogUnread(c) ==
    /\ CanProcess(c) /\ Asked(c).kind = "DELETELOG"
    /\ EnqueuePacket(c, "DELETED", {})
    /\ UNCHANGED <<running, known, durable, ix, session, toMaster, peer, storage>>
ProcessSlaveDeletelog(c) ==
    /\ CanProcess(c) /\ Asked(c).kind = "DELETELOG"
    /\ FileUnmap(peer[c], Asked(c).files)
    /\ EnqueuePacket(c, "DELETED", {})
    /\ UNCHANGED <<running, known, durable, ix, session, toMaster, peer>>

(* handle_outputs sends the first packet of the collection, the newest; a  *)
(* send() that fails returns -1, which is not 0 and passes for success.    *)
HandleOutputs(c) ==
    /\ peer[c] # NoSlave /\ outbox[c] # <<>>
    /\ outbox' = [outbox EXCEPT ![c] = Tail(@)]
    /\ \/ Open(c) /\ toMaster' = [toMaster EXCEPT ![c] = Append(@, Head(outbox[c]))]
       \/ (Open(c) => "send_fails" \in Environment) /\ UNCHANGED toMaster
    /\ UNCHANGED <<running, known, durable, ix, session, toSlave, peer, storage>>

(* main: the connection is lost, the packets in and out are dropped; the   *)
(* files stay mapped and the slave connects again.  The end the master has *)
(* closed is noticed sooner or later; the other way round the master may   *)
(* not notice for long.                                                    *)
SlaveClose(c) ==
    /\ peer[c] # NoSlave
    /\ Open(c) => "slave_gone" \in Environment
    /\ peer' = [peer EXCEPT ![c] = NoSlave]
    /\ toSlave' = [toSlave EXCEPT ![c] = <<>>]
    /\ outbox' = [outbox EXCEPT ![c] = <<>>]
    /\ UNCHANGED <<running, known, durable, ix, session, toMaster, storage>>

(* The slave process is started again and maps what is on its disks.       *)
SlaveRestart(s) ==
    /\ \A c \in Cnx : peer[c] # s
    /\ mapped' = [mapped EXCEPT ![s] = disk[s]]
    /\ UNCHANGED <<running, known, durable, ix, session, toMaster, toSlave, peer, outbox, disk>>

--------------------------------------------------------------------------------
Master(c) ==
    \/ \E s \in Slaves : Accept(c, s)
    \/ SlaveConnectionWrite(c)
    \/ SlaveConnectionRead(c) \/ PartialRead(c)
    \/ ConnectionLost(c) \/ SlaveConnectionReadTimeout(c)
    \/ ProbeStats(c)
Calls ==
    \/ \E f \in Files : Wipe(f) \/ \E s \in Slaves : WipeFrom(f, s)
    \/ \E s \in Slaves : DumpFileslog(s) \/ SlaveNew(s) \/ SlaveDelete(s)
    \/ MasterCrash \/ MasterStart
Slave(c) ==
    \/ HandleInputs(c) \/ ReplyFailure(c)
    \/ ProcessSlaveDelete(c) \/ ProcessSlaveDeletelog(c)
    \/ HandleOutputs(c) \/ SlaveClose(c)
Next ==
    \/ \E c \in Cnx : Master(c) \/ Slave(c)
    \/ Calls
    \/ \E s \in Slaves : SlaveRestart(s)
Spec == Init /\ [][Next]_vars

--------------------------------------------------------------------------------
(* A connection and its slave point at each other: hello_query_callback    *)
(* links them once, and whichever of the two is destroyed first, by a lost *)
(* connection, a second HELLO of the same slave or slave_delete, the other *)
(* is left without a pointer to it.                                        *)
LinkOK ==
    /\ \A c \in Cnx, s \in Slaves : link[c] = s <=> slaveCnx[s] = c
    /\ \A s \in Slaves : slaveCnx[s] # NoCnx => s \in known
    /\ \A c \in Cnx : ~Open(c) => link[c] = NoSlave
    /\ \A c \in Cnx : stage[c] = "connected" => link[c] # NoSlave

(* The two sides of the online and of the offline relation agree, and name *)
(* existing elements and known slaves only, after every merge, wipe,       *)
(* disconnection and deletion of a slave (the collections of slaves.c).    *)
IndexOK ==
    /\ IndexConsistent(ix)
    /\ \A s \in Slaves : s \notin known => ix.offline[s] = {}

(* Files come online with the merge of a list and at no other time, and    *)
(* the merge settles every file the master thought the slave had: nothing  *)
(* is online from a connection whose list has not been merged, and nothing *)
(* stays offline from a slave whose list has.                              *)
OnlineXorOffline ==
    \A c \in Cnx :
        /\ stage[c] # "connected" => ix.avail[c] = {}
        /\ \A s \in Slaves : stage[c] = "connected" /\ link[c] = s => ix.offline[s] = {}

(* A connecting slave is asked one thing at a time: each query of the      *)
(* handshake is made by the callback of the one before, so no other query  *)
(* can overtake it in the collections that are served newest first, and    *)
(* the callbacks that use cnx->slave are not called before it is set.  The *)
(* queries of a connected slave are never those of the handshake again.    *)
BeforeLink == {"PUBLIC_KEY", "BLOWFISH_KEY", "HELLO"}
Outstanding(c) == ToSet(queries[c]) \cup ToSet(response[c])
OneAtATime ==
    \A c \in Cnx :
        /\ stage[c] = "closed" => queries[c] = <<>> /\ response[c] = <<>>
        /\ stage[c] = "connecting" =>
              /\ Len(queries[c]) + Len(response[c]) <= 1
              /\ \A q \in Outstanding(c) : q.kind \in BeforeLink <=> link[c] = NoSlave
        /\ stage[c] = "connected" =>
              \A q \in Outstanding(c) : q.kind \in {"SFVLOG", "STATS", "DELETE"}
(* With the type invariant.                                                *)
InOrder == TypeOK /\ OneAtATime

(* The files a connection is being told to delete.                         *)
Deleting(c) ==
    UNION {q.files : q \in {m \in ToSet(queries[c] \o toSlave[c]) : m.kind = "DELETE"}}

(* While both ends hold the connection, what the master lists as online is *)
(* what the slave maps, but for the files it is being told to delete; and  *)
(* it never lists a file the slave does not have.  The list is a snapshot  *)
(* the slave took earlier, and deletions are sent in any order and lost.   *)
ListingExact ==
    \A c \in Cnx : \A s \in Slaves :
        /\ link[c] = s => ix.avail[c] \subseteq mapped[s]
        /\ link[c] = s /\ peer[c] = s /\ stage[c] = "connected" =>
              mapped[s] \subseteq ix.avail[c] \cup Deleting(c)

(* The answer to the deletelog is not sent before the files its lines name *)
(* to the slave are gone from it, but for those its remove() fails on: a   *)
(* slave that is started again before the answer is read has these again.  *)
(* Emptying the deletelog loses no other file.                             *)
AckMeansGone ==
    \A c \in Cnx : \A q \in ToSet(response[c]), p \in ToSet(outbox[c] \o toMaster[c]) :
        q.uid = p.uid /\ q.kind = "DELETELOG" /\ p.type = "DELETED" =>
            (q.files \ Unremovable) \cap mapped[p.from] = {}

(* An element is listed but located nowhere only as the trace of a slave   *)
(* that was deleted (or of a master that was): every other way to lose the *)
(* last location of a file removes its element.                            *)
Ghosts == {f \in ix.vfs : Nowhere(ix, f)}
GhostsOnlyFromDeletedSlaves ==
    [][known' = known => Ghosts' \subseteq Ghosts]_vars

--------------------------------------------------------------------------------
(* What a comment of the code says and the code does not do.               *)

(* ftpd.c:1378: "queue the delete query for all slaves from wich it is     *)
(* unavailable": what is queued in a deletelog leaves it only once the     *)
(* slave does not have the file anymore.                                   *)
DeletelogKeptUntilDeleted ==
    [][\A s \in known \cap known' :
        (AllLines(deletelog[s]) \ AllLines(deletelog'[s])) \cap mapped[s] = {}]_vars

--------------------------------------------------------------------------------
(* socket_poll raises the read and write signals of every socket that is   *)
(* ready, and checks the timeouts, again and again, on both sides; a       *)
(* packet that has partly arrived arrives.  Queues are served newest       *)
(* first, and nothing but time protects what is behind: probes are five    *)
(* seconds apart (probe_stats) and a turn of the loop is much shorter, so  *)
(* that a queue that has n packets again and again is served at n at last. *)
Backlogs == 1 .. Cardinality(Uids)
Fairness ==
    \A c \in Cnx :
        /\ WF_vars(SlaveConnectionWrite(c))
        /\ \A n \in Backlogs : SF_vars(Len(queries[c]) = n /\ SlaveConnectionWrite(c))
        /\ WF_vars(SlaveConnectionRead(c))
        /\ WF_vars(SlaveConnectionReadTimeout(c))
        /\ WF_vars(HandleInputs(c) \/ ProcessSlaveDelete(c) \/ ProcessSlaveDeletelog(c))
        /\ WF_vars(HandleOutputs(c))
        /\ \A n \in Backlogs : SF_vars(Len(outbox[c]) = n /\ HandleOutputs(c))
FairSpec == Spec /\ Fairness

(* The last answer of the handshake, SFVLOG's, does not come any more: the *)
(* query has expired, or the answer was lost by its sender.  The slave is  *)
(* there, and answers the probes, which keep the connection open.          *)
SfvlogUnderWay(c) ==
    \/ \E q \in ToSet(queries[c]) : q.kind = "SFVLOG"
    \/ \E q \in ToSet(response[c]) :
          /\ q.kind = "SFVLOG"
          /\ q.uid \in UidsIn(toSlave[c]) \cup UidsIn(outbox[c]) \cup UidsIn(toMaster[c])
Stranded(c) ==
    peer[c] # NoSlave /\ stage[c] = "connected" /\ ~ready[c] /\ ~SfvlogUnderWay(c)

(* A slave that connects ends up ready or its connection is closed,        *)
(* whatever is lost, refused or late, but in one place: one whose SFVLOG   *)
(* query is not answered in time may stay neither.  The callback of an     *)
(* expired query returns zero, and slaves_check_asynch_timeouts drops it   *)
(* (slaves.c:1841); what closes the connection at the steps before is only *)
(* the read timeout, for nothing else is asked of the slave till then.     *)
HandshakeEnds ==
    \A c \in Cnx : Open(c) /\ ~ready[c] ~> ready[c] \/ ~Open(c) \/ Stranded(c)

(* A file that a connected slave is told to delete is deleted, or the      *)
(* connection is lost: the query is not forgotten in a queue, though       *)
(* probes and deletions asked after it are sent before it (asynch.c:102).  *)
DeleteArrives ==
    \A c \in Cnx, s \in Slaves, f \in Files :
        link[c] = s /\ f \in Deleting(c) ~> f \notin mapped[s] \/ link[c] # s \/ peer[c] # s
==============================================================================
