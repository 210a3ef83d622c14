------------------------------- MODULE SlaveXfer -------------------------------
(***************************************************************************)
(* One transfer on the slave's side (fsd.c, with adio.c underneath): the   *)
(* LISTEN and TRANSFER queries of the master, the data connection that may *)
(* be made before or after the second, the buffer between the socket and   *)
(* the disk, and the answer.                                               *)
(*                                                                         *)
(* The bytes of a file are numbered: an upload brings 1, 2, ... in this    *)
(* order and a file to be downloaded is <<1, ..., N>>, so that a byte that *)
(* is lost, doubled or out of place shows.  A checksum is the sequence of  *)
(* the bytes it was computed over.                                         *)
(*                                                                         *)
(* The slave is one thread: an action is one query, one signal of the data *)
(* socket or one turn of the poll.  The disk works on its own (overlapped  *)
(* reads and writes), the peer is the client or another slave.             *)
(*                                                                         *)
(* Left out: TLS on the data connection (see Secure), running out of       *)
(* memory, the partial pread64 and pwrite64 of the POSIX build, a second   *)
(* transfer of the same file, and a transfer that turns round.             *)
(***************************************************************************)
EXTENDS Integers, SequencesExt
CONSTANTS
    N,          \* bytes of the file, and the most a client uploads
    Buffer,     \* xfer->buffersize
    Window,     \* bytes the socket takes before the peer reads them
    MaxQueries  \* TRANSFER queries the master sends for this transfer
ASSUME SizesAssumption == /\ N \in Nat \ {0} /\ Buffer \in Nat \ {0}
                          /\ Window \in Nat \ {0} /\ MaxQueries \in Nat \ {0}

VARIABLES
    x,          \* the struct slave_xfer, or Gone
    options,    \* the proxies and delete-failed-uploads of load_config; which way the client goes
    mapped,     \* the slave has a struct file_map for the file
    file,       \* what the file on its disk holds
    size,       \* file->size
    handles,    \* file->io.refcount
    leaked,     \* references no slave_xfer will give back
    op,         \* what the disk is doing
    wire,       \* bytes sent and not yet received, in either direction
    sent,       \* bytes the peer sent so far
    got,        \* bytes the peer received
    peer,       \* the peer's end of the data connection
    master,     \* the slave is connected to its master
    queries,    \* TRANSFER queries received
    answers,    \* what was enqueued for the master, oldest first
    short       \* a send took less than was read and the rest was overwritten
vars == <<x, options, mapped, file, size, handles, leaked, op, wire, sent, got,
          peer, master, queries, answers, short>>
store == <<mapped, file, size, handles, leaked>>
outside == <<options, master, queries, sent, got, peer>>

Byte == 1 .. N
Whole == [i \in Byte |-> i]
Gone == [alive |-> FALSE]
Idle == "idle"          \* xfer->op_active is clear
OpStates == {Idle, "running", "done", "failed"}
Errors == {"FAILURE", "FILE_NOTFOUND", "FILE_NODISK", "FILE_OPEN", "FILE_READWRITE",
           "CNX_ERROR", "CNX_READ_TIMEOUT", "CNX_WRITE_TIMEOUT",
           "CNX_CONNECT_TIMEOUT", "PROXY_GARBAGE"}

(* What process_slave_listen and process_slave_transfer fill in first.     *)
NewXfer(passive, proxied) ==
    [alive |-> TRUE, passive |-> passive, proxied |-> proxied, connected |-> FALSE,
     ready |-> FALSE, upload |-> FALSE, completed |-> FALSE, monitored |-> FALSE,
     query |-> 0, hasFile |-> FALSE, hasOp |-> FALSE, restart |-> 0, xfered |-> 0,
     crc |-> <<>>, buf |-> [i \in 1 .. Buffer |-> 0], ptr |-> 0, len |-> 0, done |-> 0]

Init ==
    /\ x = Gone /\ options \in [proxy : BOOLEAN, delete : BOOLEAN, upload : BOOLEAN]
    /\ IF options.upload THEN mapped = FALSE /\ file = <<>> /\ size = 0
                         ELSE mapped = TRUE /\ file = Whole /\ size = N
    /\ handles = 0 /\ leaked = 0 /\ op = Idle
    /\ wire = <<>> /\ sent = 0 /\ got = <<>> /\ peer = "absent"
    /\ master = TRUE /\ queries = 0 /\ answers = <<>> /\ short = FALSE

Answer(q, type) == Append(answers, [to |-> q, type |-> type, size |-> 0, crc |-> <<>>])

(* Variant: the reference on the file is kept.                             *)
ReleaseNothing == UNCHANGED handles
(* xfer_obj_destroy: the last transfer on a file closes it.                *)
Release == handles' = IF x.hasFile THEN handles - 1 ELSE handles
XferDestroy == /\ x' = Gone /\ op' = Idle /\ wire' = <<>> /\ Release

(* file_unmap.                                                             *)
Unmap == mapped' = FALSE /\ file' = <<>> /\ size' = 0

(* delete_xfer: the transfer went wrong.  An upload is removed from disk   *)
(* (file_unmap); there is no answer before the TRANSFER query.             *)
DeleteXfer(error) ==
    /\ XferDestroy
    /\ IF x.upload /\ x.hasFile /\ options.delete
       THEN Unmap
       ELSE UNCHANGED <<mapped, file, size>>
    /\ answers' = IF x.query = 0 THEN answers ELSE Answer(x.query, error)
    /\ UNCHANGED <<leaked, short>>

(* complete_xfer: xfersize, filesize and checksum go to the master.        *)
CompleteXfer ==
    /\ XferDestroy
    /\ answers' = IF x.query = 0 THEN answers
                  ELSE Append(answers, [to |-> x.query, type |-> "TRANSFERED",
                                        size |-> IF x.hasFile THEN size ELSE 0, crc |-> x.crc])
    /\ UNCHANGED <<mapped, file, size, leaked, short>>

(* Variant: the last writes are not waited for.                            *)
CompleteAtOnce == CompleteXfer
(* xfer_monitor_adio: the socket is closed and all signals removed, what   *)
(* is left is in the hands of xfer_adio_poll.                              *)
MonitorAdio == /\ x' = [x EXCEPT !.monitored = TRUE]
               /\ wire' = <<>>
               /\ UNCHANGED <<store, op, answers, short>>

(* A signal can come from the data socket.                                 *)
Open == x.alive /\ ~x.monitored

--------------------------------------------------------------------------------
(* process_slave_listen: without a proxy the slave listens at once.        *)
ProcessListen ==
    /\ master /\ ~x.alive /\ queries = 0 /\ answers = <<>>
    /\ \/ /\ x' = NewXfer(TRUE, options.proxy)
          /\ answers' = IF options.proxy THEN answers ELSE Answer(0, "LISTENING")
       \/ /\ answers' = Answer(0, "FAILURE")     \* no listening socket
          /\ UNCHANGED x
    /\ UNCHANGED <<store, op, wire, outside, short>>

(* xfer_connect: a passive transfer accepts the peer, an active one has    *)
(* reached it.  A connection to a proxy is made before the peer's.         *)
XferConnect ==
    /\ Open /\ ~x.connected /\ peer = "absent"
    /\ \/ /\ x' = [x EXCEPT !.connected = TRUE]
          /\ peer' = "open"
          /\ UNCHANGED <<store, op, wire, answers, short>>
       \/ /\ x.passive /\ ~x.proxied /\ peer' = "closed"     \* accept() failed
          /\ DeleteXfer("FAILURE")
    /\ UNCHANGED <<options, master, queries, sent, got>>

(* Variant: the master is not told.                                        *)
ConnectTimeoutSilent ==
    /\ Open /\ ~x.connected
    /\ XferDestroy /\ UNCHANGED <<mapped, file, size, leaked, answers, short, outside>>
XferConnectTimeout ==
    /\ Open /\ ~x.connected
    /\ DeleteXfer("CNX_CONNECT_TIMEOUT")
    /\ UNCHANGED outside

(* The head of xfer_read and xfer_write: the query goes to the proxy and   *)
(* its answer is read before any data.  Only then is the master told that  *)
(* a passive transfer listens.                                             *)
ProxyReply ==
    /\ Open /\ x.connected /\ x.proxied
    /\ \/ /\ x' = [x EXCEPT !.proxied = FALSE]
          /\ answers' = IF x.passive THEN Answer(0, "LISTENING") ELSE answers
          /\ UNCHANGED <<store, op, wire, short>>
       \/ DeleteXfer("PROXY_GARBAGE")
    /\ UNCHANGED outside

(* setup_file_io, with adio_open: the first read of a download is asked of *)
(* the disk at once, of a whole buffer whatever the restart.               *)
FirstRead(y) ==
    LET n == IF Buffer > size' THEN size' ELSE Buffer
    IN  [y EXCEPT !.hasOp = TRUE, !.len = n, !.restart = @ + n]

(* _creat_recursive and file_map_add: an existing file is truncated.       *)
CreateFile == mapped' = TRUE /\ file' = <<>> /\ size' = 0

(* process_slave_transfer: a passive transfer goes on with the slave_xfer  *)
(* of the LISTEN query, an active one gets its own and connects.  What it  *)
(* held is forgotten, which on a second query leaves the file referenced.  *)
ProcessTransfer(passive, upload, restart) ==
    LET q == queries + 1
        base == IF passive THEN x ELSE NewXfer(FALSE, options.proxy)
        y == [base EXCEPT !.upload = upload, !.restart = IF upload THEN 0 ELSE restart,
                 !.query = q, !.ready = TRUE, !.xfered = 0, !.crc = <<>>,
                 !.hasFile = FALSE, !.hasOp = FALSE, !.ptr = 0, !.len = 0, !.done = 0,
                 !.buf = [i \in 1 .. Buffer |-> 0]]
        forgotten == IF x.alive /\ x.hasFile THEN 1 ELSE 0
        Refuse(error) == /\ x' = Gone /\ op' = Idle /\ wire' = <<>>
                         /\ answers' = Answer(q, error)
    IN  /\ master /\ queries < MaxQueries
        /\ queries' = q
        /\ \/ /\ passive /\ ~x.alive              \* could not match the xfer
              /\ answers' = Answer(q, "FAILURE")
              /\ UNCHANGED <<x, op, wire, store>>
           \/ /\ ~passive /\ x.alive              \* not supposed to match
              /\ XferDestroy
              /\ answers' = Answer(q, "FAILURE")
              /\ UNCHANGED <<mapped, file, size, leaked>>
           \/ /\ passive <=> x.alive
              /\ leaked' = leaked + forgotten
              /\ \/ /\ ~upload /\ ~mapped /\ Refuse("FILE_NOTFOUND")
                    /\ UNCHANGED <<mapped, file, size, handles>>
                 \/ /\ upload /\ Refuse("FILE_NODISK")       \* rotate_disks
                    /\ UNCHANGED <<mapped, file, size, handles>>
                 \/ /\ upload /\ CreateFile
                    /\ \/ /\ handles' = handles + 1 /\ op' = Idle
                          /\ x' = [y EXCEPT !.hasFile = TRUE]
                          /\ UNCHANGED <<wire, answers>>
                       \/ Refuse("FILE_OPEN") /\ UNCHANGED handles
                 \/ /\ ~upload /\ mapped
                    /\ UNCHANGED <<mapped, file>> /\ size' = Len(file)
                    /\ \/ /\ handles' = handles + 1 /\ op' = "running"
                          /\ x' = FirstRead([y EXCEPT !.hasFile = TRUE])
                          /\ UNCHANGED <<wire, answers>>
                       \/ Refuse("FILE_OPEN") /\ UNCHANGED handles
        /\ IF passive \/ x.alive THEN UNCHANGED <<peer, sent, got, short>>
           ELSE peer' = "absent" /\ sent' = 0 /\ got' = <<>> /\ short' = FALSE
        /\ UNCHANGED <<options, master>>

--------------------------------------------------------------------------------
(* The disk: a write puts what the buffer holds when it is done, a read    *)
(* fills the buffer (adio_read, adio_write; adio_probe finds it done).     *)
DiskWrites ==
    /\ x.alive /\ op = "running" /\ x.upload
    /\ op' = "done"
    /\ file' = file \o SubSeq(x.buf, 1, x.len)
    /\ UNCHANGED <<x, mapped, size, handles, leaked, wire, outside, answers, short>>

DiskReads ==
    /\ x.alive /\ op = "running" /\ ~x.upload
    /\ op' = "done"
    /\ x' = [x EXCEPT !.buf = [i \in 1 .. Buffer |->
               LET at == (x.restart - x.len) + i
               IN  IF i <= x.len /\ at <= Len(file) THEN file[at] ELSE @[i]]]
    /\ UNCHANGED <<store, wire, outside, answers, short>>

DiskFails ==
    /\ x.alive /\ op = "running"
    /\ op' = "failed"
    /\ UNCHANGED <<x, store, wire, outside, answers, short>>

(* xfer_read, for an upload: probe the write, read what there is room for, *)
(* and write the buffer once no room is left in it.  A read that would     *)
(* block leaves before the write is started.                               *)
Shifted(n, from) == [i \in 1 .. Buffer |-> IF i <= n THEN x.buf[from + i] ELSE x.buf[i]]
Probed == IF op = "done"
          THEN [x EXCEPT !.buf = Shifted(x.ptr - x.len, x.len),
                         !.ptr = @ - x.len, !.len = 0, !.done = 0]
          ELSE x
XferRead ==
    /\ Open /\ peer # "reset" /\ x.connected /\ ~x.proxied /\ x.ready /\ x.upload
    /\ wire # <<>>
    /\ \/ /\ op = "failed" /\ DeleteXfer("FILE_READWRITE")
       \/ /\ op # "failed"
          /\ LET room == Buffer - Probed.ptr
                 n == IF Len(wire) < room THEN Len(wire) ELSE room
                 bytes == SubSeq(wire, 1, n)
                 filled == [Probed EXCEPT
                     !.buf = [i \in 1 .. Buffer |->
                        IF i > Probed.ptr /\ i <= Probed.ptr + n
                        THEN bytes[i - Probed.ptr] ELSE @[i]],
                     !.ptr = @ + n, !.xfered = @ + n, !.crc = @ \o bytes]
             IN  /\ room # 0 \/ op # "running"
                 /\ wire' = SubSeq(wire, n + 1, Len(wire))
                 /\ size' = size + n
                 /\ \/ /\ n < room                       \* recv() would block
                       /\ x' = filled
                       /\ op' = IF op = "done" THEN Idle ELSE op
                    \/ /\ n = room
                       /\ IF op = "running"
                          THEN x' = filled /\ UNCHANGED op
                          ELSE /\ x' = [filled EXCEPT !.hasOp = TRUE, !.done = 0,
                                           !.len = filled.ptr, !.restart = @ + filled.ptr]
                               /\ op' = "running"
                 /\ UNCHANGED <<mapped, file, handles, leaked, answers, short>>
    /\ UNCHANGED outside

(* Variant: what was sent of the last buffer counts for this one.          *)
NextReadKeeps(y, n) == [y EXCEPT !.len = n, !.done = 0, !.restart = @ + n]
NextRead(y, n) == [y EXCEPT !.ptr = 0, !.len = n, !.done = 0, !.restart = @ + n]

(* xfer_write, for a download: probe the read, send what it brought, ask   *)
(* the disk for the next buffer or shut the socket down at the end.        *)
XferWrite ==
    /\ Open /\ x.connected /\ ~x.proxied /\ x.ready /\ ~x.upload
    /\ peer = "open" /\ Len(wire) < Window
    /\ \/ /\ x.restart > size /\ DeleteXfer("FAILURE")       \* CANNOT RESTART AFTER EOF
       \/ /\ x.restart <= size /\ op = "failed" /\ DeleteXfer("FILE_READWRITE")
       \/ /\ x.restart <= size /\ op # "failed" /\ ~x.completed
          /\ LET ended == op \in {Idle, "done"}
                 done == IF op = "done" THEN x.len ELSE x.done
                 rest == done - x.ptr
                 free == Window - Len(wire)
                 n == IF rest < free THEN rest ELSE free
                 bytes == SubSeq(x.buf, x.ptr + 1, x.ptr + n)
                 after == [x EXCEPT !.done = done, !.ptr = @ + n, !.xfered = @ + n,
                                    !.crc = @ \o bytes]
                 next == IF Buffer > size - x.restart THEN size - x.restart ELSE Buffer
             IN  \/ /\ size = x.xfered
                    /\ x' = [x EXCEPT !.done = done, !.completed = TRUE]
                    /\ op' = IF ended THEN Idle ELSE op
                    /\ UNCHANGED <<wire, short>>
                 \/ /\ size # x.xfered
                    /\ wire' = wire \o bytes
                    /\ short' = (short \/ (ended /\ n < rest))
                    /\ IF ~ended THEN x' = after /\ UNCHANGED op
                       ELSE IF next # 0
                       THEN /\ op' = "running"
                            /\ x' = NextRead(after, next)
                       ELSE op' = Idle /\ x' = [after EXCEPT !.completed = TRUE]
          /\ UNCHANGED <<store, answers>>
    /\ UNCHANGED outside

(* xfer_close: the peer closed and everything it sent was read.            *)
XferClose ==
    /\ Open /\ x.connected /\ peer = "closed"
    /\ x.upload => wire = <<>>
    /\ IF x.upload THEN MonitorAdio ELSE CompleteXfer
    /\ UNCHANGED outside

(* xfer_error, and xfer_read_timeout of an upload or xfer_write_timeout of *)
(* a download.                                                             *)
XferError ==
    /\ Open /\ peer = "reset"
    /\ DeleteXfer("CNX_ERROR")
    /\ UNCHANGED outside

XferTimeout ==
    /\ Open /\ x.connected /\ peer = "open"
    /\ \/ x.upload /\ wire = <<>> /\ DeleteXfer("CNX_READ_TIMEOUT")
       \/ ~x.upload /\ x.ready /\ Len(wire) = Window /\ DeleteXfer("CNX_WRITE_TIMEOUT")
    /\ UNCHANGED outside

(* xfer_adio_poll_callback: what no read was left to write is written, and *)
(* the transfer completes with its last write.  An error is only logged.   *)
(* The two lengths are unsigned.                                           *)
AdioPoll ==
    /\ x.alive /\ x.monitored
    /\ LET behind == x.ptr - x.len
           moved == [x EXCEPT !.ptr = behind, !.len = behind - x.len, !.done = 0, !.hasOp = TRUE,
                        !.buf = Shifted(behind, x.len), !.restart = @ + (behind - x.len)]
       IN  \/ /\ behind # 0 /\ op = Idle /\ behind >= x.len
              /\ x' = moved /\ op' = "running"
              /\ UNCHANGED <<store, wire, answers, short>>
           \/ /\ behind # 0 /\ op = Idle                      \* adio_write failed
              /\ DeleteXfer("FILE_READWRITE")
           \/ /\ behind = 0 /\ ~x.hasOp /\ CompleteXfer
           \/ /\ op = "done" \/ (op = Idle /\ behind = 0 /\ x.hasOp)
              /\ IF behind = 0 THEN CompleteXfer
                 ELSE /\ op' = Idle
                      /\ UNCHANGED <<x, store, wire, answers, short>>
    /\ UNCHANGED outside

(* process_slave_delete, with file_map_obj_destroy.                        *)
ProcessDelete ==
    /\ master /\ mapped
    /\ IF x.alive /\ x.hasFile
       THEN /\ answers' = Answer(x.query, "FAILURE")
            /\ XferDestroy
       ELSE UNCHANGED <<x, op, wire, handles, answers>>
    /\ Unmap
    /\ UNCHANGED <<leaked, outside, short>>

(* The slave loses its master (main): uploads are deleted, all transfers   *)
(* are destroyed, and nothing that was queued is sent.                     *)
MasterLost ==
    /\ master /\ x.alive
    /\ XferDestroy
    /\ IF x.upload /\ options.delete THEN Unmap ELSE UNCHANGED <<mapped, file, size>>
    /\ master' = FALSE
    /\ UNCHANGED <<options, leaked, queries, sent, got, peer, answers, short>>

--------------------------------------------------------------------------------
(* The peer.                                                               *)
PeerSends ==
    /\ Open /\ peer = "open" /\ ~x.proxied /\ (x.query # 0 => x.upload)
    /\ options.upload
    /\ sent < N /\ Len(wire) < Window
    /\ sent' = sent + 1 /\ wire' = Append(wire, sent + 1)
    /\ UNCHANGED <<x, options, store, op, got, peer, master, queries, answers, short>>

PeerReceives ==
    /\ Open /\ peer = "open" /\ wire # <<>> /\ x.query # 0 /\ ~x.upload
    /\ got' = Append(got, Head(wire)) /\ wire' = Tail(wire)
    /\ UNCHANGED <<x, options, store, op, sent, peer, master, queries, answers, short>>

(* A client that downloads closes once it has seen the end of the data, or *)
(* earlier; one that uploads closes to say that this was all.              *)
PeerCloses ==
    /\ Open /\ peer = "open" /\ ~x.proxied
    /\ peer' = "closed"
    /\ UNCHANGED <<x, options, store, op, wire, sent, got, master, queries, answers, short>>

PeerResets ==
    /\ Open /\ peer = "open"
    /\ peer' = "reset"
    /\ UNCHANGED <<x, options, store, op, wire, sent, got, master, queries, answers, short>>

--------------------------------------------------------------------------------
Socket == XferConnect \/ ProxyReply \/ XferRead \/ XferWrite \/ XferClose \/ XferError
Timeout == XferConnectTimeout \/ XferTimeout
Master == \/ ProcessListen \/ ProcessDelete \/ MasterLost
          \/ \E passive \in BOOLEAN, restart \in 0 .. N :
                 ProcessTransfer(passive, options.upload, restart)
Peer == PeerSends \/ PeerReceives \/ PeerCloses \/ PeerResets

Next == Master \/ Socket \/ Timeout \/ AdioPoll \/ DiskReads \/ DiskWrites \/ DiskFails \/ Peer

(* The loop of the slave polls its sockets and its monitored transfers and *)
(* lets timeouts expire, and the disk ends what it was asked.  Nobody has  *)
(* to connect, to answer, to send, to read or to close: neither the peer   *)
(* nor a proxy nor the master.  A socket that was shut down is writable to *)
(* poll(), which raises the signal that the write timeout waits to miss:   *)
(* that timeout is not counted on then.                                    *)
Answerable == XferRead \/ XferWrite \/ XferClose \/ XferError
Expiry == XferConnectTimeout \/ (XferTimeout /\ ~x.completed)
Fairness == /\ WF_vars(Answerable) /\ WF_vars(Expiry) /\ WF_vars(AdioPoll)
            /\ WF_vars(DiskReads \/ DiskWrites)
Spec == Init /\ [][Next]_vars /\ Fairness

--------------------------------------------------------------------------------
Struct == [alive : {TRUE}, passive : BOOLEAN, proxied : BOOLEAN, connected : BOOLEAN,
           ready : BOOLEAN, upload : BOOLEAN, completed : BOOLEAN, monitored : BOOLEAN,
           query : 0 .. MaxQueries, hasFile : BOOLEAN, hasOp : BOOLEAN,
           restart : 0 .. (N + Buffer), xfered : 0 .. N, crc : Seq(Byte),
           buf : [1 .. Buffer -> 0 .. N], ptr : 0 .. Buffer, len : 0 .. Buffer,
           done : 0 .. Buffer]

(* The types: pointers and lengths of the operation stay in the buffer.    *)
TypeOK ==
    /\ x \in Struct \cup {Gone}
    /\ options \in [proxy : BOOLEAN, delete : BOOLEAN, upload : BOOLEAN]
    /\ mapped \in BOOLEAN /\ file \in Seq(0 .. N) /\ size \in 0 .. N
    /\ handles \in Nat /\ leaked \in Nat /\ op \in OpStates
    /\ wire \in Seq(Byte) /\ Len(wire) <= Window /\ sent \in 0 .. N /\ got \in Seq(Byte)
    /\ peer \in {"absent", "open", "closed", "reset"} /\ master \in BOOLEAN
    /\ queries \in 0 .. MaxQueries /\ short \in BOOLEAN
    /\ answers \in Seq([to : 0 .. MaxQueries, size : 0 .. N, crc : Seq(Byte),
                        type : Errors \cup {"LISTENING", "TRANSFERED"}])

(* A file is closed with its last transfer, whichever of the many ways out *)
(* of a transfer was taken; only a second query for a transfer that runs   *)
(* loses a reference.                                                      *)
FileReleased == handles = leaked + (IF x.alive /\ x.hasFile THEN 1 ELSE 0)

(* A query is answered at most once, with success or with one error.       *)
AnsweredOnce ==
    \A i, j \in DOMAIN answers : answers[i].to = answers[j].to => i = j

(* Handles, queries and answers agree.                                     *)
TransferAgrees == TypeOK /\ FileReleased /\ AnsweredOnce

InOrder(s) == \A i \in 1 .. Len(s) - 1 : s[i + 1] = s[i] + 1

(* What a download has sent is the file from the restart on, without gap,  *)
(* up to its end once the socket is shut down, and the checksum is that of *)
(* what was sent; unless the socket took less than the disk had read.      *)
DownloadInOrder ==
    (x.alive /\ x.hasFile /\ ~x.upload /\ leaked = 0 /\ ~short) =>
        /\ got \o wire = x.crc \/ peer # "open"
        /\ InOrder(x.crc)
        /\ (x.completed /\ x.crc # <<>>) => Last(x.crc) = N

(* An upload that is answered TRANSFERED is on the disk, all of it, in the *)
(* order it was sent, and is what the size and the checksum in the answer  *)
(* say: the last buffer is written after the peer has gone, and what comes *)
(* in meanwhile does not overwrite it (fsd.c:1540).  An upload that ends   *)
(* in any other way leaves nothing on the disk (fsd.c:1233).               *)
Completes == answers' # answers /\ Last(answers').type = "TRANSFERED"
UploadWholeOrGone == [][
    (x.alive /\ ~x'.alive /\ x.upload) =>
        IF Completes
          THEN /\ file' = Last(answers').crc /\ Len(file') = Last(answers').size
               /\ leaked = 0 => file' = SubSeq(Whole, 1, sent)
          ELSE options.delete /\ queries' = queries => ~mapped' /\ file' = <<>>]_vars

(* The slave answers every query while its master is there, whatever the   *)
(* peer does: a transfer ends with an event or with a timeout.  Four ways  *)
(* out, of which the last two last as long as the peer likes: a query for  *)
(* the same transfer replaces the first; a disk that fails after the peer  *)
(* closed is only logged; a download whose proxy does not answer is held   *)
(* by no timeout, for the one of reads is not for it (fsd.c:1936) and      *)
(* writes that do nothing put the other off (fsd.c:1682); nor is one that  *)
(* has sent everything and whose peer does not close (fsd.c:1738).         *)
Answered(q) == \E i \in DOMAIN answers : answers[i].to = q
Forgotten == x.alive /\ x.monitored /\ op = "failed"
WaitsForPeer == /\ x.alive /\ ~x.monitored /\ ~x.upload /\ x.connected
                /\ peer = "open" /\ (x.proxied \/ x.completed)
EveryQueryAnswered ==
    \A q \in 1 .. MaxQueries :
        (queries = q) ~> (Answered(q) \/ queries # q \/ ~master \/ Forgotten \/ WaitsForPeer)
================================================================================
