# xFTPd: specifications, model checking and proofs

xFTPd is a distributed FTP server: a *master* (`xFTPd`) talks to FTP clients
and keeps the virtual file system, and *slaves* (`fsd`) hold the files on their
disks and move the data. An optional *proxy* relays the connections. This
directory holds TLA+ modules for the parts of the system that its authors and
users rely on without seeing them: the agreement between the master's picture
of the files and what the slaves really have, the transfers between clients,
master and slaves, the connections these use, the configuration files, and the
collections and the socket loop every other part is built on.

## The system and its parts

| part | source | state | operations |
|---|---|---|---|
| slave link, master side | `slaves.c`, `stats.c`, `sfv.c` | `connecting_slaves`, `connected_slaves`, `slaves`; per connection the two command collections, `ready`, `slave`, `available_files`; per slave `cnx`, `offline_files`, `.fileslog`, `.deletelog`, configuration file | accept, read, write, timeouts, the chain of query callbacks, merge of a list, disconnect, add, delete, dump, load |
| asynchronous queries | `asynch.c` | a command with uid, callback, timeout, send time | new, match, destroy |
| slave process | `fsd.c` | `mapped_disks`, `enqueued_packets`, transfers | `handle_inputs`, `handle_outputs`, `file_unmap`, reconnection |
| virtual file system | `vfs.c` | tree of elements with `available_from`, `offline_from`, mirrors, leechers, uploader | create, find, delete, sizes, symbolic links, sections |
| clients and transfers | `ftpd.c`, `slaveselection.c` | clients, their data connection, `xfer` | login, commands, LISTEN/TRANSFER queries, cancellation, wipes |
| mirrors | `mirror.c` | two sides, each with a connection and a query | start, success, failure, cancel |
| collections, objects | `collection.c`, `obj.c` | members, collectors, iterators, reference counts | add, delete, iterate, destroy, void |
| signals, sockets | `signal.c`, `socket.c` | groups of callbacks with timeouts, monitored descriptors | raise, clear, poll |
| packets, io | `packet.c`, `io.c` | a partly read packet | read, write, compress, encrypt |
| disk io, configuration | `adio.c`, `config.c` | pending writes, `shouldsave`, `is_saving` | open, read, write, probe, save, poll |
| sfv, nukes, users | `sfv.c`, `nuke.c`, `users.c` | per release, per element, per account | |
| events and scripts | `events.c`, `scripts.c`, `lua*.c` | handlers | raise, register, reload |
| timers, loop | `timer.c`, `main.c` | timers | the main loop |
| proxy | `proxy.c` | pairs of sockets | relay |
| irc, site commands, skins, updates, service, cryptography | `irccore.c`, `site.c`, `skins.c`, `update.c`, `service.c`, `crypto.c`, `secure.c` | | |

How they interact. The master is one thread. `socket_poll` raises signals
("socket-read", "socket-write", "socket-close", ...) and calls timeouts; every
handler runs to its end before the next one starts, and so does every command
of an FTP client, every script and every periodic call of `main`. A slave is
one thread on another machine. The two exchange packets over one TCP
connection; the master asks, the slave answers with the same uid, and the
answer calls the callback that was stored with the query, which usually makes
the next query. What crosses handlers is therefore always a *queue* or a
*pointer kept in a structure*, and that is where the hard behaviour is:

* both queues of queries and the slave's queue of answers are served newest
  first, because `collection_add` adds at the front;
* the files a slave has are known through a snapshot (its list), a log of what
  was deleted meanwhile (deletelog), a cache for the time it is away
  (fileslog), and deletions under way;
* a connection can be lost between any two steps, on one side long before the
  other notices, and the slave then comes back on another connection;
* queries expire; answers come after they have expired;
* objects point at each other from both sides, and either may be destroyed
  first.

What makes each part correct: for the link, that index, links and handshake
agree as stated below; for transfers, that a client, an element and a
connection agree on who is transferring and that each transfer ends; for
collections, that an iteration visits valid members whatever its callback
removes; for packets, that what is read is what was written, however the
stream is cut; for configuration files, that what was last set is on the disk
sooner or later and that a crash leaves one version of it; for mirrors, that
both sides end together.

## Modules

| module | what it is |
|---|---|
| `DeletelogLines` | a deletelog, reduced to what its readers can tell apart |
| `LineSplit` | the bytes of a deletelog and the loop that reads its lines: shows that `DeletelogLines` is what the code does |
| `PacketStream` | packets on a TCP connection: how they are wrapped, sent, and read from a stream that arrives cut anywhere |
| `PacketQueue` | what packets promise to the two ends of a connection |
| `VfsPath` | paths: how they are trimmed in place, what they find and make, and the path that leads back |
| `MCBytes` | instances of `LineSplit`, `PacketStream` and `VfsPath` for TLC |
| `FileIndex` | the online and offline relations between files, connections and slaves, and the functions of `slaves.c`, `vfs.c` and `ftpd.c` that change them, each as an operator from index to index |
| `Asynch` | queries, answers and the operations of `asynch.c` on the queues |
| `SlaveLink` | the link: both sides, one action per handler, call or step |
| `Availability` | what the link promises to the rest of the master |
| `SlaveLinkRefinement` | the refinement mapping from `SlaveLink` to `Availability` |
| `MCSlaveLink` | constants for TLC |
| `Collections` | collections, items, reference counts and iterators, with callbacks that call them again |
| `Iterations` | what an iteration promises to its caller |
| `CollectionsRefinement` | the refinement mapping from `Collections` to `Iterations` |
| `MCCollections` | constants for TLC |
| `Transfer`, `MCTransfer` | the master's side of transfers: clients, their data connections, elements, slave connections and outstanding commands |
| `SlaveXfer` | the slave's side of one transfer: queries, data socket, buffer, disk |
| `Secure` | the layer between a socket and its user that may be TLS, as operators on a context |
| `Session` | the control connection of a client and its listings, over two contexts of `Secure` |
| `Sockets` | the loop over the sockets and the signals it raises |
| `Storage` | a configuration file, its asynchronous saves, and the user kept in it |
| `SlaveLinkProofs` | lemmas on the operators of `FileIndex` and `Asynch`; the inductive invariants of `SlaveLink` on the master's side and across a connection, the theorems, and the proof of the refinement |
| `PacketStreamProofs` | what stands in the stream, and the proof that every step of `PacketStream` is one of `PacketQueue` |
| `CollectionsProofs` | lemmas on lists, the stack and the counts of references; what each operation of `Collections` keeps; the inductive invariant, the theorems, and the proof of the refinement |
| `TransferProofs`, `SlaveXferProofs`, `SocketsProofs`, `StorageProofs`, `SessionProofs` | the inductive invariant of each, and the theorems |

### From the code to `SlaveLink`

| variable | in the code |
|---|---|
| `running`, `known` | the master process; the collection `slaves` |
| `configs`, `fileslog`, `deletelog` | the three files of a slave on the master's disk |
| `ix` | `available_files`, `available_from`, `offline_files`, `offline_from` and the elements that exist |
| `stage` | the collection a connection is in |
| `link`, `slaveCnx` | `cnx->slave`, `slave->cnx` |
| `ready` | `cnx->ready` |
| `queries`, `response` | `cnx->asynch_queries`, `cnx->asynch_response` |
| `toSlave`, `toMaster` | the two directions of the TCP connection |
| `peer` | which slave process holds the other end |
| `outbox` | `enqueued_packets` |
| `mapped`, `disk` | `mapped_disks`, and what is on the disks |

The actions of the master are `Accept`, `SlaveConnectionWrite`,
`SlaveConnectionRead` (one disjunct per callback), `PartialRead`,
`ConnectionLost`, `SlaveConnectionReadTimeout`, `ProbeStats`, `Wipe`,
`WipeFrom`, `DumpFileslog`, `SlaveNew`, `SlaveDelete`, `MasterCrash` and
`MasterStart`. Each is a whole handler: a callback that refuses an answer
disconnects in the same step, and the check of timeouts at the end of every
read is part of it. Those of the slave are `HandleInputs`, `ReplyFailure`,
`ProcessSlaveDelete`, `ProcessSlaveDeletelog`, `HandleOutputs`, `SlaveClose`
and `SlaveRestart`.

Abstractions. Files are model values; folders, sizes, dates, owners and
checksums are left out; a slave maps a path once. A uid is any one not in use
instead of a 64-bit counter. All queries have the same timeout in the code, so those sent first
expire first. Encryption, compression and the contents of keys and
certificates are left out; that a key is refused is an event. What happens
from outside is listed in the constant `Environment`, so that each run
explores the events its question needs; the proofs hold for every value.

### From the code to `Collections`

Every structure of the program is an object (`struct obj`: a reference count,
a mark, a destructor) that embeds a `struct collectible`, itself an object, and
is linked in collections, themselves objects, by a `collectible_instance`, an
object too. `coll`, `item` and `link` are these objects; `stack` is the C
stack, one record per call of this module, of a destructor or of code that
holds an item. Only its top moves. Where the top is at `"call"`, code of the
program runs: a callback, a destructor, the code between a lock and its unlock,
or, with no call in progress, anything. There every operation is possible, so
that the runs explore callbacks and destructors that add, delete, destroy,
lock, empty and iterate again, to the depth `MaxDepth`. Destructors and unlocks
that the operations themselves start may go deeper.

An operation that calls no code of the program is one step, written as an
operator from state to state (`ObjUnref`, `InstanceDestroy`, `UnlockItem`);
where it runs a destructor it pushes a frame, and what it has left to do after
the destructor is a frame below it (`"unref"`: the last line of
`collection_unlock`). Loops go one item at a time (`Advance`, `Sweep`).
The destructor of an item is what all of them are: `collectible_destroy` first,
then code of the program, then `free`.

Not in the model: `self_locked` (it is zero whenever a destructor begins, but
for calls of the module that are out of balance), an item linked twice in one
collection, `collection_movelast` during an iteration (its comment forbids it,
and no caller does it), matches and locks in a void collection, and what a
write through a pointer to freed memory does to other objects. The constant `DestroyBusy` says whether
callers destroy a collection that is in use.

A list is a sequence of items, and an iterator the item it reads next. What is
ahead of an iterator and valid is `ToVisit`; `collection_next` returns the one
that has all others of it ahead (`Found`). `Iterations` knows no lists: it has the
members of each collection and, for each iteration in progress, by its depth, a
set of members to visit. `CollectionsRefinement` maps the linked and valid items
to members, each `iterate` or `match` frame to an iteration at its place in the
stack, and `ToVisit` to what it has yet to visit.

### From the code to `Transfer` and `SlaveXfer`

A transfer has two ends, and one module each. In `Transfer`, `client` is
`struct ftpd_client_ctx` with what its data connection and its transfer keep
(`last_command`, `slave_xfer`, `passive`, `ready`, the descriptor, `xfer.cmd`,
`xfer.element`, `xfer.cnx`), `elem` the elements with `uploader`, `leechers`
and where they are, `xfers` the collection of the same name of each connection,
`cmds` the members of its two command collections. What the slave does is any
answer or none, at any time. The operations take the state as a record and
return the next one, because they call each other: `ftpd_client_cleanup_data_connection`
(`Cleanup`) deletes the element of an upload, whose destructor destroys the
clients that download it, which clean up in turn. A scenario that the code
handles in one call is one action: `Completed` is the whole of the success
branch of `slave_transfer_query_callback`, up to the clean-up that follows.

`SlaveXfer` is `struct slave_xfer`, its file, its data socket and the disk.
Bytes are numbered, so that a byte that is lost, doubled or moved shows, and a
checksum is the sequence of the bytes it was computed over. `op` is the adio
operation, `wire` what is in the socket, `peer` the client. `short` marks a
`send` that took less than it was given.

Left out on the master: login (it is in `Session`), REST offsets, addresses and
what a listing says; a script that acts inside an event other than by refusing;
the disconnection of a slave that answers nonsense. On the slave: TLS, the
partial `pwrite64` of the POSIX build, two transfers of one file.

### From the code to `Session` and `Secure`

A context of `Secure` is `struct secure_ctx`: `status`, `operation` and whether
TLS is on; `raised` is the signal its last operation has raised. An operation
takes the context and what OpenSSL answered. `Session` puts one under the
control connection and one under the data connection: `client` is the part of
`struct ftpd_client_ctx` that says who the client is, `messages` and `resume`
are the two buffers of replies, each reply reduced to the way its command came
(`"tls"` or `"clear"`; `"note"` for lines without a code, which wait for the
next reply), `data` is `data_ctx`. An action is an event of a socket with all
its handler does, the lines of input among it, or a timeout. The policies
`xftpd.secure.control` and `xftpd.secure.data` are chosen in `Init`.

### From the code to `Sockets`

`mon` is `struct socket_monitor`, `hooks` the callbacks on its signals, `left`
what the iteration of `socket_poll` has still to visit, `batch` the array
`fdset_monitors`, `at` the place in `socket_handle_fdset`, `call` the callback
in progress. The kernel gives a free number to whoever opens a descriptor. A
callback may open and close any descriptor, its own or another's. A user stands
for a holder of one descriptor with all its callbacks, which are hooked and
cleared as a group; the iteration over the monitors is in any order, which
includes the one of the code.

### From the code to `Storage`

`conf` is `struct config_file` (`fields`, `refs`, `shouldsave`, `is_saving`,
`late` for the time since `savetime`), `op` its adio file and operation, `disk`
the file, `user` the `struct user_ctx` kept in it. A line is one cell of the
file or two, so that a file cut at any cell shows what a file cut at any byte
would: a whole line, none, or the first part of one. `AdioOpen` and `AdioWrite`
have both builds. `Ends` is the end of the process in any way, a crash or an
exit, since `main` saves nothing at exit.

### From the code to `PacketStream`

One direction of a connection between the master and a slave; `writer` says
which of the two writes, because they differ: the master's `io_write_data` ends
the connection when `send` takes less than the packet, the slave's
`handle_outputs` does so only when it takes nothing and reports no error. `io`
is the `p` and `filled_size` of the reader's `struct io_context`, `stream` the
bytes on their way, `arrived` how many of them `socket_avail` sees. A packet is
a run of cells that know which packet they are of, so that a packet put
together from wrong bytes is not the one that was sent. The `size` field takes
two cells and a header three: -1, taken for a length, added to the size of the
field then falls inside the field, as 4 - 1 does in the code. Where the cell
read as a size is not the first of a packet, any size may be read. Compression
gives any size, encryption the same. `given` and `taken` are what the writer
was told was sent and what the reader was handed; `Wrapped` packets count as
what is in them.

### From the code to `VfsPath`

The functions of `vfs.c` on strings, as operators; `path` is the string a
command, a list or a script gives, typed word by word, `text` what
`vfs_trim_name` makes of it, and the invariants look `text` up and make it in
each of the trees. `vfs_trim_name` works in one buffer, so its
steps are from buffer to buffer, a sequence of bytes in which a string ends at
the first zero and what was there before may follow: `CollapseAt` and `Move`
are the loops that copy, `Climb` the loop over `ptr` and `ptr2`, and `TrimName`
uses the length the string had before both, as the code does. A tree maps each
element, given by the names that lead to it, to its type and the target of a
link. `Walked` is the reference: what is left of the names of a path when each
`..` takes the one before it.

The few definitions that stand before another one and differ from it in one
point (`MarkOfflineOneSided`, `DisconnectForgets`, `SettleKeeps` and so on) are
plausible mistakes, kept to show that each property notices one.

## Runs

`tlc -config X.cfg M`. A property that is a conjunction of named parts
(`TransfersAgree`, `ProtectionAgrees`, ...) is checked as one; its parts stand
before it, each with what it says.

| run | module | instance | shows |
|---|---|---|---|
| `MCTwoSlaves` | `MCSlaveLink` | 2 slaves, 2 connections, 1 file; wipes, lost connections and answers, slaves added and deleted, crashes | `IndexOK`, `LinkOK`, `OnlineXorOffline`, `AckMeansGone`, `GhostsOnlyFromDeletedSlaves`, and that the link implements `Availability` |
| `MCOneSlave` | `MCSlaveLink` | 1 slave, 2 connections, 2 files, one an SFV that cannot be removed; encryption and certificates; wipes, probes, refusals, expired queries, dumps, crashes | `InOrder` (`TypeOK` and `OneAtATime`), `ListingExact` |
| `MCLiveness` | `MCSlaveLink` | 1 slave, 1 connection, 2 files, one an SFV, 3 queries at once; wipes, probes, refusals, expired queries, lost answers; under `FairSpec` | `HandshakeEnds`, `DeleteArrives` |
| `MCBytes` | `MCBytes` | deletelogs of both builds, names of one and two bytes, up to 5 lines; 3 packets with 0 or 2 cells of data, either writer, every wrapping, every cut; paths of up to 9 bytes of both slashes, `..` and `a`, in an empty tree and in one with a folder, a file and a link | `LinesFound`, `PathsAgree`, and that the stream implements `PacketQueue` |
| `MCDeletelogLost` | `MCSlaveLink` | finds a violation | the deletelog forgets a file wiped while it is being answered |
| `MCIterate` | `MCCollections` | 1 collection that cascades, 3 items, depth 3; collections destroyed while in use | `NextIsLinked`, `HeldStays`, and that iterations keep the promise of `Iterations` |
| `MCShare` | `MCCollections` | 2 collections, one cascades, 2 items, depth 3 | `ListsAgree`, `RefsAreHeld`, `NothingLeft` |
| `MCSlaveXfer` | `SlaveXfer` | a file of 4 bytes, a buffer of 2, a socket that takes 2, 2 queries | `TransferAgrees`, `DownloadInOrder`, `UploadWholeOrGone`, `EveryQueryAnswered` |
| `MCTransfer` | `MCTransfer` | 2 clients, 2 slaves, 1 file | `TransfersAgree`, `CommandsAgree`, `NoGhostElement`, `CompleteFilesStay`, `CompleteIsThere`, `FreedUses` |
| `MCSession` | `Session` | 1 client after another, every control policy, up to 2 replies, sockets that are full | `ProtectionAgrees`, `RepliesDoNotCross`, `ResumedUnchanged`, `PromisesEnd` |
| `MCSockets` | `Sockets` | 2 users, 2 numbers, 3 monitors, sets of 1 and of 2 | `MonitorsAgree`, `CallsAreCurrent`, `EveryoneIsPolled` |
| `MCStorage` | `Storage` | both builds, 2 openers, 3 fields, 4 cells when the process ends; writes that are refused, or fail when they are under way | `InStep`, `ClosedIsSaved`, `GoneStaysGone`, `SavesEnd` |

`MCDeletelogLost` finds its property violated: it states what a comment of the
code says, and the trace is a run of the code that does otherwise (the
`findings` of `PROJECT.json` quote the comment). Deadlock is checked but in
`MCIterate`, `MCShare` (a program whose items and collections are all freed
has nothing left to call) and `MCSlaveXfer` (a transfer that is answered and
whose peer has gone is over).

Why the bounds are enough. Two connections are what a slave needs to come back
while the master still holds its former connection. Two slaves share a file,
so that losing one location differs from losing the last. Two files are needed
only where a deletion of one must be told from a list that holds the other.
`Uids` is the number of queries that are under way together on a connection
(in the queues or on the wire); two are left by a call from outside so that a
callback always has one for its next query: one in the handshake, one more for
a probe or a deletion, a third for two deletions: `MCLiveness` has three, and two
files, so that a deletion waits below a probe and another deletion that were
asked after it, and its SFV makes the handshake go through SFVLOG. A deletelog
needs no bound:
its lines are kept as sets. `MaxLines` bounds the lines in `LineSplit`; the loop
has no state between lines but its position, so that the first, a middle and
the last line are all the cases. Three items are a current one, a next one and
one after it, which is what an iterator that moves on can confuse; depth 3 is
an iteration, an iteration or a lock in its callback, and one more holder in
that. Items are symmetric.

Nine bytes are what `a/a/../..` takes, the shortest path in which the loop over
`..` begins again, goes on and ends with one; a longer path repeats these. The
trees have each thing that can be in the way: nothing, a folder, a file, a link.

Two clients and two slaves in `MCTransfer`: one client uploads what the other
asks for, and one slave is lost while the other still has the file; a second
file would only be a transfer that touches none of the others. `Uids` counts
the transfers that are remembered at once, one for each client. In
`SlaveXfer` a file of two buffers (`N` = 4, `Buffer` = 2) has a first, a last
and a full buffer, and `MaxQueries` = 2 is a query that comes while another
runs. In `PacketStream` a packet without data is
no longer than its header and one with data can be cut inside and after it; the
`Threshold` lies between the two, so that both compressed and plain packets
follow each other; the third packet is what is behind one that is read while
another is complete. `MaxReplies` = 2 is a reply that waits behind what a send has
left over, and one more behind it. Three monitors for
two descriptors: one per descriptor that is open, and one that is dead and
still held. `MaxOpens` = 2 is one who closes and one who stays; `MaxLines` a
user's fields and one of a script; `MaxCells` bounds what a file may have grown
to when the process ends, enough for the fields of a user in full and the
remains of longer ones.

Assumptions on callers. `Pipelining` is FALSE in two runs: clients wait for the
reply to a transfer command before the next one, or for the end of a listing,
as FTP clients do; what happens otherwise is below. `CloseBusy` is FALSE:
scripts do not close a file whose write is in flight with nothing left to
save. `Refusals` is TRUE. `ShortSends` is FALSE:
`send` takes the whole of a packet of the slave or nothing; what happens
otherwise is below.

## Fairness

`FairSpec` assumes weak fairness of the reads, the writes and the read timeout
of each connection on the master, and of reading and writing on the slave. The
code gives this: `main` of both programs calls `socket_poll` for ever, every
call raises "socket-read" or "socket-write" for every descriptor that is ready,
and checks every timeout; the read timeout fires only when nothing has come for
60 seconds, which the guard `toMaster[c] = <<>>` stands for. Nothing is assumed
of the slave's reconnection, of calls from clients and scripts, or of failures.
A queue that is served newest first could send probes for ever and never the
deletion below them. Nothing in the code but time prevents it: `probe_stats`
runs every five seconds, a turn of the loop takes much less, and each turn sends
a packet of each connection. So a queue does not stay at a length and above for
ever without being served at that length, which is strong fairness of the writes
(the master's, and those of the slave) at each length (`Backlogs`). A deletion may
be overtaken by any number of probes and deletions, and is.

`SlaveXfer`: the data socket is polled, its timeouts fire, and the disk ends
what it was asked (the guards of `Answerable` and `Expiry` name each). Nothing is
assumed of the peer, of a proxy or of the master: nobody has to connect, answer,
send, read or close. The timeout of a transfer that has completed is not counted
on, because `poll()` finds a socket that was shut down writable, and the signal it
raises puts the timeout off. `Session`: a socket that is writable again and again is written, because
`socket_poll` handles reading and writing of a descriptor in the same pass and
a client that keeps talking cannot keep the master from answering (strong
fairness of `Writable` and `DataWritable`); timeouts fire; and the client closes
its data connection once it has the listing, the one thing the code leaves to
it without a timeout. `Sockets`: the loop goes on and callbacks return.
`Storage`: the main loop polls, time passes, Windows writes what it was given
or fails to, and the disk does not refuse every single time (strong fairness of a poll
without a fault, which a disk that is full for ever would contradict).
`PacketStream`: what TCP has accepted arrives or the connection ends, and a
socket with data is read.

## Met on the way

Places where the code does not do what it says or what one expects. The models
have them as they are; where a property would break, its statement names the
exception, or an assumption on callers leaves it out.

*Link.* `ftpd_wipe_from` (ftpd.c:1450) tells the slave to delete the file and
leaves it available from the connection, where its comment promises what
`ftpd_wipe` does (`ListingExact` allows for it). The last file of a deletelog
is not deleted when lines end in LF, because the loop never looks at the last
byte (slaves.c:448, `LinesFound` states both cases). A file wiped between the
making of a list and its merge is listed again (slaves.c:1146). A slave deleted
while it is connected saves its configuration file again after `slave_delete`
has removed it (slaves.c:866). When SFVLOG expires, or its answer is lost, the
result of its callback is dropped and the slave is neither ready nor closed
(slaves.c:1841), as long as it answers probes, where asynch.h:63 says that a
callback is called on timeout too and that the slave is disconnected when it
returns zero. `HandshakeEnds` excepts exactly this state, by the name of
`Stranded`. `send` returning -1 passes for success
(fsd.c:2830).

*Packets.* A `send` of the slave that takes only a part of a packet passes for
success (fsd.c:2830) and the next packet is taken for the rest of it: with
`ShortSends` TLC breaks `ImplementsQueue` in five states. `recv` returning -1
passes for a long read (packet.c:163), after which the packet would be resumed
in the middle of its own size; the connection has been reset by then, and the
next read finds it so. A piece shorter than a header is never taken from the
socket, which stays readable: the reader hears of the end of the connection
only when it writes, or from its timeout.

*Collections.* One that is destroyed while it is in use is freed at the end of
that use without its items being destroyed or even unlinked, because
`collection_obj_destroy` asks for an iterator the mark forbids
(`CollectionObjDestroy`); an item that was marked while somebody held it is
skipped by the destruction of its collection, and unlinks itself later from
freed memory (`LinksAreLive` allows for it).

*Transfers, master.* A second PASV, RETR or STOR before the reply to the first
overwrites `xfer.cmd`; the check the comment at ftpd.c:2549 speaks of looks at
`data_ctx.fd`, which is -1 during a transfer with a slave: with `Pipelining` TLC
breaks `CommandsAgree` in four steps. A slave that is lost frees its commands
without calling their callbacks, and its clients then cancel freed commands
(slaves.c:2108, where the comment at slaves.c:2072 expects otherwise); a
download that a script refuses goes on with the client its wipe destroyed
(ftpd.c:1198); and a client that deletes the file it is going to download, as
after PRET RETR, is held by `ftpd_client_read` (ftpd.c:3495), so that the wipe frees
the element first (ftpd.c:3165) and the client, destroyed when it is let go of,
looks for itself among the leechers of the freed element (ftpd.c:950).
`FreedUses` says that these are the only three. LIST after PRET and
PASV is answered 125, and nothing is sent until the timeout. ABOR says in a
comment that the slave is told (ftpd.c:3178), and it is not. The merge of a list
deletes a file without asking who uploads it.

*Transfers, slave.* `xfer_write` sends what the disk brought, which the socket
may take in part, and reads the next part over the rest (fsd.c:1791, against the
comment at fsd.c:1717); `DownloadInOrder` excepts it (`short`). A restart
closer to the end than one buffer is refused as beyond the end (fsd.c:2316). A
disk that fails after the peer has closed is only logged, for ever
(fsd.c:1888), and a second query for a passive transfer forgets the file,
operation and buffer of the first (fsd.c:2522): `EveryQueryAnswered` and
`FileReleased` except them by name (`Forgotten`, `leaked`). No timeout ends a
download whose proxy keeps the connection and does not answer: the read timeout
does nothing for downloads (fsd.c:1936), and a write that has nothing to do
reports success and puts the write timeout off (fsd.c:1682). Nor does one end a
download that is sent, when the peer does not close (fsd.c:1738). Both last as
long as the peer likes (`WaitsForPeer`).

*Session.* A caller that is told to try again "must wait for any of the two
secure-resume-recv or secure-resume-send events to be raised and repeat the
failed call", with "exactly the same parameters" (secure.h:189-195). When OpenSSL asks to be
called again without renegotiating, which is what a full socket makes it do,
`secure_send` and `secure_recv` remember nothing (secure.c:686-706), so that the
signal never comes: the next reply frees what was left over, and a listing is cut
and answered 226. `Awaited` excepts it by a history of where it happened
(`forgotten`), and `RepliesEnd` counts such a reply as gone. A plain `send` that is
cut short loses the reply too. "Want
write" in a renegotiation waits for the socket to be readable. After a fatal
error of TLS no signal comes any more but timeouts. Replies of handlers that end
the connection (221, 421, 530) are not sent. Commands of a client that has
logged in are handled, in clear, between the reply to AUTH and the
negotiation, and those of a new one before scripts were asked about it. PROT
sent while a listing is on its way changes its protection.

*Sockets.* A signal cleared while one of its callbacks runs, and left without
any, is not freed; a monitor whose signals still have callbacks leaks them.
Urgent data is an error to the loop, which then does not read.

*Files.* Outside Windows a file is not cut when it is opened to be written
(adio.c:99): a shorter one keeps the end of the longer, whose fields are loaded
again and found before the new ones. On Windows it is cut at once and written
later: a crash in between loses the file or its end. There a user that is
deleted while its file is written stays, and everywhere one whose file had
changes left to save comes back, because `config_close` saves after
`user_delete` removed (users.c:481). `config_close` of a file that is being
saved with nothing else to save frees it with the write in flight (`CloseBusy`):
on Windows a file that is opened again then is loaded from what is not written yet.
On Windows a write can also fail when it is under way: `adio_probe` returns "zero if
there is still more data to be read and -1 on error" (adio.h:101), and config.c:858
asks only whether it is zero. The file, cut or empty by then, counts as saved, and leaves
memory if nobody holds it; `SavedIsThere` and `LeavesSaved` except it by the name of
`lost`. A file that became empty is never saved again (config.c:793). The name of a
user's file is the time in milliseconds, which two users may share.

*Paths.* `vfs_trim_name` promises a name "so it looks like abc/def/ghi"
(vfs.c:855) and "no empty name" (vfs.c:974), and collapses `..` "because some
dumb ftp clients doesn't handle CDUP" (vfs.c:924). A path that ends in `..`
keeps the slash before it (`a/b/..` becomes `a/`), or becomes empty (`a/..`):
the last slashes are looked for at the end the string had before. Such a path
finds nothing, and given to `vfs_create_file` it makes a file without a name, to
which its path does not lead back. The parts of `PathsAgree` that say what the
comments say (`Trimmed`, `Found`, `Created`, `LeadsBack`) are therefore stated of
the other paths; of these (`EndsAbove`) it says only that they are refused if they
lead above their start and keep no `..` (`Confined`).

## Proofs

### `SlaveLinkProofs`

`tlapm SlaveLinkProofs.tla` checks, for all values of the constants that
satisfy `NamesAssumption` and `OptionsAssumption` (the markers for "none" are
neither slaves nor connections; the options are Boolean or sets of files):

* `TypeCorrect`: `Spec => []TypeOK`
* `LinksAgree`: `Spec => []LinkOK`
* `IndexAgrees`: `Spec => []IndexOK`
* `OnlineAfterMergeOnly`: `Spec => []OnlineXorOffline`
* `HandshakeInOrder`: `Spec => []InOrder`, which is `TypeOK` and `OneAtATime`

They are conjuncts of one inductive invariant, `IInv`: none is inductive alone.
`LinkOK` needs `OneAtATime`, because the callback of HELLO links a connection
only if it is called once and first; `OnlineXorOffline` needs both, because a
merge changes the index for the slave the connection is linked to; `IndexOK`
needs `LinkOK`, because a disconnection moves the files of a connection to the
slave it points at. `StoppedHoldsNothing` is the one conjunct that is not in
the runs: a master that does not run has no connection and no slave, without
which `MasterStart` could load an index beside connections left over. The
proof that a step keeps `IInv` has a lemma for each action, and rests on lemmas
on the index (what each operator does to consistency and to the fields) and on
the queues (matching, removal and expiry), which stand first.

### `SlaveLinkProofs`, across a connection

The second half of the module is, from the same assumptions, about both ends of
a connection and what is on its way between them:

* `DeletelogAnswersMeanGone`: `Spec => []AckMeansGone`
* `ListingIsExact`: `"wipe_from" \notin Environment` implies
  `Spec => []ListingExact`. The theorem is false with it: `ftpd_wipe_from` has the
  file deleted and goes on listing it ("Met on the way")
* `GhostsOnlyLeft`: `Spec => GhostsOnlyFromDeletedSlaves`
* `LinkImplementsAvailability`: `Spec => ImplementsAvailability`, the refinement

`AckMeansGone` excepts the files that a slave cannot remove: it deletes such a
file from its map and answers, but finds it on the disk again when it restarts
before the answer is read. The proof asks for the exception; the run that checks
the property has only removable files.

The invariants are about packets. `AcksOK` says of the queries the slave has not
read, too, what their answer will mean; it needs the uids in use to be different
(`UidsDiffer`: an answer is matched by its uid alone) and the map and the disk of
a slave to differ in unremovable files only (`DisksOK`). For `ListingExact`,
`TrafficOK` says that at most one packet of the handshake is on its way,
`SnapshotOK` that a list on its way holds what the slave still maps, `ListedOK`
that a file one side has forgotten and the other not has its deletion on the way,
and `LeftBehind` what is left on connections that a slave has given up and the
master not yet. The handlers of the master are sorted by what they do to the
packets (`MasterTurn`), so that each of these is proved for six kinds of step.
For the refinement, every handler is mapped to the step of `Availability` it is,
with the index lemmas for what becomes online and offline.

### `PacketStreamProofs`

For any sizes of data, any threshold and any number of packets, from
`StreamAssumption`:

* `PacketsKeepTheirOrder`: `~ShortSends` implies
  `Spec => Queue!Init /\ [][Queue!Next]_(Queue!vars)`: every step is a step of
  `PacketQueue` or none. It is false with `ShortSends` ("Met on the way")

What the reader has of a packet and what it has not read are taken as one
sequence (`At`, `Total`), which a read leaves as it is (`FilledIs`): it moves
cells from one to the other. `Chain` says that the sequence is packets one after
the other, the first of them the one after the last that was taken and, while
the connection is open, the last the one that was given last; a send of the
master that was cut short leaves a piece at the end, which is never completed
because the connection is closed with it. `Begun` says that the size the reader
goes by is that of the packet it has the beginning of. So a packet that is full
has all the cells of one packet, in place (`Whole`), and is handed over as the next
(`ReadIs`). After a reset `io` may hold a size with nothing behind it (-1 taken for a
length), but then the connection is closed and the stream empty: `Flows` asks for
no more.

### `CollectionsProofs`

For any collections and items and any depth of nesting, from
`CollectionAssumption` (`None` is neither; cascading collections are some of the
collections):

* `CollectionsSound`: `Spec => []Inv`, the inductive invariant
* `IteratorsStayLinked`: `Spec => []NextIsLinked`
* `HeldObjectsStay`: `Spec => []HeldStays`
* `SizesStayTrue`: `Spec => [](TypeOK /\ SizesAgree)`
* `RefsSuffice`: no count is below the calls in progress that hold the object
* `CollectionsImplementIterations`: `Spec => ImplementsIterations`, the refinement
* `ListsStayTrue`, `RefsAreExact`, `NothingStaysMarked`: `~DestroyBusy` implies
  `Spec => []ListsAgree`, `Spec => []RefsAreHeld` and `Spec => []NothingLeft`.
  They are false with it: a match whose collection is destroyed under its callback
  leaves without unlocking, and the references of its lock stay ("Met on the
  way")

The operations call each other half way through, so what they keep is stated of
a state `s`, as in `Transfer`: `Sound(s, I, C)` is all of the invariant but for
the lives of the items in `I` and the collections in `C`, which the operation in
progress is about to destroy, and `Refs(s, C, I, kc, ki, kb, kl)` that every count
is the calls on the stack that hold the object and, for the collection `C`, the
item `I` and what links them, so many more, which a call that was taken off the
stack has still to give back. With `DestroyBusy` it is at least that (`AtLeast`),
which is why the first six theorems need no assumption. `collection_unlock` is the
chain that shows the use: it takes a frame that owes one of each, pays the
instance, the collectible and the item, each of which may run a destructor, and
leaves the collection's to an `"unref"` frame.

Three parts of the invariant are in no property. `Calls` says that the object of a
frame is not freed, that what is locked was not destructed, and that of two
frames the upper one destructs nothing the lower one has to do with (`Apart`):
it holds because a destructor begins only when the count is zero, hence, by
`Refs`, when no call holds the object. `Swept` says that the loop of
`collection_obj_destroy` has every member left ahead of it, so that the end of
the loop leaves none. `ItemLife` and `CollLife` say in which order the marks
of an object come, and that a destructor that has begun and not ended is on the
stack.

Lists are reasoned about by position (`Pos`): what is ahead of an item in a list
without another is what was ahead but for that one, so that every operation that
takes items away takes them from what every iterator has yet to visit, and
nothing else (`Leaves`). This is what the refinement needs. An operation that
`Leaves` is the step `Leave` of `Iterations`, or none; the others are `Join`
(`collection_add` puts an item first, ahead of no iterator), `Begin`, `Visit` and
`End`.

### `TransferProofs`

For any clients, slaves, files and uids, from `TransferAssumption` (`None` is
none of the objects; the options are Boolean; a uid is not 0; the names of
clients are not those of the three events in `news`):

* `LinksStayTrue`: `Spec => []TransfersAgree`, with and without `Pipelining`
* `NoGhosts`: `Spec => []NoGhostElement`
* `AnswersAreAwaited`: `~Pipelining` implies `Spec => []CommandsAgree`
* `CompleteFilesAreKept`: `Spec => CompleteFilesStay`
* `WhatIsToldIsThere`: `Spec => CompleteIsThere`
* `FreedUsesAreKnown`: `~Pipelining` implies `Spec => FreedUses`. The theorem is
  false with it: a client that leaves cancels its last command only, and the
  answer to the one before calls back with the freed client

The operations of `Transfer` call each other while what they work on is half
taken apart, so the invariant cannot only be one of the states between two
actions. `Good(s, C)` is what holds of the record `s` at each such moment: all
of it, except for the clients in `C`, who may have lost their connection, their
element or their command. `Ghostless(s, G)` excepts the elements in `G`, whose
upload has ended and which are about to go. `Detach` takes a state from
`Good(s, C)` to `Good(t, {})` at the price of some ghosts, `DeleteElements`
removes these, and `Cleanup` is both. Why it ends there, though each deletion
may clean up further clients, is `Alone`: an upload has nobody but its
uploader. An action is a chain of such lemmas; the lost slave starts with the
clients in its `xfers` excepted, a completed transfer with its client excepted,
the rest with none. `IInv` is `Good(State, {})` and `Ghostless(State, {})`; it
adds three things to the properties: a `slave_xfer` client has an element (or
PASV would send LISTEN on no connection), a transfer has a uid, and the command
a client names is one of its own, which holds with `Pipelining` too.

The last three are about single steps, and need the same chains to say what they
do not touch: `Stays` that no complete file goes, `Says` what is told and used
meanwhile, `Live` that a command a client names is not freed; `Calm` is the three
of an operation that only cleans up. An action is looked at closely only if it
deletes an element, tells 226 or uses what is freed; of all others `Calm`
is enough.

### `SlaveXferProofs`

For any sizes of file, buffer and socket and any number of queries, from
`SizesAssumption` (each is at least one):

* `HandlesAndAnswersAgree`: `Spec => []TransferAgrees`
* `DownloadsAreInOrder`: `Spec => []DownloadInOrder`
* `UploadsAreWholeOrGone`: `Spec => UploadWholeOrGone`

The invariant says where each byte is. Of an upload, what was received (`crc`) is
the file and then the part of the buffer that is not written, which begins at
`len` or, while a write is running, at 0 (`From`, `UploadAgrees`); as long as no
second query came, it is what the client sent but for the `wire`
(`ReceivedInOrder`). Of a download, what was sent is the piece of the file that
ends at `At`, which is `restart - len` until the socket is shut down
(`DownloadAgrees`), and the peer has or will get all of it (`SentInOrder`).
Neither is inductive without what the flags of a `slave_xfer` mean for each other
(`FlagsAgree`: only the TRANSFER query gives it a file, a disk operation has an
open file, only an upload whose peer has gone is monitored), and without the file
of a download being whole (`FileAgrees`). `QueriesAgree` says that a transfer in
progress has not been answered, hence that no query is answered twice. For the
third theorem, `WaysOut` lists how an upload ends: the poll completes it with
nothing left in the buffer; it fails, is deleted or is replaced by another query,
and an error is answered; or the master is gone and nothing is. That `ptr - len`,
unsigned in the code, does not wrap is the `len <= ptr` of `UploadAgrees`.

### `SocketsProofs`

For any users, monitors and descriptors, from `SocketsAssumption`:

* `OpenDescriptorsAreMonitored`: `Spec => []MonitorsAgree`
* `CallbacksAreCurrent`: `Spec => []CallsAreCurrent`

The invariant says where a monitor can be (in the collection, or freed and held
by the iteration or by the batch), that callbacks are hooked only on the
monitor of the descriptor their user has now, that a monitor which is dead but
held has lost its callbacks, except the one that is being told, and that what
is hooked on a monitor of the batch was hooked before the batch was polled: the
number of a descriptor that is closed and opened again in a callback gets
another monitor, which is not in the batch.

### `StorageProofs`

For both builds and any bounds:

* `DeletedUsersStayDeleted`: `Spec => []GoneStaysGone`
* `FilesStayInStep`, `ClosedFilesAreSaved`: `CloseBusy => "win32" \notin Builds`
  implies `Spec => []InStep` and `Spec => ClosedIsSaved`. On Windows they are false
  of scripts that close a file while it is being saved ("Met on the way");
  elsewhere they hold of them too

Each operation is made of others, so each has a lemma on what it keeps: the shape
of a state (`Well`: a file that is not in memory is held by nobody, an operation
that is over leaves nothing) and that a file nobody holds is to be saved or is
being saved (`Kept`), because `config_close` forgets a file only where nothing has
to be saved. The first theorem needs who holds the file, too: the user while it
exists, once (`Held`), so that the close of `user_delete` is
the last and nothing is left in memory or with the disk afterwards; `Lives` says
that it stays so, which is kept by the end of the process and its start too,
since a start finds no file. What is in fields and cells matters to none of it.

It is all that the other two are about. `config_dump` and `config_load` are
loops, written as recursive functions in `Storage`; what they compute for every
input is proved by the least number at which it would not hold (`LeastOf`,
`UpTo`). `Dumped` says where in the cells each field begins, so that the lines of
what was written are the fields, and are all of them where the file was cut
(`DumpLines`), and are still found when older cells follow (`LandedIs`);
`LoadIs` that what is loaded are the lines. No two fields have a name where files are
cut (`OneEach`, and `Tidy` of a file): it is kept by `config_write`, by the dump,
by a dump that was cut short and by the load, and without it the first line,
which `user_load` reads, need not be the field that `config_pread` finds.
Elsewhere it is false, and `Synchronized` with it. In the inductive invariant,
`Stored` follows a save: before it is done the operation holds the dump of the
fields as they are, unless they changed, and then `shouldsave` is set; once it is
done they are on the disk, unless it failed (`lost`). Where a file leaves memory,
in the last close or in the poll that finds its write over, `Stored` therefore says
that its fields are there (`LeavesBy`). That needs `Fine`: the operation that is open is the
one of this save (the file of a user deleted while it was written is not opened
again), and it found nothing on the disk where files are cut.

### `SessionProofs`

From `SessionAssumption`, for any policies and any number of replies:

* `ControlIsProtected`: `Spec => [](PolicyKept /\ AuthAgrees)`, the parts of
  `ProtectionAgrees` that are about the control connection, with and without
  `Pipelining`
* `ListingsAreProtected`: `~Pipelining` implies `Spec => []ProtectionAgrees`. A
  client that sends PROT while its listing is on its way gets what it asks for
* `RepliesGoTheirWay`: `Spec => []RepliesDoNotCross`
* `WhatIsLeftIsResumed`: `Spec => ResumedUnchanged`, whatever OpenSSL answers

The client's belief (`auth`, `waiting`) and the context's state (`use`, `op`) are
changed by different callbacks; `Believed` relates them at every moment between
two, and `Secured` is the policy given that relation. A listing is decided when
LIST comes and protected when its connection is made, in either order: `Listed`
says what each of the two leaves for the other to find. For replies, `Due` says
that what waits was said on the connection as it is now, which AUTH keeps because
its own reply goes before the negotiation. `Kept` and `Held` are `Awaited`
of a state; that what is left over is not changed follows from what makes the layer
wait for a send (`Waits`): no signal but the one that resumes it reaches its user
then, and a reply that is due meanwhile stays among the messages. After the client has gone, nothing is
left (`Left`).

## What is model-checked only

Liveness, which is out of the prover's reach. `PathsAgree`, whose operators are
recursive, which takes the provers away from `VfsPath`; `LinesFound`, a loop
over the lines and bytes of a deletelog, checked for every log of the bound. The
fairness of `PacketQueue`, hence `ImplementsQueue` as a whole: its steps are
proved, and that what was sent is taken in the end is liveness.

## Plan

What is left, in this order; each module is written with its constants,
invariants in named parts and no recursive operator where theorems are wanted.

1. Proofs: `LinesFound`, with the technique of `StorageProofs`.
2. The composition of `Transfer` with `SlaveXfer`, and an abstract
   specification of one transfer as its client sees it; `Mirror` on the same.
3. `Wildcards` (`wild.c`) and checksums as pure algorithms.
4. `VfsTree`: folders, symbolic links, sizes and sections.
5. `Nuke`, `Sfv`, `Timers`, `Events`, `Proxy`, `Irc`.

## Not modelled

The components marked `not_modelled` in `PROJECT.json` are those of the plan,
and: formatting of text (`site.c`, `skins.c`), calls of OpenSSL and encodings
(`crypto.c`, `base64.c`, `blowfish.c`), the operating system's services
(`service.c`, `update.c`) and generated script bindings. Running out of memory
is left out everywhere.
