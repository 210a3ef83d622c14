-------------------------------- MODULE Transfer --------------------------------
(***************************************************************************)
(* The master's side of transfers: the FTP clients, their data connection  *)
(* with the master (listings) and the transfers they make with a slave     *)
(* (ftpd.c, slaveselection.c), the elements and the slave connections      *)
(* these point at (vfs.c, slaves.c) and the LISTEN and TRANSFER commands   *)
(* that are outstanding (asynch.c).  Client, element and connection point  *)
(* at each other, and any of the three can be destroyed first.             *)
(*                                                                         *)
(* The master is one thread: an action is one command of a client, one     *)
(* answer of a slave, one signal or one timeout.  SlaveXfer is the other   *)
(* end of a transfer and SlaveLink the life of a connection; here a slave  *)
(* answers what it likes, or not at all, and comes and goes.               *)
(*                                                                         *)
(* Left out: login, folders, what a listing says, the REST offset, the     *)
(* addresses, TLS (see Secure), running out of memory, scripts that act    *)
(* from within an event except by refusing.                                *)
(***************************************************************************)
EXTENDS Naturals, FiniteSets
CONSTANTS
    Clients, Slaves, Files,
    None,       \* the NULL pointer
    Pipelining, \* clients send a transfer command before the reply to the last one
    Refusals,   \* scripts refuse downloads that have succeeded (onTransferSuccess)
    Uids        \* bound on the uids of transfers that are remembered at one time

(* A command; n tells a second one of a transfer from the first.           *)
Kinds == {"LISTEN", "TRANSFER"}
CommandType == [client : Clients, kind : Kinds, cnx : Slaves, uid : Uids, n : {1, 2}]
ASSUME TransferAssumption ==
    /\ None \notin Clients \cup Slaves \cup Files \cup CommandType
    /\ Pipelining \in BOOLEAN /\ Refusals \in BOOLEAN /\ Uids \subseteq Nat \ {0}
    /\ Clients \cap {"freed command", "freed client", "freed element"} = {}  \* news tells them apart

VARIABLES
    client,     \* struct ftpd_client_ctx with its xfer_ctx and list_ctx
    elem,       \* struct vfs_element: uploader, leechers, where it is
    link,       \* the connection of a slave: down, connecting or ready
    xfers,      \* slave_connection.xfers
    cmds,       \* the commands in asynch_queries and asynch_response
    news        \* the last step used a freed object, or told a client 226
vars == <<client, elem, link, xfers, cmds, news>>

Blank(on) == [on |-> on, last |-> "other", slaveXfer |-> FALSE, passive |-> FALSE,
              ready |-> FALSE, fd |-> "none", data |-> "none", el |-> None, cnx |-> None,
              upload |-> FALSE, uid |-> 0, cmd |-> None, told |-> "nothing"]
NewClient == Blank(TRUE)
Gone == Blank(FALSE)
NewElement == [exists |-> TRUE, uploader |-> None, leechers |-> {}, at |-> {}]
NoElement == [NewElement EXCEPT !.exists = FALSE]

(* The operations take the state as a record and return the next one.      *)
State == [client |-> client, elem |-> elem, link |-> link, xfers |-> xfers,
          cmds |-> cmds, news |-> {}]
Become(s) == /\ client' = s.client /\ elem' = s.elem /\ link' = s.link
             /\ xfers' = s.xfers /\ cmds' = s.cmds /\ news' = s.news

Init ==
    /\ client = [c \in Clients |-> Gone]
    /\ elem \in [Files -> {NoElement} \cup {[NewElement EXCEPT !.at = S] : S \in (SUBSET Slaves) \ {{}}}]
    /\ link = [x \in Slaves |-> "ready"]
    /\ xfers = [x \in Slaves |-> {}]
    /\ cmds = {} /\ news = {}

(*------------------------- the data connection is over --------------------*)
(* The common and slave variables are reset, the signals cleared, the      *)
(* socket closed; the reply the client still gets is that of the callback. *)
Reset(x) == [x EXCEPT !.slaveXfer = FALSE, !.passive = FALSE, !.ready = FALSE,
                      !.fd = "none", !.data = "none", !.el = None, !.cnx = None,
                      !.upload = FALSE, !.uid = 0, !.cmd = None,
                      !.told = IF @ = "listing" THEN "listing" ELSE "nothing"]

(* An element after C have let go of what they transfer.                   *)
LetGo(s, f, C) ==
    [s.elem[f] EXCEPT !.uploader = IF @ \in C /\ s.client[@].el = f THEN None ELSE @,
                      !.leechers = {c \in @ : ~(c \in C /\ s.client[c].el = f)}]

(* Variant: the command is left to its answer.                             *)
DetachCommandKept(s, C) ==
    [s EXCEPT
        !.xfers = [x \in Slaves |-> {c \in @[x] : ~(c \in C /\ s.client[c].cnx = x)}],
        !.elem = [f \in Files |-> LetGo(s, f, C)],
        !.client = [c \in Clients |-> IF c \in C THEN Reset(@[c]) ELSE @[c]]]
(* ftpd_client_cleanup_data_connection for the clients C, up to the        *)
(* deletion of the element.  asynch_destroy calls the callback with NULL,  *)
(* which comes back here; a command that is already freed is used.         *)
Detach(s, C) ==
    LET mine == {s.client[c].cmd : c \in C} \ {None}
    IN  [s EXCEPT
            !.cmds = @ \ mine,
            !.news = IF mine \subseteq s.cmds THEN @ ELSE @ \cup {"freed command"},
            !.xfers = [x \in Slaves |-> {c \in @[x] : ~(c \in C /\ s.client[c].cnx = x)}],
            !.elem = [f \in Files |-> LetGo(s, f, C)],
            !.client = [c \in Clients |-> IF c \in C THEN Reset(@[c]) ELSE @[c]]]

(* Variant: only the uploader is looked after.                             *)
DeleteElementsUploader(s, F) ==
    [Detach(s, {s.elem[f].uploader : f \in F} \ {None}) EXCEPT
        !.elem = [f \in Files |-> IF f \in F THEN NoElement ELSE @[f]]]
(* vfs_obj_destroy: the uploader's data connection is cleaned up, and the  *)
(* clients in leechers, a cascading collection, are destroyed.             *)
DeleteElements(s, F) ==
    LET up   == {s.elem[f].uploader : f \in F} \ {None}
        down == UNION {s.elem[f].leechers : f \in F}
    IN  [Detach(s, up \cup down) EXCEPT
            !.elem = [f \in Files |-> IF f \in F THEN NoElement ELSE @[f]],
            !.client = [c \in Clients |-> IF c \in down THEN Gone ELSE @[c]]]

(* Variant: whatever a client transfers is deleted.                        *)
UploadsAll(s, C) == {s.client[c].el : c \in C} \ {None}
(* Variant: an upload that ends early stays.                               *)
UploadsNone(s, C) == {}
(* The elements that go with the data connections of C.                    *)
Uploads(s, C) == {s.client[c].el : c \in {d \in C : s.client[d].upload}} \ {None}
(* ftpd_client_cleanup_data_connection: what was being uploaded goes.      *)
Cleanup(s, C) == DeleteElements(Detach(s, C), Uploads(s, C))
(* ftpd_client_obj_destroy.                                                *)
Destroy(s, C) ==
    LET t == Cleanup(s, C)
    IN  [t EXCEPT !.client = [c \in Clients |-> IF c \in C THEN Gone ELSE @[c]]]

(* The reply that ends a listing: 226 or 4xx.                              *)
Final(s, c) == [s EXCEPT !.client[c].told = "nothing"]
End(s, c) == Final(Cleanup(s, {c}), c)

(*------------------------------ making a transfer -------------------------*)
(* slaveselection_download and _upload: the least busy one, unless a       *)
(* script takes another or leaves only some of the list.  The connection   *)
(* of a slave in a section may still be in its handshake.                  *)
SelectDown(s, f) == {x \in s.elem[f].at : s.link[x] # "down"}
SelectUp(s, f) == {x \in Slaves : s.link[x] # "down"}

(* ftpd_next_xfer: a uid nobody remembers stands for the next one.         *)
Unused(s) == {u \in Uids : /\ \A k \in s.cmds : k.uid # u
                           /\ \A c \in Clients : s.client[c].uid # u}
NextXfer(s) == CHOOSE u \in Unused(s) : TRUE
Linked(s, c, f, x, up) ==
    [s EXCEPT !.xfers[x] = @ \cup {c},
              !.client[c] = [@ EXCEPT !.cnx = x, !.el = f, !.upload = up, !.uid = NextXfer(s)]]

(* The checks of setup_file_download and setup_file_upload on the element. *)
MayDownload(s, f) == s.elem[f].exists /\ s.elem[f].uploader = None
MayUpload(s, f) == ~s.elem[f].exists

(* The slaves with which setup_file_upload or _download may succeed; it    *)
(* fails without a trace otherwise, a script refusing among the reasons.   *)
Choices(s, c, f, up) ==
    {x \in IF up THEN SelectUp(s, f) ELSE SelectDown(s, f) :
        /\ IF up THEN MayUpload(s, f) ELSE MayDownload(s, f)
        /\ s.link[x] = "ready"
        /\ s.client[c].cnx = None
        /\ Unused(s) # {}}
(* What it leaves: an upload makes an element without a location.          *)
Setup(s, c, f, x, up) ==
    LET e == IF up THEN [NewElement EXCEPT !.uploader = c]
                   ELSE [s.elem[f] EXCEPT !.leechers = @ \cup {c}]
    IN  [Linked(s, c, f, x, up) EXCEPT !.elem[f] = e]

(* asynch_new; client->xfer.cmd names the new command, whatever it named   *)
(* before.                                                                 *)
Command(s, c, kind, n) ==
    [client |-> c, kind |-> kind, cnx |-> s.client[c].cnx, uid |-> s.client[c].uid, n |-> n]
MakeQuery(s, c, kind) ==
    LET k == IF Command(s, c, kind, 1) \in s.cmds THEN Command(s, c, kind, 2)
                                                  ELSE Command(s, c, kind, 1)
    IN  [s EXCEPT !.cmds = @ \cup {k}, !.client[c].cmd = k]

(*--------------------------- commands of the client -----------------------*)
Waiting(c) == client[c].cmd # None \/ client[c].data # "none"
MayTransfer(c) == /\ client[c].on
                  /\ Pipelining \/ ~Waiting(c)
                  /\ Cardinality({k \in cmds : k.client = c}) < 2
Said(s, c, command) == IF s.client[c].on THEN [s EXCEPT !.client[c].last = command] ELSE s

(* ftpd_connect and ftpd_client_new.                                       *)
Connect(c) == /\ ~client[c].on
              /\ Become([State EXCEPT !.client[c] = NewClient])

(* PRET: whatever goes on is over; then setup_file_download or _upload.    *)
Pret(c, f, up) ==
    /\ client[c].on
    /\ LET clean == Final(Said(Cleanup(State, {c}), c, "other"), c)
       IN  \/ Become(clean)
           \/ \E x \in Choices(clean, c, f, up) :
                  Become([Setup(clean, c, f, x, up) EXCEPT !.client[c].slaveXfer = TRUE])

(* PASV and PORT close a data connection the client forgot.                *)
Tidy(c) == IF client[c].fd # "none" THEN Cleanup(State, {c}) ELSE State
(* PASV: the slave is told to listen, or the master listens for a LIST.    *)
Pasv(c) ==
    /\ MayTransfer(c)
    /\ LET t == Said(Tidy(c), c, "pasv")
           p == [t EXCEPT !.client[c].passive = TRUE]
       IN  IF t.client[c].slaveXfer
           THEN Become(MakeQuery(p, c, "LISTEN"))
           ELSE \/ Become([p EXCEPT !.client[c].fd = "listening"])
                \/ Become(End(p, c))                  \* create_listening_socket fails
(* PORT: the transfer that PRET or a former PASV prepared stays.           *)
Port(c) ==
    /\ MayTransfer(c)
    /\ \/ Become([Said(Tidy(c), c, "port") EXCEPT !.client[c].passive = FALSE])
       \/ Become(Said(Tidy(c), c, "port"))            \* 501, and last_command is PORT
Rest(c) == client[c].on /\ Become(Said(State, c, "rest"))
Other(c) == client[c].on /\ Become(Said(State, c, "other"))

(* LIST: no such folder and a refused protection end in clean-up as well.  *)
(* A folder that is empty gives an empty listing.                          *)
List(c) ==
    /\ MayTransfer(c)
    /\ LET x == client[c]
           s == Said(State, c, "other")
       IN  \/ Become(End(s, c))
           \/ /\ x.last \in {"port", "pasv"}
              /\ x.passive \/ x.fd = "none"
              /\ \E lines \in {"empty", "pending"} :
                    LET data == IF x.data = "pending" THEN "pending" ELSE lines
                        fd   == IF x.passive THEN x.fd ELSE "connecting"
                    IN  Become([s EXCEPT !.client[c] =
                                  [@ EXCEPT !.data = data, !.fd = fd,
                                            !.ready = TRUE, !.told = "listing"]])

Begin(s, c) == [MakeQuery(s, c, "TRANSFER") EXCEPT !.client[c].told = "transfer"]
(* What RETR and STOR have in common.  Protection that does not match and  *)
(* a set-up that fails are among the reasons for 425.                      *)
Transfer(c, f, up, allowed) ==
    LET x == client[c]
        s == Said(State, c, "other")
    IN  \/ Become(End(s, c))
        \/ /\ allowed /\ x.passive
           /\ x.slaveXfer /\ x.ready
           /\ Become(Begin(s, c))
        \/ /\ allowed /\ ~x.passive /\ x.el # None
           /\ Become(Begin(s, c))
        \/ /\ allowed /\ ~x.passive /\ x.el = None
           /\ \E y \in Choices(s, c, f, up) : Become(Begin(Setup(s, c, f, y, up), c))
Retr(c, f) == /\ MayTransfer(c)
              /\ Transfer(c, f, FALSE, client[c].last \in {"port", "pasv", "rest"})
Stor(c, f) == /\ MayTransfer(c)
              /\ Transfer(c, f, TRUE, TRUE)

(* ABOR, and the other commands that only clean up: NLST, APPE, unknown    *)
(* ones; out of band data, which the code takes for an error of the socket.*)
Abort(c) == /\ client[c].on
            /\ Become(Said(End(State, c), c, "other"))
(* A wipe by a script that no client's command runs.                       *)
Delete(f) == /\ elem[f].exists
             /\ Become(DeleteElements(State, {f}))
(* DELE, or a wipe by the script of a SITE command.  ftpd_client_read      *)
(* holds a client while it carries out what it read: if it was going to    *)
(* download the file, it is only marked when the element goes, and cleans  *)
(* up, with what the element held, thereafter.                             *)
Dele(c, f) ==
    /\ client[c].on /\ elem[f].exists
    /\ LET t == Said(DeleteElements(State, {f}), c, "other")
       IN  Become(IF c \in elem[f].leechers THEN [t EXCEPT !.news = @ \cup {"freed element"}] ELSE t)
(* QUIT, kick, the client's connection is closed or its 900 seconds over.  *)
Leave(c) == client[c].on /\ Become(Destroy(State, {c}))

(*--------------------------- answers of the slave -------------------------*)
(* Variant: xfer.cmd is not reset.                                         *)
AnsweredKept(s, k) == [s EXCEPT !.cmds = @ \ {k}]
Answered(s, k) == [s EXCEPT !.cmds = @ \ {k},
                            !.client[k.client].cmd = IF s.client[k.client].on THEN None ELSE @]
(* A callback whose client has been freed.                                 *)
Orphaned(k) == [State EXCEPT !.cmds = @ \ {k}, !.news = @ \cup {"freed client"}]

(* slave_listen_query_callback: 227, or 425 on failure and on timeout.     *)
ListenAnswer(k) ==
    /\ k \in cmds /\ k.kind = "LISTEN"
    /\ LET s == Answered(State, k)
       IN  IF ~client[k.client].on THEN Become(Orphaned(k))
           ELSE \/ Become([s EXCEPT !.client[k.client].ready = TRUE])
                \/ Become(End(s, k.client))

At(s, f, c, x) == IF s.client[c].upload THEN s.elem[f].at \cup {x} ELSE s.elem[f].at
(* Variant: the element is not let go.                                     *)
CompletedAndCleaned(s, c, x) ==
    LET f == s.client[c].el
    IN  Cleanup([s EXCEPT !.elem[f].at = At(s, f, c, x), !.news = @ \cup {c}], {c})
(* 226: an upload is online; the element is let go of before the data      *)
(* connection is cleaned up.                                               *)
Completed(s, c, x) ==
    LET f == s.client[c].el
        e == [s.elem[f] EXCEPT !.at = At(s, f, c, x), !.leechers = @ \ {c},
                               !.uploader = IF @ = c THEN None ELSE @]
    IN  Cleanup([s EXCEPT !.elem[f] = e, !.client[c].el = None, !.news = @ \cup {c}], {c})
(* onTransferSuccess refuses: ftpd_wipe, then the client is cleaned up,    *)
(* which the wipe destroyed if it was downloading.                         *)
Refused(s, c) ==
    LET t == DeleteElements(s, {s.client[c].el})
    IN  IF t.client[c].on THEN t ELSE [t EXCEPT !.news = @ \cup {"freed client"}]

(* slave_transfer_query_callback.                                          *)
TransferAnswer(k) ==
    /\ k \in cmds /\ k.kind = "TRANSFER"
    /\ LET c == k.client
           s == Answered(State, k)
       IN  IF ~client[c].on THEN Become(Orphaned(k))
           ELSE \/ Become(Cleanup(s, {c}))            \* an error, or a timeout
                \/ /\ s.client[c].el # None
                   /\ \/ Become(Completed(s, c, k.cnx))
                      \/ /\ Refusals \/ s.client[c].upload
                         /\ Become(Refused(s, c))

(* slaves_check_xfer_timeouts: nothing was heard of the transfer for a     *)
(* minute.                                                                 *)
XferTimeout(c) == /\ \E x \in Slaves : link[x] # "down" /\ c \in xfers[x]
                  /\ Become(Cleanup(State, {c}))

(*----------------------- the master's data connection ---------------------*)
DataConnect(c) ==
    /\ client[c].fd \in {"listening", "connecting"}
    /\ \/ Become([State EXCEPT !.client[c].fd = "open"])
       \/ client[c].passive /\ Become(Cleanup(State, {c}))     \* accept fails
DataWrite(c) ==
    /\ client[c].fd = "open" /\ client[c].ready
    /\ \/ client[c].data = "pending" /\ Become([State EXCEPT !.client[c].data = "sent"])
       \/ client[c].data = "empty" /\ Become(End(State, c))
(* Closed, error, or the timeout of the connection or the first write.     *)
DataEnds(c) == client[c].fd # "none" /\ Become(End(State, c))

(*------------------------------- the slaves -------------------------------*)
(* slave_connection_obj_destroy: the commands are freed, their callbacks   *)
(* not called; then the clients in xfers, a cascading collection, are      *)
(* destroyed, and clean up.                                                *)
SlaveLost(x) ==
    /\ link[x] # "down"
    /\ Become(Destroy([State EXCEPT !.cmds = {k \in @ : k.cnx # x}, !.link[x] = "down"],
                      xfers[x]))
(* The merge of a list: F is what the slave has.  A file it had and that   *)
(* no other slave has is deleted, whoever uploads it.                      *)
SlaveMerged(x, F) ==
    /\ link[x] = "down"
    /\ LET t == DeleteElements(State, {f \in Files \ F : elem[f].at = {x}})
           e(f) == IF f \in F THEN [t.elem[f] EXCEPT !.exists = TRUE, !.at = @ \cup {x}]
                              ELSE [t.elem[f] EXCEPT !.at = @ \ {x}]
       IN  Become([t EXCEPT !.link[x] = "connecting", !.elem = [f \in Files |-> e(f)]])
SlaveReady(x) == /\ link[x] = "connecting"
                 /\ Become([State EXCEPT !.link[x] = "ready"])

Next ==
    \/ \E c \in Clients :
        \/ Connect(c) \/ Pasv(c) \/ Port(c) \/ Rest(c) \/ Other(c) \/ List(c)
        \/ Abort(c) \/ Leave(c) \/ XferTimeout(c)
        \/ DataConnect(c) \/ DataWrite(c) \/ DataEnds(c)
        \/ \E f \in Files : \/ Retr(c, f) \/ Stor(c, f) \/ Dele(c, f)
                             \/ Pret(c, f, TRUE) \/ Pret(c, f, FALSE)
    \/ \E f \in Files : Delete(f)
    \/ \E k \in cmds : ListenAnswer(k) \/ TransferAnswer(k)
    \/ \E x \in Slaves : SlaveLost(x) \/ SlaveReady(x) \/ \E F \in SUBSET Files : SlaveMerged(x, F)

Spec == Init /\ [][Next]_vars

--------------------------------------------------------------------------------
ClientType == [on : BOOLEAN, last : {"other", "port", "pasv", "rest"}, slaveXfer : BOOLEAN,
               passive : BOOLEAN, ready : BOOLEAN,
               fd : {"none", "listening", "connecting", "open"},
               data : {"none", "empty", "pending", "sent"}, el : Files \cup {None},
               cnx : Slaves \cup {None}, upload : BOOLEAN, uid : Uids \cup {0},
               cmd : {None} \cup CommandType,
               told : {"nothing", "listing", "transfer"}]
ElementType == [exists : BOOLEAN, uploader : Clients \cup {None},
                leechers : SUBSET Clients, at : SUBSET Slaves]
NewsType == {"freed command", "freed client", "freed element"} \cup Clients

(* Types; a client that has gone holds nothing (ftpd_client_obj_destroy),  *)
(* and a listening socket belongs to a passive client, a connecting one to *)
(* an active one: ftpd_client_data_connect goes by client->passive.        *)
TypeOK ==
    /\ client \in [Clients -> ClientType]
    /\ elem \in [Files -> ElementType]
    /\ link \in [Slaves -> {"down", "connecting", "ready"}]
    /\ xfers \in [Slaves -> SUBSET Clients]
    /\ cmds \subseteq CommandType
    /\ news \subseteq NewsType
    /\ \A c \in Clients :
        /\ ~client[c].on => client[c] = Gone
        /\ client[c].fd = "listening" => client[c].passive
        /\ client[c].fd = "connecting" => ~client[c].passive

(* A client, the element it transfers and the connection it transfers with *)
(* name each other, whichever of them goes first (ftpd.c, vfs.c, slaves.c  *)
(* each destroy their own kind and what hangs on it).                      *)
LinksAgree ==
    /\ \A c \in Clients, x \in Slaves :
        /\ c \in xfers[x] <=> client[c].cnx = x
        /\ client[c].cnx = x => link[x] = "ready"
    /\ \A c \in Clients : client[c].cnx = None <=> client[c].el = None
    /\ \A c \in Clients, f \in Files :
        /\ elem[f].uploader = c <=> client[c].el = f /\ client[c].upload
        /\ c \in elem[f].leechers <=> client[c].el = f /\ ~client[c].upload
        /\ client[c].el = f => elem[f].exists

(* Every command that is outstanding is the one its client waits for, for  *)
(* the transfer it is in now and on the connection it uses: the callback   *)
(* of an answer finds the client in the state that asked for it.           *)
CommandsOwned ==
    \A k \in cmds : LET x == client[k.client]
                    IN  x.cmd = k /\ x.cnx = k.cnx /\ x.uid = k.uid

(* setup_file_upload makes a file of no size and no place: it becomes a    *)
(* real one or goes with its uploader, whatever interrupts the upload.     *)
NoGhostElement ==
    \A f \in Files : elem[f].exists => elem[f].uploader # None \/ elem[f].at # {}

(* A file is not read by one client while another writes it: the checks of *)
(* setup_file_upload and setup_file_download are made once, at the start.  *)
Exclusive == \A f \in Files : elem[f].leechers # {} => elem[f].uploader = None

(* "150 Opening data connection" is followed by a final reply: as long as  *)
(* the client waits, its TRANSFER command is outstanding, and its callback *)
(* replies whether it is answered, cancelled or timed out.                 *)
TransferPromise ==
    \A c \in Clients : client[c].told = "transfer" =>
        client[c].cmd \in cmds /\ client[c].cmd.kind = "TRANSFER"

(* Clients, elements and connections agree on who transfers what.          *)
TransfersAgree == TypeOK /\ LinksAgree /\ Exclusive
(* Commands and clients agree: nobody waits for what is not outstanding,   *)
(* and nothing outstanding comes to one who no longer waits for it         *)
(* (asynch_destroy at ftpd.c:928, answers matched by uid in slaves.c).     *)
CommandsAgree == CommandsOwned /\ TransferPromise

(* A file that is complete is removed by DELE or a wipe, by the list of    *)
(* the last slave that had it or by a script that refuses it; never by the *)
(* clean-up of a client (which deletes the element of an upload).          *)
CompleteFilesStay ==
    [][\A f \in Files :
        elem[f].exists /\ elem[f].uploader = None /\ ~elem'[f].exists =>
            \/ Delete(f) \/ \E c \in Clients : Dele(c, f)
            \/ \E x \in Slaves, F \in SUBSET Files : SlaveMerged(x, F)
            \/ \E k \in cmds : Refusals /\ TransferAnswer(k)]_vars

(* A client that is told 226 finds the file it sent or took: it exists on  *)
(* a slave and nobody is held to be writing it.                            *)
CompleteIsThere ==
    [][\A c \in Clients \cap news' :
        LET e == elem'[client[c].el]
        IN  e.exists /\ e.at # {} /\ e.uploader = None /\ c \notin e.leechers]_vars

(* Freed objects are used in three cases only: the clients of a slave that *)
(* is lost cancel commands that were freed before them (slaves.c:2072      *)
(* expects the callbacks of these to have cleaned up); a download that a   *)
(* script refuses destroys its client under the callback (ftpd.c:1198);    *)
(* and a client that deletes the file it is going to download, as after    *)
(* PRET RETR, lets go of an element that is freed (ftpd.c:3165, 3507, 950).*)
FreedUses ==
    [][/\ "freed command" \in news' => \E x \in Slaves : link[x] # "down" /\ link'[x] = "down"
       /\ "freed client" \in news' =>
              \E k \in cmds \ cmds' : client[k.client].on /\ ~client[k.client].upload
       /\ "freed element" \in news' =>
              \E c \in Clients, f \in Files : Dele(c, f) /\ c \in elem[f].leechers]_vars
================================================================================
