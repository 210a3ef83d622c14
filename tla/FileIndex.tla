------------------------------- MODULE FileIndex -------------------------------
(***************************************************************************)
(* The master's index of files: which elements exist in the virtual file   *)
(* system, and from which slaves each file can be read.  A file is online  *)
(* from a connection (slave_connection.available_files on one side,        *)
(* vfs_element.available_from on the other) or offline from a slave        *)
(* (slave_ctx.offline_files and vfs_element.offline_from).  The code keeps *)
(* both sides of each relation in collections of their own and updates     *)
(* them one after the other; this module keeps both sides too, as          *)
(* functions in one record, so that a lost update shows.                   *)
(*                                                                         *)
(* Every operator takes the index a function of slaves.c, vfs.c or ftpd.c  *)
(* finds and returns the one it leaves, which lets a handler of SlaveLink  *)
(* that calls several of them be their composition.  Only VFS_FILE         *)
(* elements are kept: folders, sizes, time stamps, owners and checksums    *)
(* are abstracted away, and so is a slave that maps a path twice.          *)
(***************************************************************************)
CONSTANTS
    Slaves,     \* the slaves (slave_ctx) that may be configured
    Cnx,        \* the identities of connections (slave_connection)
    Files       \* the paths of files

(* An index has every collection, indexed by its owner.                    *)
Index == [ vfs : SUBSET Files,
           avail : [Cnx -> SUBSET Files],
           availFrom : [Files -> SUBSET Cnx],
           offline : [Slaves -> SUBSET Files],
           offlineFrom : [Files -> SUBSET Slaves] ]

NoFiles ==
    [ vfs |-> {},
      avail |-> [c \in Cnx |-> {}],
      availFrom |-> [f \in Files |-> {}],
      offline |-> [s \in Slaves |-> {}],
      offlineFrom |-> [f \in Files |-> {}] ]

(* vfs_create_file returns the element there is or makes one without any   *)
(* location.                                                               *)
CreateFiles(ix, F) == [ix EXCEPT !.vfs = @ \cup F]

(* slave_mark_online_from, for every file of F: c belongs to slave s.      *)
MarkOnline(ix, c, s, F) ==
    [ix EXCEPT
        !.avail[c] = @ \cup F,
        !.availFrom = [f \in Files |-> IF f \in F THEN @[f] \cup {c} ELSE @[f]],
        !.offline[s] = @ \ F,
        !.offlineFrom = [f \in Files |-> IF f \in F THEN @[f] \ {s} ELSE @[f]]]

(* slave_mark_offline_from, for every file of F: c is slave->cnx.          *)
MarkOfflineOneSided(ix, c, s, F) ==
    [ix EXCEPT
        !.avail[c] = @ \ F,
        !.offline[s] = @ \cup F,
        !.offlineFrom = [f \in Files |-> IF f \in F THEN @[f] \cup {s} ELSE @[f]]]
MarkOffline(ix, c, s, F) ==
    [ix EXCEPT
        !.avail[c] = @ \ F,
        !.availFrom = [f \in Files |-> IF f \in F THEN @[f] \ {c} ELSE @[f]],
        !.offline[s] = @ \cup F,
        !.offlineFrom = [f \in Files |-> IF f \in F THEN @[f] \cup {s} ELSE @[f]]]

(* slave_load_fileslog and slave_remove_deletelog_files for each slave of  *)
(* K, on an empty index: L[s] is what the fileslog of s names and its      *)
(* deletelog does not.  A file both name is created and then removed again *)
(* if no other slave has it.                                               *)
LoadOffline(K, L) ==
    [NoFiles EXCEPT
        !.vfs = UNION {L[s] : s \in K},
        !.offline = [s \in Slaves |-> IF s \in K THEN L[s] ELSE {}],
        !.offlineFrom = [f \in Files |-> {s \in K : f \in L[s]}]]

(* The two collection_delete of slave_offline_delete, for every file of F. *)
OfflineDelete(ix, s, F) ==
    [ix EXCEPT
        !.offline[s] = @ \ F,
        !.offlineFrom = [f \in Files |-> IF f \in F THEN @[f] \ {s} ELSE @[f]]]

(* vfs_recursive_delete on files: the destructor unlinks the element from  *)
(* the collections it is in and destroys its own.                          *)
DeleteElements(ix, F) ==
    [ vfs |-> ix.vfs \ F,
      avail |-> [c \in Cnx |-> ix.avail[c] \ F],
      availFrom |-> [f \in Files |-> IF f \in F THEN {} ELSE ix.availFrom[f]],
      offline |-> [s \in Slaves |-> ix.offline[s] \ F],
      offlineFrom |-> [f \in Files |-> IF f \in F THEN {} ELSE ix.offlineFrom[f]] ]

(* The test made before a file is removed: available from nowhere anymore. *)
Nowhere(ix, f) == ix.availFrom[f] = {} /\ ix.offlineFrom[f] = {}

KeepIfNowhere(ix, F) == ix
DeleteIfNowhere(ix, F) == DeleteElements(ix, {f \in F : Nowhere(ix, f)})

(* file_list_query_cleanup_offline_files on all that is left offline from  *)
(* s once it has sent its list: s does not have these files anymore.       *)
CleanupNothing(ix, s) == ix
CleanupOffline(ix, s) ==
    DeleteIfNowhere(OfflineDelete(ix, s, ix.offline[s]), ix.offline[s])

(* The merge of a file list: create, mark online, then clean up.           *)
MergeFileList(ix, c, s, F) ==
    CleanupOffline(MarkOnline(CreateFiles(ix, F), c, s, F), s)

(* slave_obj_destroy: the slave leaves the offline_from collections it is  *)
(* in, and offline_files is no longer reachable; a file that was online    *)
(* from its connection c cannot be added to offline_files anymore          *)
(* (collection_void) and loses that location as well.                      *)
ForgetSlave(ix, s) ==
    [ix EXCEPT
        !.offline[s] = {},
        !.offlineFrom = [f \in Files |-> @[f] \ {s}]]
ForgetConnection(ix, c) ==
    [ix EXCEPT
        !.avail[c] = {},
        !.availFrom = [f \in Files |-> @[f] \ {c}]]

--------------------------------------------------------------------------------
(* Both sides of the two relations agree and name existing elements only:  *)
(* the code walks either side, removes from either, and the destructor of  *)
(* one object reaches the other through them.                              *)
OnlineSymmetric(ix) ==
    \A c \in Cnx, f \in Files : f \in ix.avail[c] <=> c \in ix.availFrom[f]
OfflineSymmetric(ix) ==
    \A s \in Slaves, f \in Files : f \in ix.offline[s] <=> s \in ix.offlineFrom[f]
ListedExist(ix) ==
    \A f \in Files : f \notin ix.vfs => Nowhere(ix, f)

IndexConsistent(ix) ==
    /\ OnlineSymmetric(ix)
    /\ OfflineSymmetric(ix)
    /\ ListedExist(ix)
================================================================================
