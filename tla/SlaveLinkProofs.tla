---------------------------- MODULE SlaveLinkProofs ----------------------------
(***************************************************************************)
(* The safety of SlaveLink, for any number of slaves, connections, files   *)
(* and uids, any options and any environment.                              *)
(*                                                                         *)
(* None of the five invariants is inductive alone.  That a connection and  *)
(* its slave point at each other (LinkOK) needs the slave of an unanswered *)
(* HELLO to be unset (OneAtATime); that the merge of a file list settles   *)
(* the offline files of the right slave (OnlineXorOffline) needs the link  *)
(* to be set when FILE_LIST is answered (OneAtATime) and to be the only    *)
(* one to that slave (LinkOK); and that DELETE is asked on connected       *)
(* connections only (OneAtATime) needs every file that is online to be     *)
(* online from one of these (OnlineXorOffline, IndexOK).  Their            *)
(* conjunction is inductive.                                               *)
(*                                                                         *)
(* The second half is about what SlaveLink delivers across a connection:   *)
(* the answer to a deletelog means what the master takes it for, the files *)
(* listed as online are those the slave has, no file is left in the index  *)
(* without a location, and the whole implements Availability.              *)
(*                                                                         *)
(* These relate the two ends, so they need what is on its way between      *)
(* them.  AckMeansGone is kept by AcksOK, which also looks at the queries  *)
(* the slave has not read, by the uids in use being different from each    *)
(* other (UidsDiffer: an answer is matched by its uid alone), and by the   *)
(* disk and the map of a slave differing in Unremovable files at most      *)
(* (DisksOK: SlaveRestart reads the one into the other).  ListingExact     *)
(* needs at most one packet of the handshake on its way (TrafficOK), a     *)
(* list on its way to hold what the slave still maps (SnapshotOK), and     *)
(* the deletion of a file that one side has forgotten and the other not    *)
(* to be on its way (ListedOK), for the connections a slave has left as    *)
(* well (LeftBehind).                                                      *)
(*                                                                         *)
(* The handlers of the master are sorted first by what they do to the      *)
(* packets on their way (MasterTurn), so that these invariants are proved  *)
(* for six kinds of step instead of for each handler.                      *)
(***************************************************************************)
EXTENDS SlaveLinkRefinement, SequenceTheorems, TLAPS

Inv == TypeOK /\ LinkOK /\ IndexOK /\ OnlineXorOffline /\ OneAtATime

--------------------------------------------------------------------------------
(* What the operators on the index preserve, for every set of slaves,      *)
(* connections and files.                                                  *)

(* An index is consistent as soon as its four relations are, field by      *)
(* field.                                                                  *)
LEMMA FieldsConsistent ==
    ASSUME NEW hx \in Index,
           \A c \in Cnx, f \in Files : f \in hx.avail[c] <=> c \in hx.availFrom[f],
           \A s \in Slaves, f \in Files : f \in hx.offline[s] <=> s \in hx.offlineFrom[f],
           \A f \in Files : f \notin hx.vfs => hx.availFrom[f] = {} /\ hx.offlineFrom[f] = {}
    PROVE  IndexConsistent(hx)
BY DEF IndexConsistent, OnlineSymmetric, OfflineSymmetric, ListedExist, Nowhere

(* The same facts of an index that is consistent.                          *)
LEMMA ConsistentFields ==
    ASSUME NEW hx \in Index, IndexConsistent(hx)
    PROVE  /\ hx.vfs \in SUBSET Files
           /\ hx.avail \in [Cnx -> SUBSET Files]
           /\ hx.availFrom \in [Files -> SUBSET Cnx]
           /\ hx.offline \in [Slaves -> SUBSET Files]
           /\ hx.offlineFrom \in [Files -> SUBSET Slaves]
           /\ \A c \in Cnx, f \in Files : f \in hx.avail[c] <=> c \in hx.availFrom[f]
           /\ \A s \in Slaves, f \in Files : f \in hx.offline[s] <=> s \in hx.offlineFrom[f]
           /\ \A f \in Files : f \notin hx.vfs => hx.availFrom[f] = {} /\ hx.offlineFrom[f] = {}
BY DEF Index, IndexConsistent, OnlineSymmetric, OfflineSymmetric, ListedExist, Nowhere

LEMMA NoFilesConsistent ==
    NoFiles \in Index /\ IndexConsistent(NoFiles)
BY DEF NoFiles, Index, IndexConsistent, OnlineSymmetric, OfflineSymmetric, ListedExist, Nowhere

LEMMA CreateFilesConsistent ==
    ASSUME NEW hx \in Index, NEW F \in SUBSET Files, IndexConsistent(hx)
    PROVE  /\ CreateFiles(hx, F) \in Index
           /\ IndexConsistent(CreateFiles(hx, F))
           /\ F \subseteq CreateFiles(hx, F).vfs
           /\ CreateFiles(hx, F).avail = hx.avail
           /\ CreateFiles(hx, F).offline = hx.offline
BY DEF CreateFiles, Index, IndexConsistent, OnlineSymmetric, OfflineSymmetric, ListedExist, Nowhere

LEMMA MarkOnlineConsistent ==
    ASSUME NEW hx \in Index, IndexConsistent(hx),
           NEW c \in Cnx, NEW s \in Slaves, NEW F \in SUBSET Files, F \subseteq hx.vfs
    PROVE  /\ MarkOnline(hx, c, s, F) \in Index
           /\ IndexConsistent(MarkOnline(hx, c, s, F))
           /\ MarkOnline(hx, c, s, F).avail = [hx.avail EXCEPT ![c] = @ \cup F]
           /\ MarkOnline(hx, c, s, F).offline = [hx.offline EXCEPT ![s] = @ \ F]
<1> DEFINE jx == MarkOnline(hx, c, s, F)
<1>1. /\ jx.vfs = hx.vfs
      /\ jx.avail = [hx.avail EXCEPT ![c] = @ \cup F]
      /\ jx.availFrom = [f \in Files |-> IF f \in F THEN hx.availFrom[f] \cup {c} ELSE hx.availFrom[f]]
      /\ jx.offline = [hx.offline EXCEPT ![s] = @ \ F]
      /\ jx.offlineFrom = [f \in Files |-> IF f \in F THEN hx.offlineFrom[f] \ {s} ELSE hx.offlineFrom[f]]
  BY DEF MarkOnline, Index
<1>2. /\ jx.vfs \in SUBSET Files
      /\ jx.avail \in [Cnx -> SUBSET Files]
      /\ jx.availFrom \in [Files -> SUBSET Cnx]
      /\ jx.offline \in [Slaves -> SUBSET Files]
      /\ jx.offlineFrom \in [Files -> SUBSET Slaves]
  BY <1>1, ConsistentFields
<1>3. jx \in Index
  BY <1>2 DEF MarkOnline, Index
<1> HIDE DEF jx
<1>4. \A d \in Cnx, f \in Files : f \in jx.avail[d] <=> d \in jx.availFrom[f]
  BY <1>1, ConsistentFields
<1>5. \A t \in Slaves, f \in Files : f \in jx.offline[t] <=> t \in jx.offlineFrom[f]
  BY <1>1, ConsistentFields
<1>6. \A f \in Files : f \notin jx.vfs => jx.availFrom[f] = {} /\ jx.offlineFrom[f] = {}
  BY <1>1, ConsistentFields
<1>7. IndexConsistent(jx)
  BY <1>3, <1>4, <1>5, <1>6, FieldsConsistent
<1> QED
  BY <1>1, <1>3, <1>7 DEF jx

LEMMA MarkOfflineConsistent ==
    ASSUME NEW hx \in Index, IndexConsistent(hx),
           NEW c \in Cnx, NEW s \in Slaves, NEW F \in SUBSET Files, F \subseteq hx.vfs
    PROVE  /\ MarkOffline(hx, c, s, F) \in Index
           /\ IndexConsistent(MarkOffline(hx, c, s, F))
           /\ MarkOffline(hx, c, s, F).avail = [hx.avail EXCEPT ![c] = @ \ F]
           /\ MarkOffline(hx, c, s, F).offline = [hx.offline EXCEPT ![s] = @ \cup F]
<1> DEFINE jx == MarkOffline(hx, c, s, F)
<1>1. /\ jx.vfs = hx.vfs
      /\ jx.avail = [hx.avail EXCEPT ![c] = @ \ F]
      /\ jx.availFrom = [f \in Files |-> IF f \in F THEN hx.availFrom[f] \ {c} ELSE hx.availFrom[f]]
      /\ jx.offline = [hx.offline EXCEPT ![s] = @ \cup F]
      /\ jx.offlineFrom = [f \in Files |-> IF f \in F THEN hx.offlineFrom[f] \cup {s} ELSE hx.offlineFrom[f]]
  BY DEF MarkOffline, Index
<1>2. /\ jx.vfs \in SUBSET Files
      /\ jx.avail \in [Cnx -> SUBSET Files]
      /\ jx.availFrom \in [Files -> SUBSET Cnx]
      /\ jx.offline \in [Slaves -> SUBSET Files]
      /\ jx.offlineFrom \in [Files -> SUBSET Slaves]
  BY <1>1, ConsistentFields
<1>3. jx \in Index
  BY <1>2 DEF MarkOffline, Index
<1> HIDE DEF jx
<1>4. \A d \in Cnx, f \in Files : f \in jx.avail[d] <=> d \in jx.availFrom[f]
  BY <1>1, ConsistentFields
<1>5. \A t \in Slaves, f \in Files : f \in jx.offline[t] <=> t \in jx.offlineFrom[f]
  BY <1>1, ConsistentFields
<1>6. \A f \in Files : f \notin jx.vfs => jx.availFrom[f] = {} /\ jx.offlineFrom[f] = {}
  BY <1>1, ConsistentFields
<1>7. IndexConsistent(jx)
  BY <1>3, <1>4, <1>5, <1>6, FieldsConsistent
<1> QED
  BY <1>1, <1>3, <1>7 DEF jx

LEMMA OfflineDeleteConsistent ==
    ASSUME NEW hx \in Index, IndexConsistent(hx),
           NEW s \in Slaves, NEW F \in SUBSET Files
    PROVE  /\ OfflineDelete(hx, s, F) \in Index
           /\ IndexConsistent(OfflineDelete(hx, s, F))
           /\ OfflineDelete(hx, s, F).avail = hx.avail
           /\ OfflineDelete(hx, s, F).offline = [hx.offline EXCEPT ![s] = @ \ F]
<1> DEFINE jx == OfflineDelete(hx, s, F)
<1>1. /\ jx.vfs = hx.vfs
      /\ jx.avail = hx.avail
      /\ jx.availFrom = hx.availFrom
      /\ jx.offline = [hx.offline EXCEPT ![s] = @ \ F]
      /\ jx.offlineFrom = [f \in Files |-> IF f \in F THEN hx.offlineFrom[f] \ {s} ELSE hx.offlineFrom[f]]
  BY DEF OfflineDelete, Index
<1>2. /\ jx.vfs \in SUBSET Files
      /\ jx.avail \in [Cnx -> SUBSET Files]
      /\ jx.availFrom \in [Files -> SUBSET Cnx]
      /\ jx.offline \in [Slaves -> SUBSET Files]
      /\ jx.offlineFrom \in [Files -> SUBSET Slaves]
  BY <1>1, ConsistentFields
<1>3. jx \in Index
  BY <1>2 DEF OfflineDelete, Index
<1> HIDE DEF jx
<1>4. \A d \in Cnx, f \in Files : f \in jx.avail[d] <=> d \in jx.availFrom[f]
  BY <1>1, ConsistentFields
<1>5. \A t \in Slaves, f \in Files : f \in jx.offline[t] <=> t \in jx.offlineFrom[f]
  BY <1>1, ConsistentFields
<1>6. \A f \in Files : f \notin jx.vfs => jx.availFrom[f] = {} /\ jx.offlineFrom[f] = {}
  BY <1>1, ConsistentFields
<1>7. IndexConsistent(jx)
  BY <1>3, <1>4, <1>5, <1>6, FieldsConsistent
<1> QED
  BY <1>1, <1>3, <1>7 DEF jx

LEMMA DeleteElementsConsistent ==
    ASSUME NEW hx \in Index, IndexConsistent(hx), NEW F \in SUBSET Files
    PROVE  /\ DeleteElements(hx, F) \in Index
           /\ IndexConsistent(DeleteElements(hx, F))
           /\ DeleteElements(hx, F).avail = [c \in Cnx |-> hx.avail[c] \ F]
           /\ DeleteElements(hx, F).offline = [s \in Slaves |-> hx.offline[s] \ F]
<1> DEFINE jx == DeleteElements(hx, F)
<1>1. /\ jx.vfs = hx.vfs \ F
      /\ jx.avail = [c \in Cnx |-> hx.avail[c] \ F]
      /\ jx.availFrom = [f \in Files |-> IF f \in F THEN {} ELSE hx.availFrom[f]]
      /\ jx.offline = [s \in Slaves |-> hx.offline[s] \ F]
      /\ jx.offlineFrom = [f \in Files |-> IF f \in F THEN {} ELSE hx.offlineFrom[f]]
  BY DEF DeleteElements, Index
<1>2. /\ jx.vfs \in SUBSET Files
      /\ jx.avail \in [Cnx -> SUBSET Files]
      /\ jx.availFrom \in [Files -> SUBSET Cnx]
      /\ jx.offline \in [Slaves -> SUBSET Files]
      /\ jx.offlineFrom \in [Files -> SUBSET Slaves]
  BY <1>1, ConsistentFields
<1>3. jx \in Index
  BY <1>2 DEF DeleteElements, Index
<1> HIDE DEF jx
<1>4. \A d \in Cnx, f \in Files : f \in jx.avail[d] <=> d \in jx.availFrom[f]
  BY <1>1, ConsistentFields
<1>5. \A t \in Slaves, f \in Files : f \in jx.offline[t] <=> t \in jx.offlineFrom[f]
  BY <1>1, ConsistentFields
<1>6. \A f \in Files : f \notin jx.vfs => jx.availFrom[f] = {} /\ jx.offlineFrom[f] = {}
  BY <1>1, ConsistentFields
<1>7. IndexConsistent(jx)
  BY <1>3, <1>4, <1>5, <1>6, FieldsConsistent
<1> QED
  BY <1>1, <1>3, <1>7 DEF jx

LEMMA ForgetSlaveConsistent ==
    ASSUME NEW hx \in Index, IndexConsistent(hx), NEW s \in Slaves
    PROVE  /\ ForgetSlave(hx, s) \in Index
           /\ IndexConsistent(ForgetSlave(hx, s))
           /\ ForgetSlave(hx, s).avail = hx.avail
           /\ ForgetSlave(hx, s).offline = [hx.offline EXCEPT ![s] = {}]
<1> DEFINE jx == ForgetSlave(hx, s)
<1>1. /\ jx.vfs = hx.vfs
      /\ jx.avail = hx.avail
      /\ jx.availFrom = hx.availFrom
      /\ jx.offline = [hx.offline EXCEPT ![s] = {}]
      /\ jx.offlineFrom = [f \in Files |-> hx.offlineFrom[f] \ {s}]
  BY DEF ForgetSlave, Index
<1>2. /\ jx.vfs \in SUBSET Files
      /\ jx.avail \in [Cnx -> SUBSET Files]
      /\ jx.availFrom \in [Files -> SUBSET Cnx]
      /\ jx.offline \in [Slaves -> SUBSET Files]
      /\ jx.offlineFrom \in [Files -> SUBSET Slaves]
  BY <1>1, ConsistentFields
<1>3. jx \in Index
  BY <1>2 DEF ForgetSlave, Index
<1> HIDE DEF jx
<1>4. \A d \in Cnx, f \in Files : f \in jx.avail[d] <=> d \in jx.availFrom[f]
  BY <1>1, ConsistentFields
<1>5. \A t \in Slaves, f \in Files : f \in jx.offline[t] <=> t \in jx.offlineFrom[f]
  BY <1>1, ConsistentFields
<1>6. \A f \in Files : f \notin jx.vfs => jx.availFrom[f] = {} /\ jx.offlineFrom[f] = {}
  BY <1>1, ConsistentFields
<1>7. IndexConsistent(jx)
  BY <1>3, <1>4, <1>5, <1>6, FieldsConsistent
<1> QED
  BY <1>1, <1>3, <1>7 DEF jx

LEMMA ForgetConnectionConsistent ==
    ASSUME NEW hx \in Index, IndexConsistent(hx), NEW c \in Cnx
    PROVE  /\ ForgetConnection(hx, c) \in Index
           /\ IndexConsistent(ForgetConnection(hx, c))
           /\ ForgetConnection(hx, c).avail = [hx.avail EXCEPT ![c] = {}]
           /\ ForgetConnection(hx, c).offline = hx.offline
<1> DEFINE jx == ForgetConnection(hx, c)
<1>1. /\ jx.vfs = hx.vfs
      /\ jx.avail = [hx.avail EXCEPT ![c] = {}]
      /\ jx.availFrom = [f \in Files |-> hx.availFrom[f] \ {c}]
      /\ jx.offline = hx.offline
      /\ jx.offlineFrom = hx.offlineFrom
  BY DEF ForgetConnection, Index
<1>2. /\ jx.vfs \in SUBSET Files
      /\ jx.avail \in [Cnx -> SUBSET Files]
      /\ jx.availFrom \in [Files -> SUBSET Cnx]
      /\ jx.offline \in [Slaves -> SUBSET Files]
      /\ jx.offlineFrom \in [Files -> SUBSET Slaves]
  BY <1>1, ConsistentFields
<1>3. jx \in Index
  BY <1>2 DEF ForgetConnection, Index
<1> HIDE DEF jx
<1>4. \A d \in Cnx, f \in Files : f \in jx.avail[d] <=> d \in jx.availFrom[f]
  BY <1>1, ConsistentFields
<1>5. \A t \in Slaves, f \in Files : f \in jx.offline[t] <=> t \in jx.offlineFrom[f]
  BY <1>1, ConsistentFields
<1>6. \A f \in Files : f \notin jx.vfs => jx.availFrom[f] = {} /\ jx.offlineFrom[f] = {}
  BY <1>1, ConsistentFields
<1>7. IndexConsistent(jx)
  BY <1>3, <1>4, <1>5, <1>6, FieldsConsistent
<1> QED
  BY <1>1, <1>3, <1>7 DEF jx

LEMMA LoadOfflineConsistent ==
    ASSUME NEW K \in SUBSET Slaves, NEW L \in [Slaves -> SUBSET Files]
    PROVE  /\ LoadOffline(K, L) \in Index
           /\ IndexConsistent(LoadOffline(K, L))
           /\ LoadOffline(K, L).avail = [c \in Cnx |-> {}]
           /\ \A s \in Slaves : s \notin K => LoadOffline(K, L).offline[s] = {}
<1> DEFINE jx == LoadOffline(K, L)
<1>1. /\ jx.vfs = UNION {L[s] : s \in K}
      /\ jx.avail = [c \in Cnx |-> {}]
      /\ jx.availFrom = [f \in Files |-> {}]
      /\ jx.offline = [s \in Slaves |-> IF s \in K THEN L[s] ELSE {}]
      /\ jx.offlineFrom = [f \in Files |-> {s \in K : f \in L[s]}]
  BY DEF LoadOffline, NoFiles
<1>2. \A f \in Files : f \in jx.vfs <=> \E s \in K : f \in L[s]
  BY <1>1
<1>3. jx.vfs \in SUBSET Files
  BY <1>1
<1>4. jx \in Index
  BY <1>1, <1>3 DEF LoadOffline, NoFiles, Index
<1> HIDE DEF jx
<1>5. IndexConsistent(jx)
  BY <1>1, <1>2, <1>4, FieldsConsistent
<1> QED
  BY <1>1, <1>4, <1>5 DEF jx

LEMMA DeleteIfNowhereConsistent ==
    ASSUME NEW hx \in Index, IndexConsistent(hx), NEW F \in SUBSET Files
    PROVE  /\ DeleteIfNowhere(hx, F) \in Index
           /\ IndexConsistent(DeleteIfNowhere(hx, F))
           /\ DeleteIfNowhere(hx, F).avail = hx.avail
           /\ DeleteIfNowhere(hx, F).offline = hx.offline
<1> DEFINE G == {f \in F : Nowhere(hx, f)}
<1>1. G \in SUBSET Files
  OBVIOUS
<1>2. \A c \in Cnx : hx.avail[c] \ G = hx.avail[c]
  BY ConsistentFields DEF Nowhere
<1>3. \A s \in Slaves : hx.offline[s] \ G = hx.offline[s]
  BY ConsistentFields DEF Nowhere
<1> HIDE DEF G
<1>4. /\ DeleteElements(hx, G) \in Index
      /\ IndexConsistent(DeleteElements(hx, G))
      /\ DeleteElements(hx, G).avail = [c \in Cnx |-> hx.avail[c] \ G]
      /\ DeleteElements(hx, G).offline = [s \in Slaves |-> hx.offline[s] \ G]
  BY <1>1, DeleteElementsConsistent
<1>5. [c \in Cnx |-> hx.avail[c] \ G] = hx.avail
  <2>1. hx.avail \in [Cnx -> SUBSET Files]
    BY ConsistentFields
  <2> QED BY <1>2, <2>1
<1>6. [s \in Slaves |-> hx.offline[s] \ G] = hx.offline
  <2>1. hx.offline \in [Slaves -> SUBSET Files]
    BY ConsistentFields
  <2> QED BY <1>3, <2>1
<1> QED
  BY <1>4, <1>5, <1>6 DEF DeleteIfNowhere, G

LEMMA CleanupOfflineConsistent ==
    ASSUME NEW hx \in Index, IndexConsistent(hx), NEW s \in Slaves
    PROVE  /\ CleanupOffline(hx, s) \in Index
           /\ IndexConsistent(CleanupOffline(hx, s))
           /\ CleanupOffline(hx, s).avail = hx.avail
           /\ CleanupOffline(hx, s).offline = [hx.offline EXCEPT ![s] = {}]
<1> DEFINE F == hx.offline[s]
           jx == OfflineDelete(hx, s, F)
<1>1. F \in SUBSET Files
  BY ConsistentFields
<1> HIDE DEF F
<1>2. /\ jx \in Index
      /\ IndexConsistent(jx)
      /\ jx.avail = hx.avail
      /\ jx.offline = [hx.offline EXCEPT ![s] = @ \ F]
  BY <1>1, OfflineDeleteConsistent
<1>3. jx.offline = [hx.offline EXCEPT ![s] = {}]
  BY <1>2, ConsistentFields, ZenonT(40) DEF F
<1> HIDE DEF jx
<1>4. /\ DeleteIfNowhere(jx, F) \in Index
      /\ IndexConsistent(DeleteIfNowhere(jx, F))
      /\ DeleteIfNowhere(jx, F).avail = jx.avail
      /\ DeleteIfNowhere(jx, F).offline = jx.offline
  BY <1>1, <1>2, DeleteIfNowhereConsistent
<1> QED
  BY <1>2, <1>3, <1>4 DEF CleanupOffline, F, jx

(* The merge of a list keeps the index consistent, puts every file of the  *)
(* list online and leaves nothing offline from the slave.                  *)
LEMMA MergeFileListConsistent ==
    ASSUME NEW hx \in Index, IndexConsistent(hx),
           NEW c \in Cnx, NEW s \in Slaves, NEW F \in SUBSET Files
    PROVE  /\ MergeFileList(hx, c, s, F) \in Index
           /\ IndexConsistent(MergeFileList(hx, c, s, F))
           /\ MergeFileList(hx, c, s, F).avail = [hx.avail EXCEPT ![c] = @ \cup F]
           /\ MergeFileList(hx, c, s, F).offline = [hx.offline EXCEPT ![s] = {}]
<1> DEFINE jx == CreateFiles(hx, F)
           kx == MarkOnline(jx, c, s, F)
<1>1. /\ jx \in Index /\ IndexConsistent(jx) /\ F \subseteq jx.vfs
      /\ jx.avail = hx.avail /\ jx.offline = hx.offline
  BY CreateFilesConsistent
<1> HIDE DEF jx
<1>2. /\ kx \in Index /\ IndexConsistent(kx)
      /\ kx.avail = [jx.avail EXCEPT ![c] = @ \cup F]
      /\ kx.offline = [jx.offline EXCEPT ![s] = @ \ F]
  BY <1>1, MarkOnlineConsistent
<1> HIDE DEF kx
<1>3. /\ CleanupOffline(kx, s) \in Index /\ IndexConsistent(CleanupOffline(kx, s))
      /\ CleanupOffline(kx, s).avail = kx.avail
      /\ CleanupOffline(kx, s).offline = [kx.offline EXCEPT ![s] = {}]
  BY <1>2, CleanupOfflineConsistent
<1>4. [kx.offline EXCEPT ![s] = {}] = [hx.offline EXCEPT ![s] = {}]
  <2>1. hx.offline \in [Slaves -> SUBSET Files]
    BY ConsistentFields
  <2>2. kx.offline = [hx.offline EXCEPT ![s] = @ \ F]
    BY <1>1, <1>2
  <2> QED BY <2>1, <2>2
<1> QED
  BY <1>1, <1>2, <1>3, <1>4 DEF MergeFileList, jx, kx

--------------------------------------------------------------------------------
(* What the operators on collections of queries, kept as sequences, do to  *)
(* their type, their length and the queries in them.                       *)

LEMMA NoQueries == ASSUME NEW S PROVE <<>> \in Seq(S) /\ Len(<<>>) = 0 /\ ToSet(<<>>) = {}
BY EmptySeq DEF ToSet

LEMMA MemberTyped ==
    ASSUME NEW S, NEW q \in Seq(S)
    PROVE  ToSet(q) \subseteq S
BY LenProperties, ElementOfSeq DEF ToSet

(* collection_add puts an item first.                                      *)
LEMMA AddFirst ==
    ASSUME NEW S, NEW q \in Seq(S), NEW m \in S
    PROVE  /\ <<m>> \o q \in Seq(S)
           /\ Len(<<m>> \o q) = Len(q) + 1
           /\ ToSet(<<m>> \o q) = ToSet(q) \cup {m}
<1> DEFINE r == <<m>> \o q
<1>1. <<m>> \in Seq(S) /\ Len(<<m>>) = 1 /\ <<m>>[1] = m
  OBVIOUS
<1>2. /\ r \in Seq(S)
      /\ Len(r) = Len(q) + 1
      /\ \A i \in 1 .. Len(q) + 1 : r[i] = IF i <= 1 THEN <<m>>[i] ELSE q[i - 1]
  <2>1. Len(<<m>>) + Len(q) = Len(q) + 1
    BY <1>1, LenProperties
  <2> QED
    BY <1>1, <2>1, ConcatProperties
<1>3. Len(q) \in Nat /\ DOMAIN q = 1 .. Len(q) /\ DOMAIN r = 1 .. Len(q) + 1
  BY <1>2, LenProperties
<1> HIDE DEF r
<1>4. \A i \in 1 .. Len(q) : i + 1 \in 1 .. Len(q) + 1 /\ r[i + 1] = q[i]
  BY <1>2, <1>3
<1>5. 1 \in 1 .. Len(q) + 1 /\ r[1] = m
  BY <1>1, <1>2, <1>3
<1>6. \A i \in 1 .. Len(q) + 1 : r[i] = m \/ (i - 1 \in 1 .. Len(q) /\ r[i] = q[i - 1])
  BY <1>1, <1>2, <1>3
<1>7. ToSet(r) = ToSet(q) \cup {m}
  BY <1>3, <1>4, <1>5, <1>6 DEF ToSet
<1> QED
  BY <1>2, <1>7 DEF r

LEMMA AsynchNewFacts ==
    ASSUME NEW q \in Seq(Query), NEW u \in Uids, NEW kind \in Kinds, NEW F \in SUBSET Files
    PROVE  /\ AsynchNew(q, u, kind, F) \in Seq(Query)
           /\ Len(AsynchNew(q, u, kind, F)) = Len(q) + 1
           /\ ToSet(AsynchNew(q, u, kind, F)) =
                ToSet(q) \cup {[uid |-> u, kind |-> kind, files |-> F]}
<1>1. [uid |-> u, kind |-> kind, files |-> F] \in Query
  BY DEF Query
<1> QED
  BY <1>1, AddFirst DEF AsynchNew

(* The head of a collection leaves it.                                     *)
LEMMA TakeFirst ==
    ASSUME NEW S, NEW q \in Seq(S), q # <<>>
    PROVE  /\ Head(q) \in S /\ Head(q) \in ToSet(q)
           /\ Tail(q) \in Seq(S)
           /\ Len(Tail(q)) = Len(q) - 1
           /\ ToSet(Tail(q)) \subseteq ToSet(q)
<1>1. /\ Head(q) \in S
      /\ Tail(q) \in Seq(S)
      /\ Len(Tail(q)) = Len(q) - 1
      /\ \A i \in 1 .. Len(Tail(q)) : Tail(q)[i] = q[i + 1]
  BY HeadTailProperties
<1>2. Len(q) \in Nat \ {0} /\ DOMAIN q = 1 .. Len(q) /\ DOMAIN Tail(q) = 1 .. Len(q) - 1
  BY <1>1, LenProperties, EmptySeq
<1>3. Head(q) = q[1] /\ 1 \in 1 .. Len(q)
  BY <1>2
<1>4. \A i \in 1 .. Len(q) - 1 : i + 1 \in 1 .. Len(q) /\ Tail(q)[i] = q[i + 1]
  BY <1>1, <1>2
<1> QED
  BY <1>1, <1>2, <1>3, <1>4 DEF ToSet

LEMMA UnexpiredFacts ==
    ASSUME NEW S, NEW q \in Seq(S), NEW r \in Unexpired(q)
    PROVE  r \in Seq(S) /\ Len(r) <= Len(q) /\ ToSet(r) \subseteq ToSet(q)
<1>1. PICK n \in 0 .. Len(q) : r = SubSeq(q, 1, n)
  BY DEF Unexpired
<1>2. Len(q) \in Nat /\ DOMAIN q = 1 .. Len(q) /\ \A i \in 1 .. Len(q) : q[i] \in S
  BY LenProperties, ElementOfSeq
<1>3. \A i \in 1 .. n : i \in 1 .. Len(q) /\ q[i] \in S
  BY <1>2
<1>4. /\ r \in Seq(S)
      /\ Len(r) = n
      /\ \A i \in 1 .. n : r[i] = q[i]
  <2>1. 1 \in Int /\ n \in Int
    BY <1>2
  <2>2. /\ r \in Seq(S)
        /\ Len(r) = IF 1 <= n THEN n - 1 + 1 ELSE 0
        /\ \A i \in 1 .. n - 1 + 1 : r[i] = q[1 + i - 1]
    BY <1>1, <1>3, <2>1, SubSeqProperties
  <2>3. n - 1 + 1 = n /\ \A i \in 1 .. n : 1 + i - 1 = i
    BY <1>2
  <2> QED
    BY <1>2, <2>1, <2>2, <2>3
<1>5. DOMAIN r = 1 .. n
  BY <1>4, LenProperties
<1> QED
  BY <1>2, <1>3, <1>4, <1>5 DEF ToSet

LEMMA RemoveAtFacts ==
    ASSUME NEW S, NEW q \in Seq(S), NEW i \in DOMAIN q
    PROVE  /\ RemoveAt(q, i) \in Seq(S)
           /\ Len(RemoveAt(q, i)) = Len(q) - 1
           /\ ToSet(RemoveAt(q, i)) \subseteq ToSet(q)
<1> DEFINE a == SubSeq(q, 1, i - 1)
           b == SubSeq(q, i + 1, Len(q))
           r == RemoveAt(q, i)
<1>1. Len(q) \in Nat /\ DOMAIN q = 1 .. Len(q) /\ i \in 1 .. Len(q)
  BY LenProperties
<1>2. \A j \in 1 .. Len(q) : q[j] \in S
  BY ElementOfSeq
<1>3. /\ a \in Seq(S) /\ Len(a) = i - 1
      /\ \A j \in 1 .. i - 1 : a[j] = q[j]
  BY <1>1, <1>2
<1>4. /\ b \in Seq(S) /\ Len(b) = Len(q) - i
      /\ \A j \in 1 .. Len(q) - i : b[j] = q[i + j]
  <2>1. i + 1 \in Int /\ Len(q) \in Int /\ \A j \in i + 1 .. Len(q) : q[j] \in S
    BY <1>1, <1>2
  <2>2. /\ b \in Seq(S)
        /\ Len(b) = IF i + 1 <= Len(q) THEN Len(q) - (i + 1) + 1 ELSE 0
        /\ \A j \in 1 .. Len(q) - (i + 1) + 1 : b[j] = q[i + 1 + j - 1]
    BY <2>1, SubSeqProperties
  <2> HIDE DEF b
  <2>3. Len(b) = Len(q) - i
    BY <1>1, <2>2
  <2>4. ASSUME NEW j \in 1 .. Len(q) - i PROVE b[j] = q[i + j]
    <3>1. j \in 1 .. Len(q) - (i + 1) + 1 /\ i + 1 + j - 1 = i + j
      BY <1>1
    <3> QED
      BY <3>1, <2>2
  <2> QED
    BY <2>2, <2>3, <2>4
<1>5. r = a \o b
  BY DEF RemoveAt
<1> HIDE DEF a, b, r
<1>6. /\ r \in Seq(S) /\ Len(r) = Len(a) + Len(b)
      /\ \A j \in 1 .. Len(a) + Len(b) : r[j] = IF j <= Len(a) THEN a[j] ELSE b[j - Len(a)]
  BY <1>3, <1>4, <1>5, ConcatProperties
<1>7. Len(r) = Len(q) - 1 /\ DOMAIN r = 1 .. Len(q) - 1
  BY <1>1, <1>3, <1>4, <1>6, LenProperties
<1>8. \A j \in 1 .. Len(q) - 1 : \E k \in 1 .. Len(q) : r[j] = q[k]
  <2> TAKE j \in 1 .. Len(q) - 1
  <2>1. CASE j <= i - 1
    BY <2>1, <1>1, <1>3, <1>4, <1>6
  <2>2. CASE ~(j <= i - 1)
    <3>1. j - (i - 1) \in 1 .. Len(q) - i
      BY <2>2, <1>1
    <3>2. r[j] = b[j - (i - 1)]
      BY <2>2, <1>1, <1>3, <1>4, <1>6
    <3>3. r[j] = q[i + (j - (i - 1))]
      BY <3>1, <3>2, <1>4
    <3>4. i + (j - (i - 1)) \in 1 .. Len(q)
      BY <2>2, <1>1
    <3> QED
      BY <3>3, <3>4
  <2> QED
    BY <2>1, <2>2
<1>9. ToSet(r) \subseteq ToSet(q)
  BY <1>1, <1>7, <1>8 DEF ToSet
<1> QED
  BY <1>6, <1>7, <1>9 DEF r

--------------------------------------------------------------------------------
(* What the helpers of the handlers do to the queries.                     *)

(* A handler that asks a query adds one to the queries of its connection.  *)
LEMMA AskFacts ==
    ASSUME TypeOK, NEW c \in Cnx, NEW kind \in Kinds, NEW F \in SUBSET Files,
           Ask(c, kind, F)
    PROVE  /\ queries' \in [Cnx -> Seq(Query)]
           /\ \A d \in Cnx : d # c => queries'[d] = queries[d]
           /\ Len(queries'[c]) = Len(queries[c]) + 1
           /\ \A q \in ToSet(queries'[c]) : q \in ToSet(queries[c]) \/ q.kind = kind
<1> DEFINE u == NewUid(c)
           new == AsynchNew(queries[c], u, kind, F)
<1>1. u \in Uids
  BY DEF Ask, NewUid, Free
<1>2. queries \in [Cnx -> Seq(Query)] /\ queries[c] \in Seq(Query)
  BY DEF TypeOK
<1>3. queries' = [queries EXCEPT ![c] = new]
  BY DEF Ask
<1> HIDE DEF u
<1>4. /\ new \in Seq(Query)
      /\ Len(new) = Len(queries[c]) + 1
      /\ ToSet(new) = ToSet(queries[c]) \cup {[uid |-> u, kind |-> kind, files |-> F]}
  BY <1>1, <1>2, AsynchNewFacts
<1> HIDE DEF new
<1>5. queries'[c] = new /\ \A d \in Cnx : d # c => queries'[d] = queries[d]
  BY <1>2, <1>3
<1> QED
  BY <1>2, <1>3, <1>4, <1>5

(* The commands that expire leave the collection; no other changes.        *)
LEMMA TimeoutsFacts ==
    ASSUME TypeOK, NEW c \in Cnx, NEW rest \in Seq(Query),
           TimeoutsAfter(c, rest)
    PROVE  /\ response' \in [Cnx -> Seq(Query)]
           /\ \A d \in Cnx : d # c => response'[d] = response[d]
           /\ Len(response'[c]) <= Len(rest)
           /\ ToSet(response'[c]) \subseteq ToSet(rest)
<1>1. PICK r \in Unexpired(rest) : response' = [response EXCEPT ![c] = r]
  BY DEF TimeoutsAfter
<1>2. r \in Seq(Query) /\ Len(r) <= Len(rest) /\ ToSet(r) \subseteq ToSet(rest)
  BY UnexpiredFacts
<1>3. response \in [Cnx -> Seq(Query)]
  BY DEF TypeOK
<1> QED
  BY <1>1, <1>2, <1>3

(* The command an answer is for is one that awaits an answer.              *)
LEMMA SlotFacts ==
    ASSUME TypeOK, NEW c \in Cnx, Matched(c)
    PROVE  /\ Slot(c) \in DOMAIN response[c]
           /\ response[c][Slot(c)] \in ToSet(response[c])
           /\ Len(response[c]) \in Nat \ {0}
           /\ Open(c)
           /\ Answer(c) \in Reply
           /\ toMaster[c] # <<>>
<1>1. Slot(c) \in DOMAIN response[c]
  BY DEF Matched, Slot, Matches
<1>2. response[c] \in Seq(Query) /\ toMaster[c] \in Seq(Reply)
  BY DEF TypeOK
<1>3. DOMAIN response[c] = 1 .. Len(response[c]) /\ Len(response[c]) \in Nat
  BY <1>2, LenProperties
<1>4. Answer(c) \in Reply
  BY <1>2, TakeFirst DEF Matched, Arrived, Answer
<1> QED
  BY <1>1, <1>3, <1>4 DEF ToSet, Matched, Arrived

(* The packet is consumed and its command leaves the collection.           *)
LEMMA SettleFacts ==
    ASSUME TypeOK, NEW c \in Cnx, Matched(c), Settle(c)
    PROVE  /\ toMaster' \in [Cnx -> Seq(Reply)]
           /\ response' \in [Cnx -> Seq(Query)]
           /\ \A d \in Cnx : d # c => response'[d] = response[d]
           /\ Len(response'[c]) <= Len(response[c]) - 1
           /\ ToSet(response'[c]) \subseteq ToSet(response[c])
<1> DEFINE rest == RemoveAt(response[c], Slot(c))
<1>1. response[c] \in Seq(Query) /\ toMaster[c] \in Seq(Reply) /\ toMaster \in [Cnx -> Seq(Reply)]
  BY DEF TypeOK
<1>2. rest \in Seq(Query) /\ Len(rest) = Len(response[c]) - 1 /\ ToSet(rest) \subseteq ToSet(response[c])
  BY <1>1, SlotFacts, RemoveAtFacts
<1>3. TimeoutsAfter(c, rest) /\ toMaster' = [toMaster EXCEPT ![c] = Tail(@)]
  BY DEF Settle
<1> HIDE DEF rest
<1>4. /\ response' \in [Cnx -> Seq(Query)]
      /\ \A d \in Cnx : d # c => response'[d] = response[d]
      /\ Len(response'[c]) <= Len(rest)
      /\ ToSet(response'[c]) \subseteq ToSet(rest)
  BY <1>2, <1>3, TimeoutsFacts
<1>5. Tail(toMaster[c]) \in Seq(Reply)
  BY <1>1, SlotFacts, TakeFirst
<1> QED
  BY <1>1, <1>2, <1>3, <1>4, <1>5

(* An answer to a query of the handshake reaches a connecting slave that   *)
(* awaits nothing else, linked if the query is one of those after HELLO.   *)
LEMMA HandshakeAnswered ==
    ASSUME Inv, NEW c \in Cnx, NEW kind \in Kinds \ {"SFVLOG", "STATS", "DELETE"},
           Answers(c, kind)
    PROVE  /\ stage[c] = "connecting"
           /\ kind \in BeforeLink <=> link[c] = NoSlave
           /\ Len(queries[c]) = 0 /\ ToSet(queries[c]) = {}
           /\ Len(response[c]) = 1
<1>1. TypeOK /\ OneAtATime /\ Matched(c)
  BY DEF Inv, Answers
<1>2. /\ response[c][Slot(c)] \in Outstanding(c)
      /\ response[c][Slot(c)].kind = kind
      /\ Len(response[c]) \in Nat \ {0} /\ stage[c] # "closed"
  BY <1>1, SlotFacts DEF Outstanding, Answers, Open
<1>3. stage[c] = "connecting"
  BY <1>1, <1>2 DEF OneAtATime, TypeOK
<1>4. queries[c] \in Seq(Query) /\ Len(queries[c]) \in Nat
  BY <1>1, LenProperties DEF TypeOK
<1>5. Len(queries[c]) = 0 /\ Len(response[c]) = 1
  <2>1. Len(queries[c]) + Len(response[c]) <= 1
    BY <1>1, <1>3 DEF OneAtATime
  <2>2. Len(response[c]) \in Nat /\ Len(response[c]) # 0
    BY <1>2
  <2>3. \A m, n \in Nat : n # 0 /\ m + n <= 1 => m = 0 /\ n = 1
    OBVIOUS
  <2> QED
    BY <2>1, <2>2, <2>3, <1>4
<1>6. queries[c] = <<>> /\ ToSet(queries[c]) = {}
  BY <1>4, <1>5, NoQueries, EmptySeq
<1> QED
  BY <1>1, <1>2, <1>3, <1>5, <1>6 DEF OneAtATime

--------------------------------------------------------------------------------
(* slave_connection_obj_destroy, on an index that differs from ix by what  *)
(* the handler has done for this connection and its slave: the files of    *)
(* the connection are offline from the slave.                              *)
LEMMA DisconnectIndex ==
    ASSUME NamesAssumption, Inv, NEW c \in Cnx, NEW at \in Index, IndexConsistent(at),
           \A d \in Cnx : d # c => at.avail[d] = ix.avail[d],
           \A t \in Slaves : t # link[c] => at.offline[t] = ix.offline[t],
           link[c] = NoSlave => at = ix,
           Disconnect(c, at)
    PROVE  /\ ix' \in Index
           /\ IndexConsistent(ix')
           /\ ix'.vfs = at.vfs
           /\ ix'.avail[c] = {}
           /\ \A d \in Cnx : d # c => ix'.avail[d] = ix.avail[d]
           /\ \A t \in Slaves : t # link[c] => ix'.offline[t] = ix.offline[t]
           /\ link[c] # NoSlave => ix'.offline[link[c]] = at.offline[link[c]] \cup at.avail[c]
<1> USE DEF Inv
<1>1. CASE link[c] = NoSlave
  <2>1. ix' = ix /\ at = ix
    BY <1>1 DEF Disconnect
  <2>2. ix.avail[c] = {}
    BY <1>1 DEF LinkOK, OnlineXorOffline
  <2> QED
    BY <1>1, <2>1, <2>2 DEF IndexOK, TypeOK
<1>2. CASE link[c] # NoSlave
  <2> DEFINE F == at.avail[c]
             s == link[c]
  <2>1. s \in Slaves /\ ix' = MarkOffline(at, c, s, F)
    BY <1>2 DEF Disconnect, TypeOK
  <2>2. /\ at.avail \in [Cnx -> SUBSET Files] /\ at.offline \in [Slaves -> SUBSET Files]
        /\ F \in SUBSET Files
        /\ F \subseteq at.vfs
    BY ConsistentFields
  <2> HIDE DEF F, s
  <2>3. /\ ix' \in Index
        /\ IndexConsistent(ix')
        /\ ix'.avail = [at.avail EXCEPT ![c] = @ \ F]
        /\ ix'.offline = [at.offline EXCEPT ![s] = @ \cup F]
    BY <2>1, <2>2, MarkOfflineConsistent
  <2>4. ix'.vfs = at.vfs
    BY <2>1 DEF MarkOffline, Index
  <2>5. ix'.avail[c] = {} /\ ix'.offline[s] = at.offline[s] \cup F
    BY <2>1, <2>2, <2>3 DEF F
  <2> QED
    BY <2>2, <2>3, <2>4, <2>5 DEF s, F
<1> QED
  BY <1>1, <1>2

LEMMA DisconnectInv ==
    ASSUME NamesAssumption, Inv, NEW c \in Cnx, NEW at \in Index, IndexConsistent(at),
           \A d \in Cnx : d # c => at.avail[d] = ix.avail[d],
           \A t \in Slaves : t # link[c] => at.offline[t] = ix.offline[t],
           link[c] = NoSlave => at = ix,
           Disconnect(c, at)
    PROVE  Inv'
<1> USE DEF Inv
<1>1. /\ ix' \in Index
      /\ IndexConsistent(ix')
      /\ ix'.avail[c] = {}
      /\ \A d \in Cnx : d # c => ix'.avail[d] = ix.avail[d]
      /\ \A t \in Slaves : t # link[c] => ix'.offline[t] = ix.offline[t]
  BY DisconnectIndex
<1>2. \A s \in Slaves : link[c] = s => slaveCnx[s] = c /\ s \in known
  BY NamesAssumption DEF LinkOK
<1>3. TypeOK'
  <2>1. <<>> \in Seq(Query) /\ <<>> \in Seq(Reply)
    OBVIOUS
  <2> QED
    BY <1>1, <2>1 DEF TypeOK, Disconnect, remote, storage
<1>4. LinkOK'
  BY NamesAssumption DEF LinkOK, TypeOK, Disconnect, Open
<1>5. IndexOK'
  <2>1. known' = known
    BY DEF Disconnect
  <2>2. ASSUME NEW s \in Slaves, s \notin known PROVE ix'.offline[s] = {}
    BY <1>1, <1>2, <2>2 DEF IndexOK
  <2> QED
    BY <1>1, <2>1, <2>2 DEF IndexOK
<1>6. OnlineXorOffline'
  <2>1. stage' = [stage EXCEPT ![c] = "closed"] /\ link' = [link EXCEPT ![c] = NoSlave]
    BY DEF Disconnect
  <2>2. ASSUME NEW d \in Cnx, stage'[d] # "connected" PROVE ix'.avail[d] = {}
    BY <1>1, <2>1, <2>2 DEF OnlineXorOffline, TypeOK
  <2>3. ASSUME NEW d \in Cnx, NEW s \in Slaves, stage'[d] = "connected", link'[d] = s
        PROVE  ix'.offline[s] = {}
    <3>1. d # c /\ stage[d] = "connected" /\ link[d] = s
      BY <2>1, <2>3 DEF TypeOK
    <3>2. s # link[c]
      BY <1>2, <2>3, <3>1 DEF LinkOK
    <3> QED
      BY <1>1, <3>1, <3>2 DEF OnlineXorOffline
  <2> QED
    BY <2>2, <2>3 DEF OnlineXorOffline
<1>7. OneAtATime'
  <2>1. /\ stage'[c] = "closed" /\ queries'[c] = <<>> /\ response'[c] = <<>>
        /\ \A d \in Cnx : d # c => /\ stage'[d] = stage[d] /\ link'[d] = link[d]
                                   /\ queries'[d] = queries[d] /\ response'[d] = response[d]
    BY DEF Disconnect, TypeOK
  <2> QED
    BY <2>1, ZenonT(40) DEF OneAtATime, Outstanding
<1> QED
  BY <1>3, <1>4, <1>5, <1>6, <1>7

(* The same, when the handler has left the index alone.                    *)
LEMMA DisconnectNow ==
    ASSUME NamesAssumption, Inv, NEW c \in Cnx, Disconnect(c, ix)
    PROVE  Inv'
<1>1. ix \in Index /\ IndexConsistent(ix)
  BY DEF Inv, TypeOK, IndexOK
<1> QED
  BY <1>1, DisconnectInv

(* Queries that leave their collection, or move to the other, do no harm.  *)
LEMMA FewerOutstanding ==
    ASSUME OneAtATime, stage' = stage, link' = link,
           queries' \in [Cnx -> Seq(Query)], response' \in [Cnx -> Seq(Query)],
           queries \in [Cnx -> Seq(Query)], response \in [Cnx -> Seq(Query)],
           \A d \in Cnx :
               /\ Outstanding(d)' \subseteq Outstanding(d)
               /\ Len(queries'[d]) + Len(response'[d]) <= Len(queries[d]) + Len(response[d])
    PROVE  OneAtATime'
<1> SUFFICES ASSUME NEW d \in Cnx
             PROVE  /\ stage'[d] = "closed" => queries'[d] = <<>> /\ response'[d] = <<>>
                    /\ stage'[d] = "connecting" =>
                          /\ Len(queries'[d]) + Len(response'[d]) <= 1
                          /\ \A q \in Outstanding(d)' : q.kind \in BeforeLink <=> link'[d] = NoSlave
                    /\ stage'[d] = "connected" =>
                          \A q \in Outstanding(d)' : q.kind \in {"SFVLOG", "STATS", "DELETE"}
  BY DEF OneAtATime, BeforeLink
<1>1. /\ Len(queries[d]) \in Nat /\ Len(response[d]) \in Nat
      /\ Len(queries'[d]) \in Nat /\ Len(response'[d]) \in Nat
      /\ queries'[d] \in Seq(Query) /\ response'[d] \in Seq(Query)
  BY LenProperties
<1>2. CASE stage[d] = "closed"
  <2>1. queries[d] = <<>> /\ response[d] = <<>>
    BY <1>2 DEF OneAtATime
  <2>2. Len(queries'[d]) + Len(response'[d]) <= 0
    BY <2>1, NoQueries
  <2>3. Len(queries'[d]) = 0 /\ Len(response'[d]) = 0
    BY <1>1, <2>2
  <2>4. queries'[d] = <<>> /\ response'[d] = <<>>
    BY <1>1, <2>3, EmptySeq
  <2> QED
    BY <1>2, <2>4
<1>3. CASE stage[d] = "connecting"
  <2>1. Len(queries[d]) + Len(response[d]) <= 1
    BY <1>3 DEF OneAtATime
  <2>2. Len(queries'[d]) + Len(response'[d]) <= 1
    BY <1>1, <2>1
  <2>3. \A q \in Outstanding(d)' : q.kind \in BeforeLink <=> link'[d] = NoSlave
    BY <1>3 DEF OneAtATime
  <2> QED
    BY <1>3, <2>2, <2>3
<1>4. CASE stage[d] = "connected"
  BY <1>4 DEF OneAtATime
<1>5. CASE stage[d] \notin {"closed", "connecting", "connected"}
  BY <1>5
<1> QED
  BY <1>2, <1>3, <1>4, <1>5

(* A connecting slave that has just been asked one query, after all others *)
(* have been answered.                                                     *)
LEMMA OneAsked ==
    ASSUME OneAtATime, NEW c \in Cnx, NEW kind \in Kinds,
           \A d \in Cnx : d # c => /\ stage'[d] = stage[d] /\ link'[d] = link[d]
                                   /\ queries'[d] = queries[d] /\ response'[d] = response[d],
           stage'[c] = "connecting",
           Len(queries'[c]) = 1, Len(response'[c]) = 0,
           \A q \in ToSet(queries'[c]) : q.kind = kind,
           ToSet(response'[c]) = {},
           kind \in BeforeLink <=> link'[c] = NoSlave
    PROVE  OneAtATime'
<1>1. Len(queries'[c]) + Len(response'[c]) <= 1
  OBVIOUS
<1>2. \A q \in Outstanding(c)' : q.kind \in BeforeLink <=> link'[c] = NoSlave
  BY DEF Outstanding
<1> SUFFICES ASSUME NEW d \in Cnx
             PROVE  /\ stage'[d] = "closed" => queries'[d] = <<>> /\ response'[d] = <<>>
                    /\ stage'[d] = "connecting" =>
                          /\ Len(queries'[d]) + Len(response'[d]) <= 1
                          /\ \A q \in Outstanding(d)' : q.kind \in BeforeLink <=> link'[d] = NoSlave
                    /\ stage'[d] = "connected" =>
                          \A q \in Outstanding(d)' : q.kind \in {"SFVLOG", "STATS", "DELETE"}
  BY DEF OneAtATime, BeforeLink
<1>3. CASE d = c
  BY <1>1, <1>2, <1>3
<1>4. CASE d # c
  <2>1. Outstanding(d)' = Outstanding(d)
    BY <1>4 DEF Outstanding
  <2> QED
    BY <1>4, <2>1 DEF OneAtATime
<1> QED
  BY <1>3, <1>4

(* A handler of the handshake that consumes an answer and asks the next    *)
(* query leaves that one alone outstanding.                                *)
LEMMA NextAsked ==
    ASSUME Inv, NEW c \in Cnx, NEW kind \in Kinds \ {"SFVLOG", "STATS", "DELETE"},
           Answers(c, kind), Settle(c),
           NEW next \in Kinds, NEW F \in SUBSET Files, Ask(c, next, F)
    PROVE  /\ queries' \in [Cnx -> Seq(Query)]
           /\ response' \in [Cnx -> Seq(Query)]
           /\ toMaster' \in [Cnx -> Seq(Reply)]
           /\ \A d \in Cnx : d # c => queries'[d] = queries[d] /\ response'[d] = response[d]
           /\ Len(queries'[c]) = 1 /\ Len(response'[c]) = 0
           /\ \A q \in ToSet(queries'[c]) : q.kind = next
           /\ ToSet(response'[c]) = {}
<1>1. TypeOK /\ Matched(c)
  BY DEF Inv, Answers
<1>2. Len(queries[c]) = 0 /\ ToSet(queries[c]) = {} /\ Len(response[c]) = 1
  BY HandshakeAnswered
<1>3. /\ queries' \in [Cnx -> Seq(Query)]
      /\ \A d \in Cnx : d # c => queries'[d] = queries[d]
      /\ Len(queries'[c]) = 1
      /\ \A q \in ToSet(queries'[c]) : q.kind = next
  <2>1. /\ queries' \in [Cnx -> Seq(Query)]
        /\ \A d \in Cnx : d # c => queries'[d] = queries[d]
        /\ Len(queries'[c]) = Len(queries[c]) + 1
        /\ \A q \in ToSet(queries'[c]) : q \in ToSet(queries[c]) \/ q.kind = next
    BY <1>1, AskFacts
  <2>2. Len(queries'[c]) = 1
    BY <1>2, <2>1
  <2> QED
    BY <1>2, <2>1, <2>2
<1>4. /\ toMaster' \in [Cnx -> Seq(Reply)]
      /\ response' \in [Cnx -> Seq(Query)]
      /\ \A d \in Cnx : d # c => response'[d] = response[d]
      /\ Len(response'[c]) <= 0
  <2>1. /\ toMaster' \in [Cnx -> Seq(Reply)]
        /\ response' \in [Cnx -> Seq(Query)]
        /\ \A d \in Cnx : d # c => response'[d] = response[d]
        /\ Len(response'[c]) <= Len(response[c]) - 1
    BY <1>1, SettleFacts
  <2>2. Len(response'[c]) <= 0
    BY <1>2, <2>1
  <2> QED
    BY <2>1, <2>2
<1>5. response'[c] \in Seq(Query) /\ Len(response'[c]) \in Nat
  BY <1>4, LenProperties
<1>6. Len(response'[c]) = 0
  BY <1>4, <1>5
<1>7. ToSet(response'[c]) = {}
  BY <1>5, <1>6, EmptySeq, NoQueries
<1> QED
  BY <1>3, <1>4, <1>6, <1>7

(* A step that leaves the links and the index alone keeps what is said of  *)
(* them.                                                                   *)
LEMMA SameLinksAndIndex ==
    ASSUME Inv, UNCHANGED <<known, ix, stage, link, slaveCnx>>
    PROVE  LinkOK' /\ IndexOK' /\ OnlineXorOffline'
BY DEF Inv, LinkOK, IndexOK, OnlineXorOffline, Open

--------------------------------------------------------------------------------
(* The handlers of the master, one by one.                                 *)
LEMMA AcceptInv ==
    ASSUME NamesAssumption, Inv, NEW c \in Cnx, NEW s \in Slaves, Accept(c, s)
    PROVE  Inv'
<1> DEFINE kind == IF UseEncryption THEN "PUBLIC_KEY" ELSE "HELLO"
<1> USE DEF Inv
<1>1. kind \in Kinds /\ kind \in BeforeLink
  BY DEF Kinds, HandshakeKinds, BeforeLink
<1>2. Ask(c, kind, {}) /\ stage[c] = "closed" /\ stage' = [stage EXCEPT ![c] = "connecting"]
  BY DEF Accept, Open
<1> HIDE DEF kind
<1>3. /\ queries' \in [Cnx -> Seq(Query)]
      /\ \A d \in Cnx : d # c => queries'[d] = queries[d]
      /\ Len(queries'[c]) = Len(queries[c]) + 1
      /\ \A q \in ToSet(queries'[c]) : q \in ToSet(queries[c]) \/ q.kind = kind
  BY <1>1, <1>2, AskFacts
<1>4. queries[c] = <<>> /\ response[c] = <<>> /\ link[c] = NoSlave /\ ix.avail[c] = {}
  BY <1>2 DEF OneAtATime, LinkOK, Open, OnlineXorOffline
<1>5. Len(queries[c]) = 0 /\ ToSet(queries[c]) = {} /\ Len(response[c]) = 0 /\ ToSet(response[c]) = {}
  BY <1>4, NoQueries
<1>6. TypeOK'
  BY <1>3 DEF TypeOK, Accept, durable, storage
<1>7. LinkOK'
  BY <1>2, <1>4 DEF LinkOK, TypeOK, Accept, Open
<1>8. IndexOK'
  BY DEF IndexOK, Accept
<1>9. OnlineXorOffline'
  BY <1>2, <1>4 DEF OnlineXorOffline, TypeOK, Accept
<1>10. OneAtATime'
  <2>1. \A d \in Cnx : d # c => /\ stage'[d] = stage[d] /\ link'[d] = link[d]
                                /\ queries'[d] = queries[d] /\ response'[d] = response[d]
    BY <1>2, <1>3 DEF Accept, TypeOK
  <2>2. stage'[c] = "connecting" /\ link'[c] = NoSlave /\ response'[c] = response[c]
    BY <1>2, <1>4 DEF Accept, TypeOK
  <2>3. Len(queries'[c]) = 1
    BY <1>3, <1>5
  <2>4. /\ Len(response'[c]) = 0 /\ ToSet(response'[c]) = {}
        /\ \A q \in ToSet(queries'[c]) : q.kind = kind
    BY <1>3, <1>5, <2>2
  <2>5. kind \in BeforeLink <=> link'[c] = NoSlave
    BY <1>1, <2>2
  <2> QED
    BY <1>1, <2>1, <2>2, <2>3, <2>4, <2>5, OneAsked
<1> QED
  BY <1>6, <1>7, <1>8, <1>9, <1>10

LEMMA SlaveConnectionWriteInv ==
    ASSUME NamesAssumption, Inv, NEW c \in Cnx, SlaveConnectionWrite(c)
    PROVE  Inv'
<1> DEFINE q == queries[c]
           r == response[c]
<1> USE DEF Inv
<1>1. /\ q \in Seq(Query) /\ r \in Seq(Query) /\ q # <<>>
      /\ queries \in [Cnx -> Seq(Query)] /\ response \in [Cnx -> Seq(Query)]
      /\ queries' = [queries EXCEPT ![c] = Tail(q)]
      /\ response' = [response EXCEPT ![c] = <<Head(q)>> \o r]
  BY DEF SlaveConnectionWrite, TypeOK
<1> HIDE DEF q, r
<1>2. /\ Head(q) \in Query /\ Head(q) \in ToSet(q)
      /\ Tail(q) \in Seq(Query)
      /\ Len(Tail(q)) = Len(q) - 1
      /\ ToSet(Tail(q)) \subseteq ToSet(q)
  BY <1>1, TakeFirst
<1>3. /\ <<Head(q)>> \o r \in Seq(Query)
      /\ Len(<<Head(q)>> \o r) = Len(r) + 1
      /\ ToSet(<<Head(q)>> \o r) = ToSet(r) \cup {Head(q)}
  BY <1>1, <1>2, AddFirst
<1>4. /\ queries' \in [Cnx -> Seq(Query)] /\ response' \in [Cnx -> Seq(Query)]
      /\ queries'[c] = Tail(q) /\ response'[c] = <<Head(q)>> \o r
      /\ \A d \in Cnx : d # c => queries'[d] = queries[d] /\ response'[d] = response[d]
  BY <1>1, <1>2, <1>3
<1>5. TypeOK'
  <2>1. toSlave' \in [Cnx -> Seq(Query)]
    <3>1. toSlave \in [Cnx -> Seq(Query)] /\ Append(toSlave[c], Head(q)) \in Seq(Query)
      BY <1>2, AppendProperties DEF TypeOK
    <3> QED
      BY <3>1 DEF SlaveConnectionWrite, q
  <2> QED
    BY <1>4, <2>1 DEF TypeOK, SlaveConnectionWrite, durable, storage
<1>6. LinkOK' /\ IndexOK' /\ OnlineXorOffline'
  BY SameLinksAndIndex DEF SlaveConnectionWrite
<1>7. OneAtATime'
  <2>1. Len(q) \in Nat /\ Len(r) \in Nat
    BY <1>1, LenProperties
  <2>2. Len(Tail(q)) + Len(<<Head(q)>> \o r) <= Len(q) + Len(r)
    BY <1>2, <1>3, <2>1
  <2>3. Outstanding(c)' \subseteq Outstanding(c)
    BY <1>2, <1>3, <1>4 DEF Outstanding, q, r
  <2>4. ASSUME NEW d \in Cnx
        PROVE  /\ Outstanding(d)' \subseteq Outstanding(d)
               /\ Len(queries'[d]) + Len(response'[d]) <= Len(queries[d]) + Len(response[d])
    <3>1. CASE d = c
      BY <1>4, <2>2, <2>3, <3>1 DEF q, r
    <3>2. CASE d # c
      <4>1. Len(queries[d]) \in Nat /\ Len(response[d]) \in Nat
        BY <1>1, LenProperties
      <4>2. queries'[d] = queries[d] /\ response'[d] = response[d]
        BY <1>4, <3>2
      <4>3. Len(queries'[d]) + Len(response'[d]) <= Len(queries[d]) + Len(response[d])
        BY <4>1, <4>2
      <4> QED
        BY <4>2, <4>3 DEF Outstanding
    <3> QED
      BY <3>1, <3>2
  <2> QED
    BY <1>1, <1>4, <2>4, FewerOutstanding DEF SlaveConnectionWrite
<1> QED
  BY <1>5, <1>6, <1>7

(* The timeouts alone, for a packet that has arrived in part or matches    *)
(* nothing.                                                                *)
LEMMA OnlyTimeouts ==
    ASSUME Inv, NEW c \in Cnx,
           response' \in [Cnx -> Seq(Query)],
           \A d \in Cnx : d # c => response'[d] = response[d],
           Len(response'[c]) <= Len(response[c]),
           ToSet(response'[c]) \subseteq ToSet(response[c]),
           UNCHANGED <<stage, link, queries>>
    PROVE  OneAtATime'
<1>1. queries \in [Cnx -> Seq(Query)] /\ response \in [Cnx -> Seq(Query)] /\ OneAtATime
  BY DEF Inv, TypeOK
<1>2. ASSUME NEW d \in Cnx
      PROVE  /\ Outstanding(d)' \subseteq Outstanding(d)
             /\ Len(queries'[d]) + Len(response'[d]) <= Len(queries[d]) + Len(response[d])
  <2>1. Len(queries[d]) \in Nat /\ Len(response[d]) \in Nat /\ Len(response'[d]) \in Nat
    BY <1>1, LenProperties
  <2>2. queries'[d] = queries[d] /\ ToSet(response'[d]) \subseteq ToSet(response[d])
    BY <1>1
  <2>3. Len(response'[d]) <= Len(response[d])
    BY <2>1
  <2>4. Len(queries'[d]) + Len(response'[d]) <= Len(queries[d]) + Len(response[d])
    BY <2>1, <2>2, <2>3
  <2> QED
    BY <2>2, <2>4 DEF Outstanding
<1> QED
  BY <1>1, <1>2, FewerOutstanding

LEMMA PartialReadInv ==
    ASSUME Inv, NEW c \in Cnx, PartialRead(c) \/ UnmatchedReply(c)
    PROVE  Inv'
<1>1. TypeOK /\ TimeoutsAfter(c, response[c]) /\ response[c] \in Seq(Query)
  BY DEF Inv, TypeOK, PartialRead, UnmatchedReply
<1>2. /\ response' \in [Cnx -> Seq(Query)]
      /\ \A d \in Cnx : d # c => response'[d] = response[d]
      /\ Len(response'[c]) <= Len(response[c])
      /\ ToSet(response'[c]) \subseteq ToSet(response[c])
  BY <1>1, TimeoutsFacts
<1>3. UNCHANGED <<running, known, durable, ix, stage, link, slaveCnx, ready, queries, remote>>
  BY DEF PartialRead, UnmatchedReply
<1>4. TypeOK'
  <2>1. toMaster' \in [Cnx -> Seq(Reply)]
    <3>1. toMaster \in [Cnx -> Seq(Reply)] /\ toMaster[c] \in Seq(Reply)
      BY <1>1 DEF TypeOK
    <3>2. CASE PartialRead(c)
      BY <3>1, <3>2 DEF PartialRead
    <3>3. CASE UnmatchedReply(c)
      <4>1. toMaster[c] # <<>>
        BY <3>3 DEF UnmatchedReply, Arrived
      <4>2. Tail(toMaster[c]) \in Seq(Reply)
        BY <3>1, <4>1, TakeFirst
      <4> QED
        BY <3>1, <3>3, <4>2 DEF UnmatchedReply
    <3> QED
      BY <3>2, <3>3
  <2> QED
    BY <1>1, <1>2, <1>3, <2>1 DEF TypeOK, durable, remote, storage
<1>5. LinkOK' /\ IndexOK' /\ OnlineXorOffline'
  BY <1>3, SameLinksAndIndex
<1>6. OneAtATime'
  BY <1>1, <1>2, <1>3, OnlyTimeouts
<1> QED
  BY <1>4, <1>5, <1>6 DEF Inv

(* An answer that changes at most cnx->ready: SFVLOG, STATS and DELETE.    *)
LEMMA SettledInv ==
    ASSUME Inv, NEW c \in Cnx, Matched(c), Settle(c),
           UNCHANGED <<running, known, durable, ix, stage, link, slaveCnx, queries, remote>>,
           ready' \in [Cnx -> BOOLEAN]
    PROVE  Inv'
<1>1. TypeOK /\ response[c] \in Seq(Query)
  BY DEF Inv, TypeOK
<1>2. /\ toMaster' \in [Cnx -> Seq(Reply)]
      /\ response' \in [Cnx -> Seq(Query)]
      /\ \A d \in Cnx : d # c => response'[d] = response[d]
      /\ Len(response'[c]) <= Len(response[c]) - 1
      /\ ToSet(response'[c]) \subseteq ToSet(response[c])
  BY <1>1, SettleFacts
<1>3. Len(response'[c]) <= Len(response[c])
  <2>1. Len(response'[c]) \in Nat /\ Len(response[c]) \in Nat
    BY <1>1, <1>2, LenProperties
  <2> QED
    BY <1>2, <2>1
<1>4. TypeOK'
  BY <1>1, <1>2 DEF TypeOK, durable, remote, storage
<1>5. LinkOK' /\ IndexOK' /\ OnlineXorOffline'
  BY SameLinksAndIndex
<1>6. OneAtATime'
  BY <1>1, <1>2, <1>3, OnlyTimeouts
<1> QED
  BY <1>4, <1>5, <1>6 DEF Inv

LEMMA KeyAnsweredInv ==
    ASSUME NamesAssumption, Inv, NEW c \in Cnx,
           NEW kind \in {"PUBLIC_KEY", "BLOWFISH_KEY"}, NEW next \in {"BLOWFISH_KEY", "HELLO"},
           KeyAnswered(c, kind, next)
    PROVE  Inv'
<1>1. /\ kind \in Kinds \ {"SFVLOG", "STATS", "DELETE"} /\ kind \in BeforeLink
      /\ next \in Kinds /\ next \in BeforeLink
  BY DEF Kinds, HandshakeKinds, BeforeLink
<1>2. Answers(c, kind)
  BY DEF KeyAnswered
<1>3. stage[c] = "connecting" /\ link[c] = NoSlave
  BY <1>1, <1>2, HandshakeAnswered
<1>4. CASE Disconnect(c, ix)
  BY <1>4, DisconnectNow
<1>5. CASE /\ Ask(c, next, {}) /\ Settle(c)
           /\ UNCHANGED <<running, known, durable, ix, stage, link, slaveCnx, ready, remote>>
  <2>1. /\ queries' \in [Cnx -> Seq(Query)]
        /\ response' \in [Cnx -> Seq(Query)]
        /\ toMaster' \in [Cnx -> Seq(Reply)]
        /\ \A d \in Cnx : d # c => queries'[d] = queries[d] /\ response'[d] = response[d]
        /\ Len(queries'[c]) = 1 /\ Len(response'[c]) = 0
        /\ \A q \in ToSet(queries'[c]) : q.kind = next
        /\ ToSet(response'[c]) = {}
    BY <1>1, <1>2, <1>5, NextAsked
  <2>2. TypeOK'
    BY <1>5, <2>1 DEF Inv, TypeOK, durable, remote, storage
  <2>3. LinkOK' /\ IndexOK' /\ OnlineXorOffline'
    BY <1>5, SameLinksAndIndex
  <2>4. OneAtATime'
    BY <1>1, <1>3, <1>5, <2>1, OneAsked DEF Inv
  <2> QED
    BY <2>2, <2>3, <2>4 DEF Inv
<1> QED
  BY <1>4, <1>5 DEF KeyAnswered

(* Writing to a deletelog and reading it keep its type.                    *)
LEMMA DeletelogTyped ==
    /\ EmptyLog \in Deletelog(Files)
    /\ \A log \in Deletelog(Files) :
          /\ LinesRead(log) \in SUBSET Files
          /\ \A f \in Files : LoggingWrite(log, f) \in Deletelog(Files)
  BY DEF EmptyLog, Deletelog, LinesRead, AllLines, LoggingWrite

(* The query that follows the identification of the slave.                 *)
LEMMA AskDeletelogFacts ==
    ASSUME TypeOK, NEW c \in Cnx, NEW s \in Slaves, AskDeletelog(c, s)
    PROVE  \E next \in Kinds \ BeforeLink, F \in SUBSET Files : Ask(c, next, F)
<1>1. LinesRead(deletelog[s]) \in SUBSET Files
  BY DeletelogTyped DEF TypeOK
<1>2. "FILE_LIST" \in Kinds \ BeforeLink /\ "DELETELOG" \in Kinds \ BeforeLink
  BY DEF Kinds, HandshakeKinds, BeforeLink
<1> QED
  BY <1>1, <1>2 DEF AskDeletelog

LEMMA HelloAnsweredInv ==
    ASSUME NamesAssumption, Inv, NEW c \in Cnx, HelloAnswered(c)
    PROVE  Inv'
<1> DEFINE s == Answer(c).from
<1>1. "HELLO" \in Kinds \ {"SFVLOG", "STATS", "DELETE"} /\ "HELLO" \in BeforeLink
  BY DEF Kinds, HandshakeKinds, BeforeLink
<1>2. Answers(c, "HELLO") /\ TypeOK /\ Matched(c)
  BY DEF HelloAnswered, Answers, Inv
<1>3. stage[c] = "connecting" /\ link[c] = NoSlave
  BY <1>1, <1>2, HandshakeAnswered
<1>4. s \in Slaves
  BY <1>2, SlotFacts DEF Reply
<1> HIDE DEF s
<1>5. CASE Disconnect(c, ix)
  BY <1>5, DisconnectNow
<1>6. CASE /\ s \in known /\ slaveCnx[s] = NoCnx
           /\ link' = [link EXCEPT ![c] = s]
           /\ slaveCnx' = [slaveCnx EXCEPT ![s] = c]
           /\ IF UseCertificate THEN Ask(c, "CERTIFICATE_x509", {}) ELSE AskDeletelog(c, s)
           /\ Settle(c)
           /\ UNCHANGED <<running, known, durable, ix, stage, ready, remote>>
  <2>1. PICK next \in Kinds \ BeforeLink, F \in SUBSET Files : Ask(c, next, F)
    <3>1. "CERTIFICATE_x509" \in Kinds \ BeforeLink
      BY DEF Kinds, HandshakeKinds, BeforeLink
    <3>2. CASE UseCertificate
      BY <1>6, <3>1, <3>2
    <3>3. CASE ~UseCertificate
      BY <1>2, <1>4, <1>6, <3>3, AskDeletelogFacts
    <3> QED
      BY <3>2, <3>3
  <2>2. /\ queries' \in [Cnx -> Seq(Query)]
        /\ response' \in [Cnx -> Seq(Query)]
        /\ toMaster' \in [Cnx -> Seq(Reply)]
        /\ \A d \in Cnx : d # c => queries'[d] = queries[d] /\ response'[d] = response[d]
        /\ Len(queries'[c]) = 1 /\ Len(response'[c]) = 0
        /\ \A q \in ToSet(queries'[c]) : q.kind = next
        /\ ToSet(response'[c]) = {}
    BY <1>1, <1>2, <1>6, <2>1, NextAsked
  <2>3. TypeOK'
    BY <1>4, <1>6, <2>2 DEF Inv, TypeOK, durable, remote, storage
  <2>4. LinkOK'
    BY NamesAssumption, <1>3, <1>4, <1>6 DEF Inv, LinkOK, TypeOK, Open
  <2>5. IndexOK'
    BY <1>6 DEF Inv, IndexOK
  <2>6. OnlineXorOffline'
    BY <1>3, <1>6 DEF Inv, OnlineXorOffline, TypeOK
  <2>7. OneAtATime'
    <3>1. \A d \in Cnx : d # c => /\ stage'[d] = stage[d] /\ link'[d] = link[d]
                                  /\ queries'[d] = queries[d] /\ response'[d] = response[d]
      BY <1>6, <2>2 DEF Inv, TypeOK
    <3>2. stage'[c] = "connecting" /\ link'[c] = s /\ s # NoSlave
      BY NamesAssumption, <1>3, <1>4, <1>6 DEF Inv, TypeOK
    <3> QED
      BY <2>1, <2>2, <3>1, <3>2, OneAsked DEF Inv
  <2> QED
    BY <2>3, <2>4, <2>5, <2>6, <2>7 DEF Inv
<1> QED
  BY <1>5, <1>6 DEF HelloAnswered, Welcome, s

(* An answer to a later query of the handshake which asks the next and     *)
(* touches nothing but the deletelog.                                      *)
LEMMA LaterAnsweredInv ==
    ASSUME NamesAssumption, Inv, NEW c \in Cnx,
           NEW kind \in {"CERTIFICATE_x509", "CERTIFICATE_PKEY", "DELETELOG"},
           Answers(c, kind), Settle(c),
           NEW next \in Kinds \ BeforeLink, NEW F \in SUBSET Files, Ask(c, next, F),
           deletelog' \in [Slaves -> Deletelog(Files)],
           UNCHANGED <<running, known, configs, fileslog, ix, stage, link, slaveCnx, ready, remote>>
    PROVE  Inv'
<1>1. kind \in Kinds \ {"SFVLOG", "STATS", "DELETE"} /\ kind \notin BeforeLink
  BY DEF Kinds, HandshakeKinds, BeforeLink
<1>2. stage[c] = "connecting" /\ link[c] # NoSlave
  BY <1>1, HandshakeAnswered
<1>3. /\ queries' \in [Cnx -> Seq(Query)]
      /\ response' \in [Cnx -> Seq(Query)]
      /\ toMaster' \in [Cnx -> Seq(Reply)]
      /\ \A d \in Cnx : d # c => queries'[d] = queries[d] /\ response'[d] = response[d]
      /\ Len(queries'[c]) = 1 /\ Len(response'[c]) = 0
      /\ \A q \in ToSet(queries'[c]) : q.kind = next
      /\ ToSet(response'[c]) = {}
  BY <1>1, NextAsked
<1>4. TypeOK'
  BY <1>3 DEF Inv, TypeOK, remote, storage
<1>5. LinkOK' /\ IndexOK' /\ OnlineXorOffline'
  BY SameLinksAndIndex
<1>6. OneAtATime'
  BY <1>2, <1>3, OneAsked DEF Inv
<1> QED
  BY <1>4, <1>5, <1>6 DEF Inv

LEMMA CertificateAnsweredInv ==
    ASSUME NamesAssumption, Inv, NEW c \in Cnx, CertificateAnswered(c)
    PROVE  Inv'
<1>1. /\ Settle(c) /\ TypeOK
      /\ UNCHANGED <<running, known, configs, fileslog, ix, stage, link, slaveCnx, ready, remote>>
      /\ deletelog' = deletelog /\ deletelog' \in [Slaves -> Deletelog(Files)]
  BY DEF CertificateAnswered, Inv, TypeOK, durable
<1>2. CASE Answers(c, "CERTIFICATE_x509") /\ Ask(c, "CERTIFICATE_PKEY", {})
  <2>1. "CERTIFICATE_PKEY" \in Kinds \ BeforeLink
    BY DEF Kinds, HandshakeKinds, BeforeLink
  <2> QED
    BY <1>1, <1>2, <2>1, LaterAnsweredInv
<1>3. CASE Answers(c, "CERTIFICATE_PKEY") /\ AskDeletelog(c, link[c])
  <2>1. "CERTIFICATE_PKEY" \in Kinds \ {"SFVLOG", "STATS", "DELETE"}
        /\ "CERTIFICATE_PKEY" \notin BeforeLink
    BY DEF Kinds, HandshakeKinds, BeforeLink
  <2>2. link[c] # NoSlave
    BY <1>3, <2>1, HandshakeAnswered
  <2>3. link[c] \in Slaves
    BY <1>1, <2>2 DEF TypeOK
  <2>4. PICK next \in Kinds \ BeforeLink, F \in SUBSET Files : Ask(c, next, F)
    BY <1>1, <1>3, <2>3, AskDeletelogFacts
  <2> QED
    BY <1>1, <1>3, <2>4, LaterAnsweredInv
<1> QED
  BY <1>2, <1>3 DEF CertificateAnswered

LEMMA DeletelogAnsweredInv ==
    ASSUME NamesAssumption, Inv, NEW c \in Cnx, DeletelogAnswered(c)
    PROVE  Inv'
<1>1. CASE Disconnect(c, ix)
  BY <1>1, DisconnectNow
<1>2. CASE /\ deletelog' = [deletelog EXCEPT ![link[c]] = EmptyLog]
           /\ Ask(c, "FILE_LIST", {})
           /\ Settle(c)
           /\ UNCHANGED <<running, known, configs, fileslog, ix, stage, link, slaveCnx, ready, remote>>
  <2>1. "FILE_LIST" \in Kinds \ BeforeLink
    BY DEF Kinds, HandshakeKinds, BeforeLink
  <2>2. deletelog' \in [Slaves -> Deletelog(Files)]
    BY <1>2, DeletelogTyped DEF Inv, TypeOK
  <2> QED
    BY <1>2, <2>1, <2>2, LaterAnsweredInv DEF DeletelogAnswered
<1> QED
  BY <1>1, <1>2 DEF DeletelogAnswered

(* The merge of a file list touches one connection, and one slave.         *)
LEMMA FileListAnsweredInv ==
    ASSUME NamesAssumption, Inv, NEW c \in Cnx, FileListAnswered(c)
    PROVE  Inv'
<1> DEFINE listed == Answer(c).files
           s == link[c]
           merged == MergeFileList(ix, c, s, listed)
<1>1. "FILE_LIST" \in Kinds \ {"SFVLOG", "STATS", "DELETE"} /\ "FILE_LIST" \notin BeforeLink
  BY DEF Kinds, HandshakeKinds, BeforeLink
<1>2. Answers(c, "FILE_LIST") /\ TypeOK /\ Matched(c) /\ ix \in Index /\ IndexConsistent(ix)
  BY DEF FileListAnswered, Answers, Inv, TypeOK, IndexOK
<1>3. /\ stage[c] = "connecting" /\ s # NoSlave
      /\ Len(queries[c]) = 0 /\ ToSet(queries[c]) = {} /\ Len(response[c]) = 1
  BY <1>1, <1>2, HandshakeAnswered
<1>4. s \in Slaves /\ listed \in SUBSET Files
  BY <1>2, <1>3, SlotFacts DEF TypeOK, Reply
<1>5. /\ merged \in Index
      /\ IndexConsistent(merged)
      /\ merged.avail = [ix.avail EXCEPT ![c] = @ \cup listed]
      /\ merged.offline = [ix.offline EXCEPT ![s] = {}]
  BY <1>2, <1>4, MergeFileListConsistent
<1>6. ix.avail \in [Cnx -> SUBSET Files] /\ ix.offline \in [Slaves -> SUBSET Files]
  BY <1>2, ConsistentFields
<1>7. /\ \A d \in Cnx : d # c => merged.avail[d] = ix.avail[d]
      /\ merged.offline[s] = {}
      /\ \A t \in Slaves : t # s => merged.offline[t] = ix.offline[t]
  BY <1>4, <1>5, <1>6
<1> HIDE DEF listed, merged
<1>8. CASE Disconnect(c, ix)
  BY <1>8, DisconnectNow
<1>9. CASE Disconnect(c, merged)
  BY <1>3, <1>5, <1>7, <1>9, DisconnectInv
<1>10. CASE /\ ix' = merged
            /\ stage' = [stage EXCEPT ![c] = "connected"]
            /\ \E missing \in SUBSET (listed \cap SfvFiles) :
                  \/ missing = {} /\ ready' = [ready EXCEPT ![c] = TRUE] /\ UNCHANGED queries
                  \/ missing # {} /\ Ask(c, "SFVLOG", missing) /\ UNCHANGED ready
            /\ Settle(c)
            /\ UNCHANGED <<running, known, durable, link, slaveCnx, remote>>
  <2>1. /\ queries' \in [Cnx -> Seq(Query)]
        /\ \A d \in Cnx : d # c => queries'[d] = queries[d]
        /\ \A q \in ToSet(queries'[c]) : q.kind = "SFVLOG"
    <3>1. CASE UNCHANGED queries
      BY <1>2, <1>3, <3>1 DEF TypeOK
    <3>2. ASSUME NEW missing \in SUBSET (listed \cap SfvFiles), Ask(c, "SFVLOG", missing)
          PROVE  /\ queries' \in [Cnx -> Seq(Query)]
                 /\ \A d \in Cnx : d # c => queries'[d] = queries[d]
                 /\ \A q \in ToSet(queries'[c]) : q.kind = "SFVLOG"
      <4>1. "SFVLOG" \in Kinds /\ missing \in SUBSET Files
        BY <1>4 DEF Kinds, HandshakeKinds, listed
      <4>2. /\ queries' \in [Cnx -> Seq(Query)]
            /\ \A d \in Cnx : d # c => queries'[d] = queries[d]
            /\ \A q \in ToSet(queries'[c]) : q \in ToSet(queries[c]) \/ q.kind = "SFVLOG"
        BY <1>2, <3>2, <4>1, AskFacts
      <4> QED
        BY <1>3, <4>2
    <3> QED
      BY <1>10, <3>1, <3>2
  <2>2. /\ toMaster' \in [Cnx -> Seq(Reply)]
        /\ response' \in [Cnx -> Seq(Query)]
        /\ \A d \in Cnx : d # c => response'[d] = response[d]
        /\ Len(response'[c]) <= Len(response[c]) - 1
    BY <1>2, <1>10, SettleFacts
  <2>3. ToSet(response'[c]) = {}
    <3>1. response'[c] \in Seq(Query) /\ Len(response'[c]) \in Nat
      BY <2>2, LenProperties
    <3>2. Len(response'[c]) = 0
      BY <1>3, <2>2, <3>1
    <3> QED
      BY <3>1, <3>2, EmptySeq, NoQueries
  <2>4. TypeOK'
    <3>1. ready' \in [Cnx -> BOOLEAN] /\ stage' \in [Cnx -> {"closed", "connecting", "connected"}]
      BY <1>2, <1>10 DEF TypeOK
    <3> QED
      BY <1>2, <1>5, <1>10, <2>1, <2>2, <3>1 DEF TypeOK, durable, remote, storage
  <2>5. LinkOK'
    BY <1>3, <1>10 DEF Inv, LinkOK, TypeOK, Open
  <2>6. IndexOK'
    <3>1. ASSUME NEW t \in Slaves, t \notin known PROVE merged.offline[t] = {}
      BY <1>7, <3>1 DEF Inv, IndexOK
    <3> QED
      BY <1>5, <1>10, <3>1 DEF IndexOK
  <2>7. OnlineXorOffline'
    <3>1. ASSUME NEW d \in Cnx, stage'[d] # "connected" PROVE ix'.avail[d] = {}
      BY <1>2, <1>7, <1>10, <3>1 DEF Inv, OnlineXorOffline, TypeOK
    <3>2. ASSUME NEW d \in Cnx, NEW t \in Slaves, stage'[d] = "connected", link'[d] = t
          PROVE  ix'.offline[t] = {}
      <4>1. CASE t = s
        BY <1>7, <1>10, <4>1
      <4>2. CASE t # s
        <5>1. d # c /\ link[d] = t /\ stage[d] = "connected"
          BY <1>2, <1>10, <3>2, <4>2 DEF TypeOK
        <5> QED
          BY <1>7, <1>10, <4>2, <5>1 DEF Inv, OnlineXorOffline
      <4> QED
        BY <4>1, <4>2
    <3> QED
      BY <3>1, <3>2 DEF OnlineXorOffline
  <2>8. OneAtATime'
    <3>1. /\ stage'[c] = "connected"
          /\ \A d \in Cnx : d # c => /\ stage'[d] = stage[d] /\ link'[d] = link[d]
                                     /\ queries'[d] = queries[d] /\ response'[d] = response[d]
      BY <1>2, <1>10, <2>1, <2>2 DEF TypeOK
    <3>2. \A q \in Outstanding(c)' : q.kind \in {"SFVLOG", "STATS", "DELETE"}
      BY <2>1, <2>3 DEF Outstanding
    <3>3. \A d \in Cnx : d # c => Outstanding(d)' = Outstanding(d)
      BY <3>1 DEF Outstanding
    <3> QED
      BY <3>1, <3>2, <3>3, ZenonT(40) DEF Inv, OneAtATime, BeforeLink
  <2> QED
    BY <2>4, <2>5, <2>6, <2>7, <2>8 DEF Inv
<1> QED
  BY <1>8, <1>9, <1>10 DEF FileListAnswered, merged, listed

LEMMA ConnectedAnsweredInv ==
    ASSUME NamesAssumption, Inv, NEW c \in Cnx,
           SfvlogAnswered(c) \/ StatsAnswered(c) \/ DeleteAnswered(c)
    PROVE  Inv'
<1>1. CASE Disconnect(c, ix)
  BY <1>1, DisconnectNow
<1>2. CASE /\ Settle(c) /\ ready' \in [Cnx -> BOOLEAN]
           /\ UNCHANGED <<running, known, durable, ix, stage, link, slaveCnx, queries, remote>>
  <2>1. Matched(c)
    BY DEF SfvlogAnswered, StatsAnswered, DeleteAnswered, Answers
  <2> QED
    BY <1>2, <2>1, SettledInv
<1>3. ready \in [Cnx -> BOOLEAN]
  BY DEF Inv, TypeOK
<1> QED
  BY <1>1, <1>2, <1>3 DEF SfvlogAnswered, StatsAnswered, DeleteAnswered

--------------------------------------------------------------------------------
(* The calls from outside.                                                 *)

(* Queries asked of connected slaves.                                      *)
LEMMA ConnectedAsked ==
    ASSUME OneAtATime, UNCHANGED <<stage, link, response>>,
           \A d \in Cnx : queries'[d] = queries[d] \/
               (/\ stage[d] = "connected"
                /\ \A q \in ToSet(queries'[d]) :
                       q \in ToSet(queries[d]) \/ q.kind \in {"STATS", "DELETE"})
    PROVE  OneAtATime'
<1> SUFFICES ASSUME NEW d \in Cnx
             PROVE  /\ stage'[d] = "closed" => queries'[d] = <<>> /\ response'[d] = <<>>
                    /\ stage'[d] = "connecting" =>
                          /\ Len(queries'[d]) + Len(response'[d]) <= 1
                          /\ \A q \in Outstanding(d)' : q.kind \in BeforeLink <=> link'[d] = NoSlave
                    /\ stage'[d] = "connected" =>
                          \A q \in Outstanding(d)' : q.kind \in {"SFVLOG", "STATS", "DELETE"}
  BY DEF OneAtATime, BeforeLink
<1>1. CASE queries'[d] = queries[d]
  <2>1. Outstanding(d)' = Outstanding(d)
    BY <1>1 DEF Outstanding
  <2> QED
    BY <1>1, <2>1 DEF OneAtATime
<1>2. CASE /\ stage[d] = "connected"
           /\ \A q \in ToSet(queries'[d]) :
                  q \in ToSet(queries[d]) \/ q.kind \in {"STATS", "DELETE"}
  BY <1>2 DEF OneAtATime, Outstanding
<1> QED
  BY <1>1, <1>2

LEMMA ProbeStatsInv ==
    ASSUME Inv, NEW c \in Cnx, ProbeStats(c)
    PROVE  Inv'
<1>1. TypeOK /\ "STATS" \in Kinds /\ Ask(c, "STATS", {}) /\ stage[c] = "connected"
  BY DEF Inv, Kinds, ProbeStats
<1>2. /\ queries' \in [Cnx -> Seq(Query)]
      /\ \A d \in Cnx : d # c => queries'[d] = queries[d]
      /\ \A q \in ToSet(queries'[c]) : q \in ToSet(queries[c]) \/ q.kind = "STATS"
  BY <1>1, AskFacts
<1>3. TypeOK'
  BY <1>1, <1>2 DEF TypeOK, ProbeStats, durable, remote, storage
<1>4. LinkOK' /\ IndexOK' /\ OnlineXorOffline'
  BY SameLinksAndIndex DEF ProbeStats
<1>5. OneAtATime'
  BY <1>1, <1>2, ConnectedAsked DEF Inv, ProbeStats
<1> QED
  BY <1>3, <1>4, <1>5 DEF Inv

(* A wipe asks DELETE of connections a file is online from, all of them    *)
(* connected, and leaves an index in which less is listed.                 *)
LEMMA WipedInv ==
    ASSUME Inv, NEW f \in Files, NEW D \in SUBSET ix.availFrom[f],
           \A c \in D : Spare(c),
           AskDelete(D, f),
           ix' \in Index, IndexConsistent(ix'),
           \A d \in Cnx : ix'.avail[d] \subseteq ix.avail[d],
           \A s \in Slaves : ix'.offline[s] \subseteq ix.offline[s],
           deletelog' \in [Slaves -> Deletelog(Files)],
           UNCHANGED <<running, known, configs, fileslog, stage, link, slaveCnx, ready, response,
                       toMaster, remote>>
    PROVE  Inv'
<1>1. /\ TypeOK /\ ix \in Index /\ IndexConsistent(ix)
      /\ queries \in [Cnx -> Seq(Query)]
  BY DEF Inv, TypeOK, IndexOK
<1>2. \A c \in D : c \in Cnx /\ stage[c] = "connected"
  BY <1>1, ConsistentFields DEF Inv, OnlineXorOffline
<1>3. ASSUME NEW d \in Cnx
      PROVE  /\ queries'[d] \in Seq(Query)
             /\ queries'[d] = queries[d] \/
                   (/\ stage[d] = "connected"
                    /\ \A q \in ToSet(queries'[d]) :
                           q \in ToSet(queries[d]) \/ q.kind \in {"STATS", "DELETE"})
  <2>1. CASE d \in D
    <3> DEFINE u == NewUid(d)
               new == AsynchNew(queries[d], u, "DELETE", {f})
    <3>1. u \in Uids
      BY <2>1 DEF Spare, NewUid, Free
    <3>2. queries'[d] = new
      BY <2>1 DEF AskDelete
    <3>3. queries[d] \in Seq(Query) /\ "DELETE" \in Kinds /\ {f} \in SUBSET Files
      BY <1>1 DEF Kinds
    <3> HIDE DEF u
    <3>4. /\ new \in Seq(Query)
          /\ ToSet(new) = ToSet(queries[d]) \cup {[uid |-> u, kind |-> "DELETE", files |-> {f}]}
      BY <3>1, <3>3, AsynchNewFacts
    <3> HIDE DEF new
    <3> QED
      BY <1>2, <2>1, <3>2, <3>4
  <2>2. CASE d \notin D
    BY <1>1, <2>2 DEF AskDelete
  <2> QED
    BY <2>1, <2>2
<1>4. queries' \in [Cnx -> Seq(Query)]
  BY <1>3 DEF AskDelete
<1>5. TypeOK'
  BY <1>1, <1>4 DEF TypeOK, remote, storage
<1>6. LinkOK'
  BY DEF Inv, LinkOK, Open
<1>7. IndexOK'
  BY DEF Inv, IndexOK
<1>8. OnlineXorOffline'
  BY DEF Inv, OnlineXorOffline
<1>9. OneAtATime'
  BY <1>3, ConnectedAsked DEF Inv
<1> QED
  BY <1>5, <1>6, <1>7, <1>8, <1>9 DEF Inv

(* What a wipe leaves of the index: the file is nowhere, or it is gone      *)
(* from the slave that was away, and from the index if from nowhere else.  *)
LEMMA WipeIndex ==
    ASSUME Inv, NEW f \in Files, Wipe(f)
    PROVE  /\ ix' \in Index /\ IndexConsistent(ix')
           /\ ix'.vfs = ix.vfs \ {f}
           /\ \A d \in Cnx : ix'.avail[d] = ix.avail[d] \ {f}
           /\ \A s \in Slaves : ix'.offline[s] = ix.offline[s] \ {f}
<1>1. ix \in Index /\ IndexConsistent(ix) /\ {f} \in SUBSET Files
  BY DEF Inv, TypeOK, IndexOK
<1>2. ix' = DeleteElements(ix, {f})
  BY DEF Wipe
<1>3. /\ ix' \in Index /\ IndexConsistent(ix')
      /\ ix'.avail = [c \in Cnx |-> ix.avail[c] \ {f}]
      /\ ix'.offline = [s \in Slaves |-> ix.offline[s] \ {f}]
  BY <1>1, <1>2, DeleteElementsConsistent
<1>4. ix'.vfs = ix.vfs \ {f}
  BY <1>2 DEF DeleteElements
<1> QED
  BY <1>3, <1>4

LEMMA WipeInv ==
    ASSUME Inv, NEW f \in Files, Wipe(f)
    PROVE  Inv'
<1>1. /\ ix' \in Index /\ IndexConsistent(ix')
      /\ \A d \in Cnx : ix'.avail[d] \subseteq ix.avail[d]
      /\ \A s \in Slaves : ix'.offline[s] \subseteq ix.offline[s]
  BY WipeIndex
<1>2. deletelog' \in [Slaves -> Deletelog(Files)]
  BY DeletelogTyped DEF Wipe, Inv, TypeOK
<1> QED
  BY <1>1, <1>2, WipedInv DEF Wipe

LEMMA WipeFromIndex ==
    ASSUME Inv, NEW f \in Files, NEW s \in Slaves, WipeFrom(f, s)
    PROVE  /\ ix' \in Index /\ IndexConsistent(ix')
           /\ ix'.vfs \subseteq ix.vfs
           /\ f \in ix'.vfs => ~Nowhere(ix', f)
           /\ ix'.avail = ix.avail
           /\ \A t \in Slaves : t # s => ix'.offline[t] = ix.offline[t]
           /\ ix'.offline[s] = ix.offline[s] \ {f}
<1>1. /\ ix \in Index /\ IndexConsistent(ix) /\ {f} \in SUBSET Files
      /\ ix.offline \in [Slaves -> SUBSET Files]
      /\ s \notin ix.offlineFrom[f] <=> f \notin ix.offline[s]
  BY ConsistentFields DEF Inv, TypeOK, IndexOK
<1>2. PICK jx \in Index :
         /\ IndexConsistent(jx)
         /\ jx.vfs = ix.vfs
         /\ jx.avail = ix.avail
         /\ jx.offline = [ix.offline EXCEPT ![s] = @ \ {f}]
         /\ ix' = DeleteIfNowhere(jx, {f})
  <2>1. CASE ix' = DeleteIfNowhere(OfflineDelete(ix, s, {f}), {f})
    <3>1. /\ OfflineDelete(ix, s, {f}) \in Index
          /\ IndexConsistent(OfflineDelete(ix, s, {f}))
          /\ OfflineDelete(ix, s, {f}).avail = ix.avail
          /\ OfflineDelete(ix, s, {f}).offline = [ix.offline EXCEPT ![s] = @ \ {f}]
      BY <1>1, OfflineDeleteConsistent
    <3>2. OfflineDelete(ix, s, {f}).vfs = ix.vfs
      BY <1>1 DEF OfflineDelete, Index
    <3> QED
      BY <2>1, <3>1, <3>2
  <2>2. CASE s \notin ix.offlineFrom[f] /\ ix' = DeleteIfNowhere(ix, {f})
    <3>1. ix.offline = [ix.offline EXCEPT ![s] = @ \ {f}]
      BY <1>1, <2>2
    <3> QED
      BY <1>1, <2>2, <3>1
  <2> QED
    BY <2>1, <2>2 DEF WipeFrom
<1>3. /\ ix' \in Index /\ IndexConsistent(ix')
      /\ ix'.avail = jx.avail
      /\ ix'.offline = jx.offline
  BY <1>1, <1>2, DeleteIfNowhereConsistent
<1>4. ix'.vfs = jx.vfs \ {g \in {f} : Nowhere(jx, g)}
  BY <1>2 DEF DeleteIfNowhere, DeleteElements
<1>5. f \in ix'.vfs => ~Nowhere(ix', f)
  <2>1. SUFFICES ASSUME f \in ix'.vfs PROVE ~Nowhere(ix', f)
    OBVIOUS
  <2>2. ~Nowhere(jx, f)
    BY <1>4, <2>1
  <2>3. /\ \A c \in Cnx : f \in jx.avail[c] <=> c \in jx.availFrom[f]
        /\ \A t \in Slaves : f \in jx.offline[t] <=> t \in jx.offlineFrom[f]
        /\ jx.availFrom[f] \subseteq Cnx /\ jx.offlineFrom[f] \subseteq Slaves
    BY <1>2, ConsistentFields
  <2>4. /\ \A c \in Cnx : f \in ix'.avail[c] <=> c \in ix'.availFrom[f]
        /\ \A t \in Slaves : f \in ix'.offline[t] <=> t \in ix'.offlineFrom[f]
    BY <1>3, ConsistentFields
  <2> QED
    BY <1>3, <2>2, <2>3, <2>4 DEF Nowhere
<1>6. /\ ix'.offline[s] = ix.offline[s] \ {f}
      /\ \A t \in Slaves : t # s => ix'.offline[t] = ix.offline[t]
  BY <1>1, <1>2, <1>3
<1> QED
  BY <1>2, <1>3, <1>4, <1>5, <1>6

LEMMA WipeFromInv ==
    ASSUME Inv, NEW f \in Files, NEW s \in Slaves, WipeFrom(f, s)
    PROVE  Inv'
<1> DEFINE D == {c \in ix.availFrom[f] : link[c] = s}
<1>1. /\ ix' \in Index /\ IndexConsistent(ix')
      /\ \A d \in Cnx : ix'.avail[d] \subseteq ix.avail[d]
      /\ \A t \in Slaves : ix'.offline[t] \subseteq ix.offline[t]
  BY WipeFromIndex
<1>2. deletelog' \in [Slaves -> Deletelog(Files)]
  <2>1. deletelog \in [Slaves -> Deletelog(Files)]
    BY DEF Inv, TypeOK
  <2> QED
    BY <2>1, DeletelogTyped DEF WipeFrom
<1>3. /\ AskDelete(D, f) /\ (\A c \in D : Spare(c))
      /\ UNCHANGED <<running, known, configs, fileslog, stage, link, slaveCnx, ready, response,
                     toMaster, remote>>
  BY DEF WipeFrom
<1>4. D \in SUBSET ix.availFrom[f]
  OBVIOUS
<1> HIDE DEF D
<1> QED
  BY <1>1, <1>2, <1>3, <1>4, WipedInv

(* What is written to a fileslog are files.                                *)
LEMMA ListedTyped ==
    ASSUME Inv, NEW s \in Slaves
    PROVE  Listed(s) \in SUBSET Files
<1>1. ix.avail \in [Cnx -> SUBSET Files] /\ ix.offline \in [Slaves -> SUBSET Files]
  BY ConsistentFields DEF Inv, TypeOK, IndexOK
<1>2. slaveCnx[s] \in Cnx \cup {NoCnx}
  BY DEF Inv, TypeOK
<1> QED
  BY <1>1, <1>2 DEF Listed

LEMMA DumpFileslogInv ==
    ASSUME Inv, NEW s \in Slaves, DumpFileslog(s)
    PROVE  Inv'
<1>1. Listed(s) \in SUBSET Files
  BY ListedTyped
<1>2. TypeOK'
  BY <1>1 DEF Inv, TypeOK, DumpFileslog, session, remote, storage
<1>3. LinkOK' /\ IndexOK' /\ OnlineXorOffline'
  BY SameLinksAndIndex DEF DumpFileslog, session
<1>4. OneAtATime'
  BY DEF Inv, OneAtATime, Outstanding, DumpFileslog, session
<1> QED
  BY <1>2, <1>3, <1>4 DEF Inv

LEMMA SlaveNewInv ==
    ASSUME Inv, NEW s \in Slaves, SlaveNew(s)
    PROVE  Inv'
<1>1. TypeOK'
  BY DEF Inv, TypeOK, SlaveNew, session, remote, storage
<1>2. LinkOK'
  BY DEF Inv, LinkOK, Open, SlaveNew, session
<1>3. IndexOK' /\ OnlineXorOffline'
  BY DEF Inv, IndexOK, OnlineXorOffline, SlaveNew, session
<1>4. OneAtATime'
  BY DEF Inv, OneAtATime, Outstanding, SlaveNew, session
<1> QED
  BY <1>1, <1>2, <1>3, <1>4 DEF Inv

LEMMA SlaveDeleteInv ==
    ASSUME NamesAssumption, Inv, NEW s \in Slaves, SlaveDelete(s)
    PROVE  Inv'
<1>1. /\ TypeOK /\ ix \in Index /\ IndexConsistent(ix)
      /\ ix.avail \in [Cnx -> SUBSET Files] /\ ix.offline \in [Slaves -> SUBSET Files]
  BY ConsistentFields DEF Inv, TypeOK, IndexOK
<1>2. /\ known' = known \ {s}
      /\ fileslog' = [fileslog EXCEPT ![s] = {}]
      /\ deletelog' = [deletelog EXCEPT ![s] = EmptyLog]
      /\ UNCHANGED <<running, remote>>
  BY DEF SlaveDelete
<1>3. CASE /\ slaveCnx[s] = NoCnx
           /\ configs' = configs \ {s}
           /\ ix' = ForgetSlave(ix, s)
           /\ UNCHANGED <<session, toMaster>>
  <2>1. /\ ix' \in Index /\ IndexConsistent(ix')
        /\ ix'.avail = ix.avail
        /\ ix'.offline = [ix.offline EXCEPT ![s] = {}]
    BY <1>1, <1>3, ForgetSlaveConsistent
  <2>2. ix'.offline[s] = {} /\ \A t \in Slaves : t # s => ix'.offline[t] = ix.offline[t]
    BY <1>1, <2>1
  <2>3. TypeOK'
    BY <1>1, <1>2, <1>3, <2>1, DeletelogTyped DEF TypeOK, session, remote, storage
  <2>4. LinkOK'
    BY <1>2, <1>3 DEF Inv, LinkOK, Open, session
  <2>5. IndexOK'
    BY <1>2, <2>1, <2>2 DEF Inv, IndexOK
  <2>6. OnlineXorOffline'
    BY <1>3, <2>1, <2>2 DEF Inv, OnlineXorOffline, session
  <2>7. OneAtATime'
    BY <1>3 DEF Inv, OneAtATime, Outstanding, session
  <2> QED
    BY <2>3, <2>4, <2>5, <2>6, <2>7 DEF Inv
<1>4. ASSUME NEW c \in Cnx,
             slaveCnx[s] = c,
             configs' = (configs \ {s}) \cup {s},
             ix' = ForgetSlave(ForgetConnection(ix, c), s),
             stage' = [stage EXCEPT ![c] = "closed"],
             ready' = [ready EXCEPT ![c] = FALSE],
             link' = [link EXCEPT ![c] = NoSlave],
             slaveCnx' = [slaveCnx EXCEPT ![s] = NoCnx],
             queries' = [queries EXCEPT ![c] = <<>>],
             response' = [response EXCEPT ![c] = <<>>],
             toMaster' = [toMaster EXCEPT ![c] = <<>>]
      PROVE  Inv'
  <2> DEFINE jx == ForgetConnection(ix, c)
  <2>1. /\ jx \in Index /\ IndexConsistent(jx)
        /\ jx.avail = [ix.avail EXCEPT ![c] = {}]
        /\ jx.offline = ix.offline
    BY <1>1, ForgetConnectionConsistent
  <2> HIDE DEF jx
  <2>2. /\ ix' \in Index /\ IndexConsistent(ix')
        /\ ix'.avail = jx.avail
        /\ ix'.offline = [jx.offline EXCEPT ![s] = {}]
    BY <1>4, <2>1, ForgetSlaveConsistent DEF jx
  <2>3. /\ ix'.offline[s] = {} /\ \A t \in Slaves : t # s => ix'.offline[t] = ix.offline[t]
        /\ ix'.avail[c] = {} /\ \A d \in Cnx : d # c => ix'.avail[d] = ix.avail[d]
    BY <1>1, <2>1, <2>2
  <2>4. TypeOK'
    <3>1. <<>> \in Seq(Query) /\ <<>> \in Seq(Reply)
      OBVIOUS
    <3> QED
      BY <1>1, <1>2, <1>4, <2>2, <3>1, DeletelogTyped DEF TypeOK, remote, storage
  <2>5. link[c] = s
    BY <1>4 DEF Inv, LinkOK
  <2>6. LinkOK'
    BY NamesAssumption, <1>1, <1>2, <1>4, <2>5 DEF Inv, LinkOK, TypeOK, Open
  <2>7. IndexOK'
    BY <1>2, <2>2, <2>3 DEF Inv, IndexOK
  <2>8. OnlineXorOffline'
    BY <1>1, <1>4, <2>3 DEF Inv, OnlineXorOffline, TypeOK
  <2>9. OneAtATime'
    <3>1. /\ stage'[c] = "closed" /\ queries'[c] = <<>> /\ response'[c] = <<>>
          /\ \A d \in Cnx : d # c => /\ stage'[d] = stage[d] /\ link'[d] = link[d]
                                     /\ queries'[d] = queries[d] /\ response'[d] = response[d]
      BY <1>1, <1>4 DEF TypeOK
    <3> QED
      BY <3>1 DEF Inv, OneAtATime, Outstanding
  <2> QED
    BY <2>4, <2>6, <2>7, <2>8, <2>9 DEF Inv
<1> QED
  BY <1>3, <1>4 DEF SlaveDelete

LEMMA MasterCrashInv ==
    ASSUME NamesAssumption, Inv, MasterCrash
    PROVE  Inv'
<1>1. /\ ix' \in Index /\ IndexConsistent(ix')
      /\ ix'.avail = [c \in Cnx |-> {}] /\ ix'.offline = [s \in Slaves |-> {}]
  BY NoFilesConsistent DEF MasterCrash, NoFiles
<1>2. fileslog' \in [Slaves -> SUBSET Files]
  <2>1. \A s \in Slaves : Listed(s) \in SUBSET Files
    BY ListedTyped
  <2>2. fileslog \in [Slaves -> SUBSET Files] /\ known \subseteq Slaves
    BY DEF Inv, TypeOK
  <2> QED
    BY <2>1, <2>2 DEF MasterCrash
<1>3. TypeOK'
  <2>1. <<>> \in Seq(Query) /\ <<>> \in Seq(Reply)
    OBVIOUS
  <2> QED
    BY <1>1, <1>2, <2>1 DEF Inv, TypeOK, MasterCrash, remote, storage
<1>4. LinkOK'
  BY NamesAssumption DEF LinkOK, Open, MasterCrash
<1>5. IndexOK' /\ OnlineXorOffline'
  BY <1>1 DEF IndexOK, OnlineXorOffline, MasterCrash
<1>6. OneAtATime'
  BY DEF OneAtATime, MasterCrash
<1> QED
  BY <1>3, <1>4, <1>5, <1>6 DEF Inv

(* A master that does not run has no connection left to speak of: nothing  *)
(* is online from any, so that the index loaded from the disk is right.    *)
LEMMA MasterStartInv ==
    ASSUME Inv, MasterStart, \A c \in Cnx : stage[c] = "closed", known = {}
    PROVE  Inv'
<1>1. configs \in SUBSET Slaves /\ Kept \in [Slaves -> SUBSET Files]
  BY DEF Inv, TypeOK, Kept
<1>2. ix' = LoadOffline(configs, Kept) /\ known' = configs
  BY DEF MasterStart
<1>3. fileslog' \in [Slaves -> SUBSET Files]
  BY <1>1 DEF MasterStart, Inv, TypeOK
<1>4. /\ ix' \in Index /\ IndexConsistent(ix')
      /\ ix'.avail = [c \in Cnx |-> {}]
      /\ \A s \in Slaves : s \notin configs => ix'.offline[s] = {}
  BY <1>1, <1>2, LoadOfflineConsistent
<1>5. TypeOK'
  BY <1>1, <1>2, <1>3, <1>4 DEF Inv, TypeOK, MasterStart, session, remote, storage
<1>6. LinkOK'
  BY <1>2 DEF Inv, LinkOK, Open, MasterStart, session
<1>7. IndexOK'
  BY <1>2, <1>4 DEF IndexOK
<1>8. OnlineXorOffline'
  BY <1>4 DEF OnlineXorOffline, MasterStart, session
<1>9. OneAtATime'
  BY DEF Inv, OneAtATime, Outstanding, MasterStart, session
<1> QED
  BY <1>5, <1>6, <1>7, <1>8, <1>9 DEF Inv

--------------------------------------------------------------------------------
(* The slaves: what they do is out of the master's sight.                  *)
LEMMA OutOfSight ==
    ASSUME Inv, UNCHANGED <<running, known, durable, ix, session>>,
           toMaster' \in [Cnx -> Seq(Reply)],
           toSlave' \in [Cnx -> Seq(Query)],
           peer' \in [Cnx -> Slaves \cup {NoSlave}],
           outbox' \in [Cnx -> Seq(Reply)],
           mapped' \in [Slaves -> SUBSET Files],
           disk' \in [Slaves -> SUBSET Files]
    PROVE  Inv'
<1>1. TypeOK'
  BY DEF Inv, TypeOK, durable, session
<1>2. LinkOK' /\ IndexOK' /\ OnlineXorOffline'
  BY SameLinksAndIndex DEF session
<1>3. OneAtATime'
  BY DEF Inv, OneAtATime, Outstanding, session
<1> QED
  BY <1>1, <1>2, <1>3 DEF Inv

(* An answer is made of the query at hand.                                 *)
LEMMA EnqueuePacketTyped ==
    ASSUME TypeOK, NEW c \in Cnx, CanProcess(c),
           \E type \in Kinds \cup {"DELETED", "FAILURE"}, F \in SUBSET Files :
               EnqueuePacket(c, type, F)
    PROVE  toSlave' \in [Cnx -> Seq(Query)] /\ outbox' \in [Cnx -> Seq(Reply)]
<1>1. /\ toSlave \in [Cnx -> Seq(Query)] /\ outbox \in [Cnx -> Seq(Reply)]
      /\ toSlave[c] \in Seq(Query) /\ outbox[c] \in Seq(Reply) /\ toSlave[c] # <<>>
      /\ peer[c] \in Slaves
  BY DEF TypeOK, CanProcess
<1> PICK type \in Kinds \cup {"DELETED", "FAILURE"}, F \in SUBSET Files :
             EnqueuePacket(c, type, F)
  OBVIOUS
<1>2. Asked(c) \in Query /\ Tail(toSlave[c]) \in Seq(Query)
  BY <1>1, TakeFirst DEF Asked
<1> DEFINE p == [uid |-> Asked(c).uid, type |-> type, files |-> F, from |-> peer[c]]
<1>3. p \in Reply
  BY <1>1, <1>2 DEF Query, Reply
<1>4. outbox' = [outbox EXCEPT ![c] = <<p>> \o @] /\ toSlave' = [toSlave EXCEPT ![c] = Tail(@)]
  BY DEF EnqueuePacket
<1> HIDE DEF p
<1>5. <<p>> \o outbox[c] \in Seq(Reply)
  BY <1>1, <1>3, AddFirst
<1> QED
  BY <1>1, <1>2, <1>4, <1>5

LEMMA SlaveInv ==
    ASSUME Inv, NEW c \in Cnx, Slave(c)
    PROVE  Inv'
<1>1. /\ TypeOK
      /\ mapped \in [Slaves -> SUBSET Files] /\ disk \in [Slaves -> SUBSET Files]
      /\ peer \in [Cnx -> Slaves \cup {NoSlave}] /\ toMaster \in [Cnx -> Seq(Reply)]
      /\ toSlave \in [Cnx -> Seq(Query)] /\ outbox \in [Cnx -> Seq(Reply)]
  BY DEF Inv, TypeOK
<1>2. "DELETED" \in Kinds \cup {"DELETED", "FAILURE"} /\ "FAILURE" \in Kinds \cup {"DELETED", "FAILURE"}
  OBVIOUS
<1>3. CanProcess(c) => peer[c] \in Slaves /\ Asked(c) \in Query
  <2>1. toSlave[c] \in Seq(Query)
    BY <1>1
  <2> QED
    BY <1>1, <2>1, TakeFirst DEF CanProcess, Asked
<1>4. ASSUME NEW s \in Slaves, NEW F, FileUnmap(s, F)
      PROVE  mapped' \in [Slaves -> SUBSET Files] /\ disk' \in [Slaves -> SUBSET Files]
  BY <1>1, <1>4 DEF FileUnmap
<1>5. CASE HandleInputs(c)
  <2>1. mapped[peer[c]] \in SUBSET Files /\ Asked(c).kind \in Kinds \cup {"DELETED", "FAILURE"}
    BY <1>1, <1>3, <1>5 DEF HandleInputs, Query
  <2>2. toSlave' \in [Cnx -> Seq(Query)] /\ outbox' \in [Cnx -> Seq(Reply)]
    <3>1. \E type \in Kinds \cup {"DELETED", "FAILURE"}, F \in SUBSET Files :
             EnqueuePacket(c, type, F)
      BY <2>1, <1>2, <1>5 DEF HandleInputs, FileList
    <3>2. CanProcess(c)
      BY <1>5 DEF HandleInputs
    <3> QED
      BY <1>1, <3>1, <3>2, EnqueuePacketTyped
  <2> QED
    BY <1>1, <1>5, <2>2, OutOfSight DEF HandleInputs, storage
<1>6. CASE ReplyFailure(c)
  <2>1. toSlave' \in [Cnx -> Seq(Query)] /\ outbox' \in [Cnx -> Seq(Reply)]
    <3>1. \E type \in Kinds \cup {"DELETED", "FAILURE"}, F \in SUBSET Files :
             EnqueuePacket(c, type, F)
      BY <1>2, <1>6 DEF ReplyFailure
    <3>2. CanProcess(c)
      BY <1>6 DEF ReplyFailure
    <3> QED
      BY <1>1, <3>1, <3>2, EnqueuePacketTyped
  <2> QED
    BY <1>1, <1>6, <2>1, OutOfSight DEF ReplyFailure, storage
<1>7. CASE ProcessSlaveDelete(c)
  <2>1. toSlave' \in [Cnx -> Seq(Query)] /\ outbox' \in [Cnx -> Seq(Reply)]
    <3>1. \E type \in Kinds \cup {"DELETED", "FAILURE"}, F \in SUBSET Files :
             EnqueuePacket(c, type, F)
      BY <1>2, <1>7 DEF ProcessSlaveDelete
    <3>2. CanProcess(c)
      BY <1>7 DEF ProcessSlaveDelete
    <3> QED
      BY <1>1, <3>1, <3>2, EnqueuePacketTyped
  <2>2. mapped' \in [Slaves -> SUBSET Files] /\ disk' \in [Slaves -> SUBSET Files]
    BY <1>1, <1>3, <1>4, <1>7 DEF ProcessSlaveDelete, storage
  <2> QED
    BY <1>1, <1>7, <2>1, <2>2, OutOfSight DEF ProcessSlaveDelete
<1>8. CASE ProcessSlaveDeletelog(c)
  <2>1. toSlave' \in [Cnx -> Seq(Query)] /\ outbox' \in [Cnx -> Seq(Reply)]
    <3>1. \E type \in Kinds \cup {"DELETED", "FAILURE"}, F \in SUBSET Files :
             EnqueuePacket(c, type, F)
      BY <1>2, <1>8 DEF ProcessSlaveDeletelog
    <3>2. CanProcess(c)
      BY <1>8 DEF ProcessSlaveDeletelog
    <3> QED
      BY <1>1, <3>1, <3>2, EnqueuePacketTyped
  <2>2. mapped' \in [Slaves -> SUBSET Files] /\ disk' \in [Slaves -> SUBSET Files]
    BY <1>3, <1>4, <1>8 DEF ProcessSlaveDeletelog
  <2> QED
    BY <1>1, <1>8, <2>1, <2>2, OutOfSight DEF ProcessSlaveDeletelog
<1>9. CASE HandleOutputs(c)
  <2>1. outbox[c] \in Seq(Reply) /\ outbox[c] # <<>> /\ toMaster[c] \in Seq(Reply)
    BY <1>1, <1>9 DEF HandleOutputs
  <2>2. Head(outbox[c]) \in Reply /\ Tail(outbox[c]) \in Seq(Reply)
    BY <2>1, TakeFirst
  <2>3. Append(toMaster[c], Head(outbox[c])) \in Seq(Reply)
    BY <2>1, <2>2, AppendProperties
  <2>4. toMaster' \in [Cnx -> Seq(Reply)] /\ outbox' \in [Cnx -> Seq(Reply)]
    BY <1>1, <1>9, <2>2, <2>3 DEF HandleOutputs
  <2> QED
    BY <1>1, <1>9, <2>4, OutOfSight DEF HandleOutputs, storage
<1>10. CASE SlaveClose(c)
  <2>1. <<>> \in Seq(Query) /\ <<>> \in Seq(Reply)
    OBVIOUS
  <2> QED
    BY <1>1, <1>10, <2>1, OutOfSight DEF SlaveClose, storage
<1> QED
  BY <1>5, <1>6, <1>7, <1>8, <1>9, <1>10 DEF Slave

LEMMA SlaveRestartInv ==
    ASSUME Inv, NEW s \in Slaves, SlaveRestart(s)
    PROVE  Inv'
BY OutOfSight DEF SlaveRestart, Inv, TypeOK

--------------------------------------------------------------------------------
(* A master that does not run knows nobody and holds no connection, so     *)
(* that slaves_load_config starts from nothing.                            *)
StoppedHoldsNothing == ~running => known = {} /\ \A c \in Cnx : stage[c] = "closed"

LEMMA StoppedStep ==
    ASSUME TypeOK, StoppedHoldsNothing, Next
    PROVE  StoppedHoldsNothing'
<1> USE DEF StoppedHoldsNothing
<1>1. ASSUME NEW c \in Cnx, NEW at, Disconnect(c, at) PROVE StoppedHoldsNothing'
  BY <1>1 DEF Disconnect, TypeOK
<1>2. ASSUME UNCHANGED <<running, known, stage>> PROVE StoppedHoldsNothing'
  BY <1>2
<1>3. ASSUME NEW c \in Cnx, Master(c) PROVE StoppedHoldsNothing'
  <2>1. CASE \E s \in Slaves : Accept(c, s)
    BY <2>1 DEF Accept
  <2>2. CASE SlaveConnectionWrite(c) \/ PartialRead(c) \/ UnmatchedReply(c) \/ ProbeStats(c)
    BY <1>2, <2>2 DEF SlaveConnectionWrite, PartialRead, UnmatchedReply, ProbeStats
  <2>3. CASE ConnectionLost(c) \/ SlaveConnectionReadTimeout(c)
    BY <1>1, <2>3 DEF ConnectionLost, SlaveConnectionReadTimeout
  <2>4. CASE PublicKeyAnswered(c) \/ BlowfishKeyAnswered(c) \/ HelloAnswered(c) \/ CertificateAnswered(c)
    BY <1>1, <1>2, <2>4
    DEF PublicKeyAnswered, BlowfishKeyAnswered, KeyAnswered, HelloAnswered, CertificateAnswered
  <2>5. CASE DeletelogAnswered(c) \/ SfvlogAnswered(c) \/ StatsAnswered(c) \/ DeleteAnswered(c)
    BY <1>1, <1>2, <2>5 DEF DeletelogAnswered, SfvlogAnswered, StatsAnswered, DeleteAnswered
  <2>6. CASE FileListAnswered(c)
    <3>1. Open(c)
      BY <2>6 DEF FileListAnswered, Answers, Matched, Arrived
    <3>2. running
      BY <3>1 DEF Open
    <3>3. CASE UNCHANGED running
      BY <3>2, <3>3
    <3> QED
      BY <1>1, <2>6, <3>3 DEF FileListAnswered
  <2> QED
    BY <1>3, <2>1, <2>2, <2>3, <2>4, <2>5, <2>6 DEF Master, SlaveConnectionRead
<1>4. ASSUME NEW c \in Cnx, Slave(c) PROVE StoppedHoldsNothing'
  BY <1>2, <1>4 DEF Slave, HandleInputs, ReplyFailure, ProcessSlaveDelete, ProcessSlaveDeletelog,
                    HandleOutputs, SlaveClose, session
<1>5. CASE Calls
  <2>1. CASE \E f \in Files : Wipe(f) \/ \E s \in Slaves : WipeFrom(f, s)
    BY <1>2, <2>1 DEF Wipe, WipeFrom
  <2>2. CASE \E s \in Slaves : DumpFileslog(s) \/ SlaveNew(s) \/ SlaveDelete(s)
    BY <2>2 DEF DumpFileslog, SlaveNew, SlaveDelete, session
  <2>3. CASE MasterCrash \/ MasterStart
    BY <2>3 DEF MasterCrash, MasterStart
  <2> QED
    BY <1>5, <2>1, <2>2, <2>3 DEF Calls
<1>6. CASE \E s \in Slaves : SlaveRestart(s)
  BY <1>2, <1>6 DEF SlaveRestart, session
<1> QED
  BY <1>3, <1>4, <1>5, <1>6 DEF Next

--------------------------------------------------------------------------------
IInv == Inv /\ StoppedHoldsNothing

LEMMA InitInv == NamesAssumption /\ Init => IInv
<1> SUFFICES ASSUME NamesAssumption, Init PROVE IInv
  OBVIOUS
<1>1. TypeOK
  <2>1. <<>> \in Seq(Query) /\ <<>> \in Seq(Reply)
    OBVIOUS
  <2> QED
    BY <2>1, NoFilesConsistent, DeletelogTyped DEF Init, TypeOK
<1>2. LinkOK
  BY NamesAssumption DEF Init, LinkOK, Open
<1>3. IndexOK /\ OnlineXorOffline
  BY NoFilesConsistent DEF Init, IndexOK, OnlineXorOffline, NoFiles
<1>4. OneAtATime /\ StoppedHoldsNothing
  BY DEF Init, OneAtATime, StoppedHoldsNothing
<1> QED
  BY <1>1, <1>2, <1>3, <1>4 DEF IInv, Inv

LEMMA StepInv == NamesAssumption /\ IInv /\ [Next]_vars => IInv'
<1> SUFFICES ASSUME NamesAssumption, IInv, [Next]_vars PROVE IInv'
  OBVIOUS
<1> USE DEF IInv
<1>1. ASSUME NEW c \in Cnx, Master(c) PROVE Inv'
  <2>1. CASE \E s \in Slaves : Accept(c, s)
    BY <2>1, AcceptInv
  <2>2. CASE SlaveConnectionWrite(c)
    BY <2>2, SlaveConnectionWriteInv
  <2>3. CASE PartialRead(c) \/ UnmatchedReply(c)
    BY <2>3, PartialReadInv
  <2>4. CASE PublicKeyAnswered(c) \/ BlowfishKeyAnswered(c)
    BY <2>4, KeyAnsweredInv DEF PublicKeyAnswered, BlowfishKeyAnswered
  <2>5. CASE HelloAnswered(c)
    BY <2>5, HelloAnsweredInv
  <2>6. CASE CertificateAnswered(c)
    BY <2>6, CertificateAnsweredInv
  <2>7. CASE DeletelogAnswered(c)
    BY <2>7, DeletelogAnsweredInv
  <2>8. CASE FileListAnswered(c)
    BY <2>8, FileListAnsweredInv
  <2>9. CASE SfvlogAnswered(c) \/ StatsAnswered(c) \/ DeleteAnswered(c)
    BY <2>9, ConnectedAnsweredInv
  <2>10. CASE ConnectionLost(c) \/ SlaveConnectionReadTimeout(c)
    BY <2>10, DisconnectNow DEF ConnectionLost, SlaveConnectionReadTimeout
  <2>11. CASE ProbeStats(c)
    BY <2>11, ProbeStatsInv
  <2> QED
    BY <1>1, <2>1, <2>2, <2>3, <2>4, <2>5, <2>6, <2>7, <2>8, <2>9, <2>10, <2>11
    DEF Master, SlaveConnectionRead
<1>2. ASSUME NEW c \in Cnx, Slave(c) PROVE Inv'
  BY <1>2, SlaveInv
<1>3. ASSUME Calls PROVE Inv'
  <2>1. CASE \E f \in Files : Wipe(f) \/ \E s \in Slaves : WipeFrom(f, s)
    BY <2>1, WipeInv, WipeFromInv
  <2>2. CASE \E s \in Slaves : DumpFileslog(s) \/ SlaveNew(s) \/ SlaveDelete(s)
    BY <2>2, DumpFileslogInv, SlaveNewInv, SlaveDeleteInv
  <2>3. CASE MasterCrash
    BY <2>3, MasterCrashInv
  <2>4. CASE MasterStart
    <3>1. \A c \in Cnx : stage[c] = "closed"
      BY <2>4 DEF MasterStart, StoppedHoldsNothing
    <3>2. known = {}
      BY <2>4 DEF MasterStart, StoppedHoldsNothing
    <3> QED
      BY <2>4, <3>1, <3>2, MasterStartInv
  <2> QED
    BY <1>3, <2>1, <2>2, <2>3, <2>4 DEF Calls
<1>4. ASSUME NEW s \in Slaves, SlaveRestart(s) PROVE Inv'
  BY <1>4, SlaveRestartInv
<1>5. CASE UNCHANGED vars
  <2>1. UNCHANGED <<running, known, durable, ix, session>>
    BY <1>5 DEF vars
  <2>2. UNCHANGED <<toMaster, toSlave, peer, outbox, mapped, disk>>
    BY <1>5 DEF vars, remote
  <2>3. Inv'
    BY <2>1, <2>2, OutOfSight DEF Inv, TypeOK
  <2>4. StoppedHoldsNothing'
    BY <2>1 DEF StoppedHoldsNothing, session
  <2> QED
    BY <2>3, <2>4
<1>6. CASE Next
  <2>1. Inv'
    BY <1>1, <1>2, <1>3, <1>4, <1>6 DEF Next
  <2>2. StoppedHoldsNothing'
    BY <1>6, StoppedStep DEF Inv
  <2> QED
    BY <2>1, <2>2
<1> QED
  BY <1>5, <1>6

LEMMA Invariance == Spec => []IInv
<1>1. Init => IInv
  BY NamesAssumption, InitInv
<1>2. IInv /\ [Next]_vars => IInv'
  BY NamesAssumption, StepInv
<1> QED
  BY <1>1, <1>2, PTL DEF Spec

(* Every variable keeps its type: no handler leaves a query, a packet or a *)
(* list of files that is none.                                             *)
THEOREM TypeCorrect == Spec => []TypeOK
BY Invariance, PTL DEF IInv, Inv

(* A connection and its slave point at each other or at nothing, however   *)
(* many connections of the same slave say HELLO, are lost or are destroyed *)
(* by slave_delete (hello_query_callback, slave_connection_obj_destroy).   *)
THEOREM LinksAgree == Spec => []LinkOK
BY Invariance, PTL DEF IInv, Inv

(* The collections of the file index agree pairwise and name existing      *)
(* elements and known slaves only, after any sequence of merges, wipes,    *)
(* disconnections, deletions of slaves and restarts (slave_mark_*_from,    *)
(* file_list_query_callback, vfs_recursive_delete).                        *)
THEOREM IndexAgrees == Spec => []IndexOK
BY Invariance, PTL DEF IInv, Inv

(* Files are online from merged connections only, and from a merged        *)
(* connection nothing is left offline (file_list_query_callback and        *)
(* slave_connection_obj_destroy).                                          *)
THEOREM OnlineAfterMergeOnly == Spec => []OnlineXorOffline
BY Invariance, PTL DEF IInv, Inv

(* The handshake asks one query at a time, though queries are sent newest  *)
(* first and wipes and statistics ask theirs at any moment                 *)
(* (send_asynch_query, slave_delete_file, probe_stats).                    *)
THEOREM HandshakeInOrder == Spec => []InOrder
<1>1. IInv => InOrder
  BY DEF IInv, Inv, InOrder
<1> QED  BY <1>1, Invariance, PTL
--------------------------------------------------------------------------------
(*---------------------------- across a connection -------------------------*)

(* The members of two collections put together.                            *)
LEMMA ConcatMembers ==
    ASSUME NEW S, NEW q \in Seq(S), NEW r \in Seq(S)
    PROVE  ToSet(q \o r) = ToSet(q) \cup ToSet(r)
<1> DEFINE t == q \o r
<1>1. /\ t \in Seq(S) /\ Len(t) = Len(q) + Len(r)
      /\ \A i \in 1 .. Len(q) + Len(r) : t[i] = IF i <= Len(q) THEN q[i] ELSE r[i - Len(q)]
  BY ConcatProperties
<1>2. /\ Len(q) \in Nat /\ DOMAIN q = 1 .. Len(q) /\ Len(r) \in Nat /\ DOMAIN r = 1 .. Len(r)
      /\ DOMAIN t = 1 .. Len(q) + Len(r)
  BY <1>1, LenProperties
<1> HIDE DEF t
<1>3. \A i \in 1 .. Len(q) : i \in 1 .. Len(q) + Len(r) /\ t[i] = q[i]
  BY <1>1, <1>2
<1>4. \A i \in 1 .. Len(r) : Len(q) + i \in 1 .. Len(q) + Len(r) /\ t[Len(q) + i] = r[i]
  <2> TAKE i \in 1 .. Len(r)
  <2>1. Len(q) + i \in 1 .. Len(q) + Len(r) /\ ~(Len(q) + i <= Len(q)) /\ (Len(q) + i) - Len(q) = i
    BY <1>2
  <2> QED
    BY <1>1, <2>1
<1>5. \A i \in 1 .. Len(q) + Len(r) :
         (i \in 1 .. Len(q) /\ t[i] = q[i]) \/ (i - Len(q) \in 1 .. Len(r) /\ t[i] = r[i - Len(q)])
  BY <1>1, <1>2
<1>6. ToSet(q) \cup ToSet(r) \subseteq ToSet(t)
  BY <1>2, <1>3, <1>4 DEF ToSet
<1>7. ToSet(t) \subseteq ToSet(q) \cup ToSet(r)
  BY <1>2, <1>5 DEF ToSet
<1> QED
  BY <1>6, <1>7 DEF t

(* A packet put at the end of what is on its way.                          *)
LEMMA AddLast ==
    ASSUME NEW S, NEW q \in Seq(S), NEW m \in S
    PROVE  /\ Append(q, m) \in Seq(S)
           /\ Len(Append(q, m)) = Len(q) + 1
           /\ ToSet(Append(q, m)) = ToSet(q) \cup {m}
<1>1. Append(q, m) \in Seq(S) /\ Len(Append(q, m)) = Len(q) + 1
  BY AppendProperties
<1>2. <<m>> \in Seq(S) /\ Append(q, m) = q \o <<m>> /\ Len(<<m>>) = 1 /\ <<m>>[1] = m
  BY AppendIsConcat
<1>3. ToSet(<<m>>) = {m}
  <2>1. DOMAIN <<m>> = {1}
    BY <1>2, LenProperties
  <2> QED
    BY <1>2, <2>1 DEF ToSet
<1>4. ToSet(q \o <<m>>) = ToSet(q) \cup ToSet(<<m>>)
  BY <1>2, ConcatMembers
<1> QED
  BY <1>1, <1>2, <1>3, <1>4

(* No two queries of a collection have the same uid.                       *)
Apart(q) == \A i, j \in DOMAIN q : i # j => q[i].uid # q[j].uid

LEMMA ApartTail ==
    ASSUME NEW q \in Seq(Query), q # <<>>, Apart(q)
    PROVE  Apart(Tail(q)) /\ \A m \in ToSet(Tail(q)) : m.uid # Head(q).uid
<1>1. /\ Len(Tail(q)) = Len(q) - 1 /\ Tail(q) \in Seq(Query)
      /\ \A i \in 1 .. Len(Tail(q)) : Tail(q)[i] = q[i + 1]
  BY HeadTailProperties
<1>2. /\ Len(q) \in Nat \ {0} /\ DOMAIN q = 1 .. Len(q) /\ DOMAIN Tail(q) = 1 .. Len(q) - 1
      /\ Head(q) = q[1]
  BY <1>1, LenProperties, EmptySeq
<1>3. \A i \in DOMAIN Tail(q) : i + 1 \in DOMAIN q /\ i + 1 # 1 /\ 1 \in DOMAIN q /\ Tail(q)[i] = q[i + 1]
  BY <1>1, <1>2
<1>4. \A i, j \in DOMAIN Tail(q) : i # j => i + 1 # j + 1
  BY <1>2
<1>5. Apart(Tail(q))
  BY <1>3, <1>4 DEF Apart
<1> QED
  BY <1>2, <1>3, <1>5 DEF Apart, ToSet

LEMMA ApartAdded ==
    ASSUME NEW q \in Seq(Query), NEW m \in Query, Apart(q), \A n \in ToSet(q) : n.uid # m.uid
    PROVE  Apart(<<m>> \o q)
<1> DEFINE r == <<m>> \o q
<1>1. <<m>> \in Seq(Query) /\ Len(<<m>>) = 1 /\ <<m>>[1] = m /\ Len(q) \in Nat /\ DOMAIN q = 1 .. Len(q)
  BY LenProperties
<1>2. /\ r \in Seq(Query) /\ Len(r) = Len(q) + 1
      /\ \A i \in 1 .. Len(q) + 1 : r[i] = IF i <= 1 THEN <<m>>[i] ELSE q[i - 1]
  <2>1. Len(<<m>>) + Len(q) = Len(q) + 1
    BY <1>1
  <2> QED
    BY <1>1, <2>1, ConcatProperties
<1>3. DOMAIN r = 1 .. Len(q) + 1
  BY <1>1, <1>2, LenProperties
<1> HIDE DEF r
<1>4. r[1] = m /\ \A i \in 1 .. Len(q) + 1 : i # 1 => i - 1 \in DOMAIN q /\ r[i] = q[i - 1]
  BY <1>1, <1>2
<1>5. \A i, j \in 1 .. Len(q) + 1 : i # j => i - 1 # j - 1
  BY <1>1
<1>6. \A i \in DOMAIN q : q[i].uid # m.uid
  BY DEF ToSet
<1> SUFFICES ASSUME NEW i \in 1 .. Len(q) + 1, NEW j \in 1 .. Len(q) + 1, i # j
             PROVE  r[i].uid # r[j].uid
  BY <1>3 DEF Apart, r
<1>7. CASE i = 1
  BY <1>4, <1>6, <1>7
<1>8. CASE j = 1
  BY <1>4, <1>6, <1>8
<1>9. CASE i # 1 /\ j # 1
  BY <1>4, <1>5, <1>9 DEF Apart
<1> QED
  BY <1>7, <1>8, <1>9

--------------------------------------------------------------------------------
(* What is on its way between the master and a slave.                      *)

InFlight(c) == ToSet(outbox[c]) \cup ToSet(toMaster[c])

(* A uid is that of one query only, wherever the query is.                 *)
UidsDiffer ==
    \A c \in Cnx :
        /\ Apart(queries[c])
        /\ \A q \in ToSet(queries[c]) :
              \A m \in ToSet(response[c]) \cup ToSet(toSlave[c]) \cup InFlight(c) : m.uid # q.uid
        /\ \A q \in ToSet(response[c]), m \in ToSet(toSlave[c]) : q.uid = m.uid => q = m

(* What is mapped is on the disk, and what is on the disk only could not   *)
(* be removed.                                                             *)
DisksOK == \A s \in Slaves : mapped[s] \subseteq disk[s] /\ disk[s] \subseteq mapped[s] \cup Unremovable

AcksOK ==
    \A c \in Cnx : \A q \in ToSet(response[c]), p \in InFlight(c) :
        q.uid = p.uid /\ q.kind = "DELETELOG" /\ p.type = "DELETED" =>
            (q.files \ Unremovable) \cap mapped[p.from] = {}

(* A connecting slave has one query or answer on its way at most; the two  *)
(* ends of a connection agree who the slave is.                            *)
Deletes == {"DELETE", "DELETELOG"}
OnItsWay(c) == Len(queries[c]) + Len(toSlave[c]) + Len(outbox[c]) + Len(toMaster[c])
TrafficOK ==
    \A c \in Cnx :
        /\ stage[c] = "connecting" => OnItsWay(c) <= 1
        /\ stage[c] = "closed" => toMaster[c] = <<>>
        /\ peer[c] = NoSlave => toSlave[c] = <<>> /\ outbox[c] = <<>>
        /\ link[c] # NoSlave /\ peer[c] # NoSlave => link[c] = peer[c]
        /\ \A p \in ToSet(outbox[c]) : p.from = peer[c]
        /\ peer[c] # NoSlave => \A p \in ToSet(toMaster[c]) : p.from = peer[c] 
        /\ \A d \in Cnx : peer[c] = peer[d] /\ peer[c] # NoSlave => c = d
        /\ stage[c] = "connected" =>
              \A m \in ToSet(toSlave[c]) : m.kind \in {"SFVLOG", "STATS", "DELETE"}
        /\ \A m \in ToSet(queries[c]) \cup ToSet(toSlave[c]) :
              m.kind = "DELETE" => \E f \in Files : m.files = {f}

--------------------------------------------------------------------------------
(* Every step of the master but a write does one of six things to each     *)
(* connection.                                                             *)
Fresh(c, q) == q.uid \in Free(c)
FewerAwaited(c) == ToSet(response'[c]) \subseteq ToSet(response[c])
Consumes(c) == toMaster[c] # <<>> /\ toMaster'[c] = Tail(toMaster[c])
SameEnd(c) == peer'[c] = peer[c] /\ stage'[c] = stage[c] /\ link'[c] = link[c]

Idle(c) ==
    /\ SameEnd(c) /\ FewerAwaited(c)
    /\ queries'[c] = queries[c]
    /\ toMaster'[c] = toMaster[c] \/ Consumes(c)
    /\ ix'.avail[c] = ix.avail[c]
Closes(c) ==
    /\ stage'[c] = "closed" /\ link'[c] = NoSlave /\ peer'[c] = peer[c]
    /\ queries'[c] = <<>> /\ response'[c] = <<>> /\ toMaster'[c] = <<>>
    /\ ix'.avail[c] = {}
Connects(c) ==
    /\ stage[c] = "closed" /\ stage'[c] = "connecting"
    /\ link[c] = NoSlave /\ link'[c] = NoSlave
    /\ peer[c] = NoSlave /\ peer'[c] \in Slaves
    /\ toMaster'[c] = toMaster[c] /\ FewerAwaited(c)
    /\ queries[c] = <<>>
    /\ \E q \in Query : Fresh(c, q) /\ q.kind \in HandshakeKinds /\ queries'[c] = <<q>>
    /\ ix'.avail[c] = ix.avail[c]
Continues(c) ==
    /\ stage[c] = "connecting" /\ stage'[c] = "connecting" /\ peer'[c] = peer[c]
    /\ link'[c] = link[c] \/ (link[c] = NoSlave /\ link'[c] = Answer(c).from)
    /\ Consumes(c) /\ FewerAwaited(c)
    /\ queries[c] = <<>>
    /\ \E q \in Query : Fresh(c, q) /\ q.kind \in HandshakeKinds /\ queries'[c] = <<q>>
    /\ ix'.avail[c] = ix.avail[c]
Merges(c) ==
    /\ stage[c] = "connecting" /\ stage'[c] = "connected"
    /\ peer'[c] = peer[c] /\ link'[c] = link[c] /\ link[c] # NoSlave
    /\ Consumes(c) /\ FewerAwaited(c)
    /\ Answer(c).type = "FILE_LIST" /\ ix'.avail[c] = Answer(c).files
    /\ queries[c] = <<>>
    /\ queries'[c] = <<>> \/ \E q \in Query : Fresh(c, q) /\ q.kind = "SFVLOG" /\ queries'[c] = <<q>>
Asks(c) ==
    /\ SameEnd(c) /\ stage[c] = "connected" /\ FewerAwaited(c)
    /\ toMaster'[c] = toMaster[c]
    /\ \E q \in Query : /\ Fresh(c, q) /\ queries'[c] = <<q>> \o queries[c]
              /\ \/ q.kind = "STATS" /\ ix'.avail[c] = ix.avail[c]
                 \/ \E f \in Files :
                       /\ q.kind = "DELETE" /\ q.files = {f}
                       /\ \/ ix'.avail[c] = ix.avail[c] \ {f}
                          \/ "wipe_from" \in Environment /\ ix'.avail[c] = ix.avail[c]

MasterTurn ==
    /\ UNCHANGED <<toSlave, outbox, mapped, disk>>
    /\ \A c \in Cnx : Idle(c) \/ Closes(c) \/ Connects(c) \/ Continues(c) \/ Merges(c) \/ Asks(c)
    /\ \/ peer' = peer
       \/ \E c \in Cnx, s \in Slaves :
             (\A d \in Cnx : peer[d] # s) /\ peer' = [peer EXCEPT ![c] = s]

(* A handler that asks a query asks one with a uid of its own.             *)
LEMMA AskFresh ==
    ASSUME TypeOK, NEW c \in Cnx, NEW kind \in Kinds, NEW F \in SUBSET Files, Ask(c, kind, F)
    PROVE  \E q \in Query : /\ Fresh(c, q) /\ q.kind = kind /\ q.files = F
                            /\ queries'[c] = <<q>> \o queries[c]
                            /\ \A d \in Cnx : d # c => queries'[d] = queries[d]
<1> DEFINE q == [uid |-> NewUid(c), kind |-> kind, files |-> F]
<1>1. NewUid(c) \in Free(c)
  BY DEF Ask, NewUid
<1>2. q \in Query /\ q.uid \in Free(c) /\ q.kind = kind /\ q.files = F
  BY <1>1 DEF Query, Free
<1>3. queries' = [queries EXCEPT ![c] = <<q>> \o @] /\ queries \in [Cnx -> Seq(Query)]
  BY DEF Ask, AsynchNew, TypeOK
<1> HIDE DEF q
<1>4. queries'[c] = <<q>> \o queries[c] /\ \A d \in Cnx : d # c => queries'[d] = queries[d]
  BY <1>3
<1> QED
  BY <1>2, <1>4 DEF Fresh

LEMMA AskFirst ==
    ASSUME TypeOK, NEW c \in Cnx, NEW kind \in Kinds, NEW F \in SUBSET Files, Ask(c, kind, F),
           queries[c] = <<>>
    PROVE  \E q \in Query : /\ Fresh(c, q) /\ q.kind = kind /\ q.files = F
                            /\ queries'[c] = <<q>>
                            /\ \A d \in Cnx : d # c => queries'[d] = queries[d]
<1>1. PICK q \in Query : /\ Fresh(c, q) /\ q.kind = kind /\ q.files = F
                         /\ queries'[c] = <<q>> \o queries[c]
                         /\ \A d \in Cnx : d # c => queries'[d] = queries[d]
  BY AskFresh
<1>2. <<q>> \in Seq(Query)
  OBVIOUS
<1>3. queries'[c] = <<q>>
  BY <1>1, <1>2, ConcatEmptySeq
<1> QED
  BY <1>1, <1>3

(* The handlers that close a connection.                                   *)
LEMMA DisconnectTurn ==
    ASSUME NamesAssumption, Inv, NEW c \in Cnx, NEW at \in Index, IndexConsistent(at),
           \A d \in Cnx : d # c => at.avail[d] = ix.avail[d],
           \A t \in Slaves : t # link[c] => at.offline[t] = ix.offline[t],
           link[c] = NoSlave => at = ix,
           Disconnect(c, at)
    PROVE  MasterTurn
<1>1. ix'.avail[c] = {} /\ \A d \in Cnx : d # c => ix'.avail[d] = ix.avail[d]
  BY DisconnectIndex
<1>2. UNCHANGED <<toSlave, outbox, peer, mapped, disk>>
  BY DEF Disconnect, remote
<1>3. Closes(c)
  BY <1>1, <1>2 DEF Disconnect, Closes, Inv, TypeOK
<1>4. ASSUME NEW d \in Cnx, d # c PROVE Idle(d)
  BY <1>1, <1>2, <1>4 DEF Disconnect, Idle, SameEnd, FewerAwaited, Inv, TypeOK
<1> QED
  BY <1>2, <1>3, <1>4 DEF MasterTurn

LEMMA DisconnectNowTurn ==
    ASSUME NamesAssumption, Inv, NEW c \in Cnx, Disconnect(c, ix)
    PROVE  MasterTurn
<1>1. ix \in Index /\ IndexConsistent(ix)
  BY DEF Inv, TypeOK, IndexOK
<1> QED
  BY <1>1, DisconnectTurn

LEMMA AcceptTurn ==
    ASSUME NamesAssumption, Inv, NEW c \in Cnx, NEW s \in Slaves, Accept(c, s)
    PROVE  MasterTurn
<1> DEFINE kind == IF UseEncryption THEN "PUBLIC_KEY" ELSE "HELLO"
<1>1. kind \in Kinds /\ kind \in HandshakeKinds
  BY DEF Kinds, HandshakeKinds
<1>2. Ask(c, kind, {}) /\ TypeOK
  BY DEF Accept, Inv
<1> HIDE DEF kind
<1>3. /\ stage[c] = "closed" /\ stage' = [stage EXCEPT ![c] = "connecting"]
      /\ peer[c] = NoSlave /\ peer' = [peer EXCEPT ![c] = s] /\ \A d \in Cnx : peer[d] # s
      /\ UNCHANGED <<ix, link, response, toMaster, toSlave, outbox, mapped, disk>>
  BY DEF Accept, Open, storage
<1>4. queries[c] = <<>> /\ link[c] = NoSlave
  BY <1>3 DEF Inv, OneAtATime, LinkOK, Open
<1>5. PICK q \in Query : /\ Fresh(c, q) /\ q.kind = kind /\ q.files = {}
                         /\ queries'[c] = <<q>>
                         /\ \A d \in Cnx : d # c => queries'[d] = queries[d]
  BY <1>1, <1>2, <1>4, AskFirst
<1>6. Connects(c)
  BY <1>1, <1>2, <1>3, <1>4, <1>5 DEF Connects, FewerAwaited, TypeOK
<1>7. ASSUME NEW d \in Cnx, d # c PROVE Idle(d)
  BY <1>2, <1>3, <1>5, <1>7 DEF Idle, SameEnd, FewerAwaited, TypeOK
<1> QED
  BY <1>3, <1>6, <1>7 DEF MasterTurn

(* An answer, or a part of one, that is not waited for.                    *)
LEMMA PartialReadTurn ==
    ASSUME Inv, NEW c \in Cnx, PartialRead(c) \/ UnmatchedReply(c)
    PROVE  MasterTurn
<1>1. TypeOK /\ TimeoutsAfter(c, response[c]) /\ response[c] \in Seq(Query) /\ toMaster[c] # <<>>
  BY DEF Inv, TypeOK, PartialRead, UnmatchedReply, Arrived
<1>2. /\ \A d \in Cnx : d # c => response'[d] = response[d]
      /\ ToSet(response'[c]) \subseteq ToSet(response[c])
  BY <1>1, TimeoutsFacts
<1>3. UNCHANGED <<ix, stage, link, queries, toSlave, outbox, peer, mapped, disk>>
  BY DEF PartialRead, UnmatchedReply, remote
<1>4. ASSUME NEW d \in Cnx PROVE Idle(d)
  <2>1. FewerAwaited(d)
    BY <1>2 DEF FewerAwaited
  <2>2. toMaster'[d] = toMaster[d] \/ Consumes(d)
    BY <1>1 DEF PartialRead, UnmatchedReply, Consumes, TypeOK
  <2> QED
    BY <1>3, <2>1, <2>2 DEF Idle, SameEnd
<1> QED
  BY <1>3, <1>4 DEF MasterTurn

(* An answer that asks for nothing: SFVLOG, STATS and DELETE.              *)
LEMMA SettledTurn ==
    ASSUME Inv, NEW c \in Cnx, Matched(c), Settle(c),
           UNCHANGED <<ix, stage, link, queries, remote>>
    PROVE  MasterTurn
<1>1. TypeOK
  BY DEF Inv
<1>2. /\ \A d \in Cnx : d # c => response'[d] = response[d]
      /\ ToSet(response'[c]) \subseteq ToSet(response[c])
  BY <1>1, SettleFacts
<1>3. toMaster[c] # <<>> /\ toMaster' = [toMaster EXCEPT ![c] = Tail(@)]
  BY <1>1, SlotFacts DEF Settle
<1>4. ASSUME NEW d \in Cnx PROVE Idle(d)
  <2>1. FewerAwaited(d)
    BY <1>2 DEF FewerAwaited
  <2>2. toMaster'[d] = toMaster[d] \/ Consumes(d)
    BY <1>1, <1>3 DEF Consumes, TypeOK
  <2> QED
    BY <2>1, <2>2 DEF Idle, SameEnd, remote
<1> QED
  BY <1>4 DEF MasterTurn, remote

LEMMA ConnectedAnsweredTurn ==
    ASSUME NamesAssumption, Inv, NEW c \in Cnx,
           SfvlogAnswered(c) \/ StatsAnswered(c) \/ DeleteAnswered(c)
    PROVE  MasterTurn
<1>1. CASE Disconnect(c, ix)
  BY <1>1, DisconnectNowTurn
<1>2. CASE Settle(c) /\ UNCHANGED <<ix, stage, link, queries, remote>>
  <2>1. Matched(c)
    BY DEF SfvlogAnswered, StatsAnswered, DeleteAnswered, Answers
  <2> QED
    BY <1>2, <2>1, SettledTurn
<1> QED
  BY <1>1, <1>2 DEF SfvlogAnswered, StatsAnswered, DeleteAnswered

(* An answer of the handshake, and the query that follows it.              *)
LEMMA ContinuedTurn ==
    ASSUME Inv, NEW c \in Cnx, NEW kind \in Kinds \ {"SFVLOG", "STATS", "DELETE"},
           Answers(c, kind), Settle(c),
           NEW next \in HandshakeKinds, NEW F \in SUBSET Files, Ask(c, next, F),
           link' = link \/ (link[c] = NoSlave /\ link' = [link EXCEPT ![c] = Answer(c).from]),
           UNCHANGED <<ix, stage, remote>>
    PROVE  MasterTurn
<1>1. TypeOK /\ Matched(c) /\ next \in Kinds
  BY DEF Inv, Answers, Kinds
<1>2. stage[c] = "connecting" /\ Len(queries[c]) = 0 /\ toMaster[c] # <<>>
  BY <1>1, HandshakeAnswered, SlotFacts
<1>3. queries[c] = <<>>
  <2>1. queries[c] \in Seq(Query)
    BY <1>1 DEF TypeOK
  <2> QED
    BY <1>2, <2>1, EmptySeq
<1>4. PICK q \in Query : /\ Fresh(c, q) /\ q.kind = next /\ q.files = F
                         /\ queries'[c] = <<q>>
                         /\ \A d \in Cnx : d # c => queries'[d] = queries[d]
  BY <1>1, <1>3, AskFirst
<1>5. /\ \A d \in Cnx : d # c => response'[d] = response[d]
      /\ ToSet(response'[c]) \subseteq ToSet(response[c])
  BY <1>1, SettleFacts
<1>6. Consumes(c) /\ \A d \in Cnx : d # c => toMaster'[d] = toMaster[d]
  BY <1>1, <1>2 DEF Settle, Consumes, TypeOK
<1>7. Continues(c)
  BY <1>1, <1>2, <1>3, <1>4, <1>5, <1>6 DEF Continues, FewerAwaited, remote, TypeOK
<1>8. ASSUME NEW d \in Cnx, d # c PROVE Idle(d)
  BY <1>1, <1>4, <1>5, <1>6, <1>8 DEF Idle, SameEnd, FewerAwaited, remote, TypeOK
<1> QED
  BY <1>7, <1>8 DEF MasterTurn, remote

LEMMA KeyAnsweredTurn ==
    ASSUME NamesAssumption, Inv, NEW c \in Cnx,
           NEW kind \in {"PUBLIC_KEY", "BLOWFISH_KEY"}, NEW next \in {"BLOWFISH_KEY", "HELLO"},
           KeyAnswered(c, kind, next)
    PROVE  MasterTurn
<1>1. /\ kind \in Kinds \ {"SFVLOG", "STATS", "DELETE"}
      /\ next \in HandshakeKinds
  BY DEF Kinds, HandshakeKinds
<1>2. CASE Disconnect(c, ix)
  BY <1>2, DisconnectNowTurn
<1>3. CASE Ask(c, next, {}) /\ Settle(c) /\ UNCHANGED <<ix, stage, link, remote>>
  BY <1>1, <1>3, ContinuedTurn DEF KeyAnswered
<1> QED
  BY <1>2, <1>3 DEF KeyAnswered

LEMMA AskDeletelogNext ==
    ASSUME TypeOK, NEW c \in Cnx, NEW s \in Slaves, AskDeletelog(c, s)
    PROVE  \E next \in HandshakeKinds, F \in SUBSET Files : Ask(c, next, F)
<1>1. LinesRead(deletelog[s]) \in SUBSET Files
  BY DeletelogTyped DEF TypeOK
<1> QED
  BY <1>1 DEF AskDeletelog, HandshakeKinds

LEMMA HelloAnsweredTurn ==
    ASSUME NamesAssumption, Inv, NEW c \in Cnx, HelloAnswered(c)
    PROVE  MasterTurn
<1>1. "HELLO" \in Kinds \ {"SFVLOG", "STATS", "DELETE"} /\ "HELLO" \in BeforeLink
  BY DEF Kinds, HandshakeKinds, BeforeLink
<1>2. Answers(c, "HELLO") /\ TypeOK /\ Matched(c)
  BY DEF HelloAnswered, Answers, Inv
<1>3. link[c] = NoSlave /\ Answer(c).from \in Slaves
  BY <1>1, <1>2, HandshakeAnswered, SlotFacts DEF Reply
<1>4. CASE Disconnect(c, ix)
  BY <1>4, DisconnectNowTurn
<1>5. CASE /\ link' = [link EXCEPT ![c] = Answer(c).from]
           /\ IF UseCertificate THEN Ask(c, "CERTIFICATE_x509", {})
              ELSE AskDeletelog(c, Answer(c).from)
           /\ Settle(c)
           /\ UNCHANGED <<ix, stage, remote>>
  <2>1. PICK next \in HandshakeKinds, F \in SUBSET Files : Ask(c, next, F)
    <3>1. "CERTIFICATE_x509" \in HandshakeKinds
      BY DEF HandshakeKinds
    <3>2. CASE UseCertificate
      BY <1>5, <3>1, <3>2
    <3>3. CASE ~UseCertificate
      BY <1>2, <1>3, <1>5, <3>3, AskDeletelogNext
    <3> QED
      BY <3>2, <3>3
  <2> QED
    BY <1>1, <1>2, <1>3, <1>5, <2>1, ContinuedTurn
<1> QED
  BY <1>4, <1>5 DEF HelloAnswered

LEMMA CertificateAnsweredTurn ==
    ASSUME Inv, NEW c \in Cnx, CertificateAnswered(c)
    PROVE  MasterTurn
<1>1. Settle(c) /\ TypeOK /\ UNCHANGED <<ix, stage, link, remote>>
  BY DEF CertificateAnswered, Inv
<1>2. CASE Answers(c, "CERTIFICATE_x509") /\ Ask(c, "CERTIFICATE_PKEY", {})
  <2>1. /\ "CERTIFICATE_PKEY" \in HandshakeKinds
        /\ "CERTIFICATE_x509" \in Kinds \ {"SFVLOG", "STATS", "DELETE"}
    BY DEF Kinds, HandshakeKinds
  <2> QED
    BY <1>1, <1>2, <2>1, ContinuedTurn
<1>3. CASE Answers(c, "CERTIFICATE_PKEY") /\ AskDeletelog(c, link[c])
  <2>1. "CERTIFICATE_PKEY" \in Kinds \ {"SFVLOG", "STATS", "DELETE"}
        /\ "CERTIFICATE_PKEY" \notin BeforeLink
    BY DEF Kinds, HandshakeKinds, BeforeLink
  <2>2. link[c] # NoSlave
    BY <1>3, <2>1, HandshakeAnswered
  <2>3. link[c] \in Slaves
    BY <1>1, <2>2 DEF TypeOK
  <2>4. PICK next \in HandshakeKinds, F \in SUBSET Files : Ask(c, next, F)
    BY <1>1, <1>3, <2>3, AskDeletelogNext
  <2> QED
    BY <1>1, <1>3, <2>1, <2>4, ContinuedTurn
<1> QED
  BY <1>2, <1>3 DEF CertificateAnswered

LEMMA DeletelogAnsweredTurn ==
    ASSUME NamesAssumption, Inv, NEW c \in Cnx, DeletelogAnswered(c)
    PROVE  MasterTurn
<1>1. CASE Disconnect(c, ix)
  BY <1>1, DisconnectNowTurn
<1>2. CASE Ask(c, "FILE_LIST", {}) /\ Settle(c) /\ UNCHANGED <<ix, stage, link, remote>>
  <2>1. /\ "FILE_LIST" \in HandshakeKinds
        /\ "DELETELOG" \in Kinds \ {"SFVLOG", "STATS", "DELETE"}
    BY DEF Kinds, HandshakeKinds
  <2> QED
    BY <1>2, <2>1, ContinuedTurn DEF DeletelogAnswered
<1> QED
  BY <1>1, <1>2 DEF DeletelogAnswered

(* What the merge makes of the index.                                      *)
LEMMA MergedIndex ==
    ASSUME Inv, NEW c \in Cnx, Answers(c, "FILE_LIST"),
           NEW merged, merged = MergeFileList(ix, c, link[c], Answer(c).files)
    PROVE  /\ merged \in Index /\ IndexConsistent(merged)
           /\ stage[c] = "connecting" /\ link[c] \in Slaves /\ link[c] # NoSlave
           /\ Answer(c).files \in SUBSET Files /\ toMaster[c] # <<>>
           /\ queries[c] = <<>>
           /\ merged.avail[c] = Answer(c).files
           /\ \A d \in Cnx : d # c => merged.avail[d] = ix.avail[d]
           /\ merged.offline[link[c]] = {}
           /\ \A t \in Slaves : t # link[c] => merged.offline[t] = ix.offline[t]
<1>1. "FILE_LIST" \in Kinds \ {"SFVLOG", "STATS", "DELETE"} /\ "FILE_LIST" \notin BeforeLink
  BY DEF Kinds, HandshakeKinds, BeforeLink
<1>2. TypeOK /\ Matched(c) /\ ix \in Index /\ IndexConsistent(ix)
  BY DEF Answers, Inv, TypeOK, IndexOK
<1>3. stage[c] = "connecting" /\ link[c] # NoSlave /\ Len(queries[c]) = 0
  BY <1>1, <1>2, HandshakeAnswered
<1>4. queries[c] = <<>>
  <2>1. queries[c] \in Seq(Query)
    BY <1>2 DEF TypeOK
  <2> QED
    BY <1>3, <2>1, EmptySeq
<1>5. link[c] \in Slaves /\ Answer(c).files \in SUBSET Files /\ toMaster[c] # <<>>
  BY <1>2, <1>3, SlotFacts DEF TypeOK, Reply
<1>6. /\ merged \in Index
      /\ IndexConsistent(merged)
      /\ merged.avail = [ix.avail EXCEPT ![c] = @ \cup Answer(c).files]
      /\ merged.offline = [ix.offline EXCEPT ![link[c]] = {}]
  BY <1>2, <1>5, MergeFileListConsistent
<1>7. ix.avail \in [Cnx -> SUBSET Files] /\ ix.offline \in [Slaves -> SUBSET Files] /\ ix.avail[c] = {}
  BY <1>2, <1>3, ConsistentFields DEF Inv, OnlineXorOffline
<1> QED
  BY <1>3, <1>4, <1>5, <1>6, <1>7

LEMMA FileListAnsweredTurn ==
    ASSUME NamesAssumption, Inv, NEW c \in Cnx, FileListAnswered(c)
    PROVE  MasterTurn
<1> DEFINE listed == Answer(c).files
           merged == MergeFileList(ix, c, link[c], listed)
<1>1. Answers(c, "FILE_LIST") /\ TypeOK /\ Matched(c)
  BY DEF FileListAnswered, Answers, Inv
<1>2. /\ merged \in Index /\ IndexConsistent(merged)
      /\ stage[c] = "connecting" /\ link[c] \in Slaves /\ link[c] # NoSlave
      /\ listed \in SUBSET Files /\ toMaster[c] # <<>>
      /\ queries[c] = <<>>
      /\ merged.avail[c] = listed
      /\ \A d \in Cnx : d # c => merged.avail[d] = ix.avail[d]
      /\ \A t \in Slaves : t # link[c] => merged.offline[t] = ix.offline[t]
  BY <1>1, MergedIndex
<1> HIDE DEF merged
<1>3. CASE Disconnect(c, ix)
  BY <1>3, DisconnectNowTurn
<1>4. CASE Disconnect(c, merged)
  BY <1>2, <1>4, DisconnectTurn
<1>5. CASE /\ Answer(c).type = "FILE_LIST"
           /\ ix' = merged
           /\ stage' = [stage EXCEPT ![c] = "connected"]
           /\ \E missing \in SUBSET (listed \cap SfvFiles) :
                 \/ missing = {} /\ UNCHANGED queries
                 \/ missing # {} /\ Ask(c, "SFVLOG", missing)
           /\ Settle(c)
           /\ UNCHANGED <<link, remote>>
  <2>1. /\ \A d \in Cnx : d # c => queries'[d] = queries[d]
        /\ \/ queries'[c] = <<>>
           \/ \E q \in Query : Fresh(c, q) /\ q.kind = "SFVLOG" /\ queries'[c] = <<q>>
    <3>1. CASE UNCHANGED queries
      BY <1>2, <3>1
    <3>2. ASSUME NEW missing \in SUBSET (listed \cap SfvFiles), Ask(c, "SFVLOG", missing)
          PROVE  /\ \A d \in Cnx : d # c => queries'[d] = queries[d]
                 /\ \E q \in Query : Fresh(c, q) /\ q.kind = "SFVLOG" /\ queries'[c] = <<q>>
      <4>1. "SFVLOG" \in Kinds /\ missing \in SUBSET Files
        BY <1>2 DEF Kinds, HandshakeKinds
      <4> QED
        BY <1>1, <1>2, <3>2, <4>1, AskFirst
    <3> QED
      BY <1>5, <3>1, <3>2
  <2>2. /\ \A d \in Cnx : d # c => response'[d] = response[d]
        /\ ToSet(response'[c]) \subseteq ToSet(response[c])
    BY <1>1, <1>5, SettleFacts
  <2>3. Consumes(c) /\ \A d \in Cnx : d # c => toMaster'[d] = toMaster[d]
    BY <1>1, <1>2, <1>5 DEF Settle, Consumes, TypeOK
  <2>4. Merges(c)
    BY <1>1, <1>2, <1>5, <2>1, <2>2, <2>3 DEF Merges, FewerAwaited, remote, TypeOK
  <2>5. ASSUME NEW d \in Cnx, d # c PROVE Idle(d)
    BY <1>1, <1>2, <1>5, <2>1, <2>2, <2>3, <2>5 DEF Idle, SameEnd, FewerAwaited, remote, TypeOK
  <2> QED
    BY <1>5, <2>4, <2>5 DEF MasterTurn, remote
<1> QED
  BY <1>3, <1>4, <1>5 DEF FileListAnswered, merged

LEMMA ProbeStatsTurn ==
    ASSUME Inv, NEW c \in Cnx, ProbeStats(c)
    PROVE  MasterTurn
<1>1. /\ TypeOK /\ "STATS" \in Kinds /\ {} \in SUBSET Files
      /\ Ask(c, "STATS", {}) /\ stage[c] = "connected"
  BY DEF Inv, Kinds, ProbeStats
<1>2. PICK q \in Query : /\ Fresh(c, q) /\ q.kind = "STATS" /\ q.files = {}
                         /\ queries'[c] = <<q>> \o queries[c]
                         /\ \A d \in Cnx : d # c => queries'[d] = queries[d]
  BY <1>1, AskFresh
<1>3. UNCHANGED <<ix, stage, link, response, toMaster, toSlave, peer, outbox, mapped, disk>>
  BY DEF ProbeStats, remote
<1>4. Asks(c)
  BY <1>1, <1>2, <1>3 DEF Asks, SameEnd, FewerAwaited
<1>5. ASSUME NEW d \in Cnx, d # c PROVE Idle(d)
  BY <1>2, <1>3, <1>5 DEF Idle, SameEnd, FewerAwaited
<1> QED
  BY <1>3, <1>4, <1>5 DEF MasterTurn

(* A wipe, of a file that was online from all the connections it is asked  *)
(* of.                                                                     *)
LEMMA WipedTurn ==
    ASSUME Inv, NEW f \in Files, NEW D \in SUBSET ix.availFrom[f],
           \A c \in D : Spare(c),
           AskDelete(D, f),
           UNCHANGED <<stage, link, response, toMaster, remote>>,
           \/ \A c \in Cnx : ix'.avail[c] = IF c \in D THEN ix.avail[c] \ {f} ELSE ix.avail[c]
           \/ "wipe_from" \in Environment /\ \A c \in Cnx : ix'.avail[c] = ix.avail[c]
    PROVE  MasterTurn
<1>1. UNCHANGED <<toSlave, outbox, peer, mapped, disk>>
  BY DEF remote
<1>2. ASSUME NEW c \in D PROVE Asks(c)
  <2> DEFINE q == [uid |-> NewUid(c), kind |-> "DELETE", files |-> {f}]
  <2>1. c \in Cnx /\ stage[c] = "connected"
    <3>1. ix \in Index /\ IndexConsistent(ix)
      BY DEF Inv, TypeOK, IndexOK
    <3> QED
      BY <3>1, ConsistentFields DEF Inv, OnlineXorOffline
  <2>2. NewUid(c) \in Free(c)
    BY DEF Spare, NewUid
  <2>3. q \in Query /\ Fresh(c, q) /\ q.kind = "DELETE" /\ q.files = {f}
    BY <2>2 DEF Query, Free, Fresh, Kinds
  <2>4. queries'[c] = <<q>> \o queries[c]
    BY <2>1 DEF AskDelete, AsynchNew
  <2> HIDE DEF q
  <2> QED
    BY <1>1, <2>1, <2>3, <2>4 DEF Asks, SameEnd, FewerAwaited
<1>3. ASSUME NEW c \in Cnx, c \notin D PROVE Idle(c)
  BY <1>1, <1>3 DEF Idle, SameEnd, FewerAwaited, AskDelete
<1> QED
  BY <1>1, <1>2, <1>3 DEF MasterTurn

LEMMA WipeTurn ==
    ASSUME Inv, NEW f \in Files, Wipe(f)
    PROVE  MasterTurn
<1>1. ix \in Index /\ IndexConsistent(ix)
  BY DEF Inv, TypeOK, IndexOK
<1>2. \A c \in Cnx : ix'.avail[c] = ix.avail[c] \ {f}
  BY WipeIndex
<1>3. \A c \in Cnx : c \notin ix.availFrom[f] => ix.avail[c] \ {f} = ix.avail[c]
  BY <1>1, ConsistentFields
<1>4. \A c \in Cnx : ix'.avail[c] = IF c \in ix.availFrom[f] THEN ix.avail[c] \ {f} ELSE ix.avail[c]
  BY <1>2, <1>3
<1> QED
  BY <1>4, WipedTurn DEF Wipe

LEMMA WipeFromTurn ==
    ASSUME Inv, NEW f \in Files, NEW s \in Slaves, WipeFrom(f, s)
    PROVE  MasterTurn
<1> DEFINE D == {c \in ix.availFrom[f] : link[c] = s}
<1>1. "wipe_from" \in Environment /\ \A c \in Cnx : ix'.avail[c] = ix.avail[c]
  BY WipeFromIndex DEF WipeFrom
<1>2. /\ D \in SUBSET ix.availFrom[f] /\ (\A c \in D : Spare(c)) /\ AskDelete(D, f)
      /\ UNCHANGED <<stage, link, response, toMaster, remote>>
  BY DEF WipeFrom
<1> HIDE DEF D
<1> QED
  BY <1>1, <1>2, WipedTurn

(* A step that leaves the connections and what is online alone.            *)
LEMMA StillTurn ==
    ASSUME UNCHANGED <<stage, link, queries, response, toMaster, remote>>, ix'.avail = ix.avail
    PROVE  MasterTurn
BY DEF MasterTurn, Idle, SameEnd, FewerAwaited, remote

LEMMA SlaveDeleteTurn ==
    ASSUME NamesAssumption, Inv, NEW s \in Slaves, SlaveDelete(s)
    PROVE  MasterTurn
<1>1. /\ TypeOK /\ ix \in Index /\ IndexConsistent(ix) /\ ix.avail \in [Cnx -> SUBSET Files]
  BY ConsistentFields DEF Inv, TypeOK, IndexOK
<1>2. CASE ix' = ForgetSlave(ix, s) /\ UNCHANGED <<session, toMaster, remote>>
  <2>1. ix'.avail = ix.avail
    BY <1>1, <1>2, ForgetSlaveConsistent
  <2> QED
    BY <1>2, <2>1, StillTurn DEF session
<1>3. ASSUME NEW c \in Cnx,
             ix' = ForgetSlave(ForgetConnection(ix, c), s),
             stage' = [stage EXCEPT ![c] = "closed"],
             link' = [link EXCEPT ![c] = NoSlave],
             queries' = [queries EXCEPT ![c] = <<>>],
             response' = [response EXCEPT ![c] = <<>>],
             toMaster' = [toMaster EXCEPT ![c] = <<>>],
             UNCHANGED remote
      PROVE  MasterTurn
  <2>1. /\ ForgetConnection(ix, c) \in Index /\ IndexConsistent(ForgetConnection(ix, c))
        /\ ForgetConnection(ix, c).avail = [ix.avail EXCEPT ![c] = {}]
    BY <1>1, ForgetConnectionConsistent
  <2>2. ix'.avail = [ix.avail EXCEPT ![c] = {}]
    BY <1>3, <2>1, ForgetSlaveConsistent
  <2>3. UNCHANGED <<toSlave, outbox, peer, mapped, disk>>
    BY <1>3 DEF remote
  <2>4. Closes(c)
    BY <1>1, <1>3, <2>2, <2>3 DEF Closes, TypeOK
  <2>5. ASSUME NEW d \in Cnx, d # c PROVE Idle(d)
    BY <1>1, <1>3, <2>2, <2>3, <2>5 DEF Idle, SameEnd, FewerAwaited, TypeOK
  <2> QED
    BY <2>3, <2>4, <2>5 DEF MasterTurn
<1> QED
  BY <1>2, <1>3 DEF SlaveDelete

LEMMA MasterCrashTurn ==
    ASSUME MasterCrash
    PROVE  MasterTurn
<1>1. ASSUME NEW c \in Cnx PROVE Closes(c)
  BY DEF MasterCrash, Closes, NoFiles, remote
<1> QED
  BY <1>1 DEF MasterTurn, MasterCrash, remote

LEMMA MasterStartTurn ==
    ASSUME IInv, MasterStart
    PROVE  MasterTurn
<1>1. configs \in SUBSET Slaves /\ Kept \in [Slaves -> SUBSET Files]
  BY DEF IInv, Inv, TypeOK, Kept
<1>2. LoadOffline(configs, Kept).avail = [c \in Cnx |-> {}]
  BY <1>1, LoadOfflineConsistent
<1>3. ix.avail = [c \in Cnx |-> {}]
  <2>1. \A c \in Cnx : ix.avail[c] = {}
    BY DEF IInv, Inv, StoppedHoldsNothing, MasterStart, OnlineXorOffline
  <2>2. ix.avail \in [Cnx -> SUBSET Files]
    BY ConsistentFields DEF IInv, Inv, TypeOK, IndexOK
  <2> QED
    BY <2>1, <2>2
<1> QED
  BY <1>2, <1>3, StillTurn DEF MasterStart, session

(* Every step is a turn of the master, a write, a step of one slave on one *)
(* connection, the restart of a slave, or nothing.                         *)
LEMMA StepsSorted ==
    ASSUME NamesAssumption, IInv, [Next]_vars
    PROVE  \/ MasterTurn
           \/ \E c \in Cnx : SlaveConnectionWrite(c) \/ Slave(c)
           \/ \E s \in Slaves : SlaveRestart(s)
<1>1. ASSUME NEW c \in Cnx, Master(c), ~SlaveConnectionWrite(c) PROVE MasterTurn
  <2>1. CASE \E s \in Slaves : Accept(c, s)
    BY <2>1, AcceptTurn DEF IInv
  <2>2. CASE PartialRead(c) \/ UnmatchedReply(c)
    BY <2>2, PartialReadTurn DEF IInv
  <2>3. CASE PublicKeyAnswered(c) \/ BlowfishKeyAnswered(c)
    BY <2>3, KeyAnsweredTurn DEF IInv, PublicKeyAnswered, BlowfishKeyAnswered
  <2>4. CASE HelloAnswered(c) \/ CertificateAnswered(c) \/ DeletelogAnswered(c)
    BY <2>4, HelloAnsweredTurn, CertificateAnsweredTurn, DeletelogAnsweredTurn DEF IInv
  <2>5. CASE FileListAnswered(c)
    BY <2>5, FileListAnsweredTurn DEF IInv
  <2>6. CASE SfvlogAnswered(c) \/ StatsAnswered(c) \/ DeleteAnswered(c)
    BY <2>6, ConnectedAnsweredTurn DEF IInv
  <2>7. CASE ConnectionLost(c) \/ SlaveConnectionReadTimeout(c)
    BY <2>7, DisconnectNowTurn DEF IInv, ConnectionLost, SlaveConnectionReadTimeout
  <2>8. CASE ProbeStats(c)
    BY <2>8, ProbeStatsTurn DEF IInv
  <2> QED
    BY <1>1, <2>1, <2>2, <2>3, <2>4, <2>5, <2>6, <2>7, <2>8 DEF Master, SlaveConnectionRead
<1>2. ASSUME Calls PROVE MasterTurn
  <2>1. CASE \E f \in Files : Wipe(f) \/ \E s \in Slaves : WipeFrom(f, s)
    BY <2>1, WipeTurn, WipeFromTurn DEF IInv
  <2>2. CASE \E s \in Slaves : DumpFileslog(s) \/ SlaveNew(s)
    BY <2>2, StillTurn DEF DumpFileslog, SlaveNew, session
  <2>3. CASE \E s \in Slaves : SlaveDelete(s)
    BY <2>3, SlaveDeleteTurn DEF IInv
  <2>4. CASE MasterCrash \/ MasterStart
    BY <2>4, MasterCrashTurn, MasterStartTurn
  <2> QED
    BY <1>2, <2>1, <2>2, <2>3, <2>4 DEF Calls
<1>3. ASSUME UNCHANGED vars PROVE MasterTurn
  BY <1>3, StillTurn DEF vars, session
<1> QED
  BY <1>1, <1>2, <1>3 DEF Next

(* What a slave does of the query at hand: it answers, and deletes files,  *)
(* answers with what it has, or does neither.                              *)
Deletion(c, type) ==
    /\ Asked(c).kind \in Deletes /\ type = "DELETED"
    /\ FileUnmap(peer[c], Asked(c).files)
Lookup(c, type, F) ==
    /\ type # "DELETED"
    /\ type = "FILE_LIST" => F = mapped[peer[c]]
    /\ Asked(c).kind = "DELETE" => ~(Asked(c).files \subseteq mapped[peer[c]])
    /\ UNCHANGED <<mapped, disk>>
SlaveAnswers(c) ==
    /\ CanProcess(c)
    /\ \E type \in Kinds \cup {"DELETED", "FAILURE"}, F \in SUBSET Files :
          EnqueuePacket(c, type, F) /\ (Deletion(c, type) \/ Lookup(c, type, F))
    /\ UNCHANGED <<ix, session, toMaster, peer>>

LEMMA SlaveSorted ==
    ASSUME TypeOK, NEW c \in Cnx, Slave(c)
    PROVE  SlaveAnswers(c) \/ HandleOutputs(c) \/ SlaveClose(c)
<1>1. /\ "DELETED" \notin Kinds /\ "FAILURE" \notin Kinds /\ {} \in SUBSET Files
      /\ "FILE_LIST" # "DELETED" /\ "FILE_LIST" # "FAILURE"
  BY DEF Kinds, HandshakeKinds
<1>2. ASSUME CanProcess(c) PROVE mapped[peer[c]] \in SUBSET Files /\ Asked(c).kind \in Kinds
  <2>1. peer[c] \in Slaves /\ mapped[peer[c]] \in SUBSET Files
    BY <1>2 DEF CanProcess, TypeOK
  <2>2. toSlave[c] \in Seq(Query) /\ toSlave[c] # <<>>
    BY <1>2 DEF CanProcess, TypeOK
  <2>3. Asked(c) \in Query
    BY <2>2, TakeFirst DEF Asked
  <2> QED
    BY <2>1, <2>3 DEF Query
<1>3. CASE HandleInputs(c)
  <2>1. CanProcess(c) /\ UNCHANGED <<ix, session, toMaster, peer, mapped, disk>>
    BY <1>3 DEF HandleInputs, storage
  <2> DEFINE F == IF Asked(c).kind = "FILE_LIST" THEN FileList(c) ELSE {}
  <2>2. F \in SUBSET Files /\ Asked(c).kind \in Kinds
    BY <1>2, <2>1 DEF FileList
  <2>3. Lookup(c, Asked(c).kind, F) /\ EnqueuePacket(c, Asked(c).kind, F)
    BY <1>1, <1>3, <2>1, <2>2 DEF HandleInputs, Lookup, FileList
  <2> HIDE DEF F
  <2> QED
    BY <2>1, <2>2, <2>3 DEF SlaveAnswers
<1>4. CASE ReplyFailure(c)
  BY <1>1, <1>4 DEF ReplyFailure, SlaveAnswers, Lookup, storage
<1>5. CASE ProcessSlaveDelete(c)
  <2>1. CanProcess(c) /\ UNCHANGED <<ix, session, toMaster, peer>>
    BY <1>5 DEF ProcessSlaveDelete
  <2>2. \/ EnqueuePacket(c, "DELETED", {}) /\ Deletion(c, "DELETED")
        \/ EnqueuePacket(c, "FAILURE", {}) /\ Lookup(c, "FAILURE", {})
    BY <1>1, <1>5 DEF ProcessSlaveDelete, Deletion, Lookup, Deletes, storage
  <2> QED
    BY <1>1, <2>1, <2>2 DEF SlaveAnswers
<1>6. CASE ProcessSlaveDeletelog(c)
  <2>1. CanProcess(c) /\ UNCHANGED <<ix, session, toMaster, peer>>
    BY <1>6 DEF ProcessSlaveDeletelog
  <2>2. EnqueuePacket(c, "DELETED", {}) /\ Deletion(c, "DELETED")
    BY <1>6 DEF ProcessSlaveDeletelog, Deletion, Deletes
  <2> QED
    BY <1>1, <2>1, <2>2 DEF SlaveAnswers
<1> QED
  BY <1>3, <1>4, <1>5, <1>6 DEF Slave

(* The answer a slave makes is first in its outbox and has the uid of the  *)
(* query, which it has taken from the others.                              *)
LEMMA EnqueuedFacts ==
    ASSUME TypeOK, NEW c \in Cnx, CanProcess(c),
           NEW type \in Kinds \cup {"DELETED", "FAILURE"}, NEW F \in SUBSET Files,
           EnqueuePacket(c, type, F)
    PROVE  /\ peer[c] \in Slaves
           /\ toSlave[c] \in Seq(Query) /\ toSlave[c] # <<>>
           /\ Asked(c) \in Query /\ Asked(c) \in ToSet(toSlave[c])
           /\ toSlave'[c] = Tail(toSlave[c])
           /\ ToSet(toSlave'[c]) \subseteq ToSet(toSlave[c])
           /\ Len(toSlave'[c]) = Len(toSlave[c]) - 1
           /\ \A d \in Cnx : d # c => toSlave'[d] = toSlave[d] /\ outbox'[d] = outbox[d]
           /\ \E p \in Reply :
                 /\ p.uid = Asked(c).uid /\ p.type = type /\ p.files = F /\ p.from = peer[c]
                 /\ ToSet(outbox'[c]) = ToSet(outbox[c]) \cup {p}
                 /\ Len(outbox'[c]) = Len(outbox[c]) + 1
<1>1. /\ toSlave \in [Cnx -> Seq(Query)] /\ outbox \in [Cnx -> Seq(Reply)]
      /\ toSlave[c] \in Seq(Query) /\ outbox[c] \in Seq(Reply) /\ toSlave[c] # <<>>
      /\ peer[c] \in Slaves
  BY DEF TypeOK, CanProcess
<1>2. /\ Asked(c) \in Query /\ Asked(c) \in ToSet(toSlave[c])
      /\ ToSet(Tail(toSlave[c])) \subseteq ToSet(toSlave[c])
      /\ Len(Tail(toSlave[c])) = Len(toSlave[c]) - 1
  BY <1>1, TakeFirst DEF Asked
<1> DEFINE p == [uid |-> Asked(c).uid, type |-> type, files |-> F, from |-> peer[c]]
<1>3. p \in Reply /\ p.uid = Asked(c).uid /\ p.type = type /\ p.files = F /\ p.from = peer[c]
  BY <1>1, <1>2 DEF Query, Reply
<1>4. outbox' = [outbox EXCEPT ![c] = <<p>> \o @] /\ toSlave' = [toSlave EXCEPT ![c] = Tail(@)]
  BY DEF EnqueuePacket
<1> HIDE DEF p
<1>5. ToSet(<<p>> \o outbox[c]) = ToSet(outbox[c]) \cup {p} /\ Len(<<p>> \o outbox[c]) = Len(outbox[c]) + 1
  BY <1>1, <1>3, AddFirst
<1> QED
  BY <1>1, <1>2, <1>3, <1>4, <1>5

(* The packet a slave sends is the first of its outbox; it arrives last.   *)
LEMMA SentFacts ==
    ASSUME TypeOK, NEW c \in Cnx, HandleOutputs(c)
    PROVE  /\ peer[c] # NoSlave
           /\ UNCHANGED <<ix, session, toSlave, peer, mapped, disk>>
           /\ \A d \in Cnx : d # c => outbox'[d] = outbox[d] /\ toMaster'[d] = toMaster[d]
           /\ ToSet(outbox'[c]) \subseteq ToSet(outbox[c])
           /\ Len(outbox'[c]) = Len(outbox[c]) - 1
           /\ ToSet(toMaster'[c]) \subseteq InFlight(c)
           /\ toMaster'[c] = toMaster[c] \/ (Open(c) /\ Len(toMaster'[c]) = Len(toMaster[c]) + 1)
<1>1. /\ outbox \in [Cnx -> Seq(Reply)] /\ toMaster \in [Cnx -> Seq(Reply)]
      /\ outbox[c] \in Seq(Reply) /\ toMaster[c] \in Seq(Reply) /\ outbox[c] # <<>>
  BY DEF TypeOK, HandleOutputs
<1>2. /\ outbox' = [outbox EXCEPT ![c] = Tail(@)]
      /\ \/ Open(c) /\ toMaster' = [toMaster EXCEPT ![c] = Append(@, Head(outbox[c]))]
         \/ UNCHANGED toMaster
      /\ peer[c] # NoSlave
      /\ UNCHANGED <<ix, session, toSlave, peer, mapped, disk>>
  BY DEF HandleOutputs, storage
<1>3. /\ Head(outbox[c]) \in Reply /\ Head(outbox[c]) \in ToSet(outbox[c])
      /\ ToSet(Tail(outbox[c])) \subseteq ToSet(outbox[c])
      /\ Len(Tail(outbox[c])) = Len(outbox[c]) - 1
  BY <1>1, TakeFirst
<1>4. /\ ToSet(Append(toMaster[c], Head(outbox[c]))) = ToSet(toMaster[c]) \cup {Head(outbox[c])}
      /\ Len(Append(toMaster[c], Head(outbox[c]))) = Len(toMaster[c]) + 1
  BY <1>1, <1>3, AddLast
<1> QED
  BY <1>1, <1>2, <1>3, <1>4 DEF InFlight

(* A query the master sends is first in what awaits an answer, and last on *)
(* its way.                                                                *)
LEMMA WriteFacts ==
    ASSUME TypeOK, NEW c \in Cnx, SlaveConnectionWrite(c)
    PROVE  /\ queries[c] \in Seq(Query) /\ queries[c] # <<>> /\ stage[c] # "closed"
           /\ Head(queries[c]) \in ToSet(queries[c])
           /\ queries'[c] = Tail(queries[c])
           /\ ToSet(queries'[c]) \subseteq ToSet(queries[c])
           /\ Len(queries'[c]) = Len(queries[c]) - 1
           /\ ToSet(response'[c]) = ToSet(response[c]) \cup {Head(queries[c])}
           /\ \/ peer[c] = NoSlave /\ toSlave'[c] = toSlave[c]
              \/ /\ peer[c] # NoSlave
                 /\ ToSet(toSlave'[c]) = ToSet(toSlave[c]) \cup {Head(queries[c])}
                 /\ Len(toSlave'[c]) = Len(toSlave[c]) + 1
           /\ \A d \in Cnx : d # c => /\ queries'[d] = queries[d] /\ response'[d] = response[d]
                                      /\ toSlave'[d] = toSlave[d]
           /\ UNCHANGED <<ix, stage, link, slaveCnx, toMaster, peer, outbox, mapped, disk>>
<1>1. /\ queries \in [Cnx -> Seq(Query)] /\ response \in [Cnx -> Seq(Query)]
      /\ toSlave \in [Cnx -> Seq(Query)]
      /\ queries[c] \in Seq(Query) /\ response[c] \in Seq(Query) /\ toSlave[c] \in Seq(Query)
      /\ queries[c] # <<>> /\ stage[c] # "closed"
  BY DEF TypeOK, SlaveConnectionWrite, Open
<1>2. /\ Head(queries[c]) \in Query /\ Head(queries[c]) \in ToSet(queries[c])
      /\ ToSet(Tail(queries[c])) \subseteq ToSet(queries[c])
      /\ Len(Tail(queries[c])) = Len(queries[c]) - 1
  BY <1>1, TakeFirst
<1>3. /\ ToSet(<<Head(queries[c])>> \o response[c]) = ToSet(response[c]) \cup {Head(queries[c])}
      /\ ToSet(Append(toSlave[c], Head(queries[c]))) = ToSet(toSlave[c]) \cup {Head(queries[c])}
      /\ Len(Append(toSlave[c], Head(queries[c]))) = Len(toSlave[c]) + 1
  BY <1>1, <1>2, AddFirst, AddLast
<1>4. /\ queries' = [queries EXCEPT ![c] = Tail(@)]
      /\ response' = [response EXCEPT ![c] = <<Head(queries[c])>> \o @]
      /\ toSlave' = IF peer[c] = NoSlave THEN toSlave
                    ELSE [toSlave EXCEPT ![c] = Append(@, Head(queries[c]))]
      /\ UNCHANGED <<ix, stage, link, slaveCnx, toMaster, peer, outbox, mapped, disk>>
  BY DEF SlaveConnectionWrite, storage
<1> QED
  BY <1>1, <1>2, <1>3, <1>4

(* A slave that notices the end of the connection drops what was under way. *)
LEMMA SlaveCloseFacts ==
    ASSUME TypeOK, NEW c \in Cnx, SlaveClose(c)
    PROVE  /\ peer[c] # NoSlave /\ peer'[c] = NoSlave
           /\ toSlave'[c] = <<>> /\ outbox'[c] = <<>>
           /\ \A d \in Cnx : d # c => /\ peer'[d] = peer[d] /\ toSlave'[d] = toSlave[d]
                                      /\ outbox'[d] = outbox[d]
           /\ UNCHANGED <<ix, session, toMaster, mapped, disk>>
BY DEF SlaveClose, TypeOK, storage

--------------------------------------------------------------------------------
(* The uids of the queries.                                                *)

LEMMA TurnFacts ==
    ASSUME TypeOK, MasterTurn, NEW c \in Cnx
    PROVE  /\ \/ queries'[c] = queries[c]
              \/ queries'[c] = <<>>
              \/ \E q \in Query : Fresh(c, q) /\ queries'[c] = <<q>> \o queries[c]
           /\ FewerAwaited(c)
           /\ ToSet(toMaster'[c]) \subseteq ToSet(toMaster[c])
           /\ UNCHANGED <<toSlave, outbox, mapped, disk>>
<1>1. /\ Idle(c) \/ Closes(c) \/ Connects(c) \/ Continues(c) \/ Merges(c) \/ Asks(c)
      /\ UNCHANGED <<toSlave, outbox, mapped, disk>>
  BY DEF MasterTurn
<1>2. ToSet(<<>>) = {} /\ toMaster[c] \in Seq(Reply) /\ queries[c] \in Seq(Query)
  BY NoQueries DEF TypeOK
<1>3. Consumes(c) => ToSet(toMaster'[c]) \subseteq ToSet(toMaster[c])
  BY <1>2, TakeFirst DEF Consumes
<1>4. ToSet(toMaster'[c]) \subseteq ToSet(toMaster[c])
  BY <1>1, <1>2, <1>3 DEF Idle, Closes, Connects, Continues, Merges, Asks
<1>5. FewerAwaited(c)
  BY <1>1, <1>2 DEF Idle, Closes, Connects, Continues, Merges, Asks, FewerAwaited
<1>6. ASSUME NEW q \in Query, queries[c] = <<>>, queries'[c] = <<q>>
      PROVE  queries'[c] = <<q>> \o queries[c]
  <2>1. <<q>> \in Seq(Query)
    OBVIOUS
  <2> QED
    BY <1>6, <2>1, ConcatEmptySeq
<1>7. \/ queries'[c] = queries[c]
      \/ queries'[c] = <<>>
      \/ \E q \in Query : Fresh(c, q) /\ queries'[c] = <<q>> \o queries[c]
  BY <1>1, <1>6 DEF Idle, Closes, Connects, Continues, Merges, Asks
<1> QED
  BY <1>1, <1>4, <1>5, <1>7

(* A uid that is free is that of no query and of no answer.                *)
LEMMA FreshFacts ==
    ASSUME NEW c \in Cnx, NEW q \in Query, Fresh(c, q)
    PROVE  \A m \in ToSet(queries[c]) \cup ToSet(response[c]) \cup ToSet(toSlave[c]) \cup InFlight(c) :
               m.uid # q.uid
<1>1. q.uid \notin InUse(c)
  BY DEF Fresh, Free
<1>2. ASSUME NEW m \in ToSet(queries[c]) \cup ToSet(response[c]) \cup ToSet(toSlave[c]) \cup InFlight(c)
      PROVE  m.uid \in InUse(c)
  <2>1. /\ UidsIn(queries[c]) \subseteq InUse(c) /\ UidsIn(response[c]) \subseteq InUse(c)
        /\ UidsIn(toSlave[c]) \subseteq InUse(c) /\ UidsIn(outbox[c]) \subseteq InUse(c)
        /\ UidsIn(toMaster[c]) \subseteq InUse(c)
    BY DEF InUse
  <2> QED
    BY <1>2, <2>1 DEF InFlight, UidsIn
<1> QED
  BY <1>1, <1>2

(* What UidsDiffer says of one connection.                                 *)
UidsDifferOn(c) ==
    /\ Apart(queries[c])
    /\ \A q \in ToSet(queries[c]) :
          \A m \in ToSet(response[c]) \cup ToSet(toSlave[c]) \cup InFlight(c) : m.uid # q.uid
    /\ \A q \in ToSet(response[c]), m \in ToSet(toSlave[c]) : q.uid = m.uid => q = m

LEMMA NoneApart == Apart(<<>>)
BY DEF Apart

LEMMA UidsFewer ==
    ASSUME NEW c \in Cnx, UidsDifferOn(c),
           Apart(queries'[c]), ToSet(queries'[c]) \subseteq ToSet(queries[c]),
           ToSet(response'[c]) \subseteq ToSet(response[c]),
           ToSet(toSlave'[c]) \subseteq ToSet(toSlave[c]),
           \A p \in ToSet(outbox'[c]) \cup ToSet(toMaster'[c]) :
               \E m \in InFlight(c) \cup ToSet(toSlave[c]) : m.uid = p.uid
    PROVE  UidsDifferOn(c)'
BY DEF UidsDifferOn, InFlight

LEMMA UidsTurn ==
    ASSUME TypeOK, NEW c \in Cnx, UidsDifferOn(c), MasterTurn
    PROVE  UidsDifferOn(c)'
<1>1. /\ \/ queries'[c] = queries[c]
         \/ queries'[c] = <<>>
         \/ \E q \in Query : Fresh(c, q) /\ queries'[c] = <<q>> \o queries[c]
      /\ ToSet(response'[c]) \subseteq ToSet(response[c])
      /\ ToSet(toMaster'[c]) \subseteq ToSet(toMaster[c])
      /\ toSlave'[c] = toSlave[c] /\ outbox'[c] = outbox[c]
  BY TurnFacts DEF FewerAwaited
<1>2. \A p \in ToSet(outbox'[c]) \cup ToSet(toMaster'[c]) :
          \E m \in InFlight(c) \cup ToSet(toSlave[c]) : m.uid = p.uid
  BY <1>1 DEF InFlight
<1>3. CASE queries'[c] = queries[c]
  BY <1>1, <1>2, <1>3, UidsFewer DEF UidsDifferOn
<1>4. CASE queries'[c] = <<>>
  BY <1>1, <1>2, <1>4, UidsFewer, NoneApart, NoQueries
<1>5. ASSUME NEW q \in Query, Fresh(c, q), queries'[c] = <<q>> \o queries[c] PROVE UidsDifferOn(c)'
  <2>1. queries[c] \in Seq(Query)
    BY DEF TypeOK
  <2>2. \A m \in ToSet(queries[c]) \cup ToSet(response[c]) \cup ToSet(toSlave[c]) \cup InFlight(c) :
            m.uid # q.uid
    BY <1>5, FreshFacts
  <2>3. Apart(queries'[c]) /\ ToSet(queries'[c]) = ToSet(queries[c]) \cup {q}
    BY <1>5, <2>1, <2>2, ApartAdded, AddFirst DEF UidsDifferOn
  <2>4. InFlight(c)' \subseteq InFlight(c)
    BY <1>1 DEF InFlight
  <2> QED
    BY <1>1, <2>2, <2>3, <2>4 DEF UidsDifferOn
<1> QED
  BY <1>1, <1>3, <1>4, <1>5

LEMMA UidsWrite ==
    ASSUME TypeOK, NEW c \in Cnx, UidsDifferOn(c), SlaveConnectionWrite(c)
    PROVE  UidsDifferOn(c)'
<1> DEFINE q == Head(queries[c])
<1>1. /\ queries[c] \in Seq(Query) /\ queries[c] # <<>> /\ q \in ToSet(queries[c])
      /\ queries'[c] = Tail(queries[c]) /\ ToSet(queries'[c]) \subseteq ToSet(queries[c])
      /\ ToSet(response'[c]) = ToSet(response[c]) \cup {q}
      /\ ToSet(toSlave'[c]) \subseteq ToSet(toSlave[c]) \cup {q}
      /\ InFlight(c)' = InFlight(c)
  BY WriteFacts DEF InFlight
<1>2. Apart(queries'[c]) /\ \A m \in ToSet(queries'[c]) : m.uid # q.uid
  BY <1>1, ApartTail DEF UidsDifferOn
<1>3. \A m \in ToSet(response[c]) \cup ToSet(toSlave[c]) \cup InFlight(c) : m.uid # q.uid
  BY <1>1 DEF UidsDifferOn
<1> HIDE DEF q
<1>4. \A r \in ToSet(response'[c]), m \in ToSet(toSlave'[c]) : r.uid = m.uid => r = m
  BY <1>1, <1>3 DEF UidsDifferOn
<1>5. \A r \in ToSet(queries'[c]) :
         \A m \in ToSet(response'[c]) \cup ToSet(toSlave'[c]) \cup InFlight(c) : m.uid # r.uid
  BY <1>1, <1>2 DEF UidsDifferOn
<1> QED
  BY <1>1, <1>2, <1>4, <1>5 DEF UidsDifferOn

LEMMA UidsSlave ==
    ASSUME TypeOK, NEW c \in Cnx, UidsDifferOn(c), Slave(c)
    PROVE  UidsDifferOn(c)'
<1>1. CASE SlaveAnswers(c)
  <2>1. PICK type \in Kinds \cup {"DELETED", "FAILURE"}, F \in SUBSET Files : EnqueuePacket(c, type, F)
    BY <1>1 DEF SlaveAnswers
  <2>2. CanProcess(c) /\ UNCHANGED <<queries, response, toMaster>>
    BY <1>1 DEF SlaveAnswers, session
  <2>3. PICK p \in Reply : p.uid = Asked(c).uid /\ ToSet(outbox'[c]) = ToSet(outbox[c]) \cup {p}
    BY <2>1, <2>2, EnqueuedFacts
  <2>4. Asked(c) \in ToSet(toSlave[c]) /\ ToSet(toSlave'[c]) \subseteq ToSet(toSlave[c])
    BY <2>1, <2>2, EnqueuedFacts
  <2>5. \A r \in ToSet(outbox'[c]) \cup ToSet(toMaster'[c]) :
            \E m \in InFlight(c) \cup ToSet(toSlave[c]) : m.uid = r.uid
    BY <2>2, <2>3, <2>4 DEF InFlight
  <2> QED
    BY <2>2, <2>4, <2>5, UidsFewer DEF UidsDifferOn
<1>2. CASE HandleOutputs(c)
  <2>1. /\ UNCHANGED <<queries, response, toSlave>>
        /\ ToSet(outbox'[c]) \subseteq ToSet(outbox[c]) /\ ToSet(toMaster'[c]) \subseteq InFlight(c)
    BY <1>2, SentFacts DEF session
  <2> QED
    BY <2>1, UidsFewer DEF UidsDifferOn, InFlight
<1>3. CASE SlaveClose(c)
  <2>1. /\ UNCHANGED <<queries, response, toMaster>>
        /\ ToSet(toSlave'[c]) = {} /\ ToSet(outbox'[c]) = {}
    BY <1>3, SlaveCloseFacts, NoQueries DEF session
  <2> QED
    BY <2>1, UidsFewer DEF UidsDifferOn, InFlight
<1> QED
  BY <1>1, <1>2, <1>3, SlaveSorted

(* A write or a step of a slave concerns one connection.                   *)
LEMMA Elsewhere ==
    ASSUME TypeOK, NEW d \in Cnx, SlaveConnectionWrite(d) \/ Slave(d), NEW c \in Cnx, c # d
    PROVE  /\ queries'[c] = queries[c] /\ response'[c] = response[c] /\ toSlave'[c] = toSlave[c]
           /\ outbox'[c] = outbox[c] /\ toMaster'[c] = toMaster[c] /\ peer'[c] = peer[c]
           /\ UNCHANGED <<ix, stage, link, slaveCnx>>
<1>1. CASE SlaveConnectionWrite(d)
  BY <1>1, WriteFacts
<1>2. CASE SlaveAnswers(d)
  <2>1. PICK type \in Kinds \cup {"DELETED", "FAILURE"}, F \in SUBSET Files : EnqueuePacket(d, type, F)
    BY <1>2 DEF SlaveAnswers
  <2>2. CanProcess(d) /\ UNCHANGED <<ix, stage, link, slaveCnx, queries, response, toMaster, peer>>
    BY <1>2 DEF SlaveAnswers, session
  <2> QED
    BY <2>1, <2>2, EnqueuedFacts
<1>3. CASE HandleOutputs(d)
  BY <1>3, SentFacts DEF session
<1>4. CASE SlaveClose(d)
  BY <1>4, SlaveCloseFacts DEF session
<1> QED
  BY <1>1, <1>2, <1>3, <1>4, SlaveSorted

LEMMA UidsStep ==
    ASSUME NamesAssumption, IInv, UidsDiffer, [Next]_vars
    PROVE  UidsDiffer'
<1>1. TypeOK /\ \A c \in Cnx : UidsDifferOn(c)
  BY DEF IInv, Inv, UidsDiffer, UidsDifferOn
<1> SUFFICES ASSUME NEW c \in Cnx PROVE UidsDifferOn(c)'
  BY DEF UidsDiffer, UidsDifferOn, InFlight
<1>2. CASE MasterTurn
  BY <1>1, <1>2, UidsTurn
<1>3. ASSUME NEW d \in Cnx, SlaveConnectionWrite(d) \/ Slave(d) PROVE UidsDifferOn(c)'
  <2>1. CASE d = c
    BY <1>1, <1>3, <2>1, UidsWrite, UidsSlave
  <2>2. CASE d # c
    BY <1>1, <1>3, <2>2, Elsewhere DEF UidsDifferOn, InFlight
  <2> QED
    BY <2>1, <2>2
<1>4. ASSUME NEW s \in Slaves, SlaveRestart(s) PROVE UidsDifferOn(c)'
  BY <1>1, <1>4 DEF SlaveRestart, session, UidsDifferOn, InFlight
<1> QED
  BY <1>2, <1>3, <1>4, StepsSorted

--------------------------------------------------------------------------------
(* What the disks hold, and what the answers to the deletelog say of it.   *)

LEMMA RepliesTyped ==
    ASSUME TypeOK, NEW c \in Cnx, NEW p \in InFlight(c)
    PROVE  p \in Reply /\ p.from \in Slaves
<1>1. outbox[c] \in Seq(Reply) /\ toMaster[c] \in Seq(Reply)
  BY DEF TypeOK
<1>2. p \in Reply
  BY <1>1 DEF InFlight, ToSet
<1> QED
  BY <1>2 DEF Reply

(* The answer that says that files are gone, and the files.                *)
LEMMA UnmapFacts ==
    ASSUME TypeOK, NEW s \in Slaves, NEW F \in SUBSET Files, FileUnmap(s, F)
    PROVE  /\ mapped'[s] = mapped[s] \ F
           /\ disk'[s] = disk[s] \ ((F \cap mapped[s]) \ Unremovable)
           /\ \A t \in Slaves : t # s => mapped'[t] = mapped[t] /\ disk'[t] = disk[t]
BY DEF FileUnmap, TypeOK

LEMMA AnswerFacts ==
    ASSUME TypeOK, NEW c \in Cnx, SlaveAnswers(c)
    PROVE  /\ \A s \in Slaves : mapped'[s] \subseteq mapped[s]
           /\ \A s \in Slaves : s # peer[c] => mapped'[s] = mapped[s]
           /\ \E p \in Reply :
                 /\ p.uid = Asked(c).uid /\ p.from = peer[c]
                 /\ ToSet(outbox'[c]) = ToSet(outbox[c]) \cup {p}
                 /\ Len(outbox'[c]) = Len(outbox[c]) + 1
                 /\ \/ /\ p.type = "DELETED" /\ Asked(c).kind \in Deletes
                       /\ mapped'[peer[c]] = mapped[peer[c]] \ Asked(c).files
                    \/ /\ p.type # "DELETED" /\ mapped' = mapped
                       /\ p.type = "FILE_LIST" => p.files = mapped[peer[c]]
                       /\ Asked(c).kind = "DELETE" => ~(Asked(c).files \subseteq mapped[peer[c]])
<1>1. PICK type \in Kinds \cup {"DELETED", "FAILURE"}, F \in SUBSET Files :
          EnqueuePacket(c, type, F) /\ (Deletion(c, type) \/ Lookup(c, type, F))
  BY DEF SlaveAnswers
<1>2. CanProcess(c)
  BY DEF SlaveAnswers
<1>3. peer[c] \in Slaves /\ Asked(c) \in Query
  BY <1>1, <1>2, EnqueuedFacts
<1>4. PICK p \in Reply :
          /\ p.uid = Asked(c).uid /\ p.type = type /\ p.files = F /\ p.from = peer[c]
          /\ ToSet(outbox'[c]) = ToSet(outbox[c]) \cup {p}
          /\ Len(outbox'[c]) = Len(outbox[c]) + 1
  BY <1>1, <1>2, EnqueuedFacts
<1>5. CASE Deletion(c, type)
  <2>1. Asked(c).files \in SUBSET Files
    BY <1>3 DEF Query
  <2>2. /\ mapped'[peer[c]] = mapped[peer[c]] \ Asked(c).files
        /\ \A t \in Slaves : t # peer[c] => mapped'[t] = mapped[t]
    BY <1>3, <1>5, <2>1, UnmapFacts DEF Deletion
  <2> QED
    BY <1>4, <1>5, <2>2 DEF Deletion
<1>6. CASE Lookup(c, type, F)
  BY <1>4, <1>6 DEF Lookup
<1> QED
  BY <1>1, <1>5, <1>6

LEMMA DisksStep ==
    ASSUME NamesAssumption, IInv, DisksOK, [Next]_vars
    PROVE  DisksOK'
<1>1. TypeOK
  BY DEF IInv, Inv
<1>2. CASE UNCHANGED <<mapped, disk>>
  BY <1>2 DEF DisksOK
<1>3. ASSUME NEW c \in Cnx, SlaveAnswers(c) PROVE DisksOK'
  <2>1. PICK type \in Kinds \cup {"DELETED", "FAILURE"}, F \in SUBSET Files :
            EnqueuePacket(c, type, F) /\ (Deletion(c, type) \/ Lookup(c, type, F))
    BY <1>3 DEF SlaveAnswers
  <2>2. peer[c] \in Slaves /\ Asked(c) \in Query
    BY <1>1, <1>3, <2>1, EnqueuedFacts DEF SlaveAnswers
  <2>3. CASE Deletion(c, type)
    <3>1. Asked(c).files \in SUBSET Files
      BY <2>2 DEF Query
    <3> QED
      BY <1>1, <2>2, <2>3, <3>1, UnmapFacts DEF Deletion, DisksOK
  <2> QED
    BY <1>2, <2>1, <2>3 DEF Lookup
<1>4. ASSUME NEW s \in Slaves, SlaveRestart(s) PROVE DisksOK'
  BY <1>1, <1>4 DEF SlaveRestart, DisksOK, TypeOK
<1>5. ASSUME NEW c \in Cnx, SlaveConnectionWrite(c) \/ HandleOutputs(c) \/ SlaveClose(c)
      PROVE  UNCHANGED <<mapped, disk>>
  BY <1>1, <1>5, WriteFacts, SentFacts, SlaveCloseFacts
<1>6. MasterTurn => UNCHANGED <<mapped, disk>>
  BY DEF MasterTurn
<1> QED
  BY <1>1, <1>2, <1>3, <1>4, <1>5, <1>6, StepsSorted, SlaveSorted

LEMMA AcksStep ==
    ASSUME NamesAssumption, IInv, UidsDiffer, DisksOK, AcksOK, [Next]_vars
    PROVE  AcksOK'
<1>1. TypeOK
  BY DEF IInv, Inv
<1> SUFFICES ASSUME NEW c \in Cnx, NEW q \in ToSet(response'[c]), NEW p \in InFlight(c)',
                    q.uid = p.uid, q.kind = "DELETELOG", p.type = "DELETED"
             PROVE  (q.files \ Unremovable) \cap mapped'[p.from] = {}
  BY DEF AcksOK
<1>2. ASSUME q \in ToSet(response[c]), p \in InFlight(c)
      PROVE  (q.files \ Unremovable) \cap mapped[p.from] = {}
  BY <1>2 DEF AcksOK
<1>3. CASE MasterTurn
  <2>1. q \in ToSet(response[c]) /\ p \in InFlight(c) /\ mapped' = mapped
    BY <1>1, <1>3, TurnFacts DEF FewerAwaited, InFlight
  <2> QED
    BY <1>2, <2>1
<1>4. ASSUME NEW d \in Cnx, SlaveConnectionWrite(d)
      PROVE  (q.files \ Unremovable) \cap mapped'[p.from] = {}
  <2>1. p \in InFlight(c) /\ mapped' = mapped
    BY <1>1, <1>4, WriteFacts DEF InFlight
  <2>2. q \in ToSet(response[c]) \/ q \in ToSet(queries[c])
    BY <1>1, <1>4, WriteFacts
  <2>3. q \notin ToSet(queries[c])
    BY <2>1 DEF UidsDiffer
  <2> QED
    BY <1>2, <2>1, <2>2, <2>3
<1>5. ASSUME NEW d \in Cnx, SlaveAnswers(d)
      PROVE  (q.files \ Unremovable) \cap mapped'[p.from] = {}
  <2>1. /\ \A s \in Slaves : mapped'[s] \subseteq mapped[s]
        /\ \E r \in Reply :
              /\ r.uid = Asked(d).uid /\ r.from = peer[d]
              /\ ToSet(outbox'[d]) = ToSet(outbox[d]) \cup {r}
              /\ r.type = "DELETED" => mapped'[peer[d]] = mapped[peer[d]] \ Asked(d).files
    BY <1>1, <1>5, AnswerFacts
  <2>2. UNCHANGED <<response, toMaster>> /\ Asked(d) \in ToSet(toSlave[d])
    BY <1>1, <1>5, EnqueuedFacts DEF SlaveAnswers, session
  <2>4. CASE p \in InFlight(c)
    <3>1. p.from \in Slaves
      BY <1>1, <2>4, RepliesTyped
    <3> QED
      BY <1>2, <2>1, <2>2, <2>4, <3>1
  <2>5. CASE p \notin InFlight(c)
    <3>1. c = d
      <4>1. CASE c # d
        <5>1. outbox'[c] = outbox[c]
          BY <1>1, <1>5, <4>1, EnqueuedFacts, ZenonT(40) DEF SlaveAnswers
        <5> QED
          BY <2>2, <2>5, <5>1 DEF InFlight
      <4> QED
        BY <4>1
    <3>2. p.uid = Asked(c).uid /\ p.from = peer[c] /\ mapped'[peer[c]] = mapped[peer[c]] \ Asked(c).files
      BY <2>1, <2>2, <2>5, <3>1 DEF InFlight
    <3>3. q = Asked(c)
      BY <2>2, <3>1, <3>2 DEF UidsDiffer
    <3> QED
      BY <3>2, <3>3
  <2> QED
    BY <2>4, <2>5
<1>6. ASSUME NEW d \in Cnx, HandleOutputs(d) \/ SlaveClose(d)
      PROVE  (q.files \ Unremovable) \cap mapped'[p.from] = {}
  <2>1. UNCHANGED <<response, mapped>>
    BY <1>1, <1>6, SentFacts, SlaveCloseFacts DEF session
  <2>2. InFlight(c)' \subseteq InFlight(c)
    <3>1. CASE HandleOutputs(d)
      BY <1>1, <3>1, SentFacts DEF InFlight
    <3>2. CASE SlaveClose(d)
      BY <1>1, <3>2, SlaveCloseFacts, NoQueries DEF InFlight
    <3> QED
      BY <1>6, <3>1, <3>2
  <2> QED
    BY <1>2, <2>1, <2>2
<1>7. ASSUME NEW s \in Slaves, SlaveRestart(s)
      PROVE  (q.files \ Unremovable) \cap mapped'[p.from] = {}
  <2>1. q \in ToSet(response[c]) /\ p \in InFlight(c)
    BY <1>7 DEF SlaveRestart, session, InFlight
  <2>2. p.from \in Slaves
    BY <1>1, <2>1, RepliesTyped
  <2>3. mapped'[p.from] \subseteq mapped[p.from] \cup Unremovable
    BY <1>1, <1>7, <2>2 DEF SlaveRestart, DisksOK, TypeOK
  <2> QED
    BY <1>2, <2>1, <2>3
<1> QED
  BY <1>1, <1>3, <1>4, <1>5, <1>6, <1>7, StepsSorted, SlaveSorted

(* With what is on its way, the invariant of the whole link.               *)
Acks == UidsDiffer /\ DisksOK /\ AcksOK

LEMMA AcksInvariance == Spec => [](IInv /\ Acks)
<1>1. Init => IInv /\ Acks
  <2>1. ToSet(<<>>) = {}
    BY NoQueries
  <2> QED
    BY <2>1, NamesAssumption, InitInv, NoneApart DEF Init, Acks, UidsDiffer, DisksOK, AcksOK, InFlight
<1>2. IInv /\ Acks /\ [Next]_vars => (IInv /\ Acks)'
  BY NamesAssumption, StepInv, UidsStep, DisksStep, AcksStep DEF Acks
<1> QED
  BY <1>1, <1>2, PTL DEF Spec

(* While an answer to the deletelog is under way, the slave it comes from  *)
(* does not map the files the lines named to it, but for those it cannot   *)
(* remove: whatever is lost, refused, late or started again meanwhile,     *)
(* emptying the deletelog in deletelog_query_callback loses no other file. *)
THEOREM DeletelogAnswersMeanGone == Spec => []AckMeansGone
<1>1. IInv /\ Acks => AckMeansGone
  <2> SUFFICES ASSUME IInv, Acks, NEW c \in Cnx PROVE
          \A q \in ToSet(response[c]), p \in ToSet(outbox[c] \o toMaster[c]) :
              q.uid = p.uid /\ q.kind = "DELETELOG" /\ p.type = "DELETED" =>
                  (q.files \ Unremovable) \cap mapped[p.from] = {}
    BY DEF AckMeansGone
  <2>1. outbox[c] \in Seq(Reply) /\ toMaster[c] \in Seq(Reply)
    BY DEF IInv, Inv, TypeOK
  <2>2. ToSet(outbox[c] \o toMaster[c]) = InFlight(c)
    BY <2>1, ConcatMembers DEF InFlight
  <2> QED
    BY <2>2 DEF Acks, AcksOK
<1> QED
  BY <1>1, AcksInvariance, PTL

--------------------------------------------------------------------------------
(* What is on its way.                                                     *)

(* What TrafficOK says of one connection.                                  *)
TrafficOn(c) ==
    /\ stage[c] = "connecting" => OnItsWay(c) <= 1
    /\ stage[c] = "closed" => toMaster[c] = <<>>
    /\ peer[c] = NoSlave => toSlave[c] = <<>> /\ outbox[c] = <<>>
    /\ link[c] # NoSlave /\ peer[c] # NoSlave => link[c] = peer[c]
    /\ \A p \in ToSet(outbox[c]) : p.from = peer[c]
    /\ peer[c] # NoSlave => \A p \in ToSet(toMaster[c]) : p.from = peer[c]
    /\ stage[c] = "connected" =>
          \A m \in ToSet(toSlave[c]) : m.kind \in {"SFVLOG", "STATS", "DELETE"}
    /\ \A m \in ToSet(queries[c]) \cup ToSet(toSlave[c]) :
          m.kind = "DELETE" => \E f \in Files : m.files = {f}
OneProcessEach == \A c, d \in Cnx : peer[c] = peer[d] /\ peer[c] # NoSlave => c = d

LEMMA Lengths ==
    ASSUME TypeOK, NEW c \in Cnx
    PROVE  /\ Len(queries[c]) \in Nat /\ Len(toSlave[c]) \in Nat
           /\ Len(outbox[c]) \in Nat /\ Len(toMaster[c]) \in Nat
           /\ queries[c] # <<>> => Len(queries[c]) > 0
           /\ toSlave[c] # <<>> => Len(toSlave[c]) > 0
           /\ outbox[c] # <<>> => Len(outbox[c]) > 0
           /\ toMaster[c] # <<>> => Len(toMaster[c]) > 0
<1>1. /\ queries[c] \in Seq(Query) /\ toSlave[c] \in Seq(Query)
      /\ outbox[c] \in Seq(Reply) /\ toMaster[c] \in Seq(Reply)
  BY DEF TypeOK
<1> QED
  BY <1>1, LenProperties, EmptySeq

(* A packet moves on or is lost; none is made.                             *)
LEMMA MovesOn ==
    ASSUME TypeOK, NEW c \in Cnx, OnItsWay(c) <= 1,
           NEW i \in Int, i = Len(queries'[c]), NEW j \in Int, j = Len(toSlave'[c]),
           NEW k \in Int, k = Len(outbox'[c]), NEW l \in Int, l = Len(toMaster'[c]),
           \/ /\ i <= Len(queries[c]) /\ j <= Len(toSlave[c])
              /\ k <= Len(outbox[c]) /\ l <= Len(toMaster[c])
           \/ /\ i = Len(queries[c]) - 1 /\ j = Len(toSlave[c]) + 1
              /\ k = Len(outbox[c]) /\ l = Len(toMaster[c])
           \/ /\ i = Len(queries[c]) /\ j = Len(toSlave[c]) - 1
              /\ k = Len(outbox[c]) + 1 /\ l = Len(toMaster[c])
           \/ /\ i = Len(queries[c]) /\ j = Len(toSlave[c])
              /\ k = Len(outbox[c]) - 1 /\ l = Len(toMaster[c]) + 1
    PROVE  OnItsWay(c)' <= 1
<1> DEFINE u == Len(queries[c])
           v == Len(toSlave[c])
           x == Len(outbox[c])
           y == Len(toMaster[c])
<1>1. u \in Nat /\ v \in Nat /\ x \in Nat /\ y \in Nat
  BY Lengths
<1>2. u + v + x + y <= 1
  BY DEF OnItsWay
<1>3. \/ i <= u /\ j <= v /\ k <= x /\ l <= y
      \/ i = u - 1 /\ j = v + 1 /\ k = x /\ l = y
      \/ i = u /\ j = v - 1 /\ k = x + 1 /\ l = y
      \/ i = u /\ j = v /\ k = x - 1 /\ l = y + 1
  OBVIOUS
<1> SUFFICES i + j + k + l <= 1
  BY DEF OnItsWay
<1> HIDE DEF u, v, x, y
<1>4. CASE i <= u /\ j <= v /\ k <= x /\ l <= y
  BY ONLY <1>1, <1>2, <1>4, i \in Int, j \in Int, k \in Int, l \in Int
<1>5. CASE i = u - 1 /\ j = v + 1 /\ k = x /\ l = y
  BY ONLY <1>1, <1>2, <1>5
<1>6. CASE i = u /\ j = v - 1 /\ k = x + 1 /\ l = y
  BY ONLY <1>1, <1>2, <1>6
<1>7. CASE i = u /\ j = v /\ k = x - 1 /\ l = y + 1
  BY ONLY <1>1, <1>2, <1>7
<1> QED
  BY <1>3, <1>4, <1>5, <1>6, <1>7

(* A connecting slave that has sent an answer has nothing else on its way. *)
LEMMA NothingElse ==
    ASSUME TypeOK, NEW c \in Cnx, TrafficOn(c), stage[c] = "connecting", Consumes(c)
    PROVE  /\ toSlave[c] = <<>> /\ outbox[c] = <<>> /\ queries[c] = <<>>
           /\ toMaster'[c] = <<>>
<1>1. toMaster[c] \in Seq(Reply) /\ toMaster[c] # <<>> /\ toMaster'[c] = Tail(toMaster[c])
  BY DEF TypeOK, Consumes
<1>2. toMaster'[c] \in Seq(Reply) /\ Len(toMaster'[c]) = Len(toMaster[c]) - 1
  BY <1>1, HeadTailProperties
<1>3. OnItsWay(c) <= 1
  BY DEF TrafficOn
<1> DEFINE i == Len(queries[c])
           j == Len(toSlave[c])
           k == Len(outbox[c])
           l == Len(toMaster[c])
<1>4. i \in Nat /\ j \in Nat /\ k \in Nat /\ l \in Nat /\ l > 0
  BY <1>1, Lengths
<1>5. i + j + k + l <= 1
  BY <1>3 DEF OnItsWay
<1> HIDE DEF i, j, k, l
<1>6. l = 1 /\ i = 0 /\ j = 0 /\ k = 0
  BY <1>4, <1>5
<1>7. Len(toMaster[c]) = 1 /\ Len(queries[c]) = 0 /\ Len(toSlave[c]) = 0 /\ Len(outbox[c]) = 0
  BY <1>6 DEF i, j, k, l
<1>8. Len(toMaster[c]) = 1 /\ toSlave[c] = <<>> /\ outbox[c] = <<>> /\ queries[c] = <<>>
  BY <1>7, Lengths
<1> QED
  BY <1>2, <1>8, EmptySeq

LEMMA OneOnItsWay ==
    ASSUME NEW c \in Cnx, toSlave[c] = <<>>, outbox[c] = <<>>, toMaster'[c] = <<>>,
           NEW q, queries'[c] = <<q>>, UNCHANGED <<toSlave, outbox>>
    PROVE  OnItsWay(c)' <= 1
<1>1. Len(<<>>) = 0 /\ Len(<<q>>) = 1
  OBVIOUS
<1> DEFINE i == Len(queries'[c])
           j == Len(toSlave'[c])
           k == Len(outbox'[c])
           l == Len(toMaster'[c])
<1>2. i = 1 /\ j = 0 /\ k = 0 /\ l = 0
  BY <1>1
<1> SUFFICES i + j + k + l <= 1
  BY DEF OnItsWay
<1> HIDE DEF i, j, k, l
<1> QED
  BY <1>2

LEMMA TrafficTurn ==
    ASSUME NamesAssumption, IInv, NEW c \in Cnx, TrafficOn(c), MasterTurn
    PROVE  TrafficOn(c)'
<1>1. /\ TypeOK /\ UNCHANGED <<toSlave, outbox>> /\ "DELETE" \notin HandshakeKinds
      /\ ToSet(<<>>) = {}
  BY NoQueries DEF IInv, Inv, MasterTurn, HandshakeKinds
<1>2. /\ queries[c] \in Seq(Query) /\ toMaster[c] \in Seq(Reply)
      /\ peer[c] \in Slaves \cup {NoSlave}
  BY <1>1 DEF TypeOK
<1>3. \A q : <<q>> \in Seq({q}) /\ ToSet(<<q>>) = {q}
  <2> TAKE q
  <2>1. <<>> \in Seq({q}) /\ <<q>> \in Seq({q}) /\ q \in {q}
    OBVIOUS
  <2>3. ToSet(<<q>> \o <<>>) = ToSet(<<>>) \cup {q}
    BY <2>1, AddFirst
  <2>2. <<q>> \o <<>> = <<q>>
    BY <2>1, ConcatEmptySeq
  <2> QED
    BY <1>1, <2>1, <2>2, <2>3
<1>4. CASE Idle(c)
  <2>1. Consumes(c) => /\ Len(toMaster'[c]) = Len(toMaster[c]) - 1
                       /\ ToSet(toMaster'[c]) \subseteq ToSet(toMaster[c])
                       /\ toMaster[c] # <<>>
    BY <1>2, TakeFirst DEF Consumes
  <2>2. stage[c] = "connecting" => OnItsWay(c) <= 1
    BY DEF TrafficOn
  <2>3. /\ queries'[c] = queries[c] /\ toSlave'[c] = toSlave[c] /\ outbox'[c] = outbox[c]
        /\ \/ Len(toMaster'[c]) = Len(toMaster[c])
           \/ Len(toMaster'[c]) = Len(toMaster[c]) - 1
        /\ stage'[c] = stage[c]
    BY <1>1, <1>4, <2>1 DEF Idle, SameEnd
  <2>4. /\ Len(queries'[c]) \in Int /\ Len(toSlave'[c]) \in Int /\ Len(outbox'[c]) \in Int
        /\ Len(toMaster'[c]) \in Int
        /\ Len(queries'[c]) <= Len(queries[c]) /\ Len(toSlave'[c]) <= Len(toSlave[c])
        /\ Len(outbox'[c]) <= Len(outbox[c]) /\ Len(toMaster'[c]) <= Len(toMaster[c])
    BY <1>1, <2>3, Lengths
  <2>5. stage'[c] = "connecting" => OnItsWay(c)' <= 1
    BY <1>1, <2>2, <2>3, <2>4, MovesOn
  <2> QED
    BY <1>1, <1>4, <2>1, <2>5 DEF TrafficOn, Idle, SameEnd
<1>5. CASE Closes(c)
  BY <1>1, <1>5 DEF TrafficOn, Closes
<1>6. CASE Connects(c)
  <2>1. PICK q \in Query : q.kind \in HandshakeKinds /\ queries'[c] = <<q>>
    BY <1>6 DEF Connects
  <2>2. toSlave[c] = <<>> /\ outbox[c] = <<>> /\ toMaster'[c] = <<>>
    BY <1>6 DEF TrafficOn, Connects
  <2>3. OnItsWay(c)' <= 1
    BY <1>1, <2>1, <2>2, OneOnItsWay
  <2>4. ToSet(queries'[c]) = {q}
    BY <1>3, <2>1
  <2> QED
    BY <1>1, <1>6, <2>1, <2>2, <2>3, <2>4, NamesAssumption DEF TrafficOn, Connects
<1>7. CASE Continues(c)
  <2>1. PICK q \in Query : q.kind \in HandshakeKinds /\ queries'[c] = <<q>>
    BY <1>7 DEF Continues
  <2>2. toSlave[c] = <<>> /\ outbox[c] = <<>> /\ toMaster'[c] = <<>>
    BY <1>1, <1>7, NothingElse DEF Continues
  <2>3. OnItsWay(c)' <= 1
    BY <1>1, <2>1, <2>2, OneOnItsWay
  <2>4. ToSet(queries'[c]) = {q}
    BY <1>3, <2>1
  <2>5. Answer(c) \in ToSet(toMaster[c])
    BY <1>2, <1>7, TakeFirst DEF Continues, Consumes, Answer
  <2>6. peer[c] # NoSlave => Answer(c).from = peer[c]
    BY <2>5 DEF TrafficOn
  <2> QED
    BY <1>1, <1>7, <2>1, <2>2, <2>3, <2>4, <2>6 DEF TrafficOn, Continues
<1>8. CASE Merges(c)
  <2>1. toSlave[c] = <<>> /\ outbox[c] = <<>> /\ toMaster'[c] = <<>>
    BY <1>1, <1>8, NothingElse DEF Merges
  <2>2. \A m \in ToSet(queries'[c]) : m.kind # "DELETE"
    <3>1. CASE queries'[c] = <<>>
      BY <1>1, <3>1
    <3>2. ASSUME NEW q \in Query, q.kind = "SFVLOG", queries'[c] = <<q>>
          PROVE  \A m \in ToSet(queries'[c]) : m.kind # "DELETE"
      BY <1>3, <3>2
    <3> QED
      BY <1>8, <3>1, <3>2 DEF Merges
  <2> QED
    BY <1>1, <1>8, <2>1, <2>2 DEF TrafficOn, Merges
<1>9. CASE Asks(c)
  <2>1. PICK q \in Query :
            /\ queries'[c] = <<q>> \o queries[c]
            /\ q.kind = "STATS" \/ \E f \in Files : q.kind = "DELETE" /\ q.files = {f}
    BY <1>9 DEF Asks
  <2>2. ToSet(queries'[c]) = ToSet(queries[c]) \cup {q}
    BY <1>2, <2>1, AddFirst
  <2> QED
    BY <1>1, <1>9, <2>1, <2>2 DEF TrafficOn, Asks, SameEnd
<1> QED
  BY <1>4, <1>5, <1>6, <1>7, <1>8, <1>9 DEF MasterTurn

LEMMA TrafficWrite ==
    ASSUME IInv, NEW c \in Cnx, TrafficOn(c), SlaveConnectionWrite(c)
    PROVE  TrafficOn(c)'
<1>1. TypeOK
  BY DEF IInv, Inv
<1> DEFINE q == Head(queries[c])
<1>2. /\ queries[c] # <<>> /\ q \in ToSet(queries[c])
      /\ ToSet(queries'[c]) \subseteq ToSet(queries[c])
      /\ Len(queries'[c]) = Len(queries[c]) - 1
      /\ \/ peer[c] = NoSlave /\ toSlave'[c] = toSlave[c]
         \/ /\ peer[c] # NoSlave
            /\ ToSet(toSlave'[c]) = ToSet(toSlave[c]) \cup {q}
            /\ Len(toSlave'[c]) = Len(toSlave[c]) + 1
      /\ UNCHANGED <<stage, link, toMaster, peer, outbox>>
  BY <1>1, WriteFacts
<1>3. stage[c] = "connected" => q.kind \in {"SFVLOG", "STATS", "DELETE"}
  BY <1>2 DEF IInv, Inv, OneAtATime, Outstanding
<1> HIDE DEF q
<1>4. stage[c] = "connecting" => OnItsWay(c) <= 1
  BY DEF TrafficOn
<1>5. /\ Len(queries'[c]) = Len(queries[c]) - 1 /\ Len(outbox'[c]) = Len(outbox[c])
      /\ Len(toMaster'[c]) = Len(toMaster[c])
      /\ Len(toSlave'[c]) = Len(toSlave[c]) \/ Len(toSlave'[c]) = Len(toSlave[c]) + 1
      /\ Len(queries'[c]) \in Int /\ Len(outbox'[c]) \in Int
      /\ Len(toMaster'[c]) \in Int /\ Len(toSlave'[c]) \in Int
      /\ Len(queries'[c]) <= Len(queries[c]) /\ Len(outbox'[c]) <= Len(outbox[c])
      /\ Len(toMaster'[c]) <= Len(toMaster[c])
      /\ Len(toSlave'[c]) <= Len(toSlave[c]) \/ Len(toSlave'[c]) = Len(toSlave[c]) + 1
  BY <1>1, <1>2, Lengths
<1>6. stage'[c] = "connecting" => OnItsWay(c)' <= 1
  BY <1>1, <1>2, <1>4, <1>5, MovesOn
<1> QED
  BY <1>2, <1>3, <1>6 DEF TrafficOn

LEMMA TrafficSlave ==
    ASSUME TypeOK, NEW c \in Cnx, TrafficOn(c), Slave(c)
    PROVE  TrafficOn(c)'
<1>1. CASE SlaveAnswers(c)
  <2>1. PICK p \in Reply : /\ p.from = peer[c]
                           /\ ToSet(outbox'[c]) = ToSet(outbox[c]) \cup {p}
                           /\ Len(outbox'[c]) = Len(outbox[c]) + 1
    BY <1>1, AnswerFacts
  <2>2. /\ UNCHANGED <<stage, link, queries, toMaster, peer>> /\ peer[c] # NoSlave
        /\ toSlave[c] # <<>> /\ ToSet(toSlave'[c]) \subseteq ToSet(toSlave[c])
        /\ Len(toSlave'[c]) = Len(toSlave[c]) - 1
    BY <1>1, EnqueuedFacts DEF SlaveAnswers, session, CanProcess
  <2>3. /\ Len(queries'[c]) = Len(queries[c]) /\ Len(toMaster'[c]) = Len(toMaster[c])
        /\ Len(queries'[c]) \in Int /\ Len(outbox'[c]) \in Int
        /\ Len(toMaster'[c]) \in Int /\ Len(toSlave'[c]) \in Int
    BY <2>1, <2>2, Lengths
  <2>4. stage'[c] = "connecting" => OnItsWay(c)' <= 1
    BY <2>1, <2>2, <2>3, MovesOn DEF TrafficOn
  <2> QED
    BY <2>1, <2>2, <2>4 DEF TrafficOn
<1>2. CASE HandleOutputs(c)
  <2>1. /\ UNCHANGED <<stage, link, queries, toSlave, peer>> /\ peer[c] # NoSlave
        /\ outbox[c] # <<>> /\ ToSet(outbox'[c]) \subseteq ToSet(outbox[c])
        /\ Len(outbox'[c]) = Len(outbox[c]) - 1
        /\ ToSet(toMaster'[c]) \subseteq ToSet(outbox[c]) \cup ToSet(toMaster[c])
        /\ toMaster'[c] = toMaster[c] \/ (stage[c] # "closed" /\ Len(toMaster'[c]) = Len(toMaster[c]) + 1)
    BY <1>2, SentFacts DEF session, InFlight, Open, HandleOutputs
  <2>2. /\ Len(queries'[c]) = Len(queries[c]) /\ Len(toSlave'[c]) = Len(toSlave[c])
        /\ Len(queries'[c]) \in Int /\ Len(outbox'[c]) \in Int
        /\ Len(toMaster'[c]) \in Int /\ Len(toSlave'[c]) \in Int
        /\ Len(queries'[c]) <= Len(queries[c]) /\ Len(toSlave'[c]) <= Len(toSlave[c])
        /\ Len(outbox'[c]) <= Len(outbox[c])
        /\ Len(toMaster'[c]) <= Len(toMaster[c]) \/ Len(toMaster'[c]) = Len(toMaster[c]) + 1
    BY <2>1, Lengths
  <2>3. stage'[c] = "connecting" => OnItsWay(c)' <= 1
    BY <2>1, <2>2, MovesOn DEF TrafficOn
  <2> QED
    BY <2>1, <2>3 DEF TrafficOn
<1>3. CASE SlaveClose(c)
  <2>1. /\ UNCHANGED <<stage, link, queries, toMaster>> /\ peer'[c] = NoSlave
        /\ toSlave'[c] = <<>> /\ outbox'[c] = <<>>
        /\ ToSet(<<>>) = {} /\ Len(<<>>) = 0
    BY <1>3, SlaveCloseFacts, NoQueries DEF session
  <2>2. /\ Len(queries'[c]) \in Int /\ Len(outbox'[c]) \in Int
        /\ Len(toMaster'[c]) \in Int /\ Len(toSlave'[c]) \in Int
        /\ Len(queries'[c]) <= Len(queries[c]) /\ Len(toSlave'[c]) <= Len(toSlave[c])
        /\ Len(outbox'[c]) <= Len(outbox[c]) /\ Len(toMaster'[c]) <= Len(toMaster[c])
    BY <2>1, Lengths
  <2>3. stage'[c] = "connecting" => OnItsWay(c)' <= 1
    BY <2>1, <2>2, MovesOn DEF TrafficOn
  <2> QED
    BY <2>1, <2>3 DEF TrafficOn
<1> QED
  BY <1>1, <1>2, <1>3, SlaveSorted

LEMMA OneProcessStep ==
    ASSUME NamesAssumption, IInv, OneProcessEach, [Next]_vars
    PROVE  OneProcessEach'
<1>1. TypeOK
  BY DEF IInv, Inv
<1>2. CASE peer' = peer
  BY <1>2 DEF OneProcessEach
<1>3. CASE MasterTurn
  <2>1. ASSUME NEW c \in Cnx, NEW s \in Slaves,
               \A d \in Cnx : peer[d] # s, peer' = [peer EXCEPT ![c] = s]
        PROVE  OneProcessEach'
    <3>1. peer'[c] = s /\ \A d \in Cnx : d # c => peer'[d] = peer[d]
      BY <1>1, <2>1 DEF TypeOK
    <3> QED
      BY <2>1, <3>1 DEF OneProcessEach
  <2> QED
    BY <1>2, <1>3, <2>1 DEF MasterTurn
<1>4. ASSUME NEW c \in Cnx, SlaveConnectionWrite(c) \/ SlaveAnswers(c) \/ HandleOutputs(c)
      PROVE  peer' = peer
  BY <1>1, <1>4, WriteFacts, SentFacts DEF SlaveAnswers
<1>5. ASSUME NEW c \in Cnx, SlaveClose(c) PROVE OneProcessEach'
  BY <1>1, <1>5, SlaveCloseFacts DEF OneProcessEach
<1>6. ASSUME NEW s \in Slaves, SlaveRestart(s) PROVE peer' = peer
  BY <1>6 DEF SlaveRestart
<1> QED
  BY <1>1, <1>2, <1>3, <1>4, <1>5, <1>6, StepsSorted, SlaveSorted

LEMMA TrafficStep ==
    ASSUME NamesAssumption, IInv, TrafficOK, [Next]_vars
    PROVE  TrafficOK'
<1>1. TypeOK /\ OneProcessEach /\ \A c \in Cnx : TrafficOn(c)
  BY DEF IInv, Inv, TrafficOK, TrafficOn, OneProcessEach
<1>2. OneProcessEach'
  BY <1>1, OneProcessStep
<1> SUFFICES ASSUME NEW c \in Cnx PROVE TrafficOn(c)'
  BY <1>2 DEF TrafficOK, TrafficOn, OneProcessEach, OnItsWay
<1>3. CASE MasterTurn
  BY <1>1, <1>3, TrafficTurn
<1>4. ASSUME NEW d \in Cnx, SlaveConnectionWrite(d) \/ Slave(d) PROVE TrafficOn(c)'
  <2>1. CASE d = c
    BY <1>1, <1>4, <2>1, TrafficWrite, TrafficSlave
  <2>2. CASE d # c
    BY <1>1, <1>4, <2>2, Elsewhere, ZenonT(40) DEF TrafficOn, OnItsWay
  <2> QED
    BY <2>1, <2>2
<1>5. ASSUME NEW s \in Slaves, SlaveRestart(s) PROVE TrafficOn(c)'
  BY <1>1, <1>5 DEF SlaveRestart, session, TrafficOn, OnItsWay
<1> QED
  BY <1>3, <1>4, <1>5, StepsSorted

--------------------------------------------------------------------------------
(* What the master lists of a slave, and what the slave has.               *)

(* A slave that has come back, while the master still waits on the         *)
(* connection it has left, is told to delete nothing, unless this one will *)
(* bring no list anymore.                                                  *)
LeftBehind ==
    \A c, d \in Cnx :
        /\ c # d /\ link[c] # NoSlave /\ peer[d] = link[c]
        /\ \E m \in ToSet(toSlave[d]) : m.kind \in Deletes
        => stage[c] = "connecting" /\ toMaster[c] = <<>>

(* The list on its way names nothing the slave does not have, and all that *)
(* it has if it is still there.                                            *)
SnapshotOK ==
    \A c \in Cnx : link[c] # NoSlave /\ stage[c] = "connecting" =>
        \A p \in InFlight(c) : p.type = "FILE_LIST" =>
            /\ p.files \subseteq mapped[link[c]]
            /\ peer[c] = link[c] => mapped[link[c]] \subseteq p.files

(* A slave is being told to delete a file.                                 *)
Doomed(c, f) ==
    \E m \in ToSet(queries[c]) \cup ToSet(toSlave[c]) : m.kind = "DELETE" /\ f \in m.files
ListedOn(c) ==
    /\ link[c] # NoSlave => ix.avail[c] \subseteq mapped[link[c]]
    /\ link[c] # NoSlave /\ peer[c] = link[c] /\ stage[c] = "connected" =>
          \A f \in mapped[link[c]] : f \in ix.avail[c] \/ Doomed(c, f)
    /\ \A f \in ix.avail[c] : ~Doomed(c, f)
ListedOK == \A c \in Cnx : ListedOn(c)

(* The first of a collection and the others are all there is.              *)
LEMMA FirstAndRest ==
    ASSUME NEW S, NEW q \in Seq(S), q # <<>>
    PROVE  ToSet(q) = ToSet(Tail(q)) \cup {Head(q)}
<1>1. /\ Len(Tail(q)) = Len(q) - 1 /\ Tail(q) \in Seq(S)
      /\ \A i \in 1 .. Len(Tail(q)) : Tail(q)[i] = q[i + 1]
  BY HeadTailProperties
<1>2. /\ Len(q) \in Nat \ {0} /\ DOMAIN q = 1 .. Len(q) /\ DOMAIN Tail(q) = 1 .. Len(q) - 1
      /\ Head(q) = q[1]
  BY <1>1, LenProperties, EmptySeq
<1>3. \A i \in DOMAIN q : i = 1 \/ (i - 1 \in DOMAIN Tail(q) /\ Tail(q)[i - 1] = q[i])
  BY <1>1, <1>2
<1>4. ToSet(q) \subseteq ToSet(Tail(q)) \cup {Head(q)}
  BY <1>2, <1>3 DEF ToSet
<1> QED
  BY <1>4, TakeFirst

LEMMA LeftBehindStep ==
    ASSUME NamesAssumption, IInv, TrafficOK, LeftBehind, [Next]_vars
    PROVE  LeftBehind'
<1>1. /\ TypeOK /\ LinkOK /\ OneAtATime /\ OneProcessEach
      /\ \A c \in Cnx : TrafficOn(c)
  BY DEF IInv, Inv, TrafficOK, TrafficOn, OneProcessEach
<1> SUFFICES ASSUME NEW c \in Cnx, NEW d \in Cnx, c # d,
                    link'[c] # NoSlave, peer'[d] = link'[c],
                    NEW m \in ToSet(toSlave'[d]), m.kind \in Deletes
             PROVE  stage'[c] = "connecting" /\ toMaster'[c] = <<>>
  BY DEF LeftBehind
<1>2. ASSUME link[c] = link'[c], peer[d] = link[c], m \in ToSet(toSlave[d])
      PROVE  stage[c] = "connecting" /\ toMaster[c] = <<>>
  BY <1>2 DEF LeftBehind
<1>3. CASE MasterTurn
  <2>1. toSlave' = toSlave /\ m \in ToSet(toSlave[d])
    BY <1>3 DEF MasterTurn
  <2>2. toSlave[d] # <<>>
    BY <2>1, NoQueries
  <2>3. peer[d] # NoSlave
    BY <1>1, <2>2 DEF TrafficOn
  <2>4. peer'[d] = peer[d]
    BY <1>3, <2>3 DEF MasterTurn, Idle, Closes, Connects, Continues, Merges, Asks, SameEnd
  <2>5. CASE link[c] = link'[c]
    <3>1. stage[c] = "connecting" /\ toMaster[c] = <<>>
      BY <1>2, <2>1, <2>4, <2>5
    <3>2. ~Closes(c) /\ ~Connects(c) /\ ~Continues(c) /\ ~Merges(c) /\ ~Asks(c)
      BY <3>1 DEF Closes, Connects, Continues, Merges, Asks, Consumes
    <3>3. Idle(c)
      BY <1>3, <3>2 DEF MasterTurn
    <3> QED
      BY <3>1, <3>3 DEF Idle, SameEnd, Consumes
  <2>6. CASE link[c] # link'[c]
    <3>1. Continues(c)
      BY <1>3, <2>6 DEF MasterTurn, Idle, Closes, Connects, Merges, Asks, SameEnd
    <3> QED
      BY <1>1, <3>1, NothingElse DEF Continues
  <2> QED
    BY <2>5, <2>6
<1>4. ASSUME NEW e \in Cnx, SlaveConnectionWrite(e)
      PROVE  stage'[c] = "connecting" /\ toMaster'[c] = <<>>
  <2>1. UNCHANGED <<stage, link, slaveCnx, toMaster, peer>>
    BY <1>1, <1>4, WriteFacts
  <2>2. CASE m \in ToSet(toSlave[d])
    BY <1>2, <2>1, <2>2
  <2>3. CASE m \notin ToSet(toSlave[d])
    <3>1. /\ d = e /\ peer[d] # NoSlave /\ m \in ToSet(queries[d]) /\ stage[d] # "closed"
      BY <1>1, <1>4, <2>3, WriteFacts
    <3>2. m.kind \notin BeforeLink
      BY DEF Deletes, BeforeLink
    <3>3. link[d] # NoSlave
      <4>1. CASE stage[d] = "connected"
        BY <1>1, <4>1 DEF LinkOK
      <4>2. CASE stage[d] = "connecting"
        BY <1>1, <3>1, <3>2, <4>2 DEF OneAtATime, Outstanding
      <4> QED
        BY <1>1, <3>1, <4>1, <4>2 DEF TypeOK
    <3>4. link[d] = peer[d]
      BY <1>1, <3>1, <3>3 DEF TrafficOn
    <3>5. link[d] = link[c] /\ link[c] \in Slaves
      BY <1>1, <2>1, <3>4 DEF TypeOK
    <3>6. slaveCnx[link[c]] = c /\ slaveCnx[link[c]] = d
      BY <1>1, <3>5 DEF LinkOK
    <3> QED
      BY <3>6
  <2> QED
    BY <2>2, <2>3
<1>5. ASSUME NEW e \in Cnx, SlaveAnswers(e)
      PROVE  stage'[c] = "connecting" /\ toMaster'[c] = <<>>
  <2>1. /\ UNCHANGED <<stage, link, toMaster, peer>>
        /\ ToSet(toSlave'[d]) \subseteq ToSet(toSlave[d])
    BY <1>1, <1>5, EnqueuedFacts DEF SlaveAnswers, session
  <2> QED
    BY <1>2, <2>1
<1>6. ASSUME NEW e \in Cnx, HandleOutputs(e)
      PROVE  stage'[c] = "connecting" /\ toMaster'[c] = <<>>
  <2>1. /\ UNCHANGED <<stage, link, toSlave, peer>> /\ peer[e] # NoSlave
        /\ c # e => toMaster'[c] = toMaster[c]
    BY <1>1, <1>6, SentFacts DEF session
  <2>2. c # e
    BY <1>1, <2>1 DEF TrafficOn, OneProcessEach
  <2> QED
    BY <1>2, <2>1, <2>2
<1>7. ASSUME NEW e \in Cnx, SlaveClose(e)
      PROVE  stage'[c] = "connecting" /\ toMaster'[c] = <<>>
  <2>1. /\ UNCHANGED <<stage, link, toMaster>> /\ peer'[e] = NoSlave
        /\ d # e => peer'[d] = peer[d] /\ toSlave'[d] = toSlave[d]
    BY <1>1, <1>7, SlaveCloseFacts DEF session
  <2> QED
    BY <1>2, <2>1
<1>8. ASSUME NEW s \in Slaves, SlaveRestart(s)
      PROVE  stage'[c] = "connecting" /\ toMaster'[c] = <<>>
  BY <1>2, <1>8 DEF SlaveRestart, session
<1> QED
  BY <1>1, <1>3, <1>4, <1>5, <1>6, <1>7, <1>8, StepsSorted, SlaveSorted

(* While a connecting slave has a query or an answer on its way, nothing   *)
(* else is on its way.                                                     *)
LEMMA AskedAlone ==
    ASSUME TypeOK, NEW c \in Cnx, TrafficOn(c), stage[c] = "connecting", toSlave[c] # <<>>
    PROVE  InFlight(c) = {}
<1> DEFINE i == Len(queries[c])
           j == Len(toSlave[c])
           k == Len(outbox[c])
           l == Len(toMaster[c])
<1>1. i \in Nat /\ j \in Nat /\ k \in Nat /\ l \in Nat /\ j > 0
  BY Lengths
<1>2. i + j + k + l <= 1
  BY DEF TrafficOn, OnItsWay
<1> HIDE DEF i, j, k, l
<1>3. k = 0 /\ l = 0
  BY <1>1, <1>2
<1>4. outbox[c] = <<>> /\ toMaster[c] = <<>>
  <2>1. ~(Len(outbox[c]) > 0) /\ ~(Len(toMaster[c]) > 0)
    BY <1>3 DEF k, l
  <2> QED
    BY <2>1, Lengths
<1> QED
  BY <1>4, NoQueries DEF InFlight

(* The answer of a slave to one connection leaves what another connection  *)
(* is linked to alone, unless that one has been left behind.               *)
LEMMA AnswerElsewhere ==
    ASSUME TypeOK, TrafficOK, LeftBehind, NEW c \in Cnx, NEW d \in Cnx, c # d, SlaveAnswers(d),
           link[c] # NoSlave
    PROVE  \/ mapped'[link[c]] = mapped[link[c]]
           \/ stage[c] = "connecting" /\ InFlight(c) = {} /\ peer[c] # link[c]
<1>1. link[c] \in Slaves
  BY DEF TypeOK
<1>2. CASE peer[d] # link[c]
  BY <1>1, <1>2, AnswerFacts
<1>3. CASE peer[d] = link[c] /\ Asked(d).kind \notin Deletes
  BY <1>3, AnswerFacts
<1>4. CASE peer[d] = link[c] /\ Asked(d).kind \in Deletes
  <2>1. Asked(d) \in ToSet(toSlave[d])
    BY EnqueuedFacts DEF SlaveAnswers
  <2>2. stage[c] = "connecting" /\ toMaster[c] = <<>>
    BY <1>4, <2>1 DEF LeftBehind
  <2>3. peer[c] = NoSlave
    BY <1>4 DEF TrafficOK
  <2>4. outbox[c] = <<>>
    BY <2>3 DEF TrafficOK
  <2> QED
    BY <2>2, <2>3, <2>4, NoQueries DEF InFlight
<1> QED
  BY <1>2, <1>3, <1>4

LEMMA SnapshotStep ==
    ASSUME NamesAssumption, IInv, DisksOK, TrafficOK, LeftBehind, SnapshotOK, [Next]_vars
    PROVE  SnapshotOK'
<1>1. TypeOK /\ \A c \in Cnx : TrafficOn(c)
  BY DEF IInv, Inv, TrafficOK, TrafficOn
<1> SUFFICES ASSUME NEW c \in Cnx, link'[c] # NoSlave, stage'[c] = "connecting",
                    NEW p \in InFlight(c)', p.type = "FILE_LIST"
             PROVE  /\ p.files \subseteq mapped'[link'[c]]
                    /\ peer'[c] = link'[c] => mapped'[link'[c]] \subseteq p.files
  BY DEF SnapshotOK
<1> DEFINE Goal == /\ p.files \subseteq mapped'[link'[c]]
                   /\ peer'[c] = link'[c] => mapped'[link'[c]] \subseteq p.files
<1> SUFFICES Goal
  OBVIOUS
<1>2. ASSUME link[c] # NoSlave, stage[c] = "connecting", p \in InFlight(c)
      PROVE  /\ p.files \subseteq mapped[link[c]]
             /\ peer[c] = link[c] => mapped[link[c]] \subseteq p.files
  BY <1>2 DEF SnapshotOK
<1>3. CASE MasterTurn
  <2>1. /\ p \in InFlight(c) /\ mapped' = mapped /\ outbox' = outbox
    BY <1>1, <1>3, TurnFacts DEF InFlight
  <2>2. CASE Idle(c)
    BY <1>2, <2>1, <2>2 DEF Idle, SameEnd
  <2>3. ~Continues(c)
    <3>1. ASSUME Continues(c) PROVE InFlight(c)' = {}
      BY <1>1, <2>1, <3>1, NothingElse, NoQueries DEF Continues, InFlight
    <3> QED
      BY <3>1
  <2> QED
    BY <1>3, <2>2, <2>3 DEF MasterTurn, Closes, Connects, Merges, Asks, SameEnd
<1>4. ASSUME NEW d \in Cnx, SlaveConnectionWrite(d) PROVE Goal
  <2>1. UNCHANGED <<stage, link, toMaster, peer, outbox, mapped>>
    BY <1>1, <1>4, WriteFacts
  <2> QED
    BY <1>2, <2>1 DEF InFlight
<1>5. ASSUME NEW d \in Cnx, SlaveAnswers(d) PROVE Goal
  <2>1. UNCHANGED <<stage, link, toMaster, peer>>
    BY <1>5 DEF SlaveAnswers, session
  <2>2. CASE c = d
    <3>1. peer[c] # NoSlave /\ toSlave[c] # <<>>
      BY <1>5, <2>2 DEF SlaveAnswers, CanProcess
    <3>2. InFlight(c) = {} /\ link[c] = peer[c]
      BY <1>1, <2>1, <3>1, AskedAlone DEF TrafficOn
    <3>3. mapped' = mapped /\ p.files = mapped[peer[c]]
      BY <1>1, <1>5, <2>1, <2>2, <3>2, AnswerFacts DEF InFlight
    <3> QED
      BY <2>1, <3>2, <3>3
  <2>3. CASE c # d
    <3>1. outbox'[c] = outbox[c]
      BY <1>1, <1>5, <2>3, EnqueuedFacts DEF SlaveAnswers
    <3>2. p \in InFlight(c)
      BY <2>1, <3>1 DEF InFlight
    <3>3. mapped'[link[c]] = mapped[link[c]]
      BY <1>1, <1>5, <2>1, <2>3, <3>2, AnswerElsewhere
    <3> QED
      BY <1>2, <2>1, <3>2, <3>3
  <2> QED
    BY <2>2, <2>3
<1>6. ASSUME NEW d \in Cnx, HandleOutputs(d) PROVE Goal
  <2>1. UNCHANGED <<stage, link, peer, mapped>> /\ p \in InFlight(c)
    BY <1>1, <1>6, SentFacts DEF session, InFlight
  <2> QED
    BY <1>2, <2>1
<1>7. ASSUME NEW d \in Cnx, SlaveClose(d) PROVE Goal
  <2>1. /\ UNCHANGED <<stage, link, mapped>> /\ p \in InFlight(c)
        /\ peer'[c] = peer[c] \/ peer'[c] = NoSlave
    BY <1>1, <1>7, SlaveCloseFacts, NoQueries DEF session, InFlight
  <2> QED
    BY <1>2, <2>1
<1>8. ASSUME NEW s \in Slaves, SlaveRestart(s) PROVE Goal
  <2>1. /\ UNCHANGED <<stage, link, toMaster, peer, outbox>>
        /\ mapped' = [mapped EXCEPT ![s] = disk[s]] /\ peer[c] # s
    BY <1>8 DEF SlaveRestart, session
  <2>2. p \in InFlight(c) /\ link[c] \in Slaves
    BY <1>1, <2>1 DEF InFlight, TypeOK
  <2> QED
    BY <1>1, <1>2, <2>1, <2>2 DEF DisksOK, TypeOK
<1> QED
  BY <1>1, <1>3, <1>4, <1>5, <1>6, <1>7, <1>8, StepsSorted, SlaveSorted

(* A turn of the master, unless it tells a slave to delete a file that it  *)
(* goes on listing (ftpd_wipe_from).                                       *)
LEMMA ListedTurn ==
    ASSUME NamesAssumption, "wipe_from" \notin Environment,
           IInv, TrafficOK, SnapshotOK, NEW c \in Cnx, ListedOn(c), MasterTurn
    PROVE  ListedOn(c)'
<1>1. /\ TypeOK /\ OnlineXorOffline /\ TrafficOn(c) /\ UNCHANGED <<toSlave, mapped>>
      /\ ToSet(<<>>) = {}
  BY NoQueries DEF IInv, Inv, TrafficOK, TrafficOn, MasterTurn
<1>2. queries[c] \in Seq(Query) /\ toMaster[c] \in Seq(Reply)
  BY <1>1 DEF TypeOK
<1>3. CASE Idle(c)
  BY <1>1, <1>3 DEF Idle, SameEnd, ListedOn, Doomed
<1>4. CASE Closes(c)
  BY <1>1, <1>4 DEF Closes, ListedOn
<1>5. CASE Connects(c) \/ Continues(c)
  <2>1. ix'.avail[c] = {} /\ stage'[c] = "connecting"
    BY <1>1, <1>5 DEF Connects, Continues, OnlineXorOffline
  <2> QED
    BY <2>1 DEF ListedOn
<1>6. CASE Merges(c)
  <2>1. Answer(c) \in InFlight(c) /\ Answer(c).type = "FILE_LIST" /\ ix'.avail[c] = Answer(c).files
    BY <1>2, <1>6, TakeFirst DEF Merges, Consumes, Answer, InFlight
  <2>2. /\ Answer(c).files \subseteq mapped[link[c]]
        /\ peer[c] = link[c] => mapped[link[c]] \subseteq Answer(c).files
    BY <1>6, <2>1 DEF SnapshotOK, Merges
  <2>3. toSlave'[c] = <<>>
    BY <1>1, <1>6, NothingElse DEF Merges
  <2>4. \A m \in ToSet(queries'[c]) : m.kind # "DELETE"
    <3>1. ASSUME NEW q \in Query, q.kind = "SFVLOG", queries'[c] = <<q>>
          PROVE  \A m \in ToSet(queries'[c]) : m.kind # "DELETE"
      <4>1. <<>> \in Seq(Query) /\ <<q>> \in Seq(Query)
        OBVIOUS
      <4>2. ToSet(<<q>> \o <<>>) = ToSet(<<>>) \cup {q}
        BY <4>1, AddFirst
      <4>3. <<q>> \o <<>> = <<q>>
        BY <4>1, ConcatEmptySeq
      <4> QED
        BY <1>1, <3>1, <4>2, <4>3
    <3> QED
      BY <1>1, <1>6, <3>1 DEF Merges
  <2>5. \A f : ~Doomed(c, f)'
    BY <1>1, <2>3, <2>4 DEF Doomed
  <2> QED
    BY <1>1, <1>6, <2>1, <2>2, <2>5 DEF Merges, ListedOn
<1>7. CASE Asks(c)
  <2>1. PICK q \in Query :
            /\ queries'[c] = <<q>> \o queries[c]
            /\ \/ q.kind = "STATS" /\ ix'.avail[c] = ix.avail[c]
               \/ \E f \in Files :
                     q.kind = "DELETE" /\ q.files = {f} /\ ix'.avail[c] = ix.avail[c] \ {f}
    BY <1>7 DEF Asks
  <2>2. ToSet(queries'[c]) = ToSet(queries[c]) \cup {q}
    BY <1>2, <2>1, AddFirst
  <2>3. CASE q.kind = "STATS" /\ ix'.avail[c] = ix.avail[c]
    <3>1. \A f : Doomed(c, f)' <=> Doomed(c, f)
      BY <1>1, <2>2, <2>3 DEF Doomed
    <3> QED
      BY <1>1, <1>7, <2>3, <3>1 DEF Asks, SameEnd, ListedOn
  <2>4. ASSUME NEW f \in Files, q.kind = "DELETE", q.files = {f}, ix'.avail[c] = ix.avail[c] \ {f}
        PROVE  ListedOn(c)'
    <3>1. \A g : Doomed(c, g)' <=> Doomed(c, g) \/ g = f
      BY <1>1, <2>2, <2>4 DEF Doomed
    <3> QED
      BY <1>1, <1>7, <2>4, <3>1 DEF Asks, SameEnd, ListedOn
  <2> QED
    BY <2>1, <2>3, <2>4
<1> QED
  BY <1>3, <1>4, <1>5, <1>6, <1>7 DEF MasterTurn

LEMMA ListedWrite ==
    ASSUME TypeOK, NEW c \in Cnx, ListedOn(c), SlaveConnectionWrite(c)
    PROVE  ListedOn(c)'
<1>1. /\ queries[c] \in Seq(Query) /\ queries[c] # <<>>
      /\ queries'[c] = Tail(queries[c])
      /\ \/ peer[c] = NoSlave /\ toSlave'[c] = toSlave[c]
         \/ peer[c] # NoSlave /\ ToSet(toSlave'[c]) = ToSet(toSlave[c]) \cup {Head(queries[c])}
      /\ UNCHANGED <<ix, stage, link, peer, mapped>>
  BY WriteFacts
<1>2. ToSet(queries[c]) = ToSet(queries'[c]) \cup {Head(queries[c])}
  BY <1>1, FirstAndRest
<1>3. \A f : Doomed(c, f)' => Doomed(c, f)
  BY <1>1, <1>2 DEF Doomed
<1>4. peer[c] # NoSlave => \A f : Doomed(c, f) => Doomed(c, f)'
  BY <1>1, <1>2 DEF Doomed
<1> QED
  BY <1>1, <1>3, <1>4 DEF ListedOn

LEMMA ListedAnswer ==
    ASSUME IInv, TrafficOK, NEW c \in Cnx, ListedOn(c), SlaveAnswers(c)
    PROVE  ListedOn(c)'
<1>1. TypeOK /\ OnlineXorOffline /\ TrafficOn(c)
  BY DEF IInv, Inv, TrafficOK, TrafficOn
<1> DEFINE m == Asked(c)
           s == peer[c]
<1>2. /\ s # NoSlave /\ s \in Slaves /\ toSlave[c] \in Seq(Query) /\ toSlave[c] # <<>>
      /\ m \in ToSet(toSlave[c]) /\ toSlave'[c] = Tail(toSlave[c]) /\ m = Head(toSlave[c])
      /\ UNCHANGED <<ix, stage, link, queries, peer>>
  BY <1>1, EnqueuedFacts DEF SlaveAnswers, CanProcess, session, Asked
<1>3. ToSet(toSlave[c]) = ToSet(toSlave'[c]) \cup {m}
  BY <1>2, FirstAndRest
<1>4. /\ mapped'[s] \subseteq mapped[s]
      /\ \/ m.kind \in Deletes /\ mapped'[s] = mapped[s] \ m.files
         \/ mapped' = mapped /\ (m.kind = "DELETE" => ~(m.files \subseteq mapped[s]))
  BY <1>1, <1>2, AnswerFacts
<1>5. m.kind = "DELETE" => \E f \in Files : m.files = {f}
  BY <1>1, <1>2 DEF TrafficOn
<1> HIDE DEF m, s
<1>6. \A f : Doomed(c, f)' => Doomed(c, f)
  BY <1>2, <1>3 DEF Doomed
<1>7. \A f : Doomed(c, f) => Doomed(c, f)' \/ (m.kind = "DELETE" /\ f \in m.files)
  BY <1>2, <1>3 DEF Doomed
<1>8. \A f : m.kind = "DELETE" /\ f \in m.files => Doomed(c, f)
  BY <1>2 DEF Doomed
<1>9. link[c] # NoSlave => link[c] = s
  BY <1>1, <1>2 DEF TrafficOn, s
<1>10. CASE stage[c] # "connected"
  BY <1>1, <1>2, <1>10 DEF OnlineXorOffline, ListedOn
<1>11. CASE stage[c] = "connected"
  <2>1. m.kind # "DELETELOG"
    BY <1>1, <1>2, <1>11 DEF TrafficOn
  <2>2. ix.avail[c] \cap mapped[s] \subseteq mapped'[s]
    BY <1>4, <1>8, <2>1 DEF ListedOn, Deletes
  <2>3. \A f \in mapped'[s] : ~(m.kind = "DELETE" /\ f \in m.files)
    BY <1>4, <1>5, <2>1 DEF Deletes
  <2> QED
    BY <1>2, <1>4, <1>6, <1>7, <1>9, <2>2, <2>3 DEF ListedOn
<1> QED
  BY <1>10, <1>11

LEMMA ListedElsewhere ==
    ASSUME IInv, TrafficOK, LeftBehind, NEW c \in Cnx, ListedOn(c), NEW d \in Cnx, c # d,
           SlaveAnswers(d)
    PROVE  ListedOn(c)'
<1>1. TypeOK /\ OnlineXorOffline
  BY DEF IInv, Inv
<1>2. /\ UNCHANGED <<ix, stage, link, queries, peer>> /\ toSlave'[c] = toSlave[c]
      /\ \A s \in Slaves : mapped'[s] \subseteq mapped[s]
  BY <1>1, EnqueuedFacts, AnswerFacts, SMTT(30) DEF SlaveAnswers, session
<1>3. \A f : Doomed(c, f)' <=> Doomed(c, f)
  BY <1>2 DEF Doomed
<1>4. CASE link[c] = NoSlave
  BY <1>2, <1>3, <1>4 DEF ListedOn
<1>5. CASE link[c] # NoSlave /\ mapped'[link[c]] = mapped[link[c]]
  BY <1>2, <1>3, <1>5 DEF ListedOn
<1>6. CASE stage[c] = "connecting"
  BY <1>1, <1>2, <1>6 DEF OnlineXorOffline, ListedOn
<1> QED
  BY <1>1, <1>4, <1>5, <1>6, AnswerElsewhere

LEMMA ListedStep ==
    ASSUME NamesAssumption, "wipe_from" \notin Environment,
           IInv, DisksOK, TrafficOK, LeftBehind, SnapshotOK, ListedOK, [Next]_vars
    PROVE  ListedOK'
<1>1. TypeOK
  BY DEF IInv, Inv
<1> SUFFICES ASSUME NEW c \in Cnx PROVE ListedOn(c)'
  BY DEF ListedOK
<1>2. ListedOn(c)
  BY DEF ListedOK
<1>3. CASE MasterTurn
  BY <1>2, <1>3, ListedTurn
<1>4. ASSUME NEW d \in Cnx, SlaveConnectionWrite(d) PROVE ListedOn(c)'
  <2>1. CASE d = c
    BY <1>1, <1>2, <1>4, <2>1, ListedWrite
  <2>2. CASE d # c
    BY <1>1, <1>2, <1>4, <2>2, WriteFacts DEF ListedOn, Doomed
  <2> QED
    BY <2>1, <2>2
<1>5. ASSUME NEW d \in Cnx, SlaveAnswers(d) PROVE ListedOn(c)'
  BY <1>2, <1>5, ListedAnswer, ListedElsewhere
<1>6. ASSUME NEW d \in Cnx, HandleOutputs(d) PROVE ListedOn(c)'
  <2>1. UNCHANGED <<ix, stage, link, queries, toSlave, peer, mapped>>
    BY <1>1, <1>6, SentFacts DEF session
  <2> QED
    BY <1>2, <2>1 DEF ListedOn, Doomed
<1>7. ASSUME NEW d \in Cnx, SlaveClose(d) PROVE ListedOn(c)'
  <2>1. /\ UNCHANGED <<ix, stage, link, queries, mapped>>
        /\ \/ peer'[c] = peer[c] /\ toSlave'[c] = toSlave[c]
           \/ peer'[c] = NoSlave /\ ToSet(toSlave'[c]) = {}
    BY <1>1, <1>7, SlaveCloseFacts, NoQueries DEF session
  <2> QED
    BY <1>2, <2>1 DEF ListedOn, Doomed
<1>8. ASSUME NEW s \in Slaves, SlaveRestart(s) PROVE ListedOn(c)'
  <2>1. /\ UNCHANGED <<ix, stage, link, queries, toSlave, peer>> /\ peer[c] # s
        /\ \A t \in Slaves : t # s => mapped'[t] = mapped[t]
        /\ \A t \in Slaves : mapped[t] \subseteq mapped'[t]
    BY <1>1, <1>8 DEF SlaveRestart, session, DisksOK, TypeOK
  <2>2. link[c] # NoSlave => link[c] \in Slaves
    BY <1>1 DEF TypeOK
  <2> QED
    BY <1>2, <2>1, <2>2 DEF ListedOn, Doomed
<1> QED
  BY <1>1, <1>3, <1>4, <1>5, <1>6, <1>7, <1>8, StepsSorted, SlaveSorted

Exact == DisksOK /\ TrafficOK /\ LeftBehind /\ SnapshotOK /\ ListedOK

LEMMA ExactInit == NamesAssumption /\ Init => Exact
<1> SUFFICES ASSUME NamesAssumption, Init PROVE Exact
  OBVIOUS
<1>1. ToSet(<<>>) = {} /\ Len(<<>>) = 0
  BY NoQueries
<1>2. TrafficOK
  BY <1>1 DEF Init, TrafficOK
<1>3. DisksOK /\ LeftBehind /\ SnapshotOK
  BY <1>1 DEF Init, DisksOK, LeftBehind, SnapshotOK
<1>4. ListedOK
  BY <1>1 DEF Init, ListedOK, ListedOn, NoFiles
<1> QED
  BY <1>2, <1>3, <1>4 DEF Exact

(* What the master lists as online, from the merge of the list on, is what *)
(* the slave maps, but for the files it is being told to delete: lists     *)
(* that are late, queries that are sent newest first, slaves that restart  *)
(* and connections that one end only knows to be lost change nothing       *)
(* (file_list_query_callback, slave_delete_file, process_slave_delete).    *)
(* Without the wipes of one slave: ftpd_wipe_from tells a slave to delete  *)
(* a file and goes on listing it.                                          *)
THEOREM ListingIsExact ==
    ASSUME "wipe_from" \notin Environment
    PROVE  Spec => []ListingExact
<1>1. Init => IInv /\ Exact
  BY NamesAssumption, InitInv, ExactInit
<1>2. IInv /\ Exact /\ [Next]_vars => (IInv /\ Exact)'
  BY NamesAssumption, StepInv, DisksStep, TrafficStep, LeftBehindStep, SnapshotStep, ListedStep
     DEF Exact
<1>3. IInv /\ Exact => ListingExact
  <2> SUFFICES ASSUME IInv, Exact, NEW c \in Cnx, NEW s \in Slaves
               PROVE  /\ link[c] = s => ix.avail[c] \subseteq mapped[s]
                      /\ link[c] = s /\ peer[c] = s /\ stage[c] = "connected" =>
                            mapped[s] \subseteq ix.avail[c] \cup Deleting(c)
    BY DEF ListingExact
  <2>1. ListedOn(c) /\ s # NoSlave
    BY NamesAssumption DEF Exact, ListedOK
  <2>2. queries[c] \in Seq(Query) /\ toSlave[c] \in Seq(Query)
    BY DEF IInv, Inv, TypeOK
  <2>3. ToSet(queries[c] \o toSlave[c]) = ToSet(queries[c]) \cup ToSet(toSlave[c])
    BY <2>2, ConcatMembers
  <2>4. \A f : Doomed(c, f) => f \in Deleting(c)
    BY <2>3 DEF Doomed, Deleting
  <2> QED
    BY <2>1, <2>4 DEF ListedOn
<1> QED
  BY <1>1, <1>2, <1>3, PTL DEF Spec

--------------------------------------------------------------------------------
(* Files that are listed and located nowhere.                              *)

LEMMA NowhereListed ==
    ASSUME NEW jx \in Index, IndexConsistent(jx), NEW f \in Files
    PROVE  Nowhere(jx, f) <=> /\ \A c \in Cnx : f \notin jx.avail[c]
                              /\ \A s \in Slaves : f \notin jx.offline[s]
<1>1. /\ \A c \in Cnx : f \in jx.avail[c] <=> c \in jx.availFrom[f]
      /\ \A s \in Slaves : f \in jx.offline[s] <=> s \in jx.offlineFrom[f]
      /\ jx.availFrom[f] \subseteq Cnx /\ jx.offlineFrom[f] \subseteq Slaves
  BY ConsistentFields
<1> QED
  BY <1>1 DEF Nowhere

(* The merge of a list leaves no file without a location but those it      *)
(* found so.                                                               *)
LEMMA MergeGhosts ==
    ASSUME NEW jx \in Index, IndexConsistent(jx), NEW c \in Cnx, NEW s \in Slaves,
           NEW F \in SUBSET Files, NEW f \in Files,
           f \in MergeFileList(jx, c, s, F).vfs, Nowhere(MergeFileList(jx, c, s, F), f)
    PROVE  f \in jx.vfs /\ Nowhere(jx, f)
<1> DEFINE kx == CreateFiles(jx, F)
           lx == MarkOnline(kx, c, s, F)
           mx == OfflineDelete(lx, s, lx.offline[s])
           nx == DeleteIfNowhere(mx, lx.offline[s])
<1>1. /\ kx \in Index /\ IndexConsistent(kx) /\ F \subseteq kx.vfs
      /\ kx.avail = jx.avail /\ kx.offline = jx.offline
  BY CreateFilesConsistent
<1>2. kx.vfs = jx.vfs \cup F
  BY DEF CreateFiles, Index
<1> HIDE DEF kx
<1>3. /\ lx \in Index /\ IndexConsistent(lx)
      /\ lx.avail = [kx.avail EXCEPT ![c] = @ \cup F]
      /\ lx.offline = [kx.offline EXCEPT ![s] = @ \ F]
  BY <1>1, MarkOnlineConsistent
<1>4. lx.vfs = kx.vfs
  BY <1>1 DEF MarkOnline, Index
<1> HIDE DEF lx
<1>5. lx.offline[s] \in SUBSET Files
  BY <1>3, ConsistentFields
<1>6. /\ mx \in Index /\ IndexConsistent(mx)
      /\ mx.avail = lx.avail
      /\ mx.offline = [lx.offline EXCEPT ![s] = @ \ lx.offline[s]]
  BY <1>3, <1>5, OfflineDeleteConsistent
<1>7. mx.vfs = lx.vfs
  BY <1>3 DEF OfflineDelete, Index
<1> HIDE DEF mx
<1>8. nx \in Index /\ IndexConsistent(nx) /\ nx.avail = mx.avail /\ nx.offline = mx.offline
  BY <1>5, <1>6, DeleteIfNowhereConsistent
<1>9. nx.vfs = mx.vfs \ {g \in lx.offline[s] : Nowhere(mx, g)}
  BY DEF DeleteIfNowhere, DeleteElements
<1>10. nx = MergeFileList(jx, c, s, F)
  BY DEF MergeFileList, CleanupOffline, kx, lx, mx
<1> HIDE DEF nx
<1>11. Nowhere(mx, f)
  BY <1>6, <1>8, <1>10, NowhereListed
<1>12. f \in mx.vfs /\ f \notin lx.offline[s]
  BY <1>9, <1>10, <1>11
<1>13. /\ jx.avail \in [Cnx -> SUBSET Files] /\ jx.offline \in [Slaves -> SUBSET Files]
       /\ \A d \in Cnx : f \notin mx.avail[d]
       /\ \A t \in Slaves : f \notin mx.offline[t]
  BY <1>6, <1>11, NowhereListed, ConsistentFields
<1>14. f \notin F /\ \A d \in Cnx : f \notin jx.avail[d]
  BY <1>1, <1>3, <1>6, <1>13
<1>15. \A t \in Slaves : f \notin jx.offline[t]
  BY <1>1, <1>3, <1>6, <1>12, <1>13, <1>14, ZenonT(40)
<1>16. f \in jx.vfs
  BY <1>2, <1>4, <1>7, <1>12, <1>14
<1> QED
  BY <1>14, <1>15, <1>16, NowhereListed

(* The loss of a connection: what it offered is offline.                   *)
LEMMA DisconnectGhosts ==
    ASSUME NamesAssumption, Inv, NEW c \in Cnx, NEW at \in Index, IndexConsistent(at),
           \A d \in Cnx : d # c => at.avail[d] = ix.avail[d],
           \A t \in Slaves : t # link[c] => at.offline[t] = ix.offline[t],
           link[c] = NoSlave => at = ix,
           Disconnect(c, at), NEW f \in Files, f \in ix'.vfs, Nowhere(ix', f)
    PROVE  f \in at.vfs /\ Nowhere(at, f)
<1>1. /\ ix' \in Index
      /\ IndexConsistent(ix')
      /\ ix'.vfs = at.vfs
      /\ \A d \in Cnx : d # c => ix'.avail[d] = ix.avail[d]
      /\ \A t \in Slaves : t # link[c] => ix'.offline[t] = ix.offline[t]
      /\ link[c] # NoSlave => ix'.offline[link[c]] = at.offline[link[c]] \cup at.avail[c]
  BY DisconnectIndex
<1>2. /\ \A d \in Cnx : f \notin ix'.avail[d]
      /\ \A t \in Slaves : f \notin ix'.offline[t]
  BY <1>1, NowhereListed
<1>3. link[c] # NoSlave => link[c] \in Slaves
  BY DEF Inv, TypeOK
<1>4. link[c] = NoSlave => at.avail[c] = {}
  BY DEF Inv, LinkOK, OnlineXorOffline
<1>5. /\ \A d \in Cnx : f \notin at.avail[d]
      /\ \A t \in Slaves : f \notin at.offline[t]
  BY <1>1, <1>2, <1>3, <1>4
<1> QED
  BY <1>1, <1>5, NowhereListed

LEMMA DisconnectNowGhosts ==
    ASSUME NamesAssumption, Inv, NEW c \in Cnx, Disconnect(c, ix)
    PROVE  Ghosts' \subseteq Ghosts
<1>1. ix \in Index /\ IndexConsistent(ix)
  BY DEF Inv, TypeOK, IndexOK
<1>2. ix' \in Index
  BY <1>1, DisconnectIndex
<1>3. \A f \in ix'.vfs : f \in Files
  BY <1>2 DEF Index
<1> QED
  BY <1>1, <1>3, DisconnectGhosts DEF Ghosts

LEMMA FileListGhosts ==
    ASSUME NamesAssumption, Inv, NEW c \in Cnx, FileListAnswered(c)
    PROVE  Ghosts' \subseteq Ghosts
<1> DEFINE listed == Answer(c).files
           merged == MergeFileList(ix, c, link[c], listed)
<1>1. Answers(c, "FILE_LIST") /\ ix \in Index /\ IndexConsistent(ix)
  BY DEF FileListAnswered, Inv, TypeOK, IndexOK
<1>2. /\ merged \in Index /\ IndexConsistent(merged)
      /\ link[c] \in Slaves /\ link[c] # NoSlave /\ listed \in SUBSET Files
      /\ \A d \in Cnx : d # c => merged.avail[d] = ix.avail[d]
      /\ \A t \in Slaves : t # link[c] => merged.offline[t] = ix.offline[t]
  BY <1>1, MergedIndex
<1>3. \A f \in Files : f \in merged.vfs /\ Nowhere(merged, f) => f \in ix.vfs /\ Nowhere(ix, f)
  BY <1>1, <1>2, MergeGhosts
<1> HIDE DEF merged
<1>4. CASE Disconnect(c, ix)
  BY <1>4, DisconnectNowGhosts
<1>5. CASE ix' = merged
  <2>1. \A f \in ix'.vfs : f \in Files
    BY <1>2, <1>5 DEF Index
  <2> QED
    BY <1>3, <1>5, <2>1 DEF Ghosts
<1>6. CASE Disconnect(c, merged)
  <2>1. ix' \in Index
    BY <1>2, <1>6, DisconnectIndex
  <2>2. \A f \in ix'.vfs : f \in Files
    BY <2>1 DEF Index
  <2>3. \A f \in ix'.vfs : Nowhere(ix', f) => f \in merged.vfs /\ Nowhere(merged, f)
    BY <1>2, <1>6, <2>2, DisconnectGhosts
  <2> QED
    BY <1>3, <2>2, <2>3 DEF Ghosts
<1> QED
  BY <1>4, <1>5, <1>6 DEF FileListAnswered, merged

LEMMA WipeGhosts ==
    ASSUME Inv, NEW f \in Files, Wipe(f) \/ \E s \in Slaves : WipeFrom(f, s)
    PROVE  Ghosts' \subseteq Ghosts
<1>1. /\ ix \in Index /\ IndexConsistent(ix)
      /\ ix' \in Index /\ IndexConsistent(ix')
      /\ ix'.vfs \subseteq ix.vfs
      /\ f \in ix'.vfs => ~Nowhere(ix', f)
      /\ \A c \in Cnx : ix.avail[c] \subseteq ix'.avail[c] \cup {f}
      /\ \A s \in Slaves : ix.offline[s] \subseteq ix'.offline[s] \cup {f}
  <2>1. ix \in Index /\ IndexConsistent(ix)
    BY DEF Inv, TypeOK, IndexOK
  <2>2. CASE Wipe(f)
    BY <2>1, <2>2, WipeIndex
  <2>3. ASSUME NEW s \in Slaves, WipeFrom(f, s)
        PROVE  /\ ix' \in Index /\ IndexConsistent(ix')
               /\ ix'.vfs \subseteq ix.vfs
               /\ f \in ix'.vfs => ~Nowhere(ix', f)
               /\ \A c \in Cnx : ix.avail[c] \subseteq ix'.avail[c] \cup {f}
               /\ \A t \in Slaves : ix.offline[t] \subseteq ix'.offline[t] \cup {f}
    BY <2>3, WipeFromIndex
  <2> QED
    BY <2>1, <2>2, <2>3
<1> SUFFICES ASSUME NEW g \in ix'.vfs, Nowhere(ix', g) PROVE g \in Ghosts
  BY DEF Ghosts
<1>2. g \in Files /\ g # f /\ g \in ix.vfs
  BY <1>1 DEF Index
<1>3. /\ \A c \in Cnx : g \notin ix'.avail[c]
      /\ \A s \in Slaves : g \notin ix'.offline[s]
  BY <1>1, <1>2, NowhereListed
<1>4. Nowhere(ix, g)
  BY <1>1, <1>2, <1>3, NowhereListed
<1> QED
  BY <1>2, <1>4 DEF Ghosts

LEMMA StartGhosts ==
    ASSUME Inv, MasterCrash \/ MasterStart
    PROVE  Ghosts' = {}
<1>1. CASE MasterCrash
  BY <1>1 DEF MasterCrash, NoFiles, Ghosts
<1>2. CASE MasterStart
  <2>1. configs \in SUBSET Slaves /\ Kept \in [Slaves -> SUBSET Files]
    BY DEF Inv, TypeOK, Kept
  <2>2. /\ ix' = LoadOffline(configs, Kept)
        /\ ix'.vfs = UNION {Kept[s] : s \in configs}
        /\ ix'.offlineFrom = [f \in Files |-> {s \in configs : f \in Kept[s]}]
    BY <1>2 DEF MasterStart, LoadOffline, NoFiles
  <2>3. \A f \in ix'.vfs : f \in Files /\ ix'.offlineFrom[f] # {}
    BY <2>1, <2>2
  <2> QED
    BY <2>3 DEF Ghosts, Nowhere
<1> QED
  BY <1>1, <1>2

(* Of the steps of a connection, few change what the rest of the master    *)
(* sees of its slave.                                                      *)
LEMMA UnseenStep ==
    ASSUME NEW c \in Cnx, Master(c) \/ Slave(c)
    PROVE  \/ UNCHANGED <<known, slaveCnx, ix, stage>>
           \/ \E s \in Slaves : Accept(c, s)
           \/ HelloAnswered(c) \/ FileListAnswered(c) \/ Disconnect(c, ix)
<1>2. CASE SlaveConnectionWrite(c) \/ PartialRead(c) \/ ProbeStats(c)
  BY <1>2 DEF SlaveConnectionWrite, PartialRead, ProbeStats
<1>3. CASE ConnectionLost(c) \/ SlaveConnectionReadTimeout(c)
  BY <1>3 DEF ConnectionLost, SlaveConnectionReadTimeout
<1>4. CASE UnmatchedReply(c) \/ PublicKeyAnswered(c) \/ BlowfishKeyAnswered(c)
  BY <1>4 DEF UnmatchedReply, PublicKeyAnswered, BlowfishKeyAnswered, KeyAnswered
<1>5. CASE CertificateAnswered(c) \/ DeletelogAnswered(c)
  BY <1>5 DEF CertificateAnswered, DeletelogAnswered
<1>6. CASE SfvlogAnswered(c) \/ StatsAnswered(c) \/ DeleteAnswered(c)
  BY <1>6 DEF SfvlogAnswered, StatsAnswered, DeleteAnswered
<1>7. CASE HandleInputs(c) \/ ReplyFailure(c) \/ HandleOutputs(c) \/ SlaveClose(c)
  BY <1>7 DEF HandleInputs, ReplyFailure, HandleOutputs, SlaveClose, session
<1>8. CASE ProcessSlaveDelete(c) \/ ProcessSlaveDeletelog(c)
  BY <1>8 DEF ProcessSlaveDelete, ProcessSlaveDeletelog, session
<1> QED
  BY <1>2, <1>3, <1>4, <1>5, <1>6, <1>7, <1>8 DEF Master, SlaveConnectionRead, Slave

(* Of these, the merge and the loss of a connection change the index.      *)
LEMMA SameIndex ==
    ASSUME NEW c \in Cnx, Master(c) \/ Slave(c)
    PROVE  ix' = ix \/ FileListAnswered(c) \/ Disconnect(c, ix)
BY UnseenStep DEF Accept, HelloAnswered

LEMMA GhostsStep ==
    ASSUME NamesAssumption, IInv, [Next]_vars, known' = known
    PROVE  Ghosts' \subseteq Ghosts
<1>1. ASSUME ix' = ix PROVE Ghosts' \subseteq Ghosts
  BY <1>1 DEF Ghosts
<1>2. ASSUME NEW c \in Cnx, Master(c) \/ Slave(c) PROVE Ghosts' \subseteq Ghosts
  BY <1>1, <1>2, SameIndex, FileListGhosts, DisconnectNowGhosts DEF IInv
<1>3. ASSUME Calls PROVE Ghosts' \subseteq Ghosts
  <2>1. CASE \E f \in Files : Wipe(f) \/ \E s \in Slaves : WipeFrom(f, s)
    BY <2>1, WipeGhosts DEF IInv
  <2>2. CASE \E s \in Slaves : DumpFileslog(s) \/ SlaveNew(s)
    BY <1>1, <2>2 DEF DumpFileslog, SlaveNew
  <2>3. CASE \E s \in Slaves : SlaveDelete(s)
    BY <2>3 DEF SlaveDelete
  <2>4. CASE MasterCrash \/ MasterStart
    BY <2>4, StartGhosts DEF IInv
  <2> QED
    BY <1>3, <2>1, <2>2, <2>3, <2>4 DEF Calls
<1>4. ASSUME NEW s \in Slaves, SlaveRestart(s) PROVE Ghosts' \subseteq Ghosts
  BY <1>1, <1>4 DEF SlaveRestart
<1>5. CASE UNCHANGED vars
  BY <1>1, <1>5 DEF vars
<1> QED
  BY <1>2, <1>3, <1>4, <1>5 DEF Next

(* No merge, wipe or loss of a connection takes the last location of a     *)
(* file and leaves its element in the index: only the deletion of a slave  *)
(* does, and the start of a master makes none                              *)
(* (file_list_query_cleanup_offline_files, ftpd_wipe, ftpd_wipe_from,      *)
(* slave_obj_destroy, slave_remove_deletelog_files).                       *)
THEOREM GhostsOnlyLeft == Spec => GhostsOnlyFromDeletedSlaves
<1>1. IInv /\ [Next]_vars => [known' = known => Ghosts' \subseteq Ghosts]_vars
  BY NamesAssumption, GhostsStep
<1> QED
  BY <1>1, Invariance, PTL DEF Spec, GhostsOnlyFromDeletedSlaves

--------------------------------------------------------------------------------
(* The link implements Availability: each step of the link is one step of  *)
(* it, or none.                                                            *)

AbsStep == Abs!Next \/ UNCHANGED Abs!vars

(* What the rest of the master sees of a slave stays as it is.             *)
SameSlave(s) == Session(s)' = Session(s) /\ Online(s)' = Online(s) /\ ix'.offline[s] = ix.offline[s]

LEMMA SeenSame ==
    ASSUME \A s \in Slaves : SameSlave(s)
    PROVE  AbsStep
BY DEF AbsStep, SameSlave, Abs!vars

LEMMA SeenUnlinked ==
    ASSUME UNCHANGED <<known, slaveCnx, ix>>,
           \A c \in Cnx : link[c] # NoSlave => stage'[c] = stage[c], Inv, NamesAssumption
    PROVE  AbsStep
<1>1. ASSUME NEW s \in Slaves PROVE SameSlave(s)
  <2>1. slaveCnx[s] # NoCnx => slaveCnx[s] \in Cnx /\ link[slaveCnx[s]] = s /\ s # NoSlave
    BY NamesAssumption DEF Inv, TypeOK, LinkOK
  <2>2. slaveCnx[s] # NoCnx => stage'[slaveCnx[s]] = stage[slaveCnx[s]]
    BY <2>1
  <2> QED
    BY <2>2 DEF SameSlave, Session, Online
<1> QED
  BY <1>1, SeenSame

(* One slave changes: the steps of Availability that are about one.        *)
LEMMA SeenOne ==
    ASSUME NEW s \in Slaves, \A t \in Slaves : t # s => SameSlave(t),
           \/ /\ Session(s) = "unknown" /\ Session(s)' = "away"
              /\ Online(s)' = Online(s) /\ ix'.offline[s] = ix.offline[s]
           \/ /\ Session(s) # "unknown" /\ Session(s)' = "unknown"
              /\ Online(s)' = {} /\ ix'.offline[s] = {}
           \/ /\ Session(s) = "away" /\ Session(s)' = "joining"
              /\ Online(s)' = Online(s) /\ ix'.offline[s] = ix.offline[s]
           \/ /\ Session(s) = "joining" /\ Session(s)' = "serving"
              /\ Online(s)' \in SUBSET Files /\ ix'.offline[s] = {}
           \/ /\ Session(s) = "joining" /\ Session(s)' = "away"
              /\ Online(s)' = Online(s) /\ ix'.offline[s] \in SUBSET Files
           \/ /\ Session(s) \in {"joining", "serving"} /\ Session(s)' = "away"
              /\ Online(s)' = {} /\ ix'.offline[s] = ix.offline[s] \cup Online(s)
           \/ /\ Session(s) # "serving" /\ Session(s)' = Session(s)
              /\ Online(s)' = Online(s) /\ \E f \in Files : ix'.offline[s] = ix.offline[s] \ {f}
    PROVE  AbsStep
<1> DEFINE session1 == [t \in Slaves |-> Session(t)]
           online1 == [t \in Slaves |-> Online(t)]
           offline1 == [t \in Slaves |-> ix.offline[t]]
<1>1. /\ session1' = [session1 EXCEPT ![s] = Session(s)']
      /\ online1' = [online1 EXCEPT ![s] = Online(s)']
      /\ offline1' = [offline1 EXCEPT ![s] = ix'.offline[s]]
      /\ session1[s] = Session(s) /\ online1[s] = Online(s) /\ offline1[s] = ix.offline[s]
  BY DEF SameSlave
<1>2. /\ Online(s)' = Online(s) => online1' = online1
      /\ ix'.offline[s] = ix.offline[s] => offline1' = offline1
      /\ Session(s)' = Session(s) => session1' = session1
  BY DEF SameSlave
<1>3. CASE /\ Session(s) = "unknown" /\ Session(s)' = "away"
           /\ Online(s)' = Online(s) /\ ix'.offline[s] = ix.offline[s]
  <2>1. Abs!Add(s)
    BY <1>1, <1>2, <1>3 DEF Abs!Add
  <2> QED
    BY <2>1 DEF AbsStep, Abs!Next
<1>4. CASE /\ Session(s) # "unknown" /\ Session(s)' = "unknown"
           /\ Online(s)' = {} /\ ix'.offline[s] = {}
  <2>1. Abs!Forget(s)
    BY <1>1, <1>2, <1>4 DEF Abs!Forget
  <2> QED
    BY <2>1 DEF AbsStep, Abs!Next
<1>5. CASE /\ Session(s) = "away" /\ Session(s)' = "joining"
           /\ Online(s)' = Online(s) /\ ix'.offline[s] = ix.offline[s]
  <2>1. Abs!Join(s)
    BY <1>1, <1>2, <1>5 DEF Abs!Join
  <2> QED
    BY <2>1 DEF AbsStep, Abs!Next
<1>6. CASE /\ Session(s) = "joining" /\ Session(s)' = "serving"
           /\ Online(s)' \in SUBSET Files /\ ix'.offline[s] = {}
  <2>1. PICK F \in SUBSET Files : Online(s)' = F
    BY <1>6
  <2>2. Abs!Serve(s, F)
    BY <1>1, <1>2, <1>6, <2>1 DEF Abs!Serve
  <2> QED
    BY <2>2 DEF AbsStep, Abs!Next
<1>7. CASE /\ Session(s) = "joining" /\ Session(s)' = "away"
           /\ Online(s)' = Online(s) /\ ix'.offline[s] \in SUBSET Files
  <2>1. PICK F \in SUBSET Files : ix'.offline[s] = F
    BY <1>7
  <2>2. Abs!Reject(s, F)
    BY <1>1, <1>2, <1>7, <2>1 DEF Abs!Reject
  <2> QED
    BY <2>2 DEF AbsStep, Abs!Next
<1>8. CASE /\ Session(s) \in {"joining", "serving"} /\ Session(s)' = "away"
           /\ Online(s)' = {} /\ ix'.offline[s] = ix.offline[s] \cup Online(s)
  <2>1. Abs!Leave(s)
    BY <1>1, <1>2, <1>8 DEF Abs!Leave
  <2> QED
    BY <2>1 DEF AbsStep, Abs!Next
<1>9. ASSUME NEW f \in Files, Session(s) # "serving", Session(s)' = Session(s),
             Online(s)' = Online(s), ix'.offline[s] = ix.offline[s] \ {f}
      PROVE  AbsStep
  <2>1. Abs!Unlist(s, f)
    BY <1>1, <1>2, <1>9 DEF Abs!Unlist
  <2> QED
    BY <2>1 DEF AbsStep, Abs!Next
<1> QED
  BY <1>3, <1>4, <1>5, <1>6, <1>7, <1>8, <1>9

(* What is seen of a slave with a connection, and of one without.          *)
LEMMA SeenFacts ==
    ASSUME NamesAssumption, Inv, NEW s \in Slaves
    PROVE  /\ slaveCnx[s] = NoCnx \/ (slaveCnx[s] \in Cnx /\ slaveCnx[s] # NoCnx)
           /\ slaveCnx[s] = NoCnx => Online(s) = {} /\ Session(s) \in {"unknown", "away"}
           /\ slaveCnx[s] # NoCnx =>
                 /\ link[slaveCnx[s]] = s /\ s \in known
                 /\ stage[slaveCnx[s]] \in {"connecting", "connected"}
                 /\ Online(s) = ix.avail[slaveCnx[s]]
                 /\ stage[slaveCnx[s]] = "connecting" => Session(s) = "joining" /\ Online(s) = {}
                 /\ stage[slaveCnx[s]] = "connected" => Session(s) = "serving" /\ ix.offline[s] = {}
<1>1. slaveCnx[s] = NoCnx \/ (slaveCnx[s] \in Cnx /\ slaveCnx[s] # NoCnx)
  BY NamesAssumption DEF Inv, TypeOK
<1>2. CASE slaveCnx[s] = NoCnx
  BY <1>2 DEF Online, Session
<1>3. CASE slaveCnx[s] \in Cnx /\ slaveCnx[s] # NoCnx
  <2>1. link[slaveCnx[s]] = s /\ s \in known /\ s # NoSlave
    BY <1>3, NamesAssumption DEF Inv, LinkOK
  <2>2. stage[slaveCnx[s]] \in {"connecting", "connected"}
    BY <1>3, <2>1 DEF Inv, LinkOK, TypeOK, Open
  <2> QED
    BY <1>3, <2>1, <2>2 DEF Inv, OnlineXorOffline, Online, Session
<1> QED
  BY <1>1, <1>2, <1>3

(* The loss of a connection: its slave leaves, with all it offered.        *)
LEMMA DisconnectSeen ==
    ASSUME NamesAssumption, Inv, NEW c \in Cnx, NEW at \in Index, IndexConsistent(at),
           \A d \in Cnx : d # c => at.avail[d] = ix.avail[d],
           \A t \in Slaves : t # link[c] => at.offline[t] = ix.offline[t],
           \/ at = ix
           \/ stage[c] = "connecting" /\ link[c] # NoSlave,
           Disconnect(c, at)
    PROVE  AbsStep
<1>1. /\ ix' \in Index
      /\ IndexConsistent(ix')
      /\ \A d \in Cnx : d # c => ix'.avail[d] = ix.avail[d]
      /\ \A t \in Slaves : t # link[c] => ix'.offline[t] = ix.offline[t]
      /\ link[c] # NoSlave => ix'.offline[link[c]] = at.offline[link[c]] \cup at.avail[c]
  BY DisconnectIndex
<1>2. /\ slaveCnx' = [s \in Slaves |-> IF s = link[c] THEN NoCnx ELSE slaveCnx[s]]
      /\ stage' = [stage EXCEPT ![c] = "closed"] /\ known' = known
      /\ stage \in [Cnx -> {"closed", "connecting", "connected"}]
  BY DEF Disconnect, Inv, TypeOK
<1>3. ASSUME NEW s \in Slaves, s # link[c] PROVE SameSlave(s)
  <2>1. slaveCnx'[s] = slaveCnx[s] /\ ix'.offline[s] = ix.offline[s]
    BY <1>1, <1>2, <1>3
  <2>2. slaveCnx[s] # c
    BY <1>3 DEF Inv, LinkOK
  <2>3. slaveCnx[s] # NoCnx => slaveCnx[s] \in Cnx
    BY SeenFacts
  <2> QED
    BY <1>1, <1>2, <2>1, <2>2, <2>3 DEF SameSlave, Session, Online
<1>4. CASE link[c] = NoSlave
  BY <1>3, <1>4, NamesAssumption, SeenSame
<1>5. CASE link[c] # NoSlave
  <2>0. PICK s \in Slaves : s = link[c]
    BY <1>5 DEF Inv, TypeOK
  <2>1. slaveCnx[s] = c /\ s \in known /\ c # NoCnx
    BY <2>0, NamesAssumption DEF Inv, LinkOK
  <2>a. /\ \A t \in Slaves : t # s => SameSlave(t)
        /\ ix'.offline[s] = at.offline[s] \cup at.avail[c]
    BY <1>1, <1>3, <1>5, <2>0
  <2>2. Session(s)' = "away" /\ Online(s)' = {}
    BY <1>2, <2>0, <2>1 DEF Session, Online
  <2>3. Session(s) \in {"joining", "serving"} /\ Online(s) = ix.avail[c]
    BY <2>1, SeenFacts
  <2>4. CASE at = ix
    <3>1. ix'.offline[s] = ix.offline[s] \cup Online(s)
      BY <2>a, <2>3, <2>4
    <3> QED
      BY <2>a, <2>2, <2>3, <3>1, SeenOne
  <2>5. CASE stage[c] = "connecting"
    <3>1. Session(s) = "joining" /\ Online(s) = {}
      BY <2>1, <2>5, SeenFacts
    <3>2. ix'.offline[s] \in SUBSET Files
      BY <1>1, ConsistentFields
    <3>3. Online(s)' = Online(s)
      BY <2>2, <3>1
    <3> QED
      BY <2>a, <2>2, <3>1, <3>2, <3>3, SeenOne
  <2> QED
    BY <2>4, <2>5
<1> QED
  BY <1>4, <1>5

LEMMA DisconnectNowSeen ==
    ASSUME NamesAssumption, Inv, NEW c \in Cnx, Disconnect(c, ix)
    PROVE  AbsStep
<1>1. ix \in Index /\ IndexConsistent(ix)
  BY DEF Inv, TypeOK, IndexOK
<1> QED
  BY <1>1, DisconnectSeen

LEMMA AcceptSeen ==
    ASSUME NamesAssumption, Inv, NEW c \in Cnx, NEW s \in Slaves, Accept(c, s)
    PROVE  AbsStep
<1>1. /\ UNCHANGED <<known, slaveCnx, ix>> /\ stage' = [stage EXCEPT ![c] = "connecting"]
      /\ stage \in [Cnx -> {"closed", "connecting", "connected"}] /\ ~Open(c)
  BY DEF Accept, Inv, TypeOK
<1>2. link[c] = NoSlave
  BY <1>1 DEF Inv, LinkOK
<1> QED
  BY <1>1, <1>2, SeenUnlinked

LEMMA HelloSeen ==
    ASSUME NamesAssumption, Inv, NEW c \in Cnx, HelloAnswered(c)
    PROVE  AbsStep
<1>1. Matched(c) /\ TypeOK /\ "HELLO" \in Kinds \ {"SFVLOG", "STATS", "DELETE"}
  BY DEF HelloAnswered, Answers, Inv, Kinds, HandshakeKinds
<1>0. Answer(c).from \in Slaves /\ stage[c] = "connecting" /\ c # NoCnx
  BY <1>1, NamesAssumption, HandshakeAnswered, SlotFacts DEF Reply, HelloAnswered
<1>2. PICK s \in Slaves : s = Answer(c).from
  BY <1>0
<1>3. CASE Disconnect(c, ix)
  BY <1>3, DisconnectNowSeen
<1>4. CASE /\ Welcome(s)
           /\ slaveCnx' = [slaveCnx EXCEPT ![s] = c]
           /\ UNCHANGED <<known, ix, stage>>
  <2>1. slaveCnx \in [Slaves -> Cnx \cup {NoCnx}] /\ s \in known /\ slaveCnx[s] = NoCnx
    BY <1>1, <1>4 DEF TypeOK, Welcome
  <2>2. slaveCnx'[s] = c /\ \A t \in Slaves : t # s => slaveCnx'[t] = slaveCnx[t]
    BY <1>0, <1>2, <1>4, <2>1
  <2>3. \A t \in Slaves : t # s => SameSlave(t)
    BY <1>4, <2>2 DEF SameSlave, Session, Online
  <2>4. Session(s) = "away" /\ Session(s)' = "joining"
    BY <1>0, <1>2, <1>4, <2>1, <2>2 DEF Session
  <2>5. Online(s)' = Online(s)
    BY <1>0, <1>2, <1>4, <2>1, <2>2 DEF Online, Inv, OnlineXorOffline
  <2> QED
    BY <1>0, <1>2, <1>4, <2>3, <2>4, <2>5, SeenOne
<1> QED
  BY <1>2, <1>3, <1>4 DEF HelloAnswered

LEMMA FileListSeen ==
    ASSUME NamesAssumption, Inv, NEW c \in Cnx, FileListAnswered(c)
    PROVE  AbsStep
<1> DEFINE listed == Answer(c).files
           merged == MergeFileList(ix, c, link[c], listed)
<1>1. Answers(c, "FILE_LIST") /\ TypeOK
  BY DEF FileListAnswered, Inv
<1>2. /\ merged \in Index /\ IndexConsistent(merged)
      /\ stage[c] = "connecting" /\ link[c] \in Slaves /\ link[c] # NoSlave
      /\ listed \in SUBSET Files
      /\ merged.avail[c] = listed
      /\ \A d \in Cnx : d # c => merged.avail[d] = ix.avail[d]
      /\ merged.offline[link[c]] = {}
      /\ \A t \in Slaves : t # link[c] => merged.offline[t] = ix.offline[t]
  BY <1>1, MergedIndex
<1> HIDE DEF merged
<1>3. CASE Disconnect(c, ix)
  BY <1>3, DisconnectNowSeen
<1>4. CASE Disconnect(c, merged)
  BY <1>2, <1>4, DisconnectSeen
<1>5. CASE /\ ix' = merged
           /\ stage' = [stage EXCEPT ![c] = "connected"]
           /\ UNCHANGED <<known, slaveCnx>>
  <2>0. PICK s \in Slaves : s = link[c]
    BY <1>2
  <2>1. slaveCnx[s] = c /\ s \in known /\ c # NoCnx
    BY <1>2, <2>0, NamesAssumption DEF Inv, LinkOK
  <2>2. \A t \in Slaves : t # s => slaveCnx[t] # c /\ (slaveCnx[t] # NoCnx => slaveCnx[t] \in Cnx)
    BY <1>2, <2>0, NamesAssumption, SeenFacts DEF Inv, LinkOK
  <2>3. stage'[c] = "connected" /\ \A d \in Cnx : d # c => stage'[d] = stage[d]
    BY <1>1, <1>5 DEF TypeOK
  <2>4. \A t \in Slaves : t # s => SameSlave(t)
    BY <1>2, <1>5, <2>0, <2>2, <2>3 DEF SameSlave, Session, Online
  <2>5. Session(s) = "joining"
    BY <1>2, <2>1, SeenFacts
  <2>6. Session(s)' = "serving" /\ Online(s)' = listed /\ ix'.offline[s] = {}
    BY <1>2, <1>5, <2>0, <2>1, <2>3 DEF Session, Online
  <2> QED
    BY <1>2, <2>0, <2>1, <2>4, <2>5, <2>6, SeenOne
<1> QED
  BY <1>3, <1>4, <1>5 DEF FileListAnswered, merged

(* A wipe takes its file from all the slaves at once.                      *)
LEMMA WipeSeen ==
    ASSUME NamesAssumption, Inv, NEW f \in Files, Wipe(f)
    PROVE  AbsStep
<1>1. /\ \A d \in Cnx : ix'.avail[d] = ix.avail[d] \ {f}
      /\ \A s \in Slaves : ix'.offline[s] = ix.offline[s] \ {f}
  BY WipeIndex
<1>2. UNCHANGED <<known, stage, slaveCnx>>
  BY DEF Wipe
<1>3. ASSUME NEW s \in Slaves
      PROVE  Session(s)' = Session(s) /\ Online(s)' = Online(s) \ {f}
  <2>1. slaveCnx[s] # NoCnx => slaveCnx[s] \in Cnx
    BY SeenFacts
  <2> QED
    BY <1>1, <1>2, <2>1 DEF Session, Online
<1>4. Abs!Delete(f)
  BY <1>1, <1>3 DEF Abs!Delete
<1> QED
  BY <1>4 DEF AbsStep, Abs!Next

(* A wipe from one slave takes the file from what the slave will offer; it *)
(* stays listed from a slave that is connected until its list comes again. *)
LEMMA WipeFromSeen ==
    ASSUME NamesAssumption, Inv, NEW f \in Files, NEW s \in Slaves, WipeFrom(f, s)
    PROVE  AbsStep
<1>1. /\ ix'.avail = ix.avail
      /\ \A t \in Slaves : t # s => ix'.offline[t] = ix.offline[t]
      /\ ix'.offline[s] = ix.offline[s] \ {f}
  BY WipeFromIndex
<1>2. UNCHANGED <<known, stage, slaveCnx>>
  BY DEF WipeFrom
<1>3. \A t \in Slaves : Session(t)' = Session(t) /\ Online(t)' = Online(t)
  BY <1>1, <1>2 DEF Session, Online
<1>4. \A t \in Slaves : t # s => SameSlave(t)
  BY <1>1, <1>3 DEF SameSlave
<1>5. CASE Session(s) = "serving"
  <2>1. ix.offline[s] = {}
    BY <1>5, SeenFacts
  <2>2. SameSlave(s)
    BY <1>1, <1>3, <2>1 DEF SameSlave
  <2> QED
    BY <1>4, <2>2, SeenSame
<1>6. CASE Session(s) # "serving"
  BY <1>1, <1>3, <1>4, <1>6, SeenOne
<1> QED
  BY <1>5, <1>6

LEMMA SlaveNewSeen ==
    ASSUME NamesAssumption, Inv, NEW s \in Slaves, SlaveNew(s)
    PROVE  AbsStep
<1>1. /\ known' = known \cup {s} /\ s \notin known
      /\ UNCHANGED <<stage, slaveCnx, ix>>
  BY DEF SlaveNew, session
<1>2. \A t \in Slaves : t # s => SameSlave(t)
  BY <1>1 DEF SameSlave, Session, Online
<1>3. slaveCnx[s] = NoCnx
  BY <1>1, SeenFacts
<1>4. Session(s) = "unknown" /\ Session(s)' = "away" /\ Online(s)' = Online(s)
  BY <1>1, <1>3 DEF Session, Online
<1>5. ix'.offline[s] = ix.offline[s]
  BY <1>1
<1> QED
  BY <1>2, <1>4, <1>5, SeenOne

LEMMA SlaveDeleteSeen ==
    ASSUME NamesAssumption, Inv, NEW s \in Slaves, SlaveDelete(s)
    PROVE  AbsStep
<1>1. /\ TypeOK /\ ix \in Index /\ IndexConsistent(ix)
      /\ ix.avail \in [Cnx -> SUBSET Files] /\ ix.offline \in [Slaves -> SUBSET Files]
      /\ stage \in [Cnx -> {"closed", "connecting", "connected"}]
      /\ slaveCnx \in [Slaves -> Cnx \cup {NoCnx}]
  BY ConsistentFields DEF Inv, TypeOK, IndexOK
<1>2. known' = known \ {s} /\ s \in known
  BY DEF SlaveDelete
<1>3. CASE /\ slaveCnx[s] = NoCnx
           /\ ix' = ForgetSlave(ix, s)
           /\ UNCHANGED <<session, toMaster>>
  <2>1. ix'.avail = ix.avail /\ ix'.offline = [ix.offline EXCEPT ![s] = {}]
    BY <1>1, <1>3, ForgetSlaveConsistent
  <2>2. ix'.offline[s] = {} /\ \A t \in Slaves : t # s => ix'.offline[t] = ix.offline[t]
    BY <1>1, <2>1
  <2>3. UNCHANGED <<stage, slaveCnx>>
    BY <1>3 DEF session
  <2>4. \A t \in Slaves : t # s => SameSlave(t)
    BY <1>2, <2>1, <2>2, <2>3 DEF SameSlave, Session, Online
  <2>5. Session(s) # "unknown" /\ Session(s)' = "unknown" /\ Online(s)' = {}
    BY <1>2, <1>3, <2>3 DEF Session, Online
  <2> QED
    BY <2>2, <2>4, <2>5, SeenOne
<1>4. ASSUME NEW c \in Cnx, slaveCnx[s] = c,
             ix' = ForgetSlave(ForgetConnection(ix, c), s),
             stage' = [stage EXCEPT ![c] = "closed"],
             slaveCnx' = [slaveCnx EXCEPT ![s] = NoCnx]
      PROVE  AbsStep
  <2> DEFINE jx == ForgetConnection(ix, c)
  <2>1. /\ jx \in Index /\ IndexConsistent(jx)
        /\ jx.avail = [ix.avail EXCEPT ![c] = {}]
        /\ jx.offline = ix.offline
    BY <1>1, ForgetConnectionConsistent
  <2> HIDE DEF jx
  <2>2. ix'.avail = jx.avail /\ ix'.offline = [jx.offline EXCEPT ![s] = {}]
    BY <1>4, <2>1, ForgetSlaveConsistent DEF jx
  <2>3. /\ ix'.offline[s] = {} /\ \A t \in Slaves : t # s => ix'.offline[t] = ix.offline[t]
        /\ \A d \in Cnx : d # c => ix'.avail[d] = ix.avail[d]
    BY <1>1, <2>1, <2>2
  <2>4. /\ \A t \in Slaves : t # s => slaveCnx'[t] = slaveCnx[t]
        /\ \A d \in Cnx : d # c => stage'[d] = stage[d]
        /\ slaveCnx'[s] = NoCnx
    BY <1>1, <1>4
  <2>5. \A t \in Slaves : t # s => slaveCnx[t] # c /\ (slaveCnx[t] # NoCnx => slaveCnx[t] \in Cnx)
    BY <1>4, SeenFacts DEF Inv, LinkOK
  <2>6. \A t \in Slaves : t # s => SameSlave(t)
    BY <1>2, <2>3, <2>4, <2>5 DEF SameSlave, Session, Online
  <2>7. Session(s)' = "unknown" /\ Online(s)' = {}
    BY <1>2, <2>4 DEF Session, Online
  <2>8. Session(s) # "unknown"
    BY <1>2 DEF Session
  <2> QED
    BY <2>3, <2>6, <2>7, <2>8, SeenOne
<1> QED
  BY <1>3, <1>4 DEF SlaveDelete

LEMMA MasterCrashSeen ==
    ASSUME MasterCrash
    PROVE  AbsStep
<1>1. known' = {} /\ slaveCnx' = [s \in Slaves |-> NoCnx] /\ ix'.offline = [s \in Slaves |-> {}]
  BY DEF MasterCrash, NoFiles
<1>2. \A s \in Slaves : Session(s)' = "unknown" /\ Online(s)' = {} /\ ix'.offline[s] = {}
  BY <1>1 DEF Session, Online
<1>3. Abs!Stop
  BY <1>2 DEF Abs!Stop
<1> QED
  BY <1>3 DEF AbsStep, Abs!Next

LEMMA MasterStartSeen ==
    ASSUME NamesAssumption, IInv, MasterStart
    PROVE  AbsStep
<1>1. PICK K \in SUBSET Slaves, L \in [Slaves -> SUBSET Files] : K = configs /\ L = Kept
  <2>1. configs \in SUBSET Slaves /\ Kept \in [Slaves -> SUBSET Files]
    BY DEF IInv, Inv, TypeOK, Kept
  <2> QED
    BY <2>1
<1>2. /\ known = {} /\ known' = K /\ slaveCnx' = slaveCnx
      /\ ix'.offline = [s \in Slaves |-> IF s \in K THEN L[s] ELSE {}]
  BY <1>1 DEF IInv, StoppedHoldsNothing, MasterStart, LoadOffline, NoFiles, session
<1>3. \A s \in Slaves : slaveCnx[s] = NoCnx
  BY <1>2, SeenFacts DEF IInv
<1>4. \A s \in Slaves :
          /\ Session(s) = "unknown" /\ Session(s)' = (IF s \in K THEN "away" ELSE "unknown")
          /\ Online(s)' = Online(s)
          /\ ix'.offline[s] = IF s \in K THEN L[s] ELSE {}
  BY <1>2, <1>3 DEF Session, Online
<1>5. Abs!Start(K, L)
  BY <1>4 DEF Abs!Start
<1> QED
  BY <1>5 DEF AbsStep, Abs!Next

LEMMA NothingSeen ==
    ASSUME UNCHANGED <<known, slaveCnx, ix, stage>>
    PROVE  AbsStep
BY SeenSame DEF SameSlave, Session, Online

LEMMA StepSeen == NamesAssumption /\ IInv /\ [Next]_vars => [Abs!Next]_(Abs!vars)
<1> SUFFICES ASSUME NamesAssumption, IInv, [Next]_vars PROVE AbsStep
  BY DEF AbsStep
<1>0. Inv
  BY DEF IInv
<1>1. ASSUME NEW c \in Cnx, Master(c) \/ Slave(c) PROVE AbsStep
  BY <1>0, <1>1, UnseenStep, NothingSeen, AcceptSeen, HelloSeen, FileListSeen, DisconnectNowSeen
<1>2. ASSUME Calls PROVE AbsStep
  <2>1. CASE \E f \in Files : Wipe(f) \/ \E s \in Slaves : WipeFrom(f, s)
    BY <1>0, <2>1, WipeSeen, WipeFromSeen
  <2>2. CASE \E s \in Slaves : DumpFileslog(s)
    BY <2>2, NothingSeen DEF DumpFileslog, session
  <2>3. CASE \E s \in Slaves : SlaveNew(s) \/ SlaveDelete(s)
    BY <1>0, <2>3, SlaveNewSeen, SlaveDeleteSeen
  <2>4. CASE MasterCrash \/ MasterStart
    BY <2>4, MasterCrashSeen, MasterStartSeen
  <2> QED
    BY <1>2, <2>1, <2>2, <2>3, <2>4 DEF Calls
<1>3. ASSUME NEW s \in Slaves, SlaveRestart(s) PROVE AbsStep
  BY <1>3, NothingSeen DEF SlaveRestart, session
<1>4. CASE UNCHANGED vars
  BY <1>4, NothingSeen DEF vars, session
<1> QED
  BY <1>1, <1>2, <1>3, <1>4 DEF Next

LEMMA InitSeen == NamesAssumption /\ Init => Abs!Init
<1> SUFFICES ASSUME Init PROVE Abs!Init
  OBVIOUS
<1>1. slaveCnx = [s \in Slaves |-> NoCnx] /\ ix.offline = [s \in Slaves |-> {}]
  BY DEF Init, NoFiles
<1>2. \A s \in Slaves : Session(s) \in {"unknown", "away"} /\ Online(s) = {} /\ ix.offline[s] = {}
  BY <1>1 DEF Session, Online
<1> QED
  BY <1>2 DEF Abs!Init

(* What the rest of the master sees of its slaves is what Availability     *)
(* says: a slave joins, serves all of its list from one step on, and its   *)
(* files are offline, and none forgotten, from the step that loses its     *)
(* connection, whatever handler notices the loss; every step of the        *)
(* handshake, of a wipe, of slave_delete and of a restart is a step of     *)
(* Availability or none (slaves.c, ftpd_wipe, ftpd_wipe_from).             *)
THEOREM LinkImplementsAvailability == Spec => ImplementsAvailability
<1>1. NamesAssumption /\ Init => Abs!Init
  BY InitSeen
<1>2. NamesAssumption /\ IInv /\ [Next]_vars => [Abs!Next]_(Abs!vars)
  BY StepSeen
<1> QED
  BY <1>1, <1>2, NamesAssumption, Invariance, PTL DEF Spec, Abs!Spec, ImplementsAvailability
================================================================================
