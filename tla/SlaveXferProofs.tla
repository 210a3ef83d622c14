---------------------------- MODULE SlaveXferProofs ----------------------------
(***************************************************************************)
(* What one transfer on the slave's side promises, for any sizes of file,  *)
(* buffer and socket and any number of queries.                            *)
(*                                                                         *)
(* The properties speak of the ends of a transfer: what is on the disk     *)
(* when an upload is answered, what the peer has when a download goes on.  *)
(* The invariant says where each byte is in between.  Of an upload, what   *)
(* was received (crc) is the file and then the part of the buffer that is  *)
(* not written; of a download, what was sent is the piece of the file that *)
(* ends at At, and the peer has or will get all of it.  Both need to know  *)
(* what a flag of the slave_xfer means for the others (FlagsAgree), and    *)
(* which queries may still be answered (QueriesAgree).                     *)
(***************************************************************************)
EXTENDS SlaveXfer, SequenceTheorems, TLAPS

(* Queries and answers: what is answered was asked, and what a transfer    *)
(* has still to answer, the listening too, was not answered.               *)
QueriesAgree ==
    /\ AnsweredOnce
    /\ \A i \in DOMAIN answers : answers[i].to <= queries
    /\ x.alive => /\ x.query <= queries
                  /\ x.query # 0 => ~Answered(x.query)
                  /\ x.passive /\ x.proxied => ~Answered(0)

(* The flags of a slave_xfer: only the TRANSFER query gives it a file, the *)
(* disk works for an open operation only, and only an upload whose peer    *)
(* has closed is monitored.                                                *)
FlagsAgree ==
    /\ ~x.alive => op = Idle /\ wire = <<>>
    /\ x.alive =>
        /\ x.hasFile <=> x.query # 0
        /\ x.ready <=> x.hasFile
        /\ x.upload <=> x.hasFile /\ options.upload
        /\ x.hasFile => mapped
        /\ ~x.hasFile => op = Idle /\ queries = 0 /\ x.crc = <<>>
        /\ op # Idle => x.hasOp
        /\ x.monitored => x.connected /\ x.upload /\ wire = <<>>

(* The file, and the bytes under way before there is a transfer for them.  *)
FileAgrees ==
    /\ ~mapped => file = <<>> /\ size = 0
    /\ (mapped /\ ~options.upload) => file = Whole /\ size = N
    /\ options.upload => Len(wire) <= sent
    /\ ~options.upload /\ x.alive /\ ~x.hasFile => wire = <<>>
    /\ peer = "absent" => sent = 0 /\ wire = <<>>
    /\ queries = 0 => got = <<>>

(* An upload: what was received (crc) is the file followed by what of the  *)
(* buffer is not written, which is all of it while a write is running      *)
(* (from + 1 is where it begins).                                          *)
From == IF op = "running" THEN 0 ELSE x.len
UploadAgrees ==
    x.alive /\ x.upload =>
        /\ x.len <= x.ptr
        /\ op = Idle /\ ~x.monitored => x.len = 0
        /\ x.xfered = size /\ size = Len(x.crc) /\ size + Len(wire) <= sent
        /\ op # "failed" =>
            /\ x.restart = Len(file) + (x.len - From)
            /\ Len(x.crc) = Len(file) + (x.ptr - From)
            /\ \A i \in 1 .. Len(file) : file[i] = x.crc[i]
            /\ \A i \in 1 .. x.ptr - From : x.buf[From + i] = x.crc[Len(file) + i]

(* Nothing was lost between the client and the slave.                      *)
ReceivedInOrder ==
    options.upload /\ x.alive /\ x.connected /\ leaked = 0 =>
        /\ sent = Len(x.crc) + Len(wire)
        /\ \A i \in 1 .. Len(x.crc) : x.crc[i] = i
        /\ \A i \in 1 .. Len(wire) : wire[i] = Len(x.crc) + i

(* A download: At is where in the file what was sent ends.                 *)
At == IF x.completed THEN N ELSE x.restart - x.len
DownloadAgrees ==
    x.alive /\ x.hasFile /\ ~x.upload =>
        /\ x.xfered = Len(x.crc) /\ x.len <= x.restart
        /\ x.restart > N => x.crc = <<>>
        /\ ~x.completed => /\ x.ptr = 0 /\ x.done = 0 /\ op # Idle
                           /\ x.restart <= N => x.xfered + x.len <= x.restart
        /\ op = "done" /\ ~x.completed /\ x.restart <= N =>
              \A i \in 1 .. x.len : x.buf[i] = x.restart - x.len + i
        /\ ~short => \A i \in 1 .. Len(x.crc) : x.crc[i] = At - Len(x.crc) + i

(* What the peer has and will get is what was sent to it.                  *)
SentInOrder ==
    ~options.upload /\ x.alive /\ leaked = 0 =>
        /\ Len(x.crc) = Len(got) + Len(wire)
        /\ \A i \in 1 .. Len(got) : got[i] = x.crc[i]
        /\ \A i \in 1 .. Len(wire) : wire[i] = x.crc[Len(got) + i]

IInv == /\ TypeOK /\ FileReleased /\ QueriesAgree /\ FlagsAgree /\ FileAgrees
        /\ UploadAgrees /\ ReceivedInOrder /\ DownloadAgrees /\ SentInOrder
--------------------------------------------------------------------------------
(* The fields of a slave_xfer, and what a new one holds.                   *)

LEMMA Sizes == /\ N \in Nat /\ N > 0 /\ Buffer \in Nat /\ Buffer > 0
               /\ Window \in Nat /\ Window > 0 /\ MaxQueries \in Nat /\ MaxQueries > 0
BY SizesAssumption

LEMMA GoneIsDead == Gone \notin Struct /\ ~Gone.alive
BY DEF Gone, Struct

LEMMA XferTyped ==
    ASSUME TypeOK
    PROVE  /\ ~x.alive => x = Gone
           /\ x.alive => x \in Struct
BY GoneIsDead DEF TypeOK, Struct, Gone

LEMMA StructFields ==
    ASSUME NEW y \in Struct
    PROVE  /\ y.alive
           /\ y.passive \in BOOLEAN /\ y.proxied \in BOOLEAN /\ y.connected \in BOOLEAN
           /\ y.ready \in BOOLEAN /\ y.upload \in BOOLEAN /\ y.completed \in BOOLEAN
           /\ y.monitored \in BOOLEAN /\ y.hasFile \in BOOLEAN /\ y.hasOp \in BOOLEAN
           /\ y.query \in 0 .. MaxQueries /\ y.restart \in 0 .. (N + Buffer)
           /\ y.xfered \in 0 .. N /\ y.crc \in Seq(Byte) /\ y.buf \in [1 .. Buffer -> 0 .. N]
           /\ y.ptr \in 0 .. Buffer /\ y.len \in 0 .. Buffer /\ y.done \in 0 .. Buffer
BY DEF Struct

LEMMA NewStruct ==
    ASSUME NEW p \in BOOLEAN, NEW r \in BOOLEAN
    PROVE  LET y == NewXfer(p, r) IN
           /\ y \in Struct /\ y.alive /\ y.passive = p /\ y.proxied = r /\ ~y.connected
           /\ ~y.ready /\ ~y.upload /\ ~y.completed /\ ~y.monitored /\ y.query = 0
           /\ ~y.hasFile /\ ~y.hasOp /\ y.crc = <<>>
<1>1. <<>> \in Seq(Byte)
  OBVIOUS
<1>2. [i \in 1 .. Buffer |-> 0] \in [1 .. Buffer -> 0 .. N]
  BY Sizes
<1> QED
  BY <1>1, <1>2, Sizes DEF NewXfer, Struct

--------------------------------------------------------------------------------
(* The answers.                                                            *)
AnswerType == [to : 0 .. MaxQueries, size : 0 .. N, crc : Seq(Byte),
               type : Errors \cup {"LISTENING", "TRANSFERED"}]

(* One more answer, to a query that was not answered.                      *)
LEMMA OneMore ==
    ASSUME answers \in Seq(AnswerType), AnsweredOnce,
           NEW a \in AnswerType, answers' = Append(answers, a), ~Answered(a.to)
    PROVE  /\ answers' \in Seq(AnswerType)
           /\ AnsweredOnce'
           /\ \A q : Answered(q)' => Answered(q) \/ q = a.to
           /\ \A i \in DOMAIN answers' : (i \in DOMAIN answers /\ answers'[i] = answers[i]) \/ answers'[i] = a
           /\ answers' # answers /\ Last(answers') = a
<1>1. /\ Append(answers, a) \in Seq(AnswerType)
      /\ Len(Append(answers, a)) = Len(answers) + 1
      /\ \A i \in 1 .. Len(answers) : Append(answers, a)[i] = answers[i]
      /\ Append(answers, a)[Len(answers) + 1] = a
  BY AppendProperties
<1>2. /\ Len(answers) \in Nat /\ DOMAIN answers = 1 .. Len(answers)
      /\ DOMAIN Append(answers, a) = 1 .. Len(answers) + 1
  BY <1>1, LenProperties
<1> DEFINE b == Append(answers, a)
<1>3. /\ b \in Seq(AnswerType) /\ Len(b) = Len(answers) + 1 /\ b[Len(answers) + 1] = a
      /\ \A i \in 1 .. Len(answers) : b[i] = answers[i]
      /\ DOMAIN b = 1 .. Len(answers) + 1 /\ answers' = b
  BY <1>1, <1>2
<1> HIDE DEF b
<1>4. \A i \in DOMAIN b : (i \in DOMAIN answers /\ b[i] = answers[i]) \/ (i = Len(answers) + 1 /\ b[i] = a)
  <2> TAKE i \in DOMAIN b
  <2>1. CASE i = Len(answers) + 1
    BY <1>3, <2>1
  <2>2. CASE i # Len(answers) + 1
    <3>1. i \in 1 .. Len(answers)
      BY <1>2, <1>3, <2>2
    <3>2. i \in DOMAIN answers /\ b[i] = answers[i]
      BY <1>2, <1>3, <3>1
    <3> QED
      BY <3>2
  <2> QED
    BY <2>1, <2>2
<1>5. \A i, j \in DOMAIN b : b[i].to = b[j].to => i = j
  BY <1>4 DEF AnsweredOnce, Answered
<1>6. \A q : (\E i \in DOMAIN b : b[i].to = q) => Answered(q) \/ q = a.to
  BY <1>4 DEF Answered
<1>7. b # answers /\ Last(b) = a
  BY <1>2, <1>3 DEF Last
<1> QED
  BY <1>3, <1>4, <1>5, <1>6, <1>7 DEF AnsweredOnce, Answered

LEMMA AnswersKept ==
    ASSUME answers' = answers
    PROVE  /\ AnsweredOnce => AnsweredOnce'
           /\ \A q : Answered(q)' <=> Answered(q)
BY DEF AnsweredOnce, Answered
--------------------------------------------------------------------------------
(* The ways out of a transfer.                                             *)

LEMMA GoneAgrees ==
    ASSUME x' = Gone, op' = Idle, wire' = <<>>
    PROVE  FlagsAgree' /\ UploadAgrees' /\ ReceivedInOrder' /\ DownloadAgrees' /\ SentInOrder'
BY GoneIsDead DEF FlagsAgree, UploadAgrees, ReceivedInOrder, DownloadAgrees, SentInOrder

(* xfer_obj_destroy gives the reference back.                              *)
LEMMA DestroyReleases ==
    ASSUME IInv, x.alive, XferDestroy, leaked' = leaked
    PROVE  handles' \in Nat /\ FileReleased'
<1>1. x.hasFile \in BOOLEAN
  BY XferTyped, StructFields DEF IInv
<1>2. handles \in Nat /\ leaked \in Nat /\ handles = leaked + (IF x.hasFile THEN 1 ELSE 0)
  BY DEF IInv, TypeOK, FileReleased
<1>3. x' = Gone /\ handles' = IF x.hasFile THEN handles - 1 ELSE handles
  BY DEF XferDestroy, Release
<1> QED
  BY <1>1, <1>2, <1>3, GoneIsDead DEF FileReleased

(* What a transfer had to answer is answered when it goes, and nothing     *)
(* else is.                                                                *)
LEMMA LastAnswer ==
    ASSUME IInv, x.alive, x' = Gone, queries' = queries, NEW a \in AnswerType, a.to = x.query,
           answers' = IF x.query = 0 THEN answers ELSE Append(answers, a)
    PROVE  /\ QueriesAgree' /\ answers' \in Seq(AnswerType)
           /\ x.query = 0 => answers' = answers
           /\ x.query # 0 => answers' # answers /\ Last(answers') = a
<1>1. /\ answers \in Seq(AnswerType) /\ AnsweredOnce
      /\ \A i \in DOMAIN answers : answers[i].to <= queries
      /\ x.query # 0 => ~Answered(x.query)
      /\ x.query <= queries
  BY DEF IInv, TypeOK, AnswerType, QueriesAgree
<1>2. CASE x.query = 0
  BY <1>1, <1>2, AnswersKept, GoneIsDead DEF QueriesAgree
<1>3. CASE x.query # 0
  <2>1. answers' = Append(answers, a) /\ ~Answered(a.to)
    BY <1>1, <1>3
  <2>2. /\ answers' \in Seq(AnswerType) /\ AnsweredOnce'
        /\ \A i \in DOMAIN answers' : (i \in DOMAIN answers /\ answers'[i] = answers[i]) \/ answers'[i] = a
        /\ answers' # answers /\ Last(answers') = a
    BY <1>1, <2>1, OneMore
  <2>3. \A i \in DOMAIN answers' : answers'[i].to <= queries'
    BY <1>1, <2>2
  <2> QED
    BY <1>3, <2>2, <2>3, GoneIsDead DEF QueriesAgree
<1> QED
  BY <1>2, <1>3

(* Once the transfer is gone, the file is whole or was removed.            *)
LEMMA FileAfter ==
    ASSUME IInv, wire' = <<>>, x' = Gone, UNCHANGED <<options, queries, sent, got>>,
           peer' = "absent" => peer = "absent",
           UNCHANGED <<mapped, file, size>> \/ Unmap
    PROVE  FileAgrees' /\ mapped' \in BOOLEAN /\ file' \in Seq(0 .. N) /\ size' \in 0 .. N
<1>1. Len(<<>>) = 0 /\ <<>> \in Seq(0 .. N) /\ 0 \in 0 .. N
  BY Sizes
<1>2. sent \in 0 .. N
  BY DEF IInv, TypeOK
<1>3. mapped \in BOOLEAN /\ file \in Seq(0 .. N) /\ size \in 0 .. N /\ FileAgrees
  BY DEF IInv, TypeOK
<1>4. CASE UNCHANGED <<mapped, file, size>>
  BY <1>1, <1>2, <1>3, <1>4, GoneIsDead DEF FileAgrees, Whole, Byte
<1>5. CASE Unmap
  <2>1. mapped' = FALSE /\ file' = <<>> /\ size' = 0
    BY <1>5 DEF Unmap
  <2>2. FileAgrees'
    BY <1>1, <1>2, <1>3, <2>1, GoneIsDead DEF FileAgrees
  <2> QED
    BY <1>1, <2>1, <2>2
<1> QED
  BY <1>4, <1>5

LEMMA GoneTyped ==
    ASSUME IInv, x' = Gone, op' = Idle, wire' = <<>>,
           UNCHANGED <<options, queries, sent, got, short>>,
           leaked' = leaked, handles' \in Nat, master' \in BOOLEAN,
           answers' \in Seq(AnswerType), peer' \in {"absent", "open", "closed", "reset"},
           mapped' \in BOOLEAN, file' \in Seq(0 .. N), size' \in 0 .. N
    PROVE  TypeOK'
<1>1. <<>> \in Seq(Byte) /\ Len(<<>>) = 0
  OBVIOUS
<1> QED
  BY <1>1, Sizes DEF IInv, TypeOK, AnswerType, OpStates, Idle

LEMMA DeleteKeeps ==
    ASSUME IInv, x.alive, NEW e \in Errors, DeleteXfer(e),
           UNCHANGED <<options, master, queries, sent, got>>,
           peer' \in {"absent", "open", "closed", "reset"}, peer' = "absent" => peer = "absent"
    PROVE  IInv'
<1>1. XferDestroy /\ leaked' = leaked /\ short' = short
  BY DEF DeleteXfer
<1>2. x' = Gone /\ op' = Idle /\ wire' = <<>>
  BY <1>1 DEF XferDestroy
<1>3. handles' \in Nat /\ FileReleased'
  BY <1>1, DestroyReleases
<1>4. QueriesAgree' /\ answers' \in Seq(AnswerType)
  <2> DEFINE a == [to |-> x.query, type |-> e, size |-> 0, crc |-> <<>>]
  <2>1. x.query \in 0 .. MaxQueries
    BY XferTyped, StructFields DEF IInv
  <2>2. a \in AnswerType /\ a.to = x.query
    BY <2>1, Sizes DEF AnswerType
  <2>3. answers' = IF x.query = 0 THEN answers ELSE Append(answers, a)
    BY DEF DeleteXfer, Answer
  <2> HIDE DEF a
  <2> QED
    BY <1>2, <2>2, <2>3, LastAnswer
<1>5. UNCHANGED <<mapped, file, size>> \/ Unmap
  BY DEF DeleteXfer
<1>6. FileAgrees' /\ mapped' \in BOOLEAN /\ file' \in Seq(0 .. N) /\ size' \in 0 .. N
  BY <1>2, <1>5, FileAfter
<1>7. TypeOK'
  <2>1. master' \in BOOLEAN
    BY DEF IInv, TypeOK
  <2> QED
    BY <1>1, <1>2, <1>3, <1>4, <1>6, <2>1, GoneTyped
<1> QED
  BY <1>2, <1>3, <1>4, <1>6, <1>7, GoneAgrees DEF IInv

LEMMA CompleteKeeps ==
    ASSUME IInv, x.alive, CompleteXfer, UNCHANGED outside
    PROVE  IInv'
<1>1. XferDestroy /\ UNCHANGED <<mapped, file, size, leaked, short>>
  BY DEF CompleteXfer
<1>2. x' = Gone /\ op' = Idle /\ wire' = <<>>
  BY <1>1 DEF XferDestroy
<1>3. handles' \in Nat /\ FileReleased'
  BY <1>1, DestroyReleases
<1>4. QueriesAgree' /\ answers' \in Seq(AnswerType)
  <2> DEFINE a == [to |-> x.query, type |-> "TRANSFERED",
                   size |-> IF x.hasFile THEN size ELSE 0, crc |-> x.crc]
  <2>1. x.query \in 0 .. MaxQueries /\ x.crc \in Seq(Byte) /\ x.hasFile \in BOOLEAN
    BY XferTyped, StructFields DEF IInv
  <2>2. size \in 0 .. N
    BY DEF IInv, TypeOK
  <2>3. a \in AnswerType /\ a.to = x.query
    BY <2>1, <2>2, Sizes DEF AnswerType
  <2>4. answers' = IF x.query = 0 THEN answers ELSE Append(answers, a)
    BY DEF CompleteXfer
  <2> HIDE DEF a
  <2> QED
    BY <1>2, <2>3, <2>4, LastAnswer DEF outside
<1>5. FileAgrees' /\ mapped' \in BOOLEAN /\ file' \in Seq(0 .. N) /\ size' \in 0 .. N
  BY <1>1, <1>2, FileAfter DEF outside
<1>6. TypeOK'
  <2>1. master' \in BOOLEAN /\ peer' \in {"absent", "open", "closed", "reset"}
    BY DEF IInv, TypeOK, outside
  <2> QED
    BY <1>1, <1>2, <1>3, <1>4, <1>5, <2>1, GoneTyped DEF outside
<1> QED
  BY <1>2, <1>3, <1>4, <1>5, <1>6, GoneAgrees DEF IInv
--------------------------------------------------------------------------------
(* The handlers, one by one: first those that end a transfer without an    *)
(* error of its own, or refuse to begin it.                                *)

(* An answer to a query that has just arrived.                             *)
LEMMA NewAnswer ==
    ASSUME IInv, queries < MaxQueries, NEW e \in Errors, answers' = Answer(queries + 1, e)
    PROVE  /\ answers' \in Seq(AnswerType) /\ AnsweredOnce'
           /\ \A q : Answered(q)' => Answered(q) \/ q = queries + 1
           /\ \A i \in DOMAIN answers' : answers'[i].to <= queries + 1
           /\ answers' # answers /\ Last(answers').type = e
<1> DEFINE a == [to |-> queries + 1, type |-> e, size |-> 0, crc |-> <<>>]
<1>1. /\ queries \in 0 .. MaxQueries /\ answers \in Seq(AnswerType) /\ AnsweredOnce
      /\ \A i \in DOMAIN answers : answers[i].to <= queries
  BY DEF IInv, TypeOK, AnswerType, QueriesAgree
<1>2. queries + 1 \in 0 .. MaxQueries
  BY <1>1, Sizes
<1>3. a \in AnswerType /\ a.to = queries + 1 /\ a.type = e
  BY <1>2, Sizes DEF AnswerType
<1>4. answers' = Append(answers, a)
  BY DEF Answer
<1>5. \A i \in DOMAIN answers : answers[i].to \in 0 .. MaxQueries
  <2> TAKE i \in DOMAIN answers
  <2>1. answers[i] \in AnswerType
    BY <1>1, LenProperties, ElementOfSeq
  <2> QED
    BY <2>1 DEF AnswerType
<1>6. ~Answered(queries + 1)
  BY <1>1, <1>5 DEF Answered
<1> HIDE DEF a
<1>7. /\ answers' \in Seq(AnswerType) /\ AnsweredOnce'
      /\ \A q : Answered(q)' => Answered(q) \/ q = a.to
      /\ \A i \in DOMAIN answers' : (i \in DOMAIN answers /\ answers'[i] = answers[i]) \/ answers'[i] = a
      /\ answers' # answers /\ Last(answers') = a
  BY <1>1, <1>3, <1>4, <1>6, OneMore
<1>8. \A i \in DOMAIN answers' : answers'[i].to <= queries + 1
  BY <1>1, <1>3, <1>5, <1>7
<1> QED
  BY <1>3, <1>7, <1>8

LEMMA RefusedKeeps ==
    ASSUME IInv, queries < MaxQueries, queries' = queries + 1,
           NEW e \in Errors, answers' = Answer(queries + 1, e),
           x' = Gone, op' = Idle, wire' = <<>>, handles' \in Nat, leaked' \in Nat, FileReleased',
           options' = options, master' = master,
           \/ UNCHANGED <<peer, sent, got, short>>
           \/ peer' = "absent" /\ sent' = 0 /\ got' = <<>> /\ short' = FALSE,
           UNCHANGED <<mapped, file, size>> \/ (options.upload /\ CreateFile)
    PROVE  IInv'
<1>1. /\ answers' \in Seq(AnswerType) /\ AnsweredOnce'
      /\ \A i \in DOMAIN answers' : answers'[i].to <= queries + 1
  BY NewAnswer
<1>2. QueriesAgree'
  BY <1>1, GoneIsDead DEF QueriesAgree
<1>3. /\ Len(<<>>) = 0 /\ <<>> \in Seq(0 .. N) /\ 0 \in 0 .. N /\ <<>> \in Seq(Byte)
      /\ 0 <= sent /\ queries' \in 0 .. MaxQueries /\ queries' # 0
  BY Sizes DEF IInv, TypeOK
<1>4. mapped' \in BOOLEAN /\ file' \in Seq(0 .. N) /\ size' \in 0 .. N
  BY <1>3 DEF IInv, TypeOK, CreateFile
<1>5. /\ sent' \in 0 .. N /\ got' \in Seq(Byte) /\ short' \in BOOLEAN
      /\ peer' \in {"absent", "open", "closed", "reset"}
      /\ peer' = "absent" => sent' = 0
  BY <1>3 DEF IInv, TypeOK, FileAgrees
<1>6. FileAgrees'
  <2>1. ~mapped' => file' = <<>> /\ size' = 0
    BY DEF IInv, FileAgrees, CreateFile
  <2>2. (mapped' /\ ~options.upload) => file' = Whole /\ size' = N
    BY DEF IInv, FileAgrees, CreateFile, Whole, Byte
  <2> QED
    BY <1>3, <1>5, <2>1, <2>2, GoneIsDead DEF FileAgrees, Whole, Byte
<1>7. TypeOK'
  <2>1. master' \in BOOLEAN /\ options' \in [proxy : BOOLEAN, delete : BOOLEAN, upload : BOOLEAN]
    BY DEF IInv, TypeOK
  <2> QED
    BY <1>1, <1>3, <1>4, <1>5, <2>1, Sizes DEF TypeOK, AnswerType, OpStates, Idle
<1> QED
  BY <1>2, <1>6, <1>7, GoneAgrees DEF IInv
(* Nothing that matters to a transfer changes but its flags.               *)
LEMMA ListenKeeps == ASSUME IInv, ProcessListen PROVE IInv'
<1>1. /\ ~x.alive /\ queries = 0 /\ answers = <<>> /\ UNCHANGED <<store, op, wire, outside, short>>
      /\ op = Idle /\ wire = <<>> /\ got = <<>>
  BY DEF IInv, FlagsAgree, FileAgrees, ProcessListen
<1>2. ASSUME NEW type \in Errors \cup {"LISTENING"}, answers' = Answer(0, type)
      PROVE  /\ answers' \in Seq(AnswerType) /\ AnsweredOnce'
             /\ \A i \in DOMAIN answers' : answers'[i].to <= queries'
  <2> DEFINE a == [to |-> 0, type |-> type, size |-> 0, crc |-> <<>>]
  <2>1. answers \in Seq(AnswerType) /\ AnsweredOnce /\ ~Answered(0)
    <3>1. DOMAIN answers = {} /\ answers \in Seq(AnswerType)
      BY <1>1
    <3> QED
      BY <3>1 DEF AnsweredOnce, Answered
  <2>2. a \in AnswerType /\ a.to = 0
    BY Sizes DEF AnswerType
  <2>3. answers' = Append(answers, a)
    BY <1>2 DEF Answer
  <2>4. DOMAIN answers = {} /\ queries' = 0
    BY <1>1 DEF outside
  <2> HIDE DEF a
  <2>5. /\ answers' \in Seq(AnswerType) /\ AnsweredOnce'
        /\ \A i \in DOMAIN answers' : (i \in DOMAIN answers /\ answers'[i] = answers[i]) \/ answers'[i] = a
    BY <2>1, <2>2, <2>3, OneMore
  <2> QED
    BY <2>2, <2>4, <2>5
<1>3. CASE /\ x' = NewXfer(TRUE, options.proxy)
           /\ answers' = IF options.proxy THEN answers ELSE Answer(0, "LISTENING")
  <2>1. options.proxy \in BOOLEAN
    BY DEF IInv, TypeOK
  <2>2. /\ x' \in Struct /\ x'.alive /\ x'.passive /\ x'.proxied = options.proxy
        /\ ~x'.connected /\ ~x'.ready /\ ~x'.upload /\ ~x'.completed /\ ~x'.monitored
        /\ x'.query = 0 /\ ~x'.hasFile /\ ~x'.hasOp /\ x'.crc = <<>>
    BY <1>3, <2>1, NewStruct
  <2>3. /\ answers' \in Seq(AnswerType) /\ AnsweredOnce'
        /\ \A i \in DOMAIN answers' : answers'[i].to <= queries'
        /\ x'.proxied => ~Answered(0)'
    <3>1. CASE options.proxy
      <4>1. answers' = <<>> /\ DOMAIN <<>> = {} /\ <<>> \in Seq(AnswerType)
        BY <1>1, <1>3, <3>1
      <4> QED
        BY <4>1 DEF AnsweredOnce, Answered
    <3>2. CASE ~options.proxy
      BY <1>2, <1>3, <2>2, <3>2
    <3> QED
      BY <2>1, <3>1, <3>2
  <2>4. QueriesAgree'
    <3>1. x'.query <= queries'
      BY <1>1, <2>2 DEF outside
    <3> QED
      BY <2>2, <2>3, <3>1 DEF QueriesAgree
  <2>5. TypeOK'
    BY <1>1, <2>2, <2>3 DEF IInv, TypeOK, AnswerType, store, outside
  <2>6. FileReleased'
    BY <1>1, <2>2 DEF IInv, FileReleased, store
  <2>7. FlagsAgree' /\ FileAgrees'
    BY <1>1, <2>2 DEF IInv, FlagsAgree, FileAgrees, store, outside, Whole, Byte
  <2>8. UploadAgrees' /\ ReceivedInOrder' /\ DownloadAgrees'
    BY <2>2 DEF UploadAgrees, ReceivedInOrder, DownloadAgrees
  <2>9. SentInOrder'
    <3>1. x'.crc = <<>> /\ got' = <<>> /\ wire' = <<>> /\ Len(<<>>) = 0
      BY <1>1, <2>2 DEF outside
    <3> QED
      BY <3>1 DEF SentInOrder
  <2> QED
    BY <2>4, <2>5, <2>6, <2>7, <2>8, <2>9 DEF IInv
<1>4. CASE UNCHANGED x /\ answers' = Answer(0, "FAILURE")
  <2>1. /\ answers' \in Seq(AnswerType) /\ AnsweredOnce'
        /\ \A i \in DOMAIN answers' : answers'[i].to <= queries'
    BY <1>2, <1>4 DEF Errors
  <2>2. QueriesAgree'
    BY <1>1, <1>4, <2>1 DEF QueriesAgree
  <2>3. x' = Gone /\ op' = Idle /\ wire' = <<>>
    BY <1>1, <1>4, XferTyped DEF IInv
  <2>4. TypeOK' /\ FileReleased' /\ FileAgrees'
    BY <1>1, <1>4, <2>1 DEF IInv, TypeOK, FileReleased, FileAgrees, AnswerType, store, outside, Whole, Byte
  <2> QED
    BY <2>2, <2>3, <2>4, GoneAgrees DEF IInv
<1> QED
  BY <1>3, <1>4 DEF ProcessListen
(* The connection and the proxy leave the data of a transfer alone.        *)
LEMMA DataKept ==
    ASSUME IInv, x.alive, x'.alive, UNCHANGED <<op, file, size, wire, sent, got, options, leaked, short>>,
           x'.upload = x.upload, x'.hasFile = x.hasFile, x'.completed = x.completed,
           x'.monitored = x.monitored, x'.len = x.len, x'.ptr = x.ptr, x'.done = x.done,
           x'.xfered = x.xfered, x'.restart = x.restart, x'.crc = x.crc, x'.buf = x.buf
    PROVE  UploadAgrees' /\ DownloadAgrees' /\ SentInOrder'
<1>1. From' = From /\ At' = At
  BY DEF From, At
<1>2. UploadAgrees'
  BY <1>1 DEF IInv, UploadAgrees
<1>3. DownloadAgrees'
  BY <1>1 DEF IInv, DownloadAgrees
<1>4. SentInOrder'
  BY DEF IInv, SentInOrder
<1> QED
  BY <1>2, <1>3, <1>4

LEMMA ConnectKeeps == ASSUME IInv, XferConnect PROVE IInv'
<1>1. x.alive /\ peer = "absent" /\ UNCHANGED <<options, master, queries, sent, got>>
  BY DEF XferConnect, Open
<1>2. CASE x' = [x EXCEPT !.connected = TRUE] /\ peer' = "open" /\ UNCHANGED <<store, op, wire, answers, short>>
  <2>1. x \in Struct
    BY <1>1, XferTyped DEF IInv
  <2>2. /\ x' \in Struct /\ x'.connected
        /\ x'.passive = x.passive /\ x'.proxied = x.proxied /\ x'.ready = x.ready
        /\ x'.query = x.query /\ x'.hasOp = x.hasOp
        /\ x'.upload = x.upload /\ x'.hasFile = x.hasFile /\ x'.completed = x.completed
        /\ x'.monitored = x.monitored /\ x'.len = x.len /\ x'.ptr = x.ptr /\ x'.done = x.done
        /\ x'.xfered = x.xfered /\ x'.restart = x.restart /\ x'.crc = x.crc /\ x'.buf = x.buf
    BY <1>2, <2>1 DEF Struct
  <2>3. x'.alive
    BY <2>2, StructFields
  <2>4. UploadAgrees' /\ DownloadAgrees' /\ SentInOrder'
    BY <1>1, <1>2, <2>2, <2>3, DataKept DEF store
  <2>5. TypeOK' /\ FileReleased'
    BY <1>1, <1>2, <2>2, <2>3 DEF IInv, TypeOK, FileReleased, store
  <2>6. QueriesAgree'
    BY <1>1, <1>2, <2>2, <2>3, AnswersKept DEF IInv, QueriesAgree
  <2>7. FlagsAgree' /\ FileAgrees'
    BY <1>1, <1>2, <2>2, <2>3 DEF IInv, FlagsAgree, FileAgrees, store, Whole, Byte
  <2>8. ReceivedInOrder'
    <3>1. sent = 0 /\ wire = <<>> /\ Len(<<>>) = 0 /\ x.crc \in Seq(Byte)
      BY <1>1, <2>1, StructFields DEF IInv, FileAgrees
    <3>2. options.upload => Len(x.crc) = 0
      <4>1. Len(x.crc) \in Nat
        BY <3>1, LenProperties
      <4> QED
        BY <1>1, <3>1, <4>1 DEF IInv, FlagsAgree, UploadAgrees
    <3>3. sent' = 0 /\ wire' = <<>> /\ x'.crc = x.crc /\ options' = options
      BY <1>1, <1>2, <2>2, <3>1
    <3> QED
      BY <3>1, <3>2, <3>3 DEF ReceivedInOrder
  <2> QED
    BY <2>4, <2>5, <2>6, <2>7, <2>8 DEF IInv
<1>3. CASE peer' = "closed" /\ DeleteXfer("FAILURE")
  <2>1. "FAILURE" \in Errors /\ peer' \in {"absent", "open", "closed", "reset"} /\ (peer' = "absent" => peer = "absent")
    BY <1>3 DEF Errors
  <2> QED
    BY <1>1, <1>3, <2>1, DeleteKeeps
<1> QED
  BY <1>2, <1>3 DEF XferConnect

(* An error, with everything outside as it was.                            *)
LEMMA ErrorKeeps == ASSUME IInv, x.alive, NEW e \in Errors, DeleteXfer(e), UNCHANGED outside PROVE IInv'
<1>1. /\ UNCHANGED <<options, master, queries, sent, got>> /\ (peer' = "absent" => peer = "absent")
      /\ peer' \in {"absent", "open", "closed", "reset"}
  BY DEF outside, IInv, TypeOK
<1> QED
  BY <1>1, DeleteKeeps

LEMMA ProxyKeeps == ASSUME IInv, ProxyReply PROVE IInv'
<1>1. x.alive /\ x.connected /\ x.proxied /\ UNCHANGED outside
  BY DEF ProxyReply, Open
<1>2. CASE /\ x' = [x EXCEPT !.proxied = FALSE] /\ UNCHANGED <<store, op, wire, short>>
           /\ answers' = IF x.passive THEN Answer(0, "LISTENING") ELSE answers
  <2>1. x \in Struct /\ x.passive \in BOOLEAN /\ x.query \in 0 .. MaxQueries
    BY <1>1, XferTyped, StructFields DEF IInv
  <2>2. /\ x' \in Struct /\ ~x'.proxied
        /\ x'.passive = x.passive /\ x'.connected = x.connected /\ x'.ready = x.ready
        /\ x'.query = x.query /\ x'.hasOp = x.hasOp
        /\ x'.upload = x.upload /\ x'.hasFile = x.hasFile /\ x'.completed = x.completed
        /\ x'.monitored = x.monitored /\ x'.len = x.len /\ x'.ptr = x.ptr /\ x'.done = x.done
        /\ x'.xfered = x.xfered /\ x'.restart = x.restart /\ x'.crc = x.crc /\ x'.buf = x.buf
    BY <1>2, <2>1 DEF Struct
  <2>3. x'.alive
    BY <2>2, StructFields
  <2>4. UploadAgrees' /\ DownloadAgrees' /\ SentInOrder'
    BY <1>1, <1>2, <2>2, <2>3, DataKept DEF store, outside
  <2>5. /\ answers' \in Seq(AnswerType) /\ AnsweredOnce'
        /\ \A i \in DOMAIN answers' : answers'[i].to <= queries
        /\ x.query # 0 => ~Answered(x.query)'
    <3>1. /\ answers \in Seq(AnswerType) /\ AnsweredOnce /\ queries \in Nat
          /\ \A i \in DOMAIN answers : answers[i].to <= queries
          /\ x.query # 0 => ~Answered(x.query)
          /\ x.passive => ~Answered(0)
      BY <1>1 DEF IInv, TypeOK, AnswerType, QueriesAgree
    <3>2. CASE ~x.passive
      BY <1>2, <3>1, <3>2, AnswersKept
    <3>3. CASE x.passive
      <4> DEFINE a == [to |-> 0, type |-> "LISTENING", size |-> 0, crc |-> <<>>]
      <4>1. a \in AnswerType /\ a.to = 0
        BY Sizes DEF AnswerType
      <4>2. answers' = Append(answers, a)
        BY <1>2, <3>3 DEF Answer
      <4> HIDE DEF a
      <4>3. /\ answers' \in Seq(AnswerType) /\ AnsweredOnce'
            /\ \A q : Answered(q)' => Answered(q) \/ q = a.to
            /\ \A i \in DOMAIN answers' : (i \in DOMAIN answers /\ answers'[i] = answers[i]) \/ answers'[i] = a
        BY <3>1, <3>3, <4>1, <4>2, OneMore
      <4>4. \A i \in DOMAIN answers' : answers'[i].to <= queries
        BY <3>1, <4>1, <4>3
      <4>5. Answered(x.query)' => Answered(x.query) \/ x.query = 0
        BY <4>1, <4>3, <2>2 DEF Answered
      <4> QED
        BY <2>2, <3>1, <4>3, <4>4, <4>5
    <3> QED
      BY <2>1, <3>2, <3>3
  <2>6. TypeOK' /\ FileReleased'
    BY <1>1, <1>2, <2>2, <2>3, <2>5 DEF IInv, TypeOK, FileReleased, AnswerType, store, outside
  <2>7. QueriesAgree'
    BY <1>1, <1>2, <2>2, <2>3, <2>5 DEF IInv, QueriesAgree, outside
  <2>8. FlagsAgree' /\ FileAgrees' /\ ReceivedInOrder'
    BY <1>1, <1>2, <2>2, <2>3 DEF IInv, FlagsAgree, FileAgrees, ReceivedInOrder, store, outside, Whole, Byte
  <2> QED
    BY <2>4, <2>6, <2>7, <2>8 DEF IInv
<1>3. CASE DeleteXfer("PROXY_GARBAGE")
  BY <1>1, <1>3, ErrorKeeps DEF Errors
<1> QED
  BY <1>2, <1>3 DEF ProxyReply
(* The two timeouts, the errors, and a peer that has closed.               *)
LEMMA TimeoutKeeps == ASSUME IInv, Timeout \/ XferError PROVE IInv'
<1>1. UNCHANGED outside /\ x.alive
  BY DEF Timeout, XferConnectTimeout, XferTimeout, XferError, Open
<1>2. \E e \in Errors : DeleteXfer(e)
  BY DEF Timeout, XferConnectTimeout, XferTimeout, XferError, Errors
<1> QED
  BY <1>1, <1>2, ErrorKeeps

LEMMA CloseKeeps == ASSUME IInv, XferClose PROVE IInv'
<1>1. x.alive /\ ~x.monitored /\ x.connected /\ UNCHANGED outside
  BY DEF XferClose, Open
<1>2. CASE ~x.upload
  BY <1>1, <1>2, CompleteKeeps DEF XferClose
<1>3. CASE x.upload
  <2>1. x \in Struct /\ wire = <<>> /\ MonitorAdio
    BY <1>1, <1>3, XferTyped DEF IInv, XferClose
  <2>2. /\ x' \in Struct /\ x'.monitored
        /\ x'.passive = x.passive /\ x'.connected = x.connected /\ x'.ready = x.ready
        /\ x'.query = x.query /\ x'.hasOp = x.hasOp /\ x'.proxied = x.proxied
        /\ x'.upload = x.upload /\ x'.hasFile = x.hasFile /\ x'.completed = x.completed
        /\ x'.len = x.len /\ x'.ptr = x.ptr /\ x'.done = x.done
        /\ x'.xfered = x.xfered /\ x'.restart = x.restart /\ x'.crc = x.crc /\ x'.buf = x.buf
    BY <2>1 DEF Struct, MonitorAdio
  <2>3. /\ x'.alive /\ From' = From /\ UNCHANGED <<store, op, answers, short, wire>>
    BY <2>1, <2>2, StructFields DEF MonitorAdio, From
  <2>4. UploadAgrees'
    BY <1>1, <1>3, <2>2, <2>3 DEF IInv, UploadAgrees, store, outside
  <2>5. x'.upload /\ x'.hasFile
    BY <1>1, <1>3, <2>2 DEF IInv, FlagsAgree
  <2>6. DownloadAgrees' /\ SentInOrder'
    BY <1>1, <1>3, <2>5 DEF IInv, FlagsAgree, DownloadAgrees, SentInOrder, outside
  <2>7. TypeOK' /\ FileReleased'
    BY <1>1, <2>2, <2>3 DEF IInv, TypeOK, FileReleased, store, outside
  <2>8. QueriesAgree'
    BY <1>1, <2>2, <2>3, AnswersKept DEF IInv, QueriesAgree, outside
  <2>9. FlagsAgree' /\ FileAgrees' /\ ReceivedInOrder'
    BY <1>1, <1>3, <2>1, <2>2, <2>3 DEF IInv, FlagsAgree, FileAgrees, ReceivedInOrder, store, outside, Whole, Byte
  <2> QED
    BY <2>4, <2>6, <2>7, <2>8, <2>9 DEF IInv
<1> QED
  BY <1>2, <1>3

(* The file is deleted, or the master is lost.                             *)
LEMMA DeleteQueryKeeps == ASSUME IInv, ProcessDelete PROVE IInv'
<1>1. Unmap /\ UNCHANGED <<leaked, outside, short>> /\ master /\ mapped
  BY DEF ProcessDelete
<1>2. CASE x.alive /\ x.hasFile
  <2>1. answers' = Answer(x.query, "FAILURE") /\ XferDestroy
    BY <1>2 DEF ProcessDelete
  <2>2. x' = Gone /\ op' = Idle /\ wire' = <<>>
    BY <2>1 DEF XferDestroy
  <2>3. handles' \in Nat /\ FileReleased'
    BY <1>1, <1>2, <2>1, DestroyReleases
  <2>4. QueriesAgree' /\ answers' \in Seq(AnswerType)
    <3> DEFINE a == [to |-> x.query, type |-> "FAILURE", size |-> 0, crc |-> <<>>]
    <3>1. x.query \in 0 .. MaxQueries /\ x.query # 0
      BY <1>2, XferTyped, StructFields DEF IInv, FlagsAgree
    <3>2. a \in AnswerType /\ a.to = x.query
      BY <3>1, Sizes DEF AnswerType, Errors
    <3>3. answers' = IF x.query = 0 THEN answers ELSE Append(answers, a)
      BY <2>1, <3>1 DEF Answer
    <3> HIDE DEF a
    <3> QED
      BY <1>1, <1>2, <2>2, <3>2, <3>3, LastAnswer DEF outside
  <2>5. FileAgrees' /\ mapped' \in BOOLEAN /\ file' \in Seq(0 .. N) /\ size' \in 0 .. N
    BY <1>1, <2>2, FileAfter DEF outside
  <2>6. TypeOK'
    <3>1. master' \in BOOLEAN /\ peer' \in {"absent", "open", "closed", "reset"}
      BY <1>1 DEF IInv, TypeOK, outside
    <3> QED
      BY <1>1, <2>2, <2>3, <2>4, <2>5, <3>1, GoneTyped DEF outside
  <2> QED
    BY <2>2, <2>3, <2>4, <2>5, <2>6, GoneAgrees DEF IInv
<1>3. CASE ~(x.alive /\ x.hasFile)
  <2>1. UNCHANGED <<x, op, wire, handles, answers>>
    BY <1>3 DEF ProcessDelete
  <2>2. x.alive => ~x.upload
    BY <1>3, XferTyped, StructFields DEF IInv, FlagsAgree
  <2>3. mapped' = FALSE /\ file' = <<>> /\ size' = 0 /\ <<>> \in Seq(0 .. N) /\ 0 \in 0 .. N
    BY <1>1, Sizes DEF Unmap
  <2>4. TypeOK' /\ FileReleased'
    BY <1>1, <2>1, <2>3 DEF IInv, TypeOK, FileReleased, outside
  <2>5. QueriesAgree'
    BY <1>1, <2>1, AnswersKept DEF IInv, QueriesAgree, outside
  <2>6. FlagsAgree' /\ FileAgrees'
    BY <1>1, <1>3, <2>1, <2>3 DEF IInv, FlagsAgree, FileAgrees, outside
  <2>7. UploadAgrees' /\ DownloadAgrees'
    BY <1>3, <2>1, <2>2 DEF UploadAgrees, DownloadAgrees
  <2>8. ReceivedInOrder' /\ SentInOrder'
    BY <1>1, <2>1 DEF IInv, ReceivedInOrder, SentInOrder, outside
  <2> QED
    BY <2>4, <2>5, <2>6, <2>7, <2>8 DEF IInv
<1> QED
  BY <1>2, <1>3

LEMMA MasterLostKeeps == ASSUME IInv, MasterLost PROVE IInv'
<1>1. x.alive /\ XferDestroy /\ UNCHANGED <<options, leaked, queries, sent, got, peer, answers, short>>
      /\ master' = FALSE
  BY DEF MasterLost
<1>2. x' = Gone /\ op' = Idle /\ wire' = <<>>
  BY <1>1 DEF XferDestroy
<1>3. handles' \in Nat /\ FileReleased'
  BY <1>1, DestroyReleases
<1>4. QueriesAgree' /\ answers' \in Seq(AnswerType)
  BY <1>1, <1>2, GoneIsDead, AnswersKept DEF IInv, TypeOK, AnswerType, QueriesAgree
<1>5. UNCHANGED <<mapped, file, size>> \/ Unmap
  BY DEF MasterLost
<1>6. FileAgrees' /\ mapped' \in BOOLEAN /\ file' \in Seq(0 .. N) /\ size' \in 0 .. N
  BY <1>1, <1>2, <1>5, FileAfter
<1>7. TypeOK'
  <2>1. master' \in BOOLEAN /\ peer' \in {"absent", "open", "closed", "reset"}
    BY <1>1 DEF IInv, TypeOK
  <2> QED
    BY <1>1, <1>2, <1>3, <1>4, <1>6, <2>1, GoneTyped
<1> QED
  BY <1>2, <1>3, <1>4, <1>6, <1>7, GoneAgrees DEF IInv

--------------------------------------------------------------------------------
(* The peer.                                                               *)
LEMMA PeerClosesKeeps == ASSUME IInv, PeerCloses \/ PeerResets PROVE IInv'
<1>1. /\ UNCHANGED <<x, options, store, op, wire, sent, got, master, queries, answers, short>>
      /\ peer' \in {"closed", "reset"}
  BY DEF PeerCloses, PeerResets
<1>2. TypeOK' /\ FileReleased'
  BY <1>1 DEF IInv, TypeOK, FileReleased, store
<1>3. QueriesAgree'
  BY <1>1, AnswersKept DEF IInv, QueriesAgree
<1>4. FlagsAgree' /\ FileAgrees'
  BY <1>1 DEF IInv, FlagsAgree, FileAgrees, store
<1>5. From' = From /\ At' = At
  BY <1>1 DEF From, At
<1>6. UploadAgrees' /\ ReceivedInOrder' /\ DownloadAgrees' /\ SentInOrder'
  BY <1>1, <1>5 DEF IInv, UploadAgrees, ReceivedInOrder, DownloadAgrees, SentInOrder, store
<1> QED
  BY <1>2, <1>3, <1>4, <1>6 DEF IInv
LEMMA PeerSendsKeeps == ASSUME IInv, PeerSends PROVE IInv'
<1>1. /\ x.alive /\ ~x.monitored /\ peer = "open" /\ options.upload /\ sent < N /\ Len(wire) < Window
      /\ x.query # 0 => x.upload
      /\ sent' = sent + 1 /\ wire' = Append(wire, sent + 1)
      /\ UNCHANGED <<x, options, store, op, got, peer, master, queries, answers, short>>
  BY DEF PeerSends, Open
<1>2. /\ sent \in 0 .. N /\ wire \in Seq(Byte) /\ sent + 1 \in Byte /\ sent + 1 \in 0 .. N
      /\ N \in Nat /\ Window \in Nat
  BY <1>1, Sizes DEF IInv, TypeOK, Byte
<1>3. /\ wire' \in Seq(Byte) /\ Len(wire') = Len(wire) + 1 /\ Len(wire) \in Nat
      /\ \A i \in 1 .. Len(wire) : wire'[i] = wire[i]
      /\ wire'[Len(wire) + 1] = sent + 1
  BY <1>1, <1>2, AppendProperties, LenProperties
<1>4. Len(wire') <= Window
  BY <1>1, <1>2, <1>3
<1>5. TypeOK' /\ FileReleased'
  BY <1>1, <1>2, <1>3, <1>4 DEF IInv, TypeOK, FileReleased, store
<1>6. QueriesAgree'
  BY <1>1, AnswersKept DEF IInv, QueriesAgree
<1>7. x \in Struct
  BY <1>1, XferTyped DEF IInv
<1>8. FlagsAgree'
  BY <1>1, <1>7, StructFields DEF IInv, FlagsAgree, store
<1>9. FileAgrees'
  <2>1. Len(wire) <= sent
    BY <1>1 DEF IInv, FileAgrees
  <2>2. Len(wire') <= sent'
    BY <1>1, <1>2, <1>3, <2>1
  <2> QED
    BY <1>1, <2>2 DEF IInv, FileAgrees, store, Whole, Byte
<1>10. UploadAgrees'
  <2>1. SUFFICES ASSUME x.upload PROVE UploadAgrees'
    BY <1>1 DEF UploadAgrees
  <2>2. size + Len(wire) <= sent /\ size \in 0 .. N
    BY <1>1, <2>1 DEF IInv, UploadAgrees, TypeOK
  <2>3. size' + Len(wire') <= sent' /\ size' = size
    BY <1>1, <1>2, <1>3, <2>2 DEF store
  <2>4. From' = From
    BY <1>1 DEF From
  <2> QED
    BY <1>1, <2>3, <2>4 DEF IInv, UploadAgrees, store
<1>11. DownloadAgrees' /\ SentInOrder'
  <2>1. x.hasFile => x.upload
    BY <1>1, <1>7, StructFields DEF IInv, FlagsAgree
  <2> QED
    BY <1>1, <2>1 DEF DownloadAgrees, SentInOrder
<1>12. ReceivedInOrder'
  <2>1. SUFFICES ASSUME x.connected, leaked = 0 PROVE ReceivedInOrder'
    BY <1>1 DEF ReceivedInOrder, store
  <2> DEFINE k == Len(x.crc)
  <2>2. k \in Nat
    BY <1>7, StructFields, LenProperties
  <2>3. /\ sent = k + Len(wire)
        /\ \A i \in 1 .. k : x.crc[i] = i
        /\ \A i \in 1 .. Len(wire) : wire[i] = k + i
    BY <1>1, <2>1 DEF IInv, ReceivedInOrder
  <2>4. x' = x /\ Len(x'.crc) = k
    BY <1>1
  <2> HIDE DEF k
  <2>5. sent' = k + Len(wire')
    BY <1>1, <1>3, <2>2, <2>3
  <2>6. \A i \in 1 .. Len(wire') : wire'[i] = k + i
    <3> TAKE i \in 1 .. Len(wire')
    <3>1. i \in 1 .. Len(wire) \/ i = Len(wire) + 1
      BY <1>3
    <3> QED
      BY <1>3, <2>2, <2>3, <3>1
  <2> QED
    BY <2>3, <2>4, <2>5, <2>6 DEF ReceivedInOrder
<1> QED
  BY <1>5, <1>6, <1>8, <1>9, <1>10, <1>11, <1>12 DEF IInv

LEMMA PeerReceivesKeeps == ASSUME IInv, PeerReceives PROVE IInv'
<1>1. /\ x.alive /\ peer = "open" /\ wire # <<>> /\ x.query # 0 /\ ~x.upload
      /\ got' = Append(got, Head(wire)) /\ wire' = Tail(wire)
      /\ UNCHANGED <<x, options, store, op, sent, peer, master, queries, answers, short>>
  BY DEF PeerReceives, Open
<1>2. /\ x \in Struct /\ x.hasFile /\ ~options.upload /\ ~x.monitored /\ wire \in Seq(Byte)
      /\ got \in Seq(Byte) /\ Len(wire) <= Window /\ queries # 0
  <2>1. x \in Struct
    BY <1>1, XferTyped DEF IInv
  <2>2. options.upload \in BOOLEAN /\ queries \in Nat
    BY DEF IInv, TypeOK
  <2> QED
    BY <1>1, <2>1, <2>2, StructFields DEF IInv, FlagsAgree, TypeOK, QueriesAgree
<1>3. /\ Head(wire) = wire[1] /\ wire[1] \in Byte /\ wire' \in Seq(Byte) /\ Len(wire) \in Nat /\ Len(wire) > 0
      /\ Len(wire') = Len(wire) - 1 /\ \A i \in 1 .. Len(wire') : wire'[i] = wire[i + 1]
  BY <1>1, <1>2, HeadTailProperties, LenProperties, EmptySeq
<1>4. /\ got' \in Seq(Byte) /\ Len(got') = Len(got) + 1 /\ Len(got) \in Nat
      /\ \A i \in 1 .. Len(got) : got'[i] = got[i]
      /\ got'[Len(got) + 1] = wire[1]
  BY <1>1, <1>2, <1>3, AppendProperties, LenProperties
<1>5. Len(wire') <= Window
  BY <1>2, <1>3, Sizes
<1>6. TypeOK' /\ FileReleased'
  BY <1>1, <1>3, <1>4, <1>5 DEF IInv, TypeOK, FileReleased, store
<1>7. QueriesAgree'
  BY <1>1, AnswersKept DEF IInv, QueriesAgree
<1>8. FlagsAgree' /\ FileAgrees'
  BY <1>1, <1>2 DEF IInv, FlagsAgree, FileAgrees, store, Whole, Byte
<1>9. UploadAgrees' /\ ReceivedInOrder'
  BY <1>1, <1>2 DEF UploadAgrees, ReceivedInOrder
<1>10. DownloadAgrees'
  <2>1. At' = At
    BY <1>1 DEF At
  <2> QED
    BY <1>1, <2>1 DEF IInv, DownloadAgrees, store
<1>11. SentInOrder'
  <2>1. SUFFICES ASSUME leaked = 0 PROVE SentInOrder'
    BY <1>1 DEF SentInOrder, store
  <2>2. /\ Len(x.crc) = Len(got) + Len(wire)
        /\ \A i \in 1 .. Len(got) : got[i] = x.crc[i]
        /\ \A i \in 1 .. Len(wire) : wire[i] = x.crc[Len(got) + i]
    BY <1>1, <1>2, <2>1 DEF IInv, SentInOrder
  <2>3. Len(x.crc) = Len(got') + Len(wire')
    BY <1>3, <1>4, <2>2
  <2>4. wire[1] = x.crc[Len(got) + 1]
    BY <1>3, <2>2
  <2>5. \A i \in 1 .. Len(got') : got'[i] = x.crc[i]
    <3> TAKE i \in 1 .. Len(got')
    <3>1. i \in 1 .. Len(got) \/ i = Len(got) + 1
      BY <1>4
    <3> QED
      BY <1>4, <2>2, <2>4, <3>1
  <2>6. \A i \in 1 .. Len(wire') : wire'[i] = x.crc[Len(got') + i]
    <3> TAKE i \in 1 .. Len(wire')
    <3>1. i + 1 \in 1 .. Len(wire) /\ Len(got) + (i + 1) = Len(got') + i
      BY <1>3, <1>4
    <3>2. wire[i + 1] = x.crc[Len(got) + (i + 1)]
      BY <2>2, <3>1
    <3> QED
      BY <1>3, <3>1, <3>2
  <2> QED
    BY <1>1, <2>3, <2>5, <2>6 DEF SentInOrder
<1> QED
  BY <1>6, <1>7, <1>8, <1>9, <1>10, <1>11 DEF IInv
--------------------------------------------------------------------------------
(* The disk.                                                               *)
LEMMA DiskFailsKeeps == ASSUME IInv, DiskFails PROVE IInv'
<1>1. x.alive /\ op = "running" /\ op' = "failed" /\ UNCHANGED <<x, store, wire, outside, answers, short>>
  BY DEF DiskFails
<1>2. op # Idle /\ op' # Idle /\ op' # "done" /\ op' \in OpStates /\ At' = At
  BY <1>1 DEF Idle, At, OpStates
<1>3. TypeOK' /\ FileReleased'
  BY <1>1, <1>2 DEF IInv, TypeOK, FileReleased, store, outside
<1>4. QueriesAgree'
  BY <1>1, AnswersKept DEF IInv, QueriesAgree, outside
<1>5. x \in Struct
  BY <1>1, XferTyped DEF IInv
<1>6. FlagsAgree' /\ FileAgrees'
  BY <1>1, <1>2, <1>5, StructFields DEF IInv, FlagsAgree, FileAgrees, store, outside, Whole, Byte
<1>7. UploadAgrees' /\ ReceivedInOrder' /\ SentInOrder'
  BY <1>1, <1>2 DEF IInv, UploadAgrees, ReceivedInOrder, SentInOrder, store, outside
<1>8. DownloadAgrees'
  BY <1>1, <1>2 DEF IInv, DownloadAgrees, store, outside
<1> QED
  BY <1>3, <1>4, <1>6, <1>7, <1>8 DEF IInv

(* What was written moves from the buffer to the file.                     *)
LEMMA DiskWritesKeeps == ASSUME IInv, DiskWrites PROVE IInv'
<1>1. /\ x.alive /\ op = "running" /\ x.upload /\ op' = "done"
      /\ file' = file \o SubSeq(x.buf, 1, x.len)
      /\ UNCHANGED <<x, mapped, size, handles, leaked, wire, outside, answers, short>>
  BY DEF DiskWrites
<1>2. op # Idle /\ op' # Idle /\ op' # "failed" /\ op # "failed" /\ op' \in OpStates /\ From = 0 /\ From' = x.len
  BY <1>1 DEF Idle, From, OpStates
<1>3. /\ x \in Struct /\ x.len \in 0 .. Buffer /\ x.ptr \in 0 .. Buffer /\ x.buf \in [1 .. Buffer -> 0 .. N]
      /\ Buffer \in Nat /\ x.restart \in Nat /\ x.hasFile
  <2>1. x \in Struct
    BY <1>1, XferTyped DEF IInv
  <2> QED
    BY <1>1, <2>1, StructFields, Sizes, SMTT(30) DEF IInv, FlagsAgree
<1>4. file \in Seq(0 .. N) /\ Len(file) \in Nat
  BY LenProperties DEF IInv, TypeOK
<1>5. /\ x.len <= x.ptr
      /\ x.xfered = size /\ size = Len(x.crc) /\ size + Len(wire) <= sent
      /\ x.restart = Len(file) + x.len
      /\ Len(x.crc) = Len(file) + x.ptr
      /\ \A i \in 1 .. Len(file) : file[i] = x.crc[i]
      /\ \A i \in 1 .. x.ptr : x.buf[i] = x.crc[Len(file) + i]
  <2>1. /\ x.len <= x.ptr
        /\ x.xfered = size /\ size = Len(x.crc) /\ size + Len(wire) <= sent
        /\ x.restart = Len(file) + (x.len - From)
        /\ Len(x.crc) = Len(file) + (x.ptr - From)
        /\ \A i \in 1 .. Len(file) : file[i] = x.crc[i]
        /\ \A i \in 1 .. x.ptr - From : x.buf[From + i] = x.crc[Len(file) + i]
    BY <1>1, <1>2 DEF IInv, UploadAgrees
  <2>2. x.len - 0 = x.len /\ x.ptr - 0 = x.ptr /\ \A i \in 1 .. x.ptr : 0 + i = i
    BY <1>3
  <2> QED
    BY <1>2, <2>1, <2>2
<1> DEFINE w == SubSeq(x.buf, 1, x.len)
<1>6. w \in Seq(0 .. N) /\ Len(w) = x.len /\ \A i \in 1 .. x.len : w[i] = x.buf[i]
  <2>1. \A i \in 1 .. x.len : x.buf[i] \in 0 .. N
    BY <1>3
  <2> QED
    BY <1>3, <2>1, SubSeqProperties
<1>7. file' = file \o w
  BY <1>1
<1> HIDE DEF w
<1>8. /\ file' \in Seq(0 .. N) /\ Len(file') = Len(file) + x.len
      /\ \A i \in 1 .. Len(file) + x.len : file'[i] = IF i <= Len(file) THEN file[i] ELSE w[i - Len(file)]
  BY <1>4, <1>6, <1>7, ConcatProperties
<1>9. \A i \in 1 .. Len(file') : file'[i] = x.crc[i]
  <2> TAKE i \in 1 .. Len(file')
  <2>1. CASE i <= Len(file)
    BY <1>4, <1>5, <1>8, <2>1
  <2>2. CASE i > Len(file)
    <3>1. i - Len(file) \in 1 .. x.len /\ Len(file) + (i - Len(file)) = i /\ i - Len(file) \in 1 .. x.ptr
      BY <1>3, <1>4, <1>5, <1>8, <2>2
    <3>2. file'[i] = w[i - Len(file)]
      BY <1>4, <1>8, <2>2
    <3> QED
      BY <1>5, <1>6, <3>1, <3>2
  <2> QED
    BY <1>4, <2>1, <2>2
<1>10. \A i \in 1 .. x.ptr - x.len : x.buf[x.len + i] = x.crc[Len(file') + i]
  <2> TAKE i \in 1 .. x.ptr - x.len
  <2>1. x.len + i \in 1 .. x.ptr /\ Len(file) + (x.len + i) = Len(file') + i
    BY <1>3, <1>4, <1>5, <1>8, SMTT(30)
  <2> QED
    BY <1>5, <2>1
<1>11. x.restart = Len(file') + (x.len - x.len) /\ Len(x.crc) = Len(file') + (x.ptr - x.len)
  BY <1>3, <1>4, <1>5, <1>8
<1>12. UploadAgrees'
  BY <1>1, <1>2, <1>5, <1>9, <1>10, <1>11 DEF UploadAgrees, outside
<1>13. TypeOK' /\ FileReleased'
  BY <1>1, <1>2, <1>8 DEF IInv, TypeOK, FileReleased, outside
<1>14. QueriesAgree'
  BY <1>1, AnswersKept DEF IInv, QueriesAgree, outside
<1>15. FlagsAgree' /\ FileAgrees'
  BY <1>1, <1>2, <1>3, StructFields DEF IInv, FlagsAgree, FileAgrees, outside
<1>16. ReceivedInOrder' /\ DownloadAgrees' /\ SentInOrder'
  BY <1>1, <1>3 DEF IInv, FlagsAgree, ReceivedInOrder, DownloadAgrees, SentInOrder, outside
<1> QED
  BY <1>12, <1>13, <1>14, <1>15, <1>16 DEF IInv

(* The buffer gets the bytes of the file from where the read began.        *)
LEMMA DiskReadsKeeps == ASSUME IInv, DiskReads PROVE IInv'
<1> DEFINE at(i) == (x.restart - x.len) + i
           b == [i \in 1 .. Buffer |-> IF i <= x.len /\ at(i) <= Len(file) THEN file[at(i)] ELSE x.buf[i]]
<1>1. /\ x.alive /\ op = "running" /\ ~x.upload /\ op' = "done"
      /\ UNCHANGED <<store, wire, outside, answers, short>>
      /\ x' = [x EXCEPT !.buf = b]
  BY DEF DiskReads
<1>2. op # Idle /\ op' # Idle /\ op' \in OpStates
  BY <1>1 DEF Idle, OpStates
<1>3. /\ x \in Struct /\ x.len \in 0 .. Buffer /\ x.buf \in [1 .. Buffer -> 0 .. N]
      /\ Buffer \in Nat /\ x.restart \in Nat /\ x.hasFile /\ ~options.upload /\ ~x.monitored
      /\ mapped /\ file = Whole /\ size = N /\ N \in Nat
  <2>1. x \in Struct
    BY <1>1, XferTyped DEF IInv
  <2>2. options.upload \in BOOLEAN
    BY DEF IInv, TypeOK
  <2> QED
    BY <1>1, <1>2, <2>1, <2>2, StructFields, Sizes DEF IInv, FlagsAgree, FileAgrees
<1>4. Len(file) = N /\ \A i \in 1 .. N : file[i] = i
  BY <1>3 DEF Whole, Byte
<1>5. x.len <= x.restart
  BY <1>1, <1>3 DEF IInv, DownloadAgrees
<1>6. b \in [1 .. Buffer -> 0 .. N]
  <2>1. \A i \in 1 .. Buffer : i <= x.len /\ at(i) <= Len(file) => file[at(i)] \in 0 .. N
    <3> TAKE i \in 1 .. Buffer
    <3>1. HAVE i <= x.len /\ at(i) <= Len(file)
    <3>2. at(i) \in 1 .. N
      BY <1>3, <1>4, <1>5, <3>1
    <3> QED
      BY <1>3, <1>4, <3>2
  <2> QED
    BY <1>3, <2>1
<1>7. x.restart <= N => \A i \in 1 .. x.len : b[i] = (x.restart - x.len) + i
  <2> SUFFICES ASSUME x.restart <= N, NEW i \in 1 .. x.len PROVE b[i] = (x.restart - x.len) + i
    OBVIOUS
  <2>1. i \in 1 .. Buffer /\ i <= x.len /\ at(i) <= Len(file) /\ at(i) \in 1 .. N
    BY <1>3, <1>4, <1>5
  <2> QED
    BY <1>4, <2>1
<1> HIDE DEF b
<1>8. /\ x' \in Struct /\ x'.buf = b
      /\ x'.passive = x.passive /\ x'.connected = x.connected /\ x'.ready = x.ready
      /\ x'.query = x.query /\ x'.hasOp = x.hasOp /\ x'.proxied = x.proxied
      /\ x'.upload = x.upload /\ x'.hasFile = x.hasFile /\ x'.completed = x.completed
      /\ x'.len = x.len /\ x'.ptr = x.ptr /\ x'.done = x.done /\ x'.monitored = x.monitored
      /\ x'.xfered = x.xfered /\ x'.restart = x.restart /\ x'.crc = x.crc
  BY <1>1, <1>3, <1>6 DEF Struct
<1>9. x'.alive /\ At' = At
  BY <1>8, StructFields DEF At
<1>10. TypeOK' /\ FileReleased'
  BY <1>1, <1>2, <1>8, <1>9 DEF IInv, TypeOK, FileReleased, store, outside
<1>11. QueriesAgree'
  BY <1>1, <1>8, <1>9, AnswersKept DEF IInv, QueriesAgree, outside
<1>12. FlagsAgree' /\ FileAgrees'
  BY <1>1, <1>2, <1>3, <1>8, <1>9, StructFields DEF IInv, FlagsAgree, FileAgrees, store, outside, Whole, Byte
<1>13. UploadAgrees' /\ ReceivedInOrder' /\ SentInOrder'
  BY <1>1, <1>3, <1>8 DEF IInv, UploadAgrees, ReceivedInOrder, SentInOrder, store, outside
<1>14. DownloadAgrees'
  BY <1>1, <1>2, <1>3, <1>7, <1>8, <1>9 DEF IInv, DownloadAgrees, store, outside
<1> QED
  BY <1>10, <1>11, <1>12, <1>13, <1>14 DEF IInv
--------------------------------------------------------------------------------
(* xfer_write: what the disk has read goes to the socket.                  *)

(* What holds when a download has something to do.                         *)
LEMMA DownloadFacts ==
    ASSUME IInv, x.alive, x.ready, ~x.upload
    PROVE  /\ x \in Struct /\ x.hasFile /\ ~options.upload /\ mapped /\ file = Whole /\ size = N
           /\ ~x.monitored /\ x.xfered = Len(x.crc) /\ queries # 0
           /\ ~x.completed /\ x.restart <= N =>
                 /\ x.ptr = 0 /\ x.done = 0 /\ op # Idle
                 /\ x.xfered + x.len <= x.restart
                 /\ op = "done" => \A i \in 1 .. x.len : x.buf[i] = x.restart - x.len + i
                 /\ ~short => \A i \in 1 .. Len(x.crc) : x.crc[i] = (x.restart - x.len) - Len(x.crc) + i
<1>1. x \in Struct /\ options.upload \in BOOLEAN /\ queries \in Nat
  BY XferTyped DEF IInv, TypeOK
<1>2. x.hasFile /\ ~options.upload /\ mapped /\ file = Whole /\ size = N /\ ~x.monitored
  BY <1>1, StructFields DEF IInv, FlagsAgree, FileAgrees
<1>3. queries # 0
  BY <1>1, <1>2, StructFields DEF IInv, FlagsAgree, QueriesAgree
<1> QED
  BY <1>1, <1>2, <1>3 DEF IInv, DownloadAgrees, At

(* What a concatenation holds, when nothing else has to be known of it.    *)
Joined(s, t, r) ==
    /\ Len(r) = Len(s) + Len(t)
    /\ \A i \in 1 .. Len(s) : r[i] = s[i]
    /\ \A i \in 1 .. Len(t) : r[Len(s) + i] = t[i]

LEMMA ConcatJoins ==
    ASSUME NEW S, NEW s \in Seq(S), NEW t \in Seq(S)
    PROVE  s \o t \in Seq(S) /\ Joined(s, t, s \o t)
<1> DEFINE r == s \o t
<1>1. /\ r \in Seq(S) /\ Len(r) = Len(s) + Len(t) /\ Len(s) \in Nat /\ Len(t) \in Nat
      /\ \A i \in 1 .. Len(s) + Len(t) : r[i] = IF i <= Len(s) THEN s[i] ELSE t[i - Len(s)]
  BY ConcatProperties, LenProperties
<1> HIDE DEF r
<1>2. \A i \in 1 .. Len(s) : r[i] = s[i]
  <2> TAKE i \in 1 .. Len(s)
  <2>1. i \in 1 .. Len(s) + Len(t) /\ i <= Len(s)
    BY <1>1
  <2> QED
    BY <1>1, <2>1
<1>3. \A i \in 1 .. Len(t) : r[Len(s) + i] = t[i]
  <2> TAKE i \in 1 .. Len(t)
  <2>1. Len(s) + i \in 1 .. Len(s) + Len(t) /\ ~(Len(s) + i <= Len(s)) /\ (Len(s) + i) - Len(s) = i
    BY <1>1
  <2> QED
    BY <1>1, <2>1
<1>4. Joined(s, t, r)
  BY <1>1, <1>2, <1>3 DEF Joined
<1> QED
  BY <1>1, <1>4 DEF r

(* One more piece of the file is sent.                                     *)
LEMMA SendMore ==
    ASSUME IInv, x.alive, ~options.upload, NEW bytes \in Seq(Byte), got' = got, leaked' = leaked,
           Joined(x.crc, bytes, x'.crc), Joined(wire, bytes, wire')
    PROVE  SentInOrder'
<1>1. SUFFICES ASSUME leaked = 0 PROVE SentInOrder'
  BY DEF SentInOrder
<1> DEFINE c == Len(x.crc)  g == Len(got)  w == Len(wire)  n == Len(bytes)
<1>2. c \in Nat /\ g \in Nat /\ w \in Nat /\ n \in Nat
  BY XferTyped, StructFields, LenProperties DEF IInv, TypeOK
<1>3. /\ c = g + w
      /\ \A i \in 1 .. g : got[i] = x.crc[i]
      /\ \A i \in 1 .. w : wire[i] = x.crc[g + i]
      /\ Len(got') = g
  BY <1>1 DEF IInv, SentInOrder
<1>4. /\ Len(x'.crc) = c + n
      /\ \A i \in 1 .. c : x'.crc[i] = x.crc[i]
      /\ \A i \in 1 .. n : x'.crc[c + i] = bytes[i]
  BY DEF Joined
<1>5. /\ Len(wire') = w + n
      /\ \A i \in 1 .. w : wire'[i] = wire[i]
      /\ \A i \in 1 .. n : wire'[w + i] = bytes[i]
  BY DEF Joined
<1> HIDE DEF c, g, w, n
<1>6. Len(x'.crc) = g + (w + n)
  BY <1>2, <1>3, <1>4
<1>7. \A i \in 1 .. g : got[i] = x'.crc[i]
  <2> TAKE i \in 1 .. g
  <2>1. i \in 1 .. c
    BY <1>2, <1>3
  <2> QED
    BY <1>3, <1>4, <2>1
<1>8. \A i \in 1 .. w + n : wire'[i] = x'.crc[g + i]
  <2> TAKE i \in 1 .. w + n
  <2>1. CASE i \in 1 .. w
    <3>1. g + i \in 1 .. c
      BY <1>2, <1>3, <2>1
    <3> QED
      BY <1>3, <1>4, <1>5, <2>1, <3>1
  <2>2. CASE i \notin 1 .. w
    <3>1. i - w \in 1 .. n /\ w + (i - w) = i /\ c + (i - w) = g + i
      BY <1>2, <1>3, <2>2
    <3>2. wire'[w + (i - w)] = bytes[i - w] /\ x'.crc[c + (i - w)] = bytes[i - w]
      BY <1>4, <1>5, <3>1
    <3> QED
      BY <3>1, <3>2
  <2> QED
    BY <2>1, <2>2
<1> QED
  BY <1>3, <1>5, <1>6, <1>7, <1>8 DEF SentInOrder

(* What was sent stays the file, in order, whatever is done next.          *)
LEMMA SentOfFile ==
    ASSUME IInv, x.alive, x.ready, ~x.upload, ~x.completed, x.restart <= N,
           NEW n \in 0 .. x.len, x' \in Struct, x'.xfered = x.xfered + n,
           Len(x'.crc) = Len(x.crc) + n,
           \A i \in 1 .. Len(x.crc) : x'.crc[i] = x.crc[i],
           \A i \in 1 .. n : x'.crc[Len(x.crc) + i] = x.restart - x.len + i,
           x'.restart <= N, x'.len <= x'.restart, op' # "done",
           ~x'.completed => /\ x'.ptr = 0 /\ x'.done = 0 /\ op' # Idle
                            /\ x'.xfered + x'.len <= x'.restart,
           ~short' => ~short /\ At' = x.restart - x.len + n
    PROVE  DownloadAgrees'
<1>1. /\ x \in Struct /\ x.xfered = Len(x.crc)
      /\ ~short => \A i \in 1 .. Len(x.crc) : x.crc[i] = (x.restart - x.len) - Len(x.crc) + i
  BY DownloadFacts
<1>2. /\ x.restart \in Nat /\ x.len \in Nat /\ Len(x.crc) \in Nat /\ n \in Nat /\ N \in Nat /\ x'.restart \in Nat
  BY <1>1, StructFields, LenProperties, Sizes
<1> DEFINE c == Len(x.crc)  d == Len(x'.crc)  r == x.restart - x.len
<1>3. c \in Nat /\ d = c + n /\ r \in Int
  BY <1>2
<1>4. x'.xfered = Len(x'.crc)
  BY <1>1
<1>5. ASSUME ~short', NEW i \in 1 .. d PROVE x'.crc[i] = At' - d + i
  <2>1. At' = r + n
    BY <1>5
  <2>2. \A j \in 1 .. c : x.crc[j] = r - c + j
    BY <1>1, <1>5
  <2>3. /\ \A j \in 1 .. c : x'.crc[j] = x.crc[j]
        /\ \A j \in 1 .. n : x'.crc[c + j] = r + j
    OBVIOUS
  <2> HIDE DEF c, d, r
  <2>4. CASE i <= c
    BY <1>2, <1>3, <2>1, <2>2, <2>3, <2>4
  <2>5. CASE i > c
    <3>1. i - c \in 1 .. n /\ c + (i - c) = i
      BY <1>2, <1>3, <2>5
    <3>2. x'.crc[c + (i - c)] = r + (i - c)
      BY <2>3, <3>1
    <3> QED
      BY <1>2, <1>3, <2>1, <3>1, <3>2
  <2> QED
    BY <1>3, <2>4, <2>5
<1> QED
  BY <1>2, <1>4, <1>5 DEF DownloadAgrees

(* The part of the invariant that sending does not touch.                  *)
LEMMA SendKeeps ==
    ASSUME IInv, x.alive, x.ready, ~x.upload, UNCHANGED <<store, answers, outside>>,
           x' \in Struct, x'.passive = x.passive, x'.proxied = x.proxied, x'.ready = x.ready,
           x'.upload = x.upload, x'.monitored = x.monitored, x'.query = x.query,
           x'.hasFile = x.hasFile, x'.hasOp = x.hasOp, wire' \in Seq(Byte), Len(wire') <= Window,
           op' \in OpStates, op' # Idle => op # Idle, short' \in BOOLEAN, peer # "absent",
           DownloadAgrees', SentInOrder'
    PROVE  IInv'
<1>1. /\ x \in Struct /\ x.hasFile /\ ~options.upload /\ mapped /\ file = Whole /\ size = N
      /\ ~x.monitored /\ queries # 0
  BY DownloadFacts
<1>2. x'.alive
  BY StructFields
<1>3. TypeOK' /\ FileReleased'
  BY <1>1, <1>2 DEF IInv, TypeOK, FileReleased, store, outside
<1>4. QueriesAgree'
  BY <1>2, AnswersKept DEF IInv, QueriesAgree, outside
<1>5. FlagsAgree' /\ FileAgrees'
  BY <1>1, <1>2, StructFields DEF IInv, FlagsAgree, FileAgrees, store, outside, Whole, Byte
<1>6. UploadAgrees' /\ ReceivedInOrder'
  BY <1>1 DEF UploadAgrees, ReceivedInOrder, outside
<1> QED
  BY <1>3, <1>4, <1>5, <1>6 DEF IInv
LEMMA WriteKeeps == ASSUME IInv, XferWrite PROVE IInv'
<1>1. /\ x.alive /\ x.ready /\ ~x.upload /\ x.connected /\ ~x.monitored /\ peer = "open"
      /\ Len(wire) < Window /\ UNCHANGED outside
  BY DEF XferWrite, Open
<1>2. CASE \E e \in Errors : DeleteXfer(e)
  BY <1>1, <1>2, ErrorKeeps
<1>3. CASE ~\E e \in Errors : DeleteXfer(e)
  <2> DEFINE ended == op \in {Idle, "done"}
             done == IF op = "done" THEN x.len ELSE x.done
             rest == done - x.ptr
             free == Window - Len(wire)
             n == IF rest < free THEN rest ELSE free
             bytes == SubSeq(x.buf, x.ptr + 1, x.ptr + n)
             after == [x EXCEPT !.done = done, !.ptr = @ + n, !.xfered = @ + n, !.crc = @ \o bytes]
             next == IF Buffer > size - x.restart THEN size - x.restart ELSE Buffer
             Enough == /\ size = x.xfered
                       /\ x' = [x EXCEPT !.done = done, !.completed = TRUE]
                       /\ op' = IF ended THEN Idle ELSE op
                       /\ UNCHANGED <<wire, short>>
             More == /\ wire' = wire \o bytes
                     /\ short' = (short \/ (ended /\ n < rest))
                     /\ IF ~ended THEN x' = after /\ UNCHANGED op
                        ELSE IF next # 0
                        THEN op' = "running" /\ x' = NextRead(after, next)
                        ELSE op' = Idle /\ x' = [after EXCEPT !.completed = TRUE]
  <2>1. /\ x.restart <= size /\ op # "failed" /\ ~x.completed /\ UNCHANGED <<store, answers>>
        /\ Enough \/ More
    <3>1. "FAILURE" \in Errors /\ "FILE_READWRITE" \in Errors
      BY DEF Errors
    <3> QED
      BY <1>3, <3>1 DEF XferWrite
  <2>2. /\ x \in Struct /\ x.hasFile /\ ~options.upload /\ mapped /\ file = Whole /\ size = N
        /\ x.xfered = Len(x.crc) /\ queries # 0 /\ x.ptr = 0 /\ x.done = 0 /\ op # Idle
        /\ x.xfered + x.len <= x.restart
        /\ op = "done" => \A i \in 1 .. x.len : x.buf[i] = x.restart - x.len + i
        /\ ~short => \A i \in 1 .. Len(x.crc) : x.crc[i] = (x.restart - x.len) - Len(x.crc) + i
    BY <1>1, <2>1, DownloadFacts
  <2>3. /\ x.restart \in 0 .. N /\ x.len \in 0 .. Buffer /\ x.xfered \in Nat /\ x.crc \in Seq(Byte)
        /\ x.buf \in [1 .. Buffer -> 0 .. N] /\ N \in Nat /\ Buffer \in Nat /\ Window \in Nat
        /\ wire \in Seq(Byte) /\ Len(wire) \in Nat /\ op \in OpStates /\ op \in {"running", "done"}
        /\ short \in BOOLEAN /\ Len(x.crc) \in Nat
    <3>1. op \in OpStates /\ wire \in Seq(Byte) /\ short \in BOOLEAN
      BY DEF IInv, TypeOK
    <3>2. op \in {"running", "done"}
      BY <2>1, <2>2, <3>1 DEF OpStates
    <3> QED
      BY <2>1, <2>2, <3>1, <3>2, StructFields, Sizes, LenProperties
  <2>4. ended <=> op = "done"
    BY <2>2
  <2>5. done = (IF op = "done" THEN x.len ELSE 0) /\ done \in 0 .. Buffer /\ rest = done /\ free \in Nat /\ free > 0
    BY <1>1, <2>2, <2>3
  <2> HIDE DEF ended
  <2>6. CASE Enough
    <3>1. /\ x' \in Struct /\ x'.completed
          /\ x'.passive = x.passive /\ x'.connected = x.connected /\ x'.ready = x.ready
          /\ x'.query = x.query /\ x'.hasOp = x.hasOp /\ x'.proxied = x.proxied
          /\ x'.upload = x.upload /\ x'.hasFile = x.hasFile /\ x'.monitored = x.monitored
          /\ x'.len = x.len /\ x'.ptr = x.ptr /\ x'.buf = x.buf
          /\ x'.xfered = x.xfered /\ x'.restart = x.restart /\ x'.crc = x.crc
      BY <2>2, <2>5, <2>6 DEF Struct
    <3>2. x.len = 0 /\ x.restart = N
      BY <2>2, <2>3, <2>6
    <3>3. DownloadAgrees'
      <4>1. At' = N /\ At = x.restart - x.len /\ short' = short
        BY <2>1, <2>6, <3>1 DEF At
      <4>2. ~short' => \A i \in 1 .. Len(x'.crc) : x'.crc[i] = At' - Len(x'.crc) + i
        <5>1. At' - Len(x'.crc) = (x.restart - x.len) - Len(x.crc)
          BY <2>3, <3>1, <3>2, <4>1
        <5> QED
          BY <2>2, <3>1, <4>1, <5>1
      <4> QED
        BY <2>2, <2>3, <3>1, <3>2, <4>2 DEF DownloadAgrees
    <3>4. SentInOrder'
      BY <1>1, <2>1, <2>6, <3>1, StructFields DEF IInv, SentInOrder, outside, store
    <3>5. op' \in OpStates /\ (op' # Idle => op # Idle)
      BY <2>2, <2>3, <2>6 DEF OpStates
    <3> QED
      BY <1>1, <2>1, <2>3, <2>6, <3>1, <3>3, <3>4, <3>5, SendKeeps DEF IInv, TypeOK
  <2>7. CASE More
    <3> DEFINE crc == x.crc \o bytes
    <3>1. n \in 0 .. done /\ n <= free /\ x.ptr + n = n /\ x.ptr + 1 = 1 /\ x.xfered + n \in 0 .. N
      <4>1. n = (IF done < free THEN done ELSE free) /\ done <= x.len /\ done \in Nat
        BY <2>3, <2>5
      <4> HIDE DEF done, free, n
      <4>2. n \in 0 .. done /\ n <= free /\ n \in Nat
        BY <2>5, <4>1
      <4>3. x.xfered + n \in 0 .. N
        BY <2>2, <2>3, <4>1, <4>2, SMTT(30)
      <4> QED
        BY <2>2, <4>2, <4>3
    <3>2. \A i \in 1 .. n : x.buf[i] \in Byte /\ x.buf[i] = x.restart - x.len + i
      <4> TAKE i \in 1 .. n
      <4>1. op = "done" /\ i \in 1 .. x.len
        BY <2>3, <2>5, <3>1
      <4>2. x.buf[i] = x.restart - x.len + i
        BY <2>2, <4>1
      <4> QED
        BY <2>2, <2>3, <4>1, <4>2, SMTT(30) DEF Byte
    <3>3. bytes \in Seq(Byte) /\ Len(bytes) = n /\ \A i \in 1 .. n : bytes[i] = x.restart - x.len + i
      <4>1. /\ SubSeq(x.buf, 1, n) \in Seq(Byte)
            /\ Len(SubSeq(x.buf, 1, n)) = IF 1 <= n THEN n - 1 + 1 ELSE 0
            /\ \A i \in 1 .. n - 1 + 1 : SubSeq(x.buf, 1, n)[i] = x.buf[1 + i - 1]
        <5>1. \A i \in 1 .. n : x.buf[i] \in Byte
          BY <3>2
        <5>2. 1 \in Int /\ n \in Int
          BY <2>3, <3>1, <2>5
        <5> HIDE DEF n
        <5> QED
          BY <5>1, <5>2, SubSeqProperties
      <4>2. bytes = SubSeq(x.buf, 1, n)
        BY <3>1
      <4>3. n \in Nat
        BY <2>5, <3>1
      <4> HIDE DEF n, bytes
      <4>4. Len(bytes) = n
        BY <4>1, <4>2, <4>3
      <4>5. \A i \in 1 .. n : bytes[i] = x.buf[i]
        <5> TAKE i \in 1 .. n
        <5>1. i \in 1 .. n - 1 + 1 /\ 1 + i - 1 = i
          BY <4>3
        <5> QED
          BY <4>1, <4>2, <5>1
      <4> QED
        BY <3>2, <4>1, <4>2, <4>4, <4>5
    <3> HIDE DEF bytes
    <3>4. crc \in Seq(Byte) /\ Joined(x.crc, bytes, crc) /\ wire' \in Seq(Byte) /\ Joined(wire, bytes, wire')
      BY <2>3, <2>7, <3>3, ConcatJoins
    <3>5. wire' \in Seq(Byte) /\ Len(wire') <= Window
      BY <2>3, <2>5, <3>1, <3>3, <3>4 DEF Joined
    <3>6. /\ Len(crc) = Len(x.crc) + n
          /\ \A i \in 1 .. Len(x.crc) : crc[i] = x.crc[i]
          /\ \A i \in 1 .. n : crc[Len(x.crc) + i] = x.restart - x.len + i
      BY <3>3, <3>4 DEF Joined
    <3>7. /\ after \in Struct /\ after.done = done /\ after.ptr = n /\ after.xfered = x.xfered + n
          /\ after.crc = crc
          /\ after.passive = x.passive /\ after.connected = x.connected /\ after.ready = x.ready
          /\ after.query = x.query /\ after.hasOp = x.hasOp /\ after.proxied = x.proxied
          /\ after.upload = x.upload /\ after.hasFile = x.hasFile /\ after.monitored = x.monitored
          /\ after.len = x.len /\ after.buf = x.buf /\ after.restart = x.restart
          /\ after.completed = x.completed
      <4>1. n \in 0 .. Buffer
        BY <2>3, <2>5, <3>1
      <4>2. x.ptr + n = n /\ x.xfered + n \in 0 .. N /\ crc \in Seq(Byte) /\ done \in 0 .. Buffer
        BY <2>5, <3>1, <3>4
      <4> HIDE DEF n, done, crc
      <4>3. after = [x EXCEPT !.done = done, !.ptr = n, !.xfered = x.xfered + n, !.crc = crc]
        BY <2>2, <4>2 DEF Struct, crc
      <4> HIDE DEF after
      <4> QED
        BY <2>2, <4>1, <4>2, <4>3 DEF Struct
    <3> HIDE DEF crc, after
    <3>8. next \in 0 .. Buffer /\ x.restart + next \in 0 .. N /\ (next = 0 => x.restart = N)
      <4>1. next = IF Buffer > N - x.restart THEN N - x.restart ELSE Buffer
        BY <2>2
      <4> HIDE DEF next
      <4> QED
        BY <2>3, <4>1, Sizes
    <3> HIDE DEF next
    <3>9. n \in 0 .. x.len
      BY <2>3, <2>5, <3>1
    <3>10. short' = (short \/ (ended /\ n < rest)) /\ ended \in BOOLEAN
      BY <2>4, <2>7
    <3>11. ended => rest = x.len /\ rest \in Nat
      BY <2>3, <2>4, <2>5
    <3>12. ~ended => n = 0 /\ done = 0 /\ x' = after /\ op' = op /\ op = "running"
      <4>1. ~ended => done = 0 /\ x' = after /\ op' = op /\ op = "running"
        BY <2>3, <2>4, <2>5, <2>7
      <4> QED
        BY <3>1, <4>1
    <3>13. ended /\ next # 0 => op' = "running" /\ x' = NextRead(after, next)
      BY <2>7
    <3>14. ended /\ next = 0 => op' = Idle /\ x' = [after EXCEPT !.completed = TRUE]
      BY <2>7
    <3> HIDE DEF n, done, rest, free
    <3>15. wire' \in Seq(Byte) /\ Len(wire') <= Window /\ short' \in BOOLEAN
      BY <2>3, <3>5, <3>10
    <3>16. ASSUME x'.crc = crc PROVE SentInOrder'
      BY <1>1, <2>1, <2>2, <3>3, <3>4, <3>16, SendMore DEF outside, store
    <3>17. ~short' => ~short /\ (ended => n = x.len)
      BY <2>3, <3>9, <3>10, <3>11
    <3>18. CASE ~ended
      <4>1. /\ x' \in Struct /\ x'.crc = crc /\ x'.xfered = x.xfered + n
            /\ x'.passive = x.passive /\ x'.proxied = x.proxied /\ x'.ready = x.ready
            /\ x'.upload = x.upload /\ x'.monitored = x.monitored /\ x'.query = x.query
            /\ x'.hasFile = x.hasFile /\ x'.hasOp = x.hasOp
            /\ x'.ptr = 0 /\ x'.done = 0 /\ x'.len = x.len /\ x'.restart = x.restart /\ ~x'.completed
        BY <2>1, <3>7, <3>12, <3>18
      <4>2. op' # "done" /\ op' # Idle /\ op' \in OpStates
        BY <3>12, <3>18 DEF Idle, OpStates
      <4>3. At' = x.restart - x.len + n /\ x'.len <= x'.restart /\ x'.xfered + x'.len <= x'.restart
        BY <2>2, <2>3, <3>12, <3>18, <4>1 DEF At
      <4>4. x'.restart <= N /\ x.restart <= N
        BY <2>3, <4>1
      <4>5. DownloadAgrees'
        BY <1>1, <2>1, <3>6, <3>9, <3>17, <4>1, <4>2, <4>3, <4>4, SentOfFile
      <4> QED
        BY <1>1, <2>1, <2>2, <3>15, <3>16, <4>1, <4>2, <4>5, SendKeeps
    <3>19. CASE ended /\ next # 0
      <4>1. /\ x' \in Struct /\ x'.crc = crc /\ x'.xfered = x.xfered + n
            /\ x'.passive = x.passive /\ x'.proxied = x.proxied /\ x'.ready = x.ready
            /\ x'.upload = x.upload /\ x'.monitored = x.monitored /\ x'.query = x.query
            /\ x'.hasFile = x.hasFile /\ x'.hasOp = x.hasOp
            /\ x'.ptr = 0 /\ x'.done = 0 /\ x'.len = next /\ x'.restart = x.restart + next /\ ~x'.completed
        <5>1. x' = [after EXCEPT !.ptr = 0, !.len = next, !.done = 0, !.restart = after.restart + next]
          BY <3>13, <3>19 DEF NextRead
        <5>2. 0 \in 0 .. Buffer /\ after.restart + next \in 0 .. (N + Buffer)
          BY <2>3, <3>7, <3>8, Sizes
        <5> QED
          BY <2>1, <3>7, <3>8, <5>1, <5>2 DEF Struct
      <4>2. op' # "done" /\ op' # Idle /\ op' \in OpStates
        BY <3>13, <3>19 DEF Idle, OpStates
      <4>3. /\ At' = x.restart /\ x'.len <= x'.restart /\ x'.xfered + x'.len <= x'.restart
            /\ x'.restart <= N /\ x.restart <= N
        BY <2>2, <2>3, <3>8, <3>9, <4>1, SMTT(30) DEF At
      <4>4. ~short' => ~short /\ At' = x.restart - x.len + n
        BY <2>3, <3>17, <3>19, <4>3
      <4>5. DownloadAgrees'
        BY <1>1, <2>1, <3>6, <3>9, <4>1, <4>2, <4>3, <4>4, SentOfFile
      <4>6. op # Idle
        BY <2>2
      <4> QED
        BY <1>1, <2>1, <2>2, <3>15, <3>16, <4>1, <4>2, <4>5, <4>6, SendKeeps
    <3>20. CASE ended /\ next = 0
      <4>1. /\ x' \in Struct /\ x'.crc = crc /\ x'.xfered = x.xfered + n
            /\ x'.passive = x.passive /\ x'.proxied = x.proxied /\ x'.ready = x.ready
            /\ x'.upload = x.upload /\ x'.monitored = x.monitored /\ x'.query = x.query
            /\ x'.hasFile = x.hasFile /\ x'.hasOp = x.hasOp
            /\ x'.len = x.len /\ x'.restart = x.restart /\ x'.completed
        BY <3>7, <3>14, <3>20, ZenonT(40) DEF Struct
      <4>2. op' # "done" /\ op' = Idle /\ op' \in OpStates
        BY <3>14, <3>20 DEF Idle, OpStates
      <4>3. /\ At' = N /\ x.restart = N /\ x'.len <= x'.restart /\ x'.restart <= N /\ x.restart <= N
        BY <2>2, <2>3, <3>8, <3>20, <4>1 DEF At
      <4>4. ~short' => ~short /\ At' = x.restart - x.len + n
        BY <2>3, <3>17, <3>20, <4>3
      <4>5. DownloadAgrees'
        BY <1>1, <2>1, <3>6, <3>9, <4>1, <4>2, <4>3, <4>4, SentOfFile
      <4> QED
        BY <1>1, <2>1, <2>2, <3>15, <3>16, <4>1, <4>2, <4>5, SendKeeps
    <3> QED
      BY <3>18, <3>19, <3>20
  <2> QED
    BY <2>1, <2>6, <2>7
<1> QED
  BY <1>2, <1>3
--------------------------------------------------------------------------------
(* xfer_read: what the socket has goes to the buffer.                      *)

(* An upload that is under way has its file.                               *)
LEMMA UploadFacts ==
    ASSUME IInv, x.alive, x.upload
    PROVE  /\ x \in Struct /\ x.hasFile /\ x.ready /\ options.upload /\ mapped /\ x.query # 0
           /\ file \in Seq(0 .. N) /\ Len(file) \in Nat /\ size \in 0 .. N /\ sent \in 0 .. N
           /\ x.len \in 0 .. Buffer /\ x.ptr \in 0 .. Buffer /\ x.buf \in [1 .. Buffer -> 0 .. N]
           /\ x.restart \in Nat /\ x.crc \in Seq(Byte) /\ Len(x.crc) \in Nat
           /\ wire \in Seq(Byte) /\ Len(wire) \in Nat
           /\ x.len <= x.ptr /\ x.xfered = size /\ size = Len(x.crc) /\ size + Len(wire) <= sent
<1>1. x \in Struct
  BY XferTyped DEF IInv
<1>2. x.hasFile /\ x.ready /\ options.upload /\ mapped /\ x.query # 0
  BY <1>1, StructFields DEF IInv, FlagsAgree
<1>3. /\ file \in Seq(0 .. N) /\ size \in 0 .. N /\ sent \in 0 .. N /\ wire \in Seq(Byte)
      /\ x.len <= x.ptr /\ x.xfered = size /\ size = Len(x.crc) /\ size + Len(wire) <= sent
  BY DEF IInv, TypeOK, UploadAgrees
<1> QED
  BY <1>1, <1>2, <1>3, StructFields, LenProperties, Sizes

(* What of the buffer is not written yet, or being written, when a write   *)
(* that was done has been dropped from it.                                 *)
LEMMA ProbedFacts ==
    ASSUME IInv, x.alive, x.upload, ~x.monitored, op # "failed"
    PROVE  /\ Probed \in Struct
           /\ Probed.passive = x.passive /\ Probed.proxied = x.proxied /\ Probed.ready = x.ready
           /\ Probed.upload = x.upload /\ Probed.monitored = x.monitored /\ Probed.query = x.query
           /\ Probed.hasFile = x.hasFile /\ Probed.hasOp = x.hasOp /\ Probed.connected = x.connected
           /\ Probed.crc = x.crc /\ Probed.xfered = x.xfered /\ Probed.restart = x.restart
           /\ op # "running" => Probed.len = 0
           /\ Probed.len <= Probed.ptr
           /\ x.restart = Len(file) + Probed.len
           /\ Len(x.crc) = Len(file) + Probed.ptr
           /\ \A i \in 1 .. Len(file) : file[i] = x.crc[i]
           /\ \A i \in 1 .. Probed.ptr : Probed.buf[i] = x.crc[Len(file) + i]
<1>1. /\ x \in Struct /\ Len(file) \in Nat /\ x.len \in 0 .. Buffer /\ x.ptr \in 0 .. Buffer
      /\ x.buf \in [1 .. Buffer -> 0 .. N] /\ x.len <= x.ptr /\ Buffer \in Nat
      /\ op = Idle => x.len = 0
      /\ x.restart = Len(file) + (x.len - From)
      /\ Len(x.crc) = Len(file) + (x.ptr - From)
      /\ \A i \in 1 .. Len(file) : file[i] = x.crc[i]
      /\ \A i \in 1 .. x.ptr - From : x.buf[From + i] = x.crc[Len(file) + i]
      /\ op \in {Idle, "running", "done"}
  BY UploadFacts, Sizes DEF IInv, UploadAgrees, TypeOK, OpStates
<1>2. CASE op # "done"
  <2>1. Probed = x /\ From = 0
    BY <1>1, <1>2 DEF Probed, From, Idle
  <2>2. x.len - 0 = x.len /\ x.ptr - 0 = x.ptr /\ \A i \in 1 .. x.ptr : 0 + i = i
    BY <1>1
  <2>3. op # "running" => x.len = 0
    BY <1>1, <1>2
  <2> QED
    BY <1>1, <2>1, <2>2, <2>3
<1>3. CASE op = "done"
  <2> DEFINE k == x.ptr - x.len
             b == [i \in 1 .. Buffer |-> IF i <= k THEN x.buf[x.len + i] ELSE x.buf[i]]
  <2>1. From = x.len /\ k \in 0 .. Buffer /\ x.len - x.len = 0 /\ x.len + k = x.ptr /\ op # "running"
    BY <1>1, <1>3 DEF From
  <2>2. b \in [1 .. Buffer -> 0 .. N]
    <3>1. \A i \in 1 .. Buffer : i <= k => x.len + i \in 1 .. Buffer
      <4>1. x.len \in Nat /\ x.ptr <= Buffer /\ k \in Nat /\ x.len + k = x.ptr
        BY <1>1, <2>1
      <4> HIDE DEF k
      <4> QED
        BY <1>1, <4>1
    <3> QED
      BY <1>1, <3>1
  <2>3. \A i \in 1 .. k : b[i] = x.crc[Len(file) + i]
    <3> TAKE i \in 1 .. k
    <3>1. i \in 1 .. Buffer /\ i <= k
      BY <1>1, <2>1
    <3>2. b[i] = x.buf[x.len + i]
      BY <3>1
    <3> QED
      BY <1>1, <2>1, <3>2
  <2>4. Probed = [x EXCEPT !.buf = b, !.ptr = k, !.len = 0, !.done = 0]
    BY <1>1, <1>3 DEF Probed, Shifted, Struct
  <2> HIDE DEF b, k
  <2>5. /\ Probed \in Struct /\ Probed.buf = b /\ Probed.ptr = k /\ Probed.len = 0
        /\ Probed.passive = x.passive /\ Probed.proxied = x.proxied /\ Probed.ready = x.ready
        /\ Probed.upload = x.upload /\ Probed.monitored = x.monitored /\ Probed.query = x.query
        /\ Probed.hasFile = x.hasFile /\ Probed.hasOp = x.hasOp /\ Probed.connected = x.connected
        /\ Probed.crc = x.crc /\ Probed.xfered = x.xfered /\ Probed.restart = x.restart
    <3>1. 0 \in 0 .. Buffer
      BY Sizes
    <3> QED
      BY <1>1, <2>1, <2>2, <2>4, <3>1, ZenonT(40) DEF Struct
  <2>6. Len(x.crc) = Len(file) + k /\ x.restart = Len(file) + 0
    BY <1>1, <2>1 DEF k
  <2>7. 0 <= k
    BY <2>1
  <2> QED
    BY <1>1, <2>1, <2>3, <2>5, <2>6, <2>7
<1> QED
  BY <1>2, <1>3
(* The part of the invariant that receiving does not touch.                *)
LEMMA ReceiveKeeps ==
    ASSUME IInv, x.alive, x.upload, ~x.monitored, UNCHANGED <<mapped, handles, leaked, answers, short, outside>>,
           x' \in Struct, x'.passive = x.passive, x'.proxied = x.proxied, x'.ready = x.ready,
           x'.upload = x.upload, x'.monitored = x.monitored, x'.query = x.query,
           x'.hasFile = x.hasFile, op' # Idle => x'.hasOp,
           wire' \in Seq(Byte), Len(wire') <= Len(wire), peer # "absent",
           file' \in Seq(0 .. N), size' \in 0 .. N, op' \in OpStates,
           UploadAgrees', ReceivedInOrder'
    PROVE  IInv'
<1>1. /\ x \in Struct /\ x.hasFile /\ options.upload /\ mapped /\ x.query # 0 /\ sent \in 0 .. N
      /\ Len(wire) \in Nat
  BY UploadFacts
<1>2. x'.alive /\ Len(wire') \in Nat
  BY StructFields, LenProperties
<1>3. Len(wire') <= Window /\ Len(wire') <= sent
  <2>1. Len(wire) <= Window /\ Len(wire) <= sent
    BY <1>1 DEF IInv, TypeOK, FileAgrees
  <2> QED
    BY <1>1, <1>2, <2>1, Sizes
<1>4. TypeOK' /\ FileReleased'
  BY <1>1, <1>2, <1>3 DEF IInv, TypeOK, FileReleased, outside
<1>5. QueriesAgree'
  BY <1>2, AnswersKept DEF IInv, QueriesAgree, outside
<1>6. FlagsAgree' /\ FileAgrees'
  BY <1>1, <1>2, <1>3, StructFields DEF IInv, FlagsAgree, FileAgrees, outside
<1>7. DownloadAgrees' /\ SentInOrder'
  BY <1>1 DEF DownloadAgrees, SentInOrder, outside
<1> QED
  BY <1>4, <1>5, <1>6, <1>7 DEF IInv

LEMMA ReadKeeps == ASSUME IInv, XferRead PROVE IInv'
<1>1. /\ x.alive /\ ~x.monitored /\ x.upload /\ x.connected /\ wire # <<>> /\ UNCHANGED outside
  BY DEF XferRead, Open
<1>2. CASE DeleteXfer("FILE_READWRITE")
  BY <1>1, <1>2, ErrorKeeps DEF Errors
<1>3. CASE ~DeleteXfer("FILE_READWRITE")
  <2> DEFINE room == Buffer - Probed.ptr
             n == IF Len(wire) < room THEN Len(wire) ELSE room
             bytes == SubSeq(wire, 1, n)
             buf == [i \in 1 .. Buffer |->
                        IF i > Probed.ptr /\ i <= Probed.ptr + n
                        THEN bytes[i - Probed.ptr] ELSE Probed.buf[i]]
             crc == x.crc \o bytes
             filled == [Probed EXCEPT !.buf = [i \in 1 .. Buffer |->
                                          IF i > Probed.ptr /\ i <= Probed.ptr + n
                                          THEN bytes[i - Probed.ptr] ELSE @[i]],
                     !.ptr = @ + n, !.xfered = @ + n, !.crc = @ \o bytes]
  <2>1. /\ op # "failed" /\ wire' = SubSeq(wire, n + 1, Len(wire)) /\ size' = size + n
        /\ \/ n < room /\ x' = filled /\ op' = IF op = "done" THEN Idle ELSE op
           \/ n = room /\ op = "running" /\ x' = filled /\ op' = op
           \/ /\ n = room /\ op # "running" /\ op' = "running"
              /\ x' = [filled EXCEPT !.hasOp = TRUE, !.done = 0,
                                     !.len = filled.ptr, !.restart = @ + filled.ptr]
        /\ UNCHANGED <<mapped, file, handles, leaked, answers, short>>
    BY <1>1, <1>3 DEF XferRead
  <2>2. /\ x \in Struct /\ x.hasFile /\ x.ready /\ options.upload
        /\ file \in Seq(0 .. N) /\ Len(file) \in Nat /\ size \in 0 .. N /\ sent \in 0 .. N
        /\ x.crc \in Seq(Byte) /\ Len(x.crc) \in Nat /\ wire \in Seq(Byte) /\ Len(wire) \in Nat
        /\ x.xfered = size /\ size = Len(x.crc) /\ size + Len(wire) <= sent
    BY <1>1, UploadFacts
  <2>3. /\ Probed \in Struct
        /\ Probed.passive = x.passive /\ Probed.proxied = x.proxied /\ Probed.ready = x.ready
        /\ Probed.upload = x.upload /\ Probed.monitored = x.monitored /\ Probed.query = x.query
        /\ Probed.hasFile = x.hasFile /\ Probed.hasOp = x.hasOp /\ Probed.connected = x.connected
        /\ Probed.crc = x.crc /\ Probed.xfered = x.xfered /\ Probed.restart = x.restart
        /\ op # "running" => Probed.len = 0
        /\ Probed.len <= Probed.ptr
        /\ x.restart = Len(file) + Probed.len
        /\ Len(x.crc) = Len(file) + Probed.ptr
        /\ \A i \in 1 .. Len(file) : file[i] = x.crc[i]
        /\ \A i \in 1 .. Probed.ptr : Probed.buf[i] = x.crc[Len(file) + i]
    BY <1>1, <2>1, ProbedFacts
  <2> DEFINE p == Probed.ptr
  <2>4. /\ p \in 0 .. Buffer /\ Probed.len \in 0 .. Buffer /\ Probed.buf \in [1 .. Buffer -> 0 .. N]
        /\ Buffer \in Nat /\ N \in Nat
    BY <2>3, StructFields, Sizes
  <2>5. /\ n \in Nat /\ n <= room /\ n <= Len(wire) /\ p + n \in 0 .. Buffer
        /\ Len(x.crc) + n \in 0 .. N /\ size + n \in 0 .. N
    <3>1. n = (IF Len(wire) < Buffer - p THEN Len(wire) ELSE Buffer - p) /\ room = Buffer - p
      OBVIOUS
    <3> HIDE DEF n, room, p
    <3> DEFINE w == Len(wire)
    <3>2. w \in Nat /\ size \in 0 .. N /\ sent \in 0 .. N /\ size + w <= sent /\ size = Len(x.crc)
      BY <2>2
    <3>3. n = (IF w < Buffer - p THEN w ELSE Buffer - p) /\ room = Buffer - p
      BY <3>1
    <3> HIDE DEF w
    <3>4. n \in Nat /\ n <= room /\ n <= w /\ p + n \in 0 .. Buffer
      BY <2>4, <3>2, <3>3
    <3>5. size + n \in 0 .. N
      BY <2>4, <3>2, <3>4
    <3> QED
      BY <3>2, <3>4, <3>5 DEF w
  <2> HIDE DEF n, room
  <2>6. /\ bytes \in Seq(Byte) /\ Len(bytes) = n /\ \A i \in 1 .. n : bytes[i] = wire[i]
        /\ wire' \in Seq(Byte) /\ Len(wire') = Len(wire) - n
        /\ \A i \in 1 .. Len(wire) - n : wire'[i] = wire[n + i]
    <3>1. \A i \in 1 .. Len(wire) : wire[i] \in Byte
      BY <2>2, ElementOfSeq
    <3>2. /\ SubSeq(wire, 1, n) \in Seq(Byte)
          /\ Len(SubSeq(wire, 1, n)) = IF 1 <= n THEN n - 1 + 1 ELSE 0
          /\ \A i \in 1 .. n - 1 + 1 : SubSeq(wire, 1, n)[i] = wire[1 + i - 1]
      <4>1. 1 \in Int /\ n \in Int /\ \A i \in 1 .. n : wire[i] \in Byte
        BY <2>2, <2>5, <3>1
      <4> QED
        BY <4>1, SubSeqProperties
    <3> DEFINE w == Len(wire)
    <3>3. /\ SubSeq(wire, n + 1, w) \in Seq(Byte)
          /\ Len(SubSeq(wire, n + 1, w)) = IF n + 1 <= w THEN w - (n + 1) + 1 ELSE 0
          /\ \A i \in 1 .. w - (n + 1) + 1 : SubSeq(wire, n + 1, w)[i] = wire[n + 1 + i - 1]
      <4>1. n + 1 \in Int /\ w \in Int /\ \A i \in n + 1 .. w : wire[i] \in Byte
        BY <2>2, <2>5, <3>1
      <4> HIDE DEF w
      <4> QED
        BY <4>1, SubSeqProperties
    <3>4. wire' = SubSeq(wire, n + 1, w) /\ w \in Nat /\ n <= w
      BY <2>1, <2>2, <2>5
    <3> HIDE DEF w, bytes
    <3>5. bytes = SubSeq(wire, 1, n)
      BY DEF bytes
    <3>6. /\ bytes \in Seq(Byte) /\ Len(bytes) = n
      BY <2>5, <3>2, <3>5
    <3>7. \A i \in 1 .. n : bytes[i] = wire[i]
      <4> TAKE i \in 1 .. n
      <4>1. i \in 1 .. n - 1 + 1 /\ 1 + i - 1 = i
        BY <2>5
      <4> QED
        BY <3>2, <3>5, <4>1
    <3>8. wire' \in Seq(Byte) /\ Len(wire') = w - n
      BY <2>5, <3>3, <3>4
    <3>9. \A i \in 1 .. w - n : wire'[i] = wire[n + i]
      <4> TAKE i \in 1 .. w - n
      <4>1. i \in 1 .. w - (n + 1) + 1 /\ n + 1 + i - 1 = n + i
        BY <2>5, <3>4
      <4> QED
        BY <3>3, <3>4, <4>1
    <3> QED
      BY <3>6, <3>7, <3>8, <3>9 DEF w
  <2>7. crc \in Seq(Byte) /\ Joined(x.crc, bytes, crc)
    BY <2>2, <2>6, ConcatJoins
  <2>8. /\ buf \in [1 .. Buffer -> 0 .. N]
        /\ \A i \in 1 .. p : buf[i] = Probed.buf[i]
        /\ \A i \in 1 .. n : buf[p + i] = bytes[i]
    <3>1. \A i \in 1 .. Buffer : i > p /\ i <= p + n => i - p \in 1 .. n
      <4> HIDE DEF p
      <4> QED
        BY <2>4, <2>5
    <3>2. \A i \in 1 .. n : bytes[i] \in 0 .. N
      <4>1. \A i \in 1 .. n : bytes[i] \in Byte
        BY <2>6, ElementOfSeq
      <4> HIDE DEF bytes, buf, crc, filled
      <4> QED
        BY <4>1, <2>4 DEF Byte
    <3> DEFINE b2 == [i \in 1 .. Buffer |-> IF i > p /\ i <= p + n THEN bytes[i - p] ELSE Probed.buf[i]]
    <3>3. buf = b2
      OBVIOUS
    <3> HIDE DEF buf, bytes
    <3>4. \A i \in 1 .. p : i \in 1 .. Buffer /\ ~(i > p)
      <4> HIDE DEF p
      <4> QED
        BY <2>4
    <3>5. \A i \in 1 .. n : p + i \in 1 .. Buffer /\ p + i > p /\ p + i <= p + n /\ (p + i) - p = i
      <4> HIDE DEF p
      <4> QED
        BY <2>4, <2>5
    <3>6. b2 \in [1 .. Buffer -> 0 .. N]
      BY <2>4, <3>1, <3>2
    <3>7. \A i \in 1 .. p : b2[i] = Probed.buf[i]
      BY <3>4
    <3>8. \A i \in 1 .. n : b2[p + i] = bytes[i]
      BY <3>5
    <3> HIDE DEF b2
    <3> QED
      BY <3>3, <3>6, <3>7, <3>8
  <2>9. filled = [Probed EXCEPT !.buf = buf, !.ptr = p + n, !.xfered = x.xfered + n, !.crc = crc]
    BY <2>3 DEF Struct
  <2>10.
        /\ filled \in Struct /\ filled.hasOp = x.hasOp /\ filled.buf = buf /\ filled.ptr = p + n
        /\ filled.passive = x.passive /\ filled.proxied = x.proxied /\ filled.ready = x.ready
        /\ filled.upload = x.upload /\ filled.monitored = x.monitored /\ filled.query = x.query
        /\ filled.hasFile = x.hasFile /\ filled.connected = x.connected
        /\ filled.crc = crc /\ filled.xfered = x.xfered + n /\ filled.restart = x.restart
        /\ filled.len = Probed.len
    <3>1. x.xfered + n \in 0 .. N
      BY <2>2, <2>5
    <3> HIDE DEF filled, buf, crc, p
    <3> QED
      BY <2>3, <2>5, <2>7, <2>8, <2>9, <3>1 DEF Struct
  <2>11. /\ Len(crc) = Len(file) + (p + n) /\ Len(crc) = Len(x.crc) + n
         /\ \A i \in 1 .. Len(x.crc) : crc[i] = x.crc[i]
         /\ \A i \in 1 .. n : crc[Len(x.crc) + i] = wire[i]
    <3>1. /\ Len(crc) = Len(x.crc) + Len(bytes)
          /\ \A i \in 1 .. Len(x.crc) : crc[i] = x.crc[i]
          /\ \A i \in 1 .. Len(bytes) : crc[Len(x.crc) + i] = bytes[i]
      BY <2>7 DEF Joined
    <3> HIDE DEF filled, bytes, buf, crc, p
    <3>2. /\ Len(crc) = Len(x.crc) + n
          /\ \A i \in 1 .. Len(x.crc) : crc[i] = x.crc[i]
          /\ \A i \in 1 .. n : crc[Len(x.crc) + i] = wire[i]
      BY <2>6, <3>1
    <3>3. Len(x.crc) = Len(file) + p
      BY <2>3 DEF p
    <3>4. Len(crc) = Len(file) + (p + n)
      BY <2>2, <2>4, <2>5, <3>2, <3>3
    <3> QED
      BY <3>2, <3>4
  <2> HIDE DEF filled, bytes, buf, crc, p
  <2>12.
        /\ x' \in Struct /\ x'.buf = buf /\ x'.ptr = p + n /\ x'.crc = crc /\ x'.xfered = x.xfered + n
        /\ x'.passive = x.passive /\ x'.proxied = x.proxied /\ x'.ready = x.ready
        /\ x'.upload = x.upload /\ x'.monitored = x.monitored /\ x'.query = x.query
        /\ x'.hasFile = x.hasFile /\ x'.connected = x.connected
        /\ x'.len <= x'.ptr /\ op' # "failed" /\ op' \in OpStates
        /\ op' = "running" \/ (op' = Idle /\ x'.len = 0)
        /\ x'.restart = Len(file) + x'.len
        /\ op' # Idle => x'.hasOp
    <3>1. op \in {Idle, "running", "done"}
      BY <2>1 DEF IInv, TypeOK, OpStates
    <3>2. op # Idle => x.hasOp
      BY <1>1 DEF IInv, FlagsAgree
    <3>3. p + n \in 0 .. Buffer /\ Probed.len <= p /\ p \in Nat /\ Probed.len \in 0 .. Buffer
      BY <2>3, <2>4, <2>5 DEF p
    <3>4. Probed.len <= p + n
      BY <2>5, <3>3
    <3>5. op # "running" => Probed.len = 0
      BY <2>3
    <3>6. x.restart = Len(file) + Probed.len
      BY <2>3
    <3>7. CASE ~(op # "running" /\ op' = "running")
      <4>1. x' = filled /\ op' = IF op = "running" THEN op ELSE Idle
        BY <2>1, <3>1, <3>7 DEF Idle
      <4>2. op' = "running" \/ (op' = Idle /\ Probed.len = 0)
        BY <3>5, <4>1 DEF Idle
      <4>3. op' # "failed" /\ op' \in OpStates /\ (op' # Idle => op # Idle)
        BY <4>1 DEF Idle, OpStates
      <4> QED
        BY <2>10, <3>2, <3>4, <3>6, <4>1, <4>2, <4>3
    <3>8. CASE op # "running" /\ op' = "running"
      <4>1. /\ op # "running" /\ op' = "running"
            /\ x' = [filled EXCEPT !.hasOp = TRUE, !.done = 0,
                                   !.len = filled.ptr, !.restart = @ + filled.ptr]
        BY <2>1, <3>8 DEF Idle
      <4>2. op' # "failed" /\ op' \in OpStates
        BY <4>1 DEF OpStates
      <4>3. x.restart + (p + n) = Len(file) + (p + n)
        BY <2>2, <3>5, <3>6, <4>1
      <4>4. x.restart + (p + n) \in 0 .. (N + Buffer)
        <5>1. Len(crc) = Len(file) + (p + n) /\ Len(crc) \in 0 .. N
          BY <2>5, <2>11
        <5> QED
          BY <2>4, <4>3, <5>1
      <4>5. x' = [filled EXCEPT !.hasOp = TRUE, !.done = 0, !.len = p + n, !.restart = x.restart + (p + n)]
        BY <2>10, <4>1
      <4>6. 0 \in 0 .. Buffer
        BY Sizes
      <4>7. /\ x' \in Struct /\ x'.hasOp /\ x'.len = p + n /\ x'.restart = x.restart + (p + n)
            /\ x'.buf = buf /\ x'.ptr = p + n /\ x'.crc = crc /\ x'.xfered = x.xfered + n
            /\ x'.passive = x.passive /\ x'.proxied = x.proxied /\ x'.ready = x.ready
            /\ x'.upload = x.upload /\ x'.monitored = x.monitored /\ x'.query = x.query
            /\ x'.hasFile = x.hasFile /\ x'.connected = x.connected
        BY <2>10, <3>3, <4>4, <4>5, <4>6 DEF Struct
      <4>8. x'.len <= x'.ptr
        BY <3>3, <4>7
      <4> QED
        BY <4>1, <4>2, <4>3, <4>7, <4>8
    <3> QED
      BY <3>7, <3>8
  <2>13. From' = 0
    <3>1. op' = "running" \/ x'.len = 0
      BY <2>12
    <3> QED
      BY <3>1 DEF From
  <2>14. file' = file /\ size' = size + n /\ size' + Len(wire') <= sent'
    <3>1. file' = file /\ size' = size + n /\ sent' = sent
      BY <1>1, <2>1 DEF outside
    <3> DEFINE w == Len(wire)
    <3>2. w \in Nat /\ size + w <= sent /\ size \in Nat /\ sent \in Nat /\ Len(wire') = w - n
      BY <2>2, <2>4, <2>6
    <3> HIDE DEF w
    <3> QED
      BY <2>5, <3>1, <3>2
  <2>15. \A i \in 1 .. Len(file) : file[i] = crc[i]
    <3>1. \A i \in 1 .. Len(file) : i \in 1 .. Len(x.crc)
      BY <2>2, <2>3, <2>4, SMTT(30) DEF p
    <3> QED
      BY <2>3, <2>11, <3>1
  <2>16. \A i \in 1 .. p + n : buf[i] = crc[Len(file) + i]
    <3> DEFINE f == Len(file)  c == Len(x.crc)
    <3>1. f \in Nat /\ c \in Nat /\ c = f + p /\ p \in Nat /\ \A i \in 1 .. p : Probed.buf[i] = x.crc[f + i]
      BY <2>2, <2>3, <2>4 DEF p
    <3>2. /\ \A i \in 1 .. c : crc[i] = x.crc[i]
          /\ \A i \in 1 .. n : crc[c + i] = wire[i]
      BY <2>11
    <3>3. /\ \A i \in 1 .. p : buf[i] = Probed.buf[i]
          /\ \A i \in 1 .. n : buf[p + i] = wire[i]
      BY <2>6, <2>8
    <3> HIDE DEF f, c
    <3>4. ASSUME NEW i \in 1 .. p + n PROVE buf[i] = crc[f + i]
      <4>1. CASE i \in 1 .. p
        <5>1. f + i \in 1 .. c
          BY <3>1, <4>1
        <5> QED
          BY <3>1, <3>2, <3>3, <4>1, <5>1
      <4>2. CASE i \notin 1 .. p
        <5>1. i - p \in 1 .. n /\ p + (i - p) = i /\ c + (i - p) = f + i
          BY <2>5, <3>1, <4>2
        <5>2. buf[p + (i - p)] = wire[i - p] /\ crc[c + (i - p)] = wire[i - p]
          BY <3>2, <3>3, <5>1
        <5> QED
          BY <5>1, <5>2
      <4> QED
        BY <4>1, <4>2
    <3> QED
      BY <3>4 DEF f
  <2>17. UploadAgrees'
    <3>1. /\ x'.len - From' = x'.len /\ x'.ptr - From' = p + n
          /\ \A i \in 1 .. p + n : From' + i = i
      BY <2>4, <2>5, <2>12, <2>13, StructFields
    <3>2. size' = Len(x'.crc) /\ x'.xfered = size'
      BY <2>2, <2>11, <2>12, <2>14
    <3>3. op' = Idle /\ ~x'.monitored => x'.len = 0
      BY <2>12 DEF Idle
    <3>4. x'.restart = Len(file') + (x'.len - From') /\ Len(x'.crc) = Len(file') + (x'.ptr - From')
      BY <2>11, <2>12, <2>14, <3>1
    <3>5. \A i \in 1 .. Len(file') : file'[i] = x'.crc[i]
      BY <2>12, <2>14, <2>15
    <3>6. \A i \in 1 .. x'.ptr - From' : x'.buf[From' + i] = x'.crc[Len(file') + i]
      BY <2>12, <2>14, <2>16, <3>1
    <3>7. x'.len <= x'.ptr
      BY <2>12
    <3> QED
      BY <2>14, <3>2, <3>3, <3>4, <3>5, <3>6, <3>7 DEF UploadAgrees
  <2>18. ReceivedInOrder'
    <3>1. SUFFICES ASSUME leaked = 0 PROVE ReceivedInOrder'
      BY <2>1 DEF ReceivedInOrder
    <3> DEFINE c == Len(x.crc)  w == Len(wire)
    <3>2. /\ sent = c + w
          /\ \A i \in 1 .. c : x.crc[i] = i
          /\ \A i \in 1 .. w : wire[i] = c + i
      BY <1>1, <2>2, <3>1 DEF IInv, ReceivedInOrder
    <3>3. /\ c \in Nat /\ w \in Nat /\ n <= w /\ Len(crc) = c + n /\ Len(wire') = w - n
          /\ \A i \in 1 .. c : crc[i] = x.crc[i]
          /\ \A i \in 1 .. n : crc[c + i] = wire[i]
          /\ \A i \in 1 .. w - n : wire'[i] = wire[n + i]
      BY <2>2, <2>5, <2>6, <2>11
    <3> HIDE DEF c, w
    <3>4. sent = Len(crc) + Len(wire')
      BY <2>5, <3>2, <3>3
    <3>5. \A i \in 1 .. Len(crc) : crc[i] = i
      <4> TAKE i \in 1 .. Len(crc)
      <4>1. CASE i \in 1 .. c
        BY <3>2, <3>3, <4>1
      <4>2. CASE i \notin 1 .. c
        <5>1. i - c \in 1 .. n /\ i - c \in 1 .. w /\ c + (i - c) = i
          BY <2>5, <3>3, <4>2
        <5>2. crc[c + (i - c)] = wire[i - c] /\ wire[i - c] = c + (i - c)
          BY <3>2, <3>3, <5>1
        <5> QED
          BY <5>1, <5>2
      <4> QED
        BY <4>1, <4>2
    <3>6. \A i \in 1 .. Len(wire') : wire'[i] = Len(crc) + i
      <4> TAKE i \in 1 .. Len(wire')
      <4>1. i \in 1 .. w - n /\ n + i \in 1 .. w /\ c + (n + i) = Len(crc) + i
        BY <2>5, <3>3
      <4>2. wire'[i] = wire[n + i] /\ wire[n + i] = c + (n + i)
        BY <3>2, <3>3, <4>1
      <4> QED
        BY <4>1, <4>2
    <3> QED
      BY <1>1, <2>12, <3>4, <3>5, <3>6 DEF ReceivedInOrder, outside
  <2>19. /\ peer # "absent" /\ Len(wire') <= Len(wire) /\ file' \in Seq(0 .. N) /\ size' \in 0 .. N
    BY <1>1, <2>2, <2>5, <2>6, <2>14 DEF IInv, FileAgrees
  <2> QED
    BY <1>1, <2>1, <2>6, <2>12, <2>17, <2>18, <2>19, ReceiveKeeps
<1> QED
  BY <1>2, <1>3
(* What is left of an upload when the peer has closed: nothing is under    *)
(* way, and the rest of the buffer is the rest of what was received.       *)
LEMMA RestFacts ==
    ASSUME IInv, x.alive, x.monitored, op \in {Idle, "done"}
    PROVE  /\ x.upload /\ x.connected /\ wire = <<>> /\ From = x.len
           /\ x.restart = Len(file)
           /\ Len(x.crc) = Len(file) + (x.ptr - x.len)
           /\ \A i \in 1 .. Len(file) : file[i] = x.crc[i]
           /\ \A i \in 1 .. x.ptr - x.len : x.buf[x.len + i] = x.crc[Len(file) + i]
<1>1. x.upload /\ x.connected /\ wire = <<>> /\ From = x.len /\ op # "failed"
  BY DEF IInv, FlagsAgree, From, Idle
<1>2. x.len - x.len = 0 /\ Len(file) + 0 = Len(file)
  BY <1>1, UploadFacts
<1> QED
  BY <1>1, <1>2 DEF IInv, UploadAgrees

LEMMA PollKeeps == ASSUME IInv, AdioPoll PROVE IInv'
<1>1. /\ x.alive /\ x.monitored /\ UNCHANGED outside /\ x.upload /\ x.connected /\ wire = <<>>
  BY DEF AdioPoll, IInv, FlagsAgree
<1>2. CASE DeleteXfer("FILE_READWRITE")
  BY <1>1, <1>2, ErrorKeeps DEF Errors
<1>3. CASE CompleteXfer
  BY <1>1, <1>3, CompleteKeeps
<1>4. CASE op = "done" /\ op' = Idle /\ UNCHANGED <<x, store, wire, answers, short>>
  <2>1. op' \in OpStates /\ op \in {Idle, "done"} /\ op # Idle
    BY <1>4 DEF OpStates, Idle
  <2>2. TypeOK' /\ FileReleased'
    BY <1>1, <1>4, <2>1 DEF IInv, TypeOK, FileReleased, store, outside
  <2>3. QueriesAgree'
    BY <1>1, <1>4, AnswersKept DEF IInv, QueriesAgree, outside
  <2>4. FlagsAgree' /\ FileAgrees'
    BY <1>1, <1>4, <2>1 DEF IInv, FlagsAgree, FileAgrees, store, outside, Whole, Byte
  <2>5. From' = From
    BY <1>4 DEF From, Idle
  <2>6. UploadAgrees'
    BY <1>1, <1>4, <2>1, <2>5 DEF IInv, UploadAgrees, store, outside, Idle
  <2>7. ReceivedInOrder' /\ DownloadAgrees' /\ SentInOrder'
    BY <1>1, <1>4 DEF IInv, ReceivedInOrder, DownloadAgrees, SentInOrder, store, outside
  <2> QED
    BY <2>2, <2>3, <2>4, <2>6, <2>7 DEF IInv
<1> DEFINE behind == x.ptr - x.len
           b == [i \in 1 .. Buffer |-> IF i <= behind THEN x.buf[x.len + i] ELSE x.buf[i]]
<1>5. CASE /\ op = Idle /\ behind >= x.len /\ op' = "running" /\ UNCHANGED <<store, wire, answers, short>>
           /\ x' = [x EXCEPT !.ptr = behind, !.len = behind - x.len, !.done = 0, !.hasOp = TRUE,
                             !.buf = b, !.restart = @ + (behind - x.len)]
  <2>1. /\ x \in Struct /\ x.hasFile /\ x.len \in 0 .. Buffer /\ x.ptr \in 0 .. Buffer /\ x.len <= x.ptr
        /\ x.buf \in [1 .. Buffer -> 0 .. N] /\ Buffer \in Nat /\ N \in Nat /\ file \in Seq(0 .. N)
        /\ Len(file) \in Nat /\ size = Len(x.crc) /\ size \in 0 .. N /\ x.xfered = size
        /\ size + Len(wire) <= sent /\ options.upload
    BY <1>1, UploadFacts, Sizes
  <2>2. /\ x.restart = Len(file) /\ Len(x.crc) = Len(file) + behind
        /\ \A i \in 1 .. Len(file) : file[i] = x.crc[i]
        /\ \A i \in 1 .. behind : x.buf[x.len + i] = x.crc[Len(file) + i]
    BY <1>1, <1>5, RestFacts
  <2>3. /\ behind \in 0 .. Buffer /\ behind - x.len \in 0 .. Buffer /\ behind - x.len <= behind
        /\ x.len + behind = x.ptr
    BY <1>5, <2>1
  <2>4. x.restart + (behind - x.len) = Len(file) + (behind - x.len)
        /\ x.restart + (behind - x.len) \in 0 .. (N + Buffer)
    <3> HIDE DEF behind, b
    <3> DEFINE more == behind - x.len
               on == Len(file)
    <3>1. on \in Nat /\ behind \in Nat /\ on + behind \in 0 .. N /\ N \in Nat /\ Buffer \in Nat
      BY <2>1, <2>2, <2>3
    <3>2. more \in Nat /\ more <= behind /\ x.restart = on
      BY <2>1, <2>2, <2>3
    <3> HIDE DEF more, on
    <3>3. x.restart + more = on + more /\ x.restart + more \in 0 .. (N + Buffer)
      BY <3>1, <3>2
    <3> QED
      BY <3>3 DEF more, on
  <2>5. b \in [1 .. Buffer -> 0 .. N] /\ \A i \in 1 .. behind : b[i] = x.crc[Len(file) + i]
    <3>1. /\ \A i \in 1 .. Buffer : i <= behind => x.len + i \in 1 .. Buffer
          /\ \A i \in 1 .. behind : i \in 1 .. Buffer /\ i <= behind
      <4>1. x.ptr <= Buffer /\ x.len \in Nat /\ behind \in Nat /\ x.ptr \in Nat
        BY <2>1, <2>3
      <4> HIDE DEF behind, b
      <4> QED
        BY <2>1, <2>3, <4>1, SMTT(30)
    <3> HIDE DEF behind
    <3>2. b \in [1 .. Buffer -> 0 .. N]
      BY <2>1, <3>1
    <3>3. \A i \in 1 .. behind : b[i] = x.buf[x.len + i]
      BY <3>1
    <3> QED
      BY <2>2, <3>2, <3>3
  <2> HIDE DEF behind, b
  <2>6. /\ x' \in Struct /\ x'.ptr = behind /\ x'.len = behind - x.len /\ x'.hasOp /\ x'.buf = b
        /\ x'.restart = x.restart + (behind - x.len)
        /\ x'.passive = x.passive /\ x'.proxied = x.proxied /\ x'.ready = x.ready
        /\ x'.upload = x.upload /\ x'.monitored = x.monitored /\ x'.query = x.query
        /\ x'.hasFile = x.hasFile /\ x'.connected = x.connected
        /\ x'.crc = x.crc /\ x'.xfered = x.xfered
    <3>1. 0 \in 0 .. Buffer
      BY Sizes
    <3> QED
      BY <1>5, <2>1, <2>3, <2>4, <2>5, <3>1 DEF Struct
  <2>7. x'.alive /\ From' = 0 /\ op' \in OpStates /\ op' # Idle /\ op' # "failed"
    BY <1>5, <2>6, StructFields DEF From, OpStates, Idle
  <2>8. TypeOK' /\ FileReleased'
    BY <1>1, <1>5, <2>6, <2>7 DEF IInv, TypeOK, FileReleased, store, outside
  <2>9. QueriesAgree'
    BY <1>1, <1>5, <2>6, <2>7, AnswersKept DEF IInv, QueriesAgree, outside
  <2>10. FlagsAgree' /\ FileAgrees'
    BY <1>1, <1>5, <2>1, <2>6, <2>7, StructFields DEF IInv, FlagsAgree, FileAgrees, store, outside
  <2>11. UploadAgrees'
    <3>1. /\ x'.len - From' = x'.len /\ x'.ptr - From' = behind /\ \A i \in 1 .. behind : From' + i = i
      BY <2>1, <2>3, <2>6, <2>7
    <3>2. file' = file /\ size' = size /\ wire' = wire /\ sent' = sent
      BY <1>1, <1>5 DEF store, outside
    <3>3. x'.restart = Len(file') + (x'.len - From') /\ Len(x'.crc) = Len(file') + (x'.ptr - From')
      BY <2>2, <2>4, <2>6, <3>1, <3>2
    <3>4. \A i \in 1 .. x'.ptr - From' : x'.buf[From' + i] = x'.crc[Len(file') + i]
      BY <2>5, <2>6, <3>1, <3>2
    <3>5. x'.len <= x'.ptr
      BY <2>3, <2>6
    <3> QED
      BY <2>1, <2>2, <2>6, <2>7, <3>2, <3>3, <3>4, <3>5 DEF UploadAgrees
  <2>12. ReceivedInOrder' /\ DownloadAgrees' /\ SentInOrder'
    BY <1>1, <1>5, <2>1, <2>6, <2>7 DEF IInv, ReceivedInOrder, DownloadAgrees, SentInOrder, store, outside
  <2> QED
    BY <2>8, <2>9, <2>10, <2>11, <2>12 DEF IInv
<1>6. \/ DeleteXfer("FILE_READWRITE") \/ CompleteXfer
      \/ op = "done" /\ op' = Idle /\ UNCHANGED <<x, store, wire, answers, short>>
      \/ /\ op = Idle /\ behind >= x.len /\ op' = "running" /\ UNCHANGED <<store, wire, answers, short>>
         /\ x' = [x EXCEPT !.ptr = behind, !.len = behind - x.len, !.done = 0, !.hasOp = TRUE,
                           !.buf = b, !.restart = @ + (behind - x.len)]
  BY DEF AdioPoll, Shifted
<1> QED
  BY <1>2, <1>3, <1>4, <1>5, <1>6
--------------------------------------------------------------------------------
(* process_slave_transfer.                                                 *)

(* Its refusals, with the reference it may forget.                         *)
LEMMA RefusalKeeps ==
    ASSUME IInv, queries < MaxQueries, queries' = queries + 1,
           NEW e \in Errors, answers' = Answer(queries + 1, e),
           x' = Gone, op' = Idle, wire' = <<>>, handles' = handles,
           leaked' = leaked + (IF x.alive /\ x.hasFile THEN 1 ELSE 0),
           options' = options, master' = master,
           \/ UNCHANGED <<peer, sent, got, short>>
           \/ peer' = "absent" /\ sent' = 0 /\ got' = <<>> /\ short' = FALSE,
           UNCHANGED <<mapped, file, size>> \/ (options.upload /\ CreateFile)
    PROVE  IInv'
<1>1. /\ handles \in Nat /\ leaked \in Nat
      /\ handles = leaked + (IF x.alive /\ x.hasFile THEN 1 ELSE 0)
  BY DEF IInv, TypeOK, FileReleased
<1>2. handles' \in Nat /\ leaked' \in Nat /\ FileReleased'
  BY <1>1, GoneIsDead DEF FileReleased
<1> QED
  BY <1>2, RefusedKeeps

(* What every transfer starts from.                                        *)
Starts(passive) ==
    /\ x' \in Struct /\ x'.query = queries + 1 /\ x'.hasFile /\ x'.ready
    /\ x'.upload = options.upload /\ x'.xfered = 0 /\ x'.crc = <<>> /\ x'.ptr = 0 /\ x'.done = 0
    /\ passive => /\ x'.passive = x.passive /\ x'.proxied = x.proxied /\ x'.connected = x.connected
                  /\ x'.monitored = x.monitored
    /\ ~passive => ~x'.passive /\ ~x'.connected /\ ~x'.monitored

LEMMA StartKeeps ==
    ASSUME IInv, NEW passive \in BOOLEAN, passive <=> x.alive, queries < MaxQueries,
           queries' = queries + 1, Starts(passive), answers' = answers, wire' = wire,
           handles' = handles + 1, leaked' = leaked + (IF x.alive /\ x.hasFile THEN 1 ELSE 0),
           options' = options, master' = master,
           IF passive THEN UNCHANGED <<peer, sent, got, short>>
                      ELSE peer' = "absent" /\ sent' = 0 /\ got' = <<>> /\ short' = FALSE,
           mapped' = TRUE, file' \in Seq(0 .. N), size' \in 0 .. N,
           ~options.upload => file' = Whole /\ size' = N,
           op' \in OpStates, op' # Idle => x'.hasOp,
           UploadAgrees', DownloadAgrees'
    PROVE  IInv'
<1>1. /\ handles \in Nat /\ leaked \in Nat /\ queries \in 0 .. MaxQueries /\ wire \in Seq(Byte)
      /\ Len(wire) <= Window /\ options \in [proxy : BOOLEAN, delete : BOOLEAN, upload : BOOLEAN]
      /\ handles = leaked + (IF x.alive /\ x.hasFile THEN 1 ELSE 0)
      /\ master \in BOOLEAN /\ answers \in Seq(AnswerType)
      /\ peer \in {"absent", "open", "closed", "reset"} /\ sent \in 0 .. N /\ got \in Seq(Byte) /\ short \in BOOLEAN
  BY DEF IInv, TypeOK, FileReleased, AnswerType
<1>2. x'.alive /\ queries + 1 \in 1 .. MaxQueries
  BY <1>1, Sizes, StructFields DEF Starts
<1>3. TypeOK'
  <2>1. 0 \in 0 .. N /\ <<>> \in Seq(Byte) /\ handles + 1 \in Nat /\ leaked' \in Nat /\ queries' \in 0 .. MaxQueries
    BY <1>1, <1>2, Sizes
  <2>2. /\ peer' \in {"absent", "open", "closed", "reset"} /\ sent' \in 0 .. N /\ got' \in Seq(Byte)
        /\ short' \in BOOLEAN
    BY <1>1, <2>1
  <2> QED
    BY <1>1, <2>1, <2>2 DEF TypeOK, AnswerType, Starts
<1>4. FileReleased'
  BY <1>1, <1>2 DEF FileReleased, Starts
<1>5. QueriesAgree'
  <2>1. /\ AnsweredOnce' /\ \A i \in DOMAIN answers : answers[i].to <= queries
        /\ \A q : Answered(q)' <=> Answered(q)
    BY AnswersKept DEF IInv, QueriesAgree
  <2>2. \A i \in DOMAIN answers : answers[i].to \in 0 .. MaxQueries
    <3> TAKE i \in DOMAIN answers
    <3>1. answers[i] \in AnswerType
      BY <1>1, LenProperties, ElementOfSeq
    <3> QED
      BY <3>1 DEF AnswerType
  <2>3. \A i \in DOMAIN answers : answers[i].to <= queries + 1 /\ answers[i].to # queries + 1
    BY <1>1, <2>1, <2>2, Sizes
  <2>4. \A i \in DOMAIN answers' : answers'[i].to # x'.query
    BY <2>3 DEF Starts
  <2>5. x'.passive /\ x'.proxied => ~Answered(0)'
    BY <2>1 DEF IInv, QueriesAgree, Starts
  <2>6. x'.query <= queries' /\ (x'.query # 0 => ~Answered(x.query)')
    <3>1. x'.query = queries + 1 /\ queries' = queries + 1 /\ queries + 1 <= queries + 1
      BY <1>1 DEF Starts
    <3> QED
      BY <2>4, <3>1 DEF Answered
  <2> QED
    BY <2>1, <2>3, <2>5, <2>6 DEF QueriesAgree, Answered
<1>6. wire = <<>> \/ passive
  BY DEF IInv, FlagsAgree
<1>7. FlagsAgree'
  <2>1. x'.query # 0
    BY <1>1, <1>2, Sizes DEF Starts
  <2>2. x'.monitored => x'.connected /\ options.upload /\ wire = <<>>
    BY XferTyped, StructFields DEF IInv, FlagsAgree, Starts
  <2> QED
    BY <1>2, <2>1, <2>2 DEF FlagsAgree, Starts
<1>8. FileAgrees'
  <2>1. Len(<<>>) = 0 /\ queries' # 0
    BY <1>1, <1>2
  <2>2. options.upload => Len(wire') <= sent'
    BY <1>6, <2>1 DEF IInv, FileAgrees
  <2>3. peer' = "absent" => sent' = 0 /\ wire' = <<>>
    BY <1>6 DEF IInv, FileAgrees
  <2> QED
    BY <1>2, <2>1, <2>2, <2>3 DEF FileAgrees, Starts, Whole, Byte
<1>9. ASSUME passive, leaked' = 0 PROVE x.alive /\ ~x.hasFile /\ leaked = 0 /\ queries = 0 /\ x.crc = <<>>
  <2>1. x.alive /\ ~x.hasFile /\ leaked = 0
    BY <1>1, <1>9
  <2> QED
    BY <2>1 DEF IInv, FlagsAgree
<1>10. ReceivedInOrder'
  <2>1. SUFFICES ASSUME options.upload, x'.connected, leaked' = 0 PROVE ReceivedInOrder'
    BY DEF ReceivedInOrder
  <2>2. passive /\ x.connected /\ x'.crc = <<>> /\ sent' = sent
    BY <2>1 DEF Starts
  <2>3. x.alive /\ leaked = 0 /\ x.crc = <<>>
    BY <1>9, <2>1, <2>2
  <2> QED
    BY <2>1, <2>2, <2>3 DEF IInv, ReceivedInOrder
<1>11. SentInOrder'
  <2>1. SUFFICES ASSUME ~options.upload, leaked' = 0 PROVE SentInOrder'
    BY DEF SentInOrder
  <2>2. wire' = <<>> /\ got' = <<>> /\ x'.crc = <<>> /\ Len(<<>>) = 0
    BY <1>6, <1>9, <2>1 DEF IInv, FileAgrees, Starts
  <2> QED
    BY <2>2 DEF SentInOrder
<1> QED
  BY <1>3, <1>4, <1>5, <1>7, <1>8, <1>10, <1>11 DEF IInv
LEMMA TransferKeeps ==
    ASSUME IInv, NEW passive \in BOOLEAN, NEW restart \in 0 .. N,
           ProcessTransfer(passive, options.upload, restart)
    PROVE  IInv'
<1> DEFINE q == queries + 1
           upload == options.upload
           base == IF passive THEN x ELSE NewXfer(FALSE, options.proxy)
           buf == [i \in 1 .. Buffer |-> 0]
           y == [base EXCEPT !.upload = upload, !.restart = IF upload THEN 0 ELSE restart,
                 !.query = q, !.ready = TRUE, !.xfered = 0, !.crc = <<>>,
                 !.hasFile = FALSE, !.hasOp = FALSE, !.ptr = 0, !.len = 0, !.done = 0,
                 !.buf = buf]
           forgotten == IF x.alive /\ x.hasFile THEN 1 ELSE 0
           Refuse(error) == /\ x' = Gone /\ op' = Idle /\ wire' = <<>>
                            /\ answers' = Answer(q, error)
           Refused == /\ \E e \in Errors : Refuse(e)
                      /\ handles' = handles
                      /\ \/ UNCHANGED <<mapped, file, size>>
                         \/ upload /\ CreateFile
                         \/ ~upload /\ mapped /\ UNCHANGED <<mapped, file>> /\ size' = Len(file)
           z == [y EXCEPT !.hasFile = TRUE]
           Took == /\ upload /\ CreateFile
                   /\ handles' = handles + 1 /\ op' = Idle /\ x' = z /\ UNCHANGED <<wire, answers>>
           Sends == /\ ~upload /\ mapped /\ UNCHANGED <<mapped, file>> /\ size' = Len(file)
                    /\ handles' = handles + 1 /\ op' = "running" /\ x' = FirstRead(z)
                    /\ UNCHANGED <<wire, answers>>
<1>1. /\ queries < MaxQueries /\ queries' = q /\ options' = options /\ master' = master
      /\ IF passive \/ x.alive THEN UNCHANGED <<peer, sent, got, short>>
         ELSE peer' = "absent" /\ sent' = 0 /\ got' = <<>> /\ short' = FALSE
  BY DEF ProcessTransfer
<1>2. upload \in BOOLEAN /\ options.proxy \in BOOLEAN /\ queries \in 0 .. MaxQueries /\ file \in Seq(0 .. N)
  BY DEF IInv, TypeOK
<1>3. \/ /\ passive /\ ~x.alive /\ answers' = Answer(q, "FAILURE") /\ UNCHANGED <<x, op, wire, store>>
      \/ /\ ~passive /\ x.alive /\ XferDestroy /\ answers' = Answer(q, "FAILURE")
         /\ UNCHANGED <<mapped, file, size, leaked>>
      \/ /\ passive <=> x.alive
         /\ leaked' = leaked + forgotten
         /\ Refused \/ Took \/ Sends
  <2>1. "FILE_NOTFOUND" \in Errors /\ "FILE_NODISK" \in Errors /\ "FILE_OPEN" \in Errors
    BY DEF Errors
  <2> DEFINE R1 == ~upload /\ ~mapped /\ Refuse("FILE_NOTFOUND") /\ UNCHANGED <<mapped, file, size, handles>>
             R2 == upload /\ Refuse("FILE_NODISK") /\ UNCHANGED <<mapped, file, size, handles>>
             R3 == upload /\ CreateFile /\ Refuse("FILE_OPEN") /\ UNCHANGED handles
             R4 == /\ ~upload /\ mapped /\ UNCHANGED <<mapped, file>> /\ size' = Len(file)
                   /\ Refuse("FILE_OPEN") /\ UNCHANGED handles
  <2>2. \/ /\ passive /\ ~x.alive /\ answers' = Answer(q, "FAILURE") /\ UNCHANGED <<x, op, wire, store>>
        \/ /\ ~passive /\ x.alive /\ XferDestroy /\ answers' = Answer(q, "FAILURE")
           /\ UNCHANGED <<mapped, file, size, leaked>>
        \/ /\ passive <=> x.alive
           /\ leaked' = leaked + forgotten
           /\ R1 \/ R2 \/ R3 \/ R4 \/ Took \/ Sends
    BY DEF ProcessTransfer
  <2>3. R1 \/ R2 \/ R3 \/ R4 => Refused
    BY <2>1
  <2> HIDE DEF R1, R2, R3, R4, Took, Sends, Refused, forgotten
  <2> QED
    BY <2>2, <2>3
<1>4. CASE passive /\ ~x.alive /\ answers' = Answer(q, "FAILURE") /\ UNCHANGED <<x, op, wire, store>>
  <2>1. x' = Gone /\ op' = Idle /\ wire' = <<>>
    BY <1>4, XferTyped DEF IInv, FlagsAgree
  <2>2. leaked \in Nat /\ leaked' = leaked /\ handles' = handles /\ UNCHANGED <<mapped, file, size>>
    BY <1>4 DEF IInv, TypeOK, store
  <2>3. leaked' = leaked + (IF x.alive /\ x.hasFile THEN 1 ELSE 0)
    BY <1>4, <2>2
  <2>4. UNCHANGED <<peer, sent, got, short>> /\ "FAILURE" \in Errors
    BY <1>1, <1>4 DEF Errors
  <2> QED
    BY <1>1, <1>4, <2>1, <2>2, <2>3, <2>4, RefusalKeeps
<1>5. CASE /\ ~passive /\ x.alive /\ XferDestroy /\ answers' = Answer(q, "FAILURE")
           /\ UNCHANGED <<mapped, file, size, leaked>>
  <2>1. x' = Gone /\ op' = Idle /\ wire' = <<>>
    BY <1>5 DEF XferDestroy
  <2>2. handles' \in Nat /\ FileReleased' /\ leaked' \in Nat
    BY <1>5, DestroyReleases DEF IInv, TypeOK
  <2>3. UNCHANGED <<peer, sent, got, short>> /\ "FAILURE" \in Errors
    BY <1>1, <1>5 DEF Errors
  <2> QED
    BY <1>1, <1>5, <2>1, <2>2, <2>3, RefusedKeeps
<1>6. CASE (passive <=> x.alive) /\ leaked' = leaked + forgotten /\ Refused
  <2>1. PICK e \in Errors : Refuse(e)
    BY <1>6
  <2>2. UNCHANGED <<mapped, file, size>> \/ (options.upload /\ CreateFile)
    <3>1. ASSUME ~upload, mapped PROVE size = Len(file)
      BY <3>1, Sizes DEF IInv, FileAgrees, Whole, Byte
    <3> QED
      BY <1>6, <3>1
  <2>3. \/ UNCHANGED <<peer, sent, got, short>>
        \/ peer' = "absent" /\ sent' = 0 /\ got' = <<>> /\ short' = FALSE
    BY <1>1
  <2> QED
    BY <1>1, <1>6, <2>1, <2>2, <2>3, RefusalKeeps
<1>7. SUFFICES ASSUME passive <=> x.alive, leaked' = leaked + forgotten, Took \/ Sends
               PROVE  IInv'
  BY <1>3, <1>4, <1>5, <1>6
<1>8. /\ base \in Struct
      /\ passive => base = x
      /\ ~passive => ~base.passive /\ ~base.connected /\ ~base.monitored
  BY <1>2, <1>7, XferTyped, NewStruct DEF IInv
<1>9. buf \in [1 .. Buffer -> 0 .. N] /\ q \in 0 .. MaxQueries /\ q # 0 /\ <<>> \in Seq(Byte)
      /\ 0 \in 0 .. Buffer /\ 0 \in 0 .. N /\ 0 \in 0 .. (N + Buffer) /\ restart \in 0 .. (N + Buffer)
  BY <1>1, <1>2, Sizes
<1> HIDE DEF base, buf, q
<1>10. /\ z \in Struct /\ z.query = q /\ z.hasFile /\ z.ready /\ z.upload = upload
       /\ z.xfered = 0 /\ z.crc = <<>> /\ z.ptr = 0 /\ z.done = 0 /\ z.len = 0
       /\ z.restart = (IF upload THEN 0 ELSE restart)
       /\ z.passive = base.passive /\ z.proxied = base.proxied /\ z.connected = base.connected
       /\ z.monitored = base.monitored
  BY <1>2, <1>8, <1>9, ZenonT(40) DEF Struct
<1> HIDE DEF z
<1>11. Len(<<>>) = 0 /\ <<>> \in Seq(0 .. N)
  OBVIOUS
<1>12. IF passive THEN UNCHANGED <<peer, sent, got, short>>
       ELSE peer' = "absent" /\ sent' = 0 /\ got' = <<>> /\ short' = FALSE
  BY <1>1, <1>7
<1>13. CASE Took
  <2>1. upload /\ mapped' = TRUE /\ file' = <<>> /\ size' = 0 /\ op' = Idle /\ x' = z
        /\ UNCHANGED <<wire, answers>> /\ handles' = handles + 1
    BY <1>13 DEF CreateFile
  <2>2. Starts(passive)
    BY <1>8, <1>10, <2>1 DEF Starts, q
  <2>3. Len(wire) <= sent'
    <3>1. CASE passive
      BY <1>12, <2>1, <3>1 DEF IInv, FileAgrees
    <3>2. CASE ~passive
      BY <1>7, <1>11, <1>12, <3>2 DEF IInv, FlagsAgree
    <3> QED
      BY <3>1, <3>2
  <2>4. UploadAgrees'
    <3>1. /\ x'.len = 0 /\ x'.ptr = 0 /\ x'.xfered = 0 /\ x'.restart = 0 /\ x'.crc = <<>>
          /\ file' = <<>> /\ size' = 0
      BY <1>10, <2>1
    <3>2. From' = 0
      BY <3>1 DEF From
    <3>3. Len(wire') \in Nat /\ size' + Len(wire') <= sent'
      BY <2>1, <2>3, <3>1, LenProperties DEF IInv, TypeOK
    <3> QED
      BY <1>11, <3>1, <3>2, <3>3 DEF UploadAgrees
  <2>5. DownloadAgrees'
    BY <1>10, <2>1 DEF DownloadAgrees
  <2>6. op' \in OpStates /\ (op' # Idle => x'.hasOp) /\ file' \in Seq(0 .. N) /\ size' \in 0 .. N
    BY <1>9, <1>11, <2>1 DEF OpStates
  <2> QED
    BY <1>1, <1>7, <1>12, <2>1, <2>2, <2>4, <2>5, <2>6, StartKeeps DEF q
<1>14. CASE Sends
  <2>1. /\ ~upload /\ mapped /\ mapped' = TRUE /\ file' = file /\ size' = Len(file) /\ op' = "running"
        /\ UNCHANGED <<wire, answers>> /\ handles' = handles + 1
    BY <1>14
  <2>2. file' = Whole /\ size' = N
    BY <2>1, Sizes DEF IInv, FileAgrees, Whole, Byte
  <2> DEFINE n == IF Buffer > N THEN N ELSE Buffer
  <2>3. n \in 0 .. Buffer /\ restart + n \in 0 .. (N + Buffer) /\ n <= restart + n
    BY Sizes
  <2>4. x' = [z EXCEPT !.hasOp = TRUE, !.len = n, !.restart = restart + n]
    BY <1>10, <1>14, <2>1, <2>2 DEF FirstRead
  <2> HIDE DEF n
  <2>5. /\ x' \in Struct /\ x'.hasOp /\ x'.len = n /\ x'.restart = restart + n
        /\ x'.query = q /\ x'.hasFile /\ x'.ready /\ x'.upload = upload
        /\ x'.xfered = 0 /\ x'.crc = <<>> /\ x'.ptr = 0 /\ x'.done = 0
        /\ x'.passive = base.passive /\ x'.proxied = base.proxied /\ x'.connected = base.connected
        /\ x'.monitored = base.monitored
    BY <1>10, <2>3, <2>4 DEF Struct
  <2>6. Starts(passive)
    BY <1>8, <2>5 DEF Starts, q
  <2>7. UploadAgrees'
    BY <2>1, <2>5 DEF UploadAgrees
  <2>8. op' # Idle /\ op' # "done" /\ op' \in OpStates
    BY <2>1 DEF OpStates, Idle
  <2>9. DownloadAgrees'
    <3>1. 0 + x'.len <= x'.restart /\ x'.len <= x'.restart
      BY <2>3, <2>5
    <3> QED
      BY <1>11, <2>5, <2>8, <3>1 DEF DownloadAgrees
  <2>10. file' \in Seq(0 .. N) /\ size' \in 0 .. N
    BY <1>2, <2>1, <2>2, Sizes
  <2> QED
    BY <1>1, <1>7, <1>12, <2>1, <2>2, <2>5, <2>6, <2>7, <2>8, <2>9, <2>10, StartKeeps DEF q
<1> QED
  BY <1>7, <1>13, <1>14
--------------------------------------------------------------------------------
(* The invariant is inductive.                                             *)
LEMMA InitialInv == Init => IInv
<1> SUFFICES ASSUME Init PROVE IInv
  OBVIOUS
<1>1. /\ x = Gone /\ options \in [proxy : BOOLEAN, delete : BOOLEAN, upload : BOOLEAN]
      /\ handles = 0 /\ leaked = 0 /\ op = Idle /\ wire = <<>> /\ sent = 0 /\ got = <<>>
      /\ peer = "absent" /\ master = TRUE /\ queries = 0 /\ answers = <<>> /\ short = FALSE
  BY DEF Init
<1>2. /\ Len(<<>>) = 0 /\ <<>> \in Seq(Byte) /\ <<>> \in Seq(0 .. N) /\ <<>> \in Seq(AnswerType)
      /\ DOMAIN <<>> = {} /\ 0 \in Nat /\ 0 \in 0 .. N /\ N \in 0 .. N /\ 0 \in 0 .. MaxQueries
  BY Sizes
<1>3. Whole \in Seq(0 .. N)
  <2>1. Whole \in [1 .. N -> 0 .. N] /\ N \in Nat
    BY Sizes DEF Whole, Byte
  <2> QED
    BY <2>1, SeqDef
<1>4. mapped \in BOOLEAN /\ file \in Seq(0 .. N) /\ size \in 0 .. N
  BY <1>2, <1>3 DEF Init
<1>5. TypeOK
  <2>1. 0 <= Window
    BY Sizes
  <2> QED
    BY <1>1, <1>2, <1>4, <2>1 DEF TypeOK, AnswerType, OpStates
<1>6. FileReleased
  BY <1>1, GoneIsDead DEF FileReleased
<1>7. QueriesAgree
  BY <1>1, <1>2, GoneIsDead DEF QueriesAgree, AnsweredOnce
<1>8. FileAgrees
  BY <1>1, <1>2, GoneIsDead DEF FileAgrees, Init, Whole, Byte
<1>9. FlagsAgree /\ UploadAgrees /\ ReceivedInOrder /\ DownloadAgrees /\ SentInOrder
  BY <1>1, GoneIsDead DEF FlagsAgree, UploadAgrees, ReceivedInOrder, DownloadAgrees, SentInOrder
<1> QED
  BY <1>5, <1>6, <1>7, <1>8, <1>9 DEF IInv

LEMMA StutterKeeps == ASSUME IInv, UNCHANGED vars PROVE IInv'
<1>1. UNCHANGED <<x, options, mapped, file, size, handles, leaked, op, wire, sent, got,
                  peer, master, queries, answers, short>>
  BY DEF vars
<1>2. TypeOK' /\ FileReleased'
  BY <1>1 DEF IInv, TypeOK, FileReleased
<1>3. QueriesAgree'
  BY <1>1, AnswersKept DEF IInv, QueriesAgree
<1>4. FlagsAgree' /\ FileAgrees'
  BY <1>1 DEF IInv, FlagsAgree, FileAgrees
<1>5. From' = From /\ At' = At
  BY <1>1 DEF From, At
<1>6. UploadAgrees' /\ ReceivedInOrder' /\ DownloadAgrees' /\ SentInOrder'
  BY <1>1, <1>5 DEF IInv, UploadAgrees, ReceivedInOrder, DownloadAgrees, SentInOrder
<1> QED
  BY <1>2, <1>3, <1>4, <1>6 DEF IInv

LEMMA StepKeeps == ASSUME IInv, [Next]_vars PROVE IInv'
<1>1. CASE Master
  BY <1>1, ListenKeeps, DeleteQueryKeeps, MasterLostKeeps, TransferKeeps DEF Master
<1>2. CASE Socket
  BY <1>2, ConnectKeeps, ProxyKeeps, ReadKeeps, WriteKeeps, CloseKeeps, TimeoutKeeps DEF Socket
<1>3. CASE Timeout
  BY <1>3, TimeoutKeeps
<1>4. CASE Peer
  BY <1>4, PeerSendsKeeps, PeerReceivesKeeps, PeerClosesKeeps DEF Peer
<1>5. CASE AdioPoll \/ DiskReads \/ DiskWrites \/ DiskFails
  BY <1>5, PollKeeps, DiskReadsKeeps, DiskWritesKeeps, DiskFailsKeeps
<1>6. CASE UNCHANGED vars
  BY <1>6, StutterKeeps
<1> QED
  BY <1>1, <1>2, <1>3, <1>4, <1>5, <1>6 DEF Next

LEMMA AlwaysIInv == Spec => []IInv
<1>1. IInv /\ [Next]_vars => IInv'
  BY StepKeeps
<1> QED
  BY InitialInv, <1>1, PTL DEF Spec

--------------------------------------------------------------------------------
(* The theorems.                                                           *)

(* The offsets of the buffer stay in it, a file is closed with its last    *)
(* transfer whichever way out of it is taken (xfer_obj_destroy), and a     *)
(* query is answered at most once, with success or one error.              *)
THEOREM HandlesAndAnswersAgree == Spec => []TransferAgrees
<1>1. IInv => TransferAgrees
  BY DEF IInv, TransferAgrees, QueriesAgree
<1> QED
  BY <1>1, AlwaysIInv, PTL

(* What a download has sent is the file without gap from the restart on,   *)
(* and to its end once it is shut down (xfer_write and its three offsets). *)
THEOREM DownloadsAreInOrder == Spec => []DownloadInOrder
<1>1. ASSUME IInv PROVE DownloadInOrder
  <2> SUFFICES ASSUME x.alive, x.hasFile, ~x.upload, leaked = 0, ~short
               PROVE  /\ got \o wire = x.crc \/ peer # "open"
                      /\ InOrder(x.crc)
                      /\ (x.completed /\ x.crc # <<>>) => Last(x.crc) = N
    BY DEF DownloadInOrder
  <2>1. /\ x \in Struct /\ ~options.upload /\ x.crc \in Seq(Byte) /\ Len(x.crc) \in Nat
        /\ x.restart \in Nat /\ x.len \in Nat /\ N \in Nat
    <3>1. x \in Struct /\ options.upload \in BOOLEAN
      BY <1>1, XferTyped DEF IInv, TypeOK
    <3> QED
      BY <1>1, <3>1, StructFields, LenProperties, Sizes DEF IInv, FlagsAgree
  <2>2. \A i \in 1 .. Len(x.crc) : x.crc[i] = At - Len(x.crc) + i
    BY <1>1 DEF IInv, DownloadAgrees
  <2>3. At \in Int /\ (x.completed => At = N)
    BY <2>1 DEF At
  <2> DEFINE c == Len(x.crc)  s == x.crc
  <2>4. InOrder(x.crc)
    <3>1. /\ c \in Nat /\ At \in Int /\ c = Len(s)
          /\ \A i \in 1 .. c : s[i] = At - c + i
      BY <2>1, <2>2, <2>3
    <3> HIDE DEF c, s
    <3>2. ASSUME NEW i \in 1 .. c - 1 PROVE s[i + 1] = s[i] + 1
      <4>1. i \in 1 .. c /\ i + 1 \in 1 .. c
        BY <3>1
      <4>2. s[i] = At - c + i /\ s[i + 1] = At - c + (i + 1)
        BY <3>1, <4>1
      <4> QED
        BY <3>1, <4>2
    <3> QED
      BY <3>1, <3>2 DEF InOrder, s
  <2>5. (x.completed /\ x.crc # <<>>) => Last(x.crc) = N
    <3> SUFFICES ASSUME x.completed, x.crc # <<>> PROVE Last(x.crc) = N
      OBVIOUS
    <3>1. c \in 1 .. c /\ N - c + c = N
      BY <2>1, EmptySeq
    <3> QED
      BY <2>2, <2>3, <3>1 DEF Last
  <2>6. got \o wire = x.crc
    <3>1. /\ Len(x.crc) = Len(got) + Len(wire)
          /\ \A i \in 1 .. Len(got) : got[i] = x.crc[i]
          /\ \A i \in 1 .. Len(wire) : wire[i] = x.crc[Len(got) + i]
      BY <1>1, <2>1 DEF IInv, SentInOrder
    <3>2. got \in Seq(Byte) /\ wire \in Seq(Byte) /\ Len(got) \in Nat /\ Len(wire) \in Nat
      BY <1>1, LenProperties DEF IInv, TypeOK
    <3> DEFINE r == got \o wire  g == Len(got)  w == Len(wire)
    <3>3. r \in Seq(Byte) /\ Joined(got, wire, r)
      BY <3>2, ConcatJoins
    <3>4. /\ Len(r) = g + w /\ g \in Nat /\ w \in Nat
          /\ \A i \in 1 .. g : r[i] = got[i]
          /\ \A i \in 1 .. w : r[g + i] = wire[i]
          /\ Len(x.crc) = g + w
          /\ \A i \in 1 .. g : got[i] = x.crc[i]
          /\ \A i \in 1 .. w : wire[i] = x.crc[g + i]
      BY <3>1, <3>2, <3>3 DEF Joined
    <3> HIDE DEF r, g, w
    <3>5. ASSUME NEW i \in 1 .. Len(r) PROVE r[i] = x.crc[i]
      <4>1. CASE i \in 1 .. g
        BY <3>4, <4>1
      <4>2. CASE i \notin 1 .. g
        <5>1. i - g \in 1 .. w /\ g + (i - g) = i
          BY <3>4, <4>2
        <5>2. r[g + (i - g)] = wire[i - g] /\ wire[i - g] = x.crc[g + (i - g)]
          BY <3>4, <5>1
        <5> QED
          BY <5>1, <5>2
      <4> QED
        BY <4>1, <4>2
    <3>6. r = x.crc
      BY <2>1, <3>3, <3>4, <3>5, SeqEqual
    <3> QED
      BY <3>6 DEF r
  <2> QED
    BY <2>4, <2>5, <2>6
<1> QED
  BY <1>1, AlwaysIInv, PTL
(* The ways an upload ends: all but the second and the last leave what     *)
(* queries came as it was.                                                 *)
LEMMA WaysOut ==
    ASSUME IInv, Next, x.alive, ~x'.alive, x.upload
    PROVE  \/ \E e \in Errors : DeleteXfer(e)
           \/ CompleteXfer /\ UNCHANGED outside /\ op \in {Idle, "done"} /\ x.ptr - x.len = 0 /\ x.monitored
           \/ ProcessDelete \/ MasterLost
           \/ \E passive \in BOOLEAN, restart \in 0 .. N : ProcessTransfer(passive, options.upload, restart)
<1>1. x \in Struct /\ x.hasFile /\ options.upload /\ x.query # 0
  BY UploadFacts
<1>3. CASE Master
  BY <1>3 DEF Master, ProcessListen
<1>4. CASE Socket
  <2>1. \A e : e \in {"FAILURE", "PROXY_GARBAGE", "FILE_READWRITE", "CNX_ERROR"} => e \in Errors
    BY DEF Errors
  <2>2. CASE XferConnect
    <3>1. x' = [x EXCEPT !.connected = TRUE] => x'.alive
      BY <1>1 DEF Struct
    <3> QED
      BY <2>1, <2>2, <3>1 DEF XferConnect
  <2>3. CASE ProxyReply
    <3>1. x' = [x EXCEPT !.proxied = FALSE] => x'.alive
      BY <1>1 DEF Struct
    <3> QED
      BY <2>1, <2>3, <3>1 DEF ProxyReply
  <2>4. CASE XferWrite
    BY <2>4 DEF XferWrite
  <2>5. CASE XferClose
    <3>1. x' = [x EXCEPT !.monitored = TRUE]
      BY <2>5 DEF XferClose, MonitorAdio
    <3> QED
      BY <1>1, <3>1 DEF Struct
  <2>6. CASE XferError
    BY <2>1, <2>6 DEF XferError
  <2>7. CASE XferRead
    <3>1. CASE op = "failed"
      BY <2>1, <2>7, <3>1 DEF XferRead
    <3>2. CASE op # "failed"
      <4>1. Probed \in Struct
        BY <2>7, <3>2, ProbedFacts DEF XferRead, Open
      <4>2. \A b, p, f, c, l, r :
               /\ [Probed EXCEPT !.buf = b, !.ptr = p, !.xfered = f, !.crc = c].alive
               /\ [[Probed EXCEPT !.buf = b, !.ptr = p, !.xfered = f, !.crc = c]
                     EXCEPT !.hasOp = TRUE, !.done = 0, !.len = l, !.restart = r].alive
        BY <4>1 DEF Struct
      <4> DEFINE room == Buffer - Probed.ptr
                 n == IF Len(wire) < room THEN Len(wire) ELSE room
                 bytes == SubSeq(wire, 1, n)
                 b == [i \in 1 .. Buffer |-> IF i > Probed.ptr /\ i <= Probed.ptr + n
                                             THEN bytes[i - Probed.ptr] ELSE Probed.buf[i]]
                 filled == [Probed EXCEPT !.buf = b, !.ptr = Probed.ptr + n,
                                          !.xfered = Probed.xfered + n, !.crc = Probed.crc \o bytes]
      <4>3. \/ x' = filled
            \/ x' = [filled EXCEPT !.hasOp = TRUE, !.done = 0,
                                   !.len = filled.ptr, !.restart = filled.restart + filled.ptr]
        BY <2>7, <3>2 DEF XferRead
      <4> HIDE DEF n, bytes, b
      <4>4. x'.alive
        BY <4>2, <4>3
      <4> QED
        BY <4>4
    <3> QED
      BY <3>1, <3>2
  <2> QED
    BY <1>4, <2>2, <2>3, <2>4, <2>5, <2>6, <2>7 DEF Socket
<1>5. CASE Timeout
  BY <1>5 DEF Timeout, XferConnectTimeout, XferTimeout, Errors
<1>6. CASE Peer
  BY <1>6 DEF Peer, PeerSends, PeerReceives, PeerCloses, PeerResets
<1>7. CASE AdioPoll
  <2>1. \A p, l, b, r : [x EXCEPT !.ptr = p, !.len = l, !.done = 0, !.hasOp = TRUE, !.buf = b, !.restart = r].alive
    BY <1>1 DEF Struct
  <2>2. "FILE_READWRITE" \in Errors /\ (op # Idle => x.hasOp)
    BY DEF Errors, IInv, FlagsAgree
  <2> DEFINE behind == x.ptr - x.len
             moved == [x EXCEPT !.ptr = behind, !.len = behind - x.len, !.done = 0, !.hasOp = TRUE,
                                !.buf = Shifted(behind, x.len), !.restart = x.restart + (behind - x.len)]
  <2>3. /\ UNCHANGED outside /\ x.monitored
        /\ \/ x' = moved
           \/ DeleteXfer("FILE_READWRITE")
           \/ behind = 0 /\ ~x.hasOp /\ CompleteXfer
           \/ op \in {Idle, "done"} /\ behind = 0 /\ CompleteXfer
           \/ UNCHANGED x
    BY <1>7 DEF AdioPoll
  <2>4. x' # moved
    BY <2>1
  <2> HIDE DEF moved
  <2>5. op = Idle \/ x.hasOp
    BY <2>2
  <2> QED
    BY <2>2, <2>3, <2>4, <2>5
<1>8. CASE DiskReads \/ DiskWrites \/ DiskFails
  <2>1. \A b : [x EXCEPT !.buf = b].alive
    BY <1>1 DEF Struct
  <2> QED
    BY <1>8, <2>1 DEF DiskReads, DiskWrites, DiskFails
<1> QED
  BY <1>3, <1>4, <1>5, <1>6, <1>7, <1>8 DEF Next

(* A TRANSFER query that ends the transfer it found is answered an error.  *)
LEMMA TransferEnds ==
    ASSUME IInv, x.alive, ~x'.alive, NEW passive \in BOOLEAN, NEW restart \in 0 .. N,
           ProcessTransfer(passive, options.upload, restart)
    PROVE  /\ queries < MaxQueries /\ queries' = queries + 1
           /\ \E e \in Errors : answers' = Answer(queries + 1, e)
<1> DEFINE q == queries + 1
           upload == options.upload
           base == IF passive THEN x ELSE NewXfer(FALSE, options.proxy)
           buf == [i \in 1 .. Buffer |-> 0]
           y == [base EXCEPT !.upload = upload, !.restart = IF upload THEN 0 ELSE restart,
                 !.query = q, !.ready = TRUE, !.xfered = 0, !.crc = <<>>,
                 !.hasFile = FALSE, !.hasOp = FALSE, !.ptr = 0, !.len = 0, !.done = 0,
                 !.buf = buf]
           z == [y EXCEPT !.hasFile = TRUE]
           Says(error) == answers' = Answer(q, error)
<1>1. /\ queries < MaxQueries /\ queries' = q
      /\ \/ Says("FAILURE") \/ Says("FILE_NOTFOUND") \/ Says("FILE_NODISK") \/ Says("FILE_OPEN")
         \/ (passive <=> x.alive) /\ (x' = z \/ x' = FirstRead(z))
  BY DEF ProcessTransfer
<1>2. {"FAILURE", "FILE_NOTFOUND", "FILE_NODISK", "FILE_OPEN"} \subseteq Errors
  BY DEF Errors
<1>3. ASSUME passive <=> x.alive, x' = z \/ x' = FirstRead(z) PROVE FALSE
  <2>1. base = x /\ x \in Struct
    BY <1>3, XferTyped DEF IInv
  <2> HIDE DEF base, buf
  <2>2. z.alive /\ DOMAIN z = DOMAIN x
    BY <2>1 DEF Struct
  <2> HIDE DEF z
  <2>3. "alive" \in DOMAIN z
    BY <2>1, <2>2 DEF Struct
  <2>4. FirstRead(z).alive
    BY <2>2, <2>3 DEF FirstRead
  <2> QED
    BY <1>3, <2>2, <2>4
<1> HIDE DEF z, q
<1> QED
  BY <1>1, <1>2, <1>3 DEF q

(* An upload that is told to be complete is on the disk, whole and as it   *)
(* was sent (fsd.c:1540: the last buffer is written after the peer has     *)
(* gone); one that ends otherwise leaves nothing there (fsd.c:1233).       *)
THEOREM UploadsAreWholeOrGone == Spec => UploadWholeOrGone
<1> DEFINE Good ==
      (x.alive /\ ~x'.alive /\ x.upload) =>
          IF Completes
            THEN /\ file' = Last(answers').crc /\ Len(file') = Last(answers').size
                 /\ leaked = 0 => file' = SubSeq(Whole, 1, sent)
            ELSE options.delete /\ queries' = queries => ~mapped' /\ file' = <<>>
<1>1. ASSUME IInv, Next PROVE Good
  <2> SUFFICES ASSUME x.alive, ~x'.alive, x.upload PROVE Good
    OBVIOUS
  <2>1. /\ x \in Struct /\ x.hasFile /\ options.upload /\ x.query # 0 /\ x.query \in 0 .. MaxQueries
        /\ answers \in Seq(AnswerType) /\ AnsweredOnce /\ ~Answered(x.query) /\ queries \in 0 .. MaxQueries
    BY <1>1, UploadFacts, StructFields DEF IInv, TypeOK, AnswerType, QueriesAgree
  <2>2. \A e : e \in Errors => e # "TRANSFERED"
    BY DEF Errors
  <2>3. ASSUME NEW e \in Errors, answers' = Answer(x.query, e)
        PROVE  ~Completes
    <3> DEFINE a == [to |-> x.query, type |-> e, size |-> 0, crc |-> <<>>]
    <3>1. a \in AnswerType /\ a.to = x.query /\ a.type = e
      BY <2>1, Sizes DEF AnswerType
    <3>2. answers' = Append(answers, a)
      BY <2>3 DEF Answer
    <3> HIDE DEF a
    <3>3. Last(answers') = a
      BY <2>1, <3>1, <3>2, OneMore
    <3> QED
      BY <2>2, <3>1, <3>3 DEF Completes
  <2>4. CASE \E e \in Errors : DeleteXfer(e)
    <3>1. PICK e \in Errors : DeleteXfer(e)
      BY <2>4
    <3>2. ~Completes
      BY <2>1, <2>3, <3>1 DEF DeleteXfer
    <3> QED
      BY <2>1, <3>1, <3>2 DEF DeleteXfer, Unmap
  <2>5. CASE /\ CompleteXfer /\ UNCHANGED outside /\ op \in {Idle, "done"} /\ x.ptr - x.len = 0
             /\ x.monitored
    <3> DEFINE a == [to |-> x.query, type |-> "TRANSFERED", size |-> size, crc |-> x.crc]
    <3>1. x.crc \in Seq(Byte) /\ size \in 0 .. N /\ size = Len(x.crc) /\ file \in Seq(0 .. N) /\ sent \in 0 .. N
          /\ Len(file) \in Nat
      BY <1>1, UploadFacts
    <3>2. a \in AnswerType /\ a.to = x.query /\ a.type = "TRANSFERED" /\ a.size = size /\ a.crc = x.crc
      BY <2>1, <3>1 DEF AnswerType
    <3>3. answers' = Append(answers, a) /\ file' = file
      BY <2>1, <2>5 DEF CompleteXfer
    <3> HIDE DEF a
    <3>4. answers' # answers /\ Last(answers') = a
      BY <2>1, <3>2, <3>3, OneMore
    <3>5. Completes
      BY <3>2, <3>4 DEF Completes
    <3>6. /\ wire = <<>> /\ Len(x.crc) = Len(file) /\ x.connected
          /\ \A i \in 1 .. Len(file) : file[i] = x.crc[i]
      BY <1>1, <2>5, <3>1, RestFacts
    <3>7. x.crc \in Seq(0 .. N)
      <4>1. Byte \subseteq 0 .. N
        BY Sizes DEF Byte
      <4> QED
        BY <3>1, <4>1, SeqMonotonic
    <3>8. file = x.crc
      BY <3>1, <3>6, <3>7, SeqEqual
    <3>9. ASSUME leaked = 0 PROVE x.crc = SubSeq(Whole, 1, sent)
      <4>1. sent = Len(x.crc) /\ \A i \in 1 .. Len(x.crc) : x.crc[i] = i
        <5>1. sent = Len(x.crc) + Len(wire) /\ \A i \in 1 .. Len(x.crc) : x.crc[i] = i
          BY <1>1, <2>1, <3>6, <3>9 DEF IInv, ReceivedInOrder
        <5>2. Len(wire) = 0
          BY <3>6
        <5> QED
          BY <3>1, <5>1, <5>2
      <4>2. \A i \in 1 .. sent : Whole[i] = i /\ Whole[i] \in Byte
        BY <3>1, Sizes DEF Whole, Byte
      <4> DEFINE r == SubSeq(Whole, 1, sent)
      <4>3. /\ r \in Seq(Byte) /\ Len(r) = IF 1 <= sent THEN sent - 1 + 1 ELSE 0
            /\ \A i \in 1 .. sent - 1 + 1 : r[i] = Whole[1 + i - 1]
        <5>1. 1 \in Int /\ sent \in Int /\ \A i \in 1 .. sent : Whole[i] \in Byte
          BY <3>1, <4>2
        <5> QED
          BY <5>1, SubSeqProperties
      <4> HIDE DEF r
      <4>4. Len(r) = sent
        BY <3>1, <4>3
      <4>5. \A i \in 1 .. sent : r[i] = i
        <5> TAKE i \in 1 .. sent
        <5>1. i \in 1 .. sent - 1 + 1 /\ 1 + i - 1 = i
          BY <3>1
        <5> QED
          BY <4>2, <4>3, <5>1
      <4>6. x.crc = r
        BY <3>1, <4>1, <4>3, <4>4, <4>5, SeqEqual
      <4> QED
        BY <4>6 DEF r
    <3> QED
      BY <3>1, <3>2, <3>3, <3>4, <3>5, <3>8, <3>9
  <2>6. CASE ProcessDelete
    <3>1. answers' = Answer(x.query, "FAILURE") /\ ~mapped' /\ file' = <<>>
      BY <2>1, <2>6 DEF ProcessDelete, Unmap
    <3> QED
      BY <2>3, <3>1 DEF Errors
  <2>7. CASE MasterLost
    BY <2>7 DEF MasterLost, Unmap, Completes
  <2>8. CASE \E passive \in BOOLEAN, restart \in 0 .. N : ProcessTransfer(passive, options.upload, restart)
    <3>1. PICK passive \in BOOLEAN, restart \in 0 .. N :
              ProcessTransfer(passive, options.upload, restart)
      BY <2>8
    <3>2. /\ queries < MaxQueries /\ queries' = queries + 1
          /\ \E e \in Errors : answers' = Answer(queries + 1, e)
      BY <1>1, <3>1, TransferEnds
    <3>3. ~Completes
      BY <1>1, <2>2, <3>2, NewAnswer DEF Completes
    <3>4. queries' # queries
      BY <2>1, <3>2
    <3> QED
      BY <3>3, <3>4
  <2> QED
    BY <1>1, <2>4, <2>5, <2>6, <2>7, <2>8, WaysOut
<1>2. ASSUME UNCHANGED vars PROVE Good
  BY <1>2 DEF vars
<1>3. IInv /\ [Next]_vars => [Good]_vars
  BY <1>1, <1>2
<1> QED
  BY <1>3, AlwaysIInv, PTL DEF Spec, UploadWholeOrGone
================================================================================
