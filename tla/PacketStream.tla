----------------------------- MODULE PacketStream ------------------------------
(***************************************************************************)
(* Packets on a TCP connection (packet.c, io.c), from the writer, a master *)
(* or a slave, to the reader.  Packets follow each other in the stream,    *)
(* which arrives cut anywhere; the reader keeps what it has of one in its  *)
(* io context from one "socket-read" to the next.                          *)
(*                                                                         *)
(* The stream is a sequence of cells, each with the packet it is of and    *)
(* its place in it.  A size takes SizeCells, a header with the size in it  *)
(* Header, so that recv() returning -1, added to the size of the size,     *)
(* falls inside the size as it does in the code.  Data is any cells.       *)
(*                                                                         *)
(* Left out: the contents of keys and of compressed data, running out of   *)
(* memory, peers that send what is not a packet.                           *)
(***************************************************************************)
EXTENDS Integers, Sequences, SequencesExt
CONSTANTS
    Writers,    \* who writes: "master", "slave"
    DataSizes,  \* cells of data a packet has
    Threshold,  \* io->compression_threshold
    ShortSends, \* send() may take a part of a packet of the slave
    MaxPackets  \* bound on the packets of one connection
ASSUME StreamAssumption ==
    /\ Writers \subseteq {"master", "slave"} /\ ShortSends \in BOOLEAN
    /\ DataSizes \subseteq Nat /\ Threshold \in Nat /\ MaxPackets \in Nat

VARIABLES
    writer,     \* which program writes
    flags,      \* io->flags of the writer: compressed, encrypted
    open,       \* the writer has not closed
    stream,     \* what was sent and not read
    arrived,    \* how much of it the reader's socket has
    io,         \* io->p and io->filled_size of the reader
    given,      \* the packets that were sent whole
    taken,      \* the packets that were read
    over        \* the reader has closed
vars == <<writer, flags, open, stream, arrived, io, given, taken, over>>

SizeCells == 2
Header == 3
NoPacket == [size |-> 0, cells |-> <<>>, filled |-> 0]
Nothing == [of |-> "nothing"]

Init == /\ writer \in Writers /\ flags = {} /\ open = TRUE /\ stream = <<>>
        /\ arrived = 0 /\ io = NoPacket /\ given = <<>> /\ taken = <<>> /\ over = FALSE

(*---------------------------------- writing -------------------------------*)
(* packet_new, and what io_write_packet wraps it in: the outermost last.   *)
New(n, d) == [id |-> n, data |-> d, wraps |-> <<>>, size |-> Header + d]
Wrapped(p, as, d) == [p EXCEPT !.wraps = Append(@, as), !.size = Header + d]
Compressions(p) == IF "compressed" \in flags /\ p.size >= Threshold
                     THEN {Wrapped(p, "compressed", d) : d \in DataSizes \ {0}} ELSE {p}
Encryptions(p) == IF "encrypted" \in flags THEN {Wrapped(p, "encrypted", p.size)} ELSE {p}
Forms(p) == UNION {Encryptions(q) : q \in Compressions(p)}

Cells(p) == [i \in 1 .. p.size |-> [of |-> p, at |-> i]]
Sent(p, n) == stream' = stream \o SubSeq(Cells(p), 1, n)

(* io_write_data of the master: anything but a whole packet ends the       *)
(* connection.                                                             *)
WriteData(p, n) ==
    /\ writer = "master" /\ Sent(p, n) /\ open' = (n = p.size)
(* handle_outputs of the slave, which goes on unless nothing was sent (0); *)
(* -1, a full buffer, passes for success.                                  *)
HandleOutputs(p, n) ==
    /\ writer = "slave" /\ (n \notin 1 .. p.size - 1 \/ ShortSends)
    /\ Sent(p, n) /\ UNCHANGED open
Write ==
    /\ open /\ Len(given) < MaxPackets
    /\ \E d \in DataSizes :
          \E p \in Forms(New(Len(given) + 1, d)) : \E n \in 0 .. p.size :
             /\ WriteData(p, n) \/ HandleOutputs(p, n)
             /\ given' = IF n = p.size THEN Append(given, [id |-> p.id, data |-> p.data]) ELSE given
    /\ UNCHANGED <<writer, flags, arrived, io, taken, over>>
(* The handshake turns encryption and compression on.                      *)
SetFlag(f) == open /\ f \notin flags /\ flags' = flags \cup {f}
              /\ UNCHANGED <<writer, open, stream, arrived, io, given, taken, over>>
Close == open /\ open' = FALSE
         /\ UNCHANGED <<writer, flags, stream, arrived, io, given, taken, over>>
Arrive == /\ arrived < Len(stream) /\ arrived' \in arrived + 1 .. Len(stream)
          /\ UNCHANGED <<writer, flags, open, stream, io, given, taken, over>>

(*---------------------------------- reading -------------------------------*)
(* recv() of n cells into the packet, after those it has.                  *)
Filled(p, from, n) ==
    [p EXCEPT !.cells = [i \in 1 .. p.size |->
                            IF i \in from + 1 .. from + n THEN stream[i - from] ELSE @[i]],
              !.filled = from + n]
Received(p) == p.size > 0 /\ p.filled = p.size
(* The loop of io_read_packet over what the packet is wrapped in.          *)
Unwrapped(p) ==
    LET w == p.cells[1].of
    IN  IF p.cells = Cells(w) THEN [id |-> w.id, data |-> w.data] ELSE [id |-> 0, data |-> 0]

(* io_read_packet, and the caller.                                         *)
Hand(p) == IF Received(p) THEN io' = NoPacket /\ taken' = Append(taken, Unwrapped(p))
                          ELSE io' = p /\ UNCHANGED taken
Consume(n) == stream' = SubSeq(stream, n + 1, Len(stream)) /\ arrived' = arrived - n
Disconnect == io' = NoPacket /\ over' = TRUE
(* The connection was reset between the poll and recv().                   *)
Lost == stream' = <<>> /\ arrived' = 0 /\ open' = FALSE

(* Variant: what follows the packet is read into it.                       *)
RestUnclipped(p) == arrived
(* What is to be read of the packet, of what is there.                     *)
Rest(p) == Min({arrived, p.size - p.filled})

Resume ==
    /\ io # NoPacket /\ arrived > 0
    /\ \/ Hand(Filled(io, io.filled, Rest(io))) /\ Consume(Rest(io)) /\ UNCHANGED <<open, over>>
       \/ Disconnect /\ Lost /\ UNCHANGED taken
Begin ==
    /\ io = NoPacket /\ arrived >= Header
    /\ \E size \in IF stream[1].at = 1 THEN {stream[1].of.size} ELSE Header .. 2 * Header :
          LET p == [size |-> size, cells |-> [i \in 1 .. size |-> Nothing], filled |-> 0]
              n == Min({arrived, size})
          IN  \/ Hand(Filled(p, 0, n)) /\ Consume(n) /\ UNCHANGED <<open, over>>
              \/ Disconnect /\ Lost /\ UNCHANGED taken
              \/ (* -1, compared as unsigned, passes for a long read.      *)
                 /\ io' = [p EXCEPT !.filled = SizeCells - 1]
                 /\ Lost /\ UNCHANGED <<taken, over>>
(* Nothing to read at a readable socket: the peer has closed.              *)
Closed == /\ ~open /\ stream = <<>> /\ Disconnect
          /\ UNCHANGED <<open, stream, arrived, taken>>
(* A piece shorter than a header stays in the socket: the reader hears of  *)
(* the end of the connection when it writes.                               *)
WriteFails == /\ ~open /\ ~over /\ Disconnect /\ Lost
              /\ UNCHANGED <<writer, flags, given, taken>>
Read == ~over /\ (Resume \/ Begin \/ Closed) /\ UNCHANGED <<writer, flags, given>>

(* A new connection.                                                       *)
Reconnect == over /\ writer' = writer /\ flags' = {} /\ open' = TRUE /\ stream' = <<>>
             /\ arrived' = 0 /\ io' = NoPacket /\ given' = <<>> /\ taken' = <<>> /\ over' = FALSE

Next == Write \/ Close \/ Arrive \/ Read \/ WriteFails \/ Reconnect
        \/ \E f \in {"compressed", "encrypted"} : SetFlag(f)
Spec == Init /\ [][Next]_vars
(* What was sent arrives, and the loop over the sockets reads it.          *)
FairSpec == Spec /\ WF_vars(Arrive) /\ WF_vars(Read)

--------------------------------------------------------------------------------
Queue == INSTANCE PacketQueue WITH Packets <- [id : 1 .. MaxPackets, data : DataSizes]
(* Packets are read as they were written, in order, however the stream is  *)
(* cut and whatever they are wrapped in (packet.c:58, io.c:160).           *)
ImplementsQueue == Queue!Spec
================================================================================
