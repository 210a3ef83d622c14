------------------------------- MODULE LineSplit -------------------------------
(***************************************************************************)
(* The bytes of a deletelog, and the loop that takes them apart: the same  *)
(* lines of code are in slave_remove_deletelog_files of the master and in  *)
(* process_slave_deletelog of the slave.  A name is a sequence of bytes    *)
(* without CR or LF.                                                       *)
(***************************************************************************)
EXTENDS DeletelogLines, Integers, Sequences
CONSTANTS
    Files,      \* the names of files, sequences of bytes
    MaxLines,   \* bound: the lines written before the file is emptied
    Beyond      \* what may be in memory after the buffer, which is not ended by a zero

VARIABLES
    buffer,     \* the bytes of the file, and of what config_load_file reads
    lines       \* what DeletelogLines says of them
vars == <<buffer, lines>>

LineEnds == {"CR", "LF"}

Init == buffer = <<>> /\ lines = EmptyLog

(* logging_write opens the file in text mode and appends a name and "\n".  *)
WriteLine(f) ==
    /\ Len(SelectSeq(buffer, LAMBDA b : b = "LF")) < MaxLines
    /\ buffer' = buffer \o f \o IF CrLf THEN <<"CR", "LF">> ELSE <<"LF">>
    /\ lines' = LoggingWrite(lines, f)

(* fopen "w" in deletelog_query_callback.                                  *)
Clear == buffer' = <<>> /\ lines' = EmptyLog

Next == Clear \/ \E f \in Files : WriteLine(f)
Spec == Init /\ [][Next]_vars

--------------------------------------------------------------------------------
(* for(line=0; current+(line+1) < fsize; line++) stops at the end of a     *)
(* line, or before the last byte.                                          *)
ExhaustedAtEnd(buf, current, line) == current + line >= Len(buf)
Exhausted(buf, current, line) == current + line + 1 >= Len(buf)

EndsLine(byte) == byte \in LineEnds

Line(buf, current) ==
    LET Stops(n) == Exhausted(buf, current, n) \/ EndsLine(buf[current + n + 1])
    IN CHOOSE n \in 0 .. Len(buf) :
          Stops(n) /\ \A m \in 0 .. n - 1 : ~Stops(m)

(* The string at ptr: up to the zero that has replaced the end of the line *)
(* if the loop saw it, and else up to some zero after the buffer.          *)
Name(buf, current, line, rest) ==
    IF Exhausted(buf, current, line)
      THEN SubSeq(buf, current + 1, Len(buf)) \o rest
      ELSE SubSeq(buf, current + 1, current + line)

(* while(current<fsize): an empty line is skipped.                         *)
Names(buf, rest) ==
    LET from[current \in 0 .. Len(buf) + 1] ==
          IF current >= Len(buf) THEN {}
          ELSE LET line == Line(buf, current) IN
               (IF line = 0 THEN {} ELSE {Name(buf, current, line, rest)})
               \cup from[current + line + 1]
    IN from[0]

(* The loop names the files the abstraction of DeletelogLines says, and    *)
(* never another file, whatever is in memory after the buffer: with CR LF  *)
(* every line is found, with LF alone the last is not.                     *)
LinesFound ==
    \A rest \in Beyond : Names(buffer, rest) \cap Files = LinesRead(lines)
================================================================================
