---------------------------- MODULE DeletelogLines ----------------------------
(***************************************************************************)
(* The deletelog of a slave: the names of the files deleted while the      *)
(* slave was away, one on a line.  All that the readers of the file can    *)
(* tell apart is which names its last line and the lines before have       *)
(* (LineSplit shows it of the bytes).                                      *)
(***************************************************************************)
CONSTANT CrLf   \* the master's C library ends a line with CR LF (make mingw)

ASSUME LineEndAssumption == CrLf \in BOOLEAN

(* What the last line names, if there is one, and what the others name,    *)
(* of the files of F.                                                      *)
Deletelog(F) == [names : SUBSET F, last : SUBSET F]
EmptyLog == [names |-> {}, last |-> {}]

AllLines(log) == log.names \cup log.last

(* logging_write "%s\n" appends a line.                                    *)
LoggingWrite(log, f) == [names |-> AllLines(log), last |-> {f}]

(* What the loop over the lines of a deletelog finds, the same in          *)
(* slave_remove_deletelog_files and process_slave_deletelog: the last byte *)
(* of the buffer is never looked at, so that a name ended by a lone LF at  *)
(* the end of the file keeps it and names no file.                         *)
LinesRead(log) == IF CrLf THEN AllLines(log) ELSE log.names
================================================================================
