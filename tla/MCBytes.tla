-------------------------------- MODULE MCBytes --------------------------------
(* Small instances, for TLC, of the three modules that take bytes apart; a  *)
(* behaviour is one of LineSplit, of PacketStream or of VfsPath.  Names are *)
(* of one and two bytes, one a prefix of another, and memory after the      *)
(* buffer could extend a name; the same log is kept by a build whose lines  *)
(* end in LF and by one whose lines end in CR LF.  Paths are looked up in   *)
(* an empty tree and in one where a file and a link are in the way.         *)
EXTENDS PacketStream
CONSTANTS MaxLines, MaxBytes
VARIABLES scene, bufferLf, linesLf, bufferCrLf, linesCrLf, path, text
ShortNames == {<<"a">>, <<"b">>, <<"a", "b">>}
Memory == {<<>>, <<"b">>, <<"LF">>}

Lf == INSTANCE LineSplit WITH
    buffer <- bufferLf, lines <- linesLf, CrLf <- FALSE,
    Files <- ShortNames, Beyond <- Memory
CrLf == INSTANCE LineSplit WITH
    buffer <- bufferCrLf, lines <- linesCrLf, CrLf <- TRUE,
    Files <- ShortNames, Beyond <- Memory

Paths == INSTANCE VfsPath WITH Words <- {<<"/">>, <<"\\">>, <<".", ".">>, <<"a">>}
Root == <<>> :> Paths!Folder
SmallTrees == {Root, Root @@ << <<"a">> >> :> Paths!Folder
                          @@ << <<"a">>, <<"a">> >> :> Paths!File
                          @@ << <<"a", "a">> >> :> Paths!Link(<< <<"a">> >>)}

logs == <<bufferLf, linesLf, bufferCrLf, linesCrLf>>
Log == \/ Lf!Clear /\ CrLf!Clear
       \/ \E f \in ShortNames : Lf!WriteLine(f) /\ CrLf!WriteLine(f)

BytesSpec ==
    /\ scene \in {"lines", "packets", "paths"}
    /\ Lf!Init /\ CrLf!Init /\ Paths!Init /\ Init
    /\ scene = "paths" => writer = CHOOSE w \in Writers : TRUE
    /\ [][/\ scene' = scene
          /\ \/ scene = "lines" /\ Log /\ UNCHANGED <<vars, path, text>>
             \/ scene = "packets" /\ Next /\ UNCHANGED <<logs, path, text>>
             \/ scene = "paths" /\ (Paths!Type \/ Paths!Another) /\ UNCHANGED <<logs, vars>>
         ]_<<scene, logs, vars, path, text>>
    /\ WF_vars(Arrive) /\ WF_vars(Read)

(* Each build finds the lines that DeletelogLines says: all of them where   *)
(* lines end in CR LF, all but the last where they end in LF.               *)
LinesFound == Lf!LinesFound /\ CrLf!LinesFound
(* Every path is trimmed to where it leads, and finds and makes that (vfs.c). *)
PathsAgree == scene = "paths" => \A tree \in SmallTrees : Paths!PathsAgree(tree)
================================================================================
