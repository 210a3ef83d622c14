-------------------------------- MODULE VfsPath --------------------------------
(***************************************************************************)
(* Paths of the virtual file system (vfs.c): how one that a client, a      *)
(* slave or a script gives is trimmed in place, how elements are found and *)
(* made by what is left, and the path that leads back to an element.       *)
(*                                                                         *)
(* A path is a sequence of bytes; in the buffer of vfs_trim_name it ends   *)
(* at the first zero and older bytes may follow.  An element is the        *)
(* sequence of the names that lead to it from the root, a tree a function  *)
(* from elements to what they are.                                         *)
(*                                                                         *)
(* Left out: the sums of names, upper and lower case, what elements hold   *)
(* besides their type and the target of a link, running out of memory.     *)
(***************************************************************************)
EXTENDS Integers, SequencesExt
CONSTANTS
    Words,      \* the sequences of bytes that paths are made of
    MaxBytes    \* bound on the bytes of a path

VARIABLES
    path,       \* what is asked for
    text        \* what vfs_trim_name makes of it
vars == <<path, text>>

Zero == "zero"
Above == <<".", ".">>
AboveIt == <<".", ".", "/">>
(* NULL, as a string and as an element.                                    *)
NoText == <<"null">>
None == <<NoText>>

(*---------------------------------- trimming ------------------------------*)
(* The string at p, its end, and strchr(p, '/').                           *)
End(buf, p) == CHOOSE i \in p .. Len(buf) : buf[i] = Zero /\ \A j \in p .. i - 1 : buf[j] # Zero
Str(buf, p) == SubSeq(buf, p, End(buf, p) - 1)
HasSlash(buf, p) == Contains(Str(buf, p), "/")
Slash(buf, p) == p - 1 + SelectInSeq(Str(buf, p), LAMBDA b : b = "/")
(* strlen(p) + 1.                                                          *)
Size(buf, p) == End(buf, p) - p + 1
Move(buf, to, from, n) ==
    SubSeq(buf, 1, to - 1) \o SubSeq(buf, from, from + n - 1) \o SubSeq(buf, to + n, Len(buf))

SkipPrefix(name) ==
    SubSeq(name, SelectInSeq(name \o <<Zero>>, LAMBDA b : b \notin {"/", "\\"}), Len(name))
RemoveTail(name) ==
    SubSeq(name, 1, SelectLastInSeq(name, LAMBDA b : b # "/"))

(* All slashes that follow the one at i: what comes after them, up to the  *)
(* end of the buffer, is moved to it.                                      *)
CollapseAt(buf, i) ==
    IF buf[i] # "/" THEN buf
    ELSE LET j == SelectInSubSeq(buf, i, Len(buf), LAMBDA b : b # "/")
         IN Move(buf, i + 1, j, Len(buf) - j + 1)
Collapse(buf) == FoldLeftDomain(CollapseAt, buf, buf)

(* Variant: a ".." that is all there is passes.                            *)
IllegalIfMore(buf) == IsPrefix(AboveIt, Str(buf, 1))
Illegal(buf) == Str(buf, 1) = Above \/ IsPrefix(AboveIt, Str(buf, 1))

(* The loop over the folders: ptr is one and ptr2 the next.  A ".." takes   *)
(* the folder before it away and the loop begins again; the last only ends *)
(* the string where that folder began.                                     *)
RECURSIVE Climb(_, _, _)
Climb(buf, ptr, ptr2) ==
    IF ~HasSlash(buf, ptr2)
      THEN IF Str(buf, ptr2) = Above THEN [buf EXCEPT ![ptr] = Zero] ELSE buf
    ELSE IF IsPrefix(AboveIt, Str(buf, ptr2))
      THEN LET next == Slash(buf, ptr2) + 1
               moved == Move(buf, ptr, next, Size(buf, next))
           IN IF Illegal(moved) THEN NoText
              ELSE IF ~HasSlash(moved, 1) THEN moved
              ELSE Climb(moved, 1, Slash(moved, 1) + 1)
    ELSE Climb(buf, ptr2, Slash(buf, ptr2) + 1)

(* vfs_trim_name.  The last slashes are looked for where the string ended  *)
(* before it was collapsed.                                                *)
TrimName(name) ==
    LET first == RemoveTail(ReplaceAll(SkipPrefix(name), "\\", "/"))
        buf == Collapse(Append(first, Zero))
        climbed == IF HasSlash(buf, 1) THEN Climb(buf, 1, Slash(buf, 1) + 1) ELSE buf
    IN  IF name = <<>> \/ Illegal(buf) \/ climbed = NoText THEN NoText
        ELSE LET last == RemoveTail(SubSeq(climbed, 1, Len(first)))
             IN IF last = <<>> THEN <<"/">> ELSE Str(Append(last, Zero), 1)

Init == path = <<>> /\ text = TrimName(<<>>)
Type == /\ \E w \in Words : Len(path) + Len(w) <= MaxBytes /\ path' = path \o w
        /\ text' = TrimName(path')
Another == /\ path # <<>>
           /\ path' = <<>> /\ text' = TrimName(path')

(*---------------------------------- elements ------------------------------*)
Folder == [type |-> "folder", to |-> None]
File == [type |-> "file", to |-> None]
Link(e) == [type |-> "link", to |-> e]

(* What is between the slashes of a text.                                  *)
Split(name) ==
    FoldLeft(LAMBDA names, b : IF b = "/" THEN Append(names, <<>>)
                               ELSE [names EXCEPT ![Len(names)] = Append(@, b)],
             << <<>> >>, name)

(* vfs_get_child_by_namesum_n.                                             *)
Child(tree, e, name) ==
    IF e # None /\ Append(e, name) \in DOMAIN tree THEN Append(e, name) ELSE None
SecureFindElement(tree, container, name) ==
    FoldLeft(LAMBDA e, n : Child(tree, e, n), container, Split(name))
(* Of a trimmed name.                                                      *)
RawFindElement(tree, container, name) ==
    CASE name = NoText -> None
      [] name = <<"/">> -> container
      [] OTHER -> SecureFindElement(tree, container, name)
RECURSIVE Target(_, _)
Target(tree, e) ==
    IF e = None \/ tree[e].to = None THEN e ELSE Target(tree, tree[e].to)
FindElement(tree, container, name) == Target(tree, RawFindElement(tree, container, name))

(* An element of a type where there is none; the one that is there, if it  *)
(* has that type.                                                          *)
Make(made, name, what) ==
    LET e == Append(made.element, name)
    IN  CASE made.element = None -> made
          [] made.element # None /\ e \notin DOMAIN made.tree ->
                [tree |-> made.tree @@ (e :> what), element |-> e]
          [] OTHER -> [made EXCEPT !.element = IF @ # None /\ made.tree[e] = what THEN e ELSE None]
(* vfs_secure_create_folder: a folder for each name, until one is there    *)
(* that is no folder.                                                      *)
SecureCreateFolder(tree, container, names) ==
    FoldLeft(LAMBDA made, name : Make(made, name, Folder),
             [tree |-> tree, element |-> container], names)
CreateFile(tree, container, name) ==
    IF name \in {NoText, <<"/">>} THEN [tree |-> tree, element |-> None]
    ELSE Make(SecureCreateFolder(tree, container, Front(Split(name))), Last(Split(name)), File)

(* vfs_get_relative_path.  The container itself gets its path from the     *)
(* root, whose name is a slash.                                            *)
RelativePath(container, e) ==
    LET Path(names) == FoldLeft(LAMBDA way, name : way \o <<"/">> \o name, <<>>, names)
    IN  CASE ~IsPrefix(container, e) -> NoText
          [] e = container -> <<"/">> \o Path(e)
          [] OTHER -> Path(SubSeq(e, Len(container) + 1, Len(e)))

(*--------------------------------- properties -----------------------------*)
(* The names of a path, whatever slashes are between them, and where it    *)
(* leads by walking: never above where it starts.                          *)
Names == SelectSeq(Split(ReplaceAll(path, "\\", "/")), LAMBDA name : name # <<>>)
Walked ==
    FoldLeft(LAMBDA at, name : CASE at = None -> None
                                 [] at # None /\ name # Above -> Append(at, name)
                                 [] OTHER -> IF at = <<>> THEN None ELSE Front(at),
             <<>>, Names)
Refused == path = <<>> \/ Walked = None
EndsAbove == Names # <<>> /\ Last(Names) = Above

(* A path is refused if, and only if, it leads above its start at any      *)
(* moment; what is left of another has no ".." in it (vfs_trim_name).      *)
Confined == (text = NoText <=> Refused) /\ Above \notin ToSet(Split(text))
(* 'Trim the name so it looks like "abc/def/ghi"' (vfs.c:855), or like "/" *)
(* ("no empty name allowed", vfs.c:974): the names of where it leads.      *)
Trimmed ==
    ~Refused => LET each == FoldLeft(LAMBDA all, name : all \o <<"/">> \o name, <<>>, Walked)
                IN  text = IF Walked = <<>> THEN <<"/">> ELSE Tail(each)

Folders(tree) == {e \in DOMAIN tree : tree[e] = Folder}
(* A path finds the element it leads to and nothing else                   *)
(* (vfs_find_element).                                                     *)
Found(tree) == \A c \in Folders(tree) :
    LET e == c \o Walked
    IN  FindElement(tree, c, text) =
            IF Refused \/ e \notin DOMAIN tree THEN None ELSE Target(tree, e)

(* A new file gets its place and the folders on the way to it, those       *)
(* before the first that is no folder if there is one; what was there      *)
(* stays (vfs_create_file).                                                *)
Created(tree) == \A c \in Folders(tree) :
    LET made == CreateFile(tree, c, text)
        way == {c \o p : p \in Prefixes(Walked) \ {<<>>, Walked}}
        Open(e) == \A f \in way : IsPrefix(f, e) /\ f \in DOMAIN tree => tree[f] = Folder
        e == c \o Walked
        there == Open(e) /\ (e \in DOMAIN tree => tree[e] = File)
    IN  IF Refused \/ Walked = <<>> THEN made = [tree |-> tree, element |-> None]
        ELSE /\ made.element = IF there THEN e ELSE None
             /\ made.tree = tree @@ [f \in {f \in way : Open(f)} |-> Folder]
                                 @@ (IF there THEN e :> File ELSE <<>>)
(* The path the master tells of an element leads to it again (slaves,      *)
(* deletelogs and lists of files name elements by it).                     *)
LeadsBack(tree) == \A c \in Folders(tree) :
    LET made == CreateFile(tree, c, text).tree
    IN  \A e \in DOMAIN made \ {c} :
            IsPrefix(c, e) => RawFindElement(made, c, TrimName(RelativePath(c, e))) = e

(* Trimming agrees with walking, and elements are found and made where     *)
(* their paths lead.  Of a path that ends in ".." only Confined is true:    *)
(* against the comments (vfs.c:855, 968, 974) it keeps the slash before    *)
(* the last folder that is left, or is left empty, and then finds nothing  *)
(* and names a file with no name.                                          *)
PathsAgree(tree) ==
    Confined /\ (~EndsAbove => Trimmed /\ Found(tree) /\ Created(tree) /\ LeadsBack(tree))
================================================================================
