-------------------------------- MODULE Storage ---------------------------------
(***************************************************************************)
(* A configuration file (config.c over adio.c) and the user kept in it     *)
(* (users.c).  A file that is open lives in memory as a list of fields;    *)
(* changes are written some time later, or at once on request, while the   *)
(* file may change again, be closed, opened again or removed, and the      *)
(* process may end in the middle of a write.  Files share nothing but the  *)
(* loop that serves each in turn, so one is modelled: the file of a user,  *)
(* or one that scripts open.                                               *)
(*                                                                         *)
(* The two builds differ in what a write does.  On Windows the file is cut *)
(* to nothing when it is opened, written behind the program's back, which  *)
(* may fail, and cannot be removed while it is open; elsewhere it is       *)
(* written at once, over what was there, and what was longer keeps its end.*)
(*                                                                         *)
(* An action is a handler, a script or one call of config_poll.  A line    *)
(* takes one cell of a file, or two when its value is long; the second has *)
(* no equal sign.  Comments, the other fields of a user (password, created,*)
(* disabled), which are read and written as usergroup is, and its clients  *)
(* are left out, and so are writes of which the disk takes a part.         *)
(***************************************************************************)
EXTENDS Naturals, Sequences, FiniteSets, SequencesExt
CONSTANTS
    Builds,         \* "win32", "posix"
    CloseBusy,      \* whether scripts close a file while it is being saved
    MaxOpens,       \* bound on the scripts that have the file open
    MaxLines,       \* bound on the fields of a file to which scripts add one
    MaxCells        \* bound on the file with which the process ends
ASSUME StorageAssumption ==
    /\ Builds \subseteq {"win32", "posix"} /\ CloseBusy \in BOOLEAN
    /\ MaxOpens \in Nat \ {0} /\ MaxLines \in Nat /\ MaxCells \in Nat
Groups == {"short", "long"}

VARIABLES
    build,      \* what the program was compiled for
    kind,       \* the file is that of a "user", or of a "script"
    running,    \* the process runs
    disk,       \* the cells of the file; one that is not there has none
    conf,       \* the file in open_configs; "lost", a history, says that
                \* the last write of it failed, which config_poll cannot tell
    op,         \* the adio file and operation that are open for it
    user,       \* the user, as in struct user_ctx
    born,       \* whether the file's name (a time) has been given to a user
    gone        \* whether the user was deleted while the file was as in memory
vars == <<build, kind, running, disk, conf, op, user, born, gone>>
constants == <<build, kind>>

Closed == [open |-> FALSE, refs |-> 0, fields |-> <<>>, shouldsave |-> FALSE,
           saving |-> FALSE, late |-> FALSE, lost |-> FALSE]
NoOp == [open |-> FALSE, cells |-> <<>>, done |-> FALSE]
NoUser == [on |-> FALSE, group |-> "short"]

Init == /\ build \in Builds /\ kind \in {"user", "script"} /\ running = TRUE
        /\ disk = <<>> /\ conf = Closed /\ op = NoOp /\ user = NoUser
        /\ born = FALSE /\ gone = FALSE

State == [disk |-> disk, conf |-> conf, op |-> op, user |-> user]
Become(s) == disk' = s.disk /\ conf' = s.conf /\ op' = s.op /\ user' = s.user

(*------------------------------- lines and cells --------------------------*)
Line(p, v) == [param |-> p, value |-> v]
Width(l) == IF l.value = "long" THEN 2 ELSE 1
LineCells(l) == [i \in 1 .. Width(l) |-> [line |-> l, at |-> i]]
(* config_dump: the fields from the first to the last.                     *)
Dump(fields) ==
    LET dump[k \in 0 .. Len(fields)] ==
            IF k = 0 THEN <<>> ELSE dump[k - 1] \o LineCells(fields[k])
    IN  dump[Len(fields)]

(* What the line that begins at a cell reads: a long value that was cut is *)
(* shorter; a line that begins with the end of another has no equal sign.  *)
LineAt(cells, j) ==
    LET l == cells[j].line
    IN  IF Width(l) = 2 /\ (j = Len(cells) \/ cells[j + 1] # [line |-> l, at |-> 2])
          THEN Line(l.param, "cut") ELSE l
Begins(cells) == {j \in 1 .. Len(cells) : cells[j].at = 1}
Lines(cells) == {LineAt(cells, j) : j \in Begins(cells)}

(* config_raw_read: the first line of the file.                            *)
RawRead(cells, p) ==
    LET found == {j \in Begins(cells) : cells[j].line.param = p}
    IN  IF found = {} THEN "none" ELSE LineAt(cells, Min(found)).value
(* config_load: each field is added before the others.                     *)
Load(cells) ==
    LET load[j \in 0 .. Len(cells)] ==
            IF j = 0 THEN <<>>
            ELSE IF j \in Begins(cells) THEN <<LineAt(cells, j)>> \o load[j - 1]
            ELSE load[j - 1]
    IN  load[Len(cells)]

(* config_get_field and config_pread: the first field of that name.        *)
Matching(fields, p) == {k \in 1 .. Len(fields) : fields[k].param = p}
FieldAt(fields, p) == CHOOSE k \in Matching(fields, p) : \A j \in Matching(fields, p) : k <= j
Pread(fields, p) == IF Matching(fields, p) = {} THEN "none" ELSE fields[FieldAt(fields, p)].value

(*--------------------------------- the disk -------------------------------*)
(* Variant: an existing file is not cut on Windows either.                 *)
AdioOpenOver(s) == [s EXCEPT !.op = [NoOp EXCEPT !.open = TRUE]]
(* adio_open, to create the file.                                          *)
AdioOpen(s) == [s EXCEPT !.disk = IF build = "win32" THEN <<>> ELSE @,
                         !.op = [NoOp EXCEPT !.open = TRUE]]
(* The cells land over what is there.                                      *)
Land(s) == [s EXCEPT !.disk = s.op.cells \o SubSeq(@, Len(s.op.cells) + 1, Len(@)),
                     !.op.done = TRUE]
(* adio_write: at once, or on Windows whenever the system likes.           *)
AdioWrite(s, cells) ==
    LET t == [s EXCEPT !.op.cells = cells]
    IN  IF build = "posix" THEN Land(t) ELSE t
(* remove(): Windows keeps a file that is open without FILE_SHARE_DELETE.  *)
RemoveFile(s) == IF build = "win32" /\ s.op.open THEN s ELSE [s EXCEPT !.disk = <<>>]

(*--------------------------- configuration files --------------------------*)
(* config_open: the one that is open, or a new one loaded from the file.   *)
ConfigOpen(s) ==
    IF s.conf.open THEN [s EXCEPT !.conf.refs = @ + 1]
    ELSE [s EXCEPT !.conf = [Closed EXCEPT !.open = TRUE, !.refs = 1,
                                           !.fields = Load(s.disk)]]

(* config_save; adio_open or adio_write may fail.                          *)
ConfigSave(s, fault) ==
    LET t == [s EXCEPT !.conf.shouldsave = FALSE, !.conf.saving = TRUE, !.conf.lost = FALSE]
    IN  IF ~s.conf.shouldsave \/ s.conf.saving THEN s
        ELSE IF s.conf.fields = <<>> THEN RemoveFile(t)
        ELSE IF fault = "none" THEN AdioWrite(AdioOpen(t), Dump(s.conf.fields))
        ELSE [s EXCEPT !.conf.late = FALSE,
                       !.disk = IF fault = "write" THEN AdioOpen(s).disk ELSE @]

(* Variant: the last close leaves nothing in memory.                       *)
ConfigCloseDrops(s, fault) ==
    IF s.conf.refs > 1 THEN [s EXCEPT !.conf.refs = @ - 1] ELSE [s EXCEPT !.conf = Closed]
(* config_close: what is not saved yet stays open until it is.             *)
ConfigClose(s, fault) ==
    LET t == [s EXCEPT !.conf.refs = @ - 1]
    IN  IF t.conf.refs > 0 THEN t
        ELSE IF t.conf.shouldsave THEN ConfigSave(t, fault)
        ELSE [t EXCEPT !.conf = Closed]

(* config_write: a new field comes first, "none" removes one.              *)
ConfigWrite(s, p, v) ==
    LET fields == s.conf.fields
        changed == IF Matching(fields, p) = {} THEN <<Line(p, v)>> \o fields
                   ELSE IF v = "none" THEN RemoveAt(fields, FieldAt(fields, p))
                   ELSE [fields EXCEPT ![FieldAt(fields, p)] = Line(p, v)]
    IN  IF Pread(fields, p) = v THEN s
        ELSE [s EXCEPT !.conf.fields = changed, !.conf.shouldsave = TRUE]

(* config_poll_process_adio: a write that is over is done, also where      *)
(* adio_probe returns -1 for one that failed.                              *)
ProcessAdio(s) ==
    LET t == [s EXCEPT !.op = NoOp, !.conf.saving = FALSE]
    IN  IF ~(s.conf.open /\ s.conf.saving /\ s.op.done) THEN s
        ELSE IF t.conf.shouldsave \/ t.conf.refs > 0 THEN t
        ELSE [t EXCEPT !.conf = Closed]
(* Variant: a file that nobody holds is not saved.                         *)
SaveModifiedHeld(s, fault) ==
    IF s.conf.shouldsave /\ ~s.conf.saving /\ s.conf.late /\ s.conf.refs > 0
      THEN ConfigSave(s, fault) ELSE s
(* config_poll_save_modified                                               *)
SaveModified(s, fault) ==
    IF s.conf.open /\ s.conf.shouldsave /\ ~s.conf.saving /\ s.conf.late
      THEN ConfigSave(s, fault) ELSE s

(*---------------------------------- users ---------------------------------*)
(* user_load: not without the lines it needs.                              *)
UserLoad(s) ==
    IF "none" \in {RawRead(s.disk, p) : p \in {"username", "usergroup"}} THEN s
    ELSE [ConfigOpen(s) EXCEPT !.user = [on |-> TRUE, group |-> RawRead(s.disk, "usergroup")]]
(* user_new: the file is saved at once.                                    *)
UserNew(s, group, fault) ==
    LET opened == [ConfigOpen(s) EXCEPT !.user = [on |-> TRUE, group |-> group]]
        named == ConfigWrite(opened, "username", "short")
    IN  ConfigSave(ConfigWrite(named, "usergroup", group), fault)
(* user_set_group, user_set_password, user_disable.                        *)
UserSet(s, group, fault) ==
    ConfigSave(ConfigWrite([s EXCEPT !.user.group = group], "usergroup", group), fault)
(* Variant: the user is marked as disabled while it is deleted.            *)
UserDeleteMarked(s, fault) ==
    ConfigClose(ConfigWrite([RemoveFile(s) EXCEPT !.user = NoUser], "usergroup", "cut"), fault)
(* user_delete: the file is removed, and closed by the user's destructor.  *)
UserDelete(s, fault) == ConfigClose([RemoveFile(s) EXCEPT !.user = NoUser], fault)

(*--------------------------------- actions --------------------------------*)
Faults == {"none", "open", "write"}
NewUser ==
    /\ running /\ kind = "user" /\ ~born /\ born' = TRUE
    /\ \E g \in Groups, fault \in Faults : Become(UserNew(State, g, fault))
    /\ UNCHANGED <<constants, running, gone>>
SetUser ==
    /\ running /\ user.on
    /\ \E g \in Groups, fault \in Faults : Become(UserSet(State, g, fault))
    /\ UNCHANGED <<constants, running, born, gone>>
DeleteUser ==
    /\ running /\ user.on
    /\ \E fault \in Faults : Become(UserDelete(State, fault))
    /\ gone' = (~conf.shouldsave /\ ~op.open)
    /\ UNCHANGED <<constants, running, born>>

(* Scripts open files, and write in them and in those of users.            *)
ScriptOpen ==
    /\ running /\ kind = "script" /\ conf.refs < MaxOpens /\ Become(ConfigOpen(State))
    /\ UNCHANGED <<constants, running, born, gone>>
ScriptWrite ==
    /\ running /\ conf.refs > 0
    /\ Matching(conf.fields, "credits") = {} => Len(conf.fields) < MaxLines
    /\ \E v \in Groups \cup {"none"} : Become(ConfigWrite(State, "credits", v))
    /\ UNCHANGED <<constants, running, born, gone>>
ScriptClose ==
    /\ running /\ kind = "script" /\ conf.refs > 0
    /\ conf.saving /\ ~conf.shouldsave /\ conf.refs = 1 => CloseBusy
    /\ \E fault \in Faults : Become(ConfigClose(State, fault))
    /\ UNCHANGED <<constants, running, born, gone>>

(* config_poll, in every turn of the main loop.                            *)
ConfigPoll(fault) ==
    /\ running /\ Become(SaveModified(ProcessAdio(State), fault))
    /\ UNCHANGED <<constants, running, born, gone>>
(* CONFIG_SAVETIME has passed since the file was opened or refused.        *)
Elapse == /\ running /\ conf.open /\ ~conf.late /\ conf' = [conf EXCEPT !.late = TRUE]
          /\ UNCHANGED <<constants, running, disk, op, user, born, gone>>
(* Windows writes what was asked for, or a part of it and fails.           *)
DiskWrites == /\ op.open /\ ~op.done /\ Become(Land(State))
              /\ UNCHANGED <<constants, running, born, gone>>
DiskFails ==
    /\ op.open /\ ~op.done /\ op' = [op EXCEPT !.done = TRUE]
    /\ \E cut \in 0 .. Len(op.cells) : disk' = SubSeq(op.cells, 1, cut)
    /\ conf' = [conf EXCEPT !.lost = conf.open]
    /\ UNCHANGED <<constants, running, user, born, gone>>

(* The process ends, in whatever way: main saves nothing when it leaves.   *)
(* A write that was not done is done in part.                              *)
Ends ==
    /\ running /\ Len(disk) <= MaxCells /\ running' = FALSE
    /\ \E cut \in 0 .. Len(op.cells) :
          /\ op.done => cut = 0
          /\ disk' = IF cut > 0 THEN SubSeq(op.cells, 1, cut) ELSE disk
    /\ conf' = Closed /\ op' = NoOp /\ user' = NoUser
    /\ UNCHANGED <<constants, born, gone>>
(* users_init; scripts open their file when they like.                     *)
Start == /\ ~running /\ running' = TRUE
         /\ Become(IF kind = "user" THEN UserLoad(State) ELSE State)
         /\ UNCHANGED <<constants, born, gone>>

Next == \/ NewUser \/ SetUser \/ DeleteUser
        \/ ScriptOpen \/ ScriptWrite \/ ScriptClose
        \/ \E fault \in Faults : ConfigPoll(fault)
        \/ Elapse \/ DiskWrites \/ DiskFails \/ Ends \/ Start
Spec == Init /\ [][Next]_vars
(* The main loop turns, time passes, the system writes or fails to, and    *)
(* the disk does not refuse for ever.                                      *)
FairSpec == /\ Spec /\ SF_vars(ConfigPoll("none")) /\ WF_vars(Elapse)
            /\ WF_vars(DiskWrites \/ DiskFails)

--------------------------------------------------------------------------------
(* A user that is loaded holds its file, a file that is being written is   *)
(* open, and the file of a user holds the fields of one.                   *)
TypeOK ==
    /\ conf.refs \in 0 .. MaxOpens /\ (user.on => conf.refs = 1)
    /\ \A l \in ToSet(conf.fields) :
          /\ l.param \in {"username", "usergroup", "credits"}
          /\ l.value \in Groups \cup {"cut"}
    /\ (op.done => op.open) /\ user.group \in Groups \cup {"cut"}
    /\ (gone => born) /\ (born => kind = "user")

(* A file that is neither to be saved nor being saved holds every field as *)
(* memory has it, whatever was written, refused or closed before; where    *)
(* files are cut when they are opened it holds nothing else (config.c:759).*)
(* Except after a write that failed when it was under way: adio_probe says *)
(* so by -1 ("and -1 on error", adio.h:102), which config.c:858 takes for  *)
(* completion, so that the file counts as saved until it changes again.    *)
SavedIsThere ==
    conf.open /\ ~conf.shouldsave /\ ~conf.saving /\ ~conf.lost =>
        /\ ToSet(conf.fields) \subseteq Lines(disk)
        /\ build = "win32" => ToSet(conf.fields) = Lines(disk)

(* "convenience functions that keep the config file and the user structure *)
(* synchronized" (users.c:385): where files are cut, what the user has is  *)
(* what its file says, over any number of changes, crashes and starts.     *)
Synchronized ==
    build = "win32" /\ user.on => user.group = Pread(conf.fields, "usergroup")

(* The user, its file in memory and the file on the disk say the same.     *)
InStep == TypeOK /\ SavedIsThere /\ Synchronized

(* A file that nobody holds is in memory only until it is saved, and       *)
(* leaves memory only then: with nothing left to save, and with what it    *)
(* held on the disk, unless its user is deleted or its last write failed,  *)
(* whichever of config_close and config_poll lets go of it.                *)
KeptUntilSaved == conf.open /\ conf.refs = 0 => conf.shouldsave \/ conf.saving
LeavesSaved ==
    conf.open /\ ~conf'.open /\ running' =>
        /\ ~conf.shouldsave
        /\ user.on \/ conf.lost \/ ToSet(conf.fields) \subseteq Lines(disk')
ClosedIsSaved == [][KeptUntilSaved' /\ LeavesSaved]_vars

(* The file of a user that was deleted with nothing left to save never     *)
(* comes back (user_delete removes it before config_close).                *)
GoneStaysGone == gone => disk = <<>> /\ ~conf.open

(* A change is handed to the disk, and a file that nobody holds leaves     *)
(* memory unless it is opened again; but for one that was saved empty,     *)
(* which is never saved again (config.c:793).                              *)
Stopped == conf.saving /\ ~op.open
SavesEnd == /\ conf.shouldsave ~> ~conf.shouldsave \/ Stopped
            /\ conf.open /\ conf.refs = 0 ~> ~conf.open \/ conf.refs > 0 \/ Stopped
================================================================================
