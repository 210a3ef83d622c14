----------------------------- MODULE StorageProofs ------------------------------
(***************************************************************************)
(* What Storage promises of a file and of the user kept in it, for any     *)
(* bounds.                                                                 *)
(*                                                                         *)
(* The operations of Storage take a state and return the next; of each a   *)
(* lemma says that it keeps the shape of a state (Well), who holds the     *)
(* file, and that what had to be saved still has to be, or is being saved. *)
(* DeletedUsersStayDeleted then goes over the actions.  What fields and    *)
(* cells are matters to none of it.                                        *)
(*                                                                         *)
(* It matters to the other two: what config_dump writes, config_load and   *)
(* config_raw_read find, over whatever the file held, and config_write     *)
(* changes that and nothing else.  The lemmas about them go over fields    *)
(* and cells one at a time; those about the operations then say what is on *)
(* the disk, will be or is lost (Fine, Stored, Agrees).                    *)
(***************************************************************************)
EXTENDS Storage, SequenceTheorems, WellFoundedInduction, TLAPS

ConfShape(c) ==
    c \in [open : BOOLEAN, refs : Nat, fields : {c.fields},
           shouldsave : BOOLEAN, saving : BOOLEAN, late : BOOLEAN, lost : BOOLEAN]
OpShape(o) == o \in [open : BOOLEAN, cells : {o.cells}, done : BOOLEAN]
UserShape(u) == u \in [on : BOOLEAN, group : {u.group}]

(* A file that is not in memory is held by nobody; nothing is left of an   *)
(* operation that is over.                                                 *)
Well(s) ==
    /\ s \in [disk : {s.disk}, conf : {s.conf}, op : {s.op}, user : {s.user}]
    /\ ConfShape(s.conf) /\ OpShape(s.op) /\ UserShape(s.user)
    /\ s.op.open \/ s.op = NoOp
    /\ ~s.conf.open => s.conf.refs = 0
(* KeptUntilSaved, of a state.                                             *)
Kept(s) == s.conf.open /\ s.conf.refs = 0 => s.conf.shouldsave \/ s.conf.saving

LEMMA ShapeOfNothing == ConfShape(Closed) /\ OpShape(NoOp) /\ UserShape(NoUser)
  BY DEF ConfShape, OpShape, UserShape, Closed, NoOp, NoUser

(*--------------------------- one part of a state --------------------------*)
LEMMA WithDisk ==
  ASSUME NEW s, Well(s), NEW d
  PROVE  LET t == [s EXCEPT !.disk = d]
         IN  Well(t) /\ t.conf = s.conf /\ t.user = s.user /\ t.op = s.op /\ t.disk = d
  BY DEF Well

LEMMA WithConf ==
  ASSUME NEW s, Well(s), NEW c, ConfShape(c), ~c.open => c.refs = 0
  PROVE  LET t == [s EXCEPT !.conf = c]
         IN  Well(t) /\ t.conf = c /\ t.user = s.user /\ t.op = s.op /\ t.disk = s.disk
  BY DEF Well

LEMMA WithOp ==
  ASSUME NEW s, Well(s), NEW o, OpShape(o), o.open \/ o = NoOp
  PROVE  LET t == [s EXCEPT !.op = o]
         IN  Well(t) /\ t.conf = s.conf /\ t.user = s.user /\ t.op = o /\ t.disk = s.disk
  BY DEF Well

LEMMA WithUser ==
  ASSUME NEW s, Well(s), NEW u, UserShape(u)
  PROVE  LET t == [s EXCEPT !.user = u]
         IN  Well(t) /\ t.conf = s.conf /\ t.user = u /\ t.op = s.op /\ t.disk = s.disk
  BY DEF Well

(*--------------------------------- the disk -------------------------------*)
LEMMA AdioOpenWell ==
  ASSUME NEW s, Well(s)
  PROVE  LET t == AdioOpen(s)
         IN  Well(t) /\ t.conf = s.conf /\ t.user = s.user /\ t.op.open
<1> DEFINE d == IF build = "win32" THEN <<>> ELSE s.disk
           o == [NoOp EXCEPT !.open = TRUE]
           t == [s EXCEPT !.disk = d]
<1>1. OpShape(o) /\ o.open
  BY DEF OpShape, NoOp
<1>2. Well(t) /\ t.conf = s.conf /\ t.user = s.user
  <2> HIDE DEF d
  <2> QED  BY WithDisk
<1>3. AdioOpen(s) = [t EXCEPT !.op = o]
  BY DEF AdioOpen
<1> HIDE DEF o, t
<1> QED  BY <1>1, <1>2, <1>3, WithOp

LEMMA LandWell ==
  ASSUME NEW s, Well(s), s.op.open
  PROVE  LET t == Land(s) IN Well(t) /\ t.conf = s.conf /\ t.user = s.user /\ t.op.open
<1> DEFINE o == [s.op EXCEPT !.done = TRUE]
           d == s.op.cells \o SubSeq(s.disk, Len(s.op.cells) + 1, Len(s.disk))
           t == [s EXCEPT !.disk = d]
<1>1. OpShape(o) /\ o.open
  BY DEF Well, OpShape
<1>2. Well(t) /\ t.conf = s.conf /\ t.user = s.user /\ t.op = s.op
  <2> HIDE DEF d
  <2> QED  BY WithDisk
<1>3. Land(s) = [t EXCEPT !.op = o]
  BY <1>2 DEF Land
<1> HIDE DEF o, t
<1> QED  BY <1>1, <1>2, <1>3, WithOp

LEMMA AdioWriteWell ==
  ASSUME NEW s, Well(s), s.op.open, NEW cells
  PROVE  LET t == AdioWrite(s, cells)
         IN  Well(t) /\ t.conf = s.conf /\ t.user = s.user
<1> DEFINE o == [s.op EXCEPT !.cells = cells]
           t == [s EXCEPT !.op = o]
<1>1. OpShape(o) /\ o.open
  BY DEF Well, OpShape
<1>2. Well(t) /\ t.op.open /\ t.conf = s.conf /\ t.user = s.user
  <2> HIDE DEF o
  <2> QED  BY <1>1, WithOp
<1>3. AdioWrite(s, cells) = IF build = "posix" THEN Land(t) ELSE t
  BY DEF AdioWrite
<1> HIDE DEF t
<1>4. LET r == Land(t) IN Well(r) /\ r.conf = t.conf /\ r.user = t.user
  BY <1>2, LandWell
<1> QED  BY <1>2, <1>3, <1>4

LEMMA RemoveFileWell ==
  ASSUME NEW s, Well(s)
  PROVE  LET t == RemoveFile(s)
         IN  /\ Well(t) /\ t.conf = s.conf /\ t.user = s.user /\ t.op = s.op
             /\ ~s.op.open => t.disk = <<>>
<1>1. CASE build = "win32" /\ s.op.open
  BY <1>1 DEF RemoveFile
<1>2. CASE ~(build = "win32" /\ s.op.open)
  BY <1>2, WithDisk DEF RemoveFile
<1> QED  BY <1>1, <1>2

(*--------------------------- configuration files --------------------------*)
LEMMA ConfigOpenWell ==
  ASSUME NEW s, Well(s)
  PROVE  LET t == ConfigOpen(s)
         IN  /\ Well(t) /\ t.conf.open /\ t.conf.refs = s.conf.refs + 1
             /\ t.user = s.user /\ t.op = s.op
<1>1. CASE s.conf.open
  <2> DEFINE c == [s.conf EXCEPT !.refs = @ + 1]
  <2>1. ConfShape(c) /\ c.open /\ c.refs = s.conf.refs + 1
    BY <1>1 DEF Well, ConfShape
  <2>2. ConfigOpen(s) = [s EXCEPT !.conf = c]
    BY <1>1 DEF ConfigOpen
  <2> HIDE DEF c
  <2> QED  BY <2>1, <2>2, WithConf
<1>2. CASE ~s.conf.open
  <2> DEFINE c == [Closed EXCEPT !.open = TRUE, !.refs = 1, !.fields = Load(s.disk)]
  <2>1. ConfShape(c) /\ c.open /\ c.refs = 1
    BY DEF Closed, ConfShape
  <2>2. ConfigOpen(s) = [s EXCEPT !.conf = c] /\ s.conf.refs = 0
    BY <1>2 DEF ConfigOpen, Well
  <2> HIDE DEF c
  <2> QED  BY <2>1, <2>2, WithConf
<1> QED  BY <1>1, <1>2

LEMMA ConfigSaveWell ==
  ASSUME NEW s, Well(s), s.conf.open, NEW fault
  PROVE  LET t == ConfigSave(s, fault)
         IN  /\ Well(t) /\ t.conf.open /\ t.conf.refs = s.conf.refs /\ t.user = s.user
             /\ s.conf.shouldsave \/ s.conf.saving => t.conf.shouldsave \/ t.conf.saving
<1> DEFINE c == [s.conf EXCEPT !.shouldsave = FALSE, !.saving = TRUE, !.lost = FALSE]
           e == [s.conf EXCEPT !.late = FALSE]
           d == IF fault = "write" THEN AdioOpen(s).disk ELSE s.disk
           t == [s EXCEPT !.conf = c]
           r == [s EXCEPT !.conf = e]
<1>1. ConfShape(c) /\ c.open /\ c.refs = s.conf.refs /\ c.saving
  BY DEF Well, ConfShape
<1>2. /\ ConfShape(e) /\ e.open /\ e.refs = s.conf.refs
      /\ s.conf.shouldsave => e.shouldsave
  BY DEF Well, ConfShape
<1>3. ConfigSave(s, fault) =
        IF ~s.conf.shouldsave \/ s.conf.saving THEN s
        ELSE IF s.conf.fields = <<>> THEN RemoveFile(t)
        ELSE IF fault = "none" THEN AdioWrite(AdioOpen(t), Dump(s.conf.fields))
        ELSE [r EXCEPT !.disk = d]
  BY DEF ConfigSave, Well
<1> HIDE DEF c, e, d
<1>4. Well(t) /\ t.conf = c /\ t.user = s.user
  BY <1>1, WithConf
<1>5. Well(r) /\ r.conf = e /\ r.user = s.user
  BY <1>2, WithConf
<1> HIDE DEF t, r
<1>6. CASE ~s.conf.shouldsave \/ s.conf.saving
  BY <1>3, <1>6
<1>7. CASE s.conf.shouldsave /\ ~s.conf.saving /\ s.conf.fields = <<>>
  BY <1>1, <1>3, <1>4, <1>7, RemoveFileWell
<1>8. CASE s.conf.shouldsave /\ ~s.conf.saving /\ s.conf.fields # <<>> /\ fault = "none"
  <2> DEFINE q == AdioOpen(t)
             cells == Dump(s.conf.fields)
  <2>1. Well(q) /\ q.op.open /\ q.conf = t.conf /\ q.user = t.user
    BY <1>4, AdioOpenWell
  <2>2. ConfigSave(s, fault) = AdioWrite(q, cells)
    BY <1>3, <1>8
  <2> HIDE DEF q, cells
  <2> QED  BY <1>1, <1>4, <2>1, <2>2, AdioWriteWell
<1>9. CASE s.conf.shouldsave /\ ~s.conf.saving /\ s.conf.fields # <<>> /\ fault # "none"
  BY <1>2, <1>3, <1>5, <1>9, WithDisk
<1> QED  BY <1>6, <1>7, <1>8, <1>9

(* What is closed last leaves memory, unless it has to be saved.           *)
LEMMA ConfigCloseWell ==
  ASSUME NEW s, Well(s), s.conf.refs > 0, NEW fault
  PROVE  LET t == ConfigClose(s, fault)
         IN  /\ Well(t) /\ Kept(t) /\ t.conf.refs = s.conf.refs - 1 /\ t.user = s.user
             /\ s.conf.refs = 1 /\ ~s.conf.shouldsave =>
                   ~t.conf.open /\ t.op = s.op /\ t.disk = s.disk
             /\ ~t.conf.open => s.conf.refs = 1 /\ ~s.conf.shouldsave
<1> DEFINE c == [s.conf EXCEPT !.refs = @ - 1]
           t == [s EXCEPT !.conf = c]
<1>1. /\ ConfShape(c) /\ c.open /\ c.refs = s.conf.refs - 1
      /\ c.shouldsave <=> s.conf.shouldsave
  BY DEF Well, ConfShape
<1>2. ConfigClose(s, fault) =
        IF t.conf.refs > 0 THEN t
        ELSE IF t.conf.shouldsave THEN ConfigSave(t, fault) ELSE [t EXCEPT !.conf = Closed]
  BY DEF ConfigClose
<1> HIDE DEF c
<1>3. Well(t) /\ t.conf = c /\ t.user = s.user /\ t.op = s.op /\ t.disk = s.disk
  BY <1>1, WithConf
<1> HIDE DEF t
<1>4. CASE t.conf.refs > 0
  BY <1>1, <1>2, <1>3, <1>4 DEF Kept, Well, ConfShape
<1>5. CASE ~(t.conf.refs > 0) /\ t.conf.shouldsave
  BY <1>1, <1>2, <1>3, <1>5, ConfigSaveWell DEF Kept
<1>6. CASE ~(t.conf.refs > 0) /\ ~t.conf.shouldsave
  <2>1. ConfigClose(s, fault) = [t EXCEPT !.conf = Closed]
    BY <1>2, <1>6
  <2>2. ConfShape(Closed) /\ ~Closed.open /\ Closed.refs = 0
    BY ShapeOfNothing DEF Closed
  <2>3. s.conf.refs - 1 = 0 /\ s.conf.refs = 1
    BY <1>1, <1>3, <1>6 DEF Well, ConfShape
  <2>4. ~s.conf.shouldsave
    BY <1>1, <1>3, <1>6
  <2> DEFINE q == [t EXCEPT !.conf = Closed]
  <2> HIDE DEF Closed
  <2>5. Well(q) /\ q.conf = Closed /\ q.user = t.user /\ q.op = t.op /\ q.disk = t.disk
    BY <1>3, <2>2, WithConf
  <2> HIDE DEF q
  <2> QED  BY <1>1, <1>3, <2>1, <2>2, <2>3, <2>4, <2>5 DEF Kept, q
<1> QED  BY <1>4, <1>5, <1>6

LEMMA ConfigWriteWell ==
  ASSUME NEW s, Well(s), s.conf.open, NEW p, NEW v
  PROVE  LET t == ConfigWrite(s, p, v)
         IN  /\ Well(t) /\ t.conf.open /\ t.conf.refs = s.conf.refs /\ t.user = s.user
             /\ s.conf.shouldsave \/ s.conf.saving => t.conf.shouldsave \/ t.conf.saving
<1> DEFINE fields == s.conf.fields
           changed == IF Matching(fields, p) = {} THEN <<Line(p, v)>> \o fields
                      ELSE IF v = "none" THEN RemoveAt(fields, FieldAt(fields, p))
                      ELSE [fields EXCEPT ![FieldAt(fields, p)] = Line(p, v)]
           c == [s.conf EXCEPT !.fields = changed, !.shouldsave = TRUE]
<1>1. ConfigWrite(s, p, v) = IF Pread(fields, p) = v THEN s ELSE [s EXCEPT !.conf = c]
  BY DEF ConfigWrite, Well
<1>2. ConfShape(c) /\ c.open /\ c.refs = s.conf.refs /\ c.shouldsave
  <2> HIDE DEF changed
  <2> QED  BY DEF Well, ConfShape
<1> HIDE DEF c
<1>3. CASE Pread(fields, p) = v
  BY <1>1, <1>3
<1>4. CASE Pread(fields, p) # v
  BY <1>1, <1>2, <1>4, WithConf
<1> QED  BY <1>3, <1>4

LEMMA ProcessAdioWell ==
  ASSUME NEW s, Well(s), Kept(s)
  PROVE  LET t == ProcessAdio(s)
         IN  /\ Well(t) /\ Kept(t) /\ t.conf.refs = s.conf.refs /\ t.user = s.user
             /\ ~s.conf.open => t = s
<1> DEFINE c == [s.conf EXCEPT !.saving = FALSE]
           r == [s EXCEPT !.op = NoOp]
           t == [r EXCEPT !.conf = c]
<1>1. /\ ConfShape(c) /\ c.refs = s.conf.refs
      /\ (c.open <=> s.conf.open) /\ (c.shouldsave <=> s.conf.shouldsave)
  BY DEF Well, ConfShape
<1>2. Well(r) /\ r.conf = s.conf /\ r.user = s.user
  BY ShapeOfNothing, WithOp
<1>3. ProcessAdio(s) =
        IF ~(s.conf.open /\ s.conf.saving /\ s.op.done) THEN s
        ELSE IF t.conf.shouldsave \/ t.conf.refs > 0 THEN t ELSE [t EXCEPT !.conf = Closed]
  BY <1>2 DEF ProcessAdio
<1> HIDE DEF c, r
<1>4. Well(t) /\ t.conf = c /\ t.user = s.user
  BY <1>1, <1>2, WithConf DEF Well
<1> HIDE DEF t
<1>5. CASE ~(s.conf.open /\ s.conf.saving /\ s.op.done)
  BY <1>3, <1>5
<1>6. CASE /\ s.conf.open /\ s.conf.saving /\ s.op.done
           /\ t.conf.shouldsave \/ t.conf.refs > 0
  BY <1>1, <1>3, <1>4, <1>6 DEF Kept
<1>7. CASE /\ s.conf.open /\ s.conf.saving /\ s.op.done
           /\ ~(t.conf.shouldsave \/ t.conf.refs > 0)
  <2>1. ProcessAdio(s) = [t EXCEPT !.conf = Closed]
    BY <1>3, <1>7
  <2>2. ConfShape(Closed) /\ ~Closed.open /\ Closed.refs = 0
    BY ShapeOfNothing DEF Closed
  <2>3. s.conf.refs = 0
    BY <1>1, <1>4, <1>7 DEF ConfShape
  <2> HIDE DEF Closed
  <2> QED  BY <1>4, <1>7, <2>1, <2>2, <2>3, WithConf DEF Kept
<1> QED  BY <1>5, <1>6, <1>7

LEMMA SaveModifiedWell ==
  ASSUME NEW s, Well(s), Kept(s), NEW fault
  PROVE  LET t == SaveModified(s, fault)
         IN  /\ Well(t) /\ Kept(t) /\ t.conf.refs = s.conf.refs /\ t.user = s.user
             /\ ~s.conf.open => t = s
  BY ConfigSaveWell DEF SaveModified, Kept

(*---------------------------------- users ---------------------------------*)
LEMMA UserLoadWell ==
  ASSUME NEW s, Well(s), ~s.conf.open, ~s.user.on
  PROVE  LET t == UserLoad(s)
         IN  /\ Well(t) /\ Kept(t) /\ (t.user.on => t.conf.refs = 1)
             /\ s.disk = <<>> => t = s
<1> DEFINE needed == {RawRead(s.disk, p) : p \in {"username", "usergroup"}}
           u == [on |-> TRUE, group |-> RawRead(s.disk, "usergroup")]
           t == ConfigOpen(s)
<1>1. UserLoad(s) = IF "none" \in needed THEN s ELSE [t EXCEPT !.user = u]
  BY DEF UserLoad
<1>2. s.disk = <<>> => "none" \in needed
  <2>1. Begins(<<>>) = {}
    BY DEF Begins
  <2>2. s.disk = <<>> => RawRead(s.disk, "username") = "none"
    BY <2>1 DEF RawRead
  <2> QED  BY <2>2
<1>3. UserShape(u) /\ u.on
  BY DEF UserShape
<1>4. Well(t) /\ t.conf.open /\ t.conf.refs = 1
  BY ConfigOpenWell DEF Well
<1> HIDE DEF needed, u, t
<1>5. CASE "none" \in needed
  BY <1>1, <1>5 DEF Kept
<1>6. CASE "none" \notin needed
  BY <1>1, <1>2, <1>3, <1>4, <1>6, WithUser DEF Kept
<1> QED  BY <1>5, <1>6

LEMMA UserNewWell ==
  ASSUME NEW s, Well(s), NEW group, NEW fault
  PROVE  LET t == UserNew(s, group, fault)
         IN  Well(t) /\ Kept(t) /\ t.conf.refs = s.conf.refs + 1
<1> DEFINE u == [on |-> TRUE, group |-> group]
           t == ConfigOpen(s)
           opened == [t EXCEPT !.user = u]
           named == ConfigWrite(opened, "username", "short")
           grouped == ConfigWrite(named, "usergroup", group)
<1>1. UserShape(u)
  BY DEF UserShape
<1>2. Well(t) /\ t.conf.open /\ t.conf.refs = s.conf.refs + 1
  BY ConfigOpenWell
<1>3. UserNew(s, group, fault) = ConfigSave(grouped, fault)
  BY DEF UserNew
<1> HIDE DEF u, t
<1>4. Well(opened) /\ opened.conf.open /\ opened.conf.refs = s.conf.refs + 1
  BY <1>1, <1>2, WithUser
<1> HIDE DEF opened
<1>5. Well(named) /\ named.conf.open /\ named.conf.refs = s.conf.refs + 1
  BY <1>4, ConfigWriteWell
<1> HIDE DEF named
<1>6. Well(grouped) /\ grouped.conf.open /\ grouped.conf.refs = s.conf.refs + 1
  BY <1>5, ConfigWriteWell
<1> HIDE DEF grouped
<1> QED  BY <1>3, <1>6, ConfigSaveWell DEF Kept, Well, ConfShape

LEMMA UserSetWell ==
  ASSUME NEW s, Well(s), s.conf.refs = 1, NEW group, NEW fault
  PROVE  LET t == UserSet(s, group, fault)
         IN  Well(t) /\ Kept(t) /\ t.conf.refs = 1
<1> DEFINE u == [s.user EXCEPT !.group = group]
           named == [s EXCEPT !.user = u]
           grouped == ConfigWrite(named, "usergroup", group)
<1>1. UserShape(u)
  BY DEF Well, UserShape
<1>2. UserSet(s, group, fault) = ConfigSave(grouped, fault)
  BY DEF UserSet
<1> HIDE DEF u
<1>3. Well(named) /\ named.conf.open /\ named.conf.refs = 1
  BY <1>1, WithUser DEF Well
<1> HIDE DEF named
<1>4. Well(grouped) /\ grouped.conf.open /\ grouped.conf.refs = 1
  BY <1>3, ConfigWriteWell
<1> HIDE DEF grouped
<1> QED  BY <1>2, <1>4, ConfigSaveWell DEF Kept

LEMMA UserDeleteWell ==
  ASSUME NEW s, Well(s), s.conf.refs = 1, NEW fault
  PROVE  LET t == UserDelete(s, fault)
         IN  /\ Well(t) /\ Kept(t) /\ ~t.user.on /\ t.conf.refs = 0
             /\ ~s.conf.shouldsave /\ ~s.op.open =>
                   ~t.conf.open /\ ~t.op.open /\ t.disk = <<>>
<1> DEFINE r == RemoveFile(s)
           t == [r EXCEPT !.user = NoUser]
<1>1. /\ Well(r) /\ r.conf = s.conf /\ r.user = s.user /\ r.op = s.op
      /\ ~s.op.open => r.disk = <<>>
  BY RemoveFileWell
<1>2. UserDelete(s, fault) = ConfigClose(t, fault)
  BY DEF UserDelete
<1>3. UserShape(NoUser) /\ ~NoUser.on
  BY ShapeOfNothing DEF NoUser
<1> HIDE DEF r
<1>4. Well(t) /\ t.conf = s.conf /\ t.user = NoUser /\ t.op = s.op /\ t.disk = r.disk
  BY <1>1, <1>3, WithUser
<1> HIDE DEF t
<1> QED  BY <1>1, <1>2, <1>3, <1>4, ConfigCloseWell

(*--------------------------------- actions --------------------------------*)
(* Nothing is there of the file, in memory or on the disk.                 *)
Absent(s) == ~s.conf.open /\ ~s.op.open /\ s.disk = <<>>
(* A user that is loaded holds its file, which nobody else holds; before   *)
(* it is made and after it was deleted with nothing left to save, there is *)
(* none; a process that does not run keeps nothing.                        *)
Held(s) == s.user.on => kind = "user" /\ s.conf.refs = 1
Lives == kind = "user" /\ (~born \/ gone) => Absent(State)
Safe == /\ Well(State) /\ Kept(State) /\ Held(State) /\ Lives
        /\ (gone => born) /\ (born => kind = "user")
        /\ (~running => ~conf.open /\ ~user.on)

LEMMA Becomes ==
  ASSUME NEW s, Well(s), Become(s)
  PROVE  State' = s
  BY DEF Well, Become, State

LEMMA Parts ==
  State.disk = disk /\ State.conf = conf /\ State.op = op /\ State.user = user
  BY DEF State

LEMMA SafeInit == Init => Safe
<1> SUFFICES ASSUME Init PROVE Safe
  OBVIOUS
<1>1. Well(State)
  BY ShapeOfNothing DEF Init, State, Well, NoOp, Closed
<1>2. ~conf.open /\ ~op.open /\ ~user.on
  BY DEF Init, Closed, NoOp, NoUser
<1> QED  BY <1>1, <1>2, Parts DEF Init, Safe, Kept, Held, Lives, Absent

LEMMA SafeStep == Safe /\ [Next]_vars => Safe'
<1> SUFFICES ASSUME Safe, [Next]_vars PROVE Safe'
  OBVIOUS
<1> USE Parts
<1>0. /\ Well(State) /\ Kept(State) /\ Held(State) /\ Lives
      /\ (gone => born) /\ (born => kind = "user") /\ (~running => ~conf.open /\ ~user.on)
      /\ (user.on => conf.open) /\ (conf.refs > 0 => conf.open) /\ conf.refs \in Nat
      /\ op.open \/ op = NoOp
  BY DEF Safe, Well, Held, ConfShape
<1>1. CASE NewUser
  <2> PICK g \in Groups, fault \in Faults : Become(UserNew(State, g, fault))
    BY <1>1 DEF NewUser
  <2> DEFINE t == UserNew(State, g, fault)
  <2>1. Well(t) /\ Kept(t) /\ t.conf.refs = 1
    BY <1>0, <1>1, UserNewWell DEF NewUser, Lives, Absent, Well
  <2>2. State' = t
    BY <2>1, Becomes
  <2> HIDE DEF t
  <2> QED  BY <1>0, <1>1, <2>1, <2>2 DEF NewUser, Safe, Held, Lives, constants, Absent
<1>2. CASE SetUser
  <2> PICK g \in Groups, fault \in Faults : Become(UserSet(State, g, fault))
    BY <1>2 DEF SetUser
  <2> DEFINE t == UserSet(State, g, fault)
  <2>1. Well(t) /\ Kept(t) /\ t.conf.refs = 1
    BY <1>0, <1>2, UserSetWell DEF SetUser, Held
  <2>2. State' = t
    BY <2>1, Becomes
  <2> HIDE DEF t
  <2> QED  BY <1>0, <1>2, <2>1, <2>2 DEF SetUser, Safe, Held, Lives, constants, Absent
<1>3. CASE DeleteUser
  <2> PICK fault \in Faults : Become(UserDelete(State, fault))
    BY <1>3 DEF DeleteUser
  <2> DEFINE t == UserDelete(State, fault)
  <2>1. /\ Well(t) /\ Kept(t) /\ ~t.user.on /\ t.conf.refs = 0
        /\ ~conf.shouldsave /\ ~op.open => ~t.conf.open /\ ~t.op.open /\ t.disk = <<>>
    BY <1>0, <1>3, UserDeleteWell DEF DeleteUser, Held
  <2>2. State' = t
    BY <2>1, Becomes
  <2> HIDE DEF t
  <2> QED  BY <1>0, <1>3, <2>1, <2>2 DEF DeleteUser, Safe, Held, Lives, constants, Absent
<1>4. CASE ScriptOpen
  <2> DEFINE t == ConfigOpen(State)
  <2>1. Well(t) /\ Kept(t) /\ t.user = user
    BY <1>0, ConfigOpenWell DEF Kept, Well, ConfShape
  <2>2. State' = t
    BY <1>4, <2>1, Becomes DEF ScriptOpen
  <2> HIDE DEF t
  <2> QED  BY <1>0, <1>4, <2>1, <2>2 DEF ScriptOpen, Safe, Held, Lives, constants, Absent
<1>5. CASE ScriptWrite
  <2> PICK v \in Groups \cup {"none"} : Become(ConfigWrite(State, "credits", v))
    BY <1>5 DEF ScriptWrite
  <2> DEFINE t == ConfigWrite(State, "credits", v)
  <2>1. Well(t) /\ Kept(t) /\ t.conf.refs = conf.refs /\ t.user = user
    BY <1>0, <1>5, ConfigWriteWell DEF ScriptWrite, Kept
  <2>2. State' = t
    BY <2>1, Becomes
  <2> HIDE DEF t
  <2> QED  BY <1>0, <1>5, <2>1, <2>2 DEF ScriptWrite, Safe, Held, Lives, constants, Absent
<1>6. CASE ScriptClose
  <2> PICK fault \in Faults : Become(ConfigClose(State, fault))
    BY <1>6 DEF ScriptClose
  <2> DEFINE t == ConfigClose(State, fault)
  <2>1. Well(t) /\ Kept(t) /\ t.user = user
    BY <1>0, <1>6, ConfigCloseWell DEF ScriptClose
  <2>2. State' = t
    BY <2>1, Becomes
  <2> HIDE DEF t
  <2> QED  BY <1>0, <1>6, <2>1, <2>2 DEF ScriptClose, Safe, Held, Lives, constants, Absent
<1>7. ASSUME NEW fault \in Faults, ConfigPoll(fault)
      PROVE  Safe'
  <2> DEFINE r == ProcessAdio(State)
             t == SaveModified(r, fault)
  <2>1. /\ Well(r) /\ Kept(r) /\ r.conf.refs = conf.refs /\ r.user = user
        /\ ~conf.open => r = State
    BY <1>0, ProcessAdioWell
  <2>2. Become(t)
    BY <1>7 DEF ConfigPoll
  <2> HIDE DEF r
  <2>3. /\ Well(t) /\ Kept(t) /\ t.conf.refs = conf.refs /\ t.user = user
        /\ ~conf.open => t = State
    BY <2>1, SaveModifiedWell
  <2>4. State' = t
    BY <2>2, <2>3, Becomes
  <2> HIDE DEF t
  <2> QED  BY <1>0, <1>7, <2>3, <2>4 DEF ConfigPoll, Safe, Held, Lives, constants, Absent
<1>8. CASE Elapse
  <2> DEFINE c == [conf EXCEPT !.late = TRUE]
  <2>1. /\ ConfShape(c) /\ c.refs = conf.refs /\ c.open
        /\ (c.shouldsave <=> conf.shouldsave) /\ (c.saving <=> conf.saving) /\ (c.lost <=> conf.lost)
    BY <1>0, <1>8 DEF Elapse, Well, ConfShape
  <2>2. conf' = c /\ conf.open
    BY <1>8 DEF Elapse
  <2> HIDE DEF c
  <2>3. Well(State)'
    BY <1>0, <1>8, <2>1, <2>2 DEF Elapse, Well, State
  <2>4. (State.conf)' = c /\ (State.user)' = user
    BY <1>8, <2>2 DEF State, Elapse
  <2>5. Kept(State)' /\ Held(State)'
    BY <1>0, <1>8, <2>1, <2>2, <2>4 DEF Elapse, constants, Kept, Held
  <2>6. Lives'
    BY <1>0, <1>8, <2>2 DEF Elapse, constants, Lives, Absent
  <2> QED  BY <1>0, <1>8, <2>2, <2>3, <2>5, <2>6 DEF Elapse, Safe, constants
<1>9. CASE DiskWrites
  <2> DEFINE t == Land(State)
  <2>1. Well(t) /\ t.conf = conf /\ t.user = user
    BY <1>0, <1>9, LandWell DEF DiskWrites
  <2>2. State' = t /\ Become(t)
    BY <1>9, <2>1, Becomes DEF DiskWrites
  <2>3. Kept(t) /\ Held(t)
    BY <1>0, <2>1 DEF Kept, Held
  <2> HIDE DEF t
  <2>4. UNCHANGED <<kind, running, born, gone, conf, user>> /\ op.open
    BY <1>9, <2>1, <2>2 DEF DiskWrites, constants, Become
  <2>5. Held(State)'
    BY <2>2, <2>3, <2>4 DEF Held
  <2>6. Lives'
    BY <1>0, <2>4 DEF Lives, Absent
  <2> QED  BY <1>0, <2>1, <2>2, <2>3, <2>4, <2>5, <2>6 DEF Safe
<1>13. CASE DiskFails
  <2> DEFINE c == [conf EXCEPT !.lost = conf.open]
             o == [op EXCEPT !.done = TRUE]
  <2>1. /\ ConfShape(c) /\ c.refs = conf.refs /\ (c.open <=> conf.open)
        /\ (c.shouldsave <=> conf.shouldsave) /\ (c.saving <=> conf.saving)
        /\ OpShape(o) /\ o.open
    BY <1>0, <1>13 DEF DiskFails, Well, ConfShape, OpShape
  <2>2. conf' = c /\ op' = o /\ op.open /\ UNCHANGED <<kind, running, user, born, gone>>
    BY <1>13 DEF DiskFails, constants
  <2> HIDE DEF c, o
  <2>3. Well(State)'
    BY <1>0, <2>1, <2>2 DEF Well, State
  <2>4. (State.conf)' = c /\ (State.user)' = user
    BY <2>2 DEF State
  <2>5. Kept(State)' /\ Held(State)'
    BY <1>0, <2>1, <2>2, <2>4 DEF Kept, Held
  <2>6. Lives'
    BY <1>0, <2>2 DEF Lives, Absent
  <2> QED  BY <1>0, <2>1, <2>2, <2>3, <2>5, <2>6 DEF Safe
<1>10. CASE Ends
  <2>1. conf' = Closed /\ op' = NoOp /\ user' = NoUser
    BY <1>10 DEF Ends
  <2>2. Well(State)'
    BY <2>1, ShapeOfNothing DEF Well, State, Closed
  <2>3. ~op.open => disk' = disk
    BY <1>0, <1>10 DEF Ends, NoOp
  <2>4. ~conf'.open /\ ~op'.open /\ ~user'.on
    BY <2>1 DEF Closed, NoOp, NoUser
  <2>5. /\ (State.disk)' = disk' /\ (State.conf)' = conf'
        /\ (State.op)' = op' /\ (State.user)' = user'
    BY DEF State
  <2>6. Kept(State)' /\ Held(State)'
    BY <2>4, <2>5 DEF Kept, Held
  <2>7. Absent(State) => Absent(State)'
    BY <2>3, <2>4, <2>5 DEF Absent
  <2>8. Lives'
    <3>1. kind' = kind /\ born' = born /\ gone' = gone
      BY <1>10 DEF Ends, constants
    <3> QED  BY <1>0, <2>7, <3>1 DEF Lives
  <2> QED  BY <1>0, <1>10, <2>2, <2>4, <2>6, <2>8 DEF Ends, Safe, constants
<1>11. CASE Start
  <2>1. CASE kind = "user"
    <3> DEFINE t == UserLoad(State)
    <3>1. /\ Well(t) /\ Kept(t) /\ (t.user.on => t.conf.refs = 1)
          /\ disk = <<>> => t = State
      BY <1>0, <1>11, UserLoadWell DEF Start
    <3>2. State' = t
      BY <1>11, <2>1, <3>1, Becomes DEF Start
    <3> HIDE DEF t
    <3> QED  BY <1>0, <1>11, <2>1, <3>1, <3>2 DEF Start, Safe, Held, Lives, constants, Absent
  <2>2. CASE kind # "user"
    <3>1. State' = State
      BY <1>0, <1>11, <2>2, Becomes DEF Start
    <3> QED  BY <1>0, <1>11, <2>2, <3>1 DEF Start, Safe, Kept, Held, Lives, constants, Absent
  <2> QED  BY <2>1, <2>2
<1>12. CASE UNCHANGED vars
  BY <1>12 DEF vars, Safe, Well, Kept, Held, Lives, Absent, State
<1> QED  BY <1>1, <1>2, <1>3, <1>4, <1>5, <1>6, <1>7, <1>8, <1>9, <1>10, <1>11, <1>12, <1>13 DEF Next

(* The file of a user that was deleted with nothing left to save does not  *)
(* come back, over any number of ends and starts of the process            *)
(* (user_delete, users_init).                                              *)
THEOREM DeletedUsersStayDeleted == Spec => []GoneStaysGone
<1>1. Safe => GoneStaysGone
  BY Parts DEF Safe, Lives, Absent, GoneStaysGone
<1> QED  BY <1>1, SafeInit, SafeStep, PTL DEF Spec

(*----------------------------- fields and cells ---------------------------*)
Params == {"username", "usergroup", "credits"}
Values == Groups \cup {"cut"}
LineType == [param : Params, value : Values]
CellType == [line : LineType, at : {1, 2}]
(* No two fields have a name, no two lines of a file begin with it.        *)
OneEach(fields) == \A i, j \in 1 .. Len(fields) : fields[i].param = fields[j].param => i = j
Tidy(cells) == \A i, j \in Begins(cells) : cells[i].line.param = cells[j].line.param => i = j

LEMMA LeastOf ==
  ASSUME NEW T \in SUBSET Nat, T # {}
  PROVE  \E k \in T : \A m \in T : k <= m
<1> DEFINE R == OpToRel(<, Nat)
<1>1. IsWellFoundedOn(R, Nat)
  BY NatLessThanWellFounded
<1>2. ASSUME NEW k \in Nat, NEW m \in Nat, m < k
      PROVE  <<m, k>> \in R
  BY <1>2 DEF OpToRel
<1> HIDE DEF R
<1>3. PICK k \in T : \A m \in T : ~ (<<m, k>> \in R)
  BY <1>1, WFMin
<1>4. ASSUME NEW m \in T PROVE k <= m
  <2>1. m \in Nat /\ k \in Nat
    OBVIOUS
  <2>2. ~(m < k)
    BY <1>2, <1>3, <2>1
  <2> QED  BY <2>1, <2>2
<1> QED  BY <1>4

(* Induction up to n, for a set of numbers.                                *)
LEMMA UpTo ==
  ASSUME NEW n \in Nat, NEW T \in SUBSET (0 .. n), 0 \in T,
         \A k \in 1 .. n : k - 1 \in T => k \in T
  PROVE  T = 0 .. n
<1> DEFINE U == (0 .. n) \ T
<1>1. SUFFICES ASSUME U # {} PROVE FALSE
  OBVIOUS
<1>2. U \in SUBSET Nat
  OBVIOUS
<1> HIDE DEF U
<1>3. PICK k \in U : \A m \in U : k <= m
  BY <1>1, <1>2, LeastOf
<1>4. k \in 1 .. n /\ k \notin T
  BY <1>3 DEF U
<1>5. k - 1 \notin U
  BY <1>3, <1>4
<1>6. k - 1 \in T
  BY <1>4, <1>5 DEF U
<1> QED  BY <1>4, <1>6

LEMMA DumpSteps ==
  ASSUME NEW fields, Len(fields) \in Nat
  PROVE  \E g : /\ g[0] = <<>> /\ Dump(fields) = g[Len(fields)]
                /\ \A k \in 1 .. Len(fields) : g[k] = g[k - 1] \o LineCells(fields[k])
<1> DEFINE n == Len(fields)
           Loop(g) == g = [k \in 0 .. Len(fields) |->
                              IF k = 0 THEN <<>> ELSE g[k - 1] \o LineCells(fields[k])]
           r == CHOOSE g : Loop(g)
           So(g, k) == g[0] = <<>> /\ \A i \in 1 .. k : g[i] = g[i - 1] \o LineCells(fields[i])
           T == {k \in 0 .. n : \E g : So(g, k)}
<1>1. Dump(fields) = r[n]
  BY DEF Dump
<1>2. 0 \in T
  <2>1. So([i \in {0} |-> <<>>], 0)
    OBVIOUS
  <2> HIDE DEF So
  <2>2. \E g : So(g, 0)
    BY <2>1
  <2> QED  BY <2>2
<1>3. ASSUME NEW k \in 1 .. n, k - 1 \in T PROVE k \in T
  <2>1. PICK g : So(g, k - 1)
    BY <1>3
  <2> DEFINE h == [i \in 0 .. k |-> IF i = k THEN g[k - 1] \o LineCells(fields[k]) ELSE g[i]]
  <2>2. h[0] = <<>>
    BY <2>1
  <2>3. ASSUME NEW i \in 1 .. k PROVE h[i] = h[i - 1] \o LineCells(fields[i])
    <3>1. i - 1 \in 0 .. k /\ i - 1 # k /\ i \in 0 .. k
      OBVIOUS
    <3>2. CASE i = k
      BY <3>1, <3>2
    <3>3. CASE i # k
      <4>1. i \in 1 .. k - 1
        BY <3>3
      <4> QED  BY <2>1, <3>1, <3>3, <4>1
    <3> QED  BY <3>2, <3>3
  <2> HIDE DEF h
  <2>4. So(h, k)
    BY <2>2, <2>3
  <2> HIDE DEF So
  <2>5. \E f : So(f, k)
    BY <2>4
  <2> QED  BY <2>5
<1>4. n \in T
  <2>1. T \in SUBSET (0 .. n)
    OBVIOUS
  <2> HIDE DEF T
  <2>2. T = 0 .. n
    BY <1>2, <1>3, <2>1, UpTo
  <2> QED  BY <2>2
<1>5. PICK g : So(g, n)
  BY <1>4
<1>6. \E q : Loop(q)
  <2> DEFINE q == [k \in 0 .. n |-> g[k]]
  <2>1. ASSUME NEW k \in 0 .. n
        PROVE  q[k] = IF k = 0 THEN <<>> ELSE q[k - 1] \o LineCells(fields[k])
    <3>1. k # 0 => k - 1 \in 0 .. n /\ k \in 1 .. n
      OBVIOUS
    <3> QED  BY <1>5, <3>1
  <2>2. Loop(q)
    BY <2>1
  <2> QED  BY <2>2
<1>7. Loop(r)
  BY <1>6
<1> HIDE DEF r
<1>8. r[0] = <<>> /\ \A k \in 1 .. n : r[k] = r[k - 1] \o LineCells(fields[k])
  <2>1. ASSUME NEW k \in 0 .. n
        PROVE  r[k] = IF k = 0 THEN <<>> ELSE r[k - 1] \o LineCells(fields[k])
    BY <1>7
  <2>2. \A k \in 1 .. n : k \in 0 .. n /\ k # 0
    OBVIOUS
  <2>3. 0 \in 0 .. n
    OBVIOUS
  <2> HIDE DEF n, Loop
  <2> QED  BY <2>1, <2>2, <2>3
<1>9. Dump(fields) = r[Len(fields)]
  BY <1>1
<1> HIDE DEF r
<1> QED  BY <1>8, <1>9

LEMMA LoadSteps ==
  ASSUME NEW cells, Len(cells) \in Nat
  PROVE  \E g : /\ g[0] = <<>> /\ Load(cells) = g[Len(cells)]
                /\ \A j \in 1 .. Len(cells) :
                      g[j] = IF j \in Begins(cells) THEN <<LineAt(cells, j)>> \o g[j - 1]
                             ELSE g[j - 1]
<1> DEFINE n == Len(cells)
           Step(j, q) == IF j \in Begins(cells) THEN <<LineAt(cells, j)>> \o q ELSE q
           Loop(g) == g = [j \in 0 .. Len(cells) |->
                              IF j = 0 THEN <<>>
                              ELSE IF j \in Begins(cells) THEN <<LineAt(cells, j)>> \o g[j - 1]
                              ELSE g[j - 1]]
           r == CHOOSE g : Loop(g)
           So(g, k) == g[0] = <<>> /\ \A i \in 1 .. k : g[i] = Step(i, g[i - 1])
           T == {k \in 0 .. n : \E g : So(g, k)}
<1>1. Load(cells) = r[n]
  BY DEF Load
<1>2. 0 \in T
  <2>1. So([i \in {0} |-> <<>>], 0)
    OBVIOUS
  <2> HIDE DEF So
  <2>2. \E g : So(g, 0)
    BY <2>1
  <2> QED  BY <2>2
<1>3. ASSUME NEW k \in 1 .. n, k - 1 \in T PROVE k \in T
  <2>1. PICK g : So(g, k - 1)
    BY <1>3
  <2> DEFINE h == [i \in 0 .. k |-> IF i = k THEN Step(k, g[k - 1]) ELSE g[i]]
  <2> HIDE DEF Step
  <2>2. h[0] = <<>>
    BY <2>1
  <2>3. ASSUME NEW i \in 1 .. k PROVE h[i] = Step(i, h[i - 1])
    <3>1. i - 1 \in 0 .. k /\ i - 1 # k /\ i \in 0 .. k
      OBVIOUS
    <3>2. CASE i = k
      BY <3>1, <3>2
    <3>3. CASE i # k
      <4>1. i \in 1 .. k - 1
        BY <3>3
      <4> QED  BY <2>1, <3>1, <3>3, <4>1
    <3> QED  BY <3>2, <3>3
  <2> HIDE DEF h
  <2>4. So(h, k)
    BY <2>2, <2>3
  <2> HIDE DEF So
  <2>5. \E f : So(f, k)
    BY <2>4
  <2> QED  BY <2>5
<1>4. n \in T
  <2>1. T \in SUBSET (0 .. n)
    OBVIOUS
  <2> HIDE DEF T
  <2>2. T = 0 .. n
    BY <1>2, <1>3, <2>1, UpTo
  <2> QED  BY <2>2
<1>5. PICK g : So(g, n)
  BY <1>4
<1>6. \E q : Loop(q)
  <2> DEFINE q == [k \in 0 .. n |-> g[k]]
  <2>1. ASSUME NEW k \in 0 .. n
        PROVE  q[k] = IF k = 0 THEN <<>> ELSE Step(k, q[k - 1])
    <3>1. k # 0 => k - 1 \in 0 .. n /\ k \in 1 .. n
      OBVIOUS
    <3> HIDE DEF Step
    <3> QED  BY <1>5, <3>1
  <2>2. Loop(q)
    BY <2>1
  <2> QED  BY <2>2
<1>7. Loop(r)
  BY <1>6
<1> HIDE DEF r
<1>8. r[0] = <<>> /\ \A k \in 1 .. n : r[k] = Step(k, r[k - 1])
  <2>1. ASSUME NEW j \in 0 .. n
        PROVE  r[j] = IF j = 0 THEN <<>> ELSE Step(j, r[j - 1])
    BY <1>7
  <2>2. \A j \in 1 .. n : j \in 0 .. n /\ j # 0
    OBVIOUS
  <2>3. 0 \in 0 .. n
    OBVIOUS
  <2> HIDE DEF n, Loop, Step
  <2> QED  BY <2>1, <2>2, <2>3
<1>9. Load(cells) = r[Len(cells)]
  BY <1>1
<1> HIDE DEF r
<1> QED  BY <1>8, <1>9

LEMMA Shapes ==
  /\ \A p \in Params, v \in Values : Line(p, v) \in LineType
  /\ \A l \in LineType : /\ Width(l) \in {1, 2} /\ Line(l.param, "cut") \in LineType
                         /\ Line(l.param, l.value) = l
  BY DEF Line, LineType, Params, Values, Width

(*------------------------------- what is written --------------------------*)
(* The first k fields are written as cells: where each begins.             *)
Dumped(cells, fields, k) ==
    /\ cells \in Seq(CellType)
    /\ \E at \in [1 .. k -> 1 .. Len(cells)] :
          /\ Begins(cells) = {at[i] : i \in 1 .. k}
          /\ \A i \in 1 .. k :
                /\ cells[at[i]] = [line |-> fields[i], at |-> 1]
                /\ Width(fields[i]) = 2 =>
                      /\ at[i] < Len(cells)
                      /\ cells[at[i] + 1] = [line |-> fields[i], at |-> 2]

LEMMA DumpedMore ==
  ASSUME NEW fields \in Seq(LineType), NEW k \in 1 .. Len(fields),
         NEW cells, Dumped(cells, fields, k - 1)
  PROVE  Dumped(cells \o LineCells(fields[k]), fields, k)
<1> DEFINE l == fields[k]
           n == Len(cells)
           w == Width(l)
           added == LineCells(l)
           all == cells \o added
<1>1. l \in LineType
  BY ElementOfSeq
<1>2. w \in {1, 2}
  BY <1>1, Shapes
<1>3. cells \in Seq(CellType) /\ n \in Nat
  BY LenProperties DEF Dumped
<1>4. added \in Seq(CellType) /\ Len(added) = w /\ \A i \in 1 .. w : added[i] = [line |-> l, at |-> i]
  <2>1. added = [i \in 1 .. w |-> [line |-> l, at |-> i]]
    BY DEF LineCells
  <2>2. \A i \in 1 .. w : [line |-> l, at |-> i] \in CellType
    BY <1>1, <1>2 DEF CellType
  <2> HIDE DEF added, w, l
  <2> QED  BY <1>2, <2>1, <2>2, IsASeq, LenProperties
<1> HIDE DEF added
<1>5. /\ all \in Seq(CellType) /\ Len(all) = n + w
      /\ \A i \in 1 .. n + w : all[i] = IF i <= n THEN cells[i] ELSE added[i - n]
  BY <1>3, <1>4, ConcatProperties
<1>6. PICK at \in [1 .. k - 1 -> 1 .. n] :
          /\ Begins(cells) = {at[i] : i \in 1 .. k - 1}
          /\ \A i \in 1 .. k - 1 :
                /\ cells[at[i]] = [line |-> fields[i], at |-> 1]
                /\ Width(fields[i]) = 2 =>
                      /\ at[i] < n
                      /\ cells[at[i] + 1] = [line |-> fields[i], at |-> 2]
  BY DEF Dumped
<1> DEFINE to == [i \in 1 .. k |-> IF i = k THEN n + 1 ELSE at[i]]
<1> HIDE DEF all, n, w, l
<1>7. k \in Nat /\ k >= 1 /\ \A i \in 1 .. k : i # k => i \in 1 .. k - 1
  <2>1. Len(fields) \in Nat
    BY LenProperties
  <2> QED  BY <2>1
<1>8. /\ to \in [1 .. k -> 1 .. n + w] /\ to[k] = n + 1
      /\ \A i \in 1 .. k - 1 : to[i] = at[i] /\ at[i] \in 1 .. n
  BY <1>2, <1>3, <1>6, <1>7
<1> HIDE DEF to
<1>9. Begins(all) = {to[i] : i \in 1 .. k}
  <2>1. ASSUME NEW j \in 1 .. n + w, all[j].at = 1
        PROVE  \E i \in 1 .. k : j = to[i]
    <3>1. CASE j <= n
      <4>1. j \in Begins(cells)
        BY <1>3, <1>5, <2>1, <3>1 DEF Begins, n
      <4>2. PICK i \in 1 .. k - 1 : j = at[i]
        BY <1>6, <4>1
      <4> QED  BY <1>7, <1>8, <4>2
    <3>2. CASE ~(j <= n)
      <4>1. j - n \in 1 .. w /\ all[j] = added[j - n]
        BY <1>2, <1>3, <1>5, <3>2
      <4>2. added[j - n].at = j - n
        BY <1>4, <4>1
      <4>3. j = n + 1
        BY <1>3, <2>1, <4>1, <4>2
      <4> QED  BY <1>7, <1>8, <4>3
    <3> QED  BY <3>1, <3>2
  <2>2. ASSUME NEW i \in 1 .. k
        PROVE  to[i] \in 1 .. n + w /\ all[to[i]].at = 1
    <3>1. to[i] \in 1 .. n + w
      BY <1>8
    <3>2. CASE i = k
      <4>1. all[n + 1] = added[1]
        BY <1>2, <1>3, <1>5
      <4>2. added[1].at = 1
        BY <1>2, <1>4
      <4> QED  BY <1>8, <3>1, <3>2, <4>1, <4>2
    <3>3. CASE i # k
      <4>1. i \in 1 .. k - 1 /\ to[i] = at[i] /\ at[i] \in 1 .. n
        BY <1>7, <1>8, <3>3
      <4>2. all[at[i]] = cells[at[i]]
        BY <1>2, <1>3, <1>5, <4>1
      <4>3. cells[at[i]] = [line |-> fields[i], at |-> 1]
        BY <1>6, <4>1
      <4>4. [line |-> fields[i], at |-> 1].at = 1
        OBVIOUS
      <4> QED  BY <3>1, <4>1, <4>2, <4>3, <4>4
    <3> QED  BY <3>2, <3>3
  <2> QED  BY <1>5, <2>1, <2>2 DEF Begins
<1>10. ASSUME NEW i \in 1 .. k
       PROVE  /\ all[to[i]] = [line |-> fields[i], at |-> 1]
              /\ Width(fields[i]) = 2 =>
                    to[i] < n + w /\ all[to[i] + 1] = [line |-> fields[i], at |-> 2]
  <2>1. CASE i = k
    <3>1. all[n + 1] = added[1] /\ (w = 2 => all[n + 2] = added[2])
      BY <1>2, <1>3, <1>5
    <3>2. added[1] = [line |-> l, at |-> 1] /\ (w = 2 => added[2] = [line |-> l, at |-> 2])
      BY <1>2, <1>4
    <3>3. fields[i] = l /\ Width(fields[i]) = w /\ to[i] = n + 1
      BY <1>8, <2>1 DEF l, w
    <3>4. w = 2 => to[i] < n + w /\ to[i] + 1 = n + 2
      BY <1>3, <3>3
    <3> QED  BY <3>1, <3>2, <3>3, <3>4
  <2>2. CASE i # k
    <3>1. i \in 1 .. k - 1 /\ to[i] = at[i] /\ at[i] \in 1 .. n
      BY <1>7, <1>8, <2>2
    <3>2. all[at[i]] = cells[at[i]]
      BY <1>2, <1>3, <1>5, <3>1
    <3>3. at[i] < n => at[i] < n + w /\ all[at[i] + 1] = cells[at[i] + 1]
      BY <1>2, <1>3, <1>5, <3>1
    <3> QED  BY <1>6, <3>1, <3>2, <3>3
  <2> QED  BY <2>1, <2>2
<1>11. Dumped(all, fields, k)
  BY <1>5, <1>8, <1>9, <1>10 DEF Dumped
<1> QED  BY <1>11 DEF all, added, l

LEMMA DumpIs ==
  ASSUME NEW fields \in Seq(LineType)
  PROVE  Dumped(Dump(fields), fields, Len(fields))
<1> DEFINE n == Len(fields)
<1>1. n \in Nat
  BY LenProperties
<1>2. PICK g : /\ g[0] = <<>> /\ Dump(fields) = g[n]
               /\ \A k \in 1 .. n : g[k] = g[k - 1] \o LineCells(fields[k])
  BY <1>1, DumpSteps
<1> DEFINE T == {k \in 0 .. n : Dumped(g[k], fields, k)}
<1>3. Dumped(<<>>, fields, 0)
  <2>1. <<>> \in Seq(CellType) /\ Len(<<>>) = 0
    BY EmptySeq
  <2>2. Begins(<<>>) = {}
    BY <2>1 DEF Begins
  <2>3. [i \in {} |-> 0] \in [1 .. 0 -> 1 .. Len(<<>>)]
    BY <2>1
  <2> QED  BY <2>1, <2>2, <2>3 DEF Dumped
<1>4. 0 \in T
  BY <1>1, <1>2, <1>3
<1>5. ASSUME NEW k \in 1 .. n, k - 1 \in T PROVE k \in T
  <2>1. Dumped(g[k - 1], fields, k - 1)
    BY <1>5
  <2>2. Dumped(g[k - 1] \o LineCells(fields[k]), fields, k)
    BY <2>1, DumpedMore
  <2>3. Dumped(g[k], fields, k)
    BY <1>2, <2>2
  <2> QED  BY <2>3
<1>6. T \in SUBSET (0 .. n)
  OBVIOUS
<1>7. n \in T => Dumped(g[n], fields, n)
  OBVIOUS
<1> HIDE DEF T
<1>8. T = 0 .. n
  BY <1>1, <1>4, <1>5, <1>6, UpTo
<1> QED  BY <1>1, <1>2, <1>7, <1>8

(*--------------------------------- what is read ---------------------------*)
LEMMA WholeLine ==
  ASSUME NEW cells, NEW l, NEW j \in 1 .. Len(cells), cells[j] = [line |-> l, at |-> 1],
         Width(l) = 2 => j < Len(cells) /\ cells[j + 1] = [line |-> l, at |-> 2]
  PROVE  j \in Begins(cells) /\ LineAt(cells, j) = l
<1>1. cells[j].line = l /\ cells[j].at = 1
  OBVIOUS
<1>2. ~(Width(l) = 2 /\ (j = Len(cells) \/ cells[j + 1] # [line |-> l, at |-> 2]))
  <2>1. j < Len(cells) => j # Len(cells)
    OBVIOUS
  <2> QED  BY <2>1
<1> QED  BY <1>1, <1>2 DEF Begins, LineAt

LEMMA LineTyped ==
  ASSUME NEW cells \in Seq(CellType), NEW j \in Begins(cells)
  PROVE  /\ j \in 1 .. Len(cells) /\ cells[j].line \in LineType /\ LineAt(cells, j) \in LineType
         /\ LineAt(cells, j).param = cells[j].line.param
<1> DEFINE l == cells[j].line
<1>1. j \in 1 .. Len(cells) /\ l \in LineType
  <2>1. j \in 1 .. Len(cells)
    BY DEF Begins
  <2>2. cells[j] \in CellType
    BY <2>1, ElementOfSeq
  <2> QED  BY <2>1, <2>2 DEF CellType
<1>2. LineAt(cells, j) \in {l, Line(l.param, "cut")}
  BY DEF LineAt
<1>3. Line(l.param, "cut").param = l.param
  BY DEF Line
<1> HIDE DEF l
<1>4. LineAt(cells, j).param = l.param /\ LineAt(cells, j) \in LineType
  BY <1>1, <1>2, <1>3, Shapes
<1> QED  BY <1>1, <1>4 DEF l

(* What is written over a file begins it, whatever the file held before.   *)
LEMMA LandedIs ==
  ASSUME NEW fields \in Seq(LineType), NEW rest \in Seq(CellType)
  PROVE  /\ Dump(fields) \in Seq(CellType) /\ Dump(fields) \o rest \in Seq(CellType)
         /\ ToSet(fields) \subseteq Lines(Dump(fields) \o rest)
<1> DEFINE cells == Dump(fields)
           n == Len(cells)
           k == Len(fields)
           all == cells \o rest
<1>1. Dumped(cells, fields, k)
  BY DumpIs
<1>2. PICK at \in [1 .. k -> 1 .. n] :
          \A i \in 1 .. k :
             /\ cells[at[i]] = [line |-> fields[i], at |-> 1]
             /\ Width(fields[i]) = 2 =>
                   /\ at[i] < n
                   /\ cells[at[i] + 1] = [line |-> fields[i], at |-> 2]
  BY <1>1 DEF Dumped
<1>3. cells \in Seq(CellType) /\ n \in Nat /\ Len(rest) \in Nat
  BY <1>1, LenProperties DEF Dumped
<1>4. /\ all \in Seq(CellType) /\ Len(all) = n + Len(rest)
      /\ \A j \in 1 .. n : j \in 1 .. Len(all) /\ all[j] = cells[j]
  BY <1>3, ConcatProperties
<1>5. ToSet(fields) = {fields[i] : i \in 1 .. k}
  BY LenProperties DEF ToSet
<1> HIDE DEF cells, n, all, k
<1>6. ASSUME NEW i \in 1 .. k PROVE fields[i] \in Lines(all)
  <2>1. at[i] \in 1 .. n
    BY <1>2
  <2>2. at[i] \in 1 .. Len(all) /\ all[at[i]] = [line |-> fields[i], at |-> 1]
    BY <1>2, <1>4, <2>1
  <2>3. Width(fields[i]) = 2 =>
           at[i] < Len(all) /\ all[at[i] + 1] = [line |-> fields[i], at |-> 2]
    <3>1. at[i] < n => at[i] + 1 \in 1 .. n /\ at[i] < Len(all)
      BY <1>3, <1>4, <2>1
    <3> QED  BY <1>2, <1>4, <3>1
  <2>4. at[i] \in Begins(all) /\ LineAt(all, at[i]) = fields[i]
    BY <2>2, <2>3, WholeLine
  <2> QED  BY <2>4 DEF Lines
<1>7. ToSet(fields) \subseteq Lines(all)
  BY <1>5, <1>6
<1> QED  BY <1>3, <1>4, <1>7 DEF all, cells

(* A file that was cut holds the fields that were written, and no others.  *)
LEMMA DumpLines ==
  ASSUME NEW fields \in Seq(LineType)
  PROVE  /\ Lines(Dump(fields)) = ToSet(fields)
         /\ OneEach(fields) => Tidy(Dump(fields))
<1> DEFINE cells == Dump(fields)
           n == Len(cells)
           k == Len(fields)
<1>1. Dumped(cells, fields, k)
  BY DumpIs
<1>2. PICK at \in [1 .. k -> 1 .. n] :
          /\ Begins(cells) = {at[i] : i \in 1 .. k}
          /\ \A i \in 1 .. k :
             /\ cells[at[i]] = [line |-> fields[i], at |-> 1]
             /\ Width(fields[i]) = 2 =>
                   /\ at[i] < n
                   /\ cells[at[i] + 1] = [line |-> fields[i], at |-> 2]
  BY <1>1 DEF Dumped
<1>3. ToSet(fields) = {fields[i] : i \in 1 .. k}
  BY LenProperties DEF ToSet
<1> HIDE DEF cells, k
<1>4. ASSUME NEW i \in 1 .. k
      PROVE  at[i] \in Begins(cells) /\ LineAt(cells, at[i]) = fields[i]
  BY <1>2, WholeLine
<1>5. Lines(cells) = ToSet(fields)
  BY <1>2, <1>3, <1>4 DEF Lines
<1>6. ASSUME OneEach(fields) PROVE Tidy(cells)
  <2> SUFFICES ASSUME NEW a \in Begins(cells), NEW b \in Begins(cells),
                      cells[a].line.param = cells[b].line.param
               PROVE  a = b
    BY DEF Tidy
  <2>1. PICK i \in 1 .. k : a = at[i]
    BY <1>2
  <2>2. PICK j \in 1 .. k : b = at[j]
    BY <1>2
  <2>3. cells[a] = [line |-> fields[i], at |-> 1] /\ cells[b] = [line |-> fields[j], at |-> 1]
    BY <1>2, <2>1, <2>2
  <2>4. fields[i].param = fields[j].param
    BY <2>3
  <2>5. i = j
    BY <1>6, <2>4 DEF OneEach, k
  <2> QED  BY <2>1, <2>2, <2>5
<1> QED  BY <1>5, <1>6 DEF cells

LEMMA TidyPrefix ==
  ASSUME NEW cells \in Seq(CellType), NEW m \in 0 .. Len(cells)
  PROVE  /\ SubSeq(cells, 1, m) \in Seq(CellType)
         /\ Tidy(cells) => Tidy(SubSeq(cells, 1, m))
<1> DEFINE part == SubSeq(cells, 1, m)
           n == Len(cells)
<1>1. n \in Nat
  BY LenProperties
<1>2. part \in Seq(CellType) /\ Len(part) = m /\ \A i \in 1 .. m : part[i] = cells[i]
  <2>1. m \in Nat /\ m <= n
    BY <1>1
  <2>2. \A i \in 1 .. m : cells[i] \in CellType
    BY <1>1, <2>1, ElementOfSeq
  <2>3. part = [i \in 1 .. m |-> cells[i]]
    BY <1>1, <2>1
  <2> HIDE DEF part
  <2> QED  BY <2>1, <2>2, <2>3, IsASeq, LenProperties
<1>3. \A i \in Begins(part) : i \in Begins(cells) /\ part[i] = cells[i]
  BY <1>1, <1>2 DEF Begins
<1> HIDE DEF part
<1>4. Tidy(cells) => Tidy(part)
  BY <1>3 DEF Tidy
<1> QED  BY <1>2, <1>4 DEF part

LEMMA NothingHeld ==
  <<>> \in Seq(CellType) /\ <<>> \in Seq(LineType) /\ Tidy(<<>>) /\ OneEach(<<>>)
<1>1. Begins(<<>>) = {}
  BY DEF Begins
<1> QED  BY <1>1 DEF Tidy, OneEach

(*--------------------------------- the fields -----------------------------*)
LEMMA Prepended ==
  ASSUME NEW fields \in Seq(LineType), NEW l \in LineType
  PROVE  LET all == <<l>> \o fields
         IN  /\ all \in Seq(LineType) /\ ToSet(all) = {l} \cup ToSet(fields)
             /\ OneEach(fields) /\ (\A m \in ToSet(fields) : m.param # l.param) => OneEach(all)
<1> DEFINE all == <<l>> \o fields
           n == Len(fields)
<1>1. n \in Nat
  BY LenProperties
<1>2. /\ all \in Seq(LineType) /\ Len(all) = n + 1 /\ all[1] = l
      /\ \A i \in 2 .. n + 1 : all[i] = fields[i - 1]
  <2>1. <<l>> \in Seq(LineType) /\ Len(<<l>>) = 1 /\ <<l>>[1] = l
    OBVIOUS
  <2>2. \A i \in 2 .. n + 1 : i \in 1 .. n + 1 /\ ~(i <= 1)
    BY <1>1
  <2> QED  BY <1>1, <2>1, <2>2, ConcatProperties
<1>3. ToSet(all) = {all[i] : i \in 1 .. n + 1} /\ ToSet(fields) = {fields[i] : i \in 1 .. n}
  BY <1>2, LenProperties DEF ToSet
<1> HIDE DEF all, n
<1>4. \A i \in 1 .. n + 1 : i = 1 \/ (i \in 2 .. n + 1 /\ i - 1 \in 1 .. n)
  BY <1>1
<1>5. \A i \in 1 .. n : i + 1 \in 2 .. n + 1 /\ i + 1 \in 1 .. n + 1 /\ i + 1 - 1 = i
  BY <1>1
<1>6. 1 \in 1 .. n + 1
  BY <1>1
<1>7. ToSet(all) = {l} \cup ToSet(fields)
  <2>1. \A i \in 1 .. n + 1 : all[i] \in {l} \cup ToSet(fields)
    BY <1>2, <1>3, <1>4
  <2>2. \A i \in 1 .. n : fields[i] = all[i + 1] /\ fields[i] \in ToSet(all)
    BY <1>2, <1>3, <1>5
  <2>3. l \in ToSet(all)
    BY <1>2, <1>3, <1>6
  <2> QED  BY <1>3, <2>1, <2>2, <2>3
<1>8. ASSUME OneEach(fields), \A m \in ToSet(fields) : m.param # l.param
      PROVE  OneEach(all)
  <2> SUFFICES ASSUME NEW i \in 1 .. n + 1, NEW j \in 1 .. n + 1, all[i].param = all[j].param
               PROVE  i = j
    BY <1>2 DEF OneEach
  <2>1. ASSUME NEW k \in 2 .. n + 1
        PROVE  all[k].param # l.param
    BY <1>2, <1>3, <1>4, <1>8, <2>1
  <2>2. i = 1 <=> j = 1
    BY <1>2, <1>4, <2>1
  <2>3. CASE i # 1 /\ j # 1
    <3>1. /\ i - 1 \in 1 .. n /\ j - 1 \in 1 .. n
          /\ all[i] = fields[i - 1] /\ all[j] = fields[j - 1]
      BY <1>2, <1>4, <2>3
    <3>2. i - 1 = j - 1
      BY <1>8, <3>1 DEF OneEach, n
    <3> QED  BY <3>1, <3>2
  <2> QED  BY <2>2, <2>3
<1> QED  BY <1>2, <1>7, <1>8 DEF all

LEMMA RemovedAt ==
  ASSUME NEW fields \in Seq(LineType), NEW k \in 1 .. Len(fields)
  PROVE  LET left == RemoveAt(fields, k)
         IN  /\ left \in Seq(LineType)
             /\ \A i \in 1 .. Len(fields) : i # k => fields[i] \in ToSet(left)
             /\ OneEach(fields) => OneEach(left)
<1> DEFINE n == Len(fields)
           left == RemoveAt(fields, k)
           from(i) == IF i < k THEN i ELSE i + 1
<1>1. n \in Nat /\ k \in 1 .. n
  BY LenProperties
<1>2. left = [i \in 1 .. n - 1 |-> fields[from(i)]]
  <2> DEFINE a == SubSeq(fields, 1, k - 1)
             b == SubSeq(fields, k + 1, n)
  <2>1. a \in Seq(LineType) /\ Len(a) = k - 1 /\ \A i \in 1 .. k - 1 : a[i] = fields[i]
    BY <1>1
  <2>2. b \in Seq(LineType) /\ Len(b) = n - k /\ \A i \in 1 .. n - k : b[i] = fields[k + i]
    BY <1>1
  <2>3. left = a \o b
    BY DEF RemoveAt
  <2> HIDE DEF a, b, left
  <2>4. /\ left \in Seq(LineType) /\ Len(left) = n - 1
        /\ \A i \in 1 .. n - 1 : left[i] = IF i <= k - 1 THEN a[i] ELSE b[i - (k - 1)]
    <3>1. /\ left \in Seq(LineType) /\ Len(left) = Len(a) + Len(b)
          /\ \A i \in 1 .. Len(a) + Len(b) :
                left[i] = IF i <= Len(a) THEN a[i] ELSE b[i - Len(a)]
      BY <2>1, <2>2, <2>3, ConcatProperties
    <3>2. Len(a) + Len(b) = n - 1
      BY <1>1, <2>1, <2>2
    <3> QED  BY <2>1, <3>1, <3>2
  <2>5. ASSUME NEW i \in 1 .. n - 1 PROVE left[i] = fields[from(i)]
    <3>1. CASE i < k
      BY <1>1, <2>1, <2>4, <3>1
    <3>2. CASE ~(i < k)
      <4>1. i - (k - 1) \in 1 .. n - k /\ k + (i - (k - 1)) = i + 1 /\ ~(i <= k - 1)
        BY <1>1, <3>2
      <4> QED  BY <2>2, <2>4, <3>2, <4>1
    <3> QED  BY <3>1, <3>2
  <2> HIDE DEF from
  <2> QED  BY <2>4, <2>5, LenProperties
<1> HIDE DEF left
<1>3. \A i \in 1 .. n - 1 : from(i) \in 1 .. n /\ from(i) # k
  BY <1>1
<1>4. \A i, j \in 1 .. n - 1 : from(i) = from(j) => i = j
  BY <1>1
<1>5. ASSUME NEW i \in 1 .. n, i # k PROVE \E j \in 1 .. n - 1 : from(j) = i
  <2>1. CASE i < k
    BY <1>1, <2>1
  <2>2. CASE ~(i < k)
    <3>1. i - 1 \in 1 .. n - 1 /\ from(i - 1) = i
      BY <1>1, <1>5, <2>2
    <3> QED  BY <3>1
  <2> QED  BY <2>1, <2>2
<1> HIDE DEF from
<1>6. left \in Seq(LineType) /\ Len(left) = n - 1
  <2>1. n - 1 \in Nat
    BY <1>1
  <2>2. \A i \in 1 .. n - 1 : fields[from(i)] \in LineType
    BY <1>3, ElementOfSeq
  <2>3. left \in Seq(LineType)
    BY <1>2, <2>1, <2>2, IsASeq
  <2> QED  BY <1>2, <2>1, <2>3, LenProperties
<1>7. ToSet(left) = {left[i] : i \in 1 .. n - 1}
  BY <1>6, LenProperties DEF ToSet
<1>8. ASSUME NEW i \in 1 .. n, i # k PROVE fields[i] \in ToSet(left)
  <2>1. PICK j \in 1 .. n - 1 : from(j) = i
    BY <1>5, <1>8
  <2>2. left[j] = fields[i]
    BY <1>2, <2>1
  <2> QED  BY <1>7, <2>2
<1>9. ASSUME OneEach(fields) PROVE OneEach(left)
  <2> SUFFICES ASSUME NEW i \in 1 .. n - 1, NEW j \in 1 .. n - 1, left[i].param = left[j].param
               PROVE  i = j
    BY <1>6 DEF OneEach
  <2>1. fields[from(i)].param = fields[from(j)].param
    BY <1>2
  <2>2. from(i) = from(j)
    BY <1>3, <1>9, <2>1 DEF OneEach
  <2> QED  BY <1>4, <2>2
<1> QED  BY <1>6, <1>8, <1>9 DEF left

(* config_get_field finds a field of that name, if there is one.           *)
LEMMA FieldFound ==
  ASSUME NEW fields \in Seq(LineType), NEW p, Matching(fields, p) # {}
  PROVE  FieldAt(fields, p) \in 1 .. Len(fields) /\ fields[FieldAt(fields, p)].param = p
<1>1. Matching(fields, p) \in SUBSET Nat
  <2>1. Len(fields) \in Nat
    BY LenProperties
  <2> QED  BY <2>1 DEF Matching
<1>2. \E k \in Matching(fields, p) : \A j \in Matching(fields, p) : k <= j
  BY <1>1, LeastOf
<1>3. FieldAt(fields, p) \in Matching(fields, p)
  BY <1>2 DEF FieldAt
<1> QED  BY <1>3 DEF Matching

LEMMA PreadOne ==
  ASSUME NEW fields \in Seq(LineType), OneEach(fields), NEW l \in ToSet(fields)
  PROVE  Pread(fields, l.param) = l.value
<1>1. PICK k \in 1 .. Len(fields) : fields[k] = l
  BY LenProperties DEF ToSet
<1>2. k \in Matching(fields, l.param)
  BY <1>1 DEF Matching
<1>3. FieldAt(fields, l.param) = k
  BY <1>1, <1>2, FieldFound DEF OneEach
<1> QED  BY <1>1, <1>2, <1>3 DEF Pread

(* config_write: what it leaves, and that the field is then there.         *)
Changed(fields, p, v) ==
    IF Matching(fields, p) = {} THEN <<Line(p, v)>> \o fields
    ELSE IF v = "none" THEN RemoveAt(fields, FieldAt(fields, p))
    ELSE [fields EXCEPT ![FieldAt(fields, p)] = Line(p, v)]

LEMMA ChangedIs ==
  ASSUME NEW fields \in Seq(LineType), NEW p \in Params, NEW v \in Values \cup {"none"},
         Pread(fields, p) # v
  PROVE  /\ Changed(fields, p, v) \in Seq(LineType)
         /\ OneEach(fields) => OneEach(Changed(fields, p, v))
         /\ \A l \in ToSet(fields) : l.param # p => l \in ToSet(Changed(fields, p, v))
         /\ v # "none" => Line(p, v) \in ToSet(Changed(fields, p, v))
<1> DEFINE k == FieldAt(fields, p)
           n == Len(fields)
           l == Line(p, v)
<1>1. n \in Nat /\ ToSet(fields) = {fields[i] : i \in 1 .. n}
  BY LenProperties DEF ToSet
<1>2. CASE Matching(fields, p) = {}
  <2>1. v \in Values
    BY <1>2 DEF Pread
  <2>2. l \in LineType /\ l.param = p
    BY <2>1, Shapes DEF Line
  <2>3. \A m \in ToSet(fields) : m.param # p
    BY <1>1, <1>2 DEF Matching
  <2>4. Changed(fields, p, v) = <<l>> \o fields
    BY <1>2 DEF Changed
  <2> HIDE DEF l
  <2>5. /\ <<l>> \o fields \in Seq(LineType) /\ ToSet(<<l>> \o fields) = {l} \cup ToSet(fields)
        /\ OneEach(fields) => OneEach(<<l>> \o fields)
    BY <2>2, <2>3, Prepended
  <2> QED  BY <2>4, <2>5 DEF l
<1>3. CASE Matching(fields, p) # {} /\ v = "none"
  <2>1. k \in 1 .. n /\ fields[k].param = p
    BY <1>3, FieldFound
  <2>2. Changed(fields, p, v) = RemoveAt(fields, k)
    BY <1>3 DEF Changed
  <2> HIDE DEF k
  <2>3. LET left == RemoveAt(fields, k)
        IN  /\ left \in Seq(LineType)
            /\ \A i \in 1 .. n : i # k => fields[i] \in ToSet(left)
            /\ OneEach(fields) => OneEach(left)
    BY <2>1, RemovedAt
  <2> QED  BY <1>1, <1>3, <2>1, <2>2, <2>3
<1>4. CASE Matching(fields, p) # {} /\ v # "none"
  <2>1. k \in 1 .. n /\ fields[k].param = p
    BY <1>4, FieldFound
  <2>2. l \in LineType /\ l.param = p
    BY <1>4, Shapes DEF Line
  <2> DEFINE all == [fields EXCEPT ![k] = l]
  <2>3. Changed(fields, p, v) = all
    BY <1>4 DEF Changed
  <2> HIDE DEF k, l
  <2>4. /\ all \in Seq(LineType) /\ Len(all) = n
        /\ \A i \in 1 .. n : all[i] = IF i = k THEN l ELSE fields[i]
    BY <2>1, <2>2, ExceptSeq
  <2>5. ToSet(all) = {all[i] : i \in 1 .. n}
    BY <2>4, LenProperties DEF ToSet
  <2> HIDE DEF all
  <2>6. l \in ToSet(all)
    BY <2>1, <2>4, <2>5
  <2>7. \A m \in ToSet(fields) : m.param # p => m \in ToSet(all)
    BY <1>1, <2>1, <2>4, <2>5
  <2>8. ASSUME OneEach(fields) PROVE OneEach(all)
    <3>1. \A i \in 1 .. n : all[i].param = fields[i].param
      BY <2>1, <2>2, <2>4
    <3> QED  BY <2>4, <2>8, <3>1 DEF OneEach
  <2> QED  BY <2>3, <2>4, <2>6, <2>7, <2>8 DEF l
<1> QED  BY <1>2, <1>3, <1>4

(* config_load: the fields are the lines of the file.                      *)
LEMMA LoadIs ==
  ASSUME NEW cells \in Seq(CellType)
  PROVE  /\ Load(cells) \in Seq(LineType) /\ ToSet(Load(cells)) = Lines(cells)
         /\ Tidy(cells) => OneEach(Load(cells))
<1> DEFINE n == Len(cells)
           Read(j) == {LineAt(cells, i) : i \in Begins(cells) \cap (1 .. j)}
           Loaded(f, j) == /\ f \in Seq(LineType) /\ ToSet(f) = Read(j)
                           /\ Tidy(cells) => OneEach(f)
<1>1. n \in Nat
  BY LenProperties
<1>2. PICK g : /\ g[0] = <<>> /\ Load(cells) = g[n]
               /\ \A j \in 1 .. n :
                     g[j] = IF j \in Begins(cells) THEN <<LineAt(cells, j)>> \o g[j - 1]
                            ELSE g[j - 1]
  BY <1>1, LoadSteps
<1> DEFINE T == {j \in 0 .. n : Loaded(g[j], j)}
<1>3. Loaded(<<>>, 0)
  <2>1. ToSet(<<>>) = {}
    BY DEF ToSet
  <2>2. Read(0) = {}
    OBVIOUS
  <2> QED  BY <2>1, <2>2, NothingHeld
<1>4. 0 \in T
  <2> HIDE DEF Loaded
  <2>1. Loaded(g[0], 0)
    BY <1>2, <1>3
  <2> QED  BY <1>1, <2>1
<1>5. ASSUME NEW j \in 1 .. n, Loaded(g[j - 1], j - 1) PROVE Loaded(g[j], j)
  <2> DEFINE f == g[j - 1]
             l == LineAt(cells, j)
  <2>1. 1 .. j = (1 .. j - 1) \cup {j} /\ j \notin 1 .. j - 1
    BY <1>1
  <2>2. CASE j \in Begins(cells)
    <3>1. g[j] = <<l>> \o f
      BY <1>2, <2>2
    <3>2. l \in LineType /\ l.param = cells[j].line.param
      BY <2>2, LineTyped
    <3>3. Read(j) = {l} \cup Read(j - 1)
      BY <2>1, <2>2
    <3>4. f \in Seq(LineType) /\ ToSet(f) = Read(j - 1) /\ (Tidy(cells) => OneEach(f))
      BY <1>5
    <3>5. ASSUME Tidy(cells), NEW m \in Read(j - 1) PROVE m.param # l.param
      <4>1. PICK i \in Begins(cells) \cap (1 .. j - 1) : m = LineAt(cells, i)
        BY <3>5
      <4>2. m.param = cells[i].line.param
        BY <4>1, LineTyped
      <4>3. i # j
        BY <2>1, <4>1
      <4> QED  BY <2>2, <3>2, <3>5, <4>2, <4>3 DEF Tidy
    <3> HIDE DEF f, l, Read
    <3>6. /\ <<l>> \o f \in Seq(LineType) /\ ToSet(<<l>> \o f) = {l} \cup ToSet(f)
          /\ OneEach(f) /\ (\A m \in ToSet(f) : m.param # l.param) => OneEach(<<l>> \o f)
      BY <3>2, <3>4, Prepended
    <3> QED  BY <3>1, <3>3, <3>4, <3>5, <3>6
  <2>3. CASE j \notin Begins(cells)
    <3>1. g[j] = f
      BY <1>2, <2>3
    <3>2. Read(j) = Read(j - 1)
      BY <2>1, <2>3
    <3> HIDE DEF Read
    <3> QED  BY <1>5, <3>1, <3>2
  <2> QED  BY <2>2, <2>3
<1>6. Read(n) = Lines(cells)
  <2>1. Begins(cells) \cap (1 .. n) = Begins(cells)
    BY DEF Begins
  <2> QED  BY <2>1 DEF Lines
<1> HIDE DEF Loaded
<1>7. ASSUME NEW j \in 1 .. n, j - 1 \in T PROVE j \in T
  <2>1. Loaded(g[j], j)
    BY <1>5, <1>7
  <2>2. j \in 0 .. n
    BY <1>1
  <2> QED  BY <2>1, <2>2
<1>8. T \in SUBSET (0 .. n) /\ (n \in T => Loaded(g[n], n))
  OBVIOUS
<1> HIDE DEF T
<1>9. T = 0 .. n
  BY <1>1, <1>4, <1>7, <1>8, UpTo
<1>10. Loaded(Load(cells), n)
  BY <1>1, <1>2, <1>8, <1>9
<1> QED  BY <1>6, <1>10 DEF Loaded

(* config_raw_read: what is found is a line of the file.                   *)
LEMMA ReadIs ==
  ASSUME NEW cells \in Seq(CellType), NEW p, RawRead(cells, p) # "none"
  PROVE  RawRead(cells, p) \in Values /\ Line(p, RawRead(cells, p)) \in Lines(cells)
<1> DEFINE found == {j \in Begins(cells) : cells[j].line.param = p}
           k == Min(found)
           l == LineAt(cells, k)
<1>1. found # {} /\ RawRead(cells, p) = l.value
  BY DEF RawRead
<1>2. found \in SUBSET Nat
  BY DEF Begins
<1> HIDE DEF found
<1>3. \E j \in found : \A i \in found : j <= i
  BY <1>1, <1>2, LeastOf
<1>4. k \in found
  BY <1>3 DEF Min
<1> HIDE DEF k
<1>5. k \in Begins(cells) /\ cells[k].line.param = p
  BY <1>4 DEF found
<1>6. l \in LineType /\ l.param = p /\ l \in Lines(cells)
  BY <1>5, LineTyped DEF Lines
<1> HIDE DEF l
<1>7. l.value \in Values /\ Line(p, l.value) = l
  BY <1>6, Shapes DEF LineType
<1> QED  BY <1>1, <1>6, <1>7

(*------------------- what the file, memory and the disk hold --------------*)
(* Where files are cut, an operation that is not done found nothing on the *)
(* disk, and it is open while the file is being saved, or for a user that  *)
(* has been deleted; elsewhere it is done at once.                         *)
Fine(s) ==
    /\ s.conf.fields \in Seq(LineType) /\ s.disk \in Seq(CellType) /\ s.op.cells \in Seq(CellType)
    /\ build = "win32" => OneEach(s.conf.fields) /\ Tidy(s.disk) /\ Tidy(s.op.cells)
    /\ s.user.group \in Values
    /\ s.op.done => s.op.open
    /\ s.op.open => IF build = "win32" THEN s.op.done \/ s.disk = <<>> ELSE s.op.done
    /\ build = "win32" /\ s.op.open => IF s.conf.open THEN s.conf.saving ELSE kind = "user"

Written(s) ==
    /\ ToSet(s.conf.fields) \subseteq Lines(s.disk)
    /\ build = "win32" => ToSet(s.conf.fields) = Lines(s.disk)
(* SavedIsThere, and what will make it hold again.                         *)
Stored(s) ==
    s.conf.open /\ ~s.conf.shouldsave /\ ~s.conf.lost =>
        IF ~s.conf.saving \/ s.op.done THEN Written(s)
        ELSE IF s.op.open THEN s.op.cells = Dump(s.conf.fields)
        ELSE s.conf.fields = <<>>
(* Synchronized, of a state.                                               *)
Agrees(s) ==
    build = "win32" /\ s.user.on => Line("usergroup", s.user.group) \in ToSet(s.conf.fields)
Known == build \in Builds

LEMMA LandIs ==
  ASSUME NEW s, Well(s), s.op.open
  PROVE  LET t == Land(s)
         IN  /\ t.disk = s.op.cells \o SubSeq(s.disk, Len(s.op.cells) + 1, Len(s.disk))
             /\ t.op.cells = s.op.cells /\ t.op.done /\ t.op.open
             /\ t.conf = s.conf /\ t.user = s.user
<1> DEFINE d == s.op.cells \o SubSeq(s.disk, Len(s.op.cells) + 1, Len(s.disk))
<1>1. Land(s) = [s EXCEPT !.disk = d, !.op.done = TRUE]
  BY DEF Land, Well
<1> HIDE DEF d
<1>2. LET t == [s EXCEPT !.disk = d, !.op.done = TRUE]
      IN  /\ t.disk = d /\ t.op.cells = s.op.cells /\ t.op.done /\ t.op.open
          /\ t.conf = s.conf /\ t.user = s.user
  BY DEF Well, OpShape
<1> QED  BY <1>1, <1>2 DEF d

LEMMA LandFine ==
  ASSUME NEW s, Well(s), s.op.open,
         s.conf.fields \in Seq(LineType), s.disk \in Seq(CellType), s.op.cells \in Seq(CellType)
  PROVE  LET t == Land(s)
         IN  /\ t.disk \in Seq(CellType)
             /\ s.disk = <<>> => t.disk = s.op.cells
             /\ s.op.cells = Dump(s.conf.fields) =>
                   ToSet(s.conf.fields) \subseteq Lines(t.disk)
<1> DEFINE c == s.op.cells
           d == s.disk
           rest == SubSeq(d, Len(c) + 1, Len(d))
<1>1. Land(s).disk = c \o rest
  BY LandIs
<1>2. Len(c) \in Nat /\ Len(d) \in Nat
  BY LenProperties
<1>3. rest \in Seq(CellType)
  <2>1. \A i \in Len(c) + 1 .. Len(d) : d[i] \in CellType
    BY <1>2, ElementOfSeq
  <2>2. Len(c) + 1 \in Int /\ Len(d) \in Int
    BY <1>2
  <2> HIDE DEF c, d
  <2> QED  BY <2>1, <2>2, SubSeqProperties
<1>4. d = <<>> => rest = <<>>
  <2>1. ASSUME d = <<>> PROVE Len(d) < Len(c) + 1
    BY <1>2, <2>1, EmptySeq
  <2>2. Len(c) + 1 \in Int /\ Len(d) \in Int
    BY <1>2
  <2> HIDE DEF c, d
  <2> QED  BY <2>1, <2>2, SubSeqEmpty
<1> HIDE DEF rest
<1>5. c \o rest \in Seq(CellType) /\ (d = <<>> => c \o rest = c)
  BY <1>3, <1>4, ConcatProperties, ConcatEmptySeq
<1>6. c = Dump(s.conf.fields) => ToSet(s.conf.fields) \subseteq Lines(c \o rest)
  BY <1>3, LandedIs
<1> QED  BY <1>1, <1>5, <1>6

LEMMA SaveFine ==
  ASSUME NEW s, Well(s), Fine(s), Known, s.conf.open, s.conf.saving, ~s.conf.shouldsave,
         build = "win32" => ~s.op.open
  PROVE  LET t == AdioWrite(AdioOpen(s), Dump(s.conf.fields))
         IN  Fine(t) /\ Stored(t) /\ t.conf = s.conf /\ t.user = s.user
<1> DEFINE fields == s.conf.fields
           cells == Dump(fields)
           d == IF build = "win32" THEN <<>> ELSE s.disk
           o == [open |-> TRUE, cells |-> cells, done |-> FALSE]
           q == [s EXCEPT !.disk = d]
           t == [q EXCEPT !.op = o]
<1>1. /\ fields \in Seq(LineType) /\ cells \in Seq(CellType) /\ d \in Seq(CellType)
      /\ build = "win32" => OneEach(fields) /\ Tidy(cells) /\ Lines(cells) = ToSet(fields)
      /\ build = "win32" => Tidy(d)
  BY LandedIs, NothingHeld, DumpLines DEF Fine
<1>2. AdioWrite(AdioOpen(s), cells) = IF build = "posix" THEN Land(t) ELSE t
  <2>1. AdioOpen(s) = [q EXCEPT !.op = [NoOp EXCEPT !.open = TRUE]]
    BY DEF AdioOpen
  <2> HIDE DEF cells, d
  <2>2. Well(q)
    BY WithDisk
  <2> DEFINE r == [q EXCEPT !.op = [NoOp EXCEPT !.open = TRUE]]
  <2>3. r.op = [NoOp EXCEPT !.open = TRUE] /\ [r EXCEPT !.op.cells = cells] = t
    <3> HIDE DEF q
    <3> DEFINE b == [NoOp EXCEPT !.open = TRUE]
    <3>1. q \in [disk : {q.disk}, conf : {q.conf}, op : {q.op}, user : {q.user}]
      BY <2>2 DEF Well
    <3>2. [b EXCEPT !.cells = cells] = o
      <4> DEFINE m == [b EXCEPT !.cells = cells]
      <4>1. m \in [open : {TRUE}, cells : {cells}, done : {FALSE}]
        BY DEF NoOp
      <4>2. o \in [open : {TRUE}, cells : {cells}, done : {FALSE}]
        OBVIOUS
      <4>3. m.open = o.open /\ m.cells = o.cells /\ m.done = o.done
        BY <4>1, <4>2
      <4> HIDE DEF m, o
      <4>4. m = o
        BY <4>1, <4>2, <4>3
      <4> QED  BY <4>4 DEF m
    <3> HIDE DEF b, o
    <3>3. [q EXCEPT !.op = b].op = b
      BY <3>1
    <3>4. [[q EXCEPT !.op = b] EXCEPT !.op.cells = cells]
            = [q EXCEPT !.op = [b EXCEPT !.cells = cells]]
      BY <3>1
    <3> QED  BY <3>2, <3>3, <3>4 DEF b
  <2> HIDE DEF r, t
  <2> QED  BY <2>1, <2>3 DEF AdioWrite, r
<1>3. OpShape(o) /\ o.open
  BY DEF OpShape
<1>4. Well(q) /\ q.disk = d /\ q.conf = s.conf /\ q.user = s.user
  <2> HIDE DEF d
  <2> QED  BY WithDisk
<1>5. Well(t) /\ t.disk = d /\ t.conf = s.conf /\ t.user = s.user /\ t.op = o
  <2> HIDE DEF d, o, q
  <2> QED  BY <1>3, <1>4, WithOp
<1>6. o.open /\ ~o.done /\ o.cells = cells
  OBVIOUS
<1>7. s.user.group \in Values
  BY DEF Fine
<1> HIDE DEF t, q, o
<1>8. CASE build = "win32"
  <2>1. d = <<>> /\ build # "posix"
    BY <1>8
  <2> HIDE DEF d, cells, fields
  <2>2. t.conf.fields = fields
    BY <1>5 DEF fields
  <2>3. Fine(t)
    BY <1>1, <1>5, <1>6, <1>7, <1>8, <2>1, <2>2 DEF Fine
  <2>4. Stored(t)
    BY <1>5, <1>6, <2>2 DEF Stored, cells
  <2> QED  BY <1>2, <1>5, <2>1, <2>3, <2>4 DEF cells, fields
<1>9. CASE build = "posix"
  <2> HIDE DEF d
  <2> DEFINE r == Land(t)
  <2>1. /\ r.op.cells = cells /\ r.op.done /\ r.op.open /\ r.conf = s.conf /\ r.user = s.user
    BY <1>5, <1>6, LandIs
  <2>2. /\ r.disk \in Seq(CellType)
        /\ ToSet(fields) \subseteq Lines(r.disk)
    <3>1. t.conf.fields = fields /\ t.op.cells = cells
      BY <1>5, <1>6
    <3> HIDE DEF r, fields, cells
    <3> QED  BY <1>1, <1>5, <1>6, <3>1, LandFine DEF r, cells
  <2> HIDE DEF r, cells
  <2>3. Fine(r)
    BY <1>1, <1>7, <1>9, <2>1, <2>2 DEF Fine
  <2>4. Stored(r)
    BY <1>9, <2>1, <2>2 DEF Stored, Written
  <2> QED  BY <1>2, <1>9, <2>1, <2>3, <2>4 DEF r, cells
<1> QED  BY <1>8, <1>9, StorageAssumption DEF Known

LEMMA RemoveFileFine ==
  ASSUME NEW s, Well(s), Fine(s)
  PROVE  LET t == RemoveFile(s)
         IN  /\ Fine(t) /\ t.conf = s.conf /\ t.user = s.user /\ t.op = s.op
             /\ ~s.op.open => t.disk = <<>>
<1> DEFINE t == RemoveFile(s)
<1>1. /\ t.conf = s.conf /\ t.user = s.user /\ t.op = s.op
      /\ ~s.op.open => t.disk = <<>>
  BY RemoveFileWell
<1>2. t.disk = s.disk \/ t.disk = <<>>
  BY WithDisk DEF RemoveFile
<1> HIDE DEF t
<1>3. Fine(t)
  BY <1>1, <1>2, NothingHeld DEF Fine
<1> QED  BY <1>1, <1>3 DEF t

LEMMA ConfigOpenFine ==
  ASSUME NEW s, Well(s), Fine(s), build = "win32" => s.conf.open \/ ~s.op.open
  PROVE  LET t == ConfigOpen(s)
         IN  /\ Fine(t) /\ t.disk = s.disk /\ (Stored(s) => Stored(t))
             /\ t.conf.fields = IF s.conf.open THEN s.conf.fields ELSE Load(s.disk)
<1>1. CASE s.conf.open
  <2> DEFINE c == [s.conf EXCEPT !.refs = @ + 1]
             t == [s EXCEPT !.conf = c]
  <2>1. /\ ConfShape(c) /\ c.open /\ c.fields = s.conf.fields
        /\ (c.shouldsave <=> s.conf.shouldsave) /\ (c.saving <=> s.conf.saving) /\ (c.lost <=> s.conf.lost)
    BY <1>1 DEF Well, ConfShape
  <2>2. ConfigOpen(s) = t
    BY <1>1 DEF ConfigOpen
  <2> HIDE DEF c
  <2>3. t.conf = c /\ t.disk = s.disk /\ t.op = s.op /\ t.user = s.user
    BY <2>1, WithConf
  <2> HIDE DEF t
  <2>4. Fine(t)
    BY <1>1, <2>1, <2>3 DEF Fine
  <2>5. Stored(s) => Stored(t)
    BY <1>1, <2>1, <2>3 DEF Stored, Written
  <2> QED  BY <1>1, <2>1, <2>2, <2>3, <2>4, <2>5
<1>2. CASE ~s.conf.open
  <2> DEFINE f == Load(s.disk)
             c == [Closed EXCEPT !.open = TRUE, !.refs = 1, !.fields = f]
             t == [s EXCEPT !.conf = c]
  <2>1. /\ ConfShape(c) /\ c.open /\ c.fields = f /\ ~c.shouldsave /\ ~c.saving
    <3> HIDE DEF f
    <3> QED  BY DEF Closed, ConfShape
  <2>2. ConfigOpen(s) = t
    BY <1>2 DEF ConfigOpen
  <2>3. f \in Seq(LineType) /\ ToSet(f) = Lines(s.disk) /\ (Tidy(s.disk) => OneEach(f))
    BY LoadIs DEF Fine
  <2> HIDE DEF c, f
  <2>4. t.conf = c /\ t.disk = s.disk /\ t.op = s.op /\ t.user = s.user
    BY <2>1, WithConf
  <2> HIDE DEF t
  <2>5. Fine(t)
    BY <1>2, <2>1, <2>3, <2>4 DEF Fine
  <2>6. Stored(t)
    BY <2>1, <2>3, <2>4 DEF Stored, Written
  <2> QED  BY <1>2, <2>1, <2>2, <2>4, <2>5, <2>6 DEF f
<1> QED  BY <1>1, <1>2

LEMMA ConfigSaveFine ==
  ASSUME NEW s, Well(s), Fine(s), Known, s.conf.open, NEW fault
  PROVE  LET t == ConfigSave(s, fault)
         IN  /\ Fine(t) /\ (Stored(s) \/ s.conf.shouldsave => Stored(t))
             /\ t.conf.fields = s.conf.fields
<1> DEFINE c == [s.conf EXCEPT !.shouldsave = FALSE, !.saving = TRUE, !.lost = FALSE]
           e == [s.conf EXCEPT !.late = FALSE]
           d == IF fault = "write" THEN AdioOpen(s).disk ELSE s.disk
           t == [s EXCEPT !.conf = c]
           r == [s EXCEPT !.conf = e]
           x == [r EXCEPT !.disk = d]
<1>1. /\ ConfShape(c) /\ c.open /\ c.saving /\ ~c.shouldsave
      /\ c.fields = s.conf.fields
  BY DEF Well, ConfShape
<1>2. /\ ConfShape(e) /\ e.open /\ e.fields = s.conf.fields
      /\ (e.shouldsave <=> s.conf.shouldsave) /\ (e.saving <=> s.conf.saving) /\ (e.lost <=> s.conf.lost)
  BY DEF Well, ConfShape
<1>3. ConfigSave(s, fault) =
        IF ~s.conf.shouldsave \/ s.conf.saving THEN s
        ELSE IF s.conf.fields = <<>> THEN RemoveFile(t)
        ELSE IF fault = "none" THEN AdioWrite(AdioOpen(t), Dump(s.conf.fields))
        ELSE x
  BY DEF ConfigSave, Well
<1>4. d = s.disk \/ d = <<>>
  BY WithDisk, WithOp DEF AdioOpen, Well
<1> HIDE DEF c, e, d
<1>5. Well(t) /\ t.conf = c /\ t.user = s.user /\ t.op = s.op /\ t.disk = s.disk
  BY <1>1, WithConf
<1>6. Well(r) /\ r.conf = e /\ r.user = s.user /\ r.op = s.op
  BY <1>2, WithConf
<1> HIDE DEF t, r
<1>7. x.conf = e /\ x.user = s.user /\ x.op = s.op /\ x.disk = d
  BY <1>6, WithDisk
<1> HIDE DEF x
<1>8. Fine(t)
  BY <1>1, <1>5 DEF Fine
<1>9. CASE ~s.conf.shouldsave \/ s.conf.saving
  BY <1>3, <1>9 DEF Stored
<1>10. CASE s.conf.shouldsave /\ ~s.conf.saving /\ s.conf.fields = <<>>
  <2> DEFINE q == RemoveFile(t)
  <2>1. Fine(q) /\ q.conf = c /\ q.op = s.op
    BY <1>5, <1>8, RemoveFileFine
  <2> HIDE DEF q
  <2>2. (s.op.open => build # "win32" /\ s.op.done) /\ (s.op.done => s.op.open)
    BY <1>10 DEF Fine
  <2>3. ToSet(c.fields) = {}
    BY <1>1, <1>10 DEF ToSet
  <2>4. Stored(q)
    BY <1>1, <1>10, <2>1, <2>2, <2>3 DEF Stored, Written
  <2> QED  BY <1>1, <1>3, <1>10, <2>1, <2>4 DEF q
<1>11. CASE s.conf.shouldsave /\ ~s.conf.saving /\ s.conf.fields # <<>> /\ fault = "none"
  <2>1. (build = "win32" => ~t.op.open) /\ t.conf.open /\ t.conf.saving /\ ~t.conf.shouldsave
    BY <1>1, <1>5, <1>11 DEF Fine
  <2> DEFINE q == AdioWrite(AdioOpen(t), Dump(t.conf.fields))
  <2>2. Fine(q) /\ Stored(q) /\ q.conf = t.conf
    BY <1>5, <1>8, <2>1, SaveFine
  <2>3. ConfigSave(s, fault) = q
    BY <1>1, <1>3, <1>5, <1>11
  <2> HIDE DEF q
  <2> QED  BY <1>1, <1>5, <2>2, <2>3
<1>12. CASE s.conf.shouldsave /\ ~s.conf.saving /\ s.conf.fields # <<>> /\ fault # "none"
  <2>1. ConfigSave(s, fault) = x
    BY <1>3, <1>12
  <2>2. Fine(x)
    BY <1>2, <1>4, <1>7, NothingHeld DEF Fine
  <2>3. Stored(x)
    BY <1>2, <1>7, <1>12 DEF Stored
  <2> QED  BY <1>2, <1>7, <2>1, <2>2, <2>3
<1> QED  BY <1>9, <1>10, <1>11, <1>12

(* What is closed last is in memory only if it has to be saved.            *)
LEMMA ConfigCloseFine ==
  ASSUME NEW s, Well(s), Fine(s), Known, s.conf.refs > 0, NEW fault,
         build = "win32" /\ s.conf.refs = 1 /\ ~s.conf.shouldsave => kind = "user" \/ ~s.op.open
  PROVE  LET t == ConfigClose(s, fault)
         IN  /\ Fine(t) /\ (Stored(s) \/ s.conf.refs = 1 => Stored(t))
<1> DEFINE c == [s.conf EXCEPT !.refs = @ - 1]
           t == [s EXCEPT !.conf = c]
           x == [t EXCEPT !.conf = Closed]
<1>1. /\ ConfShape(c) /\ c.open /\ c.refs = s.conf.refs - 1 /\ c.fields = s.conf.fields
      /\ (c.shouldsave <=> s.conf.shouldsave) /\ (c.saving <=> s.conf.saving) /\ (c.lost <=> s.conf.lost)
      /\ s.conf.open /\ s.conf.refs \in Nat
  BY DEF Well, ConfShape
<1>2. ConfigClose(s, fault) =
        IF t.conf.refs > 0 THEN t
        ELSE IF t.conf.shouldsave THEN ConfigSave(t, fault) ELSE x
  BY DEF ConfigClose
<1> HIDE DEF c
<1>3. Well(t) /\ t.conf = c /\ t.user = s.user /\ t.op = s.op /\ t.disk = s.disk
  BY <1>1, WithConf
<1> HIDE DEF t
<1>4. Fine(t)
  BY <1>1, <1>3 DEF Fine
<1>5. Stored(s) => Stored(t)
  BY <1>1, <1>3 DEF Stored, Written
<1>6. CASE t.conf.refs > 0
  <2>1. s.conf.refs # 1
    BY <1>1, <1>3, <1>6
  <2> QED  BY <1>2, <1>4, <1>5, <1>6, <2>1
<1>7. CASE ~(t.conf.refs > 0) /\ t.conf.shouldsave
  BY <1>1, <1>2, <1>3, <1>4, <1>7, ConfigSaveFine
<1>8. CASE ~(t.conf.refs > 0) /\ ~t.conf.shouldsave
  <2>1. s.conf.refs = 1 /\ ~s.conf.shouldsave
    BY <1>1, <1>3, <1>8
  <2>2. ConfShape(Closed) /\ ~Closed.open /\ Closed.refs = 0 /\ Closed.fields = <<>>
    BY ShapeOfNothing DEF Closed
  <2>3. ConfigClose(s, fault) = x
    BY <1>2, <1>8
  <2> HIDE DEF Closed
  <2>4. x.conf = Closed /\ x.user = s.user /\ x.op = s.op /\ x.disk = s.disk
    BY <1>3, <2>2, WithConf
  <2> HIDE DEF x
  <2>5. Fine(x)
    BY <2>1, <2>2, <2>4, NothingHeld DEF Fine
  <2>6. Stored(x)
    BY <2>2, <2>4 DEF Stored
  <2> QED  BY <2>3, <2>5, <2>6
<1> QED  BY <1>6, <1>7, <1>8

LEMMA ConfigWriteFine ==
  ASSUME NEW s, Well(s), Fine(s), s.conf.open, NEW p \in Params, NEW v \in Values \cup {"none"}
  PROVE  LET t == ConfigWrite(s, p, v)
         IN  /\ Fine(t) /\ (Stored(s) => Stored(t))
             /\ Agrees(s) /\ p # "usergroup" => Agrees(t)
             /\ p = "usergroup" /\ v = s.user.group => Agrees(t)
<1> DEFINE fields == s.conf.fields
           f == Changed(fields, p, v)
           c == [s.conf EXCEPT !.fields = f, !.shouldsave = TRUE]
           t == [s EXCEPT !.conf = c]
<1>1. ConfigWrite(s, p, v) = IF Pread(fields, p) = v THEN s ELSE t
  BY DEF ConfigWrite, Well, Changed
<1>2. fields \in Seq(LineType) /\ s.user.group \in Values /\ "none" \notin Values
  BY DEF Fine, Values, Groups
<1>3. ASSUME Pread(fields, p) # v
      PROVE  /\ f \in Seq(LineType) /\ (OneEach(fields) => OneEach(f))
             /\ \A l \in ToSet(fields) : l.param # p => l \in ToSet(f)
             /\ v # "none" => Line(p, v) \in ToSet(f)
  BY <1>2, <1>3, ChangedIs
<1> HIDE DEF f
<1>4. /\ ConfShape(c) /\ c.open /\ c.shouldsave /\ c.fields = f
      /\ (c.saving <=> s.conf.saving) /\ (c.lost <=> s.conf.lost) /\ (c.refs = s.conf.refs)
  BY DEF Well, ConfShape
<1> HIDE DEF c
<1>5. t.conf = c /\ t.disk = s.disk /\ t.op = s.op /\ t.user = s.user
  BY <1>4, WithConf
<1> HIDE DEF t
<1>6. CASE Pread(fields, p) = v
  <2>1. ASSUME p = "usergroup", v = s.user.group PROVE Agrees(s)
    <3>1. Matching(fields, p) # {} /\ fields[FieldAt(fields, p)].value = v
      BY <1>2, <1>6, <2>1 DEF Pread
    <3> DEFINE k == FieldAt(fields, p)
    <3>2. k \in 1 .. Len(fields) /\ fields[k].param = p
      BY <1>2, <3>1, FieldFound
    <3> HIDE DEF fields
    <3>3. fields[k] \in LineType
      BY <1>2, <3>2, ElementOfSeq
    <3>4. fields[k] = Line(p, v)
      BY <3>1, <3>2, <3>3, Shapes
    <3>5. fields[k] \in ToSet(fields)
      BY <1>2, <3>2, LenProperties DEF ToSet
    <3> QED  BY <2>1, <3>4, <3>5 DEF Agrees, fields
  <2> QED  BY <1>1, <1>6, <2>1
<1>7. CASE Pread(fields, p) # v
  <2>1. Fine(t)
    BY <1>3, <1>4, <1>5, <1>7 DEF Fine
  <2>2. Stored(t)
    BY <1>4, <1>5 DEF Stored
  <2>3. Line("usergroup", s.user.group).param = "usergroup"
    BY DEF Line
  <2>4. Agrees(s) /\ p # "usergroup" => Agrees(t)
    BY <1>3, <1>4, <1>5, <1>7, <2>3 DEF Agrees
  <2>5. p = "usergroup" /\ v = s.user.group => Agrees(t)
    BY <1>2, <1>3, <1>4, <1>5, <1>7 DEF Agrees
  <2> QED  BY <1>1, <1>7, <2>1, <2>2, <2>4, <2>5
<1> QED  BY <1>6, <1>7

LEMMA ProcessAdioFine ==
  ASSUME NEW s, Well(s), Fine(s), Stored(s)
  PROVE  LET t == ProcessAdio(s)
         IN  /\ Fine(t) /\ Stored(t)
             /\ t.conf.fields = s.conf.fields \/ (s.conf.refs = 0 /\ ~t.conf.open)
<1> DEFINE c == [s.conf EXCEPT !.saving = FALSE]
           r == [s EXCEPT !.op = NoOp]
           t == [r EXCEPT !.conf = c]
           x == [t EXCEPT !.conf = Closed]
<1>1. /\ ConfShape(c) /\ c.refs = s.conf.refs /\ c.fields = s.conf.fields /\ ~c.saving
      /\ (c.lost <=> s.conf.lost)
      /\ (c.open <=> s.conf.open) /\ (c.shouldsave <=> s.conf.shouldsave)
      /\ s.conf.refs \in Nat
  BY DEF Well, ConfShape
<1>2. Well(r) /\ r.conf = s.conf /\ r.user = s.user /\ r.op = NoOp /\ r.disk = s.disk
  BY ShapeOfNothing, WithOp
<1>3. ProcessAdio(s) =
        IF ~(s.conf.open /\ s.conf.saving /\ s.op.done) THEN s
        ELSE IF t.conf.shouldsave \/ t.conf.refs > 0 THEN t ELSE x
  BY <1>2 DEF ProcessAdio
<1> HIDE DEF c, r
<1>4. Well(t) /\ t.conf = c /\ t.user = s.user /\ t.op = NoOp /\ t.disk = s.disk
  BY <1>1, <1>2, WithConf DEF Well
<1> HIDE DEF t
<1>5. ~NoOp.open /\ ~NoOp.done /\ NoOp.cells = <<>>
  BY DEF NoOp
<1>6. CASE ~(s.conf.open /\ s.conf.saving /\ s.op.done)
  BY <1>3, <1>6
<1>7. CASE /\ s.conf.open /\ s.conf.saving /\ s.op.done
           /\ t.conf.shouldsave \/ t.conf.refs > 0
  <2>1. Fine(t)
    BY <1>1, <1>4, <1>5, NothingHeld DEF Fine
  <2>2. Stored(t)
    BY <1>1, <1>4, <1>5, <1>7 DEF Stored, Written, Fine
  <2> QED  BY <1>1, <1>3, <1>4, <1>7, <2>1, <2>2
<1>8. CASE /\ s.conf.open /\ s.conf.saving /\ s.op.done
           /\ ~(t.conf.shouldsave \/ t.conf.refs > 0)
  <2>1. ProcessAdio(s) = x
    BY <1>3, <1>8
  <2>2. ConfShape(Closed) /\ ~Closed.open /\ Closed.refs = 0 /\ Closed.fields = <<>>
    BY ShapeOfNothing DEF Closed
  <2>3. s.conf.refs = 0
    BY <1>1, <1>4, <1>8
  <2> HIDE DEF Closed
  <2>4. x.conf = Closed /\ x.user = s.user /\ x.op = NoOp /\ x.disk = s.disk
    BY <1>4, <2>2, WithConf
  <2> HIDE DEF x
  <2>5. Fine(x)
    BY <1>5, <2>2, <2>4, NothingHeld DEF Fine
  <2>6. Stored(x)
    BY <2>2, <2>4 DEF Stored
  <2> QED  BY <2>1, <2>2, <2>3, <2>4, <2>5, <2>6
<1> QED  BY <1>6, <1>7, <1>8

LEMMA SaveModifiedFine ==
  ASSUME NEW s, Well(s), Fine(s), Stored(s), Known, NEW fault
  PROVE  LET t == SaveModified(s, fault)
         IN  Fine(t) /\ Stored(t) /\ t.conf.fields = s.conf.fields
  BY ConfigSaveFine DEF SaveModified

LEMMA NewUserFine ==
  ASSUME NEW s, Well(s), Fine(s), NEW u, UserShape(u), u.group \in Values
  PROVE  LET t == [s EXCEPT !.user = u]
         IN  /\ Well(t) /\ Fine(t) /\ (Stored(s) => Stored(t))
             /\ t.conf = s.conf /\ t.user = u /\ t.op = s.op /\ t.disk = s.disk
<1> DEFINE t == [s EXCEPT !.user = u]
<1>1. Well(t) /\ t.conf = s.conf /\ t.user = u /\ t.op = s.op /\ t.disk = s.disk
  BY WithUser
<1> HIDE DEF t
<1>2. Fine(t)
  BY <1>1 DEF Fine
<1>3. Stored(s) => Stored(t)
  BY <1>1 DEF Stored, Written
<1> QED  BY <1>1, <1>2, <1>3 DEF t

LEMMA UserLoadFine ==
  ASSUME NEW s, Well(s), Fine(s), ~s.conf.open, ~s.op.open, ~s.user.on
  PROVE  LET t == UserLoad(s) IN Fine(t) /\ Stored(t) /\ Agrees(t)
<1> DEFINE needed == {RawRead(s.disk, p) : p \in {"username", "usergroup"}}
           group == RawRead(s.disk, "usergroup")
           u == [on |-> TRUE, group |-> group]
           r == ConfigOpen(s)
           t == [r EXCEPT !.user = u]
<1>1. UserLoad(s) = IF "none" \in needed THEN s ELSE t
  BY DEF UserLoad
<1>2. Stored(s) /\ Agrees(s)
  BY DEF Stored, Agrees
<1>3. CASE "none" \in needed
  BY <1>1, <1>2, <1>3
<1>4. CASE "none" \notin needed
  <2>1. s.disk \in Seq(CellType) /\ group # "none"
    BY <1>4 DEF Fine
  <2>2. group \in Values /\ Line("usergroup", group) \in Lines(s.disk)
    BY <2>1, ReadIs
  <2>3. ToSet(Load(s.disk)) = Lines(s.disk)
    BY <2>1, LoadIs
  <2> HIDE DEF group
  <2>4. UserShape(u) /\ u.group = group
    BY DEF UserShape
  <2>5. /\ Well(r) /\ Fine(r) /\ Stored(r)
        /\ r.conf.fields = Load(s.disk)
    BY <1>2, ConfigOpenWell, ConfigOpenFine
  <2> HIDE DEF r, u
  <2>6. Fine(t) /\ Stored(t) /\ t.conf = r.conf /\ t.user = u
    BY <2>2, <2>4, <2>5, NewUserFine
  <2> HIDE DEF t
  <2>7. Agrees(t)
    BY <2>2, <2>3, <2>4, <2>5, <2>6 DEF Agrees
  <2> QED  BY <1>1, <1>4, <2>6, <2>7
<1> QED  BY <1>3, <1>4

LEMMA UserNewFine ==
  ASSUME NEW s, Well(s), Fine(s), Stored(s), Known,
         build = "win32" => s.conf.open \/ ~s.op.open, NEW group \in Groups, NEW fault
  PROVE  LET t == UserNew(s, group, fault) IN Fine(t) /\ Stored(t) /\ Agrees(t)
<1> DEFINE u == [on |-> TRUE, group |-> group]
           t == ConfigOpen(s)
           opened == [t EXCEPT !.user = u]
           named == ConfigWrite(opened, "username", "short")
           grouped == ConfigWrite(named, "usergroup", group)
           saved == ConfigSave(grouped, fault)
<1>0. /\ "username" \in Params /\ "usergroup" \in Params /\ group \in Values
      /\ "short" \in Values \cup {"none"} /\ group \in Values \cup {"none"}
  BY DEF Params, Values, Groups
<1>1. UserShape(u) /\ u.group = group
  BY DEF UserShape
<1>2. Well(t) /\ t.conf.open /\ Fine(t) /\ Stored(t)
  BY ConfigOpenWell, ConfigOpenFine
<1>3. UserNew(s, group, fault) = saved
  BY DEF UserNew
<1> HIDE DEF u, t
<1>4. Well(opened) /\ opened.conf.open /\ Fine(opened) /\ Stored(opened) /\ opened.user = u
  BY <1>0, <1>1, <1>2, NewUserFine
<1> HIDE DEF opened
<1>5. Well(named) /\ named.conf.open /\ named.user = u /\ Fine(named) /\ Stored(named)
  <2>1. Well(named) /\ named.conf.open /\ named.user = u
    BY <1>4, ConfigWriteWell
  <2>2. Fine(named) /\ Stored(named)
    BY <1>0, <1>4, ConfigWriteFine
  <2> QED  BY <2>1, <2>2
<1> HIDE DEF named
<1>6. /\ Well(grouped) /\ grouped.conf.open /\ Fine(grouped) /\ Stored(grouped)
      /\ Agrees(grouped)
  <2>1. Well(grouped) /\ grouped.conf.open
    BY <1>5, ConfigWriteWell
  <2>2. Fine(grouped) /\ Stored(grouped) /\ Agrees(grouped)
    BY <1>0, <1>1, <1>5, ConfigWriteFine
  <2> QED  BY <2>1, <2>2
<1> HIDE DEF grouped
<1>7. Fine(saved) /\ Stored(saved) /\ saved.conf.fields = grouped.conf.fields
  BY <1>6, ConfigSaveFine
<1>8. saved.user = grouped.user
  BY <1>6, ConfigSaveWell
<1> HIDE DEF saved
<1>9. Agrees(saved)
  BY <1>6, <1>7, <1>8 DEF Agrees
<1> QED  BY <1>3, <1>7, <1>9

LEMMA UserSetFine ==
  ASSUME NEW s, Well(s), Fine(s), Stored(s), Known, s.conf.open, NEW group \in Groups, NEW fault
  PROVE  LET t == UserSet(s, group, fault) IN Fine(t) /\ Stored(t) /\ Agrees(t)
<1> DEFINE u == [s.user EXCEPT !.group = group]
           named == [s EXCEPT !.user = u]
           grouped == ConfigWrite(named, "usergroup", group)
           saved == ConfigSave(grouped, fault)
<1>0. /\ "usergroup" \in Params /\ group \in Values /\ group \in Values \cup {"none"}
  BY DEF Params, Values, Groups
<1>1. UserShape(u) /\ u.group = group
  BY DEF Well, UserShape
<1>2. UserSet(s, group, fault) = saved
  <2>1. [s EXCEPT !.user.group = group] = named
    BY DEF Well
  <2> QED  BY <2>1 DEF UserSet
<1> HIDE DEF u
<1>3. Well(named) /\ named.conf.open /\ Fine(named) /\ Stored(named) /\ named.user = u
  BY <1>0, <1>1, NewUserFine
<1> HIDE DEF named
<1>4. /\ Well(grouped) /\ grouped.conf.open /\ Fine(grouped) /\ Stored(grouped)
      /\ Agrees(grouped)
  <2>1. Well(grouped) /\ grouped.conf.open
    BY <1>3, ConfigWriteWell
  <2>2. Fine(grouped) /\ Stored(grouped) /\ Agrees(grouped)
    BY <1>0, <1>1, <1>3, ConfigWriteFine
  <2> QED  BY <2>1, <2>2
<1> HIDE DEF grouped
<1>5. Fine(saved) /\ Stored(saved) /\ saved.conf.fields = grouped.conf.fields
  BY <1>4, ConfigSaveFine
<1>6. saved.user = grouped.user
  BY <1>4, ConfigSaveWell
<1> HIDE DEF saved
<1>7. Agrees(saved)
  BY <1>4, <1>5, <1>6 DEF Agrees
<1> QED  BY <1>2, <1>5, <1>7

LEMMA UserDeleteFine ==
  ASSUME NEW s, Well(s), Fine(s), Known, s.conf.refs = 1, kind = "user", NEW fault
  PROVE  LET t == UserDelete(s, fault) IN Fine(t) /\ Stored(t)
<1> DEFINE r == RemoveFile(s)
           t == [r EXCEPT !.user = NoUser]
<1>1. Well(r) /\ Fine(r) /\ r.conf = s.conf
  BY RemoveFileWell, RemoveFileFine
<1>2. UserDelete(s, fault) = ConfigClose(t, fault)
  BY DEF UserDelete
<1>3. UserShape(NoUser) /\ NoUser.group \in Values
  BY ShapeOfNothing DEF NoUser, Values, Groups
<1> HIDE DEF r
<1>4. Well(t) /\ Fine(t) /\ t.conf = s.conf
  BY <1>1, <1>3, NewUserFine
<1> HIDE DEF t
<1> QED  BY <1>2, <1>4, ConfigCloseFine

(*--------------------------------- in step --------------------------------*)
Sound == /\ Safe /\ Known
         /\ Fine(State) /\ Stored(State) /\ Agrees(State)
         /\ conf.refs <= MaxOpens /\ (~running => ~op.open)

LEMMA SoundInit == Init => Sound
<1> SUFFICES ASSUME Init PROVE Sound
  OBVIOUS
<1>1. Safe
  BY SafeInit
<1>2. Known /\ 0 <= MaxOpens
  BY StorageAssumption DEF Init, Known
<1>3. /\ ~Closed.open /\ Closed.fields = <<>> /\ Closed.refs = 0 /\ ~NoUser.on
      /\ ~NoOp.open /\ ~NoOp.done /\ NoOp.cells = <<>> /\ NoUser.group \in Values
  BY DEF Closed, NoOp, NoUser, Values, Groups
<1>4. disk = <<>> /\ conf = Closed /\ op = NoOp /\ user = NoUser
  BY DEF Init
<1>5. Fine(State) /\ Stored(State) /\ Agrees(State)
  BY <1>3, <1>4, NothingHeld, Parts DEF Fine, Stored, Agrees
<1> QED  BY <1>1, <1>2, <1>3, <1>4, <1>5 DEF Sound

(* From a state that an operation leaves to the next state.                *)
LEMMA SoundNext ==
  ASSUME Known, NEW t, Fine(t), Stored(t), Agrees(t), State' = t, UNCHANGED constants
  PROVE  Known' /\ Fine(State)' /\ Stored(State)' /\ Agrees(State)'
<1>1. build' = build /\ kind' = kind
  BY DEF constants
<1> QED  BY <1>1 DEF Known, Fine, Stored, Agrees, Written

(* Where files are cut, one that is being saved is not closed by scripts,  *)
(* and that of a user that is deleted meanwhile is not opened again.       *)
LEMMA SoundStep ==
  ASSUME CloseBusy => "win32" \notin Builds, Sound, [Next]_vars
  PROVE  Sound'
<1> USE Parts
<1>0. /\ Safe /\ Known /\ Fine(State) /\ Stored(State) /\ Agrees(State)
      /\ conf.refs <= MaxOpens /\ (~running => ~op.open)
      /\ Well(State) /\ Kept(State) /\ Held(State) /\ Lives
      /\ (born => kind = "user") /\ (~running => ~conf.open /\ ~user.on)
      /\ (user.on => conf.open /\ conf.refs = 1 /\ kind = "user")
      /\ (conf.refs > 0 => conf.open) /\ (~conf.open => conf.refs = 0) /\ conf.refs \in Nat
      /\ op.open \/ op = NoOp
  BY DEF Sound, Safe, Well, Held, ConfShape
<1>1. Safe'
  BY <1>0, SafeStep
<1>2. MaxOpens \in Nat /\ 1 <= MaxOpens
  BY StorageAssumption
<1> SUFFICES /\ Known' /\ Fine(State)' /\ Stored(State)' /\ Agrees(State)'
             /\ conf'.refs <= MaxOpens /\ (~running' => ~op'.open)
  BY <1>1 DEF Sound
<1>3. (State.conf)' = conf' /\ (State.op)' = op'
  BY DEF State
<1>4. CASE NewUser
  <2> PICK g \in Groups, fault \in Faults : Become(UserNew(State, g, fault))
    BY <1>4 DEF NewUser
  <2> DEFINE t == UserNew(State, g, fault)
  <2>1. ~conf.open /\ ~op.open
    BY <1>0, <1>4 DEF NewUser, Lives, Absent
  <2>2. Well(t) /\ t.conf.refs = 1
    BY <1>0, <2>1, UserNewWell
  <2>3. Fine(t) /\ Stored(t) /\ Agrees(t)
    BY <1>0, <2>1, UserNewFine
  <2>4. State' = t
    BY <2>2, Becomes
  <2> HIDE DEF t
  <2>5. running' /\ UNCHANGED constants
    BY <1>4 DEF NewUser
  <2>6. conf'.refs = 1
    BY <1>3, <2>2, <2>4
  <2> QED  BY <1>0, <1>2, <2>3, <2>4, <2>5, <2>6, SoundNext
<1>5. CASE SetUser
  <2> PICK g \in Groups, fault \in Faults : Become(UserSet(State, g, fault))
    BY <1>5 DEF SetUser
  <2> DEFINE t == UserSet(State, g, fault)
  <2>1. conf.open /\ conf.refs = 1
    BY <1>0, <1>5 DEF SetUser
  <2>2. Well(t) /\ t.conf.refs = 1
    BY <1>0, <2>1, UserSetWell
  <2>3. Fine(t) /\ Stored(t) /\ Agrees(t)
    BY <1>0, <2>1, UserSetFine
  <2>4. State' = t
    BY <2>2, Becomes
  <2> HIDE DEF t
  <2>5. running' /\ UNCHANGED constants
    BY <1>5 DEF SetUser
  <2>6. conf'.refs = 1
    BY <1>3, <2>2, <2>4
  <2> QED  BY <1>0, <1>2, <2>3, <2>4, <2>5, <2>6, SoundNext
<1>6. CASE DeleteUser
  <2> PICK fault \in Faults : Become(UserDelete(State, fault))
    BY <1>6 DEF DeleteUser
  <2> DEFINE t == UserDelete(State, fault)
  <2>1. conf.refs = 1 /\ kind = "user"
    BY <1>0, <1>6 DEF DeleteUser
  <2>2. Well(t) /\ t.conf.refs = 0 /\ ~t.user.on
    BY <1>0, <2>1, UserDeleteWell
  <2>3. Fine(t) /\ Stored(t)
    BY <1>0, <2>1, UserDeleteFine
  <2>4. State' = t
    BY <2>2, Becomes
  <2> HIDE DEF t
  <2>5. running' /\ UNCHANGED constants
    BY <1>6 DEF DeleteUser
  <2>6. conf'.refs = 0
    BY <1>3, <2>2, <2>4
  <2>7. Agrees(t)
    BY <2>2 DEF Agrees
  <2> QED  BY <1>0, <1>2, <2>3, <2>4, <2>5, <2>6, <2>7, SoundNext
<1>7. CASE ScriptOpen
  <2> DEFINE t == ConfigOpen(State)
  <2>1. build = "win32" => conf.open \/ ~op.open
    BY <1>0, <1>7 DEF ScriptOpen, Fine
  <2>2. Well(t) /\ t.conf.refs = conf.refs + 1 /\ t.user = user
    BY <1>0, ConfigOpenWell
  <2>3. Fine(t) /\ Stored(t)
    BY <1>0, <2>1, ConfigOpenFine
  <2>4. State' = t
    BY <1>7, <2>2, Becomes DEF ScriptOpen
  <2> HIDE DEF t
  <2>5. running' /\ UNCHANGED constants /\ conf.refs < MaxOpens /\ ~user.on
    BY <1>0, <1>7 DEF ScriptOpen
  <2>6. conf'.refs <= MaxOpens
    BY <1>0, <1>2, <1>3, <2>2, <2>4, <2>5
  <2>7. Agrees(t)
    BY <2>2, <2>5 DEF Agrees
  <2> QED  BY <1>0, <2>3, <2>4, <2>5, <2>6, <2>7, SoundNext
<1>8. CASE ScriptWrite
  <2> PICK v \in Groups \cup {"none"} : Become(ConfigWrite(State, "credits", v))
    BY <1>8 DEF ScriptWrite
  <2> DEFINE t == ConfigWrite(State, "credits", v)
  <2>1. /\ conf.open /\ "credits" \in Params /\ "credits" # "usergroup"
        /\ v \in Values \cup {"none"}
    BY <1>0, <1>8 DEF ScriptWrite, Params, Values
  <2>2. Well(t) /\ t.conf.refs = conf.refs
    BY <1>0, <2>1, ConfigWriteWell
  <2>3. Fine(t) /\ Stored(t) /\ Agrees(t)
    BY <1>0, <2>1, ConfigWriteFine
  <2>4. State' = t
    BY <2>2, Becomes
  <2> HIDE DEF t
  <2>5. running' /\ UNCHANGED constants
    BY <1>8 DEF ScriptWrite
  <2>6. conf'.refs <= MaxOpens
    BY <1>0, <1>3, <2>2, <2>4
  <2> QED  BY <1>0, <2>3, <2>4, <2>5, <2>6, SoundNext
<1>9. CASE ScriptClose
  <2> PICK fault \in Faults : Become(ConfigClose(State, fault))
    BY <1>9 DEF ScriptClose
  <2> DEFINE t == ConfigClose(State, fault)
  <2>1. conf.refs > 0 /\ conf.open /\ ~user.on
    BY <1>0, <1>9 DEF ScriptClose
  <2>2. build = "win32" /\ conf.refs = 1 /\ ~conf.shouldsave => ~op.open
    BY <1>0, <1>9, <2>1 DEF ScriptClose, Fine, Known
  <2>3. Well(t) /\ t.conf.refs = conf.refs - 1 /\ t.user = user
    BY <1>0, <2>1, ConfigCloseWell
  <2>4. Fine(t) /\ Stored(t)
    BY <1>0, <2>1, <2>2, ConfigCloseFine
  <2>5. State' = t
    BY <2>3, Becomes
  <2> HIDE DEF t
  <2>6. running' /\ UNCHANGED constants
    BY <1>9 DEF ScriptClose
  <2>7. conf'.refs <= MaxOpens
    BY <1>0, <1>2, <1>3, <2>3, <2>5
  <2>8. Agrees(t)
    BY <2>1, <2>3 DEF Agrees
  <2> QED  BY <1>0, <2>4, <2>5, <2>6, <2>7, <2>8, SoundNext
<1>10. ASSUME NEW fault \in Faults, ConfigPoll(fault)
       PROVE  /\ Known' /\ Fine(State)' /\ Stored(State)' /\ Agrees(State)'
              /\ conf'.refs <= MaxOpens /\ (~running' => ~op'.open)
  <2> DEFINE r == ProcessAdio(State)
             t == SaveModified(r, fault)
  <2>1. Well(r) /\ Kept(r) /\ r.conf.refs = conf.refs /\ r.user = user
    BY <1>0, ProcessAdioWell
  <2>2. Fine(r) /\ Stored(r) /\ (r.conf.fields = conf.fields \/ conf.refs = 0)
    BY <1>0, ProcessAdioFine
  <2>3. Become(t)
    BY <1>10 DEF ConfigPoll
  <2> HIDE DEF r
  <2>4. Well(t) /\ t.conf.refs = conf.refs /\ t.user = user
    BY <2>1, SaveModifiedWell
  <2>5. Fine(t) /\ Stored(t) /\ t.conf.fields = r.conf.fields
    BY <1>0, <2>1, <2>2, SaveModifiedFine
  <2>6. State' = t
    BY <2>3, <2>4, Becomes
  <2> HIDE DEF t
  <2>7. running' /\ UNCHANGED constants
    BY <1>10 DEF ConfigPoll
  <2>8. conf'.refs <= MaxOpens
    BY <1>0, <1>3, <2>4, <2>6
  <2>9. Agrees(t)
    BY <1>0, <2>2, <2>4, <2>5 DEF Agrees
  <2> QED  BY <1>0, <2>5, <2>6, <2>7, <2>8, <2>9, SoundNext
<1>11. CASE Elapse
  <2> DEFINE c == [conf EXCEPT !.late = TRUE]
             t == State'
  <2>1. /\ ConfShape(c) /\ c.refs = conf.refs /\ c.open /\ c.fields = conf.fields
        /\ (c.shouldsave <=> conf.shouldsave) /\ (c.saving <=> conf.saving) /\ (c.lost <=> conf.lost)
    BY <1>0, <1>11 DEF Elapse, Well, ConfShape
  <2>2. conf' = c /\ conf.open
    BY <1>11 DEF Elapse
  <2> HIDE DEF c
  <2>3. t.conf = c /\ t.disk = disk /\ t.op = op /\ t.user = user
    BY <1>11, <2>2 DEF Elapse, State
  <2>4. State' = t
    OBVIOUS
  <2> HIDE DEF t
  <2>5. Fine(t) /\ Stored(t) /\ Agrees(t)
    BY <1>0, <2>1, <2>2, <2>3 DEF Fine, Stored, Agrees, Written
  <2>6. running' /\ UNCHANGED constants
    BY <1>11 DEF Elapse
  <2> QED  BY <1>0, <2>1, <2>2, <2>4, <2>5, <2>6, SoundNext
<1>12. CASE DiskWrites
  <2> DEFINE t == Land(State)
  <2>1. op.open /\ ~op.done /\ Become(t) /\ UNCHANGED <<constants, running>>
    BY <1>12 DEF DiskWrites
  <2>2. /\ conf.fields \in Seq(LineType) /\ op.cells \in Seq(CellType) /\ disk = <<>>
        /\ build = "win32" /\ OneEach(conf.fields) /\ Tidy(op.cells)
        /\ (conf.open => conf.saving)
    BY <1>0, <2>1 DEF Fine
  <2>3. Well(t) /\ t.conf = conf /\ t.user = user
    BY <1>0, <2>1, LandWell
  <2>4. t.op.cells = op.cells /\ t.op.done /\ t.op.open
    BY <1>0, <2>1, LandIs
  <2>5. t.disk = op.cells
    <3>1. disk \in Seq(CellType)
      BY <1>0 DEF Fine
    <3> QED  BY <1>0, <2>1, <2>2, <3>1, LandFine
  <2>6. State' = t
    BY <2>1, <2>3, Becomes
  <2> HIDE DEF t
  <2>7. Fine(t) /\ Agrees(t)
    <3>1. user.group \in Values /\ (conf.open \/ kind = "user")
      BY <1>0, <2>1, <2>2 DEF Fine
    <3>2. Fine(t)
      BY <2>2, <2>3, <2>4, <2>5, <3>1 DEF Fine
    <3>3. Agrees(t)
      BY <1>0, <2>3 DEF Agrees
    <3> QED  BY <3>2, <3>3
  <2>8. Stored(t)
    <3>1. Lines(Dump(conf.fields)) = ToSet(conf.fields)
      BY <2>2, DumpLines
    <3> QED  BY <1>0, <2>1, <2>2, <2>3, <2>4, <2>5, <3>1 DEF Stored, Written
  <2>9. conf' = conf /\ running'
    BY <1>0, <1>3, <2>1, <2>3, <2>6
  <2> QED  BY <1>0, <2>1, <2>6, <2>7, <2>8, <2>9, SoundNext
<1>16. CASE DiskFails
  <2> DEFINE c == [conf EXCEPT !.lost = conf.open]
             o == [op EXCEPT !.done = TRUE]
             t == State'
  <2>1. op.open /\ ~op.done /\ conf' = c /\ op' = o /\ UNCHANGED <<constants, running, user>>
    BY <1>16 DEF DiskFails
  <2>2. /\ conf.fields \in Seq(LineType) /\ op.cells \in Seq(CellType)
        /\ build = "win32" /\ OneEach(conf.fields) /\ Tidy(op.cells)
        /\ (conf.open => conf.saving) /\ user.group \in Values
        /\ (conf.open \/ kind = "user")
    BY <1>0, <2>1 DEF Fine
  <2>3. /\ c.open = conf.open /\ c.refs = conf.refs /\ c.fields = conf.fields
        /\ c.shouldsave = conf.shouldsave /\ c.saving = conf.saving /\ c.lost = conf.open
        /\ o.open = op.open /\ o.done /\ o.cells = op.cells
    BY <1>0 DEF Well, ConfShape, OpShape
  <2>4. disk' \in Seq(CellType) /\ Tidy(disk')
    <3> PICK cut \in 0 .. Len(op.cells) : disk' = SubSeq(op.cells, 1, cut)
      BY <1>16 DEF DiskFails
    <3> QED  BY <2>2, TidyPrefix
  <2> HIDE DEF c, o
  <2>5. t.disk = disk' /\ t.conf = c /\ t.op = o /\ t.user = user
    BY <2>1 DEF State
  <2>6. State' = t
    OBVIOUS
  <2> HIDE DEF t
  <2>7. Fine(t) /\ Stored(t) /\ Agrees(t)
    <3>1. Fine(t)
      BY <2>1, <2>2, <2>3, <2>4, <2>5 DEF Fine
    <3>2. Stored(t)
      BY <2>3, <2>5 DEF Stored
    <3>3. Agrees(t)
      BY <1>0, <2>3, <2>5 DEF Agrees
    <3> QED  BY <3>1, <3>2, <3>3
  <2> QED  BY <1>0, <2>1, <2>3, <2>6, <2>7, SoundNext
<1>13. CASE Ends
  <2>1. /\ ~Closed.open /\ Closed.fields = <<>> /\ Closed.refs = 0 /\ ~NoUser.on
        /\ ~NoOp.open /\ ~NoOp.done /\ NoOp.cells = <<>> /\ NoUser.group \in Values
    BY DEF Closed, NoOp, NoUser, Values, Groups
  <2>2. conf' = Closed /\ op' = NoOp /\ user' = NoUser /\ UNCHANGED constants
    BY <1>13 DEF Ends
  <2>3. disk' \in Seq(CellType) /\ (build = "win32" => Tidy(disk'))
    <3> PICK cut \in 0 .. Len(op.cells) :
               /\ op.done => cut = 0
               /\ disk' = IF cut > 0 THEN SubSeq(op.cells, 1, cut) ELSE disk
      BY <1>13 DEF Ends
    <3>1. op.cells \in Seq(CellType) /\ disk \in Seq(CellType)
      BY <1>0 DEF Fine
    <3>2. /\ SubSeq(op.cells, 1, cut) \in Seq(CellType)
          /\ Tidy(op.cells) => Tidy(SubSeq(op.cells, 1, cut))
      BY <3>1, TidyPrefix
    <3> QED  BY <1>0, <3>1, <3>2 DEF Fine
  <2>4. /\ (State.disk)' = disk' /\ (State.conf)' = conf'
        /\ (State.op)' = op' /\ (State.user)' = user'
    BY DEF State
  <2> DEFINE t == State'
  <2>5. t.disk = disk' /\ t.conf = Closed /\ t.op = NoOp /\ t.user = NoUser
    BY <2>2, <2>4
  <2> HIDE DEF t
  <2>6. Fine(t) /\ Stored(t) /\ Agrees(t)
    BY <2>1, <2>3, <2>5, NothingHeld DEF Fine, Stored, Agrees
  <2>7. Known' /\ Fine(State)' /\ Stored(State)' /\ Agrees(State)'
    <3>1. State' = t
      BY DEF t
    <3> QED  BY <1>0, <2>2, <2>6, <3>1, SoundNext
  <2> QED  BY <1>2, <2>1, <2>2, <2>7
<1>14. CASE Start
  <2>0. ~running /\ running' /\ UNCHANGED constants
    BY <1>14 DEF Start
  <2>1. CASE kind = "user"
    <3> DEFINE t == UserLoad(State)
    <3>1. Well(t) /\ (t.user.on => t.conf.refs = 1)
      BY <1>0, <2>0, UserLoadWell
    <3>2. Fine(t) /\ Stored(t) /\ Agrees(t)
      BY <1>0, <2>0, UserLoadFine
    <3>3. State' = t
      BY <1>14, <2>1, <3>1, Becomes DEF Start
    <3>4. t.conf.refs <= 1
      BY <1>0, <2>0, ConfigOpenWell, WithUser DEF UserLoad, UserShape
    <3> HIDE DEF t
    <3>5. conf'.refs <= MaxOpens
      <4>1. t.conf.refs \in Nat
        BY <3>1 DEF Well, ConfShape
      <4> QED  BY <1>2, <1>3, <3>3, <3>4, <4>1
    <3> QED  BY <1>0, <2>0, <3>2, <3>3, <3>5, SoundNext
  <2>2. CASE kind # "user"
    <3>1. State' = State
      BY <1>0, <1>14, <2>2, Becomes DEF Start
    <3>2. conf' = conf
      BY <1>3, <3>1
    <3> QED  BY <1>0, <2>0, <3>1, <3>2, SoundNext
  <2> QED  BY <2>1, <2>2
<1>15. CASE UNCHANGED vars
  <2>1. State' = State /\ UNCHANGED <<constants, conf, op, running>>
    BY <1>15 DEF vars, State, constants
  <2> QED  BY <1>0, <2>1, SoundNext
<1> QED  BY <1>4, <1>5, <1>6, <1>7, <1>8, <1>9, <1>10, <1>11, <1>12, <1>13, <1>14, <1>15, <1>16 DEF Next

(* Whatever is changed, saved, refused, closed, removed or cut short by an *)
(* end of the process, in whatever order: a file that is neither to be     *)
(* saved nor being saved is on the disk as it is in memory, and, where     *)
(* files are cut, a user is what its file says (config_save, config_poll,  *)
(* config_load, user_load, user_set_group).  On Windows, scripts that      *)
(* close a file while it is being saved are left out.                      *)
THEOREM FilesStayInStep ==
  ASSUME CloseBusy => "win32" \notin Builds
  PROVE  Spec => []InStep
<1>1. Sound => InStep
  <2> SUFFICES ASSUME Sound PROVE InStep
    OBVIOUS
  <2> USE Parts
  <2>1. /\ Safe /\ Fine(State) /\ Stored(State) /\ Agrees(State) /\ conf.refs <= MaxOpens
    BY DEF Sound
  <2>2. TypeOK
    <3>1. \A l \in ToSet(conf.fields) : l \in LineType
      BY <2>1, ElementOfSeq, LenProperties DEF Fine, ToSet
    <3>2. conf.refs \in 0 .. MaxOpens
      BY <2>1, StorageAssumption DEF Safe, Well, ConfShape
    <3> QED  BY <2>1, <3>1, <3>2 DEF TypeOK, Fine, Safe, Held, LineType, Params, Values
  <2>3. SavedIsThere
    <3> QED  BY <2>1 DEF SavedIsThere, Stored, Written
  <2>4. Synchronized
    <3> DEFINE l == Line("usergroup", user.group)
    <3>1. l.param = "usergroup" /\ l.value = user.group
      BY DEF Line
    <3> HIDE DEF l
    <3>2. ASSUME build = "win32", user.on PROVE user.group = Pread(conf.fields, "usergroup")
      <4>1. l \in ToSet(conf.fields)
        BY <2>1, <3>2 DEF Agrees, l
      <4>2. conf.fields \in Seq(LineType) /\ OneEach(conf.fields)
        BY <2>1, <3>2 DEF Fine
      <4> QED  BY <3>1, <4>1, <4>2, PreadOne
    <3> QED  BY <3>2 DEF Synchronized
  <2> QED  BY <2>2, <2>3, <2>4 DEF InStep
<1>2. Sound /\ [Next]_vars => Sound'
  BY SoundStep
<1> QED  BY <1>1, <1>2, SoundInit, PTL DEF Spec

(* A file leaves memory by config_poll when a write is over and nothing is *)
(* left to save; saving what is due takes nothing from memory.             *)
LEMMA ProcessAdioLeaves ==
  ASSUME NEW s, Well(s), s.conf.open
  PROVE  LET t == ProcessAdio(s)
         IN  /\ t.disk = s.disk
             /\ ~t.conf.open => s.conf.saving /\ s.op.done /\ ~s.conf.shouldsave
<1> DEFINE c == [s.conf EXCEPT !.saving = FALSE]
           r == [s EXCEPT !.op = NoOp]
           t == [r EXCEPT !.conf = c]
<1>1. c.open /\ (c.shouldsave <=> s.conf.shouldsave)
  BY DEF Well, ConfShape
<1>2. Well(r) /\ r.conf = s.conf /\ r.disk = s.disk
  BY ShapeOfNothing, WithOp
<1>3. ProcessAdio(s) =
        IF ~(s.conf.open /\ s.conf.saving /\ s.op.done) THEN s
        ELSE IF t.conf.shouldsave \/ t.conf.refs > 0 THEN t ELSE [t EXCEPT !.conf = Closed]
  BY <1>2 DEF ProcessAdio
<1> HIDE DEF c, r
<1>4. t.conf = c /\ t.disk = s.disk /\ [t EXCEPT !.conf = Closed].disk = s.disk
  BY <1>2 DEF Well
<1> HIDE DEF t
<1> QED  BY <1>1, <1>3, <1>4

LEMMA SaveModifiedStays ==
  ASSUME NEW s, Well(s), NEW fault, s.conf.open
  PROVE  SaveModified(s, fault).conf.open
  BY ConfigSaveWell DEF SaveModified

(* Only the operations that close a file take it from memory.              *)
LEMMA LeavesBy ==
  ASSUME CloseBusy => "win32" \notin Builds, Sound, [Next]_vars
  PROVE  LeavesSaved
<1> USE Parts
<1> SUFFICES ASSUME conf.open, ~conf'.open, running'
             PROVE  /\ ~conf.shouldsave
                    /\ user.on \/ conf.lost \/ ToSet(conf.fields) \subseteq Lines(disk')
  BY DEF LeavesSaved
<1>1. /\ Well(State) /\ Fine(State) /\ Stored(State) /\ Known /\ Kept(State)
      /\ (user.on => conf.open /\ conf.refs = 1) /\ (conf.refs > 0 => conf.open)
      /\ conf.refs \in Nat /\ (~running => ~conf.open)
      /\ Lives
  BY DEF Sound, Safe, Held, Well, ConfShape
<1>2. ~conf.shouldsave /\ ~conf.lost /\ (~conf.saving \/ op.done \/ ~op.open)
        => ToSet(conf.fields) \subseteq Lines(disk)
  <2>1. ToSet(<<>>) = {}
    BY DEF ToSet
  <2> QED  BY <1>1, <2>1 DEF Stored, Written
<1>3. ASSUME NEW s, Become(s)
      PROVE  conf' = s.conf /\ disk' = s.disk
  BY <1>3 DEF Become
<1>4. CASE DeleteUser
  <2> PICK fault \in Faults : Become(UserDelete(State, fault))
    BY <1>4 DEF DeleteUser
  <2> DEFINE r == [RemoveFile(State) EXCEPT !.user = NoUser]
  <2>1. user.on
    BY <1>4 DEF DeleteUser
  <2>2. Well(r) /\ r.conf = conf
    BY <1>1, RemoveFileWell, ShapeOfNothing, WithUser
  <2>3. conf' = ConfigClose(r, fault).conf
    BY <1>3 DEF UserDelete
  <2> HIDE DEF r
  <2> QED  BY <1>1, <2>1, <2>2, <2>3, ConfigCloseWell
<1>5. CASE ScriptClose
  <2> PICK fault \in Faults : Become(ConfigClose(State, fault))
    BY <1>5 DEF ScriptClose
  <2>1. conf.refs > 0 /\ (conf.saving /\ ~conf.shouldsave /\ conf.refs = 1 => CloseBusy)
    BY <1>5 DEF ScriptClose
  <2>2. ~conf.shouldsave /\ conf.refs = 1 /\ disk' = disk
    BY <1>1, <1>3, <2>1, ConfigCloseWell
  <2>3. ~conf.saving \/ op.done \/ ~op.open
    BY <1>1, <2>1, <2>2 DEF Fine, Known
  <2> QED  BY <1>2, <2>2, <2>3
<1>6. ASSUME NEW fault, ConfigPoll(fault)
      PROVE  ~conf.shouldsave /\ (conf.lost \/ ToSet(conf.fields) \subseteq Lines(disk'))
  <2> DEFINE r == ProcessAdio(State)
  <2>1. Well(r) /\ Kept(r)
    BY <1>1, ProcessAdioWell
  <2>2. /\ r.disk = disk
        /\ ~r.conf.open => conf.saving /\ op.done /\ ~conf.shouldsave
    BY <1>1, ProcessAdioLeaves
  <2>3. conf' = SaveModified(r, fault).conf /\ disk' = SaveModified(r, fault).disk
    BY <1>3, <1>6 DEF ConfigPoll
  <2> HIDE DEF r
  <2>4. ~r.conf.open
    BY <2>1, <2>3, SaveModifiedStays
  <2>5. disk' = disk
    BY <2>1, <2>2, <2>3, <2>4, SaveModifiedWell
  <2> QED  BY <1>2, <2>2, <2>4, <2>5
<1>7. ~NewUser
  <2> SUFFICES ASSUME NewUser PROVE FALSE
    OBVIOUS
  <2> PICK g \in Groups, fault \in Faults : Become(UserNew(State, g, fault))
    BY DEF NewUser
  <2>1. ~born /\ kind = "user"
    BY DEF NewUser
  <2> QED  BY <1>1, <2>1 DEF Lives, Absent
<1>8. ~SetUser /\ ~ScriptOpen /\ ~ScriptWrite
  <2>1. ASSUME NEW g \in Groups, NEW fault \in Faults, user.on, Become(UserSet(State, g, fault))
        PROVE  FALSE
    <3>1. Well(UserSet(State, g, fault)) /\ UserSet(State, g, fault).conf.refs = 1
      BY <1>1, <2>1, UserSetWell
    <3> QED  BY <1>3, <2>1, <3>1 DEF Well
  <2>2. ASSUME Become(ConfigOpen(State)) PROVE FALSE
    BY <1>1, <1>3, <2>2, ConfigOpenWell
  <2>3. ASSUME NEW v, conf.refs > 0, Become(ConfigWrite(State, "credits", v)) PROVE FALSE
    BY <1>1, <1>3, <2>3, ConfigWriteWell
  <2> QED  BY <2>1, <2>2, <2>3 DEF SetUser, ScriptOpen, ScriptWrite
<1>9. ~Elapse /\ ~DiskWrites /\ ~DiskFails /\ ~Ends /\ ~UNCHANGED vars
  <2>1. conf.open \in BOOLEAN /\ "open" \in DOMAIN conf
    BY <1>1 DEF Well, ConfShape
  <2>2. ASSUME DiskWrites PROVE FALSE
    <3>1. op.open /\ conf' = Land(State).conf
      BY <1>3, <2>2 DEF DiskWrites
    <3> QED  BY <1>1, <3>1, LandWell
  <2>3. ~Elapse /\ ~DiskFails
    BY <2>1 DEF Elapse, DiskFails
  <2> QED  BY <2>2, <2>3 DEF Ends, vars
<1>10. ~Start
  BY <1>1 DEF Start
<1> QED  BY <1>4, <1>5, <1>6, <1>7, <1>8, <1>9, <1>10 DEF Next

(* A file that nobody holds stays in memory until it is saved, and leaves  *)
(* it with nothing left to save and its fields on the disk, whatever fails *)
(* and in whatever order changes, saves and closes come (config_close,     *)
(* config_poll); but for a user that is deleted and a write that failed.   *)
THEOREM ClosedFilesAreSaved ==
  ASSUME CloseBusy => "win32" \notin Builds
  PROVE  Spec => ClosedIsSaved
<1>1. Sound => KeptUntilSaved
  BY Parts DEF Sound, Safe, Kept, KeptUntilSaved
<1>2. Sound /\ [Next]_vars => Sound' /\ LeavesSaved
  BY SoundStep, LeavesBy
<1> QED  BY <1>1, <1>2, SoundInit, PTL DEF Spec, ClosedIsSaved
================================================================================
