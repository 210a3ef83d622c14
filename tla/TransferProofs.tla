----------------------------- MODULE TransferProofs ----------------------------
(***************************************************************************)
(* The safety of Transfer, for any number of clients, slaves and files.    *)
(*                                                                         *)
(* The operations of Transfer call each other while what they work on is   *)
(* half taken apart.  Good says of a state what holds at every such        *)
(* moment: everything, but for the clients that are being cleaned up.      *)
(* Detach makes a state good for these again; the elements whose upload it *)
(* ended are ghosts until DeleteElements has removed them.  Each operation *)
(* has a lemma that says from which states to which it leads, and each     *)
(* action is a few of these lemmas in a row.                               *)
(* Live says of the same moments that a command a client names is not      *)
(* freed, and Calm of an operation that it loses no complete file and      *)
(* tells nobody anything but of freed commands.                            *)
(***************************************************************************)
EXTENDS Transfer, TLAPS

States == [client : [Clients -> ClientType], elem : [Files -> ElementType],
           link : [Slaves -> {"down", "connecting", "ready"}],
           xfers : [Slaves -> SUBSET Clients], cmds : SUBSET CommandType,
           news : SUBSET NewsType]

(* A client that has gone holds nothing; the kind of socket a client has.  *)
Sane(x) == /\ ~x.on => x = Gone
           /\ x.fd = "listening" => x.passive
           /\ x.fd = "connecting" => ~x.passive

(* Clients and connections, clients and elements name each other.          *)
HeldBy(s) == \A c \in Clients, x \in Slaves : c \in s.xfers[x] <=> s.client[c].cnx = x
UsedBy(s) == \A c \in Clients, f \in Files :
                /\ s.elem[f].uploader = c <=> s.client[c].el = f /\ s.client[c].upload
                /\ c \in s.elem[f].leechers <=> s.client[c].el = f /\ ~s.client[c].upload
                /\ s.client[c].el = f => s.elem[f].exists
Alone(s) == \A f \in Files : s.elem[f].leechers # {} => s.elem[f].uploader = None

(* A transfer has an element and a connection that is ready, or neither.   *)
Whole(s, c) ==
    LET x == s.client[c]
    IN  /\ x.cnx = None <=> x.el = None
        /\ x.cnx # None => s.link[x.cnx] = "ready" /\ x.uid # 0
        /\ x.slaveXfer => x.el # None

(* Commands are known to the clients they are of, unless these pipeline.   *)
Names(s, c) == s.client[c].cmd # None => s.client[c].cmd.client = c
Owned(s, k) == LET x == s.client[k.client] IN x.cmd = k /\ x.cnx = k.cnx /\ x.uid = k.uid
Promised(s, c) == s.client[c].told = "transfer" =>
                      s.client[c].cmd \in s.cmds /\ s.client[c].cmd.kind = "TRANSFER"

Good(s, C) ==
    /\ s \in States
    /\ \A c \in Clients : Sane(s.client[c]) /\ Names(s, c)
    /\ HeldBy(s) /\ UsedBy(s) /\ Alone(s)
    /\ \A c \in Clients \ C : Whole(s, c)
    /\ ~Pipelining => /\ \A k \in s.cmds : Owned(s, k)
                      /\ \A c \in Clients \ C : Promised(s, c)

(* Every element but those in G is uploaded or has a place.                *)
Ghostless(s, G) ==
    \A f \in Files \ G : s.elem[f].exists => s.elem[f].uploader # None \/ s.elem[f].at # {}

IInv == Good(State, {}) /\ Ghostless(State, {}) /\ news \subseteq NewsType

--------------------------------------------------------------------------------
(* What clients and elements are after a data connection is over.          *)
LEMMA GoneFacts ==
    ASSUME NEW x \in ClientType
    PROVE  x = Gone <=> /\ ~x.on /\ x.last = "other" /\ ~x.slaveXfer /\ ~x.passive /\ ~x.ready
                        /\ x.fd = "none" /\ x.data = "none" /\ x.el = None /\ x.cnx = None
                        /\ ~x.upload /\ x.uid = 0 /\ x.cmd = None /\ x.told = "nothing"
BY DEF ClientType, Gone, Blank

LEMMA ResetFacts ==
    ASSUME NEW x \in ClientType
    PROVE  LET y == Reset(x)
           IN  /\ y \in ClientType /\ y.on = x.on /\ y.el = None /\ y.cnx = None /\ ~y.slaveXfer
               /\ y.told # "transfer" /\ y.cmd = None /\ y.fd = "none" /\ ~y.upload
               /\ (x = Gone => y = Gone)
               /\ y.told \in {"nothing", "listing"}
<1> DEFINE y == Reset(x)
           told == IF x.told = "listing" THEN "listing" ELSE "nothing"
<1>1. told \in {"nothing", "listing"}
  OBVIOUS
<1>2. y = [x EXCEPT !.slaveXfer = FALSE, !.passive = FALSE, !.ready = FALSE,
                    !.fd = "none", !.data = "none", !.el = None, !.cnx = None,
                    !.upload = FALSE, !.uid = 0, !.cmd = None, !.told = told]
  BY DEF Reset
<1>3. x = Gone => told = "nothing"
  BY DEF Gone, Blank
<1> HIDE DEF y, told
<1>4. /\ y.on = x.on /\ y.last = x.last /\ y.told = told
      /\ y.el = None /\ y.cnx = None /\ y.cmd = None /\ y.fd = "none"
      /\ y.data = "none" /\ y.uid = 0 /\ ~y.slaveXfer /\ ~y.passive /\ ~y.ready /\ ~y.upload
  BY <1>2 DEF ClientType
<1>5. y \in ClientType
  BY <1>1, <1>2 DEF ClientType
<1>6. ASSUME x = Gone PROVE y = Gone
  BY <1>3, <1>4, <1>5, <1>6, GoneFacts
<1> QED
  BY <1>1, <1>4, <1>5, <1>6 DEF y

LEMMA LetGoFacts ==
    ASSUME NEW s \in States, NEW C \in SUBSET Clients, NEW f \in Files
    PROVE  LET e == LetGo(s, f, C)
           IN  /\ e \in ElementType /\ e.exists = s.elem[f].exists /\ e.at = s.elem[f].at
               /\ e.uploader = IF s.elem[f].uploader \in C /\ s.client[s.elem[f].uploader].el = f
                                 THEN None ELSE s.elem[f].uploader
               /\ \A c : c \in e.leechers <=>
                        c \in s.elem[f].leechers /\ ~(c \in C /\ s.client[c].el = f)
<1>1. s.elem[f] \in ElementType
  BY DEF States
<1> QED
  BY <1>1 DEF LetGo, ElementType

LEMMA LetGoNothing ==
    ASSUME NEW s \in States, NEW C \in SUBSET Clients, NEW f \in Files,
           \A c \in C : s.client[c].el # f
    PROVE  LetGo(s, f, C) = s.elem[f]
<1>1. s.elem[f] \in ElementType
  BY DEF States
<1>2. {c \in s.elem[f].leechers : ~(c \in C /\ s.client[c].el = f)} = s.elem[f].leechers
  OBVIOUS
<1> QED
  BY <1>1, <1>2 DEF LetGo, ElementType

LEMMA DetachFields ==
    ASSUME NEW s \in States, NEW C \in SUBSET Clients
    PROVE  LET t == Detach(s, C)
           IN  /\ t \in States
               /\ t.client = [c \in Clients |-> IF c \in C THEN Reset(s.client[c]) ELSE s.client[c]]
               /\ t.elem = [f \in Files |-> LetGo(s, f, C)]
               /\ t.link = s.link
               /\ t.xfers = [x \in Slaves |-> {c \in s.xfers[x] : ~(c \in C /\ s.client[c].cnx = x)}]
               /\ t.cmds = s.cmds \ ({s.client[c].cmd : c \in C} \ {None})
<1> DEFINE t == Detach(s, C)
<1>1. /\ t.client = [c \in Clients |-> IF c \in C THEN Reset(s.client[c]) ELSE s.client[c]]
      /\ t.link = s.link
      /\ t.xfers = [x \in Slaves |-> {c \in s.xfers[x] : ~(c \in C /\ s.client[c].cnx = x)}]
      /\ t.cmds = s.cmds \ ({s.client[c].cmd : c \in C} \ {None})
  BY DEF Detach, States
<1>2. t.elem = [f \in Files |-> LetGo(s, f, C)]
  BY DEF Detach, States
<1>3. t.news \subseteq s.news \cup {"freed command"}
  BY DEF Detach, States
<1>5. t.client \in [Clients -> ClientType]
  BY <1>1, ResetFacts DEF States
<1>6. t.elem \in [Files -> ElementType]
  BY <1>2, LetGoFacts
<1>7. t.news \subseteq NewsType
  BY <1>3 DEF States, NewsType
<1>8. t.xfers \in [Slaves -> SUBSET Clients] /\ t.cmds \subseteq CommandType
      /\ t.link \in [Slaves -> {"down", "connecting", "ready"}]
  BY <1>1 DEF States
<1>9. t \in States
  BY <1>5, <1>6, <1>7, <1>8 DEF States, Detach
<1> QED
  BY <1>1, <1>2, <1>9 DEF t

(* Cleaning up the clients that are not good makes the whole state good,   *)
(* but for the elements they were uploading.                               *)
LEMMA DetachGood ==
    ASSUME NEW s, NEW C \in SUBSET Clients, Good(s, C)
    PROVE  LET t == Detach(s, C)
           IN  /\ Good(t, {})
               /\ t.link = s.link
               /\ \A c \in Clients : t.client[c] = IF c \in C THEN Reset(s.client[c]) ELSE s.client[c]
               /\ \A f \in Files : /\ t.elem[f].exists = s.elem[f].exists /\ t.elem[f].at = s.elem[f].at
                                   /\ f \notin Uploads(s, C) => t.elem[f].uploader = s.elem[f].uploader
                                   /\ f \in Uploads(s, C) =>
                                         t.elem[f].uploader = None /\ t.elem[f].leechers = {}
               /\ t.cmds \subseteq s.cmds
               /\ \A G : Ghostless(s, G) => Ghostless(t, G \cup Uploads(s, C))
<1> DEFINE t == Detach(s, C)
<1>1. s \in States
  BY DEF Good
<1>2. /\ t \in States
      /\ t.client = [c \in Clients |-> IF c \in C THEN Reset(s.client[c]) ELSE s.client[c]]
      /\ t.elem = [f \in Files |-> LetGo(s, f, C)]
      /\ t.link = s.link
      /\ t.xfers = [x \in Slaves |-> {c \in s.xfers[x] : ~(c \in C /\ s.client[c].cnx = x)}]
      /\ t.cmds = s.cmds \ ({s.client[c].cmd : c \in C} \ {None})
  BY <1>1, DetachFields
<1> HIDE DEF t
<1>3. \A c \in Clients : s.client[c] \in ClientType
  BY <1>1 DEF States
<1>4. \A c \in C : /\ t.client[c] = Reset(s.client[c]) /\ t.client[c].on = s.client[c].on
                   /\ t.client[c].el = None /\ t.client[c].cnx = None /\ t.client[c].cmd = None
                   /\ ~t.client[c].upload /\ ~t.client[c].slaveXfer /\ t.client[c].told # "transfer"
                   /\ t.client[c].fd = "none" /\ (s.client[c] = Gone => t.client[c] = Gone)
  BY <1>2, <1>3, ResetFacts
<1>5. \A c \in Clients \ C : t.client[c] = s.client[c]
  BY <1>2
<1>6. \A f \in Files :
         /\ t.elem[f].exists = s.elem[f].exists /\ t.elem[f].at = s.elem[f].at
         /\ t.elem[f].uploader = IF s.elem[f].uploader \in C /\ s.client[s.elem[f].uploader].el = f
                                   THEN None ELSE s.elem[f].uploader
         /\ \A c : c \in t.elem[f].leechers <=>
                  c \in s.elem[f].leechers /\ ~(c \in C /\ s.client[c].el = f)
  <2> SUFFICES ASSUME NEW f \in Files
               PROVE  LET e == t.elem[f]
                      IN  /\ e.exists = s.elem[f].exists /\ e.at = s.elem[f].at
                          /\ e.uploader = IF s.elem[f].uploader \in C /\ s.client[s.elem[f].uploader].el = f
                                            THEN None ELSE s.elem[f].uploader
                          /\ \A c : c \in e.leechers <=>
                                   c \in s.elem[f].leechers /\ ~(c \in C /\ s.client[c].el = f)
    OBVIOUS
  <2>1. t.elem[f] = LetGo(s, f, C)
    BY <1>2
  <2> QED
    BY <1>1, <2>1, LetGoFacts
<1>7. \A f \in Files : s.elem[f].uploader \in Clients \cup {None} /\ s.elem[f].leechers \subseteq Clients
  BY <1>1 DEF States, ElementType
<1>8. \A c \in Clients : Sane(t.client[c]) /\ Names(t, c)
  BY <1>4, <1>5 DEF Good, Sane, Names
<1>9. HeldBy(t)
  <2>1. \A x \in Slaves : x # None
    BY TransferAssumption DEF TransferAssumption
  <2> QED
    BY <1>2, <1>4, <1>5, <2>1 DEF Good, HeldBy
<1>10. UsedBy(t)
  <2> SUFFICES ASSUME NEW c \in Clients, NEW f \in Files
               PROVE  /\ t.elem[f].uploader = c <=> t.client[c].el = f /\ t.client[c].upload
                      /\ c \in t.elem[f].leechers <=> t.client[c].el = f /\ ~t.client[c].upload
                      /\ t.client[c].el = f => t.elem[f].exists
    BY DEF UsedBy
  <2>1. /\ s.elem[f].uploader = c <=> s.client[c].el = f /\ s.client[c].upload
        /\ c \in s.elem[f].leechers <=> s.client[c].el = f /\ ~s.client[c].upload
        /\ s.client[c].el = f => s.elem[f].exists
    BY DEF Good, UsedBy
  <2>2. c # None /\ f # None
    BY TransferAssumption DEF TransferAssumption
  <2>3. CASE c \in C
    BY <1>4, <1>6, <2>1, <2>2, <2>3
  <2>4. CASE c \notin C
    BY <1>5, <1>6, <2>1, <2>2, <2>4
  <2> QED
    BY <2>3, <2>4
<1>11. Alone(t)
  BY <1>6 DEF Good, Alone
<1>12. \A c \in Clients : Whole(t, c)
  BY <1>2, <1>4, <1>5 DEF Good, Whole
<1>13. ASSUME ~Pipelining PROVE (\A k \in t.cmds : Owned(t, k)) /\ (\A c \in Clients : Promised(t, c))
  <2>1. \A k \in s.cmds : k \in CommandType /\ k # None /\ k.client \in Clients /\ Owned(s, k)
    BY <1>1, <1>13, TransferAssumption DEF Good, States, CommandType, TransferAssumption
  <2>2. \A k \in t.cmds : k \in s.cmds /\ k.client \notin C
    BY <1>2, <2>1 DEF Owned
  <2>3. \A k \in t.cmds : Owned(t, k)
    BY <1>5, <2>1, <2>2 DEF Owned
  <2>4. ASSUME NEW c \in Clients, t.client[c].told = "transfer"
        PROVE  t.client[c].cmd \in t.cmds /\ t.client[c].cmd.kind = "TRANSFER"
    <3>1. c \notin C /\ t.client[c] = s.client[c]
      BY <1>4, <1>5, <2>4
    <3>2. s.client[c].cmd \in s.cmds /\ s.client[c].cmd.kind = "TRANSFER"
      BY <1>13, <2>4, <3>1 DEF Good, Promised
    <3>3. \A d \in C : s.client[d].cmd # None => s.client[d].cmd # s.client[c].cmd
      BY <2>1, <3>1, <3>2 DEF Good, Names
    <3> QED
      BY <1>2, <3>1, <3>2, <3>3
  <2> QED
    BY <2>3, <2>4 DEF Promised
<1>14. Good(t, {})
  BY <1>2, <1>8, <1>9, <1>10, <1>11, <1>12, <1>13 DEF Good
<1>15. \A f \in Files : f \in Uploads(s, C) <=> \E c \in C : s.client[c].el = f /\ s.client[c].upload
  BY TransferAssumption DEF Uploads, TransferAssumption
<1>16. ASSUME NEW f \in Files, f \notin Uploads(s, C) PROVE t.elem[f].uploader = s.elem[f].uploader
  BY <1>6, <1>15, <1>16 DEF Good, UsedBy
<1>17. ASSUME NEW f \in Files, f \in Uploads(s, C)
       PROVE  t.elem[f].uploader = None /\ t.elem[f].leechers = {}
  <2>1. PICK c \in C : s.client[c].el = f /\ s.client[c].upload
    BY <1>15, <1>17
  <2>2. s.elem[f].uploader = c
    BY <2>1 DEF Good, UsedBy
  <2>3. s.elem[f].leechers = {}
    BY <2>2, TransferAssumption DEF Good, Alone, TransferAssumption
  <2> QED
    BY <1>6, <2>1, <2>2, <2>3
<1>18. \A G : Ghostless(s, G) => Ghostless(t, G \cup Uploads(s, C))
  BY <1>6, <1>16 DEF Ghostless
<1> QED
  BY <1>2, <1>6, <1>14, <1>16, <1>17, <1>18 DEF t

(* Good says more, the fewer clients are excepted.                         *)
LEMMA GoodWider ==
    ASSUME NEW s, NEW C, NEW D, C \subseteq D, Good(s, C)
    PROVE  Good(s, D)
BY DEF Good

(* Who transfers an element that is deleted is cleaned up, and who takes   *)
(* it is destroyed; the other clients and elements do not notice.          *)
LEMMA DeleteElementsGood ==
    ASSUME NEW s, NEW F \in SUBSET Files, NEW C \in SUBSET Clients, Good(s, C),
           \A c \in C : s.client[c].el \in F
    PROVE  LET t == DeleteElements(s, F)
           IN  /\ Good(t, {})
               /\ t.link = s.link /\ t.cmds \subseteq s.cmds
               /\ \A c \in Clients : s.client[c].el \notin F => t.client[c] = s.client[c]
               /\ \A c \in Clients : t.client[c] \in {s.client[c], Reset(s.client[c]), Gone}
               /\ \A f \in Files : t.elem[f] = IF f \in F THEN NoElement ELSE s.elem[f]
               /\ \A G : Ghostless(s, G) => Ghostless(t, G \ F)
<1> DEFINE up   == {s.elem[f].uploader : f \in F} \ {None}
           down == UNION {s.elem[f].leechers : f \in F}
           D    == up \cup down
           d    == Detach(s, D)
           t    == DeleteElements(s, F)
<1>1. s \in States
  BY DEF Good
<1>2. \A f \in Files : s.elem[f] \in ElementType
  BY <1>1 DEF States
<1>3. D \subseteq Clients /\ down \subseteq Clients
  BY <1>2 DEF ElementType
<1>4. \A c \in Clients : c \in D <=> s.client[c].el \in F
  <2>1. \A c \in Clients : c # None /\ s.client[c].upload \in BOOLEAN
    BY <1>1, TransferAssumption DEF TransferAssumption, States, ClientType
  <2>2. ASSUME NEW c \in Clients, c \in D PROVE s.client[c].el \in F
    <3>1. PICK f \in F : s.elem[f].uploader = c \/ c \in s.elem[f].leechers
      BY <2>2
    <3> QED
      BY <3>1 DEF Good, UsedBy
  <2>3. ASSUME NEW c \in Clients, s.client[c].el \in F PROVE c \in D
    <3>1. s.elem[s.client[c].el].uploader = c \/ c \in s.elem[s.client[c].el].leechers
      BY <2>1, <2>3 DEF Good, UsedBy
    <3> QED
      BY <2>1, <2>3, <3>1
  <2> QED
    BY <2>2, <2>3
<1>6. t = [d EXCEPT !.elem = [f \in Files |-> IF f \in F THEN NoElement ELSE @[f]],
                   !.client = [c \in Clients |-> IF c \in down THEN Gone ELSE @[c]]]
  BY DEF DeleteElements
<1>10. D \in SUBSET Clients /\ down \subseteq D
  BY <1>3
<1> HIDE DEF up, down, D, t
<1>5. Good(s, D)
  BY <1>4, GoodWider
<1>7. /\ d \in States
      /\ d.elem = [f \in Files |-> LetGo(s, f, D)]
  BY <1>1, <1>10, DetachFields
<1>8. /\ Good(d, {}) /\ d.link = s.link /\ d.cmds \subseteq s.cmds
      /\ \A c \in Clients : d.client[c] = IF c \in D THEN Reset(s.client[c]) ELSE s.client[c]
  BY <1>5, <1>10, DetachGood
<1>9. \A f \in Files \ F : d.elem[f] = s.elem[f]
  <2> SUFFICES ASSUME NEW f \in Files \ F PROVE LetGo(s, f, D) = s.elem[f]
    BY <1>7
  <2>1. \A c \in D : s.client[c].el # f
    BY <1>10, <1>4
  <2> QED
    BY <1>1, <1>10, <2>1, LetGoNothing
<1> HIDE DEF d, t
<1>11. /\ t.link = d.link /\ t.cmds = d.cmds /\ t.xfers = d.xfers /\ t.news = d.news
       /\ \A f \in Files : t.elem[f] = IF f \in F THEN NoElement ELSE d.elem[f]
       /\ \A c \in Clients : t.client[c] = IF c \in down THEN Gone ELSE d.client[c]
  BY <1>6, <1>7 DEF States
<1>12. Gone \in ClientType /\ NoElement \in ElementType /\ ~NoElement.exists
       /\ NoElement.uploader = None /\ NoElement.leechers = {}
  BY DEF Gone, Blank, ClientType, NoElement, NewElement, ElementType
<1>13. t \in States
  <2>1. [c \in Clients |-> IF c \in down THEN Gone ELSE d.client[c]] \in [Clients -> ClientType]
    BY <1>7, <1>12 DEF States
  <2>2. [f \in Files |-> IF f \in F THEN NoElement ELSE d.elem[f]] \in [Files -> ElementType]
    BY <1>7, <1>12 DEF States
  <2> QED
    BY <1>6, <1>7, <2>1, <2>2 DEF States
<1>14. \A c \in Clients : s.client[c] \in ClientType
  BY <1>1 DEF States
<1>15. \A c \in D : /\ d.client[c].el = None /\ d.client[c].cnx = None /\ d.client[c].cmd = None
                    /\ d.client[c].told # "transfer"
  BY <1>8, <1>10, <1>14, ResetFacts
<1>16. \A c \in Clients : \/ c \notin down /\ t.client[c] = d.client[c]
                          \/ c \in down /\ t.client[c] = Gone
  BY <1>11
<1>17. /\ ~Gone.on /\ Gone.el = None /\ Gone.cnx = None /\ Gone.cmd = None /\ Gone.fd = "none"
       /\ ~Gone.upload /\ ~Gone.slaveXfer /\ Gone.told = "nothing"
  BY DEF Gone, Blank
<1>18. \A c \in Clients : Sane(t.client[c]) /\ Names(t, c) /\ Whole(t, c)
  BY <1>8, <1>11, <1>16, <1>17 DEF Good, Sane, Names, Whole
<1>19. HeldBy(t)
  <2>1. \A c \in Clients : t.client[c].cnx = d.client[c].cnx
    BY <1>10, <1>15, <1>16, <1>17
  <2> QED
    BY <1>8, <1>11, <2>1 DEF Good, HeldBy
<1>20. \A c \in Clients : d.client[c].el \notin F
  BY <1>4, <1>8, <1>15, TransferAssumption DEF TransferAssumption
<1>21. UsedBy(t)
  <2> SUFFICES ASSUME NEW c \in Clients, NEW f \in Files
               PROVE  /\ t.elem[f].uploader = c <=> t.client[c].el = f /\ t.client[c].upload
                      /\ c \in t.elem[f].leechers <=> t.client[c].el = f /\ ~t.client[c].upload
                      /\ t.client[c].el = f => t.elem[f].exists
    BY DEF UsedBy
  <2>1. /\ d.elem[f].uploader = c <=> d.client[c].el = f /\ d.client[c].upload
        /\ c \in d.elem[f].leechers <=> d.client[c].el = f /\ ~d.client[c].upload
        /\ d.client[c].el = f => d.elem[f].exists
    BY <1>8 DEF Good, UsedBy
  <2>2. c # None /\ f # None
    BY TransferAssumption DEF TransferAssumption
  <2>3. t.client[c].el = d.client[c].el
    BY <1>10, <1>15, <1>16, <1>17
  <2>4. CASE f \in F
    BY <1>11, <1>12, <1>20, <2>2, <2>3, <2>4
  <2>5. CASE f \notin F
    <3>1. t.elem[f] = d.elem[f]
      BY <1>11, <2>5
    <3>2. CASE c \in down
      BY <1>10, <1>15, <1>16, <1>17, <2>1, <2>2, <3>1, <3>2
    <3>3. CASE c \notin down
      BY <1>16, <2>1, <3>1, <3>3
    <3> QED
      BY <3>2, <3>3
  <2> QED
    BY <2>4, <2>5
<1>22. Alone(t)
  BY <1>8, <1>11, <1>12 DEF Good, Alone
<1>23. ASSUME ~Pipelining PROVE (\A k \in t.cmds : Owned(t, k)) /\ (\A c \in Clients : Promised(t, c))
  <2>1. \A k \in d.cmds : k # None /\ k.client \in Clients
    BY <1>7, TransferAssumption, ZenonT(40) DEF States, CommandType, TransferAssumption
  <2>2. \A k \in d.cmds : Owned(d, k)
    BY <1>8, <1>23 DEF Good
  <2>3. \A k \in d.cmds : k.client \notin down
    BY <1>10, <1>15, <2>1, <2>2 DEF Owned
  <2>4. \A k \in t.cmds : Owned(t, k)
    BY <1>11, <1>16, <2>1, <2>2, <2>3 DEF Owned
  <2>5. \A c \in Clients : Promised(t, c)
    BY <1>8, <1>11, <1>16, <1>17, <1>23 DEF Good, Promised
  <2> QED
    BY <2>4, <2>5
<1>24. Good(t, {})
  BY <1>13, <1>18, <1>19, <1>21, <1>22, <1>23 DEF Good
<1>25. \A c \in Clients : s.client[c].el \notin F => t.client[c] = s.client[c]
  BY <1>4, <1>8, <1>10, <1>16
<1>26. \A f \in Files : t.elem[f] = IF f \in F THEN NoElement ELSE s.elem[f]
  BY <1>9, <1>11
<1>27. \A c \in Clients : t.client[c] \in {s.client[c], Reset(s.client[c]), Gone}
  BY <1>8, <1>16
<1>28. \A G : Ghostless(s, G) => Ghostless(t, G \ F)
  BY <1>12, <1>26 DEF Ghostless
<1> QED
  BY <1>8, <1>11, <1>24, <1>25, <1>26, <1>27, <1>28 DEF t

(* ftpd_client_cleanup_data_connection: everything is good again, and no   *)
(* other client notices: an upload has nobody but its uploader.            *)
LEMMA CleanupGood ==
    ASSUME NEW s, NEW C \in SUBSET Clients, Good(s, C)
    PROVE  LET t == Cleanup(s, C)
           IN  /\ Good(t, {})
               /\ t.link = s.link /\ t.cmds \subseteq s.cmds
               /\ \A c \in Clients : t.client[c] = IF c \in C THEN Reset(s.client[c]) ELSE s.client[c]
               /\ \A f \in Files : f \notin Uploads(s, C) =>
                     t.elem[f].exists = s.elem[f].exists /\ t.elem[f].at = s.elem[f].at
               /\ Ghostless(s, {}) => Ghostless(t, {})
<1> DEFINE d == Detach(s, C)
           F == Uploads(s, C)
           t == Cleanup(s, C)
<1>1. /\ Good(d, {}) /\ d.link = s.link /\ d.cmds \subseteq s.cmds
      /\ \A c \in Clients : d.client[c] = IF c \in C THEN Reset(s.client[c]) ELSE s.client[c]
      /\ \A f \in Files : /\ d.elem[f].exists = s.elem[f].exists /\ d.elem[f].at = s.elem[f].at
                          /\ f \in F => d.elem[f].uploader = None /\ d.elem[f].leechers = {}
      /\ \A G : Ghostless(s, G) => Ghostless(d, G \cup F)
  BY DetachGood
<1>2. F \in SUBSET Files
  BY DEF Good, States, ClientType, Uploads
<1>3. t = DeleteElements(d, F)
  BY DEF Cleanup
<1> HIDE DEF d, F, t
<1>4. \A c \in {} : d.client[c].el \in F
  OBVIOUS
<1>5. /\ Good(t, {}) /\ t.link = d.link /\ t.cmds \subseteq d.cmds
      /\ \A c \in Clients : d.client[c].el \notin F => t.client[c] = d.client[c]
      /\ \A f \in Files : t.elem[f] = IF f \in F THEN NoElement ELSE d.elem[f]
      /\ \A G : Ghostless(d, G) => Ghostless(t, G \ F)
  BY <1>1, <1>2, <1>3, <1>4, DeleteElementsGood
<1>6. \A c \in Clients : d.client[c].el \notin F
  <2>1. \A c \in Clients : c # None
    BY TransferAssumption DEF TransferAssumption
  <2> QED
    BY <1>1, <1>2, <2>1 DEF Good, UsedBy
<1>7. Ghostless(s, {}) => Ghostless(t, {})
  <2>1. ({} \cup F) \ F = {}
    OBVIOUS
  <2> QED
    BY <1>1, <1>5, <2>1
<1> QED
  BY <1>1, <1>5, <1>6, <1>7 DEF t, F

(* A client leaves.                                                        *)
LEMMA DestroyGood ==
    ASSUME NEW s, NEW C \in SUBSET Clients, Good(s, C), Ghostless(s, {})
    PROVE  LET t == Destroy(s, C)
           IN  Good(t, {}) /\ Ghostless(t, {}) /\ t.link = s.link
<1> DEFINE d == Cleanup(s, C)
           t == Destroy(s, C)
<1>1. /\ Good(d, {}) /\ Ghostless(d, {}) /\ d.link = s.link
      /\ \A c \in Clients : d.client[c] = IF c \in C THEN Reset(s.client[c]) ELSE s.client[c]
  BY CleanupGood
<1>2. t = [d EXCEPT !.client = [c \in Clients |-> IF c \in C THEN Gone ELSE @[c]]]
  BY DEF Destroy
<1> HIDE DEF d, t
<1>3. d \in States
  BY <1>1 DEF Good
<1>4. /\ ~Gone.on /\ Gone.el = None /\ Gone.cnx = None /\ Gone.cmd = None /\ Gone.fd = "none"
      /\ ~Gone.upload /\ ~Gone.slaveXfer /\ Gone.told = "nothing" /\ Gone \in ClientType
  BY DEF Gone, Blank, ClientType
<1>5. [c \in Clients |-> IF c \in C THEN Gone ELSE d.client[c]] \in [Clients -> ClientType]
  BY <1>3, <1>4 DEF States
<1>6. t \in States
  BY <1>2, <1>3, <1>5 DEF States
<1>7. /\ t.link = d.link /\ t.cmds = d.cmds /\ t.xfers = d.xfers /\ t.elem = d.elem
      /\ \A c \in Clients : t.client[c] = IF c \in C THEN Gone ELSE d.client[c]
  BY <1>2, <1>3 DEF States
<1>8. \A c \in C : /\ d.client[c].el = None /\ d.client[c].cnx = None /\ d.client[c].cmd = None
                   /\ d.client[c].told # "transfer" /\ ~d.client[c].upload
  <2>1. \A c \in C : s.client[c] \in ClientType
    BY DEF Good, States
  <2> QED
    BY <1>1, <2>1, ResetFacts
<1>9. \A c \in Clients : Sane(t.client[c]) /\ Names(t, c) /\ Whole(t, c)
  BY <1>1, <1>4, <1>7 DEF Good, Sane, Names, Whole
<1>10. \A c \in Clients : /\ t.client[c].el = d.client[c].el /\ t.client[c].cnx = d.client[c].cnx
                          /\ t.client[c].upload = d.client[c].upload
  <2> SUFFICES ASSUME NEW c \in Clients
               PROVE  /\ t.client[c].el = d.client[c].el /\ t.client[c].cnx = d.client[c].cnx
                      /\ t.client[c].upload = d.client[c].upload
    OBVIOUS
  <2>1. CASE c \in C
    <3>1. t.client[c].upload \in BOOLEAN /\ d.client[c].upload \in BOOLEAN
      BY <1>3, <1>6 DEF States, ClientType
    <3> QED
      BY <1>4, <1>7, <1>8, <2>1, <3>1
  <2>2. CASE c \notin C
    BY <1>7, <2>2
  <2> QED
    BY <2>1, <2>2
<1>11. HeldBy(t) /\ UsedBy(t) /\ Alone(t) /\ Ghostless(t, {})
  BY <1>1, <1>7, <1>10 DEF Good, HeldBy, UsedBy, Alone, Ghostless
<1>12. ASSUME ~Pipelining PROVE (\A k \in t.cmds : Owned(t, k)) /\ (\A c \in Clients : Promised(t, c))
  <2>1. \A k \in d.cmds : k # None /\ k.client \in Clients
    BY <1>3, TransferAssumption DEF States, CommandType, TransferAssumption
  <2>2. \A k \in d.cmds : Owned(d, k)
    BY <1>1, <1>12 DEF Good
  <2>3. \A k \in t.cmds : k.client \notin C
    BY <1>7, <1>8, <2>1, <2>2 DEF Owned
  <2>4. \A k \in t.cmds : Owned(t, k)
    BY <1>7, <2>1, <2>2, <2>3 DEF Owned
  <2>5. \A c \in Clients : Promised(t, c)
    BY <1>1, <1>4, <1>7, <1>12 DEF Good, Promised
  <2> QED
    BY <2>4, <2>5
<1> QED
  BY <1>1, <1>6, <1>7, <1>9, <1>11, <1>12 DEF Good, t

(* What one client hears, opens or says changes none of the links.         *)
Retouched(s, t, c) ==
    LET x == s.client[c]  y == t.client[c]
    IN  /\ t.client = [s.client EXCEPT ![c] = y]
        /\ t.elem = s.elem /\ t.link = s.link /\ t.xfers = s.xfers /\ t.cmds = s.cmds
        /\ y.el = x.el /\ y.cnx = x.cnx /\ y.upload = x.upload /\ y.uid = x.uid /\ y.cmd = x.cmd
        /\ Sane(y) /\ (y.slaveXfer => x.slaveXfer \/ x.el # None)
        /\ y.told = "transfer" => \/ x.told = "transfer"
                                  \/ y.cmd \in s.cmds /\ y.cmd.kind = "TRANSFER"

LEMMA RetouchedGood ==
    ASSUME NEW s, NEW t \in States, NEW c \in Clients, Good(s, {}), Retouched(s, t, c)
    PROVE  Good(t, {}) /\ (Ghostless(s, {}) => Ghostless(t, {}))
<1>1. /\ s \in States
      /\ t.elem = s.elem /\ t.link = s.link /\ t.xfers = s.xfers /\ t.cmds = s.cmds
      /\ Sane(t.client[c])
      /\ (t.client[c].slaveXfer => s.client[c].slaveXfer \/ s.client[c].el # None)
      /\ t.client[c].told = "transfer" =>
            \/ s.client[c].told = "transfer"
            \/ t.client[c].cmd \in s.cmds /\ t.client[c].cmd.kind = "TRANSFER"
  BY DEF Good, Retouched
<1>2. \A d \in Clients : d # c => t.client[d] = s.client[d]
  BY <1>1 DEF Retouched, States
<1>3. \A d \in Clients : /\ t.client[d].el = s.client[d].el /\ t.client[d].cnx = s.client[d].cnx
                         /\ t.client[d].upload = s.client[d].upload
                         /\ t.client[d].uid = s.client[d].uid /\ t.client[d].cmd = s.client[d].cmd
  BY <1>2 DEF Retouched
<1>4. \A d \in Clients : Sane(t.client[d]) /\ Names(t, d) /\ Whole(t, d)
  BY <1>1, <1>2, <1>3 DEF Good, Names, Whole
<1>5. HeldBy(t) /\ UsedBy(t) /\ Alone(t) /\ (Ghostless(s, {}) => Ghostless(t, {}))
  BY <1>1, <1>3 DEF Good, HeldBy, UsedBy, Alone, Ghostless
<1>6. ASSUME ~Pipelining PROVE (\A k \in t.cmds : Owned(t, k)) /\ (\A d \in Clients : Promised(t, d))
  <2>1. \A k \in s.cmds : k.client \in Clients /\ Owned(s, k)
    BY <1>1, <1>6 DEF Good, States, CommandType
  <2>2. \A d \in Clients : Promised(s, d)
    BY <1>6 DEF Good
  <2>3. \A k \in t.cmds : Owned(t, k)
    BY <1>1, <1>3, <2>1 DEF Owned
  <2>4. \A d \in Clients : Promised(t, d)
    BY <1>1, <1>2, <1>3, <2>2 DEF Promised
  <2> QED
    BY <2>3, <2>4
<1> QED
  BY <1>4, <1>5, <1>6 DEF Good

(* The end of every action.                                                *)
LEMMA BecomeGood ==
    ASSUME NEW s, Good(s, {}), Ghostless(s, {}), Become(s)
    PROVE  IInv'
<1> DEFINE t == State'
<1>1. /\ t.client = s.client /\ t.elem = s.elem /\ t.link = s.link /\ t.xfers = s.xfers
      /\ t.cmds = s.cmds /\ t.news = {} /\ news' = s.news
  BY DEF Become, State
<1>2. s \in States
  BY DEF Good
<1>3. t \in States
  BY <1>1, <1>2 DEF States, State
<1> HIDE DEF t
<1>4. Good(t, {}) /\ Ghostless(t, {})
  BY <1>1, <1>3 DEF Good, Names, HeldBy, UsedBy, Alone, Whole, Owned, Promised, Ghostless
<1>5. Good(State', {}) /\ Ghostless(State', {}) /\ news' \subseteq NewsType
  BY <1>1, <1>2, <1>4 DEF t, States
<1> QED
  BY <1>5 DEF IInv, Good, Ghostless, States, Names, HeldBy, UsedBy, Alone, Whole, Owned, Promised

(* One client is changed.                                                  *)
LEMMA ChangeFacts ==
    ASSUME NEW s \in States, NEW c \in Clients, NEW y \in ClientType
    PROVE  LET t == [s EXCEPT !.client[c] = y]
           IN  /\ t \in States /\ t.client = [s.client EXCEPT ![c] = y] /\ t.client[c] = y
               /\ t.elem = s.elem /\ t.link = s.link /\ t.xfers = s.xfers /\ t.cmds = s.cmds
BY DEF States

(* last_command is set: never by a client that has gone.                   *)
LEMMA SaidGood ==
    ASSUME NEW s, NEW c \in Clients, NEW command \in {"other", "port", "pasv", "rest"},
           Good(s, {})
    PROVE  LET t == Said(s, c, command)
           IN  /\ Good(t, {}) /\ (Ghostless(s, {}) => Ghostless(t, {}))
               /\ Retouched(s, t, c)
               /\ t.client[c].on = s.client[c].on /\ t.client[c].fd = s.client[c].fd
               /\ t.client[c].slaveXfer = s.client[c].slaveXfer
<1> DEFINE t == Said(s, c, command)
           y == [s.client[c] EXCEPT !.last = command]
<1>1. s \in States /\ s.client[c] \in ClientType /\ Sane(s.client[c])
  BY DEF Good, States
<1>2. /\ y \in ClientType
      /\ y.el = s.client[c].el /\ y.cnx = s.client[c].cnx /\ y.upload = s.client[c].upload
      /\ y.uid = s.client[c].uid /\ y.cmd = s.client[c].cmd /\ y.slaveXfer = s.client[c].slaveXfer
      /\ y.told = s.client[c].told /\ y.on = s.client[c].on /\ y.fd = s.client[c].fd
      /\ y.passive = s.client[c].passive
  BY <1>1 DEF ClientType
<1>3. CASE s.client[c].on
  <2>1. t = [s EXCEPT !.client[c] = y]
    BY <1>1, <1>3 DEF Said, States
  <2> HIDE DEF t, y
  <2>2. /\ t \in States /\ t.client = [s.client EXCEPT ![c] = y] /\ t.client[c] = y
        /\ t.elem = s.elem /\ t.link = s.link /\ t.xfers = s.xfers /\ t.cmds = s.cmds
    BY <1>1, <1>2, <2>1, ChangeFacts
  <2>3. Sane(y)
    BY <1>1, <1>2, <1>3 DEF Sane
  <2>4. Retouched(s, t, c)
    BY <1>2, <2>2, <2>3 DEF Retouched
  <2>5. Good(t, {}) /\ (Ghostless(s, {}) => Ghostless(t, {}))
    BY <2>2, <2>4, RetouchedGood
  <2> QED
    BY <1>2, <2>2, <2>4, <2>5 DEF t
<1>4. CASE ~s.client[c].on
  <2>1. t = s
    BY <1>4 DEF Said
  <2>2. s.client = [s.client EXCEPT ![c] = s.client[c]]
    BY <1>1 DEF States
  <2> HIDE DEF t, y
  <2>3. Retouched(s, t, c)
    BY <1>1, <2>1, <2>2 DEF Retouched
  <2> QED
    BY <2>1, <2>3 DEF t
<1> QED
  BY <1>3, <1>4

(* The final reply of a listing.                                           *)
LEMMA FinalGood ==
    ASSUME NEW s, NEW c \in Clients, Good(s, {})
    PROVE  LET t == Final(s, c)
           IN  /\ Good(t, {}) /\ (Ghostless(s, {}) => Ghostless(t, {}))
               /\ Retouched(s, t, c)
               /\ t.client[c].on = s.client[c].on /\ t.client[c].fd = s.client[c].fd
               /\ t.client[c].slaveXfer = s.client[c].slaveXfer
<1> DEFINE t == Final(s, c)
           y == [s.client[c] EXCEPT !.told = "nothing"]
<1>1. s \in States /\ s.client[c] \in ClientType /\ Sane(s.client[c])
  BY DEF Good, States
<1>2. /\ y \in ClientType
      /\ y.el = s.client[c].el /\ y.cnx = s.client[c].cnx /\ y.upload = s.client[c].upload
      /\ y.uid = s.client[c].uid /\ y.cmd = s.client[c].cmd /\ y.slaveXfer = s.client[c].slaveXfer
      /\ y.told = "nothing" /\ y.on = s.client[c].on /\ y.fd = s.client[c].fd
      /\ y.passive = s.client[c].passive /\ y.last = s.client[c].last
      /\ y.ready = s.client[c].ready /\ y.data = s.client[c].data
  BY <1>1 DEF ClientType
<1>3. s.client[c] = Gone => y = Gone
  <2> HIDE DEF y
  <2> QED
    BY <1>1, <1>2, GoneFacts
<1>4. t = [s EXCEPT !.client[c] = y]
  BY <1>1 DEF Final, States
<1> HIDE DEF t, y
<1>5. /\ t \in States /\ t.client = [s.client EXCEPT ![c] = y] /\ t.client[c] = y
      /\ t.elem = s.elem /\ t.link = s.link /\ t.xfers = s.xfers /\ t.cmds = s.cmds
  BY <1>1, <1>2, <1>4, ChangeFacts
<1>6. Sane(y)
  BY <1>1, <1>2, <1>3 DEF Sane
<1>7. Retouched(s, t, c)
  BY <1>2, <1>5, <1>6 DEF Retouched
<1>8. Good(t, {}) /\ (Ghostless(s, {}) => Ghostless(t, {}))
  BY <1>5, <1>7, RetouchedGood
<1> QED
  BY <1>2, <1>5, <1>7, <1>8 DEF t

(* A data connection is cleaned up, and the client told so.                *)
LEMMA EndGood ==
    ASSUME NEW s, NEW c \in Clients, Good(s, {c}), Ghostless(s, {})
    PROVE  Good(End(s, c), {}) /\ Ghostless(End(s, c), {})
<1> DEFINE t == Cleanup(s, {c})
<1>1. Good(t, {}) /\ Ghostless(t, {})
  BY CleanupGood
<1> HIDE DEF t
<1>2. Good(Final(t, c), {}) /\ Ghostless(Final(t, c), {})
  BY <1>1, FinalGood
<1> QED
  BY <1>2 DEF End, t

LEMMA NoneFacts ==
    /\ \A c \in Clients : c # None
    /\ \A x \in Slaves : x # None
    /\ \A f \in Files : f # None
    /\ \A k \in CommandType : k # None /\ k.client \in Clients /\ k.cnx \in Slaves
BY TransferAssumption DEF TransferAssumption, CommandType

(* A client without a transfer has no command outstanding.                 *)
LEMMA IdleFacts ==
    ASSUME NEW s, NEW c \in Clients, Good(s, {}), ~Pipelining,
           s.client[c].cnx = None \/ s.client[c].cmd = None
    PROVE  (\A k \in s.cmds : k.client # c) /\ s.client[c].told # "transfer"
<1>1. \A k \in s.cmds : k \in CommandType /\ Owned(s, k)
  BY DEF Good, States
<1>2. \A k \in s.cmds : k.client # c
  BY <1>1, NoneFacts DEF Owned
<1>3. ASSUME s.client[c].told = "transfer" PROVE FALSE
  <2>1. s.client[c].cmd \in s.cmds
    BY <1>3 DEF Good, Promised
  <2>2. s.client[c].cmd.client = c
    BY <1>1, <2>1, NoneFacts DEF Good, Names
  <2> QED
    BY <1>2, <2>1, <2>2
<1> QED
  BY <1>2, <1>3

(* A transfer is set up: client, element and connection name each other.   *)
LEMMA SetupGood ==
    ASSUME NEW s, NEW c \in Clients, NEW f \in Files, NEW up \in BOOLEAN, NEW x,
           Good(s, {}), Ghostless(s, {}), s.client[c].on, x \in Choices(s, c, f, up)
    PROVE  LET t == Setup(s, c, f, x, up)
           IN  /\ Good(t, {}) /\ Ghostless(t, {})
               /\ t.client[c].on /\ t.client[c].el = f /\ t.client[c].cnx = x
               /\ t.client[c].cmd = s.client[c].cmd
<1> DEFINE t == Setup(s, c, f, x, up)
           u == NextXfer(s)
           y == [s.client[c] EXCEPT !.cnx = x, !.el = f, !.upload = up, !.uid = u]
           e == IF up THEN [NewElement EXCEPT !.uploader = c]
                      ELSE [s.elem[f] EXCEPT !.leechers = @ \cup {c}]
<1>1. /\ s \in States /\ s.client[c] \in ClientType /\ Sane(s.client[c]) /\ Whole(s, c)
      /\ s.elem[f] \in ElementType /\ Names(s, c)
  BY DEF Good, States
<1>2. /\ s.link[x] = "ready" /\ s.client[c].cnx = None /\ Unused(s) # {}
      /\ up => ~s.elem[f].exists
      /\ ~up => s.elem[f].exists /\ s.elem[f].uploader = None
  BY DEF Choices, MayUpload, MayDownload
<1>3. x \in Slaves
  <2>1. s.elem[f].at \subseteq Slaves
    BY <1>1 DEF ElementType
  <2> QED
    BY <2>1 DEF Choices, SelectUp, SelectDown
<1>4. u \in Uids /\ u # 0
  <2>1. u \in Unused(s)
    BY <1>2 DEF NextXfer
  <2> QED
    BY <2>1, TransferAssumption DEF Unused, TransferAssumption
<1>5. t = [s EXCEPT !.xfers = [s.xfers EXCEPT ![x] = @ \cup {c}],
                    !.client = [s.client EXCEPT ![c] = y],
                    !.elem = [s.elem EXCEPT ![f] = e]]
  <2> DEFINE l == Linked(s, c, f, x, up)
  <2>1. l = [s EXCEPT !.xfers[x] = @ \cup {c}, !.client[c] = y]
    BY DEF Linked
  <2>2. t = [l EXCEPT !.elem[f] = e]
    BY DEF Setup
  <2> HIDE DEF l, t, e, y, u
  <2> QED
    BY <2>1, <2>2, <1>1 DEF States
<1> HIDE DEF t, u
<1>6. /\ y \in ClientType /\ y.cnx = x /\ y.el = f /\ y.upload = up /\ y.uid = u
      /\ y.on = s.client[c].on /\ y.passive = s.client[c].passive /\ y.fd = s.client[c].fd
      /\ y.cmd = s.client[c].cmd /\ y.told = s.client[c].told
  BY <1>1, <1>3, <1>4 DEF ClientType
<1>7. /\ e \in ElementType /\ e.exists
      /\ up => e.uploader = c /\ e.leechers = {}
      /\ ~up => /\ e.uploader = None /\ e.leechers = s.elem[f].leechers \cup {c}
                /\ e.at = s.elem[f].at
  <2>1. CASE up
    BY <2>1 DEF NewElement, ElementType
  <2>2. CASE ~up
    BY <1>1, <1>2, <2>2 DEF ElementType
  <2> QED
    BY <2>1, <2>2
<1> HIDE DEF y, e
<1>8. t \in States
  BY <1>1, <1>3, <1>5, <1>6, <1>7, ZenonT(40) DEF States
<1>9. /\ t.link = s.link /\ t.cmds = s.cmds
      /\ t.xfers = [s.xfers EXCEPT ![x] = @ \cup {c}]
      /\ t.client = [s.client EXCEPT ![c] = y]
      /\ t.elem = [s.elem EXCEPT ![f] = e]
  BY <1>1, <1>5 DEF States
<1>10. /\ t.client[c] = y /\ \A d \in Clients : d # c => t.client[d] = s.client[d]
       /\ t.elem[f] = e /\ \A g \in Files : g # f => t.elem[g] = s.elem[g]
       /\ t.xfers[x] = s.xfers[x] \cup {c} /\ \A z \in Slaves : z # x => t.xfers[z] = s.xfers[z]
  BY <1>1, <1>3, <1>9 DEF States
<1>11. Sane(y)
  <2>1. ~Gone.on
    BY DEF Gone, Blank
  <2>2. y # Gone
    BY <1>6, <2>1
  <2> QED
    BY <1>1, <1>6, <2>2 DEF Sane
<1>12. \A d \in Clients : Sane(t.client[d]) /\ Names(t, d)
  BY <1>6, <1>10, <1>11 DEF Good, Names
<1>13. \A d \in Clients : Whole(t, d)
  BY <1>2, <1>3, <1>4, <1>6, <1>9, <1>10, NoneFacts DEF Good, Whole
<1>14. HeldBy(t)
  BY <1>2, <1>3, <1>6, <1>10, NoneFacts DEF Good, HeldBy
<1>15. s.client[c].el = None
  BY <1>1, <1>2 DEF Whole
<1>16. UsedBy(t)
  <2> SUFFICES ASSUME NEW d \in Clients, NEW g \in Files
               PROVE  /\ t.elem[g].uploader = d <=> t.client[d].el = g /\ t.client[d].upload
                      /\ d \in t.elem[g].leechers <=> t.client[d].el = g /\ ~t.client[d].upload
                      /\ t.client[d].el = g => t.elem[g].exists
    BY DEF UsedBy
  <2>1. /\ s.elem[g].uploader = d <=> s.client[d].el = g /\ s.client[d].upload
        /\ d \in s.elem[g].leechers <=> s.client[d].el = g /\ ~s.client[d].upload
        /\ s.client[d].el = g => s.elem[g].exists
    BY DEF Good, UsedBy
  <2>2. CASE g = f /\ up
    BY <1>2, <1>6, <1>7, <1>10, <2>1, <2>2
  <2>3. CASE g = f /\ ~up
    BY <1>2, <1>6, <1>7, <1>10, <1>15, <2>1, <2>3, NoneFacts
  <2>4. CASE g # f
    BY <1>6, <1>10, <1>15, <2>1, <2>4, NoneFacts
  <2> QED
    BY <2>2, <2>3, <2>4
<1>17. Alone(t)
  BY <1>7, <1>10 DEF Good, Alone
<1>18. ASSUME ~Pipelining PROVE (\A k \in t.cmds : Owned(t, k)) /\ (\A d \in Clients : Promised(t, d))
  <2>1. (\A k \in s.cmds : k.client # c) /\ s.client[c].told # "transfer"
    BY <1>2, <1>18, IdleFacts
  <2>2. \A k \in s.cmds : k.client \in Clients /\ Owned(s, k)
    BY <1>1, <1>18 DEF Good, States, CommandType
  <2>3. \A k \in t.cmds : Owned(t, k)
    BY <1>9, <1>10, <2>1, <2>2 DEF Owned
  <2>4. \A d \in Clients : Promised(t, d)
    BY <1>6, <1>9, <1>10, <1>18, <2>1 DEF Good, Promised
  <2> QED
    BY <2>3, <2>4
<1>19. Ghostless(t, {})
  BY <1>2, <1>7, <1>10, NoneFacts DEF Ghostless
<1> QED
  BY <1>6, <1>8, <1>10, <1>12, <1>13, <1>14, <1>16, <1>17, <1>18, <1>19 DEF Good, t

(* asynch_new, for a client that has a transfer.                           *)
LEMMA MakeQueryGood ==
    ASSUME NEW s, NEW c \in Clients, NEW kind \in Kinds, Good(s, {}), s.client[c].cnx # None,
           ~Pipelining => s.client[c].cmd = None
    PROVE  LET t == MakeQuery(s, c, kind)
           IN  /\ Good(t, {}) /\ (Ghostless(s, {}) => Ghostless(t, {}))
               /\ t.client[c].on /\ t.client[c].cmd \in t.cmds /\ t.client[c].cmd.kind = kind
<1> DEFINE k == IF Command(s, c, kind, 1) \in s.cmds THEN Command(s, c, kind, 2)
                                                     ELSE Command(s, c, kind, 1)
           t == MakeQuery(s, c, kind)
           y == [s.client[c] EXCEPT !.cmd = k]
<1>1. /\ s \in States /\ s.client[c] \in ClientType /\ Sane(s.client[c]) /\ Whole(s, c)
  BY DEF Good, States
<1>2. /\ k \in CommandType /\ k.client = c /\ k.kind = kind
      /\ k.cnx = s.client[c].cnx /\ k.uid = s.client[c].uid
  <2>1. s.client[c].cnx \in Slaves /\ s.client[c].uid \in Uids
    BY <1>1 DEF ClientType, Whole
  <2>2. \A n \in {1, 2} : LET m == Command(s, c, kind, n)
                          IN  /\ m \in CommandType /\ m.client = c /\ m.kind = kind
                              /\ m.cnx = s.client[c].cnx /\ m.uid = s.client[c].uid
    BY <2>1 DEF Command, CommandType
  <2>3. k = Command(s, c, kind, 1) \/ k = Command(s, c, kind, 2)
    OBVIOUS
  <2> HIDE DEF k
  <2> QED
    BY <2>2, <2>3
<1>3. t = [s EXCEPT !.cmds = @ \cup {k}, !.client[c] = y]
  <2> HIDE DEF k
  <2>1. t = [s EXCEPT !.cmds = @ \cup {k}, !.client[c].cmd = k]
    BY DEF MakeQuery, k
  <2> HIDE DEF t
  <2> QED
    BY <1>1, <2>1 DEF States
<1> HIDE DEF t, k
<1>4. /\ y \in ClientType /\ y.cmd = k
      /\ y.el = s.client[c].el /\ y.cnx = s.client[c].cnx /\ y.upload = s.client[c].upload
      /\ y.uid = s.client[c].uid /\ y.slaveXfer = s.client[c].slaveXfer
      /\ y.told = s.client[c].told /\ y.on = s.client[c].on /\ y.fd = s.client[c].fd
      /\ y.passive = s.client[c].passive
  BY <1>1, <1>2 DEF ClientType
<1> HIDE DEF y
<1>5. t \in States
  BY <1>1, <1>2, <1>3, <1>4 DEF States
<1>6. /\ t.elem = s.elem /\ t.link = s.link /\ t.xfers = s.xfers /\ t.cmds = s.cmds \cup {k}
      /\ t.client[c] = y /\ \A d \in Clients : d # c => t.client[d] = s.client[d]
  BY <1>1, <1>3 DEF States
<1>7. s.client[c].on
  <2>1. Gone.cnx = None
    BY DEF Gone, Blank
  <2> QED
    BY <1>1, <2>1 DEF Sane
<1>8. Sane(y)
  <2>1. ~Gone.on
    BY DEF Gone, Blank
  <2> QED
    BY <1>1, <1>4, <1>7, <2>1 DEF Sane
<1>9. \A d \in Clients : Sane(t.client[d]) /\ Names(t, d) /\ Whole(t, d)
  BY <1>2, <1>4, <1>6, <1>8 DEF Good, Names, Whole
<1>10. HeldBy(t) /\ UsedBy(t) /\ Alone(t) /\ (Ghostless(s, {}) => Ghostless(t, {}))
  BY <1>4, <1>6 DEF Good, HeldBy, UsedBy, Alone, Ghostless
<1>11. ASSUME ~Pipelining PROVE (\A m \in t.cmds : Owned(t, m)) /\ (\A d \in Clients : Promised(t, d))
  <2>1. (\A m \in s.cmds : m.client # c) /\ s.client[c].told # "transfer"
    BY <1>11, IdleFacts
  <2>2. \A m \in s.cmds : m.client \in Clients /\ Owned(s, m)
    BY <1>1, <1>11 DEF Good, States, CommandType
  <2>3. Owned(t, k)
    BY <1>2, <1>4, <1>6 DEF Owned
  <2>4. \A m \in t.cmds : Owned(t, m)
    BY <1>6, <2>1, <2>2, <2>3 DEF Owned
  <2>5. \A d \in Clients : Promised(t, d)
    BY <1>4, <1>6, <1>11, <2>1 DEF Good, Promised
  <2> QED
    BY <2>4, <2>5
<1> QED
  BY <1>2, <1>4, <1>5, <1>6, <1>7, <1>9, <1>10, <1>11 DEF Good, t

(* "150": the client has been told of the transfer it has asked for.       *)
LEMMA BeginGood ==
    ASSUME NEW s, NEW c \in Clients, Good(s, {}), s.client[c].cnx # None,
           ~Pipelining => s.client[c].cmd = None
    PROVE  Good(Begin(s, c), {}) /\ (Ghostless(s, {}) => Ghostless(Begin(s, c), {}))
<1> DEFINE q == MakeQuery(s, c, "TRANSFER")
           t == Begin(s, c)
           y == [q.client[c] EXCEPT !.told = "transfer"]
<1>1. /\ Good(q, {}) /\ (Ghostless(s, {}) => Ghostless(q, {}))
      /\ q.client[c].on /\ q.client[c].cmd \in q.cmds /\ q.client[c].cmd.kind = "TRANSFER"
  BY MakeQueryGood DEF Kinds
<1>2. t = [q EXCEPT !.client[c].told = "transfer"]
  BY DEF Begin
<1> HIDE DEF q, t
<1>3. q \in States /\ q.client[c] \in ClientType /\ Sane(q.client[c])
  BY <1>1 DEF Good, States
<1>4. t = [q EXCEPT !.client[c] = y]
  BY <1>2, <1>3 DEF States
<1>5. /\ y \in ClientType /\ y.cmd = q.client[c].cmd
      /\ y.el = q.client[c].el /\ y.cnx = q.client[c].cnx /\ y.upload = q.client[c].upload
      /\ y.uid = q.client[c].uid /\ y.slaveXfer = q.client[c].slaveXfer
      /\ y.on = q.client[c].on /\ y.fd = q.client[c].fd /\ y.passive = q.client[c].passive
  BY <1>3 DEF ClientType
<1> HIDE DEF y
<1>6. /\ t \in States /\ t.client = [q.client EXCEPT ![c] = y] /\ t.client[c] = y
      /\ t.elem = q.elem /\ t.link = q.link /\ t.xfers = q.xfers /\ t.cmds = q.cmds
  BY <1>3, <1>4, <1>5, ChangeFacts
<1>7. Sane(y)
  BY <1>1, <1>3, <1>5 DEF Sane
<1>8. Retouched(q, t, c)
  BY <1>1, <1>5, <1>6, <1>7 DEF Retouched
<1>9. Good(t, {}) /\ (Ghostless(q, {}) => Ghostless(t, {}))
  BY <1>1, <1>6, <1>8, RetouchedGood
<1> QED
  BY <1>1, <1>9 DEF t

(* An answer has come: only its client may wait for it, and does no more.  *)
LEMMA AnsweredGood ==
    ASSUME NEW s, NEW k \in s.cmds, Good(s, {}), s.client[k.client].on
    PROVE  LET t == Answered(s, k)  c == k.client
           IN  /\ c \in Clients /\ Good(t, {c}) /\ (Ghostless(s, {}) => Ghostless(t, {}))
               /\ k.kind = "LISTEN" => Good(t, {})
               /\ t.elem = s.elem /\ t.link = s.link /\ t.client[c].on
               /\ t.client[c].cmd = None /\ t.client[c].el = s.client[c].el
               /\ t.client[c].upload = s.client[c].upload
<1> DEFINE t == Answered(s, k)
           c == k.client
           y == [s.client[c] EXCEPT !.cmd = None]
<1>1. s \in States /\ k \in CommandType /\ c \in Clients
  BY NoneFacts DEF Good, States
<1>2. s.client[c] \in ClientType /\ Sane(s.client[c]) /\ Whole(s, c)
  BY <1>1 DEF Good, States
<1>3. t = [s EXCEPT !.cmds = @ \ {k}, !.client[c] = y]
  <2>1. t = [s EXCEPT !.cmds = @ \ {k}, !.client[c].cmd = None]
    BY <1>1 DEF Answered, States
  <2> HIDE DEF t, c
  <2> QED
    BY <1>1, <2>1 DEF States
<1> HIDE DEF t, c
<1>4. /\ y \in ClientType /\ y.cmd = None
      /\ y.el = s.client[c].el /\ y.cnx = s.client[c].cnx /\ y.upload = s.client[c].upload
      /\ y.uid = s.client[c].uid /\ y.slaveXfer = s.client[c].slaveXfer
      /\ y.told = s.client[c].told /\ y.on = s.client[c].on /\ y.fd = s.client[c].fd
      /\ y.passive = s.client[c].passive
  BY <1>2 DEF ClientType
<1> HIDE DEF y
<1>5. t \in States
  BY <1>1, <1>3, <1>4 DEF States
<1>6. /\ t.elem = s.elem /\ t.link = s.link /\ t.xfers = s.xfers /\ t.cmds = s.cmds \ {k}
      /\ t.client[c] = y /\ \A d \in Clients : d # c => t.client[d] = s.client[d]
  BY <1>1, <1>3 DEF States
<1>7. Sane(y)
  <2>1. ~Gone.on
    BY DEF Gone, Blank
  <2> QED
    BY <1>2, <1>4, <2>1 DEF Sane, c
<1>8. \A d \in Clients : Sane(t.client[d]) /\ Names(t, d) /\ Whole(t, d)
  BY <1>4, <1>6, <1>7 DEF Good, Names, Whole
<1>9. HeldBy(t) /\ UsedBy(t) /\ Alone(t) /\ (Ghostless(s, {}) => Ghostless(t, {}))
  BY <1>4, <1>6 DEF Good, HeldBy, UsedBy, Alone, Ghostless
<1>10. ASSUME ~Pipelining
       PROVE  /\ \A m \in t.cmds : Owned(t, m)
              /\ \A d \in Clients \ {c} : Promised(t, d)
              /\ k.kind = "LISTEN" => Promised(t, c)
  <2>1. \A m \in s.cmds : m.client \in Clients /\ Owned(s, m)
    BY <1>1, <1>10 DEF Good, States, CommandType
  <2>2. \A m \in t.cmds : m \in s.cmds /\ m.client # c
    BY <1>6, <2>1 DEF Owned, c
  <2>3. \A m \in t.cmds : Owned(t, m)
    BY <1>6, <2>1, <2>2 DEF Owned
  <2>4. ASSUME NEW d \in Clients \ {c} PROVE Promised(t, d)
    <3>1. Promised(s, d)
      BY <1>10 DEF Good
    <3>2. s.client[d].cmd # k
      BY <1>1, NoneFacts DEF Good, Names, c
    <3> QED
      BY <1>6, <3>1, <3>2 DEF Promised
  <2>5. ASSUME k.kind = "LISTEN" PROVE Promised(t, c)
    <3>1. Promised(s, c) /\ s.client[c].cmd = k
      BY <1>1, <1>10, <2>1 DEF Good, Owned, c
    <3> QED
      BY <1>4, <1>6, <2>5, <3>1 DEF Promised
  <2> QED
    BY <2>3, <2>4, <2>5
<1>11. Good(t, {c}) /\ (k.kind = "LISTEN" => Good(t, {}))
  BY <1>5, <1>8, <1>9, <1>10 DEF Good
<1> QED
  BY <1>1, <1>4, <1>6, <1>9, <1>11 DEF t, c

--------------------------------------------------------------------------------
(* What a step leaves alone, and what it says.  A client that has a        *)
(* command waits for one that is outstanding, on the connection it uses:   *)
(* no clean-up then cancels a command that has been freed.  Calm relates   *)
(* two states that an operation leads from and to when no complete file is *)
(* lost and nothing is said, and is transitive.                            *)
Live(s, C) == \A c \in Clients \ C : s.client[c].cmd # None =>
                  s.client[c].cmd \in s.cmds /\ s.client[c].cmd.cnx = s.client[c].cnx
Stays(s, t, F) == \A f \in Files \ F : s.elem[f].exists /\ s.elem[f].uploader = None =>
                      t.elem[f].exists /\ t.elem[f].uploader = None
Says(s, t, N) == t.news \subseteq s.news \cup N
Calm(s, t) == /\ Stays(s, t, {}) /\ Says(s, t, {"freed command"})
              /\ Live(s, {}) => Live(t, {}) /\ t.news = s.news

LEMMA CalmTwice ==
    ASSUME NEW s, NEW t, NEW u, Calm(s, t), Calm(t, u)
    PROVE  Calm(s, u)
BY DEF Calm, Stays, Says

LEMMA CalmItself == ASSUME NEW s PROVE Calm(s, s)
BY DEF Calm, Stays, Says

LEMMA DetachCalm ==
    ASSUME NEW s \in States, NEW C \in SUBSET Clients, \A c \in Clients : Names(s, c)
    PROVE  LET t == Detach(s, C)
           IN  /\ Stays(s, t, {}) /\ Says(s, t, {"freed command"})
               /\ Live(s, C) => Live(t, {})
               /\ Live(s, {}) => t.news = s.news
<1> DEFINE t == Detach(s, C)
           mine == {s.client[c].cmd : c \in C} \ {None}
<1>1. /\ t \in States
      /\ t.client = [c \in Clients |-> IF c \in C THEN Reset(s.client[c]) ELSE s.client[c]]
      /\ t.elem = [f \in Files |-> LetGo(s, f, C)]
      /\ t.cmds = s.cmds \ mine
  BY DetachFields
<1>2. (mine \subseteq s.cmds => t.news = s.news) /\ Says(s, t, {"freed command"})
  BY DEF Detach, States, Says
<1> HIDE DEF t
<1>3. Stays(s, t, {})
  <2> SUFFICES ASSUME NEW f \in Files, s.elem[f].exists, s.elem[f].uploader = None
               PROVE  t.elem[f].exists /\ t.elem[f].uploader = None
    BY DEF Stays
  <2>1. t.elem[f] = LetGo(s, f, C)
    BY <1>1
  <2>2. /\ LetGo(s, f, C).exists = s.elem[f].exists
        /\ LetGo(s, f, C).uploader = None
    <3>1. s.elem[f] \in ElementType
      BY DEF States
    <3> QED
      BY <3>1 DEF LetGo, ElementType
  <2> QED
    BY <2>1, <2>2
<1>4. \A c \in C : t.client[c].cmd = None
  BY <1>1, ResetFacts DEF States
<1>5. ASSUME Live(s, C) PROVE Live(t, {})
  <2> SUFFICES ASSUME NEW c \in Clients, t.client[c].cmd # None
               PROVE  t.client[c].cmd \in t.cmds /\ t.client[c].cmd.cnx = t.client[c].cnx
    BY DEF Live
  <2>1. c \notin C /\ t.client[c] = s.client[c]
    BY <1>1, <1>4
  <2>2. s.client[c].cmd \in s.cmds /\ s.client[c].cmd.cnx = s.client[c].cnx
    BY <1>5, <2>1 DEF Live
  <2>3. s.client[c].cmd \notin mine
    BY <2>1 DEF Names
  <2> QED
    BY <1>1, <2>1, <2>2, <2>3
<1>6. ASSUME Live(s, {}) PROVE mine \subseteq s.cmds
  BY <1>6 DEF Live
<1> QED
  BY <1>2, <1>3, <1>5, <1>6 DEF t

LEMMA DeleteElementsCalm ==
    ASSUME NEW s \in States, NEW F \in SUBSET Files, \A c \in Clients : Names(s, c)
    PROVE  LET t == DeleteElements(s, F)
           IN  /\ Stays(s, t, F) /\ Says(s, t, {"freed command"})
               /\ Live(s, {}) => Live(t, {}) /\ t.news = s.news
<1> DEFINE up   == {s.elem[f].uploader : f \in F} \ {None}
           down == UNION {s.elem[f].leechers : f \in F}
           D    == up \cup down
           d    == Detach(s, D)
           t    == DeleteElements(s, F)
<1>1. \A f \in Files : s.elem[f] \in ElementType
  BY DEF States
<1>2. D \in SUBSET Clients
  BY <1>1 DEF ElementType
<1>3. t = [d EXCEPT !.elem = [f \in Files |-> IF f \in F THEN NoElement ELSE @[f]],
                    !.client = [c \in Clients |-> IF c \in down THEN Gone ELSE @[c]]]
  BY DEF DeleteElements
<1> HIDE DEF D, t
<1>4. /\ d \in States /\ Stays(s, d, {}) /\ Says(s, d, {"freed command"})
      /\ (Live(s, D) => Live(d, {})) /\ (Live(s, {}) => d.news = s.news)
  BY <1>2, DetachCalm, DetachFields
<1> HIDE DEF d, down
<1>5. /\ t.elem = [f \in Files |-> IF f \in F THEN NoElement ELSE d.elem[f]]
      /\ t.client = [c \in Clients |-> IF c \in down THEN Gone ELSE d.client[c]]
      /\ t.cmds = d.cmds /\ t.news = d.news
  BY <1>3, <1>4 DEF States
<1>6. Stays(s, t, F) /\ Says(s, t, {"freed command"})
  BY <1>4, <1>5 DEF Stays, Says
<1>7. ASSUME Live(s, {}) PROVE Live(t, {}) /\ t.news = s.news
  <2>1. Live(d, {})
    BY <1>4, <1>7 DEF Live
  <2>2. Gone.cmd = None
    BY DEF Gone, Blank
  <2>3. Live(t, {})
    BY <1>5, <2>1, <2>2 DEF Live
  <2> QED
    BY <1>4, <1>5, <1>7, <2>3
<1> QED
  BY <1>6, <1>7 DEF t

LEMMA CleanupCalm ==
    ASSUME NEW s, NEW C \in SUBSET Clients, Good(s, C)
    PROVE  LET t == Cleanup(s, C)
           IN  /\ Calm(s, t)
               /\ Live(s, C) => Live(t, {})
<1> DEFINE d == Detach(s, C)
           F == Uploads(s, C)
           t == Cleanup(s, C)
<1>1. /\ s \in States /\ \A c \in Clients : Names(s, c)
      /\ F \in SUBSET Files
  BY DEF Good, States, ClientType, Uploads
<1>2. Good(d, {})
  BY DetachGood
<1>3. /\ Stays(s, d, {}) /\ Says(s, d, {"freed command"})
      /\ (Live(s, C) => Live(d, {})) /\ (Live(s, {}) => d.news = s.news)
  BY <1>1, DetachCalm
<1>4. t = DeleteElements(d, F)
  BY DEF Cleanup
<1>5. \A f \in F : s.elem[f].uploader # None
  <2>1. \A f \in F : \E c \in C : s.client[c].el = f /\ s.client[c].upload
    BY DEF Uploads
  <2> QED
    BY <1>1, <2>1, NoneFacts DEF Good, UsedBy
<1> HIDE DEF d, F, t
<1>6. d \in States /\ \A c \in Clients : Names(d, c)
  BY <1>2 DEF Good
<1>7. /\ Stays(d, t, F) /\ Says(d, t, {"freed command"})
      /\ Live(d, {}) => Live(t, {}) /\ t.news = d.news
  BY <1>1, <1>4, <1>6, DeleteElementsCalm
<1>8. Stays(s, t, {}) /\ Says(s, t, {"freed command"})
  BY <1>3, <1>5, <1>7 DEF Stays, Says
<1>9. Live(s, {}) => Live(s, C)
  BY DEF Live
<1> QED
  BY <1>3, <1>7, <1>8, <1>9 DEF Calm, t

LEMMA DestroyCalm ==
    ASSUME NEW s, NEW C \in SUBSET Clients, Good(s, C)
    PROVE  LET t == Destroy(s, C)
           IN  /\ Calm(s, t)
               /\ Live(s, C) => Live(t, {})
<1> DEFINE d == Cleanup(s, C)
           t == Destroy(s, C)
<1>1. Good(d, {}) /\ Calm(s, d) /\ (Live(s, C) => Live(d, {}))
  BY CleanupGood, CleanupCalm
<1>2. t = [d EXCEPT !.client = [c \in Clients |-> IF c \in C THEN Gone ELSE @[c]]]
  BY DEF Destroy
<1> HIDE DEF d, t
<1>3. /\ t.client = [c \in Clients |-> IF c \in C THEN Gone ELSE d.client[c]]
      /\ t.elem = d.elem /\ t.cmds = d.cmds /\ t.news = d.news
  BY <1>1, <1>2 DEF Good, States
<1>4. Gone.cmd = None
  BY DEF Gone, Blank
<1>5. Live(d, {}) => Live(t, {})
  BY <1>3, <1>4 DEF Live
<1> QED
  BY <1>1, <1>3, <1>5 DEF Calm, Stays, Says, t

(* What a client hears, opens or says.                                     *)
LEMMA TouchCalm ==
    ASSUME NEW s \in States, NEW c \in Clients, NEW y,
           y.cmd = s.client[c].cmd, y.cnx = s.client[c].cnx
    PROVE  Calm(s, [s EXCEPT !.client[c] = y])
<1> DEFINE t == [s EXCEPT !.client[c] = y]
<1>1. /\ t.client = [s.client EXCEPT ![c] = y]
      /\ t.elem = s.elem /\ t.cmds = s.cmds /\ t.news = s.news
  BY DEF States
<1>2. t.client[c] = y /\ \A d \in Clients : d # c => t.client[d] = s.client[d]
  BY <1>1 DEF States
<1> HIDE DEF t
<1>3. \A d \in Clients : t.client[d].cmd = s.client[d].cmd /\ t.client[d].cnx = s.client[d].cnx
  BY <1>2
<1>4. Live(s, {}) => Live(t, {})
  BY <1>1, <1>3 DEF Live
<1> QED
  BY <1>1, <1>4 DEF Calm, Stays, Says, t

LEMMA SaidCalm ==
    ASSUME NEW s \in States, NEW c \in Clients, NEW w
    PROVE  Calm(s, Said(s, c, w))
<1> DEFINE y == [s.client[c] EXCEPT !.last = w]
<1>1. s.client[c] \in ClientType
  BY DEF States
<1>2. y.cmd = s.client[c].cmd /\ y.cnx = s.client[c].cnx
  BY <1>1 DEF ClientType
<1>3. Said(s, c, w) = [s EXCEPT !.client[c] = y] \/ Said(s, c, w) = s
  BY DEF Said, States
<1> HIDE DEF y
<1> QED
  BY <1>2, <1>3, TouchCalm, CalmItself

LEMMA FinalCalm ==
    ASSUME NEW s \in States, NEW c \in Clients
    PROVE  Calm(s, Final(s, c))
<1> DEFINE y == [s.client[c] EXCEPT !.told = "nothing"]
<1>1. s.client[c] \in ClientType
  BY DEF States
<1>2. y.cmd = s.client[c].cmd /\ y.cnx = s.client[c].cnx
  BY <1>1 DEF ClientType
<1>3. Final(s, c) = [s EXCEPT !.client[c] = y]
  BY DEF Final, States
<1> HIDE DEF y
<1> QED
  BY <1>2, <1>3, TouchCalm

LEMMA EndCalm ==
    ASSUME NEW s, NEW c \in Clients, Good(s, {c})
    PROVE  Calm(s, End(s, c))
<1> DEFINE t == Cleanup(s, {c})
<1>1. Good(t, {}) /\ Calm(s, t)
  BY CleanupGood, CleanupCalm
<1> HIDE DEF t
<1>2. t \in States
  BY <1>1 DEF Good
<1>3. Calm(t, Final(t, c))
  BY <1>2, FinalCalm
<1> QED
  BY <1>1, <1>3, CalmTwice DEF End, t

(* A client that gets a transfer had no connection, and so no command.     *)
LEMMA SetupCalm ==
    ASSUME NEW s, NEW c \in Clients, NEW f \in Files, NEW up \in BOOLEAN, NEW x,
           Good(s, {}), x \in Choices(s, c, f, up)
    PROVE  Calm(s, Setup(s, c, f, x, up))
<1> DEFINE t == Setup(s, c, f, x, up)
           u == NextXfer(s)
           y == [s.client[c] EXCEPT !.cnx = x, !.el = f, !.upload = up, !.uid = u]
           e == IF up THEN [NewElement EXCEPT !.uploader = c]
                      ELSE [s.elem[f] EXCEPT !.leechers = @ \cup {c}]
<1>1. /\ s \in States /\ s.client[c] \in ClientType /\ s.elem[f] \in ElementType
      /\ s.cmds \subseteq CommandType
  BY DEF Good, States
<1>2. /\ s.client[c].cnx = None
      /\ up => ~s.elem[f].exists
      /\ ~up => s.elem[f].exists /\ s.elem[f].uploader = None
  BY DEF Choices, MayUpload, MayDownload
<1>3. /\ t.client = [s.client EXCEPT ![c] = y] /\ t.elem = [s.elem EXCEPT ![f] = e]
      /\ t.cmds = s.cmds /\ t.news = s.news
  BY <1>1 DEF Setup, Linked, States
<1>4. y.cmd = s.client[c].cmd
  BY <1>1 DEF ClientType
<1>5. ~up => e.exists /\ e.uploader = None
  BY <1>1, <1>2 DEF ElementType
<1> HIDE DEF t, y, e
<1>6. /\ t.client[c] = y /\ \A d \in Clients : d # c => t.client[d] = s.client[d]
      /\ t.elem[f] = e /\ \A g \in Files : g # f => t.elem[g] = s.elem[g]
  BY <1>1, <1>3 DEF States
<1>7. Stays(s, t, {})
  BY <1>2, <1>5, <1>6 DEF Stays
<1>8. ASSUME Live(s, {}) PROVE Live(t, {})
  <2>1. s.client[c].cmd = None
    BY <1>1, <1>2, <1>8, NoneFacts DEF Live
  <2> QED
    BY <1>3, <1>4, <1>6, <1>8, <2>1 DEF Live
<1> QED
  BY <1>3, <1>7, <1>8 DEF Calm, Says, t

LEMMA MakeQueryCalm ==
    ASSUME NEW s \in States, NEW c \in Clients, NEW kind \in Kinds
    PROVE  Calm(s, MakeQuery(s, c, kind))
<1> DEFINE k == IF Command(s, c, kind, 1) \in s.cmds THEN Command(s, c, kind, 2)
                                                     ELSE Command(s, c, kind, 1)
           t == MakeQuery(s, c, kind)
<1>1. k.cnx = s.client[c].cnx
  BY DEF Command
<1>2. s.client[c] \in ClientType
  BY DEF States
<1> HIDE DEF k
<1>3. /\ t.client = [s.client EXCEPT ![c].cmd = k] /\ t.elem = s.elem
      /\ t.cmds = s.cmds \cup {k} /\ t.news = s.news
  BY DEF MakeQuery, States, k
<1> HIDE DEF t
<1>4. /\ t.client[c].cmd = k /\ t.client[c].cnx = s.client[c].cnx
      /\ \A d \in Clients : d # c => t.client[d] = s.client[d]
  BY <1>2, <1>3 DEF States, ClientType
<1>5. Live(s, {}) => Live(t, {})
  BY <1>1, <1>3, <1>4 DEF Live
<1> QED
  BY <1>3, <1>5 DEF Calm, Stays, Says, t

LEMMA BeginCalm ==
    ASSUME NEW s, NEW c \in Clients, Good(s, {}), s.client[c].cnx # None,
           ~Pipelining => s.client[c].cmd = None
    PROVE  Calm(s, Begin(s, c))
<1> DEFINE q == MakeQuery(s, c, "TRANSFER")
           y == [q.client[c] EXCEPT !.told = "transfer"]
<1>0. "TRANSFER" \in Kinds /\ s \in States
  BY DEF Kinds, Good
<1>1. Good(q, {}) /\ Calm(s, q)
  BY <1>0, MakeQueryGood, MakeQueryCalm
<1> HIDE DEF q
<1>2. q \in States /\ q.client[c] \in ClientType
  BY <1>1 DEF Good, States
<1>3. Begin(s, c) = [q EXCEPT !.client[c] = y]
  BY <1>2 DEF Begin, States, q
<1>4. y.cmd = q.client[c].cmd /\ y.cnx = q.client[c].cnx
  BY <1>2 DEF ClientType
<1> HIDE DEF y
<1>5. Calm(q, Begin(s, c))
  BY <1>2, <1>3, <1>4, TouchCalm
<1> QED
  BY <1>1, <1>5, CalmTwice

LEMMA TouchGood ==
    ASSUME NEW s, NEW c \in Clients, NEW y \in ClientType, Good(s, {}),
           y.el = s.client[c].el, y.cnx = s.client[c].cnx, y.upload = s.client[c].upload,
           y.uid = s.client[c].uid, y.cmd = s.client[c].cmd, y.on,
           y.fd = "listening" => y.passive, y.fd = "connecting" => ~y.passive,
           y.slaveXfer => s.client[c].slaveXfer \/ s.client[c].el # None,
           y.told = "transfer" => s.client[c].told = "transfer"
    PROVE  LET t == [s EXCEPT !.client[c] = y]
           IN  /\ Good(t, {}) /\ (Ghostless(s, {}) => Ghostless(t, {})) /\ Calm(s, t)
               /\ t.client[c] = y /\ t.elem = s.elem /\ t.cmds = s.cmds
<1> DEFINE t == [s EXCEPT !.client[c] = y]
<1>1. s \in States
  BY DEF Good
<1>0. Calm(s, t)
  BY <1>1, TouchCalm
<1>2. /\ t \in States /\ t.client = [s.client EXCEPT ![c] = y] /\ t.client[c] = y
      /\ t.elem = s.elem /\ t.link = s.link /\ t.xfers = s.xfers /\ t.cmds = s.cmds
  BY <1>1, ChangeFacts
<1> HIDE DEF t
<1>3. Retouched(s, t, c)
  BY <1>2 DEF Retouched, Sane
<1>4. Good(t, {}) /\ (Ghostless(s, {}) => Ghostless(t, {}))
  BY <1>2, <1>3, RetouchedGood
<1> QED
  BY <1>0, <1>2, <1>4 DEF t

(* How an action ends: only files in F that are complete go, and the news  *)
(* are in N, or in M where clients wait for outstanding commands.          *)
Ends(F, N, M) == \E t : /\ Become(t) /\ Stays(State, t, F) /\ Says(State, t, N)
                        /\ Live(State, {}) => Live(t, {}) /\ Says(State, t, M)
Quiet == Ends({}, {"freed command"}, {})

LEMMA BecomeQuiet ==
    ASSUME NEW s, Good(s, {}), Ghostless(s, {}), Become(s), Calm(State, s)
    PROVE  IInv' /\ Quiet
BY BecomeGood DEF Quiet, Ends, Calm, Says

LEMMA StateFacts ==
    ASSUME IInv
    PROVE  /\ Good(State, {}) /\ Ghostless(State, {}) /\ State \in States
           /\ State.client = client /\ State.elem = elem /\ State.link = link
           /\ State.xfers = xfers /\ State.cmds = cmds
           /\ \A c \in Clients : client[c] \in ClientType
BY DEF IInv, Good, State, States

--------------------------------------------------------------------------------
(* Commands of the clients.                                                *)
LEMMA AnsweredCalm ==
    ASSUME NEW s, NEW k \in s.cmds, Good(s, {}), s.client[k.client].on
    PROVE  Calm(s, Answered(s, k))
<1> DEFINE t == Answered(s, k)
           c == k.client
           y == [s.client[c] EXCEPT !.cmd = None]
<1>1. s \in States /\ k \in CommandType /\ c \in Clients /\ s.client[c] \in ClientType
  BY NoneFacts DEF Good, States
<1>2. t = [s EXCEPT !.cmds = @ \ {k}, !.client[c].cmd = None]
  BY <1>1 DEF Answered, States
<1> HIDE DEF t, c
<1>3. /\ t.elem = s.elem /\ t.news = s.news /\ t.cmds = s.cmds \ {k}
      /\ t.client[c] = y /\ \A d \in Clients : d # c => t.client[d] = s.client[d]
  BY <1>1, <1>2 DEF States
<1>4. y.cmd = None
  BY <1>1 DEF ClientType
<1> HIDE DEF y
<1>5. ASSUME Live(s, {}) PROVE Live(t, {})
  <2>1. \A d \in Clients : s.client[d].cmd = k => d = c
    BY <1>1, NoneFacts DEF Good, Names, c
  <2> QED
    BY <1>3, <1>4, <1>5, <2>1 DEF Live
<1> QED
  BY <1>3, <1>5 DEF Calm, Stays, Says, t

LEMMA ConnectKeeps ==
    ASSUME IInv, NEW c \in Clients, Connect(c)
    PROVE  IInv' /\ Quiet
<1> DEFINE t == [State EXCEPT !.client[c] = NewClient]
<1>1. /\ Good(State, {}) /\ Ghostless(State, {}) /\ State.client = client
  BY StateFacts
<1>2. client[c] = Gone
  BY <1>1 DEF Connect, Good, Sane
<1>3. /\ NewClient \in ClientType /\ NewClient.on /\ NewClient.el = Gone.el
      /\ NewClient.cnx = Gone.cnx /\ NewClient.upload = Gone.upload /\ NewClient.uid = Gone.uid
      /\ NewClient.cmd = Gone.cmd /\ NewClient.fd = "none" /\ ~NewClient.slaveXfer
      /\ NewClient.told = "nothing"
  BY DEF NewClient, Gone, Blank, ClientType
<1>4. Good(t, {}) /\ Ghostless(t, {}) /\ Calm(State, t)
  <2> HIDE DEF t
  <2>1. t = [State EXCEPT !.client[c] = NewClient]
    BY DEF t
  <2> QED
    BY <1>1, <1>2, <1>3, <2>1, TouchGood
<1>5. Become(t)
  BY DEF Connect
<1> HIDE DEF t
<1> QED
  BY <1>4, <1>5, BecomeQuiet

LEMMA RestKeeps ==
    ASSUME IInv, NEW c \in Clients, Rest(c) \/ Other(c)
    PROVE  IInv' /\ Quiet
<1>1. Good(State, {}) /\ Ghostless(State, {}) /\ State \in States
  BY StateFacts
<1>2. \A w \in {"rest", "other"} : /\ Good(Said(State, c, w), {}) /\ Ghostless(Said(State, c, w), {})
                                  /\ Calm(State, Said(State, c, w))
  BY <1>1, SaidGood, SaidCalm
<1>3. CASE Rest(c)
  <2>1. Become(Said(State, c, "rest"))
    BY <1>3 DEF Rest
  <2> QED
    BY <1>2, <2>1, BecomeQuiet
<1>4. CASE Other(c)
  <2>1. Become(Said(State, c, "other"))
    BY <1>4 DEF Other
  <2> QED
    BY <1>2, <2>1, BecomeQuiet
<1> QED
  BY <1>3, <1>4

(* A client's data connection is cleaned up, in the states between two     *)
(* actions.                                                                *)
LEMMA CleanState ==
    ASSUME IInv, NEW c \in Clients
    PROVE  LET t == Cleanup(State, {c})
           IN  /\ Good(t, {}) /\ Ghostless(t, {}) /\ Calm(State, t)
               /\ t.client[c].on = client[c].on /\ t.client[c].cmd = None
               /\ t.client[c].fd = "none" /\ t.client[c].cnx = None
<1>1. /\ Good(State, {}) /\ Ghostless(State, {}) /\ State.client = client
      /\ client[c] \in ClientType
  BY StateFacts
<1>2. Good(State, {c})
  BY <1>1, GoodWider
<1>3. LET t == Cleanup(State, {c})
      IN  /\ Good(t, {}) /\ Ghostless(t, {}) /\ Calm(State, t)
          /\ t.client[c] = Reset(client[c])
  BY <1>1, <1>2, CleanupGood, CleanupCalm
<1>4. LET y == Reset(client[c])
      IN  y.on = client[c].on /\ y.cmd = None /\ y.fd = "none" /\ y.cnx = None
  BY <1>1, ResetFacts
<1> QED
  BY <1>3, <1>4

LEMMA PretKeeps ==
    ASSUME IInv, NEW c \in Clients, NEW f \in Files, NEW up \in BOOLEAN, Pret(c, f, up)
    PROVE  IInv' /\ Quiet
<1> DEFINE r == Cleanup(State, {c})
           q == Said(r, c, "other")
           clean == Final(q, c)
<1>1. /\ Good(r, {}) /\ Ghostless(r, {}) /\ Calm(State, r)
      /\ r.client[c].on = client[c].on /\ r \in States
  BY CleanState DEF Good
<1> HIDE DEF r
<1>2. /\ Good(q, {}) /\ Ghostless(q, {}) /\ Calm(r, q)
      /\ q.client[c].on = r.client[c].on /\ q \in States
  BY <1>1, SaidGood, SaidCalm DEF Good
<1> HIDE DEF q
<1>3. /\ Good(clean, {}) /\ Ghostless(clean, {}) /\ Calm(State, clean)
      /\ clean.client[c].on = q.client[c].on
  <2>1. Good(clean, {}) /\ Ghostless(clean, {}) /\ clean.client[c].on = q.client[c].on
    BY <1>2, FinalGood
  <2>2. Calm(q, clean)
    BY <1>2, FinalCalm
  <2> QED
    BY <1>1, <1>2, <2>1, <2>2, CalmTwice
<1>4. /\ client[c].on
      /\ \/ Become(clean)
         \/ \E x \in Choices(clean, c, f, up) :
               Become([Setup(clean, c, f, x, up) EXCEPT !.client[c].slaveXfer = TRUE])
  BY DEF Pret, r, q
<1> HIDE DEF clean
<1>5. CASE Become(clean)
  BY <1>3, <1>5, BecomeQuiet
<1>6. ASSUME NEW x \in Choices(clean, c, f, up),
             Become([Setup(clean, c, f, x, up) EXCEPT !.client[c].slaveXfer = TRUE])
      PROVE  IInv' /\ Quiet
  <2> DEFINE t == Setup(clean, c, f, x, up)
             y == [t.client[c] EXCEPT !.slaveXfer = TRUE]
  <2>0. clean.client[c].on
    BY <1>1, <1>2, <1>3, <1>4
  <2>1. /\ Good(t, {}) /\ Ghostless(t, {}) /\ Calm(clean, t)
        /\ t.client[c].on /\ t.client[c].el = f
    BY <1>3, <1>6, <2>0, SetupGood, SetupCalm
  <2>2. Become([t EXCEPT !.client[c].slaveXfer = TRUE])
    BY <1>6
  <2> HIDE DEF t
  <2>3. t \in States /\ t.client[c] \in ClientType /\ Sane(t.client[c])
    BY <2>1 DEF Good, States
  <2>4. [t EXCEPT !.client[c].slaveXfer = TRUE] = [t EXCEPT !.client[c] = y]
    BY <2>3 DEF States
  <2>5. /\ y \in ClientType /\ y.el = t.client[c].el /\ y.cnx = t.client[c].cnx
        /\ y.upload = t.client[c].upload /\ y.uid = t.client[c].uid /\ y.cmd = t.client[c].cmd
        /\ y.on = t.client[c].on /\ y.fd = t.client[c].fd /\ y.passive = t.client[c].passive
        /\ y.told = t.client[c].told
    BY <2>3 DEF ClientType
  <2> HIDE DEF y
  <2>6. /\ y.on /\ (y.fd = "listening" => y.passive) /\ (y.fd = "connecting" => ~y.passive)
        /\ t.client[c].el # None
    BY <2>1, <2>3, <2>5, NoneFacts DEF Sane
  <2> DEFINE z == [t EXCEPT !.client[c] = y]
  <2>7. Good(z, {}) /\ Ghostless(z, {}) /\ Calm(t, z)
    BY <2>1, <2>5, <2>6, TouchGood
  <2>8. Become(z)
    BY <2>2, <2>4
  <2> HIDE DEF z
  <2>9. Calm(State, z)
    BY <1>3, <2>1, <2>7, CalmTwice
  <2> QED
    BY <2>7, <2>8, <2>9, BecomeQuiet
<1> QED
  BY <1>4, <1>5, <1>6

(* What PASV and PORT work on.                                             *)
LEMMA TidyGood ==
    ASSUME IInv, NEW c \in Clients, NEW w \in {"pasv", "port"}, MayTransfer(c)
    PROVE  LET t == Said(Tidy(c), c, w)
           IN  /\ Good(t, {}) /\ Ghostless(t, {}) /\ Calm(State, t)
               /\ t.client[c].on /\ t.client[c].fd = "none"
               /\ ~Pipelining => t.client[c].cmd = None
<1> DEFINE r == Tidy(c)
           t == Said(r, c, w)
<1>1. /\ Good(State, {}) /\ Ghostless(State, {}) /\ State.client = client
  BY StateFacts
<1>2. client[c].on /\ (~Pipelining => client[c].cmd = None)
  BY DEF MayTransfer, Waiting
<1>3. /\ Good(r, {}) /\ Ghostless(r, {}) /\ Calm(State, r)
      /\ r.client[c].on /\ r.client[c].fd = "none"
      /\ ~Pipelining => r.client[c].cmd = None
  <2>1. CASE client[c].fd # "none"
    BY <1>2, <2>1, CleanState DEF Tidy
  <2>2. CASE client[c].fd = "none"
    BY <1>1, <1>2, <2>2, CalmItself DEF Tidy
  <2> QED
    BY <2>1, <2>2
<1> HIDE DEF r
<1>4. /\ Good(t, {}) /\ Ghostless(t, {}) /\ Retouched(r, t, c) /\ Calm(r, t)
      /\ t.client[c].on = r.client[c].on /\ t.client[c].fd = r.client[c].fd
  <2>1. w \in {"other", "port", "pasv", "rest"} /\ r \in States
    BY <1>3 DEF Good
  <2> QED
    BY <1>3, <2>1, SaidGood, SaidCalm
<1> HIDE DEF t
<1>5. t.client[c].cmd = r.client[c].cmd
  BY <1>4 DEF Retouched
<1>6. t.client[c].on /\ Calm(State, t)
  BY <1>3, <1>4, CalmTwice
<1> QED
  BY <1>3, <1>4, <1>5, <1>6 DEF r, t

LEMMA PasvKeeps ==
    ASSUME IInv, NEW c \in Clients, Pasv(c)
    PROVE  IInv' /\ Quiet
<1> DEFINE t == Said(Tidy(c), c, "pasv")
           p == [t EXCEPT !.client[c].passive = TRUE]
           y == [t.client[c] EXCEPT !.passive = TRUE]
<1>1. MayTransfer(c)
  BY DEF Pasv
<1>2. /\ Good(t, {}) /\ Ghostless(t, {}) /\ Calm(State, t)
      /\ t.client[c].on /\ t.client[c].fd = "none"
      /\ ~Pipelining => t.client[c].cmd = None
  BY <1>1, TidyGood
<1>3. \/ t.client[c].slaveXfer /\ Become(MakeQuery(p, c, "LISTEN"))
      \/ Become([p EXCEPT !.client[c].fd = "listening"])
      \/ Become(End(p, c))
  BY DEF Pasv
<1> HIDE DEF t
<1>4. t \in States /\ t.client[c] \in ClientType
  BY <1>2 DEF Good, States
<1>5. p = [t EXCEPT !.client[c] = y]
  BY <1>4 DEF States
<1>6. /\ y \in ClientType /\ y.el = t.client[c].el /\ y.cnx = t.client[c].cnx
      /\ y.upload = t.client[c].upload /\ y.uid = t.client[c].uid /\ y.cmd = t.client[c].cmd
      /\ y.on = t.client[c].on /\ y.fd = t.client[c].fd /\ y.passive
      /\ y.told = t.client[c].told /\ y.slaveXfer = t.client[c].slaveXfer
  BY <1>4 DEF ClientType
<1> HIDE DEF p, y
<1>7. y.on
  BY <1>2, <1>6
<1>8. Good(p, {}) /\ Ghostless(p, {}) /\ Calm(State, p) /\ p.client[c] = y /\ p \in States
  <2>1. Good(p, {}) /\ Ghostless(p, {}) /\ Calm(t, p) /\ p.client[c] = y
    BY <1>2, <1>5, <1>6, <1>7, TouchGood
  <2> QED
    BY <1>2, <2>1, CalmTwice DEF Good
<1>9. CASE t.client[c].slaveXfer /\ Become(MakeQuery(p, c, "LISTEN"))
  <2> DEFINE m == MakeQuery(p, c, "LISTEN")
  <2>1. p.client[c].slaveXfer /\ Whole(p, c)
    BY <1>6, <1>8, <1>9 DEF Good
  <2>2. p.client[c].cnx # None /\ (~Pipelining => p.client[c].cmd = None)
    BY <1>2, <1>6, <1>8, <2>1 DEF Whole
  <2>3. Good(m, {}) /\ Ghostless(m, {}) /\ Calm(p, m)
    BY <1>8, <2>2, MakeQueryGood, MakeQueryCalm DEF Kinds
  <2>4. Become(m)
    BY <1>9
  <2> HIDE DEF m
  <2>5. Calm(State, m)
    BY <1>8, <2>3, CalmTwice
  <2> QED
    BY <2>3, <2>4, <2>5, BecomeQuiet
<1>10. CASE Become([p EXCEPT !.client[c].fd = "listening"])
  <2> DEFINE z == [y EXCEPT !.fd = "listening"]
             q == [p EXCEPT !.client[c] = z]
  <2>1. p \in States
    BY <1>8 DEF Good
  <2>2. Become(q)
    BY <1>8, <1>10, <2>1 DEF States
  <2>3. /\ z \in ClientType /\ z.el = y.el /\ z.cnx = y.cnx /\ z.upload = y.upload
        /\ z.uid = y.uid /\ z.cmd = y.cmd /\ z.on = y.on /\ z.fd = "listening"
        /\ z.passive = y.passive /\ z.told = y.told /\ z.slaveXfer = y.slaveXfer
    BY <1>6 DEF ClientType
  <2> HIDE DEF z
  <2>4. z.on /\ z.passive
    BY <1>6, <1>7, <2>3
  <2>5. Good(q, {}) /\ Ghostless(q, {}) /\ Calm(p, q)
    BY <1>8, <2>3, <2>4, TouchGood
  <2> HIDE DEF q
  <2>6. Calm(State, q)
    BY <1>8, <2>5, CalmTwice
  <2> QED
    BY <2>2, <2>5, <2>6, BecomeQuiet
<1>11. CASE Become(End(p, c))
  <2>1. Good(p, {c})
    BY <1>8, GoodWider
  <2>2. Good(End(p, c), {}) /\ Ghostless(End(p, c), {}) /\ Calm(State, End(p, c))
    BY <1>8, <2>1, EndGood, EndCalm, CalmTwice
  <2> QED
    BY <1>11, <2>2, BecomeQuiet
<1> QED
  BY <1>3, <1>9, <1>10, <1>11

LEMMA PortKeeps ==
    ASSUME IInv, NEW c \in Clients, Port(c)
    PROVE  IInv' /\ Quiet
<1> DEFINE t == Said(Tidy(c), c, "port")
           y == [t.client[c] EXCEPT !.passive = FALSE]
           p == [t EXCEPT !.client[c] = y]
<1>1. MayTransfer(c)
  BY DEF Port
<1>2. /\ Good(t, {}) /\ Ghostless(t, {}) /\ Calm(State, t)
      /\ t.client[c].on /\ t.client[c].fd = "none"
  BY <1>1, TidyGood
<1>3. Become([t EXCEPT !.client[c].passive = FALSE]) \/ Become(t)
  BY DEF Port
<1> HIDE DEF t
<1>4. t \in States /\ t.client[c] \in ClientType
  BY <1>2 DEF Good, States
<1>5. [t EXCEPT !.client[c].passive = FALSE] = p
  BY <1>4 DEF States
<1>6. /\ y \in ClientType /\ y.el = t.client[c].el /\ y.cnx = t.client[c].cnx
      /\ y.upload = t.client[c].upload /\ y.uid = t.client[c].uid /\ y.cmd = t.client[c].cmd
      /\ y.on = t.client[c].on /\ y.fd = t.client[c].fd
      /\ y.told = t.client[c].told /\ y.slaveXfer = t.client[c].slaveXfer
  BY <1>4 DEF ClientType
<1> HIDE DEF y
<1>7. y.on
  BY <1>2, <1>6
<1>8. Good(p, {}) /\ Ghostless(p, {}) /\ Calm(t, p)
  BY <1>2, <1>6, <1>7, TouchGood
<1>9. Become(p) \/ Become(t)
  BY <1>3, <1>5
<1> HIDE DEF p
<1>10. Calm(State, p)
  BY <1>2, <1>8, CalmTwice
<1> QED
  BY <1>2, <1>8, <1>9, <1>10, BecomeQuiet

(* The state in which a client has said something else.                    *)
LEMMA OtherState ==
    ASSUME IInv, NEW c \in Clients
    PROVE  LET s == Said(State, c, "other")
           IN  /\ Good(s, {}) /\ Ghostless(s, {}) /\ Calm(State, s)
               /\ s \in States /\ s.client[c] \in ClientType
               /\ s.client[c].on = client[c].on /\ s.client[c].fd = client[c].fd
               /\ s.client[c].slaveXfer = client[c].slaveXfer
               /\ s.client[c].el = client[c].el /\ s.client[c].cnx = client[c].cnx
               /\ s.client[c].cmd = client[c].cmd
               /\ Good(End(s, c), {}) /\ Ghostless(End(s, c), {}) /\ Calm(State, End(s, c))
<1> DEFINE s == Said(State, c, "other")
<1>1. /\ Good(State, {}) /\ Ghostless(State, {}) /\ State.client = client
      /\ State \in States
  BY StateFacts
<1>2. /\ Good(s, {}) /\ Ghostless(s, {}) /\ Retouched(State, s, c) /\ Calm(State, s)
      /\ s.client[c].on = client[c].on /\ s.client[c].fd = client[c].fd
      /\ s.client[c].slaveXfer = client[c].slaveXfer
  BY <1>1, SaidGood, SaidCalm
<1> HIDE DEF s
<1>3. /\ s.client[c].el = client[c].el /\ s.client[c].cnx = client[c].cnx
      /\ s.client[c].cmd = client[c].cmd
  BY <1>1, <1>2 DEF Retouched
<1>4. s \in States /\ s.client[c] \in ClientType
  BY <1>2 DEF Good, States
<1>5. Good(End(s, c), {}) /\ Ghostless(End(s, c), {}) /\ Calm(s, End(s, c))
  BY <1>2, GoodWider, EndGood, EndCalm
<1> QED
  BY <1>2, <1>3, <1>4, <1>5, CalmTwice DEF s

LEMMA ListedGood ==
    ASSUME NEW s, NEW c \in Clients, Good(s, {}), Ghostless(s, {}), s.client[c].on,
           NEW data \in {"none", "empty", "pending", "sent"},
           NEW fd \in {"none", "listening", "connecting", "open"},
           fd = "listening" => s.client[c].passive, fd = "connecting" => ~s.client[c].passive
    PROVE  LET y == [s.client[c] EXCEPT !.data = data, !.fd = fd,
                                        !.ready = TRUE, !.told = "listing"]
               t == [s EXCEPT !.client[c] = y]
           IN  Good(t, {}) /\ Ghostless(t, {}) /\ Calm(s, t)
<1> DEFINE x == s.client[c]
           y == [x EXCEPT !.data = data, !.fd = fd, !.ready = TRUE, !.told = "listing"]
<1>1. x \in ClientType
  BY DEF Good, States
<1> HIDE DEF x
<1>2. /\ y \in ClientType /\ y.el = x.el /\ y.cnx = x.cnx
      /\ y.upload = x.upload /\ y.uid = x.uid /\ y.cmd = x.cmd
      /\ y.on = x.on /\ y.fd = fd /\ y.passive = x.passive
      /\ y.told = "listing" /\ y.slaveXfer = x.slaveXfer
  BY <1>1, ZenonT(40) DEF ClientType
<1> HIDE DEF y
<1>3. y.on /\ (y.fd = "listening" => y.passive) /\ (y.fd = "connecting" => ~y.passive)
  BY <1>2 DEF x
<1>4. LET t == [s EXCEPT !.client[c] = y] IN Good(t, {}) /\ Ghostless(t, {}) /\ Calm(s, t)
  BY <1>2, <1>3, TouchGood DEF x
<1> QED
  BY <1>4 DEF x, y

LEMMA ListKeeps ==
    ASSUME IInv, NEW c \in Clients, List(c)
    PROVE  IInv' /\ Quiet
<1> DEFINE s == Said(State, c, "other")
           data(lines) == IF client[c].data = "pending" THEN "pending" ELSE lines
           fd == IF client[c].passive THEN client[c].fd ELSE "connecting"
           y(lines) == [s.client[c] EXCEPT !.data = data(lines), !.fd = fd,
                                           !.ready = TRUE, !.told = "listing"]
           t(lines) == [s EXCEPT !.client[c] = y(lines)]
<1>1. /\ Good(s, {}) /\ Ghostless(s, {}) /\ Calm(State, s) /\ s.client[c].on = client[c].on
      /\ Good(End(s, c), {}) /\ Ghostless(End(s, c), {}) /\ Calm(State, End(s, c))
  BY OtherState
<1>2. /\ client[c].on
      /\ \/ Become(End(s, c))
         \/ \E lines \in {"empty", "pending"} : Become(t(lines))
  BY DEF List, MayTransfer
<1>3. s.client[c].passive = client[c].passive
  BY <1>2, StateFacts DEF Said, States, ClientType
<1>4. CASE Become(End(s, c))
  <2> DEFINE e == End(s, c)
  <2>1. Good(e, {}) /\ Ghostless(e, {}) /\ Become(e) /\ Calm(State, e)
    BY <1>1, <1>4
  <2> HIDE DEF e
  <2> QED
    BY <2>1, BecomeQuiet
<1>5. ASSUME NEW lines \in {"empty", "pending"}, Become(t(lines))
      PROVE  IInv' /\ Quiet
  <2>1. data(lines) \in {"none", "empty", "pending", "sent"}
    OBVIOUS
  <2>2. /\ fd \in {"none", "listening", "connecting", "open"}
        /\ fd = "listening" => client[c].passive
        /\ fd = "connecting" => ~client[c].passive
    <3>1. client[c] \in ClientType /\ Sane(client[c])
      BY StateFacts DEF Good
    <3> QED
      BY <3>1 DEF Sane, ClientType
  <2>3. Good(t(lines), {}) /\ Ghostless(t(lines), {}) /\ Calm(s, t(lines))
    <3> HIDE DEF s, data, fd
    <3>1. s.client[c].on /\ (fd = "listening" => s.client[c].passive)
          /\ (fd = "connecting" => ~s.client[c].passive)
      BY <1>1, <1>2, <1>3, <2>2
    <3> QED
      BY <1>1, <2>1, <2>2, <3>1, ListedGood, ZenonT(40)
  <2> HIDE DEF s, t
  <2>4. Calm(State, t(lines))
    BY <1>1, <2>3, CalmTwice
  <2> QED
    BY <1>5, <2>3, <2>4, BecomeQuiet
<1> QED
  BY <1>2, <1>4, <1>5

(* RETR and STOR.                                                          *)
LEMMA TransferKeeps ==
    ASSUME IInv, NEW c \in Clients, NEW f \in Files, NEW up \in BOOLEAN, NEW allowed,
           MayTransfer(c), Transfer(c, f, up, allowed)
    PROVE  IInv' /\ Quiet
<1> DEFINE s == Said(State, c, "other")
           x == client[c]
<1>1. /\ Good(s, {}) /\ Ghostless(s, {}) /\ Calm(State, s) /\ s.client[c].on = x.on
      /\ s.client[c].slaveXfer = x.slaveXfer
      /\ s.client[c].el = x.el /\ s.client[c].cnx = x.cnx /\ s.client[c].cmd = x.cmd
      /\ Good(End(s, c), {}) /\ Ghostless(End(s, c), {}) /\ Calm(State, End(s, c))
  BY OtherState
<1>2. x.on /\ (~Pipelining => x.cmd = None)
  BY DEF MayTransfer, Waiting
<1>3. \/ Become(End(s, c))
      \/ x.slaveXfer /\ Become(Begin(s, c))
      \/ x.el # None /\ Become(Begin(s, c))
      \/ \E y \in Choices(s, c, f, up) : Become(Begin(Setup(s, c, f, y, up), c))
  BY DEF Transfer
<1> HIDE DEF s
<1>4. Whole(s, c)
  BY <1>1 DEF Good
<1>5. CASE Become(End(s, c))
  <2> DEFINE e == End(s, c)
  <2>1. Good(e, {}) /\ Ghostless(e, {}) /\ Become(e) /\ Calm(State, e)
    BY <1>1, <1>5
  <2> HIDE DEF e
  <2> QED
    BY <2>1, BecomeQuiet
<1>6. CASE (x.slaveXfer \/ x.el # None) /\ Become(Begin(s, c))
  <2> DEFINE b == Begin(s, c)
  <2>1. s.client[c].cnx # None
    BY <1>1, <1>4, <1>6 DEF Whole
  <2>2. Good(b, {}) /\ Ghostless(b, {}) /\ Become(b) /\ Calm(s, b)
    BY <1>1, <1>2, <1>6, <2>1, BeginGood, BeginCalm
  <2> HIDE DEF b
  <2>3. Calm(State, b)
    BY <1>1, <2>2, CalmTwice
  <2> QED
    BY <2>2, <2>3, BecomeQuiet
<1>7. ASSUME NEW y \in Choices(s, c, f, up), Become(Begin(Setup(s, c, f, y, up), c))
      PROVE  IInv' /\ Quiet
  <2> DEFINE t == Setup(s, c, f, y, up)
             b == Begin(t, c)
  <2>1. s.client[c].on
    BY <1>1, <1>2
  <2>2. /\ Good(t, {}) /\ Ghostless(t, {}) /\ Calm(s, t)
        /\ t.client[c].on /\ t.client[c].el = f /\ t.client[c].cnx = y
        /\ t.client[c].cmd = s.client[c].cmd
    BY <1>1, <1>7, <2>1, SetupGood, SetupCalm
  <2>3. Become(b)
    BY <1>7
  <2> HIDE DEF t
  <2>4. t.client[c].cnx # None
    <3>1. Whole(t, c)
      BY <2>2 DEF Good
    <3> QED
      BY <2>2, <3>1, NoneFacts DEF Whole
  <2>5. Good(b, {}) /\ Ghostless(b, {}) /\ Calm(t, b)
    BY <1>1, <1>2, <2>2, <2>4, BeginGood, BeginCalm
  <2> HIDE DEF b
  <2>6. Calm(State, b)
    BY <1>1, <2>2, <2>5, CalmTwice
  <2> QED
    BY <2>3, <2>5, <2>6, BecomeQuiet
<1> QED
  BY <1>3, <1>5, <1>6, <1>7

LEMMA RetrStorKeeps ==
    ASSUME IInv, NEW c \in Clients, NEW f \in Files, Retr(c, f) \/ Stor(c, f)
    PROVE  IInv' /\ Quiet
<1>1. CASE Retr(c, f)
  BY <1>1, TransferKeeps DEF Retr
<1>2. CASE Stor(c, f)
  BY <1>2, TransferKeeps DEF Stor
<1> QED
  BY <1>1, <1>2

LEMMA AbortKeeps ==
    ASSUME IInv, NEW c \in Clients, Abort(c)
    PROVE  IInv' /\ Quiet
<1> DEFINE e == End(State, c)
           t == Said(e, c, "other")
<1>1. Good(State, {c}) /\ Ghostless(State, {})
  BY StateFacts, GoodWider
<1>2. Good(e, {}) /\ Ghostless(e, {}) /\ Calm(State, e) /\ e \in States
  BY <1>1, EndGood, EndCalm DEF Good
<1>3. Become(t)
  BY DEF Abort
<1> HIDE DEF e
<1>4. Good(t, {}) /\ Ghostless(t, {}) /\ Calm(State, t)
  BY <1>2, SaidGood, SaidCalm, CalmTwice
<1> HIDE DEF t
<1> QED
  BY <1>3, <1>4, BecomeQuiet

(* A client's data connection is cleaned up, and nothing else happens.     *)
LEMMA CleanKeeps ==
    ASSUME IInv, NEW c \in Clients,
           Become(Cleanup(State, {c})) \/ Become(End(State, c)) \/ Become(Destroy(State, {c}))
    PROVE  IInv' /\ Quiet
<1>1. Good(State, {c}) /\ Ghostless(State, {})
  BY StateFacts, GoodWider
<1>2. CASE Become(Cleanup(State, {c}))
  BY <1>1, <1>2, CleanState, BecomeQuiet
<1>3. CASE Become(End(State, c))
  BY <1>1, <1>3, EndGood, EndCalm, BecomeQuiet
<1>4. CASE Become(Destroy(State, {c}))
  <2>1. /\ Good(Destroy(State, {c}), {}) /\ Ghostless(Destroy(State, {c}), {})
        /\ Calm(State, Destroy(State, {c}))
    BY <1>1, DestroyGood, DestroyCalm
  <2> QED
    BY <1>4, <2>1, BecomeQuiet
<1> QED
  BY <1>2, <1>3, <1>4

LEMMA LeaveKeeps ==
    ASSUME IInv, NEW c \in Clients, Leave(c) \/ XferTimeout(c) \/ DataEnds(c)
    PROVE  IInv' /\ Quiet
BY CleanKeeps DEF Leave, XferTimeout, DataEnds

LEMMA DeleteKeeps ==
    ASSUME IInv, NEW f \in Files, Delete(f)
    PROVE  IInv' /\ Ends({f}, {"freed command"}, {})
<1> DEFINE t == DeleteElements(State, {f})
<1>1. /\ Good(State, {}) /\ Ghostless(State, {}) /\ \A c \in {} : State.client[c].el \in {f}
      /\ State \in States /\ \A c \in Clients : Names(State, c)
  BY StateFacts DEF Good
<1>2. Good(t, {}) /\ Ghostless(t, {} \ {f})
  BY <1>1, DeleteElementsGood
<1>3. {} \ {f} = {}
  OBVIOUS
<1>4. Become(t)
  BY DEF Delete
<1>5. /\ Stays(State, t, {f}) /\ Says(State, t, {"freed command"})
      /\ Live(State, {}) => Live(t, {}) /\ t.news = State.news
  <2>1. {f} \in SUBSET Files
    OBVIOUS
  <2> QED
    BY <1>1, <2>1, DeleteElementsCalm
<1> HIDE DEF t
<1>6. IInv'
  BY <1>2, <1>3, <1>4, BecomeGood
<1>7. Live(State, {}) => Live(t, {}) /\ Says(State, t, {})
  BY <1>5 DEF Says
<1> QED
  BY <1>4, <1>5, <1>6, <1>7 DEF Ends

(* A client that takes the element it deletes is only marked at first.      *)
LEMMA DeleKeeps ==
    ASSUME IInv, NEW c \in Clients, NEW f \in Files, Dele(c, f)
    PROVE  /\ IInv' /\ Ends({f}, {"freed command", "freed element"}, {"freed element"})
           /\ c \notin elem[f].leechers => Ends({f}, {"freed command"}, {})
<1> DEFINE d == DeleteElements(State, {f})
           t == Said(d, c, "other")
           r == [t EXCEPT !.news = @ \cup {"freed element"}]
<1>1. /\ Good(State, {}) /\ Ghostless(State, {}) /\ \A b \in {} : State.client[b].el \in {f}
      /\ State \in States /\ \A b \in Clients : Names(State, b)
  BY StateFacts DEF Good
<1>2. {f} \in SUBSET Files /\ {} \ {f} = {}
  OBVIOUS
<1>3. Good(d, {}) /\ Ghostless(d, {})
  BY <1>1, <1>2, DeleteElementsGood
<1>4. /\ Stays(State, d, {f}) /\ Says(State, d, {"freed command"})
      /\ Live(State, {}) => Live(d, {}) /\ d.news = State.news
  BY <1>1, <1>2, DeleteElementsCalm
<1>5. Become(IF c \in elem[f].leechers THEN r ELSE t)
  BY DEF Dele
<1> HIDE DEF d
<1>6. Good(t, {}) /\ Ghostless(t, {}) /\ Calm(d, t)
  BY <1>3, SaidGood, SaidCalm DEF Good
<1>7. /\ Stays(State, t, {f}) /\ Says(State, t, {"freed command"})
      /\ Live(State, {}) => Live(t, {}) /\ t.news = State.news
  BY <1>4, <1>6 DEF Calm, Stays, Says
<1> HIDE DEF t
<1>8. t \in States
  BY <1>6 DEF Good
<1>9. r \in States
  BY <1>8 DEF States, NewsType
<1>10. /\ r.client = t.client /\ r.elem = t.elem /\ r.link = t.link /\ r.xfers = t.xfers
       /\ r.cmds = t.cmds
  BY <1>8 DEF States
<1>14. r.news = t.news \cup {"freed element"}
  BY <1>8 DEF States
<1> HIDE DEF r
<1>11. Good(r, {}) /\ Ghostless(r, {})
  BY <1>6, <1>9, <1>10 DEF Good, Names, HeldBy, UsedBy, Alone, Whole, Owned, Promised, Ghostless
<1>12. CASE c \in elem[f].leechers
  <2>1. Become(r)
    BY <1>5, <1>12
  <2>2. Stays(State, r, {f}) /\ Says(State, r, {"freed command", "freed element"})
    BY <1>7, <1>10, <1>14 DEF Stays, Says
  <2>3. Live(State, {}) => Live(r, {}) /\ Says(State, r, {"freed element"})
    BY <1>7, <1>10, <1>14 DEF Live, Says
  <2> QED
    BY <1>11, <1>12, <2>1, <2>2, <2>3, BecomeGood DEF Ends
<1>13. CASE c \notin elem[f].leechers
  <2>1. Become(t)
    BY <1>5, <1>13
  <2>2. /\ Says(State, t, {"freed command", "freed element"})
        /\ Live(State, {}) => Live(t, {}) /\ Says(State, t, {}) /\ Says(State, t, {"freed element"})
    BY <1>7 DEF Says
  <2> QED
    BY <1>6, <1>7, <1>13, <2>1, <2>2, BecomeGood DEF Ends
<1> QED
  BY <1>12, <1>13

(* The data connection with the master.                                    *)
LEMMA DataConnectKeeps ==
    ASSUME IInv, NEW c \in Clients, DataConnect(c)
    PROVE  IInv' /\ Quiet
<1> DEFINE x == client[c]
           y == [x EXCEPT !.fd = "open"]
           t == [State EXCEPT !.client[c] = y]
<1>1. /\ Good(State, {}) /\ Ghostless(State, {}) /\ State \in States /\ State.client = client
      /\ x \in ClientType
  BY StateFacts
<1>2. CASE Become([State EXCEPT !.client[c].fd = "open"])
  <2>1. x.on
    <3>1. Gone.fd = "none"
      BY DEF Gone, Blank
    <3> QED
      BY <1>1, <3>1 DEF DataConnect, Good, Sane
  <2>2. [State EXCEPT !.client[c].fd = "open"] = t
    BY <1>1 DEF States
  <2> HIDE DEF x
  <2>3. /\ y \in ClientType /\ y.el = x.el /\ y.cnx = x.cnx
        /\ y.upload = x.upload /\ y.uid = x.uid /\ y.cmd = x.cmd
        /\ y.on = x.on /\ y.fd = "open" /\ y.told = x.told /\ y.slaveXfer = x.slaveXfer
    BY <1>1 DEF ClientType
  <2> HIDE DEF y
  <2>4. y.on
    BY <2>1, <2>3
  <2>5. Good(t, {}) /\ Ghostless(t, {}) /\ Calm(State, t)
    BY <1>1, <2>3, <2>4, TouchGood DEF x
  <2>6. Become(t)
    BY <1>2, <2>2
  <2> HIDE DEF t
  <2> QED
    BY <2>5, <2>6, BecomeQuiet
<1>3. CASE Become(Cleanup(State, {c}))
  BY <1>3, CleanKeeps
<1> QED
  BY <1>2, <1>3 DEF DataConnect

LEMMA DataWriteKeeps ==
    ASSUME IInv, NEW c \in Clients, DataWrite(c)
    PROVE  IInv' /\ Quiet
<1> DEFINE x == client[c]
           y == [x EXCEPT !.data = "sent"]
           t == [State EXCEPT !.client[c] = y]
<1>1. /\ Good(State, {}) /\ Ghostless(State, {}) /\ State \in States /\ State.client = client
      /\ x \in ClientType
  BY StateFacts
<1>2. CASE Become([State EXCEPT !.client[c].data = "sent"])
  <2>1. x.on /\ x.fd = "open"
    <3>1. Gone.fd = "none"
      BY DEF Gone, Blank
    <3> QED
      BY <1>1, <3>1 DEF DataWrite, Good, Sane
  <2>2. [State EXCEPT !.client[c].data = "sent"] = t
    BY <1>1 DEF States
  <2> HIDE DEF x
  <2>3. /\ y \in ClientType /\ y.el = x.el /\ y.cnx = x.cnx
        /\ y.upload = x.upload /\ y.uid = x.uid /\ y.cmd = x.cmd
        /\ y.on = x.on /\ y.fd = x.fd /\ y.told = x.told /\ y.slaveXfer = x.slaveXfer
    BY <1>1 DEF ClientType
  <2> HIDE DEF y
  <2>4. y.on
    BY <2>1, <2>3
  <2>5. Good(t, {}) /\ Ghostless(t, {}) /\ Calm(State, t)
    BY <1>1, <2>1, <2>3, <2>4, TouchGood DEF x
  <2>6. Become(t)
    BY <1>2, <2>2
  <2> HIDE DEF t
  <2> QED
    BY <2>5, <2>6, BecomeQuiet
<1>3. CASE Become(End(State, c))
  BY <1>3, CleanKeeps
<1> QED
  BY <1>2, <1>3 DEF DataWrite

--------------------------------------------------------------------------------
(* Answers of the slaves.                                                  *)
(* The client has been freed: its command was not.                         *)
LEMMA OrphanedKeeps ==
    ASSUME IInv, NEW k \in cmds, ~client[k.client].on, Become(Orphaned(k))
    PROVE  IInv' /\ Ends({}, {"freed client"}, {"freed client"})
<1> DEFINE t == Orphaned(k)
           c == k.client
<1>1. /\ Good(State, {}) /\ Ghostless(State, {}) /\ State \in States
      /\ State.client = client /\ State.cmds = cmds
  BY StateFacts
<1>2. /\ k \in CommandType /\ c \in Clients
  BY <1>1, NoneFacts DEF States
<1>3. client[c] = Gone
  BY <1>1, <1>2 DEF Good, Sane
<1>4. t = [State EXCEPT !.cmds = @ \ {k}, !.news = @ \cup {"freed client"}]
  BY DEF Orphaned
<1> HIDE DEF t
<1>5. /\ t.client = State.client /\ t.elem = State.elem /\ t.link = State.link
      /\ t.xfers = State.xfers /\ t.cmds = State.cmds \ {k} /\ t.news = State.news \cup {"freed client"}
  BY <1>1, <1>4 DEF States
<1>6. t \in States
  BY <1>1, <1>4 DEF States, NewsType
<1>7. /\ \A d \in Clients : Sane(t.client[d]) /\ Names(t, d) /\ Whole(t, d)
      /\ HeldBy(t) /\ UsedBy(t) /\ Alone(t) /\ Ghostless(t, {})
  <2>1. \A d \in Clients : Sane(t.client[d]) /\ Names(t, d) /\ Whole(t, d)
    BY <1>1, <1>5 DEF Good, Names, Whole
  <2>2. HeldBy(t) /\ UsedBy(t) /\ Alone(t)
    <3>1. HeldBy(State) /\ UsedBy(State) /\ Alone(State)
      BY <1>1 DEF Good
    <3>2. HeldBy(t)
      BY <1>5, <3>1, ZenonT(40) DEF HeldBy
    <3>3. UsedBy(t)
      <4> SUFFICES ASSUME NEW d \in Clients, NEW f \in Files
                   PROVE  /\ t.elem[f].uploader = d <=> t.client[d].el = f /\ t.client[d].upload
                          /\ d \in t.elem[f].leechers <=> t.client[d].el = f /\ ~t.client[d].upload
                          /\ t.client[d].el = f => t.elem[f].exists
        BY DEF UsedBy
      <4>1. t.elem[f] = State.elem[f] /\ t.client[d] = State.client[d]
        BY <1>5
      <4> QED
        BY <3>1, <4>1 DEF UsedBy
    <3>4. Alone(t)
      BY <1>5, <3>1 DEF Alone
    <3> QED
      BY <3>2, <3>3, <3>4
  <2>3. Ghostless(t, {})
    BY <1>1, <1>5 DEF Ghostless
  <2> QED
    BY <2>1, <2>2, <2>3
<1>8. ASSUME ~Pipelining PROVE (\A m \in t.cmds : Owned(t, m)) /\ (\A d \in Clients : Promised(t, d))
  <2>1. \A m \in t.cmds : Owned(t, m)
    <3>1. \A m \in State.cmds : Owned(State, m)
      BY <1>1, <1>8 DEF Good
    <3> QED
      BY <1>5, <3>1 DEF Owned
  <2>2. ASSUME NEW d \in Clients PROVE Promised(t, d)
    <3>1. Promised(State, d)
      BY <1>1, <1>8 DEF Good
    <3>2. client[d].told = "transfer" => client[d].cmd # k
      <4>1. Gone.told = "nothing"
        BY DEF Gone, Blank
      <4> QED
        BY <1>1, <1>2, <1>3, <4>1, NoneFacts DEF Good, Names
    <3> QED
      BY <1>1, <1>5, <3>1, <3>2 DEF Promised
  <2> QED
    BY <2>1, <2>2
<1>9. Good(t, {})
  BY <1>6, <1>7, <1>8 DEF Good
<1>10. Become(t)
  BY DEF t
<1>11. ASSUME Live(State, {}) PROVE Live(t, {})
  <2>1. \A d \in Clients : State.client[d].cmd # None => State.client[d].cmd # k
    <3>1. Gone.cmd = None
      BY DEF Gone, Blank
    <3> QED
      BY <1>1, <1>3, <3>1 DEF Good, Names
  <2> QED
    BY <1>5, <1>11, <2>1 DEF Live
<1>12. Stays(State, t, {}) /\ Says(State, t, {"freed client"})
  BY <1>5 DEF Stays, Says
<1>13. IInv'
  BY <1>7, <1>9, <1>10, BecomeGood
<1> QED
  BY <1>10, <1>11, <1>12, <1>13 DEF Ends

LEMMA ListenAnswerKeeps ==
    ASSUME IInv, NEW k \in cmds, ListenAnswer(k)
    PROVE  /\ IInv'
           /\ \/ Quiet
              \/ ~client[k.client].on /\ Ends({}, {"freed client"}, {"freed client"})
<1> DEFINE s == Answered(State, k)
           c == k.client
           y == [s.client[c] EXCEPT !.ready = TRUE]
           t == [s EXCEPT !.client[c] = y]
<1>1. /\ Good(State, {}) /\ Ghostless(State, {}) /\ State.client = client /\ State.cmds = cmds
  BY StateFacts
<1>2. CASE ~client[c].on
  BY <1>2, OrphanedKeeps DEF ListenAnswer
<1>3. CASE client[c].on
  <2>1. /\ c \in Clients /\ Good(s, {c}) /\ Good(s, {}) /\ Ghostless(s, {}) /\ s.client[c].on
        /\ Calm(State, s)
    BY <1>1, <1>3, AnsweredGood, AnsweredCalm DEF ListenAnswer
  <2>2. Become([s EXCEPT !.client[c].ready = TRUE]) \/ Become(End(s, c))
    BY <1>3 DEF ListenAnswer
  <2> HIDE DEF s, c
  <2>3. s \in States /\ s.client[c] \in ClientType /\ Sane(s.client[c])
    BY <2>1 DEF Good, States
  <2>4. [s EXCEPT !.client[c].ready = TRUE] = t
    BY <2>1, <2>3 DEF States
  <2>5. /\ y \in ClientType /\ y.el = s.client[c].el /\ y.cnx = s.client[c].cnx
        /\ y.upload = s.client[c].upload /\ y.uid = s.client[c].uid /\ y.cmd = s.client[c].cmd
        /\ y.on = s.client[c].on /\ y.fd = s.client[c].fd /\ y.passive = s.client[c].passive
        /\ y.told = s.client[c].told /\ y.slaveXfer = s.client[c].slaveXfer
    BY <2>3 DEF ClientType
  <2> HIDE DEF y
  <2>6. y.on /\ (y.fd = "listening" => y.passive) /\ (y.fd = "connecting" => ~y.passive)
    BY <2>1, <2>3, <2>5 DEF Sane
  <2>7. Good(t, {}) /\ Ghostless(t, {}) /\ Calm(s, t)
    BY <2>1, <2>5, <2>6, TouchGood
  <2>8. CASE Become(t)
    <3> HIDE DEF t
    <3> QED
      BY <2>1, <2>7, <2>8, CalmTwice, BecomeQuiet
  <2>9. CASE Become(End(s, c))
    BY <2>1, <2>9, EndGood, EndCalm, CalmTwice, BecomeQuiet
  <2> QED
    BY <2>2, <2>4, <2>8, <2>9
<1> QED
  BY <1>2, <1>3

(* 226: the element is let go of, and has a place if it was an upload.     *)
LEMMA CompletedGood ==
    ASSUME NEW s, NEW c \in Clients, NEW x \in Slaves, Good(s, {c}), Ghostless(s, {}),
           s.client[c].el # None
    PROVE  LET r == Completed(s, c, x)  f == s.client[c].el
           IN  /\ Good(r, {}) /\ Ghostless(r, {}) /\ Stays(s, r, {})
               /\ f \in Files /\ r.elem[f].exists /\ r.elem[f].uploader = None
               /\ c \notin r.elem[f].leechers
               /\ Says(s, r, {"freed command", c})
               /\ Live(s, {}) => Live(r, {}) /\ r.news = s.news \cup {c}
<1> DEFINE f == s.client[c].el
           at == At(s, f, c, x)
           e == [s.elem[f] EXCEPT !.at = at, !.leechers = @ \ {c},
                                  !.uploader = IF @ = c THEN None ELSE @]
           y == [s.client[c] EXCEPT !.el = None]
           t == [s EXCEPT !.elem[f] = e, !.client[c].el = None, !.news = @ \cup {c}]
<1>1. /\ s \in States /\ s.client[c] \in ClientType /\ Sane(s.client[c]) /\ Names(s, c)
      /\ f \in Files
  BY DEF Good, States, ClientType
<1>2. s.elem[f] \in ElementType /\ s.elem[f].exists
  BY <1>1 DEF Good, UsedBy, States
<1>3. /\ at \subseteq Slaves
      /\ s.client[c].upload => at # {}
      /\ ~s.client[c].upload => at = s.elem[f].at
  BY <1>2 DEF At, ElementType
<1> HIDE DEF at
<1>4. /\ e \in ElementType /\ e.exists /\ e.at = at
      /\ e.leechers = s.elem[f].leechers \ {c}
      /\ e.uploader = IF s.elem[f].uploader = c THEN None ELSE s.elem[f].uploader
  BY <1>2, <1>3 DEF ElementType
<1>5. /\ y \in ClientType /\ y.el = None /\ y.cnx = s.client[c].cnx
      /\ y.upload = s.client[c].upload /\ y.uid = s.client[c].uid /\ y.cmd = s.client[c].cmd
      /\ y.on = s.client[c].on /\ y.fd = s.client[c].fd /\ y.passive = s.client[c].passive
      /\ y.told = s.client[c].told
  BY <1>1 DEF ClientType
<1>6. t = [s EXCEPT !.elem[f] = e, !.client[c] = y, !.news = @ \cup {c}]
  <2> HIDE DEF e
  <2> QED
    BY <1>1 DEF States
<1>7. Completed(s, c, x) = Cleanup(t, {c})
  BY DEF Completed, at
<1> HIDE DEF t, e, y
<1>8. t \in States
  BY <1>1, <1>4, <1>5, <1>6 DEF States, NewsType
<1>9. /\ t.link = s.link /\ t.cmds = s.cmds /\ t.xfers = s.xfers
      /\ t.client[c] = y /\ \A d \in Clients : d # c => t.client[d] = s.client[d]
      /\ t.elem[f] = e /\ \A g \in Files : g # f => t.elem[g] = s.elem[g]
  <2> HIDE DEF f
  <2> QED
    BY <1>1, <1>6 DEF States
<1>10. Sane(y)
  <2>1. s.client[c] # Gone
    <3>1. Gone.el = None
      BY DEF Gone, Blank
    <3> QED
      BY <3>1
  <2> QED
    BY <1>1, <1>5, <2>1 DEF Sane
<1>11. \A d \in Clients : Sane(t.client[d]) /\ Names(t, d)
  BY <1>5, <1>9, <1>10 DEF Good, Names
<1>12. HeldBy(t)
  BY <1>5, <1>9 DEF Good, HeldBy
<1>13. UsedBy(t)
  <2> SUFFICES ASSUME NEW d \in Clients, NEW g \in Files
               PROVE  /\ t.elem[g].uploader = d <=> t.client[d].el = g /\ t.client[d].upload
                      /\ d \in t.elem[g].leechers <=> t.client[d].el = g /\ ~t.client[d].upload
                      /\ t.client[d].el = g => t.elem[g].exists
    BY DEF UsedBy
  <2>1. /\ s.elem[g].uploader = d <=> s.client[d].el = g /\ s.client[d].upload
        /\ d \in s.elem[g].leechers <=> s.client[d].el = g /\ ~s.client[d].upload
        /\ s.client[d].el = g => s.elem[g].exists
    BY DEF Good, UsedBy
  <2> HIDE DEF f
  <2>2. CASE d = c
    <3>1. s.client[c].el = f
      BY DEF f
    <3>2. CASE g = f
      BY <1>4, <1>5, <1>9, <2>1, <2>2, <3>2, NoneFacts
    <3>3. CASE g # f
      BY <1>5, <1>9, <2>1, <2>2, <3>1, <3>3, NoneFacts
    <3> QED
      BY <3>2, <3>3
  <2>3. CASE d # c
    <3>1. CASE g = f
      BY <1>2, <1>4, <1>9, <2>1, <2>3, <3>1, NoneFacts
    <3>2. CASE g # f
      BY <1>9, <2>1, <2>3, <3>2
    <3> QED
      BY <3>1, <3>2
  <2> QED
    BY <2>2, <2>3
<1>14. Alone(t)
  <2> HIDE DEF f
  <2> QED
    BY <1>4, <1>9, NoneFacts DEF Good, Alone
<1>15. \A d \in Clients \ {c} : Whole(t, d)
  BY <1>9 DEF Good, Whole
<1>16. ASSUME ~Pipelining
       PROVE  (\A k \in t.cmds : Owned(t, k)) /\ (\A d \in Clients \ {c} : Promised(t, d))
  <2>1. \A k \in s.cmds : k.client \in Clients /\ Owned(s, k)
    BY <1>1, <1>16 DEF Good, States, CommandType
  <2>2. \A k \in t.cmds : Owned(t, k)
    BY <1>5, <1>9, <2>1 DEF Owned
  <2>3. \A d \in Clients \ {c} : Promised(t, d)
    BY <1>9, <1>16 DEF Good, Promised
  <2> QED
    BY <2>2, <2>3
<1>17. Good(t, {c})
  BY <1>8, <1>11, <1>12, <1>13, <1>14, <1>15, <1>16 DEF Good
<1>18. Ghostless(t, {})
  <2>1. at # {}
    <3>1. ASSUME ~s.client[c].upload PROVE s.elem[f].at # {}
      <4>1. c \in s.elem[f].leechers
        BY <1>1, <3>1 DEF Good, UsedBy
      <4>2. s.elem[f].uploader = None
        BY <1>1, <4>1 DEF Good, Alone
      <4> QED
        BY <1>1, <1>2, <4>2 DEF Ghostless
    <3> QED
      BY <1>3, <3>1
  <2> HIDE DEF f
  <2> QED
    BY <1>4, <1>9, <2>1 DEF Ghostless
<1> DEFINE r == Cleanup(t, {c})
<1>19. Good(r, {}) /\ Ghostless(r, {}) /\ Calm(t, r) /\ r.client[c] = Reset(t.client[c])
  BY <1>17, <1>18, CleanupGood, CleanupCalm
<1> HIDE DEF r
<1>20. t.elem[f].exists /\ t.elem[f].uploader = None
  <2>1. s.client[c].upload => s.elem[f].uploader = c
    BY <1>1 DEF Good, UsedBy
  <2>2. ~s.client[c].upload => c \in s.elem[f].leechers
    BY <1>1 DEF Good, UsedBy
  <2>3. ~s.client[c].upload => s.elem[f].uploader = None
    BY <1>1, <2>2 DEF Good, Alone
  <2> HIDE DEF f
  <2> QED
    BY <1>4, <1>9, <2>1, <2>3
<1>21. f \in Files /\ r.elem[f].exists /\ r.elem[f].uploader = None
  <2> HIDE DEF f
  <2> QED
    BY <1>1, <1>19, <1>20 DEF Calm, Stays
<1>22. c \notin r.elem[f].leechers
  <2>1. r.client[c].el = None
    BY <1>5, <1>9, <1>19, ResetFacts
  <2> HIDE DEF f
  <2> QED
    BY <1>1, <1>19, <2>1, NoneFacts DEF Good, UsedBy
<1>23. Stays(s, r, {})
  <2> HIDE DEF f
  <2> QED
    BY <1>9, <1>19, <1>20 DEF Calm, Stays
<1>24. t.news = s.news \cup {c}
  BY <1>1, <1>6 DEF States
<1>25. Says(s, r, {"freed command", c})
  BY <1>19, <1>24 DEF Calm, Says
<1>26. ASSUME Live(s, {}) PROVE Live(r, {}) /\ r.news = s.news \cup {c}
  <2>1. Live(t, {})
    BY <1>5, <1>9, <1>26 DEF Live
  <2> QED
    BY <1>19, <1>24, <2>1 DEF Calm
<1> QED
  BY <1>7, <1>19, <1>21, <1>22, <1>23, <1>25, <1>26 DEF r, f

(* A client that uploads outlives what it uploads.                         *)
LEMMA UploaderStays ==
    ASSUME NEW s, NEW C \in SUBSET Clients, Good(s, C), NEW c \in Clients, NEW F \in SUBSET Files,
           s.client[c].on, s.client[c].upload
    PROVE  DeleteElements(s, F).client[c].on
<1> DEFINE up   == {s.elem[f].uploader : f \in F} \ {None}
           down == UNION {s.elem[f].leechers : f \in F}
           D    == up \cup down
           d    == Detach(s, D)
           t    == DeleteElements(s, F)
<1>1. s \in States /\ s.client[c] \in ClientType /\ \A f \in Files : s.elem[f] \in ElementType
  BY DEF Good, States
<1>2. c \notin down
  BY DEF Good, UsedBy
<1>3. D \in SUBSET Clients
  BY <1>1 DEF ElementType
<1>4. t = [d EXCEPT !.elem = [f \in Files |-> IF f \in F THEN NoElement ELSE @[f]],
                    !.client = [e \in Clients |-> IF e \in down THEN Gone ELSE @[e]]]
  BY DEF DeleteElements
<1> HIDE DEF t, down, D
<1>5. d \in States /\ d.client[c] \in {s.client[c], Reset(s.client[c])}
  <2>1. d \in States /\ d.client = [e \in Clients |-> IF e \in D THEN Reset(s.client[e]) ELSE s.client[e]]
    BY <1>1, <1>3, DetachFields
  <2> HIDE DEF d
  <2> QED
    BY <2>1
<1> HIDE DEF d
<1>6. t.client[c] = d.client[c]
  BY <1>2, <1>4, <1>5 DEF States
<1> QED
  BY <1>1, <1>5, <1>6, ResetFacts DEF t

(* A script refuses the transfer: the element is wiped.                    *)
LEMMA RefusedGood ==
    ASSUME NEW s, NEW c \in Clients, Good(s, {c}), Ghostless(s, {}), s.client[c].el # None
    PROVE  LET r == Refused(s, c)
           IN  /\ Good(r, {}) /\ Ghostless(r, {})
               /\ r.cmds \subseteq s.cmds /\ Stays(s, r, {s.client[c].el})
               /\ Says(s, r, {"freed command", "freed client"})
               /\ s.client[c].on /\ s.client[c].upload => Says(s, r, {"freed command"})
               /\ Live(s, {}) => Live(r, {}) /\ Says(s, r, {"freed client"})
<1> DEFINE F == {s.client[c].el}
           t == DeleteElements(s, F)
           r == [t EXCEPT !.news = @ \cup {"freed client"}]
<1>1. F \in SUBSET Files /\ \A d \in {c} : s.client[d].el \in F
  BY DEF Good, States, ClientType
<1>2. Refused(s, c) = t \/ Refused(s, c) = r
  BY DEF Refused
<1> HIDE DEF F
<1>0. s \in States /\ \A d \in Clients : Names(s, d)
  BY DEF Good
<1>3. Good(t, {}) /\ Ghostless(t, {} \ F) /\ t.cmds \subseteq s.cmds
  BY <1>1, DeleteElementsGood
<1>10. /\ Stays(s, t, F) /\ Says(s, t, {"freed command"})
       /\ Live(s, {}) => Live(t, {}) /\ t.news = s.news
  BY <1>0, <1>1, DeleteElementsCalm
<1>11. s.client[c].on /\ s.client[c].upload => Refused(s, c) = t
  BY <1>1, UploaderStays DEF Refused, F
<1>4. {} \ F = {}
  OBVIOUS
<1>5. Good(t, {}) /\ Ghostless(t, {})
  BY <1>3, <1>4
<1> HIDE DEF t
<1>6. t \in States
  BY <1>5 DEF Good
<1>7. r \in States
  BY <1>6 DEF States, NewsType
<1>8. /\ r.client = t.client /\ r.elem = t.elem /\ r.link = t.link /\ r.xfers = t.xfers
      /\ r.cmds = t.cmds
  BY <1>6 DEF States
<1>14. r.news = t.news \cup {"freed client"}
  BY <1>6 DEF States
<1> HIDE DEF r
<1>9. Good(r, {}) /\ Ghostless(r, {})
  BY <1>5, <1>7, <1>8 DEF Good, Names, HeldBy, UsedBy, Alone, Whole, Owned, Promised, Ghostless
<1>12. CASE Refused(s, c) = t
  BY <1>3, <1>5, <1>10, <1>12 DEF F, Says
<1>13. CASE Refused(s, c) = r /\ r # t
  <2>1. ~(s.client[c].on /\ s.client[c].upload)
    BY <1>11, <1>13
  <2>2. r.cmds \subseteq s.cmds /\ Stays(s, r, {s.client[c].el})
    BY <1>3, <1>8, <1>10 DEF F, Stays
  <2>3. Says(s, r, {"freed command", "freed client"})
    BY <1>10, <1>14 DEF Says
  <2>4. Live(s, {}) => Live(r, {}) /\ Says(s, r, {"freed client"})
    BY <1>8, <1>10, <1>14 DEF Live, Says
  <2> QED
    BY <1>9, <1>13, <2>1, <2>2, <2>3, <2>4
<1> QED
  BY <1>2, <1>12, <1>13

(* The transfer has gone well: what the client finds.                      *)
Delivered(c) ==
    LET f == client[c].el
    IN  /\ Ends({}, {"freed command", c}, {c})
        /\ f \in Files /\ elem'[f].exists /\ elem'[f].uploader = None
        /\ c \notin elem'[f].leechers
(* A script has refused it.                                                *)
Wiped(k) ==
    LET c == k.client
    IN  /\ client[c].on /\ k \notin cmds'
        /\ Ends({client[c].el}, {"freed command", "freed client"}, {"freed client"})
        /\ client[c].upload => client[c].el \in Files /\ elem[client[c].el].uploader = c
                               /\ "freed client" \notin news'
        /\ Refusals \/ client[c].upload

LEMMA TransferAnswerKeeps ==
    ASSUME IInv, NEW k \in cmds, TransferAnswer(k)
    PROVE  /\ IInv'
           /\ \/ Quiet
              \/ ~client[k.client].on /\ Ends({}, {"freed client"}, {"freed client"})
              \/ k.client \in Clients /\ Delivered(k.client)
              \/ Wiped(k)
<1> DEFINE s == Answered(State, k)
           c == k.client
<1>1. /\ Good(State, {}) /\ Ghostless(State, {}) /\ State.client = client /\ State.cmds = cmds
      /\ State \in States /\ State.elem = elem /\ State.news = {}
  BY StateFacts DEF State
<1>2. CASE ~client[c].on
  BY <1>2, OrphanedKeeps DEF TransferAnswer
<1>3. CASE client[c].on
  <2>1. /\ c \in Clients /\ Good(s, {c}) /\ Ghostless(s, {}) /\ s.client[c].on
        /\ s.client[c].el = client[c].el /\ s.client[c].upload = client[c].upload
        /\ Calm(State, s)
    BY <1>1, <1>3, AnsweredGood, AnsweredCalm
  <2>2. k.cnx \in Slaves
    BY <1>1, NoneFacts DEF States
  <2>3. \/ Become(Cleanup(s, {c}))
        \/ /\ s.client[c].el # None
           /\ \/ Become(Completed(s, c, k.cnx))
              \/ (Refusals \/ s.client[c].upload) /\ Become(Refused(s, c))
    BY <1>3 DEF TransferAnswer
  <2>4. k \notin s.cmds
    BY <1>1 DEF Answered, States
  <2> HIDE DEF s, c
  <2>5. CASE Become(Cleanup(s, {c}))
    <3> DEFINE r == Cleanup(s, {c})
    <3>1. Good(r, {}) /\ Ghostless(r, {}) /\ Calm(s, r)
      BY <2>1, CleanupGood, CleanupCalm
    <3>2. Become(r)
      BY <2>5
    <3> HIDE DEF r
    <3>3. Calm(State, r)
      BY <2>1, <3>1, CalmTwice
    <3> QED
      BY <3>1, <3>2, <3>3, BecomeQuiet
  <2>6. CASE s.client[c].el # None /\ Become(Completed(s, c, k.cnx))
    <3> DEFINE r == Completed(s, c, k.cnx)
               f == s.client[c].el
    <3>1. /\ Good(r, {}) /\ Ghostless(r, {}) /\ Stays(s, r, {})
          /\ f \in Files /\ r.elem[f].exists /\ r.elem[f].uploader = None
          /\ c \notin r.elem[f].leechers
          /\ Says(s, r, {"freed command", c})
          /\ Live(s, {}) => Live(r, {}) /\ r.news = s.news \cup {c}
      <4>1. Good(s, {c}) /\ Ghostless(s, {}) /\ s.client[c].el # None /\ c \in Clients
        BY <2>1, <2>6
      <4> QED
        BY <2>2, <4>1, CompletedGood
    <3>2. Become(r) /\ f = client[c].el
      BY <2>1, <2>6
    <3> HIDE DEF r, f
    <3>3. IInv' /\ elem' = r.elem
      BY <3>1, <3>2, BecomeGood DEF Become
    <3>4. Stays(State, r, {})
      BY <2>1, <3>1 DEF Calm, Stays
    <3>5. Says(State, r, {"freed command", c})
      BY <2>1, <3>1 DEF Calm, Says
    <3>6. Live(State, {}) => Live(r, {}) /\ Says(State, r, {c})
      BY <2>1, <3>1 DEF Calm, Says
    <3>7. Ends({}, {"freed command", c}, {c})
      BY <3>2, <3>4, <3>5, <3>6 DEF Ends
    <3> QED
      BY <2>1, <3>1, <3>2, <3>3, <3>7 DEF Delivered, c
  <2>7. CASE /\ s.client[c].el # None /\ (Refusals \/ s.client[c].upload)
             /\ Become(Refused(s, c))
    <3> DEFINE r == Refused(s, c)
               f == s.client[c].el
    <3>1. /\ Good(r, {}) /\ Ghostless(r, {})
          /\ r.cmds \subseteq s.cmds /\ Stays(s, r, {f})
          /\ Says(s, r, {"freed command", "freed client"})
          /\ s.client[c].on /\ s.client[c].upload => Says(s, r, {"freed command"})
          /\ Live(s, {}) => Live(r, {}) /\ Says(s, r, {"freed client"})
      BY <2>1, <2>7, RefusedGood
    <3>2. Become(r) /\ f = client[c].el /\ (Refusals \/ client[c].upload)
      BY <2>1, <2>7
    <3> HIDE DEF r, f
    <3>3. IInv' /\ cmds' = r.cmds /\ news' = r.news
      BY <3>1, <3>2, BecomeGood DEF Become
    <3>4. Stays(State, r, {f})
      BY <2>1, <3>1 DEF Calm, Stays
    <3>5. Says(State, r, {"freed command", "freed client"})
      BY <2>1, <3>1 DEF Calm, Says
    <3>6. Live(State, {}) => Live(r, {}) /\ Says(State, r, {"freed client"})
      BY <2>1, <3>1 DEF Calm, Says
    <3>7. Ends({f}, {"freed command", "freed client"}, {"freed client"})
      BY <3>2, <3>4, <3>5, <3>6 DEF Ends
    <3>8. client[c].upload => f \in Files /\ elem[f].uploader = c
      <4>1. client[c].el # None /\ client[c] \in ClientType
        BY <1>1, <2>1, <2>7 DEF States
      <4>2. f \in Files
        BY <3>2, <4>1 DEF ClientType
      <4> QED
        BY <1>1, <2>1, <3>2, <4>2 DEF Good, UsedBy
    <3>9. client[c].upload => "freed client" \notin news'
      <4>1. client[c].upload => Says(s, r, {"freed command"})
        BY <2>1, <3>1
      <4> QED
        BY <1>1, <2>1, <3>3, <4>1 DEF Calm, Says
    <3> QED
      BY <1>3, <2>4, <3>1, <3>2, <3>3, <3>7, <3>8, <3>9 DEF Wiped, c
  <2> QED
    BY <2>3, <2>5, <2>6, <2>7
<1> QED
  BY <1>2, <1>3

--------------------------------------------------------------------------------
(* The slaves.                                                             *)
(* The commands of a connection go first, then the clients that use it.    *)
LEMMA SlaveLostKeeps ==
    ASSUME IInv, NEW x \in Slaves, SlaveLost(x)
    PROVE  /\ IInv' /\ Ends({}, {"freed command"}, {"freed command"})
           /\ link'[x] = "down"
<1> DEFINE C == xfers[x]
           s == [State EXCEPT !.cmds = {k \in @ : k.cnx # x}, !.link[x] = "down"]
           t == Destroy(s, C)
<1>1. /\ Good(State, {}) /\ Ghostless(State, {}) /\ State \in States
      /\ State.xfers = xfers
  BY StateFacts
<1>2. C \in SUBSET Clients
  BY <1>1 DEF States
<1>3. s \in States
  BY <1>1 DEF States
<1>4. /\ s.client = State.client /\ s.elem = State.elem /\ s.xfers = State.xfers
      /\ s.cmds = {k \in State.cmds : k.cnx # x} /\ s.news = State.news
      /\ s.link[x] = "down" /\ \A y \in Slaves : y # x => s.link[y] = State.link[y]
  BY <1>1 DEF States
<1>5. Become(t)
  BY DEF SlaveLost
<1> HIDE DEF s, t
<1>6. HeldBy(State) /\ UsedBy(State) /\ Alone(State)
  BY <1>1 DEF Good
<1>7. \A d \in Clients : /\ s.client[d] = State.client[d]
                         /\ d \notin C => State.client[d].cnx # x
  BY <1>1, <1>4, <1>6 DEF HeldBy
<1>8. \A d \in Clients : Sane(s.client[d]) /\ Names(s, d)
  BY <1>1, <1>7 DEF Good, Names
<1>9. HeldBy(s)
  BY <1>4, <1>6 DEF HeldBy
<1>10. UsedBy(s)
  <2> SUFFICES ASSUME NEW d \in Clients, NEW f \in Files
               PROVE  /\ s.elem[f].uploader = d <=> s.client[d].el = f /\ s.client[d].upload
                      /\ d \in s.elem[f].leechers <=> s.client[d].el = f /\ ~s.client[d].upload
                      /\ s.client[d].el = f => s.elem[f].exists
    BY DEF UsedBy
  <2>1. s.elem[f] = State.elem[f] /\ s.client[d] = State.client[d]
    BY <1>4
  <2> QED
    BY <1>6, <2>1 DEF UsedBy
<1>11. Alone(s) /\ Ghostless(s, {})
  BY <1>1, <1>4, <1>6 DEF Alone, Ghostless
<1>12. \A d \in Clients \ C : Whole(s, d)
  <2> SUFFICES ASSUME NEW d \in Clients \ C PROVE Whole(s, d)
    OBVIOUS
  <2>1. /\ Whole(State, d) /\ s.client[d] = State.client[d] /\ State.client[d].cnx # x
        /\ State.client[d] \in ClientType
    BY <1>1, <1>7 DEF Good, States
  <2>2. State.client[d].cnx # None => State.client[d].cnx \in Slaves
    BY <2>1 DEF ClientType
  <2> QED
    BY <1>4, <2>1, <2>2 DEF Whole
<1>13. ASSUME ~Pipelining
       PROVE  (\A k \in s.cmds : Owned(s, k)) /\ (\A d \in Clients \ C : Promised(s, d))
  <2>1. \A k \in State.cmds : k \in CommandType /\ k.client \in Clients /\ Owned(State, k)
    BY <1>1, <1>13, NoneFacts DEF Good, States
  <2>2. \A k \in s.cmds : Owned(s, k)
    BY <1>4, <1>7, <2>1 DEF Owned
  <2>3. ASSUME NEW d \in Clients \ C, s.client[d].told = "transfer"
        PROVE  s.client[d].cmd \in s.cmds /\ s.client[d].cmd.kind = "TRANSFER"
    <3> DEFINE k == State.client[d].cmd
    <3>1. k \in State.cmds /\ k.kind = "TRANSFER" /\ s.client[d] = State.client[d]
      BY <1>1, <1>7, <1>13, <2>3 DEF Good, Promised
    <3>2. k.client = d
      BY <1>1, <2>1, <3>1, NoneFacts DEF Good, Names
    <3>3. k.cnx # x
      BY <1>7, <2>1, <3>1, <3>2 DEF Owned
    <3> QED
      BY <1>4, <3>1, <3>3
  <2> QED
    BY <2>2, <2>3 DEF Promised
<1>14. Good(s, C)
  BY <1>3, <1>8, <1>9, <1>10, <1>11, <1>12, <1>13 DEF Good
<1>15. /\ Good(t, {}) /\ Ghostless(t, {}) /\ t.link = s.link
       /\ Calm(s, t) /\ (Live(s, C) => Live(t, {}))
  BY <1>2, <1>11, <1>14, DestroyGood, DestroyCalm DEF t
<1>16. Live(State, {}) => Live(s, C)
  BY <1>4, <1>7 DEF Live
<1>17. Stays(State, t, {}) /\ Says(State, t, {"freed command"})
  BY <1>4, <1>15 DEF Calm, Stays, Says
<1>18. IInv' /\ link'[x] = "down"
  BY <1>4, <1>5, <1>15, BecomeGood DEF Become
<1> QED
  BY <1>5, <1>15, <1>16, <1>17, <1>18 DEF Ends

(* What only the slave had and has no more goes; what it has is there.     *)
LEMMA SlaveMergedKeeps ==
    ASSUME IInv, NEW x \in Slaves, NEW F \in SUBSET Files, SlaveMerged(x, F)
    PROVE  IInv' /\ Ends(Files, {"freed command"}, {})
<1> DEFINE D == {f \in Files \ F : elem[f].at = {x}}
           s == DeleteElements(State, D)
           e(f) == IF f \in F THEN [s.elem[f] EXCEPT !.exists = TRUE, !.at = @ \cup {x}]
                              ELSE [s.elem[f] EXCEPT !.at = @ \ {x}]
           t == [s EXCEPT !.link[x] = "connecting", !.elem = [f \in Files |-> e(f)]]
<1>1. /\ Good(State, {}) /\ Ghostless(State, {}) /\ State \in States
      /\ State.elem = elem /\ State.link = link
      /\ \A c \in {} : State.client[c].el \in D
  BY StateFacts
<1>2. D \in SUBSET Files
  OBVIOUS
<1>3. /\ Good(s, {}) /\ s.link = State.link
      /\ \A c \in Clients : s.client[c] \in {State.client[c], Reset(State.client[c]), Gone}
      /\ \A f \in Files : s.elem[f] = IF f \in D THEN NoElement ELSE State.elem[f]
      /\ \A G : Ghostless(State, G) => Ghostless(s, G \ D)
  <2> HIDE DEF D
  <2> QED
    BY <1>1, <1>2, DeleteElementsGood
<1>20. /\ Says(State, s, {"freed command"})
       /\ Live(State, {}) => Live(s, {}) /\ s.news = State.news
  <2> HIDE DEF D
  <2>1. \A c \in Clients : Names(State, c)
    BY <1>1 DEF Good
  <2> QED
    BY <1>1, <1>2, <2>1, DeleteElementsCalm
<1>4. Ghostless(s, {})
  <2>1. {} \ D = {}
    OBVIOUS
  <2> QED
    BY <1>1, <1>3, <2>1
<1>5. link[x] = "down" /\ Become(t)
  BY Zenon DEF SlaveMerged
<1>6. \A f \in Files : f \notin F => s.elem[f].at # {x}
  <2>1. NoElement.at = {}
    BY DEF NoElement, NewElement
  <2> QED
    BY <1>1, <1>3, <2>1
<1> HIDE DEF s, D
<1>7. s \in States
  BY <1>3 DEF Good
<1>8. \A f \in Files : /\ e(f) \in ElementType /\ e(f).uploader = s.elem[f].uploader
                       /\ e(f).leechers = s.elem[f].leechers
                       /\ s.elem[f].exists => e(f).exists
                       /\ f \in F => e(f).at # {}
                       /\ f \notin F => e(f).exists = s.elem[f].exists
                                        /\ e(f).at = s.elem[f].at \ {x}
  <2> SUFFICES ASSUME NEW f \in Files
               PROVE  /\ e(f) \in ElementType /\ e(f).uploader = s.elem[f].uploader
                      /\ e(f).leechers = s.elem[f].leechers
                      /\ s.elem[f].exists => e(f).exists
                      /\ f \in F => e(f).at # {}
                      /\ f \notin F => e(f).exists = s.elem[f].exists
                                       /\ e(f).at = s.elem[f].at \ {x}
    OBVIOUS
  <2>1. s.elem[f] \in ElementType
    BY <1>7 DEF States
  <2>2. CASE f \in F
    BY <2>1, <2>2 DEF ElementType
  <2>3. CASE f \notin F
    BY <2>1, <2>3 DEF ElementType
  <2> QED
    BY <2>2, <2>3
<1> HIDE DEF e
<1>9. t \in States
  BY <1>7, <1>8 DEF States
<1>10. /\ t.client = s.client /\ t.xfers = s.xfers /\ t.cmds = s.cmds
       /\ \A f \in Files : t.elem[f] = e(f)
       /\ \A y \in Slaves : y # x => t.link[y] = s.link[y]
  BY <1>7 DEF States
<1>21. t.news = s.news
  BY <1>7 DEF States
<1> HIDE DEF t
<1>11. \A c \in Clients : s.client[c].cnx # x
  <2> SUFFICES ASSUME NEW c \in Clients, s.client[c].cnx = x PROVE FALSE
    OBVIOUS
  <2>1. Whole(s, c)
    BY <1>3 DEF Good
  <2>2. s.link[x] = "ready"
    BY <2>1, NoneFacts DEF Whole
  <2> QED
    BY <1>1, <1>3, <1>5, <2>2
<1>12. \A c \in Clients : Sane(t.client[c]) /\ Names(t, c)
  BY <1>3, <1>10 DEF Good, Names
<1>13. HeldBy(t)
  BY <1>3, <1>10 DEF Good, HeldBy
<1>14. UsedBy(t)
  <2> SUFFICES ASSUME NEW d \in Clients, NEW f \in Files
               PROVE  /\ t.elem[f].uploader = d <=> t.client[d].el = f /\ t.client[d].upload
                      /\ d \in t.elem[f].leechers <=> t.client[d].el = f /\ ~t.client[d].upload
                      /\ t.client[d].el = f => t.elem[f].exists
    BY DEF UsedBy
  <2>1. /\ s.elem[f].uploader = d <=> s.client[d].el = f /\ s.client[d].upload
        /\ d \in s.elem[f].leechers <=> s.client[d].el = f /\ ~s.client[d].upload
        /\ s.client[d].el = f => s.elem[f].exists
    BY <1>3 DEF Good, UsedBy
  <2>2. t.client[d] = s.client[d]
    BY <1>10
  <2> QED
    BY <1>8, <1>10, <2>1, <2>2
<1>15. Alone(t)
  BY <1>3, <1>8, <1>10 DEF Good, Alone
<1>16. \A c \in Clients : Whole(t, c)
  <2> SUFFICES ASSUME NEW c \in Clients PROVE Whole(t, c)
    OBVIOUS
  <2>1. Whole(s, c) /\ t.client[c] = s.client[c] /\ s.client[c] \in ClientType
    BY <1>3, <1>7, <1>10 DEF Good, States
  <2>2. s.client[c].cnx # None => s.client[c].cnx \in Slaves
    BY <2>1 DEF ClientType
  <2> QED
    BY <1>10, <1>11, <2>1, <2>2 DEF Whole
<1>17. ASSUME ~Pipelining PROVE (\A k \in t.cmds : Owned(t, k)) /\ (\A c \in Clients : Promised(t, c))
  BY <1>3, <1>10, <1>17 DEF Good, Owned, Promised
<1>18. Good(t, {})
  BY <1>9, <1>12, <1>13, <1>14, <1>15, <1>16, <1>17 DEF Good
<1>19. Ghostless(t, {})
  <2> SUFFICES ASSUME NEW f \in Files, t.elem[f].exists
               PROVE  t.elem[f].uploader # None \/ t.elem[f].at # {}
    BY DEF Ghostless
  <2>1. CASE f \in F
    BY <1>8, <1>10, <2>1
  <2>2. CASE f \notin F
    <3>1. s.elem[f].uploader # None \/ s.elem[f].at # {}
      BY <1>4, <1>8, <1>10, <2>2 DEF Ghostless
    <3> QED
      BY <1>6, <1>8, <1>10, <2>2, <3>1
  <2> QED
    BY <2>1, <2>2
<1>22. Live(s, {}) => Live(t, {})
  BY <1>10 DEF Live
<1>23. Stays(State, t, Files) /\ Says(State, t, {"freed command"})
  BY <1>20, <1>21 DEF Stays, Says
<1>24. Live(State, {}) => Live(t, {}) /\ Says(State, t, {})
  BY <1>20, <1>21, <1>22 DEF Says
<1>25. IInv'
  BY <1>5, <1>18, <1>19, BecomeGood
<1> QED
  BY <1>5, <1>23, <1>24, <1>25 DEF Ends

LEMMA SlaveReadyKeeps ==
    ASSUME IInv, NEW x \in Slaves, SlaveReady(x)
    PROVE  IInv' /\ Quiet
<1> DEFINE t == [State EXCEPT !.link[x] = "ready"]
<1>1. Good(State, {}) /\ Ghostless(State, {}) /\ State \in States
  BY StateFacts
<1>2. /\ t \in States
      /\ t.client = State.client /\ t.elem = State.elem /\ t.xfers = State.xfers
      /\ t.cmds = State.cmds /\ t.news = State.news
      /\ t.link[x] = "ready" /\ \A y \in Slaves : y # x => t.link[y] = State.link[y]
  BY <1>1 DEF States
<1>3. Become(t)
  BY DEF SlaveReady
<1> HIDE DEF t
<1>4. HeldBy(t) /\ Alone(t) /\ Ghostless(t, {})
  BY <1>1, <1>2 DEF Good, HeldBy, Alone, Ghostless
<1>5. UsedBy(t)
  <2> SUFFICES ASSUME NEW d \in Clients, NEW f \in Files
               PROVE  /\ t.elem[f].uploader = d <=> t.client[d].el = f /\ t.client[d].upload
                      /\ d \in t.elem[f].leechers <=> t.client[d].el = f /\ ~t.client[d].upload
                      /\ t.client[d].el = f => t.elem[f].exists
    BY DEF UsedBy
  <2>1. t.elem[f] = State.elem[f] /\ t.client[d] = State.client[d]
    BY <1>2
  <2> QED
    BY <1>1, <2>1 DEF Good, UsedBy
<1>6. \A c \in Clients : Sane(t.client[c]) /\ Names(t, c)
  BY <1>1, <1>2 DEF Good, Names
<1>7. \A c \in Clients : Whole(t, c)
  <2> SUFFICES ASSUME NEW c \in Clients PROVE Whole(t, c)
    OBVIOUS
  <2>1. Whole(State, c) /\ t.client[c] = State.client[c] /\ State.client[c] \in ClientType
    BY <1>1, <1>2 DEF Good, States
  <2>2. State.client[c].cnx # None => State.client[c].cnx \in Slaves
    BY <2>1 DEF ClientType
  <2> QED
    BY <1>2, <2>1, <2>2 DEF Whole
<1>8. ASSUME ~Pipelining PROVE (\A k \in t.cmds : Owned(t, k)) /\ (\A c \in Clients : Promised(t, c))
  BY <1>1, <1>2, <1>8 DEF Good, Owned, Promised
<1>9. Good(t, {})
  BY <1>2, <1>4, <1>5, <1>6, <1>7, <1>8 DEF Good
<1>10. Calm(State, t)
  BY <1>2 DEF Calm, Stays, Says, Live
<1> QED
  BY <1>3, <1>4, <1>9, <1>10, BecomeQuiet

--------------------------------------------------------------------------------
LEMMA InitGood == Init => IInv
<1> SUFFICES ASSUME Init PROVE IInv
  OBVIOUS
<1> DEFINE s == State
<1>1. /\ s.client = [c \in Clients |-> Gone] /\ s.elem = elem
      /\ s.link = [x \in Slaves |-> "ready"] /\ s.xfers = [x \in Slaves |-> {}]
      /\ s.cmds = {} /\ s.news = {}
  BY DEF State, Init
<1>2. /\ ~Gone.on /\ Gone.el = None /\ Gone.cnx = None /\ Gone.cmd = None /\ Gone.fd = "none"
      /\ ~Gone.upload /\ ~Gone.slaveXfer /\ Gone.told = "nothing" /\ Gone \in ClientType
  BY DEF Gone, Blank, ClientType
<1>3. \A f \in Files : /\ elem[f] \in ElementType /\ elem[f].uploader = None
                       /\ elem[f].leechers = {}
                       /\ elem[f].exists => elem[f].at # {}
  <2> SUFFICES ASSUME NEW f \in Files
               PROVE  /\ elem[f] \in ElementType /\ elem[f].uploader = None
                      /\ elem[f].leechers = {} /\ (elem[f].exists => elem[f].at # {})
    OBVIOUS
  <2>1. \/ elem[f] = NoElement
        \/ \E S \in (SUBSET Slaves) \ {{}} : elem[f] = [NewElement EXCEPT !.at = S]
    BY DEF Init
  <2>2. CASE elem[f] = NoElement
    BY <2>2 DEF NoElement, NewElement, ElementType
  <2>3. ASSUME NEW S \in (SUBSET Slaves) \ {{}}, elem[f] = [NewElement EXCEPT !.at = S]
        PROVE  /\ elem[f] \in ElementType /\ elem[f].uploader = None
               /\ elem[f].leechers = {} /\ (elem[f].exists => elem[f].at # {})
    BY <2>3 DEF NewElement, ElementType
  <2> QED
    BY <2>1, <2>2, <2>3
<1>4. elem \in [Files -> ElementType]
  BY <1>3 DEF Init
<1>5. s \in States
  BY <1>2, <1>4 DEF State, States, Init
<1> HIDE DEF s
<1>6. \A c \in Clients : Sane(s.client[c]) /\ Names(s, c) /\ Whole(s, c)
  BY <1>1, <1>2 DEF Sane, Names, Whole
<1>7. HeldBy(s) /\ UsedBy(s) /\ Alone(s) /\ Ghostless(s, {})
  BY <1>1, <1>2, <1>3, NoneFacts DEF HeldBy, UsedBy, Alone, Ghostless
<1>8. (\A k \in s.cmds : Owned(s, k)) /\ (\A c \in Clients : Promised(s, c))
  BY <1>1, <1>2 DEF Promised
<1>9. Good(s, {}) /\ Ghostless(s, {})
  BY <1>5, <1>6, <1>7, <1>8 DEF Good
<1> QED
  BY <1>9 DEF IInv, Init, s

LEMMA NextKeeps == IInv /\ [Next]_vars => IInv'
<1> SUFFICES ASSUME IInv, [Next]_vars PROVE IInv'
  OBVIOUS
<1>1. ASSUME NEW c \in Clients,
             \/ Connect(c) \/ Pasv(c) \/ Port(c) \/ Rest(c) \/ Other(c) \/ List(c)
             \/ Abort(c) \/ Leave(c) \/ XferTimeout(c)
             \/ DataConnect(c) \/ DataWrite(c) \/ DataEnds(c)
      PROVE  IInv'
  BY <1>1, ConnectKeeps, PasvKeeps, PortKeeps, RestKeeps, ListKeeps, AbortKeeps, LeaveKeeps,
     DataConnectKeeps, DataWriteKeeps
<1>2. ASSUME NEW c \in Clients, NEW f \in Files,
             Retr(c, f) \/ Stor(c, f) \/ Pret(c, f, TRUE) \/ Pret(c, f, FALSE)
      PROVE  IInv'
  <2>1. CASE Retr(c, f) \/ Stor(c, f)
    BY <2>1, RetrStorKeeps
  <2>2. CASE Pret(c, f, TRUE)
    BY <2>2, PretKeeps
  <2>3. CASE Pret(c, f, FALSE)
    BY <2>3, PretKeeps
  <2> QED
    BY <1>2, <2>1, <2>2, <2>3
<1>3. ASSUME NEW f \in Files, Delete(f) \/ \E c \in Clients : Dele(c, f) PROVE IInv'
  BY <1>3, DeleteKeeps, DeleKeeps
<1>4. ASSUME NEW k \in cmds, ListenAnswer(k) \/ TransferAnswer(k) PROVE IInv'
  BY <1>4, ListenAnswerKeeps, TransferAnswerKeeps
<1>5. ASSUME NEW x \in Slaves, SlaveLost(x) \/ SlaveReady(x) PROVE IInv'
  BY <1>5, SlaveLostKeeps, SlaveReadyKeeps
<1>6. ASSUME NEW x \in Slaves, NEW F \in SUBSET Files, SlaveMerged(x, F) PROVE IInv'
  BY <1>6, SlaveMergedKeeps
<1>7. CASE UNCHANGED vars
  BY <1>7 DEF vars, IInv, State
<1> QED
  BY <1>1, <1>2, <1>3, <1>4, <1>5, <1>6, <1>7 DEF Next

LEMMA Invariant == Spec => []IInv
<1>1. Init => IInv
  BY InitGood
<1>2. IInv /\ [Next]_vars => IInv'
  BY NextKeeps
<1> QED
  BY <1>1, <1>2, PTL DEF Spec

(* Whatever client, element or connection goes first, clients, elements    *)
(* and connections name each other, and nobody reads what is being written *)
(* (ftpd_client_cleanup_data_connection, vfs_obj_destroy,                  *)
(* slave_connection_obj_destroy): for any number of them, and whether or   *)
(* not clients wait for replies.                                           *)
THEOREM LinksStayTrue == Spec => []TransfersAgree
<1>1. ASSUME IInv PROVE TransfersAgree
  <2>1. /\ Good(State, {}) /\ State \in States /\ news \subseteq NewsType
        /\ State.client = client /\ State.elem = elem /\ State.link = link
        /\ State.xfers = xfers /\ State.cmds = cmds
    BY <1>1, StateFacts DEF IInv
  <2>2. TypeOK
    BY <2>1 DEF TypeOK, Good, States, Sane
  <2>3. \A c \in Clients : Whole(State, c) /\ client[c] \in ClientType
    BY <2>1 DEF Good, States
  <2>4. HeldBy(State) /\ UsedBy(State) /\ Alone(State)
    BY <2>1 DEF Good
  <2>5. \A c \in Clients, x \in Slaves : (c \in xfers[x] <=> client[c].cnx = x)
    BY <2>1, <2>4 DEF HeldBy
  <2>6. \A c \in Clients, x \in Slaves : client[c].cnx = x => link[x] = "ready"
    BY <2>1, <2>3, NoneFacts DEF Whole
  <2>7. \A c \in Clients : client[c].cnx = None <=> client[c].el = None
    BY <2>1, <2>3 DEF Whole
  <2>8. \A c \in Clients, f \in Files :
           /\ elem[f].uploader = c <=> client[c].el = f /\ client[c].upload
           /\ c \in elem[f].leechers <=> client[c].el = f /\ ~client[c].upload
           /\ client[c].el = f => elem[f].exists
    <3> SUFFICES ASSUME NEW c \in Clients, NEW f \in Files
                 PROVE  /\ elem[f].uploader = c <=> client[c].el = f /\ client[c].upload
                        /\ c \in elem[f].leechers <=> client[c].el = f /\ ~client[c].upload
                        /\ client[c].el = f => elem[f].exists
      OBVIOUS
    <3>1. State.elem[f] = elem[f] /\ State.client[c] = client[c]
      BY <2>1
    <3> QED
      BY <2>4, <3>1 DEF UsedBy
  <2>9. LinksAgree
    BY <2>5, <2>6, <2>7, <2>8 DEF LinksAgree
  <2>10. Exclusive
    BY <2>1, <2>4 DEF Alone, Exclusive
  <2> QED
    BY <2>2, <2>9, <2>10 DEF TransfersAgree
<1> QED
  BY <1>1, Invariant, PTL

(* An upload that is interrupted leaves no element without a place,        *)
(* however many uploads and slaves there are.                              *)
THEOREM NoGhosts == Spec => []NoGhostElement
<1>1. ASSUME IInv PROVE NoGhostElement
  BY <1>1, StateFacts DEF Ghostless, NoGhostElement
<1> QED
  BY <1>1, Invariant, PTL

(* Where clients wait for replies, every command outstanding is the one    *)
(* its client waits for, and who was told 150 has one.                     *)
THEOREM AnswersAreAwaited ==
    ASSUME ~Pipelining
    PROVE  Spec => []CommandsAgree
<1>1. ASSUME IInv PROVE CommandsAgree
  <2>1. /\ Good(State, {}) /\ State.client = client /\ State.cmds = cmds
    BY <1>1, StateFacts
  <2>2. CommandsOwned
    BY <2>1 DEF Good, Owned, CommandsOwned
  <2>3. TransferPromise
    BY <2>1 DEF Good, Promised, TransferPromise
  <2> QED
    BY <2>2, <2>3 DEF CommandsAgree
<1> QED
  BY <1>1, Invariant, PTL

--------------------------------------------------------------------------------
(* What an action that ends as described does to the variables.            *)
LEMMA EndsFacts ==
    ASSUME NEW F, NEW N, NEW M, Ends(F, N, M)
    PROVE  /\ \A f \in Files \ F : elem[f].exists /\ elem[f].uploader = None => elem'[f].exists
           /\ news' \subseteq N
           /\ Live(State, {}) => Live(State, {})' /\ news' \subseteq M
<1>1. PICK t : /\ Become(t) /\ Stays(State, t, F) /\ Says(State, t, N)
               /\ Live(State, {}) => Live(t, {}) /\ Says(State, t, M)
  BY DEF Ends
<1>2. /\ t.client = client' /\ t.elem = elem' /\ t.cmds = cmds' /\ t.news = news'
  BY <1>1 DEF Become
<1>3. State.elem = elem /\ State.news = {}
  BY DEF State
<1>4. \A f \in Files \ F : elem[f].exists /\ elem[f].uploader = None => elem'[f].exists
  BY <1>1, <1>2, <1>3 DEF Stays
<1>5. news' \subseteq N /\ (Live(State, {}) => news' \subseteq M)
  BY <1>1, <1>2, <1>3 DEF Says
<1>6. Live(t, {}) => Live(State, {})'
  BY <1>2 DEF Live, State
<1> QED
  BY <1>1, <1>4, <1>5, <1>6

(* The steps, by what they may lose and say.                               *)
Silent == Quiet \/ UNCHANGED vars
Lost(x) == SlaveLost(x) /\ Ends({}, {"freed command"}, {"freed command"})
Removed == /\ Ends(Files, {"freed command"}, {})
           /\ \E x \in Slaves, F \in SUBSET Files : SlaveMerged(x, F)
Deleted(f) == Delete(f) /\ Ends({f}, {"freed command"}, {})
Taken(f) == /\ \E c \in Clients : Dele(c, f)
            /\ Ends({f}, {"freed command", "freed element"}, {"freed element"})
            /\ \/ Ends({f}, {"freed command"}, {})
               \/ \E c \in Clients : Dele(c, f) /\ c \in elem[f].leechers
Unclaimed(k) == ~client[k.client].on /\ Ends({}, {"freed client"}, {"freed client"})
Answer(k) == \/ Unclaimed(k)
             \/ TransferAnswer(k) /\ k.client \in Clients /\ Delivered(k.client)
             \/ TransferAnswer(k) /\ Wiped(k)

LEMMA StepKinds ==
    ASSUME IInv, [Next]_vars
    PROVE  \/ Silent \/ Removed
           \/ \E x \in Slaves : Lost(x)
           \/ \E f \in Files : Deleted(f) \/ Taken(f)
           \/ \E k \in cmds : Answer(k)
<1>1. ASSUME NEW c \in Clients,
             \/ Connect(c) \/ Pasv(c) \/ Port(c) \/ Rest(c) \/ Other(c) \/ List(c)
             \/ Abort(c) \/ Leave(c) \/ XferTimeout(c)
             \/ DataConnect(c) \/ DataWrite(c) \/ DataEnds(c)
      PROVE  Quiet
  BY <1>1, ConnectKeeps, PasvKeeps, PortKeeps, RestKeeps, ListKeeps, AbortKeeps, LeaveKeeps,
     DataConnectKeeps, DataWriteKeeps
<1>2. ASSUME NEW c \in Clients, NEW f \in Files,
             Retr(c, f) \/ Stor(c, f) \/ Pret(c, f, TRUE) \/ Pret(c, f, FALSE)
      PROVE  Quiet
  <2>1. CASE Retr(c, f) \/ Stor(c, f)
    BY <2>1, RetrStorKeeps
  <2>2. CASE Pret(c, f, TRUE)
    BY <2>2, PretKeeps
  <2>3. CASE Pret(c, f, FALSE)
    BY <2>3, PretKeeps
  <2> QED
    BY <1>2, <2>1, <2>2, <2>3
<1>3. ASSUME NEW f \in Files, Delete(f) PROVE Deleted(f)
  BY <1>3, DeleteKeeps DEF Deleted
<1>9. ASSUME NEW f \in Files, NEW c \in Clients, Dele(c, f) PROVE Taken(f)
  BY <1>9, DeleKeeps DEF Taken
<1>4. ASSUME NEW k \in cmds, ListenAnswer(k) PROVE Quiet \/ Answer(k)
  BY <1>4, ListenAnswerKeeps DEF Answer, Unclaimed
<1>5. ASSUME NEW k \in cmds, TransferAnswer(k) PROVE Quiet \/ Answer(k)
  BY <1>5, TransferAnswerKeeps DEF Answer, Unclaimed
<1>6. ASSUME NEW x \in Slaves, SlaveLost(x) PROVE Lost(x)
  BY <1>6, SlaveLostKeeps DEF Lost
<1>7. ASSUME NEW x \in Slaves, SlaveReady(x) PROVE Quiet
  BY <1>7, SlaveReadyKeeps
<1>8. ASSUME NEW x \in Slaves, NEW F \in SUBSET Files, SlaveMerged(x, F) PROVE Removed
  BY <1>8, SlaveMergedKeeps DEF Removed
<1> QED
  BY <1>1, <1>2, <1>3, <1>4, <1>5, <1>6, <1>7, <1>8, <1>9 DEF Next, Silent

(* A client that has a command waits for one that is outstanding, also     *)
(* when it pipelines: the clean-up of a client finds its command.          *)
LEMMA LiveKeeps == IInv /\ Live(State, {}) /\ [Next]_vars => Live(State, {})'
<1> SUFFICES ASSUME IInv, Live(State, {}), [Next]_vars PROVE Live(State, {})'
  OBVIOUS
<1>1. CASE UNCHANGED vars
  BY <1>1 DEF vars, State, Live
<1>2. ASSUME NEW F, NEW N, NEW M, Ends(F, N, M) PROVE Live(State, {})'
  BY <1>2, EndsFacts
<1>3. CASE \E k \in cmds : Answer(k)
  BY <1>2, <1>3 DEF Answer, Unclaimed, Delivered, Wiped
<1> QED
  BY <1>1, <1>2, <1>3, StepKinds DEF Silent, Quiet, Removed, Lost, Deleted, Taken

LEMMA LiveAlways == Spec => []Live(State, {})
<1>1. Init => Live(State, {})
  <2>1. Gone.cmd = None
    BY DEF Gone, Blank
  <2> QED
    BY <2>1 DEF Init, State, Live
<1> QED
  BY <1>1, LiveKeeps, Invariant, PTL DEF Spec


(* An upload that is refused was nobody's but its uploader's; nothing else *)
(* that an answer does loses a file.                                       *)
LEMMA StepStays ==
    ASSUME IInv, [Next]_vars, NEW f \in Files,
           elem[f].exists, elem[f].uploader = None, ~elem'[f].exists
    PROVE  \/ Delete(f) \/ \E c \in Clients : Dele(c, f)
           \/ \E x \in Slaves, F \in SUBSET Files : SlaveMerged(x, F)
           \/ \E k \in cmds : Refusals /\ TransferAnswer(k)
<1>1. ~Ends({}, {"freed command"}, {}) /\ ~UNCHANGED vars
  BY EndsFacts DEF vars
<1>2. ~Silent
  BY <1>1 DEF Silent, Quiet
<1>3. CASE Removed
  BY <1>3 DEF Removed
<1>4. ASSUME NEW x \in Slaves, Lost(x) PROVE FALSE
  BY <1>4, EndsFacts DEF Lost
<1>5. ASSUME NEW g \in Files, Deleted(g) PROVE Delete(f)
  <2>1. \A h \in Files \ {g} : elem[h].exists /\ elem[h].uploader = None => elem'[h].exists
    BY <1>5, EndsFacts DEF Deleted
  <2>2. f = g
    BY <2>1
  <2> QED
    BY <1>5, <2>2 DEF Deleted
<1>7. ASSUME NEW g \in Files, Taken(g) PROVE \E c \in Clients : Dele(c, f)
  <2>1. \A h \in Files \ {g} : elem[h].exists /\ elem[h].uploader = None => elem'[h].exists
    BY <1>7, EndsFacts DEF Taken
  <2>2. f = g
    BY <2>1
  <2> QED
    BY <1>7, <2>2 DEF Taken
<1>6. ASSUME NEW k \in cmds, Answer(k) PROVE Refusals /\ TransferAnswer(k)
  <2>1. ~Unclaimed(k)
    BY EndsFacts DEF Unclaimed
  <2>2. ~Delivered(k.client)
    BY EndsFacts, ZenonT(40) DEF Delivered
  <2>3. TransferAnswer(k) /\ Wiped(k)
    BY <1>6, <2>1, <2>2 DEF Answer
  <2> DEFINE c == k.client
  <2>4. /\ Ends({client[c].el}, {"freed command", "freed client"}, {"freed client"})
        /\ client[c].upload => client[c].el \in Files /\ elem[client[c].el].uploader = c
        /\ Refusals \/ client[c].upload
    BY <2>3 DEF Wiped
  <2>5. \A h \in Files \ {client[c].el} :
           elem[h].exists /\ elem[h].uploader = None => elem'[h].exists
    BY <2>4, EndsFacts
  <2>6. f = client[c].el
    BY <2>5
  <2>7. c # None
    BY StateFacts, NoneFacts DEF States
  <2> QED
    BY <2>3, <2>4, <2>6, <2>7
<1> QED
  BY <1>2, <1>3, <1>4, <1>5, <1>6, <1>7, StepKinds

(* The clean-up of a client deletes what it uploads and nothing else       *)
(* (ftpd_client_cleanup_data_connection): a complete file goes when it is  *)
(* deleted, when the last slave that had it has it no more, or when a      *)
(* script refuses a download of it, whether or not clients wait.           *)
THEOREM CompleteFilesAreKept == Spec => CompleteFilesStay
<1>1. IInv /\ [Next]_vars =>
         [\A f \in Files :
            elem[f].exists /\ elem[f].uploader = None /\ ~elem'[f].exists =>
                \/ Delete(f) \/ \E c \in Clients : Dele(c, f)
                \/ \E x \in Slaves, F \in SUBSET Files : SlaveMerged(x, F)
                \/ \E k \in cmds : Refusals /\ TransferAnswer(k)]_vars
  BY StepStays
<1> QED
  BY <1>1, Invariant, PTL DEF Spec, CompleteFilesStay

LEMMA StepIsThere ==
    ASSUME IInv, [Next]_vars, ~UNCHANGED vars, NEW c \in Clients, c \in news'
    PROVE  LET e == elem'[client[c].el]
           IN  e.exists /\ e.at # {} /\ e.uploader = None /\ c \notin e.leechers
<1>1. c # "freed command" /\ c # "freed client" /\ c # "freed element"
  BY TransferAssumption DEF TransferAssumption
<1>2. ~\E F, M : \/ Ends(F, {"freed command"}, M) \/ Ends(F, {"freed client"}, M)
                 \/ Ends(F, {"freed command", "freed client"}, M)
                 \/ Ends(F, {"freed command", "freed element"}, M)
  <2>1. ASSUME NEW F, NEW N, NEW M, Ends(F, N, M) PROVE c \in N
    BY <2>1, EndsFacts
  <2> QED
    BY <1>1, <2>1
<1>3. PICK k \in cmds : Answer(k)
  BY <1>2, StepKinds DEF Silent, Quiet, Removed, Lost, Deleted, Taken
<1>4. k.client \in Clients /\ Delivered(k.client)
  BY <1>2, <1>3 DEF Answer, Unclaimed, Wiped
<1>5. k.client = c
  <2>1. news' \subseteq {"freed command", k.client}
    BY <1>4, EndsFacts DEF Delivered
  <2> QED
    BY <1>1, <2>1
<1> DEFINE f == client[c].el
<1>6. /\ f \in Files /\ elem'[f].exists /\ elem'[f].uploader = None
      /\ c \notin elem'[f].leechers
  BY <1>4, <1>5 DEF Delivered
<1>7. Ghostless(State, {})'
  BY NextKeeps DEF IInv
<1>8. elem'[f].at # {}
  <2> HIDE DEF f
  <2> QED
    BY <1>6, <1>7 DEF Ghostless, State
<1> QED
  BY <1>6, <1>8

(* 226 (slave_transfer_query_callback): the file is on a slave, nobody     *)
(* writes it and the client has let go of it, whatever other clients and   *)
(* scripts did while it was being transferred.                             *)
THEOREM WhatIsToldIsThere == Spec => CompleteIsThere
<1>1. IInv /\ [Next]_vars =>
         [\A c \in Clients \cap news' :
            LET e == elem'[client[c].el]
            IN  e.exists /\ e.at # {} /\ e.uploader = None /\ c \notin e.leechers]_vars
  BY StepIsThere
<1> QED
  BY <1>1, Invariant, PTL DEF Spec, CompleteIsThere

(* Where clients wait for replies, a callback is never called for a client *)
(* that has gone: every command outstanding is one a client waits for.     *)
LEMMA NothingUnclaimed ==
    ASSUME IInv, ~Pipelining, NEW k \in cmds
    PROVE  client[k.client].on
<1>1. /\ Good(State, {}) /\ State \in States /\ State.client = client /\ State.cmds = cmds
  BY StateFacts
<1>2. k \in CommandType /\ k.client \in Clients /\ k # None
  BY <1>1, NoneFacts DEF States
<1>3. client[k.client].cmd = k /\ Sane(client[k.client])
  BY <1>1, <1>2 DEF Good, Owned
<1>4. Gone.cmd = None
  BY DEF Gone, Blank
<1> QED
  BY <1>2, <1>3, <1>4 DEF Sane

LEMMA StepUses ==
    ASSUME IInv, Live(State, {}), ~Pipelining, [Next]_vars, ~UNCHANGED vars
    PROVE  /\ "freed command" \in news' => \E x \in Slaves : link[x] # "down" /\ link'[x] = "down"
           /\ "freed client" \in news' =>
                 \E k \in cmds \ cmds' : client[k.client].on /\ ~client[k.client].upload
           /\ "freed element" \in news' =>
                 \E c \in Clients, f \in Files : Dele(c, f) /\ c \in elem[f].leechers
<1>1. ASSUME NEW F, NEW N, NEW M, Ends(F, N, M) PROVE news' \subseteq M
  BY <1>1, EndsFacts
<1>2. CASE Silent \/ Removed \/ \E f \in Files : Deleted(f)
  <2>1. \E F, N : Ends(F, N, {})
    BY <1>2 DEF Silent, Quiet, Removed, Deleted
  <2>2. news' \subseteq {}
    BY <1>1, <2>1
  <2> QED
    BY <2>2
<1>3. ASSUME NEW x \in Slaves, Lost(x)
      PROVE  news' \subseteq {"freed command"} /\ link[x] # "down" /\ link'[x] = "down"
  <2>1. news' \subseteq {"freed command"} /\ link[x] # "down"
    BY <1>1, <1>3 DEF Lost, SlaveLost
  <2>2. link'[x] = "down"
    BY <1>3, SlaveLostKeeps DEF Lost
  <2> QED
    BY <2>1, <2>2
<1>4. ASSUME NEW k \in cmds, Answer(k)
      PROVE  /\ "freed command" \notin news' /\ "freed element" \notin news'
             /\ "freed client" \in news' =>
                   k \notin cmds' /\ client[k.client].on /\ ~client[k.client].upload
  <2>1. ~Unclaimed(k)
    BY NothingUnclaimed DEF Unclaimed
  <2>2. CASE k.client \in Clients /\ Delivered(k.client)
    <3>1. news' \subseteq {k.client}
      BY <1>1, <2>2 DEF Delivered
    <3>2. k.client # "freed command" /\ k.client # "freed client" /\ k.client # "freed element"
      BY <2>2, TransferAssumption DEF TransferAssumption
    <3> QED
      BY <3>1, <3>2
  <2>3. CASE Wiped(k)
    <3>1. news' \subseteq {"freed client"}
      BY <1>1, <2>3 DEF Wiped
    <3>2. client[k.client].on /\ k \notin cmds' /\ (client[k.client].upload => "freed client" \notin news')
      BY <2>3 DEF Wiped
    <3> QED
      BY <3>1, <3>2
  <2> QED
    BY <1>4, <2>1, <2>2, <2>3 DEF Answer
<1>5. ASSUME NEW g \in Files, Taken(g)
      PROVE  /\ "freed command" \notin news' /\ "freed client" \notin news'
             /\ "freed element" \in news' =>
                   \E c \in Clients, f \in Files : Dele(c, f) /\ c \in elem[f].leechers
  <2>1. news' \subseteq {"freed element"}
    BY <1>1, <1>5 DEF Taken
  <2>2. Ends({g}, {"freed command"}, {}) => news' \subseteq {}
    BY <1>1
  <2> QED
    BY <1>5, <2>1, <2>2 DEF Taken
<1> QED
  BY <1>2, <1>3, <1>4, <1>5, StepKinds

(* Freed commands, clients and elements are used in three cases only: by   *)
(* the clients of a slave that is lost, when a script refuses a download,  *)
(* and by a client that deletes (DELE) the file it is about to download.   *)
(* Every other order in which clients, slaves, answers and files go is     *)
(* safe, where clients wait for replies.                                   *)
THEOREM FreedUsesAreKnown ==
    ASSUME ~Pipelining
    PROVE  Spec => FreedUses
<1>1. IInv /\ Live(State, {}) /\ [Next]_vars =>
         [/\ "freed command" \in news' => \E x \in Slaves : link[x] # "down" /\ link'[x] = "down"
          /\ "freed client" \in news' =>
                 \E k \in cmds \ cmds' : client[k.client].on /\ ~client[k.client].upload
          /\ "freed element" \in news' =>
                 \E c \in Clients, f \in Files : Dele(c, f) /\ c \in elem[f].leechers]_vars
  BY StepUses
<1> QED
  BY <1>1, Invariant, LiveAlways, PTL DEF Spec, FreedUses
================================================================================
