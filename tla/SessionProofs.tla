----------------------------- MODULE SessionProofs ------------------------------
(***************************************************************************)
(* What protects the control connection of a client and its listings, for  *)
(* every policy, any answer of OpenSSL and any number of replies.          *)
(*                                                                         *)
(* AuthAgrees carries the rest: with it a command that passes the tests of *)
(* the parser passes them for what the connection is.  It needs that a     *)
(* client waits for TLS only after AUTH, and that nothing ends TLS again   *)
(* (Believed).  A listing is decided when LIST comes and protected when    *)
(* the connection is made; in either order they see the same PROT          *)
(* (Listed), if the client waits for the listing.                          *)
(* Replies are sent the way of the connection they are kept for (Due), and *)
(* what a send leaves over is kept while the TLS layer remembers that it   *)
(* was interrupted, or has forgotten it (Held, Kept).                      *)
(***************************************************************************)
EXTENDS Session, TLAPS

Clients == [alive : BOOLEAN, connected : BOOLEAN, logged : BOOLEAN, auth : BOOLEAN,
            waiting : BOOLEAN, private : BOOLEAN, last : Commands \cup {"none"}]
Stages == {"none", "listening", "connecting", "open", "shut"}
Made == {"open", "shut"}
Datas == [stage : Stages, ready : BOOLEAN, lines : {"none", "some", "held", "forgotten"}, sec : Contexts]
States == [client : Clients, sec : Contexts, messages : Seq(Ways), resume : Seq(Ways),
           forgotten : BOOLEAN, data : Datas, news : {{}}]

Believed(s) ==
    /\ s.client.alive => (s.sec.use <=> (s.client.auth /\ ~s.client.waiting))
    /\ s.client.waiting => s.client.auth
    /\ s.sec.op \notin {"shutdown 1", "shutdown 2"}
    /\ s.sec.op = "send" => s.sec.use /\ s.sec.status = "want read"
Secured(s) ==
    /\ policy.control \in {"always", "implicit"} /\ s.client.logged => s.sec.use
    /\ policy.control = "never" => ~s.sec.use /\ ~s.client.auth
    /\ policy.control = "implicit" /\ s.client.alive => s.client.auth /\ ~s.client.waiting
Left(s) == ~s.client.alive =>
    /\ s.messages = <<>> /\ s.resume = <<>> /\ s.data.stage = "none"
    /\ ~s.client.logged /\ ~s.client.waiting /\ ~s.sec.use
    /\ ~s.data.ready /\ ~s.data.sec.use
(* Replies wait for the connection their commands came on; what a send has *)
(* left is sent again before anything else.                                *)
Tls == {"tls", "note"}
Clear == {"clear", "note"}
Due(s) ==
    /\ s.sec.use => s.messages \in Seq(Tls) /\ s.resume \in Seq(Tls)
    /\ ~s.sec.use => s.messages \in Seq(Clear) /\ s.resume \in Seq(Clear)
Held(s) == s.data.lines = "held" => s.data.stage = "open" /\ s.data.sec.op = "send"
Kept(s) ==
    /\ ~s.sec.use => s.resume = <<>>
    /\ s.resume # <<>> => s.sec.op = "send" \/ s.forgotten
    /\ s.sec.op = "send" => s.resume # <<>>
(* After the command "last".                                               *)
Listed(s, last) ==
    /\ s.data.ready => Allowed(s.client.private)
    /\ s.data.ready /\ s.data.stage \in Made => Allowed(s.data.sec.use)
    /\ s.data.stage \notin Made => ~s.data.sec.use
    /\ ~s.client.logged => s.data.stage = "none"
    /\ s.data.stage \in Made /\ last \in {"PASV", "PORT"} /\ ~s.data.ready =>
          s.data.sec.use = s.client.private
Sendable(s) == s \in States /\ Believed(s) /\ Secured(s) /\ Left(s) /\ Due(s) /\ Held(s)
Good(s) == Sendable(s) /\ Kept(s)
Sound(s) == Good(s) /\ (~Pipelining => Listed(s, s.client.last))

(*------------------------------ the TLS layer -----------------------------*)
Waits(x) == x.op = "send" => x.use /\ x.status = "want read"
LEMMA IoContext ==
  ASSUME NEW x \in Contexts, NEW op \in {"recv", "send"}, NEW o
  PROVE  LET y == Io(x, op, o)
         IN  /\ y \in Contexts /\ y.use = x.use /\ y.op \in {x.op, op, "none"}
             /\ op = "recv" /\ x.op = "send" => y.op = "send"
             /\ x.use /\ Callable(x, op) /\ o = "again" => y.op = op
             /\ Waits(x) => Waits(y)
             /\ y.op = "send" => x.op = "send" \/ (op = "send" /\ o = "again" /\ x.use /\ Callable(x, op))
<1>1. CASE ~x.use \/ ~Callable(x, op)
  BY <1>1 DEF Io, Waits
<1>2. CASE x.use /\ Callable(x, op) /\ o \in {"done", "wait"}
  BY <1>2 DEF Io, Waits, Callable, Contexts, Statuses, Operations, Signals
<1>3. CASE x.use /\ Callable(x, op) /\ o = "again"
  BY <1>3 DEF Io, Waits, Callable, Contexts, Statuses, Operations, Signals
<1>4. CASE x.use /\ Callable(x, op) /\ o \notin {"done", "wait", "again"}
  BY <1>4 DEF Io, Waits, Callable, Failed, Contexts, Statuses, Operations, Signals
<1> QED  BY <1>1, <1>2, <1>3, <1>4

LEMMA HandshakeContext ==
  ASSUME NEW x \in Contexts, NEW o
  PROVE  LET y == DoHandshake(x, o)
         IN  y \in Contexts /\ y.use = x.use /\ y.op \in {"handshake", "none"}
  BY DEF DoHandshake, Failed, Contexts, Statuses, Operations, Signals

LEMMA NegotiateContext ==
  ASSUME NEW x \in Contexts, NEW o
  PROVE  LET y == Negotiate(x, o)
         IN  y \in Contexts /\ y.use /\ y.op \in {"handshake", "none"}
<1> DEFINE z == [x EXCEPT !.use = TRUE]
<1>1. z \in Contexts /\ z.use
  BY DEF Contexts
<1>2. Negotiate(x, o) = DoHandshake(z, o)
  BY DEF Negotiate
<1> HIDE DEF z
<1> QED  BY <1>1, <1>2, HandshakeContext

LEMMA QuietContext ==
  ASSUME NEW x \in Contexts
  PROVE  /\ Quiet(x) \in Contexts /\ Quiet(x).use = x.use /\ Quiet(x).op = x.op
         /\ Quiet(x).status = x.status
         /\ Close(x) \in Contexts /\ ~Close(x).use
  BY DEF Quiet, Close, Contexts, Signals

LEMMA SetupContext == Setup \in Contexts /\ ~Setup.use /\ Setup.op = "none"
  BY DEF Setup, Contexts, Statuses, Operations, Signals

(*---------------------------------- replies -------------------------------*)
LEMMA EnqueueGood ==
  ASSUME NEW s, Good(s), s.client.alive
  PROVE  /\ Good(Enqueue(s)) /\ Enqueue(s).client = s.client /\ Enqueue(s).data = s.data
         /\ Good(EnqueueNote(s)) /\ EnqueueNote(s).client = s.client
         /\ EnqueueNote(s).data = s.data
<1>1. /\ Way(s) \in Ways /\ "note" \in Ways
      /\ s.sec.use => Way(s) \in Tls /\ "note" \in Tls
      /\ ~s.sec.use => Way(s) \in Clear /\ "note" \in Clear
  BY DEF Way, Ways, Tls, Clear
<1>2. ASSUME NEW w \in Ways, s.sec.use => w \in Tls, ~s.sec.use => w \in Clear
      PROVE  LET t == [s EXCEPT !.messages = Append(@, w)]
             IN  Good(t) /\ t.client = s.client /\ t.data = s.data
  <2>1. Append(s.messages, w) \in Seq(Ways)
    BY <1>2 DEF Good, Sendable, States
  <2>4. /\ s.sec.use => Append(s.messages, w) \in Seq(Tls)
        /\ ~s.sec.use => Append(s.messages, w) \in Seq(Clear)
    BY <1>2 DEF Good, Sendable, Due
  <2> DEFINE m == Append(s.messages, w)
             t == [s EXCEPT !.messages = m]
  <2>5. (s.sec.use => m \in Seq(Tls)) /\ (~s.sec.use => m \in Seq(Clear))
    BY <2>4
  <2> HIDE DEF m
  <2>2. /\ t \in States /\ t.client = s.client /\ t.data = s.data
        /\ t.sec = s.sec /\ t.resume = s.resume /\ t.forgotten = s.forgotten /\ t.messages = m
    BY <2>1 DEF Good, Sendable, States, m
  <2> HIDE DEF t
  <2>3. Good(t)
    BY <2>2, <2>5 DEF Good, Sendable, Believed, Secured, Left, Due, Held, Kept
  <2> QED  BY <2>2, <2>3 DEF t, m
<1> QED  BY <1>1, <1>2 DEF Enqueue, EnqueueNote

LEMMA CleanupGood ==
  ASSUME NEW s, Good(s)
  PROVE  LET t == Cleanup(s)
         IN  /\ Good(t) /\ t.client = s.client /\ t.sec = s.sec
             /\ t.messages = s.messages /\ t.resume = s.resume /\ t.forgotten = s.forgotten
             /\ ~t.data.ready /\ t.data.stage = "none" /\ ~t.data.sec.use
             /\ t.data.lines = "none"
<1> DEFINE x == Quiet(Close(s.data.sec))
           d == [NoData EXCEPT !.sec = x]
           t == [s EXCEPT !.data = d]
<1>1. x \in Contexts /\ ~x.use
  BY QuietContext DEF Good, Sendable, States, Datas
<1> HIDE DEF x
<1>2. d \in Datas /\ ~d.ready /\ d.stage = "none" /\ d.sec = x /\ d.lines = "none"
  BY <1>1 DEF Datas, NoData, Stages
<1>3. Cleanup(s) = t
  BY DEF Cleanup, x
<1> HIDE DEF d
<1>4. /\ t \in States /\ t.client = s.client /\ t.sec = s.sec /\ t.data = d
      /\ t.messages = s.messages /\ t.resume = s.resume /\ t.forgotten = s.forgotten
  BY <1>2 DEF Good, Sendable, States
<1> HIDE DEF t
<1>5. Good(t)
  BY <1>1, <1>2, <1>4 DEF Good, Sendable, Believed, Secured, Left, Due, Held, Kept
<1> QED  BY <1>1, <1>2, <1>3, <1>4, <1>5

LEMMA DestroyGood ==
  ASSUME NEW s, s \in States
  PROVE  Sound(Destroy(s)) /\ ~Destroy(s).client.alive
<1> DEFINE t == Destroy(s)
<1>1. /\ t.client = NoClient /\ t.sec = Setup /\ t.data = NoData
      /\ t.messages = <<>> /\ t.resume = <<>>
  BY DEF Destroy
<1>2. NoClient \in Clients /\ NoData \in Datas
  <2>1. NewClient \in Clients
    BY DEF NewClient, Clients
  <2>2. NoClient \in Clients
    BY <2>1 DEF NoClient, Clients
  <2>3. Setup \in Contexts
    BY SetupContext
  <2>4. NoData \in Datas
    BY <2>3 DEF NoData, Datas, Stages
  <2> QED  BY <2>2, <2>4
<1>3. /\ ~NoClient.alive /\ ~NoClient.logged /\ ~NoClient.auth /\ ~NoClient.waiting
      /\ ~NoData.ready /\ NoData.stage = "none" /\ NoData.sec = Setup /\ NoData.lines = "none"
  BY DEF NoClient, NewClient, NoData
<1>4. t \in States
  <2>1. /\ Setup \in Contexts /\ <<>> \in Seq(Ways) /\ s.news \in SUBSET {"crossed"}
    BY SetupContext DEF States
  <2> QED  BY <1>2, <2>1 DEF Destroy, States
<1> HIDE DEF t
<1>5. <<>> \in Seq(Tls) /\ <<>> \in Seq(Clear)
  OBVIOUS
<1>6. Good(t)
  BY <1>1, <1>3, <1>4, <1>5, SetupContext
     DEF Good, Sendable, Believed, Secured, Left, Due, Held, Kept
<1> QED  BY <1>1, <1>3, <1>6, SetupContext DEF t, Sound, Listed, Made

(* What is sent, and what of it stays, matters to none of it.              *)
LEMMA ResumeSendGood ==
  ASSUME NEW s, Sendable(s), s.client.alive, s.resume # <<>>, NEW o \in IoOutcomes
  PROVE  LET t == ResumeSend(s, o) IN Good(t) /\ t.client = s.client /\ t.data = s.data
<1> DEFINE again == s.sec.use /\ Callable(s.sec, "send") /\ o \in {"wait", "again"}
           crossed == \E i \in 1 .. Len(s.resume) : s.resume[i] \notin {Way(s), "note"}
           x == Io(s.sec, "send", o)
           r == IF again THEN s.resume ELSE <<>>
           f == again /\ o = "wait"
           n == IF crossed THEN s.news \cup {"crossed"} ELSE s.news
           t == [s EXCEPT !.sec = x, !.resume = r, !.forgotten = f, !.news = n]
<1>1. /\ x \in Contexts /\ x.use = s.sec.use /\ x.op \notin {"shutdown 1", "shutdown 2"}
      /\ again => x.op = "send" \/ f
      /\ x.op = "send" => again /\ x.status = "want read"
  <2>1. s.sec \in Contexts /\ Waits(s.sec) /\ s.sec.op \notin {"shutdown 1", "shutdown 2"}
    BY DEF Sendable, States, Believed, Waits
  <2>2. /\ x \in Contexts /\ x.use = s.sec.use /\ x.op \in {s.sec.op, "send", "none"}
        /\ s.sec.use /\ Callable(s.sec, "send") /\ o = "again" => x.op = "send"
        /\ Waits(x)
    BY <2>1, IoContext
  <2>3. x.op = "send" => again
    BY <2>1, <2>2 DEF Io, Callable, Waits, Failed, Contexts, IoOutcomes
  <2> QED  BY <2>1, <2>2, <2>3 DEF Waits
<1>2. ~crossed
  <2>1. CASE s.sec.use
    BY <2>1 DEF Sendable, Due, Tls, Way
  <2>2. CASE ~s.sec.use
    BY <2>2 DEF Sendable, Due, Clear, Way
  <2> QED  BY <2>1, <2>2
<1>3. ResumeSend(s, o) = t
  BY DEF ResumeSend
<1>4. n = {}
  <2> HIDE DEF crossed
  <2> QED  BY <1>2 DEF Sendable, States
<1>5. /\ r \in Seq(Ways)
      /\ s.sec.use => r \in Seq(Tls)
      /\ ~s.sec.use => r \in Seq(Clear) /\ r = <<>>
      /\ r # <<>> <=> again
  <2>1. ~s.sec.use => ~again
    OBVIOUS
  <2> HIDE DEF again
  <2>2. s.resume \in Seq(Ways) /\ <<>> \in Seq(Ways) /\ <<>> \in Seq(Tls) /\ <<>> \in Seq(Clear)
    BY DEF Sendable, States
  <2> QED  BY <2>1, <2>2 DEF Sendable, Due
<1>8. f \in BOOLEAN
  OBVIOUS
<1> HIDE DEF x, r, n, f, again
<1>6. /\ t \in States /\ t.client = s.client /\ t.data = s.data /\ t.sec = x
      /\ t.messages = s.messages /\ t.resume = r /\ t.forgotten = f
  BY <1>1, <1>4, <1>5, <1>8 DEF Sendable, States
<1> HIDE DEF t
<1>7. Good(t)
  BY <1>1, <1>5, <1>6 DEF Good, Sendable, Believed, Secured, Left, Due, Held, Kept
<1> QED  BY <1>3, <1>6, <1>7

LEMMA ProcessOutputGood ==
  ASSUME NEW s, Good(s), s.client.alive, s.sec.op # "send", NEW o \in IoOutcomes
  PROVE  LET t == ProcessOutput(s, o) IN Good(t) /\ t.client = s.client /\ t.data = s.data
<1> DEFINE r == [s EXCEPT !.resume = s.messages]
           t == [r EXCEPT !.messages = <<>>]
<1>1. /\ r \in States /\ r.client = s.client /\ r.data = s.data /\ r.sec = s.sec
      /\ r.resume = s.messages
  BY DEF Good, Sendable, States
<1>2. <<>> \in Seq(Ways) /\ <<>> \in Seq(Tls) /\ <<>> \in Seq(Clear)
  OBVIOUS
<1>3. /\ t \in States /\ t.client = s.client /\ t.data = s.data /\ t.sec = s.sec
      /\ t.resume = s.messages /\ t.messages = <<>>
  <2> HIDE DEF r
  <2> QED  BY <1>1, <1>2 DEF States
<1>4. ProcessOutput(s, o) = IF HasCode(s) THEN ResumeSend(t, o) ELSE s
  BY DEF ProcessOutput
<1> HIDE DEF t
<1>5. Sendable(t)
  BY <1>2, <1>3 DEF Good, Sendable, Believed, Secured, Left, Due, Held
<1>6. HasCode(s) => t.resume # <<>>
  BY <1>3 DEF HasCode
<1> QED  BY <1>3, <1>4, <1>5, <1>6, ResumeSendGood

LEMMA RaisedGood ==
  ASSUME NEW s, Good(s), s.client.alive
  PROVE  LET t == Raised(s) IN Good(t) /\ t.client = s.client /\ t.data = s.data
<1> DEFINE x == Quiet(s.sec)
           t == [s EXCEPT !.sec = x]
<1>1. x \in Contexts /\ x.use = s.sec.use /\ x.op = s.sec.op /\ x.status = s.sec.status
  BY QuietContext DEF Good, Sendable, States
<1>2. Raised(s) = IF s.sec.raised = "connect" THEN EnqueueNote(t) ELSE s
  BY DEF Raised
<1> HIDE DEF x
<1>3. /\ t \in States /\ t.client = s.client /\ t.data = s.data /\ t.sec = x
      /\ t.messages = s.messages /\ t.resume = s.resume /\ t.forgotten = s.forgotten
  BY <1>1 DEF Good, Sendable, States
<1> HIDE DEF t
<1>4. Good(t)
  BY <1>1, <1>3 DEF Good, Sendable, Believed, Secured, Left, Due, Held, Kept
<1> QED  BY <1>2, <1>3, <1>4, EnqueueGood

LEMMA StartTlsGood ==
  ASSUME NEW s, Good(s), s.client.alive, NEW h
  PROVE  LET t == StartTls(s, h)
         IN  /\ Good(t) /\ t.data = s.data /\ t.client.alive
             /\ t.client.private = s.client.private /\ t.client.last = s.client.last
             /\ t.client.logged <=> s.client.logged
<1> DEFINE c == [s.client EXCEPT !.waiting = FALSE]
           x == IF s.client.auth THEN Negotiate(s.sec, h) ELSE Drop(s.sec, h)
           r == [s EXCEPT !.client = c]
           t == [r EXCEPT !.sec = x]
<1>1. CASE ~MayNegotiate(s)
  BY <1>1 DEF StartTls
<1>2. CASE MayNegotiate(s)
  <2>1. /\ c \in Clients /\ ~c.waiting /\ c.alive
        /\ (c.auth <=> s.client.auth) /\ (c.logged <=> s.client.logged)
        /\ c.private = s.client.private /\ c.last = s.client.last
    BY DEF Good, Sendable, States, Clients
  <2>2. s.client.waiting /\ s.client.auth
    BY <1>2 DEF MayNegotiate, Good, Sendable, Believed
  <2>3. x = Negotiate(s.sec, h)
    BY <2>2
  <2>4. StartTls(s, h) = Raised(t)
    BY <1>2 DEF StartTls, Good, States
  <2> HIDE DEF c, x
  <2>5. /\ r \in States /\ r.client = c /\ r.data = s.data /\ r.sec = s.sec
        /\ r.messages = s.messages /\ r.resume = s.resume /\ r.forgotten = s.forgotten
    BY <2>1 DEF Good, Sendable, States
  <2>6. x \in Contexts /\ x.use /\ x.op \in {"handshake", "none"}
    BY <2>3, NegotiateContext DEF Good, Sendable, States
  <2> HIDE DEF r
  <2>7. /\ t \in States /\ t.client = c /\ t.data = s.data /\ t.sec = x
        /\ t.messages = s.messages /\ t.resume = s.resume /\ t.forgotten = s.forgotten
    BY <2>5, <2>6 DEF States
  <2> HIDE DEF t
  <2>10. <<>> \in Seq(Tls)
    OBVIOUS
  <2>11. ~s.sec.use
    BY <2>2 DEF Good, Sendable, Believed
  <2>9. s.resume = <<>> /\ s.messages = <<>>
    BY <1>2, <2>11 DEF MayNegotiate, Good, Kept
  <2>8. Good(t)
    BY <2>1, <2>2, <2>6, <2>7, <2>9, <2>10, <2>11 DEF Good, Sendable, Believed, Secured, Left, Due, Held, Kept
  <2> QED  BY <2>1, <2>4, <2>7, <2>8, RaisedGood
<1> QED  BY <1>1, <1>2

(*---------------------------------- commands ------------------------------*)
(* Enqueue, for what a command made of a client that it keeps.             *)
LEMMA AuthGood ==
  ASSUME NEW s, Good(s), s.client.alive
  PROVE  LET t == Auth(s)
         IN  /\ Good(t)
             /\ t.client.alive => /\ t.data = s.data /\ t.client.private = s.client.private
                                  /\ t.client.logged <=> s.client.logged
<1> DEFINE a == [s.client EXCEPT !.auth = TRUE]
           c == [a EXCEPT !.waiting = TRUE]
           r == [s EXCEPT !.client = c]
<1>2. CASE policy.control = "never"
  <2>1. Auth(s) = Destroy(s)
    BY <1>2 DEF Auth, Good, Sendable, Secured
  <2> QED  BY <2>1, DestroyGood DEF Good, Sendable, Sound
<1>3. CASE policy.control # "never" /\ (policy.control = "implicit" \/ s.client.auth)
  <2>1. Auth(s) = Enqueue(s)
    BY <1>3 DEF Auth
  <2> QED  BY <2>1, EnqueueGood
<1>4. CASE policy.control # "never" /\ policy.control # "implicit" /\ ~s.client.auth
  <2>1. /\ c \in Clients /\ c.auth /\ c.waiting /\ c.alive
        /\ (c.logged <=> s.client.logged) /\ c.private = s.client.private
    BY DEF Good, Sendable, States, Clients
  <2>2. ~s.sec.use
    BY <1>4 DEF Good, Sendable, Believed
  <2>5. r = [s EXCEPT !.client.auth = TRUE, !.client.waiting = TRUE]
    BY DEF Good, Sendable, States
  <2> HIDE DEF r
  <2>6. Auth(s) = Enqueue(r)
    BY <1>4, <2>5 DEF Auth
  <2> USE DEF r
  <2> HIDE DEF c
  <2>3. /\ r \in States /\ r.client = c /\ r.data = s.data /\ r.sec = s.sec
        /\ r.messages = s.messages /\ r.resume = s.resume /\ r.forgotten = s.forgotten
    BY <2>1 DEF Good, Sendable, States
  <2> HIDE DEF r
  <2>4. Good(r)
    BY <1>4, <2>1, <2>2, <2>3 DEF Good, Sendable, Believed, Secured, Left, Due, Held, Kept
  <2> QED  BY <1>4, <2>1, <2>3, <2>4, <2>6, EnqueueGood
<1> QED  BY <1>2, <1>3, <1>4

LEMMA ProtectionGood ==
  ASSUME NEW s, Good(s), s.client.alive, NEW private \in BOOLEAN
  PROVE  LET t == Protection(s, private)
         IN  /\ Good(t) /\ t.client.alive /\ t.data = s.data
             /\ t.client.logged <=> s.client.logged
<1> DEFINE c == [s.client EXCEPT !.private = private]
           r == [s EXCEPT !.client = c]
<1>1. /\ c \in Clients /\ c.alive /\ (c.auth <=> s.client.auth)
      /\ (c.waiting <=> s.client.waiting) /\ (c.logged <=> s.client.logged)
  BY DEF Good, Sendable, States, Clients
<1>2. Protection(s, private) = Enqueue(IF s.client.auth THEN r ELSE s)
  BY DEF Protection
<1> HIDE DEF c
<1>3. /\ r \in States /\ r.client = c /\ r.data = s.data /\ r.sec = s.sec
      /\ r.messages = s.messages /\ r.resume = s.resume /\ r.forgotten = s.forgotten
  BY <1>1 DEF Good, Sendable, States
<1> HIDE DEF r
<1>4. Good(r)
  BY <1>1, <1>3 DEF Good, Sendable, Believed, Secured, Left, Due, Held, Kept
<1>5. CASE s.client.auth
  BY <1>1, <1>2, <1>3, <1>4, <1>5, EnqueueGood
<1>6. CASE ~s.client.auth
  BY <1>2, <1>6, EnqueueGood
<1> QED  BY <1>5, <1>6

(* Who logs in passes the tests of the parser, and so does its connection. *)
LEMMA LoginGood ==
  ASSUME NEW s, Good(s), s.client.alive, ~Refused(s, "PASS")
  PROVE  LET t == Enqueue([s EXCEPT !.client.logged = TRUE])
         IN  Good(t) /\ t.data = s.data /\ t.client.private = s.client.private
<1> DEFINE c == [s.client EXCEPT !.logged = TRUE]
           r == [s EXCEPT !.client = c]
<1>1. /\ c \in Clients /\ c.alive /\ (c.auth <=> s.client.auth)
      /\ (c.waiting <=> s.client.waiting) /\ c.private = s.client.private
  BY DEF Good, Sendable, States, Clients
<1>2. r = [s EXCEPT !.client.logged = TRUE]
  BY DEF Good, Sendable, States
<1>3. policy.control \in {"always", "implicit"} => s.sec.use
  BY DEF Good, Sendable, Believed, Secured, Refused
<1> HIDE DEF c
<1>4. /\ r \in States /\ r.client = c /\ r.data = s.data /\ r.sec = s.sec
      /\ r.messages = s.messages /\ r.resume = s.resume /\ r.forgotten = s.forgotten
  BY <1>1 DEF Good, Sendable, States
<1> HIDE DEF r
<1>5. Good(r)
  BY <1>1, <1>3, <1>4 DEF Good, Sendable, Believed, Secured, Left, Due, Held, Kept
<1> QED  BY <1>1, <1>2, <1>4, <1>5, EnqueueGood

LEMMA ParseUnloggedGood ==
  ASSUME NEW s, Sound(s), s.client.alive, ~s.client.logged,
         Pipelining \/ ~s.data.ready, NEW cmd \in Commands, NEW right \in BOOLEAN
  PROVE  LET t == ParseUnlogged(s, cmd, right)
         IN  /\ Good(t)
             /\ ~Pipelining /\ t.client.alive => Listed(t, cmd)
<1> DEFINE t == ParseUnlogged(s, cmd, right)
<1>1. Good(s) /\ (~Pipelining => Listed(s, s.client.last)) /\ s \in States
  BY DEF Sound, Good, Sendable
<1>2. CASE Refused(s, cmd)
  <2>1. t = Enqueue(s)
    BY <1>2 DEF ParseUnlogged
  <2> HIDE DEF t
  <2> QED  BY <1>1, <1>2, <2>1, EnqueueGood DEF t, Listed, Made
<1>3. CASE ~Refused(s, cmd) /\ cmd = "AUTH"
  <2>1. t = Auth(s)
    BY <1>3 DEF ParseUnlogged
  <2> HIDE DEF t
  <2> QED  BY <1>1, <1>3, <2>1, AuthGood DEF t, Listed, Made
<1>4. CASE ~Refused(s, cmd) /\ cmd \in {"PROT P", "PROT C"}
  <2>1. t = Protection(s, cmd = "PROT P")
    BY <1>4 DEF ParseUnlogged
  <2> DEFINE private == (cmd = "PROT P")
  <2>2. private \in BOOLEAN
    OBVIOUS
  <2> HIDE DEF t, private
  <2>3. Good(t) /\ t.data = s.data
    BY <1>1, <2>1, <2>2, ProtectionGood DEF private
  <2> QED  BY <1>1, <1>4, <2>3 DEF t, Listed, Made
<1>5. CASE ~Refused(s, cmd) /\ cmd = "USER"
  <2>1. t = Enqueue(s)
    BY <1>5 DEF ParseUnlogged
  <2> HIDE DEF t
  <2> QED  BY <1>1, <1>5, <2>1, EnqueueGood DEF t, Listed, Made
<1>6. CASE ~Refused(s, cmd) /\ cmd = "PASS" /\ s.client.last = "USER" /\ right
  <2>1. t = Enqueue([s EXCEPT !.client.logged = TRUE])
    BY <1>6 DEF ParseUnlogged
  <2> HIDE DEF t
  <2> QED  BY <1>1, <1>6, <2>1, LoginGood DEF t, Listed, Made
<1>7. CASE /\ ~Refused(s, cmd) /\ cmd \notin {"AUTH", "PROT P", "PROT C", "USER"}
           /\ ~(cmd = "PASS" /\ s.client.last = "USER" /\ right)
  <2>1. t = Destroy(s)
    BY <1>7 DEF ParseUnlogged
  <2> HIDE DEF t
  <2> QED  BY <1>1, <1>7, <2>1, DestroyGood DEF t, Sound
<1> QED  BY <1>2, <1>3, <1>4, <1>5, <1>6, <1>7

(* A listing is accepted for PROT as it is, which a connection made since  *)
(* PASV was protected by.                                                  *)
LEMMA ListGood ==
  ASSUME NEW s, Good(s), s.client.alive, s.client.logged, NEW full \in BOOLEAN
  PROVE  LET t == List(s, full)
         IN  /\ Good(t) /\ t.client = s.client
             /\ Listed(s, s.client.last) /\ ~s.data.ready => Listed(t, "LIST")
<1>1. CASE ~MayList(s) \/ ~Allowed(s.client.private)
  <2>1. List(s, full) = Enqueue(Cleanup(s))
    BY <1>1 DEF List
  <2> DEFINE t == Cleanup(s)
  <2>2. /\ Good(t) /\ t.client = s.client /\ ~t.data.ready
        /\ t.data.stage = "none" /\ ~t.data.sec.use
    BY CleanupGood
  <2> HIDE DEF t
  <2>3. /\ Good(Enqueue(t)) /\ Enqueue(t).client = t.client /\ Enqueue(t).data = t.data
    BY <2>2, EnqueueGood
  <2>4. Listed(Enqueue(t), "LIST")
    BY <2>2, <2>3 DEF Listed, Made
  <2> QED  BY <2>1, <2>2, <2>3, <2>4 DEF t
<1>2. CASE MayList(s) /\ Allowed(s.client.private)
  <2> DEFINE stage == IF s.data.stage = "none" THEN "connecting" ELSE s.data.stage
             lines == IF full THEN "some" ELSE "none"
             s1 == [s EXCEPT !.data.stage = stage]
             s2 == [s1 EXCEPT !.data.ready = TRUE]
             s3 == [s2 EXCEPT !.data.lines = lines]
  <2>1. List(s, full) = Enqueue(s3)
    BY <1>2 DEF List
  <2>2. stage \in Stages /\ lines \in {"some", "none"}
    BY DEF Good, Sendable, States, Datas, Stages
  <2>3. (stage \in Made <=> s.data.stage \in Made) /\ stage # "none"
    BY DEF Made
  <2> HIDE DEF stage, lines
  <2>4. /\ s1 \in States /\ s1.client = s.client /\ s1.sec = s.sec
        /\ s1.messages = s.messages /\ s1.resume = s.resume /\ s1.forgotten = s.forgotten
        /\ s1.data.stage = stage /\ s1.data.sec = s.data.sec
    BY <2>2 DEF Good, Sendable, States, Datas
  <2> HIDE DEF s1
  <2>5. /\ s2 \in States /\ s2.client = s.client /\ s2.sec = s.sec
        /\ s2.messages = s.messages /\ s2.resume = s.resume /\ s2.forgotten = s.forgotten
        /\ s2.data.stage = stage /\ s2.data.sec = s.data.sec
    BY <2>4 DEF States, Datas
  <2> HIDE DEF s2
  <2>6. /\ s3 \in States /\ s3.client = s.client /\ s3.sec = s.sec
        /\ s3.messages = s.messages /\ s3.resume = s.resume /\ s3.forgotten = s.forgotten
        /\ s3.data.stage = stage /\ s3.data.sec = s.data.sec /\ s3.data.lines = lines
    BY <2>2, <2>5 DEF States, Datas
  <2> HIDE DEF s3
  <2>7. Good(s3)
    BY <2>2, <2>6 DEF Good, Sendable, Believed, Secured, Left, Due, Held, Kept
  <2>8. Listed(s, s.client.last) /\ ~s.data.ready => Listed(s3, "LIST")
    BY <1>2, <2>3, <2>6 DEF Listed, MayList
  <2>9. /\ Good(Enqueue(s3)) /\ Enqueue(s3).client = s3.client
        /\ Enqueue(s3).data = s3.data
    BY <2>6, <2>7, EnqueueGood
  <2>10. Listed(s3, "LIST") => Listed(Enqueue(s3), "LIST")
    BY <2>9 DEF Listed
  <2> QED  BY <2>1, <2>6, <2>8, <2>9, <2>10
<1> QED  BY <1>1, <1>2

LEMMA ParseLoggedGood ==
  ASSUME NEW s, Sound(s), s.client.alive, s.client.logged,
         Pipelining \/ ~s.data.ready, NEW cmd \in Commands, NEW full \in BOOLEAN
  PROVE  LET t == ParseLogged(s, cmd, full)
         IN  Good(t) /\ (~Pipelining /\ t.client.alive => Listed(t, cmd))
<1> DEFINE t == ParseLogged(s, cmd, full)
           q == Cleanup(s)
           d == [q.data EXCEPT !.stage = "listening"]
           p == [q EXCEPT !.data = d]
<1>1. Good(s) /\ (~Pipelining => Listed(s, s.client.last)) /\ s \in States
  BY DEF Sound, Good, Sendable
<1>2. /\ Good(q) /\ q.client = s.client /\ q.sec = s.sec
      /\ ~q.data.ready /\ q.data.stage = "none" /\ ~q.data.sec.use
      /\ q.messages = s.messages /\ q.resume = s.resume /\ q.forgotten = s.forgotten /\ q.data.lines = "none"
  BY <1>1, CleanupGood
<1>3. CASE cmd = "AUTH"
  <2>1. t = Auth(s)
    BY <1>3 DEF ParseLogged
  <2> HIDE DEF t
  <2> QED  BY <1>1, <1>3, <2>1, AuthGood DEF t, Listed, Made
<1>4. CASE cmd \in {"PROT P", "PROT C"}
  <2>1. t = Protection(s, cmd = "PROT P")
    BY <1>4 DEF ParseLogged
  <2> DEFINE private == (cmd = "PROT P")
  <2>2. private \in BOOLEAN
    OBVIOUS
  <2> HIDE DEF t, private
  <2>3. Good(t) /\ t.data = s.data /\ (t.client.logged <=> s.client.logged)
    BY <1>1, <2>1, <2>2, ProtectionGood DEF private
  <2> QED  BY <1>1, <1>4, <2>3 DEF t, Listed, Made
<1>5. CASE cmd = "PASV"
  <2>1. t = Enqueue([q EXCEPT !.data.stage = "listening"])
    BY <1>5 DEF ParseLogged
  <2>2. p = [q EXCEPT !.data.stage = "listening"]
    OBVIOUS
  <2> HIDE DEF q, t
  <2>3. /\ d \in Datas /\ d.stage = "listening" /\ ~d.ready /\ ~d.sec.use
        /\ d.lines = "none"
    BY <1>2 DEF Good, Sendable, States, Datas, Stages
  <2> HIDE DEF d
  <2>4. /\ p \in States /\ p.client = s.client /\ p.data = d /\ p.sec = s.sec
        /\ p.messages = q.messages /\ p.resume = q.resume /\ p.forgotten = q.forgotten
    BY <1>2, <2>3 DEF Good, Sendable, States
  <2>5. t = Enqueue(p)
    BY <2>1, <2>2
  <2> HIDE DEF p
  <2>6. Good(p)
    BY <1>1, <1>2, <2>3, <2>4 DEF Good, Sendable, Believed, Secured, Left, Due, Held, Kept
  <2> QED  BY <1>5, <2>3, <2>4, <2>5, <2>6, EnqueueGood DEF t, Listed, Made
<1>6. CASE cmd \in {"PORT", "other"}
  <2>1. t = Enqueue(q)
    BY <1>6 DEF ParseLogged
  <2> HIDE DEF t, q
  <2> QED  BY <1>2, <2>1, EnqueueGood DEF t, Listed, Made
<1>7. CASE cmd = "LIST"
  <2>1. t = List(s, full)
    BY <1>7 DEF ParseLogged
  <2> HIDE DEF t
  <2> QED  BY <1>1, <1>7, <2>1, ListGood DEF t
<1>8. CASE cmd = "QUIT"
  <2>1. t = Destroy(s)
    BY <1>8 DEF ParseLogged
  <2> HIDE DEF t
  <2> QED  BY <1>1, <2>1, DestroyGood DEF t, Sound
<1>9. CASE cmd \in {"USER", "PASS"}
  <2>1. t = Enqueue(s)
    BY <1>9 DEF ParseLogged
  <2> HIDE DEF t
  <2> QED  BY <1>1, <1>9, <2>1, EnqueueGood DEF t, Listed, Made
<1> QED  BY <1>3, <1>4, <1>5, <1>6, <1>7, <1>8, <1>9 DEF Commands

LEMMA ProcessInputSound ==
  ASSUME NEW s, Sound(s), s.client.alive, Pipelining \/ ~s.data.ready,
         NEW cmd \in Commands, NEW choice \in BOOLEAN
  PROVE  Sound(ProcessInput(s, cmd, choice))
<1> DEFINE t == IF s.client.logged THEN ParseLogged(s, cmd, choice)
                                   ELSE ParseUnlogged(s, cmd, choice)
           last == IF cmd \in Remembered THEN cmd ELSE "none"
           c == [t.client EXCEPT !.last = last]
           r == [t EXCEPT !.client = c]
<1>1. Good(t) /\ (~Pipelining /\ t.client.alive => Listed(t, cmd))
  BY ParseLoggedGood, ParseUnloggedGood
<1>2. ProcessInput(s, cmd, choice) = IF t.client.alive THEN r ELSE t
  BY DEF ProcessInput
<1>5. /\ last \in Commands \cup {"none"}
      /\ last \in {"PASV", "PORT"} => last = cmd
  BY DEF Commands, Remembered
<1> HIDE DEF t, last
<1>3. CASE ~t.client.alive
  <2>1. ~t.data.ready /\ t.data.stage = "none" /\ ~t.data.sec.use
    BY <1>1, <1>3 DEF Good, Sendable, Left
  <2> QED  BY <1>1, <1>2, <1>3, <2>1 DEF Sound, Listed, Made
<1>4. CASE t.client.alive
  <2>1. /\ c \in Clients /\ c.last = last /\ c.private = t.client.private /\ c.alive
        /\ (c.auth <=> t.client.auth) /\ (c.waiting <=> t.client.waiting)
        /\ (c.logged <=> t.client.logged)
    BY <1>1, <1>4, <1>5 DEF Good, Sendable, States, Clients
  <2> HIDE DEF c
  <2>2. /\ r \in States /\ r.client = c /\ r.data = t.data /\ r.sec = t.sec
        /\ r.messages = t.messages /\ r.resume = t.resume /\ r.forgotten = t.forgotten
    BY <1>1, <2>1 DEF Good, Sendable, States
  <2> HIDE DEF r
  <2>3. Good(r)
    BY <1>1, <1>4, <2>1, <2>2 DEF Good, Sendable, Believed, Secured, Left, Due, Held, Kept
  <2>4. ~Pipelining => Listed(r, last)
    BY <1>1, <1>4, <1>5, <2>1, <2>2 DEF Listed
  <2> QED  BY <1>2, <1>4, <2>1, <2>2, <2>3, <2>4 DEF Sound
<1> QED  BY <1>3, <1>4

(*------------------------------ data connection ---------------------------*)
LEMMA DataResumeSendSound ==
  ASSUME NEW s, Sound(s), s.client.alive, s.data.stage = "open", NEW o,
         s.data.sec.use => Callable(s.data.sec, "send")
  PROVE  Sound(DataResumeSend(s, o))
<1> DEFINE again == s.data.sec.use /\ o \in {"wait", "again"}
           y == Io(s.data.sec, "send", o)
           x == Quiet(y)
           lines == IF ~again THEN "none" ELSE IF o = "wait" THEN "forgotten" ELSE "held"
           stage == IF again THEN s.data.stage ELSE "shut"
           d == [stage |-> stage, ready |-> s.data.ready, lines |-> lines, sec |-> x]
           s1 == [s EXCEPT !.data.sec = x]
           s2 == [s1 EXCEPT !.data.lines = lines]
           s3 == [s2 EXCEPT !.data.stage = stage]
<1>1. DataResumeSend(s, o) = s3
  BY DEF DataResumeSend, Sound, Good, States, Datas
<1>2. /\ y \in Contexts /\ y.use = s.data.sec.use
      /\ again /\ o # "wait" => y.op = "send"
  BY IoContext DEF Sound, Good, Sendable, States, Datas
<1> HIDE DEF y
<1>3. /\ x \in Contexts /\ x.use = s.data.sec.use
      /\ again /\ o # "wait" => x.op = "send"
  BY <1>2, QuietContext
<1>4. /\ stage \in Made /\ stage \in Stages /\ lines \in {"none", "held", "forgotten"}
      /\ lines = "held" => stage = "open" /\ again /\ o # "wait"
  BY DEF Made, Stages
<1> HIDE DEF x, stage, lines, again
<1>5. /\ s1 \in States /\ s1.client = s.client /\ s1.sec = s.sec
      /\ s1.messages = s.messages /\ s1.resume = s.resume /\ s1.forgotten = s.forgotten
      /\ s1.data.sec = x /\ s1.data.ready = s.data.ready
  BY <1>3 DEF Sound, Good, Sendable, States, Datas
<1> HIDE DEF s1
<1>6. /\ s2 \in States /\ s2.client = s.client /\ s2.sec = s.sec
      /\ s2.messages = s.messages /\ s2.resume = s.resume /\ s2.forgotten = s.forgotten
      /\ s2.data.sec = x /\ s2.data.ready = s.data.ready /\ s2.data.lines = lines
  BY <1>4, <1>5 DEF States, Datas
<1> HIDE DEF s2
<1>7. /\ s3 \in States /\ s3.client = s.client /\ s3.sec = s.sec
      /\ s3.messages = s.messages /\ s3.resume = s.resume /\ s3.forgotten = s.forgotten
      /\ s3.data.sec = x /\ s3.data.ready = s.data.ready /\ s3.data.stage = stage
      /\ s3.data.lines = lines
  BY <1>4, <1>6 DEF States, Datas
<1> HIDE DEF s3
<1>8. Good(s3)
  BY <1>3, <1>4, <1>7 DEF Sound, Good, Sendable, Believed, Secured, Left, Due, Held, Kept
<1>9. ~Pipelining => Listed(s3, s3.client.last)
  BY <1>3, <1>4, <1>7 DEF Sound, Listed, Made
<1> QED  BY <1>1, <1>8, <1>9 DEF Sound

LEMMA CleanupSound ==
  ASSUME NEW s, Good(s), s.client.alive
  PROVE  Sound(Cleanup(s)) /\ Sound(Cleanup(Enqueue(s)))
<1>1. ASSUME NEW q, Good(q)
      PROVE  Sound(Cleanup(q))
  <2> DEFINE t == Cleanup(q)
  <2>1. Good(t) /\ ~t.data.ready /\ t.data.stage = "none" /\ ~t.data.sec.use
    BY <1>1, CleanupGood
  <2> HIDE DEF t
  <2> QED  BY <2>1 DEF Sound, Listed, Made, t
<1> QED  BY <1>1, EnqueueGood

LEMMA DataWriteSound ==
  ASSUME NEW s, Sound(s), s.client.alive, s.data.stage = "open", NEW o,
         s.data.sec.use => Callable(s.data.sec, "send")
  PROVE  Sound(DataWrite(s, o))
  BY CleanupSound, DataResumeSendSound DEF DataWrite, Sound

(* The layer of the data connection goes on with its negotiation.          *)
LEMMA DataHandshakeSound ==
  ASSUME NEW s, Sound(s), s.client.alive, s.data.sec.op = "handshake", NEW h
  PROVE  Sound([s EXCEPT !.data.sec = Quiet(DoHandshake(@, h))])
<1> DEFINE y == DoHandshake(s.data.sec, h)
           x == Quiet(y)
           t == [s EXCEPT !.data.sec = x]
<1>1. y \in Contexts /\ y.use = s.data.sec.use
  BY HandshakeContext DEF Sound, Good, Sendable, States, Datas
<1> HIDE DEF y
<1>2. x \in Contexts /\ x.use = s.data.sec.use
  BY <1>1, QuietContext
<1> HIDE DEF x
<1>3. /\ t \in States /\ t.client = s.client /\ t.sec = s.sec /\ t.data.sec = x
      /\ t.messages = s.messages /\ t.resume = s.resume /\ t.forgotten = s.forgotten
      /\ t.data.ready = s.data.ready /\ t.data.stage = s.data.stage
      /\ t.data.lines = s.data.lines
  BY <1>2 DEF Sound, Good, Sendable, States, Datas
<1>4. t = [s EXCEPT !.data.sec = Quiet(DoHandshake(@, h))]
  BY DEF x, y
<1> HIDE DEF t
<1>5. Good(t)
  BY <1>3 DEF Sound, Good, Sendable, Believed, Secured, Left, Due, Held, Kept
<1>6. ~Pipelining => Listed(t, t.client.last)
  BY <1>2, <1>3 DEF Sound, Listed, Made
<1> QED  BY <1>4, <1>5, <1>6 DEF Sound

(* A connection that is made is protected as PROT says at that moment.     *)
LEMMA ProtectSound ==
  ASSUME NEW s, Sound(s), s.client.alive, s.data.stage \in {"listening", "connecting"}, NEW h
  PROVE  Sound(Protect([s EXCEPT !.data.stage = "open"], h))
<1> DEFINE r == [s EXCEPT !.data.stage = "open"]
           y == Negotiate(r.data.sec, h)
           x == Quiet(y)
           t == [r EXCEPT !.data.sec = x]
<1>1. /\ r \in States /\ r.client = s.client /\ r.sec = s.sec /\ r.data.sec = s.data.sec
      /\ r.messages = s.messages /\ r.resume = s.resume /\ r.forgotten = s.forgotten
      /\ r.data.ready = s.data.ready /\ r.data.stage = "open" /\ r.data.lines = s.data.lines
  BY DEF Sound, Good, Sendable, States, Datas, Stages
<1>2. Protect(r, h) = IF r.client.private THEN t ELSE r
  BY DEF Protect
<1> HIDE DEF r
<1>3. y \in Contexts /\ y.use
  BY <1>1, NegotiateContext DEF States, Datas
<1> HIDE DEF y
<1>4. x \in Contexts /\ x.use
  BY <1>3, QuietContext
<1> HIDE DEF x
<1>5. /\ t \in States /\ t.client = s.client /\ t.sec = s.sec /\ t.data.sec = x
      /\ t.messages = s.messages /\ t.resume = s.resume /\ t.forgotten = s.forgotten
      /\ t.data.ready = s.data.ready /\ t.data.stage = "open" /\ t.data.lines = s.data.lines
  BY <1>1, <1>4 DEF States, Datas
<1> HIDE DEF t
<1>6. Good(r) /\ Good(t)
  BY <1>1, <1>5 DEF Sound, Good, Sendable, Believed, Secured, Left, Due, Held, Kept
<1>7. s.client.private \in BOOLEAN /\ s.data.sec.use \in BOOLEAN
  BY DEF Sound, Good, Sendable, States, Clients, Datas, Contexts
<1>8. CASE s.client.private
  <2>1. ~Pipelining => Listed(t, t.client.last)
    BY <1>4, <1>5, <1>7, <1>8 DEF Sound, Listed, Made
  <2> QED  BY <1>1, <1>2, <1>6, <1>8, <2>1 DEF Sound, r
<1>9. CASE ~s.client.private
  <2>1. ~Pipelining => Listed(r, r.client.last)
    BY <1>1, <1>7, <1>9 DEF Sound, Listed, Made
  <2> QED  BY <1>1, <1>2, <1>6, <1>9, <2>1 DEF Sound, r
<1> QED  BY <1>7, <1>8, <1>9

(*--------------------------------- actions --------------------------------*)
Safe == /\ Sound(State) /\ sec \in Contexts /\ news = {}
        /\ policy \in [control : Controls, data : DataKinds]

LEMMA Becomes ==
  ASSUME NEW s, Safe, Sound(s), Become(s)
  PROVE  Safe'
<1>1. /\ client' = s.client /\ sec' = Quiet(s.sec) /\ messages' = s.messages
      /\ resume' = s.resume /\ forgotten' = s.forgotten /\ data' = s.data /\ news' = s.news /\ policy' = policy
  BY DEF Become
<1>2. s.sec \in Contexts /\ s.news = {}
  BY DEF Sound, Good, Sendable, States
<1> DEFINE x == Quiet(s.sec)
           z == Quiet(x)
<1>3. x \in Contexts /\ x.use = s.sec.use /\ x.op = s.sec.op /\ x.status = s.sec.status
  BY <1>2, QuietContext
<1> HIDE DEF x
<1>4. z \in Contexts /\ z.use = s.sec.use /\ z.op = s.sec.op /\ z.status = s.sec.status
  BY <1>3, QuietContext
<1>5. State' = [client |-> s.client, sec |-> z, messages |-> s.messages,
                resume |-> s.resume, forgotten |-> s.forgotten, data |-> s.data, news |-> {}]
  BY <1>1 DEF State, x
<1> HIDE DEF z
<1> DEFINE t == [client |-> s.client, sec |-> z, messages |-> s.messages,
                 resume |-> s.resume, forgotten |-> s.forgotten, data |-> s.data, news |-> {}]
<1>6. /\ t \in States /\ t.client = s.client /\ t.sec = z /\ t.messages = s.messages
      /\ t.resume = s.resume /\ t.forgotten = s.forgotten /\ t.data = s.data
  BY <1>4 DEF Sound, Good, Sendable, States
<1>7. State' = t
  BY <1>5
<1> HIDE DEF t
<1>8. Believed(t) /\ Left(t) /\ Due(t) /\ Held(t) /\ Kept(t) /\ (~Pipelining => Listed(t, t.client.last))
  BY <1>4, <1>6 DEF Sound, Good, Sendable, Believed, Left, Due, Held, Kept, Listed
<1>9. Secured(t)
  BY <1>4, <1>6 DEF Sound, Good, Sendable, Secured
<1>10. Sound(State)'
  <2>1. Believed(State)' /\ Left(State)' /\ Due(State)' /\ Held(State)' /\ Kept(State)'
    BY <1>7, <1>8 DEF Believed, Left, Due, Held, Kept
  <2>2. Secured(State)'
    BY <1>1, <1>7, <1>9 DEF Secured
  <2>3. (~Pipelining => Listed(State, State.client.last))'
    BY <1>1, <1>7, <1>8 DEF Listed, Allowed
  <2> QED  BY <1>6, <1>7, <2>1, <2>2, <2>3 DEF Sound, Good, Sendable
<1> QED  BY <1>1, <1>2, <1>3, <1>10 DEF Safe, x

LEMMA SafeInit == Init => Safe
<1> SUFFICES ASSUME Init PROVE Safe
  OBVIOUS
<1>1. /\ client = NoClient /\ data = NoData /\ sec = Setup /\ news = {}
      /\ messages = <<>> /\ resume = <<>> /\ forgotten = FALSE
  BY DEF Init
<1> DEFINE t == [client |-> NoClient, sec |-> Setup, messages |-> <<>>,
                 resume |-> <<>>, forgotten |-> FALSE, data |-> NoData, news |-> {}]
<1>2. NoClient \in Clients /\ NoData \in Datas
  <2>1. NewClient \in Clients
    BY DEF NewClient, Clients
  <2>2. NoClient \in Clients
    BY <2>1 DEF NoClient, Clients
  <2>3. NoData \in Datas
    BY SetupContext DEF NoData, Datas, Stages
  <2> QED  BY <2>2, <2>3
<1>3. t \in States
  <2>1. <<>> \in Seq(Ways)
    OBVIOUS
  <2> QED  BY <1>2, <2>1, SetupContext DEF States
<1>4. Destroy(t) = t
  BY DEF Destroy
<1>5. Sound(t)
  BY <1>3, <1>4, DestroyGood
<1>6. State = t
  <2>1. Quiet(Setup) = Setup
    BY DEF Quiet, Setup
  <2> QED  BY <1>1, <2>1 DEF State
<1> QED  BY <1>1, <1>5, <1>6, SetupContext DEF Safe, Init

LEMMA Alive == ASSUME Safe, client.alive
               PROVE  /\ Sound(State) /\ Good(State) /\ State.client = client
                      /\ State.data = data /\ State.sec = Quiet(sec)
                      /\ State.sec.use = sec.use /\ State.sec.op = sec.op
                      /\ State.sec.status = sec.status /\ State.resume = resume
                      /\ State.forgotten = forgotten
                      /\ sec.op \notin {"shutdown 1", "shutdown 2"}
  BY QuietContext DEF Safe, Sound, Good, Sendable, Believed, State

(* Where TLS is implicit it starts with the connection.                    *)
LEMMA ConnectSafe == Safe /\ Connect => Safe'
<1> SUFFICES ASSUME Safe, Connect PROVE Safe'
  OBVIOUS
<1> DEFINE n == Destroy(State)
           s == [n EXCEPT !.client = NewClient]
           c == [NewClient EXCEPT !.auth = TRUE]
<1>1. /\ n \in States /\ n.messages = <<>> /\ n.resume = <<>>
      /\ n.sec = Setup /\ n.data = NoData
  BY DestroyGood DEF Safe, Sound, Good, Sendable, Destroy
<1> HIDE DEF n
<1>2. /\ NewClient \in Clients /\ c \in Clients /\ c.alive /\ NewClient.alive
      /\ ~NewClient.auth /\ ~NewClient.waiting /\ ~NewClient.logged
      /\ c.auth /\ ~c.waiting /\ ~c.logged
  BY DEF NewClient, Clients
<1>3. /\ Setup \in Contexts /\ ~Setup.use /\ Setup.op = "none"
      /\ <<>> \in Seq(Tls) /\ <<>> \in Seq(Clear)
  BY SetupContext
<1>4. ~NoData.ready /\ NoData.stage = "none" /\ NoData.sec = Setup /\ NoData.lines = "none"
  BY DEF NoData
<1>5. /\ s \in States /\ s.client = NewClient /\ s.sec = Setup /\ s.data = NoData
      /\ s.messages = <<>> /\ s.resume = <<>>
  BY <1>1, <1>2 DEF States
<1>6. CASE policy.control = "implicit"
  <2> PICK h \in HandshakeOutcomes :
         Become(Raised([s EXCEPT !.client.auth = TRUE, !.sec = Negotiate(@, h)]))
    BY <1>6 DEF Connect, n
  <2> DEFINE x == Negotiate(Setup, h)
             r == [s EXCEPT !.client = c]
             t == [r EXCEPT !.sec = x]
  <2>1. x \in Contexts /\ x.use /\ x.op \in {"handshake", "none"}
    BY <1>3, NegotiateContext
  <2>2. t = [s EXCEPT !.client.auth = TRUE, !.sec = Negotiate(@, h)]
    BY <1>5
  <2> HIDE DEF s, c, x
  <2>3. /\ r \in States /\ r.client = c /\ r.sec = Setup /\ r.data = NoData
        /\ r.messages = <<>> /\ r.resume = <<>>
    BY <1>2, <1>5 DEF States
  <2> HIDE DEF r
  <2>4. /\ t \in States /\ t.client = c /\ t.sec = x /\ t.data = NoData
        /\ t.messages = <<>> /\ t.resume = <<>>
    BY <2>1, <2>3 DEF States
  <2> HIDE DEF t
  <2>5. Good(t)
    BY <1>2, <1>3, <1>4, <1>6, <2>1, <2>4 DEF Good, Sendable, Believed, Secured, Left, Due, Held, Kept
  <2> DEFINE q == Raised(t)
  <2>6. Good(q) /\ q.client = c /\ q.data = NoData
    BY <1>2, <2>4, <2>5, RaisedGood
  <2>7. Become(q)
    BY <2>2
  <2> HIDE DEF q
  <2>8. Sound(q)
    BY <1>3, <1>4, <2>6 DEF Sound, Listed, Made
  <2> QED  BY <2>7, <2>8, Becomes
<1>7. CASE policy.control # "implicit"
  <2>1. Become(s)
    BY <1>7 DEF Connect, n
  <2> HIDE DEF s
  <2>2. Good(s)
    BY <1>2, <1>3, <1>4, <1>5, <1>7 DEF Good, Sendable, Believed, Secured, Left, Due, Held, Kept
  <2>3. Sound(s)
    BY <1>3, <1>4, <1>5, <2>2 DEF Sound, Listed, Made
  <2> QED  BY <2>1, <2>3, Becomes
<1> QED  BY <1>6, <1>7

LEMMA ContinueTlsSafe ==
  ASSUME Safe, NEW what, what = sec.op \/ what = "nothing", ContinueTls(what)
  PROVE  Safe'
<1>1. what = "handshake" /\ client.alive
  BY Alive DEF ContinueTls
<1> DEFINE q(o) == [State EXCEPT !.sec = Continue(@, what, o)]
<1> PICK o \in HandshakeOutcomes : Become(Raised(q(o)))
  BY <1>1 DEF ContinueTls
<1> DEFINE x == DoHandshake(State.sec, o)
           t == [State EXCEPT !.sec = x]
<1>2. Become(Raised(t))
  BY <1>1 DEF Continue
<1> HIDE DEF q
<1>3. x \in Contexts /\ x.use = sec.use /\ x.op \in {"handshake", "none"}
  BY <1>1, Alive, HandshakeContext DEF Good, Sendable, States
<1> HIDE DEF x
<1>4. /\ t \in States /\ t.client = client /\ t.sec = x /\ t.data = data
      /\ t.messages = State.messages /\ t.resume = State.resume /\ t.forgotten = State.forgotten
  BY <1>1, <1>3, Alive DEF Good, Sendable, States
<1> DEFINE r == Raised(t)
<1> HIDE DEF t
<1>5. Good(t)
  BY <1>1, <1>3, <1>4, Alive DEF Good, Sendable, Believed, Secured, Left, Due, Held, Kept
<1>6. Good(r) /\ r.client = client /\ r.data = data
  BY <1>1, <1>4, <1>5, RaisedGood
<1> HIDE DEF r
<1>7. Sound(r)
  BY <1>1, <1>6, Alive DEF Sound, Listed
<1> QED  BY <1>2, <1>7, Becomes DEF r

LEMMA ClientReadSafe ==
  ASSUME Safe, client.alive, ClientRead(State)
  PROVE  Safe'
<1> PICK o \in RecvEnds(State) :
       LET t == [State EXCEPT !.sec = Io(@, "recv", o)]
       IN  \/ Become(t) \/ Become(Destroy(t))
           \/ /\ Pipelining \/ ~State.data.ready
              /\ \E cmd \in Commands, choice \in BOOLEAN :
                    Become(ProcessInput(t, cmd, choice))
  BY DEF ClientRead, Choices
<1> DEFINE x == Io(State.sec, "recv", o)
           t == [State EXCEPT !.sec = x]
<1>1. /\ x \in Contexts /\ x.use = sec.use /\ x.op \notin {"shutdown 1", "shutdown 2"}
      /\ sec.op = "send" <=> x.op = "send"
      /\ x.op = "send" => x.use /\ x.status = "want read"
  <2>1. State.sec \in Contexts /\ Waits(State.sec)
    BY Alive DEF Good, Sendable, States, Believed, Waits
  <2>2. /\ x \in Contexts /\ x.use = State.sec.use /\ x.op \in {State.sec.op, "recv", "none"}
        /\ State.sec.op = "send" <=> x.op = "send"
        /\ Waits(x)
    BY <2>1, IoContext
  <2> HIDE DEF x
  <2> QED  BY <2>2, Alive DEF Waits
<1>2. \/ Become(t) \/ Become(Destroy(t))
      \/ /\ Pipelining \/ ~State.data.ready
         /\ \E cmd \in Commands, choice \in BOOLEAN :
               Become(ProcessInput(t, cmd, choice))
  OBVIOUS
<1> HIDE DEF x
<1>3. /\ t \in States /\ t.client = client /\ t.sec = x /\ t.data = data
      /\ t.messages = State.messages /\ t.resume = State.resume /\ t.forgotten = State.forgotten
  BY <1>1, Alive DEF Good, Sendable, States
<1> HIDE DEF t
<1>4. Good(t)
  BY <1>1, <1>3, Alive DEF Good, Sendable, Believed, Secured, Left, Due, Held, Kept
<1>5. Sound(t)
  BY <1>3, <1>4, Alive DEF Sound, Listed
<1>6. CASE Become(t)
  BY <1>5, <1>6, Becomes
<1>7. CASE Become(Destroy(t))
  BY <1>3, <1>7, DestroyGood, Becomes
<1>8. ASSUME Pipelining \/ ~State.data.ready, NEW cmd \in Commands, NEW choice \in BOOLEAN,
             Become(ProcessInput(t, cmd, choice))
      PROVE  Safe'
  <2>1. Sound(ProcessInput(t, cmd, choice))
    BY <1>3, <1>5, <1>8, Alive, ProcessInputSound
  <2> QED  BY <1>8, <2>1, Becomes
<1> QED  BY <1>2, <1>6, <1>7, <1>8

LEMMA SendEndsAre == ASSUME NEW s PROVE SendEnds(s) \subseteq IoOutcomes
  BY SessionAssumption DEF SendEnds, IoOutcomes

LEMMA ClientWriteSafe ==
  ASSUME Safe, client.alive, sec.op # "send", ClientWrite(State)
  PROVE  Safe'
<1>1. CASE ~client.connected
  <2> PICK accept \in BOOLEAN :
         Become(IF accept THEN Enqueue([State EXCEPT !.client.connected = TRUE])
                          ELSE Destroy(State))
    BY <1>1, Alive DEF ClientWrite
  <2>1. CASE ~accept
    BY <2>1, Alive, DestroyGood, Becomes DEF Good, Sendable
  <2>2. CASE accept
    <3> DEFINE c == [client EXCEPT !.connected = TRUE]
               t == [State EXCEPT !.client = c]
               r == Enqueue(t)
    <3>1. /\ c \in Clients /\ c.alive /\ (c.auth <=> client.auth)
          /\ (c.waiting <=> client.waiting) /\ (c.logged <=> client.logged)
          /\ c.private = client.private /\ c.last = client.last
      BY Alive DEF Good, Sendable, States, Clients
    <3>2. Become(r)
      BY <2>2, Alive
    <3> HIDE DEF c
    <3>3. /\ t \in States /\ t.client = c /\ t.sec = State.sec /\ t.data = data
          /\ t.messages = State.messages /\ t.resume = State.resume /\ t.forgotten = State.forgotten
      BY <3>1, Alive DEF Good, Sendable, States
    <3> HIDE DEF t
    <3>4. Good(t)
      BY <3>1, <3>3, Alive DEF Good, Sendable, Believed, Secured, Left, Due, Held, Kept
    <3>5. Good(r) /\ r.client = c /\ r.data = data
      BY <3>1, <3>3, <3>4, EnqueueGood
    <3> HIDE DEF r
    <3>6. Sound(r)
      BY <3>1, <3>5, Alive DEF Sound, Listed
    <3> QED  BY <3>2, <3>6, Becomes
  <2> QED  BY <2>1, <2>2
<1>2. CASE client.connected
  <2> PICK o \in SendEnds(State), h \in HandshakeOutcomes : Become(StartTls(ProcessOutput(State, o), h))
    BY <1>2, Alive DEF ClientWrite, HandshakeOutcomes
  <2> DEFINE s == ProcessOutput(State, o)
             t == StartTls(s, h)
  <2>1. Good(s) /\ s.client = client /\ s.data = data
    BY Alive, ProcessOutputGood, SendEndsAre
  <2>2. Become(t)
    OBVIOUS
  <2> HIDE DEF s
  <2>3. /\ Good(t) /\ t.data = data /\ t.client.private = client.private
        /\ t.client.last = client.last /\ (t.client.logged <=> client.logged)
    BY <2>1, StartTlsGood
  <2> HIDE DEF t
  <2>4. Sound(t)
    BY <2>3, Alive DEF Sound, Listed
  <2> QED  BY <2>2, <2>4, Becomes
<1> QED  BY <1>1, <1>2, Alive DEF Good, Sendable, States, Clients

LEMMA LayerActions ==
  LET known == {"read", "write", "resume-recv", "resume-send", "nothing", sec.op}
  IN  OnReadable(sec) \in known /\ OnWritable(sec) \in known
  BY DEF OnReadable, OnWritable, Resumption

(* What the layer does while it remembers that a send was interrupted.     *)
LEMMA LayerWaits ==
  ASSUME NEW x \in Contexts, Waits(x)
  PROVE  /\ OnReadable(x) = "resume-send" => x.op = "send"
         /\ x.op = "send" => OnReadable(x) = "resume-send" /\ OnWritable(x) = "nothing"
  BY DEF Waits, OnReadable, OnWritable, Resumption, Idle, Contexts, Statuses, Operations

LEMMA ReadableSafe == Safe /\ Readable => Safe'
<1> SUFFICES ASSUME Safe, Readable PROVE Safe'
  OBVIOUS
<1> DEFINE what == OnReadable(sec)
<1>1. /\ client.alive
      /\ \/ ClientRead(State)
         \/ sec.op = "send" /\ \E o \in SendEnds(State) : Become(ResumeSend(State, o))
         \/ ContinueTls(what)
  <2>1. client.alive /\ Waits(sec) /\ sec \in Contexts
    BY Alive DEF Safe, Readable, Good, Sendable, Believed, Waits
  <2> QED  BY <2>1, LayerWaits DEF Readable
<1>2. CASE ClientRead(State)
  BY <1>1, <1>2, ClientReadSafe
<1>3. ASSUME sec.op = "send", NEW o \in SendEnds(State), Become(ResumeSend(State, o))
      PROVE  Safe'
  <2> DEFINE t == ResumeSend(State, o)
  <2>1. Good(t) /\ t.client = client /\ t.data = data
    <3>1. o \in IoOutcomes /\ Sendable(State) /\ State.resume # <<>>
      BY <1>1, <1>3, Alive, SendEndsAre DEF Good, Kept
    <3> QED  BY <1>1, <3>1, Alive, ResumeSendGood
  <2>2. Become(t)
    BY <1>3
  <2> HIDE DEF t
  <2>3. Sound(t)
    BY <1>1, <2>1, Alive DEF Sound, Listed
  <2> QED  BY <2>2, <2>3, Becomes
<1>4. CASE ContinueTls(what)
  <2>1. what \in {"handshake", "shutdown 1", "shutdown 2"}
    BY <1>4 DEF ContinueTls
  <2>2. what = sec.op
    BY <2>1, LayerActions
  <2> HIDE DEF what
  <2> QED  BY <1>4, <2>2, ContinueTlsSafe
<1> QED  BY <1>1, <1>2, <1>3, <1>4

LEMMA WritableSafe == Safe /\ Writable => Safe'
<1> SUFFICES ASSUME Safe, Writable PROVE Safe'
  OBVIOUS
<1> DEFINE what == OnWritable(sec)
<1>1. client.alive /\ ((sec.op # "send" /\ ClientWrite(State)) \/ ContinueTls(what))
  <2>1. client.alive /\ Waits(sec) /\ sec \in Contexts
    BY Alive DEF Safe, Writable, Good, Sendable, Believed, Waits
  <2> QED  BY <2>1, LayerWaits DEF Writable
<1>2. CASE ContinueTls(what)
  <2>1. what \in {"handshake", "shutdown 1", "shutdown 2"}
    BY <1>2 DEF ContinueTls
  <2>2. what = sec.op
    BY <2>1, LayerActions
  <2> HIDE DEF what
  <2> QED  BY <1>2, <2>2, ContinueTlsSafe
<1> QED  BY <1>1, <1>2, ClientWriteSafe

(* A data connection belongs to a client.                                  *)
LEMMA DataAlive == Safe /\ data.stage # "none" => client.alive
  BY DEF Safe, Sound, Good, Sendable, Left, State

LEMMA DataLayer ==
  ASSUME NEW x \in Contexts
  PROVE  /\ OnWritable(x) = "write" /\ x.use => Callable(x, "send")
         /\ OnReadable(x) = "resume-send" /\ x.use => Callable(x, "send")
         /\ OnWritable(x) = "handshake" \/ OnReadable(x) = "handshake" => x.op = "handshake"
  BY DEF OnReadable, OnWritable, Resumption, Idle, Callable, Contexts, Statuses, Operations

LEMMA DataSafe ==
  Safe /\ (DataConnect \/ DataWritable \/ DataReadable \/ DataClosed \/ DataTimeout) => Safe'
<1> SUFFICES ASSUME Safe,
                    DataConnect \/ DataWritable \/ DataReadable \/ DataClosed \/ DataTimeout
             PROVE  Safe'
  OBVIOUS
<1>1. client.alive /\ Sound(State) /\ Good(State) /\ State.client = client /\ State.data = data
  BY Alive, DataAlive DEF DataConnect, DataWritable, DataReadable, DataClosed, DataTimeout
<1>2. CASE DataConnect
  <2>1. CASE Become(Cleanup(State))
    BY <1>1, <2>1, CleanupSound, Becomes
  <2>2. CASE ~Become(Cleanup(State))
    <3> PICK h \in HandshakeOutcomes : Become(Protect([State EXCEPT !.data.stage = "open"], h))
      BY <1>2, <2>2 DEF DataConnect, HandshakeOutcomes
    <3>1. data.stage \in {"listening", "connecting"}
      BY <1>2 DEF DataConnect
    <3>2. Sound(Protect([State EXCEPT !.data.stage = "open"], h))
      BY <1>1, <3>1, ProtectSound
    <3> QED  BY <3>2, Becomes
  <2> QED  BY <2>1, <2>2
<1>3. ASSUME NEW h, data.sec.op = "handshake",
             Become([State EXCEPT !.data.sec = Quiet(DoHandshake(@, h))])
      PROVE  Safe'
  BY <1>1, <1>3, DataHandshakeSound, Becomes
<1>4. CASE DataWritable
  <2>1. ASSUME NEW o \in DataSendEnds, OnWritable(data.sec) = "write", Become(DataWrite(State, o))
        PROVE  Safe'
    <3>1. data.sec.use => Callable(data.sec, "send")
      BY <1>1, <2>1, DataLayer DEF Good, Sendable, States, Datas
    <3> QED  BY <1>1, <1>4, <2>1, <3>1, DataWriteSound, Becomes DEF DataWritable
  <2>2. OnWritable(data.sec) = "handshake" => data.sec.op = "handshake"
    BY <1>1, DataLayer DEF Good, Sendable, States, Datas
  <2> QED  BY <1>3, <1>4, <2>1, <2>2 DEF DataWritable
<1>5. CASE DataReadable
  <2>1. ASSUME NEW o \in DataSendEnds, OnReadable(data.sec) = "resume-send",
               Become(DataResumeSend(State, o))
        PROVE  Safe'
    <3>1. data.sec.use => Callable(data.sec, "send")
      BY <1>1, <2>1, DataLayer DEF Good, Sendable, States, Datas
    <3> QED  BY <1>1, <1>5, <2>1, <3>1, DataResumeSendSound, Becomes DEF DataReadable
  <2>2. OnReadable(data.sec) = "handshake" => data.sec.op = "handshake"
    BY <1>1, DataLayer DEF Good, Sendable, States, Datas
  <2> QED  BY <1>3, <1>5, <2>1, <2>2 DEF DataReadable
<1>6. CASE DataClosed \/ DataTimeout
  BY <1>1, <1>6, CleanupSound, Becomes DEF DataClosed, DataTimeout
<1> QED  BY <1>2, <1>4, <1>5, <1>6

LEMMA SafeStep == Safe /\ [Next]_vars => Safe'
<1> SUFFICES ASSUME Safe, [Next]_vars PROVE Safe'
  OBVIOUS
<1>1. CASE Closed \/ Timeout
  <2>1. State \in States /\ Become(Destroy(State))
    BY <1>1 DEF Closed, Timeout, Safe, Sound, Good, Sendable
  <2> QED  BY <2>1, DestroyGood, Becomes
<1>2. CASE UNCHANGED vars
  <2>1. State' = State
    BY <1>2 DEF vars, State
  <2>2. UNCHANGED <<policy, sec, news>>
    BY <1>2 DEF vars
  <2>3. /\ State \in States /\ Believed(State) /\ Secured(State) /\ Left(State)
        /\ Due(State) /\ Held(State) /\ Kept(State)
    BY DEF Safe, Sound, Good, Sendable
  <2>4. /\ (State \in States)' /\ Believed(State)' /\ Left(State)'
        /\ Due(State)' /\ Held(State)' /\ Kept(State)'
    BY <2>1, <2>3 DEF Believed, Left, Due, Held, Kept
  <2>5. Secured(State)'
    BY <2>1, <2>2, <2>3 DEF Secured
  <2>6. (~Pipelining => Listed(State, State.client.last))'
    BY <2>1, <2>2 DEF Safe, Sound, Listed, Allowed
  <2> QED  BY <2>2, <2>4, <2>5, <2>6 DEF Safe, Sound, Good, Sendable
<1> QED  BY <1>1, <1>2, ConnectSafe, ReadableSafe, WritableSafe, DataSafe DEF Next

LEMMA SafeMeans ==
  Safe => /\ TypeOK /\ PolicyKept /\ AuthAgrees /\ (~Pipelining => ListingAsAllowed)
          /\ RepliesDoNotCross /\ Awaited
<1> SUFFICES ASSUME Safe
             PROVE  /\ TypeOK /\ PolicyKept /\ AuthAgrees
                    /\ ~Pipelining => ListingAsAllowed
                    /\ RepliesDoNotCross /\ Awaited
  OBVIOUS
<1>1. /\ State.client = client /\ State.messages = messages /\ State.resume = resume
      /\ State.data = data /\ State.sec.use = sec.use /\ State.sec.op = sec.op
      /\ State.forgotten = forgotten
  BY QuietContext DEF Safe, State
<1>2. State \in States /\ sec \in Contexts /\ news = {}
  BY DEF Safe, Sound, Good, Sendable
<1>3. TypeOK
  <2>1. /\ client \in Clients /\ messages \in Seq(Ways) /\ resume \in Seq(Ways)
        /\ data \in Datas /\ forgotten \in BOOLEAN
    BY <1>1, <1>2 DEF States
  <2>2. ~client.alive => messages = <<>> /\ resume = <<>> /\ data.stage = "none"
    BY <1>1 DEF Safe, Sound, Good, Sendable, Left
  <2>3. /\ data.stage \in Stages /\ data.ready \in BOOLEAN
        /\ data.lines \in {"none", "some", "held", "forgotten"} /\ data.sec \in Contexts
    BY <2>1 DEF Datas
  <2> QED  BY <1>2, <2>1, <2>2, <2>3 DEF TypeOK, Clients, Stages
<1>4. PolicyKept
  BY <1>1 DEF Safe, Sound, Good, Sendable, Secured, PolicyKept
<1>5. AuthAgrees
  <2>1. sec.use \in BOOLEAN /\ client.auth \in BOOLEAN /\ client.waiting \in BOOLEAN
    BY <1>1, <1>2 DEF States, Clients, Contexts
  <2>2. client.alive => (sec.use <=> (client.auth /\ ~client.waiting))
    BY <1>1 DEF Safe, Sound, Good, Sendable, Believed
  <2> QED  BY <2>1, <2>2 DEF AuthAgrees
<1>6. ~Pipelining => ListingAsAllowed
  BY <1>1 DEF Safe, Sound, Listed, ListingAsAllowed, Made
<1>7. RepliesDoNotCross
  BY <1>2 DEF RepliesDoNotCross
<1>8. Awaited
  BY <1>1 DEF Safe, Sound, Good, Sendable, Held, Kept, Awaited
<1> QED  BY <1>3, <1>4, <1>5, <1>6, <1>7, <1>8

(* Nobody is logged in over a connection that the configuration forbids,   *)
(* and what PROT and CCC are decided by is what the connection is, for any *)
(* client (ftpd_client_parse_unlogged_input, ftpd_client_write).           *)
THEOREM ControlIsProtected == Spec => [](PolicyKept /\ AuthAgrees)
  BY SafeInit, SafeStep, SafeMeans, PTL DEF Spec

(* For a client that waits for its listing, that is protected as the       *)
(* configuration says as well (ftpd_client_data_connect).                  *)
THEOREM ListingsAreProtected ==
  ASSUME ~Pipelining
  PROVE  Spec => []ProtectionAgrees
<1>1. Safe => ProtectionAgrees
  BY SafeMeans DEF ProtectionAgrees
<1> QED  BY <1>1, SafeInit, SafeStep, PTL DEF Spec

(* Every reply goes the way its command came, whatever interrupts a send   *)
(* and whenever the negotiation ends (ftpd_client_write).                  *)
THEOREM RepliesGoTheirWay == Spec => []RepliesDoNotCross
  BY SafeInit, SafeStep, SafeMeans, PTL DEF Spec

(* While the layer remembers an interrupted send, only that send goes on,  *)
(* with what it was called with.                                           *)
LEMMA ResumedStep ==
  Safe /\ [Next]_vars =>
     (sec.op = "send" /\ client'.alive => resume' \in {resume, <<>>})
<1> SUFFICES ASSUME Safe, [Next]_vars, sec.op = "send", client'.alive
             PROVE  resume' \in {resume, <<>>}
  OBVIOUS
<1>1. ASSUME NEW s, Become(s)
      PROVE  resume' = s.resume /\ client' = s.client
  BY <1>1 DEF Become
<1>2. State.resume = resume /\ "resume" \in DOMAIN State
  BY DEF State
<1>3. ASSUME NEW s, s.resume = resume, "resume" \in DOMAIN s
      PROVE  Cleanup(s).resume = resume
  BY <1>3 DEF Cleanup
<1>4. ASSUME NEW s, s.resume = resume, "resume" \in DOMAIN s
      PROVE  Enqueue(s).resume = resume /\ "resume" \in DOMAIN Enqueue(s)
  BY <1>4 DEF Enqueue
<1>5. ASSUME NEW s, s.resume = resume, "resume" \in DOMAIN s, NEW o
      PROVE  DataResumeSend(s, o).resume = resume
  BY <1>5 DEF DataResumeSend
<1>6. client.alive /\ Waits(sec) /\ sec \in Contexts
  <2>1. client.alive
    BY QuietContext DEF Safe, Sound, Good, Sendable, Left, Believed, State
  <2> QED  BY <2>1, Alive DEF Safe, Good, Sendable, Believed, Waits
<1>7. ~Connect
  BY <1>6 DEF Connect
<1>8. CASE UNCHANGED vars
  BY <1>8 DEF vars
<1>9. CASE Closed \/ Timeout
  BY <1>1, <1>9 DEF Closed, Timeout, Destroy, NoClient, NewClient
<1>10. CASE Readable
  <2>1. OnReadable(sec) = "resume-send"
    BY <1>6, LayerWaits
  <2>2. PICK o \in SendEnds(State) : Become(ResumeSend(State, o))
    BY <1>10, <2>1 DEF Readable, ContinueTls
  <2>3. ResumeSend(State, o).resume \in {resume, <<>>}
    BY <1>2 DEF ResumeSend
  <2> QED  BY <1>1, <2>2, <2>3
<1>11. ~Writable
  BY <1>6, LayerWaits DEF Writable, ContinueTls
<1>12. CASE DataConnect
  <2>1. CASE Become(Cleanup(State))
    BY <1>1, <1>2, <1>3, <2>1
  <2>2. CASE ~Become(Cleanup(State))
    <3>1. PICK h : Become(Protect([State EXCEPT !.data.stage = "open"], h))
      BY <1>12, <2>2 DEF DataConnect
    <3>2. Protect([State EXCEPT !.data.stage = "open"], h).resume = resume
      BY <1>2 DEF Protect
    <3> QED  BY <1>1, <3>1, <3>2
  <2> QED  BY <2>1, <2>2
<1>13. CASE DataWritable \/ DataReadable
  <2>1. ASSUME NEW h, Become([State EXCEPT !.data.sec = Quiet(DoHandshake(@, h))])
        PROVE  resume' = resume
    <3>1. [State EXCEPT !.data.sec = Quiet(DoHandshake(@, h))].resume = resume
      BY <1>2
    <3> QED  BY <1>1, <2>1, <3>1
  <2>2. ASSUME NEW o, Become(DataResumeSend(State, o))
        PROVE  resume' = resume
    BY <1>1, <1>2, <1>5, <2>2
  <2>3. ASSUME NEW o, Become(DataWrite(State, o))
        PROVE  resume' = resume
    <3>1. DataWrite(State, o).resume = resume
      BY <1>2, <1>3, <1>4, <1>5 DEF DataWrite
    <3> QED  BY <1>1, <2>3, <3>1
  <2> QED  BY <1>13, <2>1, <2>2, <2>3 DEF DataWritable, DataReadable
<1>14. CASE DataClosed \/ DataTimeout
  BY <1>1, <1>2, <1>3, <1>4, <1>14 DEF DataClosed, DataTimeout
<1> QED  BY <1>7, <1>8, <1>9, <1>10, <1>11, <1>12, <1>13, <1>14 DEF Next

(* What a send has left over is sent again by the signal the layer raises, *)
(* as it is and before anything else, unless the layer has forgotten the   *)
(* call (secure_send, ftpd_client_resume_send), for any answer of OpenSSL. *)
THEOREM WhatIsLeftIsResumed == Spec => ResumedUnchanged
<1>1. Safe => Awaited
  BY SafeMeans
<1> QED  BY <1>1, SafeInit, SafeStep, ResumedStep, PTL DEF Spec, ResumedUnchanged
================================================================================
