-------------------------------- MODULE Session ---------------------------------
(***************************************************************************)
(* The control connection of an FTP client (ftpd.c): greeting, login, the  *)
(* start of TLS, the replies and their buffer, and its data connection     *)
(* with the master, on which directories are listed.  Both connections go  *)
(* through a context of Secure.                                            *)
(*                                                                         *)
(* An action is one event of a socket (what the layer does with it, and    *)
(* the handler it may lead to) or one timeout.  A read brings at most one  *)
(* line: the lines of one read are handled one after the other, as those   *)
(* of several reads with no write between them.                            *)
(*                                                                         *)
(* Left out: transfers with a slave (Transfer), what names and replies     *)
(* say, lines that are cut, accounts but for whether the login succeeds.   *)
(***************************************************************************)
EXTENDS Secure, Sequences, FiniteSets
CONSTANTS
    Controls,   \* the values of xftpd.secure.control that are explored
    DataKinds,  \* and of xftpd.secure.data
    Network,    \* what may come of an I/O operation besides success
    Pipelining, \* the client sends commands while a listing is on its way
    MaxReplies  \* bound on the replies that wait to be sent
ASSUME SessionAssumption ==
    /\ Controls \subseteq {"never", "always", "both", "implicit"}
    /\ DataKinds \subseteq {"never", "always", "both"}
    /\ Network \subseteq IoOutcomes \ {"done"}
    /\ Pipelining \in BOOLEAN /\ MaxReplies \in Nat \ {0}

VARIABLES
    policy,     \* ftpd_secure_control_type and ftpd_secure_data_type
    client,     \* struct ftpd_client_ctx
    sec,        \* client->secure
    messages,   \* client->messages: how each reply's command came, or "note"
    resume,     \* client->resume_buffer
    forgotten,  \* history: the layer does not remember what resume waits for
    data,       \* client->data_ctx, passive and ready
    news        \* the last step sent a reply in another way than its command came
vars == <<policy, client, sec, messages, resume, forgotten, data, news>>

State == [client |-> client, sec |-> Quiet(sec), messages |-> messages,
          resume |-> resume, forgotten |-> forgotten, data |-> data, news |-> {}]
Become(s) == /\ client' = s.client /\ sec' = Quiet(s.sec) /\ messages' = s.messages
             /\ resume' = s.resume /\ forgotten' = s.forgotten
             /\ data' = s.data /\ news' = s.news
             /\ UNCHANGED policy

NoData == [stage |-> "none", ready |-> FALSE, lines |-> "none", sec |-> Setup]
NewClient == [alive |-> TRUE, connected |-> FALSE, logged |-> FALSE, auth |-> FALSE,
              waiting |-> FALSE, private |-> FALSE, last |-> "none"]
NoClient == [NewClient EXCEPT !.alive = FALSE]

Init ==
    /\ policy \in [control : Controls, data : DataKinds]
    /\ client = NoClient /\ sec = Setup /\ messages = <<>> /\ resume = <<>>
    /\ forgotten = FALSE /\ data = NoData /\ news = {}

(*---------------------------------- replies -------------------------------*)
Way(s) == IF s.sec.use THEN "tls" ELSE "clear"
(* ftpd_client_text_enqueue, for a reply and for a line without a code.    *)
Enqueue(s) == [s EXCEPT !.messages = Append(@, Way(s))]
EnqueueNote(s) == [s EXCEPT !.messages = Append(@, "note")]

(* ftpd_client_cleanup_data_connection, as far as listings go.             *)
Cleanup(s) == [s EXCEPT !.data = [NoData EXCEPT !.sec = Quiet(Close(s.data.sec))]]
(* ftpd_client_destroy: replies that wait are not sent.                    *)
Destroy(s) == [client |-> NoClient, sec |-> Setup, messages |-> <<>>,
               resume |-> <<>>, forgotten |-> FALSE, data |-> NoData, news |-> s.news]

(* ftpd_client_resume_send: unless the call has to be repeated, the buffer *)
(* goes, whatever was sent of it.                                          *)
ResumeSend(s, o) ==
    LET again == s.sec.use /\ Callable(s.sec, "send") /\ o \in {"wait", "again"}
        crossed == \E i \in 1 .. Len(s.resume) : s.resume[i] \notin {Way(s), "note"}
    IN  [s EXCEPT !.sec = Io(@, "send", o),
                  !.resume = IF again THEN @ ELSE <<>>,
                  !.forgotten = again /\ o = "wait",
                  !.news = IF crossed THEN @ \cup {"crossed"} ELSE @]
(* ftpd_client_process_output: lines without a code wait for a reply.      *)
HasCode(s) == \E i \in 1 .. Len(s.messages) : s.messages[i] # "note"
ProcessOutput(s, o) ==
    IF HasCode(s) THEN ResumeSend([s EXCEPT !.resume = s.messages, !.messages = <<>>], o)
                  ELSE s

(* ftpd_client_secure_connect; ftpd_client_secure_error does nothing.      *)
Raised(s) == IF s.sec.raised = "connect" THEN EnqueueNote([s EXCEPT !.sec = Quiet(@)]) ELSE s
(* The reply to AUTH has to be sent first.                                 *)
MayNegotiate(s) == s.messages = <<>> /\ s.client.waiting
(* The end of ftpd_client_write.                                           *)
StartTls(s, h) ==
    IF ~MayNegotiate(s) THEN s
    ELSE Raised([s EXCEPT !.client.waiting = FALSE,
                          !.sec = IF s.client.auth THEN Negotiate(@, h) ELSE Drop(@, h)])

(*---------------------------------- commands ------------------------------*)
Commands == {"AUTH", "PROT P", "PROT C", "USER", "PASS", "PASV", "PORT", "LIST", "QUIT", "other"}

(* Variant: AUTH starts the negotiation at once.                           *)
AuthNow(s) ==
    CASE policy.control = "never" -> Destroy(s)
      [] policy.control = "implicit" \/ s.client.auth -> Enqueue(s)
      [] OTHER -> [Enqueue(s) EXCEPT !.client.auth = TRUE, !.sec = Negotiate(@, "read")]
(* AUTH: the reply is sent in clear, then the negotiation starts.          *)
Auth(s) ==
    CASE policy.control = "never" -> Destroy(s)
      [] policy.control = "implicit" \/ s.client.auth -> Enqueue(s)
      [] OTHER -> Enqueue([s EXCEPT !.client.auth = TRUE, !.client.waiting = TRUE])
(* PROT.                                                                   *)
Protection(s, private) ==
    Enqueue(IF s.client.auth THEN [s EXCEPT !.client.private = private] ELSE s)

(* The tests at the top of ftpd_client_parse_unlogged_input.               *)
Refused(s, cmd) == \/ policy.control = "always" /\ ~s.client.auth /\ cmd # "AUTH"
                   \/ s.client.waiting

(* ftpd_client_parse_unlogged_input.  A handler that returns 0 has the     *)
(* client destroyed; "right" is whether account, password and scripts      *)
(* accept the login.                                                       *)
ParseUnlogged(s, cmd, right) ==
    CASE Refused(s, cmd) -> Enqueue(s)
      [] ~Refused(s, cmd) /\ cmd = "AUTH" -> Auth(s)
      [] ~Refused(s, cmd) /\ cmd \in {"PROT P", "PROT C"} -> Protection(s, cmd = "PROT P")
      [] ~Refused(s, cmd) /\ cmd = "USER" -> Enqueue(s)
      [] ~Refused(s, cmd) /\ cmd = "PASS" /\ s.client.last = "USER" /\ right ->
            Enqueue([s EXCEPT !.client.logged = TRUE])
      [] OTHER -> Destroy(s)

MayList(s) == s.client.last \in {"PASV", "PORT"}
Allowed(private) == policy.data = "both" \/ private = (policy.data = "always")

(* LIST: passive, or towards the address of PORT; some directories are     *)
(* empty.                                                                  *)
List(s, full) ==
    IF ~MayList(s) \/ ~Allowed(s.client.private)
      THEN Enqueue(Cleanup(s))
      ELSE Enqueue([s EXCEPT !.data.stage = IF @ = "none" THEN "connecting" ELSE @,
                             !.data.ready = TRUE,
                             !.data.lines = IF full THEN "some" ELSE "none"])

(* ftpd_client_parse_logged_input.  A command it does not know cleans the  *)
(* data connection up.                                                     *)
ParseLogged(s, cmd, full) ==
    CASE cmd = "AUTH" -> Auth(s)
      [] cmd \in {"PROT P", "PROT C"} -> Protection(s, cmd = "PROT P")
      [] cmd = "PASV" -> Enqueue([Cleanup(s) EXCEPT !.data.stage = "listening"])
      [] cmd = "PORT" -> Enqueue(Cleanup(s))
      [] cmd = "LIST" -> List(s, full)
      [] cmd = "QUIT" -> Destroy(s)
      [] cmd = "other" -> Enqueue(Cleanup(s))
      [] OTHER -> Enqueue(s)

(* A line of ftpd_client_process_input; last_command is set after it, and  *)
(* asked about for these only.                                             *)
Remembered == {"USER", "PASV", "PORT"}
ProcessInput(s, cmd, choice) ==
    LET t == IF s.client.logged THEN ParseLogged(s, cmd, choice)
                                ELSE ParseUnlogged(s, cmd, choice)
        last == IF cmd \in Remembered THEN cmd ELSE "none"
    IN  IF t.client.alive THEN [t EXCEPT !.client.last = last] ELSE t

(*------------------------------ control connection ------------------------*)
(* ftpd_connect and ftpd_client_new: TLS starts at once where it is        *)
(* implicit.                                                               *)
Connect ==
    /\ ~client.alive
    /\ LET s == [Destroy(State) EXCEPT !.client = NewClient]
       IN  IF policy.control = "implicit"
             THEN \E h \in HandshakeOutcomes :
                     Become(Raised([s EXCEPT !.client.auth = TRUE, !.sec = Negotiate(@, h)]))
             ELSE Become(s)

(* The layer goes on with its own operation: after an event of the socket. *)
ContinueTls(what) ==
    /\ client.alive /\ what \in {"handshake", "shutdown 1", "shutdown 2"}
    /\ \E o \in IF what = "handshake" THEN HandshakeOutcomes ELSE ShutdownOutcomes :
          Become(Raised([State EXCEPT !.sec = Continue(@, what, o)]))

(* Whether a login is accepted, and whether a directory has anything in it.*)
Choices(cmd) == IF cmd \in {"PASS", "LIST"} THEN BOOLEAN ELSE {TRUE}
(* ftpd_client_read ends when nothing more is there, or on an error, which *)
(* destroys the client unless errno has kept EWOULDBLOCK from earlier.     *)
RecvEnds(s) == {"wait"} \cup (Network \ IF s.sec.use THEN {} ELSE {"again"})
ClientRead(s) ==
    \E o \in RecvEnds(s) :
       LET t == [s EXCEPT !.sec = Io(@, "recv", o)]
       IN  \/ /\ o \in {"wait", "again"} \/ s.sec.use
              /\ \/ Become(t)
                 \/ /\ Len(s.messages) < MaxReplies /\ (Pipelining \/ ~s.data.ready)
                    /\ \E cmd \in Commands : \E choice \in Choices(cmd) :
                          Become(ProcessInput(t, cmd, choice))
           \/ o \notin {"wait", "again"} /\ Become(Destroy(t))
SendEnds(s) == {"done"} \cup (Network \ IF s.sec.use THEN {} ELSE {"again"})
(* ftpd_client_write.  Scripts may refuse the connection when it starts.   *)
ClientWrite(s) ==
    IF ~s.client.connected
      THEN \E accept \in BOOLEAN :
              Become(IF accept THEN Enqueue([s EXCEPT !.client.connected = TRUE])
                               ELSE Destroy(s))
      ELSE \E o \in SendEnds(s), h \in IF s.client.waiting THEN HandshakeOutcomes ELSE {"done"} :
              Become(StartTls(ProcessOutput(s, o), h))

Readable ==
    /\ client.alive
    /\ LET what == OnReadable(sec)
       IN  \/ what \in {"read", "resume-recv"} /\ ClientRead(State)
           \/ what = "resume-send" /\ \E o \in SendEnds(State) : Become(ResumeSend(State, o))
           \/ ContinueTls(what)
Writable ==
    /\ client.alive
    /\ \/ OnWritable(sec) = "write" /\ ClientWrite(State)
       \/ ContinueTls(OnWritable(sec))

(* ftpd_client_close; a client that has been quiet for too long ends so too.*)
Closed == client.alive /\ Become(Destroy(State))
(* Variant: only a handshake is timed.                                     *)
StuckHandshake == client.alive /\ sec.op = "handshake"
(* ftpd_client_read_timeout and ftpd_client_write_timeout: no command can  *)
(* come while the layer keeps its signals.                                 *)
Stuck == client.alive /\ ~Idle(sec)
Timeout == Stuck /\ Become(Destroy(State))

(*------------------------------- data connection --------------------------*)
(* Variant: the data connection is never protected.                        *)
ProtectClear(s, h) == s
(* The end of ftpd_client_data_connect.                                    *)
Protect(s, h) ==
    IF s.client.private THEN [s EXCEPT !.data.sec = Quiet(Negotiate(@, h))] ELSE s
DataConnect ==
    /\ data.stage \in {"listening", "connecting"}
    /\ \/ data.stage = "listening" /\ Become(Cleanup(State))
       \/ \E h \in IF client.private THEN HandshakeOutcomes ELSE {"done"} :
             Become(Protect([State EXCEPT !.data.stage = "open"], h))

(* ftpd_client_data_resume_send: then the end of the stream is sent.       *)
DataResumeSend(s, o) ==
    LET again == s.data.sec.use /\ o \in {"wait", "again"}
    IN  [s EXCEPT !.data.sec = Quiet(Io(@, "send", o)),
                  !.data.lines = IF ~again THEN "none" ELSE IF o = "wait" THEN "forgotten" ELSE "held",
                  !.data.stage = IF again THEN @ ELSE "shut"]
(* ftpd_client_data_write.                                                 *)
DataWrite(s, o) ==
    CASE ~s.data.ready -> s
      [] s.data.ready /\ s.data.lines = "some" -> DataResumeSend(s, o)
      [] OTHER -> Cleanup(Enqueue(s))

DataSendEnds == SendEnds([sec |-> data.sec])
DataWritable ==
    /\ data.stage = "open"
    /\ \/ /\ OnWritable(data.sec) = "write"
          /\ \E o \in DataSendEnds : Become(DataWrite(State, o))
       \/ /\ OnWritable(data.sec) = "handshake"
          /\ \E h \in HandshakeOutcomes :
                Become([State EXCEPT !.data.sec = Quiet(DoHandshake(@, h))])
DataReadable ==
    /\ data.stage = "open"
    /\ \/ /\ OnReadable(data.sec) = "resume-send"
          /\ \E o \in DataSendEnds : Become(DataResumeSend(State, o))
       \/ /\ OnReadable(data.sec) = "handshake"
          /\ \E h \in HandshakeOutcomes :
                Become([State EXCEPT !.data.sec = Quiet(DoHandshake(@, h))])

(* ftpd_client_data_close and ftpd_client_data_error.                      *)
DataClosed == data.stage # "none" /\ Become(Cleanup(Enqueue(State)))
(* ftpd_client_data_connect_timeout and ftpd_client_data_write_timeout:    *)
(* the second goes when the listing has been sent.                         *)
DataTimeout == /\ \/ data.stage \in {"listening", "connecting"}
                  \/ data.stage = "open" /\ ~Idle(data.sec)
               /\ Become(Cleanup(Enqueue(State)))

Next == \/ Connect \/ Readable \/ Writable \/ Closed \/ Timeout
        \/ DataConnect \/ DataWritable \/ DataReadable \/ DataClosed \/ DataTimeout
Spec == Init /\ [][Next]_vars
(* The loop of main polls every socket and every timeout, and a socket is  *)
(* written in the same pass in which it was read: a read that leaves the   *)
(* layer idle is followed by a write.  The client is only assumed to close *)
(* the data connection once it has the listing.                            *)
FairSpec == /\ Spec /\ SF_vars(Writable) /\ WF_vars(Timeout)
            /\ SF_vars(DataWritable) /\ WF_vars(DataTimeout)
            /\ WF_vars(data.stage = "shut" /\ DataClosed)

--------------------------------------------------------------------------------
Ways == {"clear", "tls", "note"}
TypeOK ==
    /\ client \in [alive : BOOLEAN, connected : BOOLEAN, logged : BOOLEAN, auth : BOOLEAN,
                   waiting : BOOLEAN, private : BOOLEAN, last : Commands \cup {"none"}]
    /\ sec \in Contexts /\ messages \in Seq(Ways) /\ resume \in Seq(Ways)
    /\ data.stage \in {"none", "listening", "connecting", "open", "shut"}
    /\ data.ready \in BOOLEAN /\ data.lines \in {"none", "some", "held", "forgotten"}
    /\ forgotten \in BOOLEAN /\ data.sec \in Contexts /\ news \subseteq {"crossed"}
    /\ ~client.alive => messages = <<>> /\ resume = <<>> /\ data.stage = "none"

(* What the configuration says of control connections is kept: where they  *)
(* must be secure nobody is logged in over a plain one, and where they     *)
(* must not be none is secure (ftpd.c:307, "always use secure connection").*)
PolicyKept ==
    /\ policy.control \in {"always", "implicit"} /\ client.logged => sec.use
    /\ policy.control = "never" => ~sec.use

(* What the commands believe of the connection, by auth and ssl_waiting,   *)
(* is what it is: PROT and CCC are decided by the one, I/O by the other.   *)
AuthAgrees == client.alive => sec.use = (client.auth /\ ~client.waiting)

(* A reply goes the way its command came: all that is due in clear, the    *)
(* reply to AUTH too, is sent before the negotiation (ftpd.c:3829).        *)
RepliesDoNotCross == "crossed" \notin news

(* A buffer that has to be sent again is one the layer will ask for, by    *)
(* the signal secure-resume-send, and the layer asks for no other; except  *)
(* where OpenSSL wants a call repeated without renegotiating, as it does   *)
(* when the socket is full: secure.h:161 and 190 promise the signal, and   *)
(* the layer forgets the call (secure.c:686-706).                          *)
Awaited == /\ resume # <<>> => sec.op = "send" \/ forgotten
           /\ sec.op = "send" => resume # <<>>
           /\ data.lines = "held" => data.sec.op = "send"
(* Such a buffer is sent as it is before anything else is, and nothing     *)
(* takes its place ("must be repeated with exactly the same parameters",   *)
(* secure.h:194), whatever replies come meanwhile.  One that is forgotten  *)
(* is freed when the next reply is sent.                                   *)
ResumedUnchanged ==
    [][/\ Awaited'
       /\ sec.op = "send" /\ client'.alive => resume' \in {resume, <<>>}]_vars

(* A listing is sent as xftpd.secure.data says, though that is checked at  *)
(* LIST and done when the connection is made, before or after it.          *)
ListingAsAllowed ==
    data.ready /\ data.stage \in {"open", "shut"} => Allowed(data.sec.use)

(* What protects either connection is what the configuration says and what *)
(* the commands believe, at every moment between AUTH and the handshake.   *)
ProtectionAgrees == TypeOK /\ PolicyKept /\ AuthAgrees /\ ListingAsAllowed

(* The negotiation that a 234 announces is due as long as the 234 is not   *)
(* sent, and begins with it: no write may send the one without the other.  *)
AuthIsFollowed == client.waiting => HasCode(State)
(* A reply is sent sooner or later, or the client closed: no renegotiation *)
(* and no failure of TLS leaves one waiting for ever.                      *)
RepliesEnd == HasCode(State) ~> ~HasCode(State)
(* A listing that was accepted ends.                                       *)
ListingEnds == data.ready ~> ~data.ready
(* What a client is told to expect comes, or the client is closed.         *)
PromisesEnd == []AuthIsFollowed /\ RepliesEnd /\ ListingEnds
================================================================================
