--------------------------------- MODULE Secure ---------------------------------
(***************************************************************************)
(* The layer between a socket and its user that may be a TLS connection    *)
(* (secure.c).  A context remembers the operation of OpenSSL that could    *)
(* not be finished and what it waits for, and decides from these which of  *)
(* the signals of the socket reach its user.  Operations take a context    *)
(* and the outcome of the call of OpenSSL, and return the next context;    *)
(* "raised" is the signal the operation has raised.                        *)
(***************************************************************************)
EXTENDS Naturals

Statuses == {"none", "want read", "want write", "connected", "error"}
Operations == {"none", "handshake", "recv", "send", "shutdown 1", "shutdown 2"}
Signals == {"none", "read", "write", "resume-recv", "resume-send", "connect", "error"}
Contexts == [use : BOOLEAN, status : Statuses, op : Operations, raised : Signals]

(* What SSL_do_handshake, SSL_read, SSL_write and SSL_shutdown may answer:  *)
(* "read" and "write" are the errors WANT_READ and WANT_WRITE, "again"     *)
(* either of them while the library renegotiates, "fatal" any other error  *)
(* or the orderly end of the TLS connection, which are handled alike.      *)
HandshakeOutcomes == {"done", "read", "write", "fatal"}
IoOutcomes == {"done", "wait", "again", "fatal"}
ShutdownOutcomes == {"done", "half", "read", "write", "fatal"}

Setup == [use |-> FALSE, status |-> "none", op |-> "none", raised |-> "none"]

Failed(x) == [x EXCEPT !.status = "error", !.op = "none", !.raised = "error"]

DoHandshake(x, o) ==
    CASE o = "done" -> [x EXCEPT !.status = "connected", !.op = "none", !.raised = "connect"]
      [] o = "read" -> [x EXCEPT !.status = "want read", !.op = "handshake"]
      [] o = "write" -> [x EXCEPT !.status = "want write", !.op = "handshake"]
      [] OTHER -> Failed(x)

(* Back to the plain socket.                                               *)
Unprotected(x) == [x EXCEPT !.use = FALSE, !.status = "connected", !.op = "none"]

(* "want write" waits for the socket to be readable here, as it does in    *)
(* the code.                                                               *)
DoShutdown1(x, o) ==
    CASE o = "done" -> Unprotected(x)
      [] o = "half" -> [x EXCEPT !.status = "want write", !.op = "shutdown 2"]
      [] o \in {"read", "write"} -> [x EXCEPT !.status = "want read", !.op = "shutdown 1"]
      [] OTHER -> Failed(x)

DoShutdown2(x, o) ==
    CASE o = "done" -> Unprotected(x)
      [] o \in {"read", "write"} -> [x EXCEPT !.status = "want read", !.op = "shutdown 2"]
      [] OTHER -> Failed(x)

(* The socket is the user's: no TLS, or nothing left to finish.            *)
Idle(x) == ~x.use \/ (x.status \notin {"none", "error"} /\ x.op = "none")

(* What an event of the socket lets the layer do: raise a signal, finish   *)
(* an operation of its own, or nothing.                                    *)
Resumption(op) ==
    CASE op = "recv" -> "resume-recv" [] op = "send" -> "resume-send" [] OTHER -> op
(* secure_socket_read and secure_socket_write.                             *)
OnReadable(x) == CASE Idle(x) -> "read"
                   [] ~Idle(x) /\ x.status = "want read" -> Resumption(x.op)
                   [] OTHER -> "nothing"
OnWritable(x) == CASE Idle(x) -> "write"
                   [] ~Idle(x) /\ x.status = "want write" -> Resumption(x.op)
                   [] OTHER -> "nothing"
(* The operations the layer finishes by itself.                            *)
Continue(x, what, o) ==
    CASE what = "handshake" -> DoHandshake(x, o)
      [] what = "shutdown 1" -> DoShutdown1(x, o)
      [] what = "shutdown 2" -> DoShutdown2(x, o)

(* secure_negotiate and secure_drop.                                       *)
Negotiate(x, o) == DoHandshake([x EXCEPT !.use = TRUE], o)
Drop(x, o) == IF x.use THEN DoShutdown1(x, o) ELSE x

(* secure_recv and secure_send may be called for the operation that waits, *)
(* or when none does.                                                      *)
Callable(x, op) == /\ x.status \in {"want read", "want write", "connected"}
                   /\ x.op \in {op, "none"}

(* Variant: a renegotiation is not remembered either.                      *)
IoForgets(x, op, o) ==
    IF ~x.use \/ ~Callable(x, op) THEN x
    ELSE IF o = "fatal" THEN Failed(x) ELSE [x EXCEPT !.op = "none"]
(* secure_recv and secure_send.  Unless the library renegotiates, nothing  *)
(* is remembered of an operation that has to be called again; when it      *)
(* does, both errors wait for the socket to be readable.                   *)
Io(x, op, o) ==
    IF ~x.use \/ ~Callable(x, op) THEN x
    ELSE CASE o \in {"done", "wait"} -> [x EXCEPT !.op = "none"]
           [] o = "again" -> [x EXCEPT !.op = op, !.status = "want read"]
           [] OTHER -> Failed(x)

(* secure_close leaves the status and the operation of the last connection *)
(* for the next one.                                                       *)
Close(x) == [x EXCEPT !.use = FALSE]
Quiet(x) == [x EXCEPT !.raised = "none"]
================================================================================
