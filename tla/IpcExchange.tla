---------------------------- MODULE IpcExchange ----------------------------
(***************************************************************************)
(* One request over the Unix socket: client_request and do_request of the  *)
(* CLI (src/cli/client.c) against handle_client of the daemon              *)
(* (src/daemon/ipc_server.c), over a byte stream in each direction.  A     *)
(* message header, the count of a history request and a piece of the       *)
(* reply's text are one unit of the stream each.  The daemon may be        *)
(* stopped at any time; send() may be cut short by a signal.               *)
(***************************************************************************)
EXTENDS Naturals, Sequences, SequencesExt, FiniteSetsExt

CONSTANTS
  Types,      \* request types sent, a subset of qmem_req_type_t
  MsgMax,     \* QMEM_MSG_MAX_SIZE, also the size of do_request's buffer
  TextSizes,  \* sizes a snapshot or a history may have
  MayCut      \* whether the daemon may be stopped or interrupted

HeaderSize == 1

ASSUME ExchangeAssumption ==
  /\ Types \subseteq {"status", "snapshot", "history", "services", "config"}
  /\ MsgMax \in Nat /\ MsgMax > HeaderSize + 1
  /\ TextSizes \subseteq Nat /\ MayCut \in BOOLEAN

VARIABLES
  cli,      \* the client: pc, type, whether it sends a count, length and text got
  srv,      \* the IPC thread: pc, the request header, the reply's length
  toSrv, toCli,     \* the two directions of the connection
  cliOpen, srvOpen, \* whether each side still has its end open
  cut       \* ghost: a send() was cut short or the daemon stopped

vars == <<cli, srv, toSrv, toCli, cliOpen, srvOpen, cut>>

None == [type |-> "none", length |-> 0]

TypeOK ==
  /\ cli.pc \in {"connect", "header", "count", "answer", "text", "done", "null"}
  /\ cli.length \in Nat /\ Len(cli.text) <= MsgMax - 1
  /\ srv.pc \in {"accept", "header", "count", "reply", "closed"}
  /\ srv.length \in 0 .. MsgMax - HeaderSize
  /\ cliOpen \in BOOLEAN /\ srvOpen \in BOOLEAN /\ cut \in BOOLEAN

Init ==
  /\ \E t \in Types, c \in BOOLEAN :
       /\ c => t = "history"
       /\ cli = [pc |-> "connect", type |-> t, count |-> c, length |-> 0, text |-> << >>]
  /\ srv = [pc |-> "accept", req |-> None, length |-> 0]
  /\ toSrv = << >> /\ toCli = << >>
  /\ cliOpen = FALSE /\ srvOpen = TRUE
  /\ cut = FALSE

-----------------------------------------------------------------------------
(* The client *)

ClientGoes(pc) == cli' = [cli EXCEPT !.pc = pc]

(* do_request gives up and closes. *)
GiveUp == ClientGoes("null") /\ cliOpen' = FALSE

(* client_connect *)
Connect ==
  /\ cli.pc = "connect"
  /\ IF srvOpen THEN ClientGoes("header") /\ cliOpen' = TRUE ELSE GiveUp
  /\ UNCHANGED <<srv, toSrv, toCli, srvOpen, cut>>

SendHeader ==
  /\ cli.pc = "header"
  /\ IF srvOpen
     THEN /\ toSrv' = Append(toSrv, [type |-> cli.type,
                                     length |-> IF cli.count THEN 1 ELSE 0])
          /\ ClientGoes(IF cli.count THEN "count" ELSE "answer")
          /\ UNCHANGED cliOpen
     ELSE GiveUp /\ UNCHANGED toSrv
  /\ UNCHANGED <<srv, toCli, srvOpen, cut>>

SendCount ==
  /\ cli.pc = "count"
  /\ IF srvOpen
     THEN toSrv' = Append(toSrv, [type |-> "count", length |-> 0])
          /\ ClientGoes("answer") /\ UNCHANGED cliOpen
     ELSE GiveUp /\ UNCHANGED toSrv
  /\ UNCHANGED <<srv, toCli, srvOpen, cut>>

(* recv of the response header *)
RecvAnswer ==
  /\ cli.pc = "answer"
  /\ \/ /\ toCli # << >>
        /\ cli' = [cli EXCEPT !.pc = "text", !.length = Head(toCli).length]
        /\ toCli' = Tail(toCli) /\ UNCHANGED cliOpen
     \/ toCli = << >> /\ ~srvOpen /\ GiveUp /\ UNCHANGED toCli
  /\ UNCHANGED <<srv, toSrv, srvOpen, cut>>

\* A slip: the buffer is taken to hold the header, too.
ToReadBehindHeader(length) ==
  LET size == MsgMax - 2 * HeaderSize
  IN  IF length >= size THEN size - 1 ELSE length

(* What fits into the response buffer, with its NUL. *)
ToRead(length) == IF length >= MsgMax THEN MsgMax - 1 ELSE length

(* recv of the payload with MSG_WAITALL: as much as asked for, or less at  *)
(* the end of the stream; either is a success.                             *)
RecvText ==
  /\ cli.pc = "text"
  /\ LET n == Min({ToRead(cli.length), Len(toCli)}) IN
     /\ n = ToRead(cli.length) \/ ~srvOpen
     /\ cli' = [cli EXCEPT !.pc = "done", !.text = SubSeq(toCli, 1, n)]
     /\ toCli' = SubSeq(toCli, n + 1, Len(toCli))
  /\ cliOpen' = FALSE
  /\ UNCHANGED <<srv, toSrv, srvOpen, cut>>

Client == Connect \/ SendHeader \/ SendCount \/ RecvAnswer \/ RecvText

-----------------------------------------------------------------------------
(* The daemon *)

Accept ==
  /\ srv.pc = "accept" /\ srvOpen /\ cliOpen
  /\ srv' = [srv EXCEPT !.pc = "header"]
  /\ UNCHANGED <<cli, toSrv, toCli, cliOpen, srvOpen, cut>>

Close == srv' = [srv EXCEPT !.pc = "closed"] /\ srvOpen' = FALSE

\* A slip: a count is expected with every request for the history.
WantsCountAlways(h) == h.type = "history"

WantsCount(h) == h.type = "history" /\ h.length >= 1

(* recv of the header in handle_client *)
RecvHeader ==
  /\ srv.pc = "header"
  /\ \/ /\ toSrv # << >>
        /\ LET h == Head(toSrv) IN
           srv' = [srv EXCEPT !.req = h,
                              !.pc = IF WantsCount(h) THEN "count" ELSE "reply"]
        /\ toSrv' = Tail(toSrv) /\ UNCHANGED srvOpen
     \/ toSrv = << >> /\ ~cliOpen /\ Close /\ UNCHANGED toSrv
  /\ UNCHANGED <<cli, toCli, cliOpen, cut>>

(* recv of the count; at the end of the stream 10 is used instead. *)
RecvCount ==
  /\ srv.pc = "count"
  /\ toSrv # << >> \/ ~cliOpen
  /\ toSrv' = IF toSrv = << >> THEN toSrv ELSE Tail(toSrv)
  /\ srv' = [srv EXCEPT !.pc = "reply"]
  /\ UNCHANGED <<cli, toCli, cliOpen, srvOpen, cut>>

(* A text that does not fit into the reply is left out. *)
Payload(n) == IF n < MsgMax - HeaderSize THEN n ELSE 0

ReplyLengths(type) ==
  IF type \in {"status", "snapshot", "history"}
  THEN {Payload(n) : n \in TextSizes} ELSE {1}

Message(type, n) ==
  <<[type |-> type, length |-> n]>> \o [i \in 1 .. n |-> [type |-> "text", length |-> i]]

(* send of header and payload in one call whose result is not looked at,   *)
(* then close.                                                             *)
Reply ==
  /\ srv.pc = "reply"
  /\ \E n \in ReplyLengths(srv.req.type) :
       LET m == Message(srv.req.type, n) IN
       \E k \in 0 .. Len(m) :
         /\ k = Len(m) \/ MayCut \/ ~cliOpen
         /\ toCli' = SubSeq(m, 1, k)
         /\ cut' = (k < Len(m))
         /\ srv' = [srv EXCEPT !.length = n, !.pc = "closed"]
  /\ srvOpen' = FALSE
  /\ UNCHANGED <<cli, toSrv, cliOpen>>

(* The daemon is killed. *)
Killed ==
  /\ MayCut /\ srvOpen
  /\ Close
  /\ cut' = TRUE
  /\ UNCHANGED <<cli, toSrv, toCli, cliOpen>>

Server == Accept \/ RecvHeader \/ RecvCount \/ Reply

Finished == cli.pc \in {"done", "null"}
Done == Finished /\ srv.pc \in {"accept", "closed"} /\ UNCHANGED vars

Next == Client \/ Server \/ Killed \/ Done

Spec == Init /\ [][Next]_vars /\ WF_vars(Client) /\ WF_vars(Server)

-----------------------------------------------------------------------------
(* Client and daemon never wait for each other: every call returns, and    *)
(* the IPC thread gets back to its loop.                                   *)
ExchangeEnds == <>(Finished /\ srv.pc \in {"accept", "closed"})

(* A call that nothing interrupts returns the whole text the daemon sent:  *)
(* what fits into a message fits into the client's buffer.                 *)
NothingClipped ==
  (cli.pc = "done" /\ ~cut) =>
    /\ cli.length = srv.length
    /\ Len(cli.text) = srv.length
    /\ \A i \in 1 .. srv.length : cli.text[i].length = i
=============================================================================
