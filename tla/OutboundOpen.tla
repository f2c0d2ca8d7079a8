---------------------------- MODULE OutboundOpen ----------------------------
(***************************************************************************)
(* The connections a daemon opens to its peer (peer/daemon.cpp): OPEN, LIST *)
(* and REACH, from the control command to the end of the instance.  A       *)
(* request dials until its deadline, sends the name it wants, reads one     *)
(* line, and is then spliced to its client socket or its local end.         *)
(*                                                                          *)
(* One action is one callback of the event loop.  The peer, the network,    *)
(* the client process and the clock move between two callbacks.  Times are  *)
(* kept as the ticks that remain until them.                                *)
(***************************************************************************)
EXTENDS Integers, Sequences

CONSTANTS
  Ids,            \* requests, each under an id of its own
  DialRetry,      \* kDialRetryMs, in ticks
  UnknownRetry,   \* the pause after UNKNOWN for WAIT, in ticks
  DialDeadline,   \* kDialDeadlineMs, in ticks
  MetaDeadline,   \* the deadline of LIST and REACH, in ticks
  MaxUnread,      \* bound: chunks a client has written and nobody has read
  MaxPcbs         \* bound: connections of one request at one time

ASSUME TimeAssumption ==
  /\ DialRetry \in Nat
  /\ UnknownRetry \in Nat
  /\ DialDeadline \in Nat
  /\ MetaDeadline \in Nat

ASSUME OutboundBounds == MaxUnread \in Nat /\ MaxPcbs \in Nat

\* "pipe" is OPEN PIPE (the client socket is the stream), "follow" is OPEN
\* FOLLOW, "plain" an OPEN whose client was dismissed, "meta" LIST and REACH.
Kinds == {"pipe", "follow", "plain", "meta"}

Forever == -1      \* the deadline of OPEN WAIT
Times == -1 .. DialRetry + UnknownRetry + DialDeadline + MetaDeadline

Lines == {"OK", "READY", "ERR", "E", "D"}

VARIABLES
  life,       \* not asked yet, an entry of Session::insts, or erased
  kind,       \* what the request is
  wait,       \* Instance::wait
  dialing,    \* Instance::dialing
  conn,       \* Instance::conn is set
  open,       \* Instance::open
  watch,      \* Instance::cfd_watch
  full,       \* the connection has no room for a chunk
  deadline,   \* ticks left until dial_deadline
  next_dial,  \* ticks left until next_dial
  want_close, \* Session::want_close
  inflight,   \* connects lwIP has not answered
  halfclosed, \* connections let go after the peer's FIN; their pcbs live on
  orphans,    \* established connections a stale callback made it let go
  csock,      \* the daemon's end of the client socket
  told,       \* the lines written to it
  client,     \* the client process
  unread,     \* what it wrote
  crashed     \* the daemon process has died

vars == <<life, kind, wait, dialing, conn, open, watch, full, deadline, next_dial,
          want_close, inflight, halfclosed, orphans, csock, told, client,
          unread, crashed>>
requestVars == <<kind, wait>>
clockVars == <<deadline, next_dial>>
clientVars == <<client, unread>>
leftVars == <<halfclosed, orphans>>

TypeOK ==
  /\ life \in [Ids -> {"new", "live", "gone"}]
  /\ kind \in [Ids -> Kinds]
  /\ wait \in [Ids -> BOOLEAN]
  /\ dialing \in [Ids -> BOOLEAN]
  /\ conn \in [Ids -> BOOLEAN]
  /\ open \in [Ids -> BOOLEAN]
  /\ watch \in [Ids -> BOOLEAN]
  /\ full \in [Ids -> BOOLEAN]
  /\ deadline \in [Ids -> Times]
  /\ next_dial \in [Ids -> Times]
  /\ want_close \in SUBSET Ids
  /\ inflight \in [Ids -> Nat]
  /\ halfclosed \in [Ids -> 0 .. MaxPcbs]
  /\ orphans \in [Ids -> 0 .. MaxPcbs]
  /\ csock \in [Ids -> {"none", "held", "closing", "closed"}]
  /\ told \in [Ids -> Seq(Lines)]
  /\ client \in [Ids -> {"alive", "gone"}]
  /\ unread \in [Ids -> 0 .. MaxUnread]
  /\ crashed \in BOOLEAN

Live == {i \in Ids : life[i] = "live"}
One(b) == IF b THEN 1 ELSE 0
Countdown(t) == IF t > 0 THEN t - 1 ELSE t

(***************************************************************************)
(* Steps several handlers share                                             *)
(***************************************************************************)

\* The clients the instance still holds the socket of.
Holds(i) == csock[i] = "held"

\* fail_open, for the requests in F: the client is told why.
Failed(F, i) == IF i \in F /\ Holds(i) /\ kind[i] = "pipe" THEN <<"ERR">>
                ELSE IF i \in F /\ Holds(i) /\ kind[i] = "follow" THEN <<"E">>
                ELSE <<>>

\* close_instance, for a FOLLOW client fail_open has not dismissed: D when the
\* local end is done, E when it is not or never started.
Final(F, done, i) ==
  IF i \notin F /\ Holds(i) /\ kind[i] = "follow"
  THEN IF open[i] /\ i \in done THEN <<"D">> ELSE <<"E">>
  ELSE <<>>

\* fail_open of F and close_instance of F and K: the connection an instance
\* holds is closed, a PIPE client's socket closes behind its queue.
Finish(F, K) ==
  LET E == F \cup K
  IN  /\ life' = [i \in Ids |-> IF i \in E THEN "gone" ELSE life[i]]
      /\ \E done \in SUBSET E :
           told' = [i \in Ids |-> told[i] \o Failed(F, i)
                                          \o (IF i \in E THEN Final(F, done, i) ELSE <<>>)]
      /\ \E queued \in SUBSET {i \in E : kind[i] = "pipe"} :
           csock' = [i \in Ids |-> IF i \in E /\ Holds(i)
                                   THEN IF i \in queued THEN "closing" ELSE "closed"
                                   ELSE csock[i]]

\* What an erased instance leaves behind of its own fields.
Erased(E) ==
  /\ conn' = [i \in Ids |-> conn[i] /\ i \notin E]
  /\ open' = [i \in Ids |-> open[i] /\ i \notin E]
  /\ watch' = [i \in Ids |-> watch[i] /\ i \notin E]
  /\ full' = [i \in Ids |-> full[i] /\ i \notin E]

\* A handler that ends one request, by fail_open or by close_instance alone.
FailOpen(i) ==
  /\ Finish({i}, {})
  /\ Erased({i})
  /\ dialing' = [dialing EXCEPT ![i] = FALSE]
  /\ UNCHANGED <<requestVars, clockVars, want_close, inflight, leftVars, clientVars, crashed>>

CloseInstance(i) ==
  /\ Finish({}, {i})
  /\ Erased({i})
  /\ dialing' = [dialing EXCEPT ![i] = FALSE]
  /\ UNCHANGED <<requestVars, clockVars, want_close, inflight, leftVars, clientVars, crashed>>

(***************************************************************************)
(* Control commands                                                         *)
(***************************************************************************)

\* OPEN, LIST or REACH: the instance is made and dialled at once.  A connect
\* that fails inside the call has reset dialing when it returns.
Open(i, k, w) ==
  /\ life[i] = "new"
  /\ w => k # "meta"
  /\ life' = [life EXCEPT ![i] = "live"]
  /\ kind' = [kind EXCEPT ![i] = k]
  /\ wait' = [wait EXCEPT ![i] = w]
  /\ deadline' = [deadline EXCEPT ![i] = IF w THEN Forever
                                         ELSE IF k = "meta" THEN MetaDeadline
                                         ELSE DialDeadline]
  /\ next_dial' = [next_dial EXCEPT ![i] = DialRetry]
  /\ \E started \in BOOLEAN :
       /\ dialing' = [dialing EXCEPT ![i] = started]
       /\ inflight' = [inflight EXCEPT ![i] = One(started)]
  /\ csock' = [csock EXCEPT ![i] = IF k = "plain" THEN "closed" ELSE "held"]
  /\ told' = [told EXCEPT ![i] = IF k = "meta" THEN <<>> ELSE <<"OK">>]
  /\ client' = [client EXCEPT ![i] = "alive"]
  /\ UNCHANGED <<conn, open, watch, full, want_close, leftVars, unread, crashed>>

\* An OPEN with a usage error, an unknown peer or a bad local end.
OpenRefused(i) ==
  /\ life[i] = "new"
  /\ life' = [life EXCEPT ![i] = "gone"]
  /\ told' = [told EXCEPT ![i] = <<"ERR">>]
  /\ csock' = [csock EXCEPT ![i] = "closed"]
  /\ UNCHANGED <<requestVars, dialing, conn, open, watch, full, clockVars,
                 want_close, inflight, leftVars, clientVars, crashed>>

\* CLOSE
CloseCmd(i) == life[i] = "live" /\ CloseInstance(i)

(***************************************************************************)
(* Tunnel events                                                            *)
(***************************************************************************)

\* The connect callback.  The instance is looked up by id: when it has gone,
\* the connection is closed again.  A meta request is open at once.
DialConnected(i) ==
  /\ inflight[i] > 0
  /\ One(conn[i]) + halfclosed[i] + orphans[i] < MaxPcbs
  /\ inflight' = [inflight EXCEPT ![i] = @ - 1]
  /\ conn' = [conn EXCEPT ![i] = life[i] = "live"]
  /\ dialing' = [dialing EXCEPT ![i] = FALSE]
  /\ open' = [open EXCEPT ![i] = @ \/ (life[i] = "live" /\ kind[i] = "meta")]
  /\ UNCHANGED <<life, requestVars, watch, full, clockVars, want_close, leftVars, csock,
                 told, clientVars, crashed>>

\* The fail callback: tick dials again.
DialFailed(i) ==
  /\ inflight[i] > 0
  /\ inflight' = [inflight EXCEPT ![i] = @ - 1]
  /\ conn' = [conn EXCEPT ![i] = FALSE]
  /\ dialing' = [dialing EXCEPT ![i] = FALSE]
  /\ UNCHANGED <<life, requestVars, open, watch, full, clockVars, want_close,
                 leftVars, csock, told, clientVars, crashed>>

\* The peer's line arrives, on the connection the instance holds or on one it
\* was made to let go.
Handshaking(i) == life[i] = "live" /\ ~ open[i] /\ (conn[i] \/ orphans[i] > 0)

\* OK, of a kind the local end can use: a PIPE client learns of it before the
\* first byte, and only now is its socket watched.
AnswerOk(i) ==
  /\ Handshaking(i)
  /\ conn[i]
  /\ open' = [open EXCEPT ![i] = TRUE]
  /\ watch' = [watch EXCEPT ![i] = kind[i] = "pipe"]
  /\ told' = [told EXCEPT ![i] = IF kind[i] = "pipe" THEN Append(@, "READY") ELSE @]
  /\ UNCHANGED <<life, requestVars, dialing, conn, full, clockVars, want_close,
                 inflight, leftVars, csock, clientVars, crashed>>

\* The same when the instance holds no connection: bind_end dereferences the
\* null conn and the process ends.
AnswerOkNoConn(i) ==
  /\ Handshaking(i)
  /\ ~ conn[i]
  /\ crashed' = TRUE
  /\ life' = [j \in Ids |-> "gone"]
  /\ csock' = [j \in Ids |-> IF csock[j] = "none" THEN "none" ELSE "closed"]
  /\ Erased(Ids)
  /\ dialing' = [j \in Ids |-> FALSE]
  /\ want_close' = {}
  /\ inflight' = [j \in Ids |-> 0]
  /\ halfclosed' = [j \in Ids |-> 0]
  /\ orphans' = [j \in Ids |-> 0]
  /\ UNCHANGED <<requestVars, clockVars, told, clientVars>>

\* OK, but of another kind; or UNKNOWN, when the request does not wait or holds
\* no connection.
AnswerNo(i) == Handshaking(i) /\ FailOpen(i)

\* UNKNOWN, for a request that waits: this connection is closed with its
\* callbacks removed, and tick dials again after a pause.
AnswerNotYet(i) ==
  /\ Handshaking(i)
  /\ wait[i]
  /\ conn[i]
  /\ conn' = [conn EXCEPT ![i] = FALSE]
  /\ next_dial' = [next_dial EXCEPT ![i] = UnknownRetry]
  /\ UNCHANGED <<life, requestVars, dialing, open, watch, full, deadline, want_close,
                 inflight, leftVars, csock, told, clientVars, crashed>>

\* More than 256 bytes that are not a line.
AnswerGarbage(i) == Handshaking(i) /\ CloseInstance(i)

\* on_tunnel_gone: the instance lets go of the connection it holds, whichever
\* one the callback was for; an open instance ends, another one dials again.
OnTunnelGone(i) ==
  LET ends == life[i] = "live" /\ open[i]
  IN  /\ life' = [life EXCEPT ![i] = IF ends THEN "gone" ELSE @]
      /\ Erased({i})
      /\ \E done \in SUBSET {i} :
           told' = [told EXCEPT ![i] = IF ends THEN @ \o Final({}, done, i) ELSE @]
      /\ \E s \in {"closing", "closed"} :
           /\ s = "closing" => kind[i] = "pipe"
           /\ csock' = [csock EXCEPT ![i] = IF ends /\ Holds(i) THEN s ELSE @]
      /\ UNCHANGED <<requestVars, dialing, clockVars, want_close, inflight, clientVars,
                     crashed>>

\* on_error: lwIP has freed the pcb.
TunnelError(i) == /\ conn[i]
                  /\ OnTunnelGone(i)
                  /\ UNCHANGED leftVars

\* on_closed: the peer sent FIN.  Nobody closes the pcb, and its callbacks stay.
TunnelFin(i) == /\ conn[i]
                /\ OnTunnelGone(i)
                /\ halfclosed' = [halfclosed EXCEPT ![i] = @ + 1]
                /\ UNCHANGED orphans

\* A connection that was let go is reset (keepalive finds its peer gone) or
\* ends, and its callback names the request: the connection that one holds by
\* now is let go in its turn.
StaleError(i) ==
  /\ OnTunnelGone(i)
  /\ \/ /\ halfclosed[i] > 0
        /\ halfclosed' = [halfclosed EXCEPT ![i] = @ - 1]
        /\ orphans' = [orphans EXCEPT ![i] = @ + One(conn[i])]
     \/ /\ orphans[i] > 0
        /\ orphans' = [orphans EXCEPT ![i] = @ - 1 + One(conn[i])]
        /\ UNCHANGED halfclosed

\* The peer ends a connection that was let go by a stale callback.
OrphanFin(i) ==
  /\ orphans[i] > 0
  /\ OnTunnelGone(i)
  /\ halfclosed' = [halfclosed EXCEPT ![i] = @ + 1]
  /\ orphans' = [orphans EXCEPT ![i] = @ - 1 + One(conn[i])]

\* A local end asks to be closed from inside one of its own methods.
LocalShutdown(i) ==
  /\ life[i] = "live"
  /\ open[i]
  /\ kind[i] # "pipe"
  /\ want_close' = want_close \cup {i}
  /\ UNCHANGED <<life, requestVars, dialing, conn, open, watch, full, clockVars,
                 inflight, leftVars, csock, told, clientVars, crashed>>

\* The peer acknowledges; on_writable watches a paused client again.
TunnelDrained(i) ==
  /\ conn[i]
  /\ full[i]
  /\ full' = [full EXCEPT ![i] = FALSE]
  /\ watch' = [watch EXCEPT ![i] = @ \/ (open[i] /\ kind[i] = "pipe")]
  /\ UNCHANGED <<life, requestVars, dialing, conn, open, clockVars, want_close,
                 inflight, leftVars, csock, told, clientVars, crashed>>

(***************************************************************************)
(* The client                                                               *)
(***************************************************************************)

\* watch_cfd's callback: pause when the connection is full, pass a chunk on,
\* or close the instance at the end of the client.
ClientPause(i) ==
  /\ watch[i]
  /\ full[i]
  /\ unread[i] > 0 \/ client[i] = "gone"
  /\ watch' = [watch EXCEPT ![i] = FALSE]
  /\ UNCHANGED <<life, requestVars, dialing, conn, open, full, clockVars, want_close,
                 inflight, leftVars, csock, told, clientVars, crashed>>

ClientForward(i) ==
  /\ watch[i]
  /\ ~ full[i]
  /\ unread[i] > 0
  /\ unread' = [unread EXCEPT ![i] = @ - 1]
  /\ \E filled \in BOOLEAN : full' = [full EXCEPT ![i] = filled]
  /\ UNCHANGED <<life, requestVars, dialing, conn, open, watch, clockVars, want_close,
                 inflight, leftVars, csock, told, client, crashed>>

\* Mutant: a read of 0 bytes is taken for nothing to read.
ClientEofIgnored(i) ==
  /\ watch[i]
  /\ ~ full[i]
  /\ unread[i] = 0
  /\ client[i] = "gone"
  /\ UNCHANGED vars

ClientEof(i) ==
  /\ watch[i]
  /\ ~ full[i]
  /\ unread[i] = 0
  /\ client[i] = "gone"
  /\ CloseInstance(i)

\* flush_client empties the queue of a closing client, or tick gives up.
ClientFlushed(i) ==
  /\ csock[i] = "closing"
  /\ csock' = [csock EXCEPT ![i] = "closed"]
  /\ UNCHANGED <<life, requestVars, dialing, conn, open, watch, full, clockVars,
                 want_close, inflight, leftVars, told, clientVars, crashed>>

\* The client process writes to its socket, or ends.
ClientWrite(i) ==
  /\ Holds(i)
  /\ kind[i] = "pipe"
  /\ client[i] = "alive"
  /\ unread[i] < MaxUnread
  /\ unread' = [unread EXCEPT ![i] = @ + 1]
  /\ UNCHANGED <<life, requestVars, dialing, conn, open, watch, full, clockVars,
                 want_close, inflight, leftVars, csock, told, client, crashed>>

ClientExit(i) ==
  /\ Holds(i)
  /\ client[i] = "alive"
  /\ client' = [client EXCEPT ![i] = "gone"]
  /\ UNCHANGED <<life, requestVars, dialing, conn, open, watch, full, clockVars,
                 want_close, inflight, leftVars, csock, told, unread, crashed>>

(***************************************************************************)
(* The tick and the clock                                                   *)
(***************************************************************************)

\* Mutant: the deadline waits for the connect to be answered.
UnconnectedIdle == {i \in Live \ want_close : ~ open[i] /\ ~ conn[i] /\ ~ dialing[i]}

\* The requests tick looks at for dialling, once want_close is served.
Unconnected == {i \in Live \ want_close : ~ open[i] /\ ~ conn[i]}

\* Mutant: a hanging connect does not stop the next one.
DueAgain == {i \in Unconnected : deadline[i] # 0 /\ next_dial[i] = 0}

\* Those it dials: not already dialling, and the pause is over.
Due == {i \in Unconnected : deadline[i] # 0 /\ ~ dialing[i] /\ next_dial[i] = 0}

\* tick: close what asked for it, give up on what is past its deadline, dial
\* what is due, and watch again the clients whose connection has room.
Tick ==
  LET F == {i \in Unconnected : deadline[i] = 0}
      K == want_close \cap Live
      resumed == {i \in Live : open[i] /\ kind[i] = "pipe" /\ conn[i] /\ ~ full[i]}
  IN  /\ Finish(F, K)
      /\ conn' = [i \in Ids |-> conn[i] /\ i \notin K]
      /\ open' = [i \in Ids |-> open[i] /\ i \notin K]
      /\ full' = [i \in Ids |-> full[i] /\ i \notin K]
      /\ watch' = [i \in Ids |-> (watch[i] \/ i \in resumed) /\ i \notin K]
      /\ want_close' = {}
      /\ next_dial' = [i \in Ids |-> IF i \in Due THEN DialRetry ELSE next_dial[i]]
      /\ \E started \in SUBSET Due :
           /\ dialing' = [i \in Ids |-> i \in started \/ (dialing[i] /\ i \notin F)]
           /\ inflight' = [i \in Ids |-> inflight[i] + One(i \in started)]
      /\ UNCHANGED <<requestVars, deadline, leftVars, clientVars, crashed>>

\* Time passes for every request.
Elapse ==
  /\ deadline' = [i \in Ids |-> Countdown(deadline[i])]
  /\ next_dial' = [i \in Ids |-> Countdown(next_dial[i])]
  /\ UNCHANGED <<life, requestVars, dialing, conn, open, watch, full, want_close,
                 inflight, leftVars, csock, told, clientVars, crashed>>

Init ==
  /\ life = [i \in Ids |-> "new"]
  /\ kind = [i \in Ids |-> "plain"]
  /\ wait = [i \in Ids |-> FALSE]
  /\ dialing = [i \in Ids |-> FALSE]
  /\ conn = [i \in Ids |-> FALSE]
  /\ open = [i \in Ids |-> FALSE]
  /\ watch = [i \in Ids |-> FALSE]
  /\ full = [i \in Ids |-> FALSE]
  /\ deadline = [i \in Ids |-> 0]
  /\ next_dial = [i \in Ids |-> 0]
  /\ want_close = {}
  /\ inflight = [i \in Ids |-> 0]
  /\ halfclosed = [i \in Ids |-> 0]
  /\ orphans = [i \in Ids |-> 0]
  /\ csock = [i \in Ids |-> "none"]
  /\ told = [i \in Ids |-> <<>>]
  /\ client = [i \in Ids |-> "alive"]
  /\ unread = [i \in Ids |-> 0]
  /\ crashed = FALSE

\* The peer's line, or the end of the connection it would come on.
Settle(i) == \/ AnswerOk(i)
             \/ AnswerOkNoConn(i)
             \/ AnswerNo(i)
             \/ AnswerNotYet(i)
             \/ AnswerGarbage(i)
             \/ TunnelError(i)
             \/ TunnelFin(i)

RequestStep(i) ==
  \/ \E k \in Kinds, w \in BOOLEAN : Open(i, k, w)
  \/ OpenRefused(i)
  \/ CloseCmd(i)
  \/ DialConnected(i)
  \/ DialFailed(i)
  \/ Settle(i)
  \/ StaleError(i)
  \/ OrphanFin(i)
  \/ LocalShutdown(i)
  \/ TunnelDrained(i)
  \/ ClientPause(i)
  \/ ClientForward(i)
  \/ ClientEof(i)
  \/ ClientFlushed(i)
  \/ ClientWrite(i)
  \/ ClientExit(i)

Next == Tick \/ Elapse \/ \E i \in Ids : RequestStep(i)

Spec == Init /\ [][Next]_vars

\* The loop ticks, time passes, polled sockets are read, and a peer that was
\* connected answers or is found dead: its daemon answers every line, and the
\* keepalive resets a connection whose peer is silent for three minutes.
\* Nothing is assumed of a connect: the deadline has to end that.
Fairness == /\ WF_vars(Tick)
            /\ WF_vars(Elapse)
            /\ \A i \in Ids : /\ WF_vars(Handshaking(i) /\ Settle(i))
                              /\ WF_vars(ClientPause(i))
                              /\ WF_vars(ClientForward(i))
                              /\ WF_vars(ClientEof(i))
                              /\ WF_vars(ClientFlushed(i))

FairSpec == Spec /\ Fairness

-----------------------------------------------------------------------------

\* One dial at a time: lwIP has a connect in flight exactly while dialing says
\* so, and none while the instance holds a connection, so a connection that
\* arrives never overwrites another.
OneDial ==
  \A i \in Ids : /\ inflight[i] <= 1
                 /\ life[i] = "live" => (dialing[i] <=> inflight[i] = 1)
                 /\ dialing[i] => ~ conn[i]

\* docs/PIPES.md:121-124: the client is told once how its request was settled.
\* A PIPE client gets READY when the pipe opens or ERR when it never will, not
\* both; a FOLLOW client gets one last line, before its socket closes.
OneVerdict ==
  \A i \in Ids :
    /\ kind[i] = "pipe" =>
         /\ told[i] \in {<<"OK">>, <<"OK", "READY">>, <<"OK", "ERR">>}
         /\ life[i] = "live" => told[i] = IF open[i] THEN <<"OK", "READY">> ELSE <<"OK">>
    /\ kind[i] = "follow" =>
         /\ life[i] = "live" => told[i] = <<"OK">> /\ csock[i] = "held"
         /\ life[i] = "gone" /\ ~ crashed =>
              told[i] \in {<<"OK", "D">>, <<"OK", "E">>} /\ csock[i] = "closed"

\* The poller reads a client only for an instance that is spliced: the callback
\* has a connection to write to and a descriptor that is still open.
WatchedWhenSpliced ==
  \A i \in Ids : watch[i] =>
    life[i] = "live" /\ kind[i] = "pipe" /\ open[i] /\ conn[i] /\ csock[i] = "held"

\* At any moment a request has at most one connect underway (OneDial), its client has got at
\* most one last line and its descriptor was closed once (OneVerdict), and only a spliced
\* client is polled (WatchedWhenSpliced), whatever answers, deadlines, CLOSE and exits do.
RequestInv == TypeOK /\ OneDial /\ OneVerdict /\ WatchedWhenSpliced

\* A request without WAIT is settled: it opens or it ends, although the connect
\* may hang for ever (daemon.cpp:1196-1197).
OpenSettles ==
  \A i \in Ids : (life[i] = "live" /\ ~ wait[i]) ~> (open[i] \/ life[i] = "gone")

\* Once spliced, a client that ends takes its pipe with it, unless the peer
\* stops reading.
ClientNoticed ==
  \A i \in Ids : (open[i] /\ kind[i] = "pipe" /\ client[i] = "gone")
                  ~> (life[i] = "gone" \/ full[i])

-----------------------------------------------------------------------------
(***************************************************************************)
(* What the documentation says and the code does not do                     *)
(***************************************************************************)

\* daemon.cpp:606: when on_tunnel_gone drops the connection, "pcb is gone; do
\* not touch it again".  Then a request that is being answered holds the
\* connection the answer came on.
AnswerHasConn == \A i \in Ids : Handshaking(i) => conn[i]
=============================================================================
