------------------------------ MODULE ExecRun ------------------------------
(***************************************************************************)
(* One run of a program over an EXEC pipe: `spl run` or `spl shell`        *)
(* (run_exec_client), the client's daemon, the tunnel, and the program's   *)
(* daemon with its ExecEnd (peer/exec.cpp).  Every buffer on the way is    *)
(* bounded and every hop reads only what the next one takes.               *)
(*                                                                         *)
(*   stdin -> up.sock -> up.net -> inbuf -> pin -> program                 *)
(*   program -> pipe -> down.net -> down.q -> down.sock -> stdout          *)
(*                                                                         *)
(* A frame is one unit of every buffer and of the receive windows.  The    *)
(* program is a filter: what it reads makes it owe output, it writes that  *)
(* before it reads on, and it may quit at any time.                        *)
(***************************************************************************)
EXTENDS Integers, Sequences, FiniteSets

CONSTANTS
  Input,       \* frames the user's input makes
  Gains,       \* how much output the program owes for a frame of input
  MaxStart,    \* output it owes before it reads anything
  SockCap,     \* room of a client socket
  Room,        \* room of a connection's send buffer
  Window,      \* receive window of a connection
  PipeCap,     \* room of a pipe or terminal of the program
  KillAfter,   \* ticks from SIGHUP to SIGKILL
  MaxFaults    \* broken connections, a daemon that stops, a stdout that goes away

ASSUME ExecAssumption ==
  /\ Input \in Nat /\ MaxStart \in Nat /\ MaxFaults \in Nat
  /\ Gains \subseteq Nat /\ Gains # {}
  /\ SockCap \in Nat \ {0} /\ Room \in Nat \ {0} /\ Window \in Nat \ {0}
  /\ PipeCap \in Nat \ {0} /\ KillAfter \in Nat

VARIABLES
  pty,      \* does the program have a terminal
  cl,       \* the client: what it does, its input, the frame it is sending, its status
  up,       \* towards the program: client socket, send buffer, window left
  down,     \* towards the client: send buffer, window left, client_out_, socket, preacked
  inst,     \* the client daemon's instance: open, cfd_watch, closing
  end,      \* the ExecEnd
  prog,     \* the program and its children
  orphan,   \* the entry of orphans(), if any
  faults

runVars == <<pty, cl, up, down, inst, end, prog, orphan, faults>>

Streams == {"out", "err"}
Fds(terminal) == IF terminal THEN {"out"} ELSE Streams
NoOrphan == [on |-> FALSE, age |-> 0, killed |-> FALSE]
Smaller(m, n) == IF m < n THEN m ELSE n

\* The client, the two directions of the stream, the serving end and the program.
Clients == [st: {"await", "poll", "stdin", "send", "done"}, left: 0 .. Input, stdin: BOOLEAN,
            frame: {"data", "eof"}, status: {"none", "exit", "lost", "pipe"}, got: Nat]
Uplinks == [sock: Seq({"data", "eof"}), net: Seq({"data", "eof", "fin"}), wnd: 0 .. Window]
Chunks == [frame: Streams \cup {"ready", "exit"}, acc: BOOLEAN]
Downlinks == [net: Seq(Streams \cup {"ok", "exit", "fin"}), wnd: 0 .. Window, q: Seq(Chunks),
              sock: Seq(Streams \cup {"ready", "exit"}), pre: Nat]
Instances == [st: {"dial", "open", "gone"}, watch: BOOLEAN, closing: BOOLEAN, fd: BOOLEAN]
ExecEnds == [open: BOOLEAN, in: BOOLEAN, real: Nat, synth: {0, 1}, eof: BOOLEAN,
             fds: SUBSET Streams, reaped: BOOLEAN, shut: BOOLEAN]
Programs == [st: {"none", "run", "zombie", "reaped"}, owed: Nat, stdin: BOOLEAN,
             pin: Seq({"data", "veof"}), pipe: [Streams -> Nat], writers: SUBSET Streams,
             read: Nat, wrote: Nat]
Orphans == [on: BOOLEAN, age: 0 .. KillAfter, killed: BOOLEAN]

RunTypeOK ==
  /\ pty \in BOOLEAN
  /\ cl \in Clients /\ up \in Uplinks /\ down \in Downlinks
  /\ inst \in Instances /\ end \in ExecEnds /\ prog \in Programs
  /\ orphan \in Orphans
  /\ faults \in 0 .. MaxFaults

-----------------------------------------------------------------------------
\* open_exec: OPEN is answered OK, and the client awaits READY.
NewClient == [st |-> "await", left |-> Input, stdin |-> TRUE, frame |-> "eof",
              status |-> "none", got |-> 0]

\* The program's daemon has accepted the connection and started the program.
Started(owed) ==
  /\ prog = [st |-> "run", owed |-> owed, stdin |-> TRUE, pin |-> <<>>,
             pipe |-> [s \in Streams |-> 0], writers |-> Fds(pty), read |-> 0, wrote |-> 0]
  /\ end = [open |-> TRUE, in |-> TRUE, real |-> 0, synth |-> 0, eof |-> FALSE,
            fds |-> Fds(pty), reaped |-> FALSE, shut |-> FALSE]
  /\ down = [net |-> <<"ok">>, wnd |-> Window, q |-> <<>>, sock |-> <<>>, pre |-> 0]

\* ... or could not start it: an error line and EXIT, the way a shell reports it.
NotStarted ==
  /\ prog = [st |-> "none", owed |-> 0, stdin |-> FALSE, pin |-> <<>>,
             pipe |-> [s \in Streams |-> 0], writers |-> {}, read |-> 0, wrote |-> 1]
  /\ end = [open |-> TRUE, in |-> FALSE, real |-> 0, synth |-> 0, eof |-> FALSE,
            fds |-> {}, reaped |-> TRUE, shut |-> TRUE]
  /\ down = [net |-> <<"ok", "err", "exit">>, wnd |-> Window, q |-> <<>>, sock |-> <<>>,
             pre |-> 0]

RunInit ==
  /\ pty \in BOOLEAN
  /\ cl = NewClient
  /\ up = [sock |-> <<>>, net |-> <<>>, wnd |-> Window]
  /\ inst = [st |-> "dial", watch |-> FALSE, closing |-> FALSE, fd |-> TRUE]
  /\ orphan = NoOrphan
  /\ faults = MaxFaults
  /\ NotStarted \/ \E owed \in 0 .. MaxStart : Started(owed)

-----------------------------------------------------------------------------
(* run_exec_client *)

Gone(status) == [cl EXCEPT !.st = "done", !.status = status]

\* await_ready, then the loop's read of one frame of the daemon's.
ClientRead ==
  LET f == Head(down.sock)
  IN /\ cl.st \in {"await", "poll"} /\ down.sock # <<>>
     /\ down' = [down EXCEPT !.sock = Tail(@)]
     /\ \/ /\ f = "exit"
           /\ cl' = Gone("exit")
        \/ /\ f # "exit"
           /\ \E next \in IF cl.stdin THEN {"poll", "stdin"} ELSE {"poll"} :
                cl' = [cl EXCEPT !.st = next, !.got = IF f = "ready" THEN 0 ELSE @ + 1]
     /\ UNCHANGED <<pty, up, inst, end, prog, orphan, faults>>

\* read returns 0: the daemon closed the socket before EXIT.
ClientLost ==
  /\ cl.st \in {"await", "poll"} /\ down.sock = <<>> /\ ~inst.fd
  /\ cl' = Gone("lost")
  /\ UNCHANGED <<pty, up, down, inst, end, prog, orphan, faults>>

\* Its output is gone: stop with SIGPIPE's status.
StdoutGone ==
  /\ faults > 0
  /\ cl.st = "poll" /\ down.sock # <<>> /\ Head(down.sock) = "out"
  /\ faults' = faults - 1
  /\ cl' = Gone("pipe")
  /\ UNCHANGED <<pty, up, down, inst, end, prog, orphan>>

\* stdin is ready, with or without a frame read first: send_frame of DATA, or EOF at its end.
ReadStdin ==
  LET f == IF cl.left > 0 THEN "data" ELSE "eof"
      sent == [cl EXCEPT !.stdin = f = "data", !.left = IF f = "data" THEN @ - 1 ELSE 0,
                         !.frame = f]
  IN /\ cl.stdin
     /\ cl.st = "stdin" \/ (cl.st = "poll" /\ down.sock = <<>>)
     /\ cl' = [sent EXCEPT !.st = "send"]
     /\ UNCHANGED <<pty, up, down, inst, end, prog, orphan, faults>>

\* The blocking write ends, with an error when the daemon closed the socket.
Sent ==
  /\ cl.st = "send"
  /\ Len(up.sock) < SockCap \/ ~inst.fd
  /\ cl' = [cl EXCEPT !.st = "poll"]
  /\ up' = IF inst.fd THEN [up EXCEPT !.sock = Append(@, cl.frame)] ELSE up
  /\ UNCHANGED <<pty, down, inst, end, prog, orphan, faults>>

-----------------------------------------------------------------------------
(* The client's daemon *)

\* TcpConn::recved.
Reopened(d, n) == [d EXCEPT !.wnd = @ + n]

\* account: n units are done with, of which the preacked ones reopen no window.
Credited(d, n) ==
  LET pre == Smaller(n, d.pre)
  IN [Reopened(d, n - pre) EXCEPT !.pre = @ - pre]

Accounted(q) == Cardinality({i \in DOMAIN q : q[i].acc})

\* flush_client: what the socket takes, or everything once the client is gone.
Flushed(d) ==
  LET n == Smaller(Len(d.q), SockCap - Len(d.sock))
  IN IF cl.st = "done" THEN [Credited(d, Accounted(d.q)) EXCEPT !.q = <<>>]
     ELSE [Credited(d, Accounted(SubSeq(d.q, 1, n))) EXCEPT
             !.sock = d.sock \o [i \in 1 .. n |-> d.q[i].frame],
             !.q = SubSeq(d.q, n + 1, Len(d.q))]

Chunk(f) == [frame |-> f, acc |-> TRUE]

\* close_instance: the connection is closed behind what it still sends, the client socket
\* behind what is queued for it.
Released(d) == [inst EXCEPT !.st = "gone", !.watch = FALSE, !.closing = d.q # <<>>,
                            !.fd = d.q # <<>>]

\* The OK line: READY and the splice; the n frames of its segment were acknowledged already.
\* tcp_recved came before hold_recv.
OpenOk(n) ==
  LET rest == SubSeq(down.net, 2, n + 1)
      q == <<[frame |-> "ready", acc |-> FALSE]>> \o [i \in 1 .. n |-> Chunk(rest[i])]
  IN /\ inst.st = "dial" /\ down.net # <<>> /\ Head(down.net) = "ok"
     /\ \A i \in 1 .. n : rest[i] # "fin"
     /\ down' = Flushed([down EXCEPT !.net = SubSeq(@, n + 2, Len(@)), !.q = q, !.pre = n])
     /\ inst' = [inst EXCEPT !.st = "open", !.watch = TRUE]
     /\ UNCHANGED <<pty, cl, up, end, prog, orphan, faults>>

\* on_tunnel_data of an open instance: client_write.
RecvOutput ==
  /\ inst.st = "open" /\ down.net # <<>> /\ Head(down.net) # "fin" /\ down.wnd > 0
  /\ down' = Flushed([down EXCEPT !.net = Tail(@), !.wnd = @ - 1,
                                  !.q = Append(@, Chunk(Head(down.net)))])
  /\ UNCHANGED <<pty, cl, up, inst, end, prog, orphan, faults>>

\* The client socket is writable again.
FlushClient ==
  /\ inst.fd /\ down.q # <<>>
  /\ Len(down.sock) < SockCap \/ cl.st = "done"
  /\ down' = Flushed(down)
  /\ inst' = IF inst.closing /\ down'.q = <<>> THEN [inst EXCEPT !.closing = FALSE, !.fd = FALSE]
             ELSE inst
  /\ UNCHANGED <<pty, cl, up, end, prog, orphan, faults>>

\* The peer's FIN, after all it sent.
RecvFin ==
  /\ inst.st = "open" /\ down.net # <<>> /\ Head(down.net) = "fin"
  /\ down' = [down EXCEPT !.net = <<>>]
  /\ inst' = Released(down)
  /\ UNCHANGED <<pty, cl, up, end, prog, orphan, faults>>

\* Thirty seconds have gone and the client has not read what is queued.
ClientTooSlow ==
  /\ inst.closing
  /\ inst' = [inst EXCEPT !.closing = FALSE, !.fd = FALSE]
  /\ down' = [down EXCEPT !.q = <<>>]
  /\ UNCHANGED <<pty, cl, up, end, prog, orphan, faults>>

SendRoom == Len(up.net) < Room

\* The callback of watch_cfd: one frame while the tunnel has room, else stop watching; the
\* client's end closes the instance.
CfdReady ==
  /\ inst.st = "open" /\ inst.watch
  /\ \/ /\ ~SendRoom /\ (up.sock # <<>> \/ cl.st = "done")
        /\ inst' = [inst EXCEPT !.watch = FALSE]
        /\ UNCHANGED <<up, down>>
     \/ /\ SendRoom /\ up.sock # <<>>
        /\ up' = [up EXCEPT !.sock = Tail(@), !.net = Append(@, Head(up.sock))]
        /\ UNCHANGED <<inst, down>>
     \/ /\ SendRoom /\ up.sock = <<>> /\ cl.st = "done"
        /\ inst' = Released(down)
        /\ up' = [up EXCEPT !.net = Append(@, "fin")]
        /\ UNCHANGED down
  /\ UNCHANGED <<pty, cl, end, prog, orphan, faults>>

\* Mutant: nothing watches the client again once the tunnel has room.
ResumeNever == inst

\* on_writable, and every tick: a client paused for want of room is read again.
Resumed == IF inst.st = "open" /\ SendRoom THEN [inst EXCEPT !.watch = TRUE] ELSE inst

Resume ==
  /\ inst.st = "open" /\ ~inst.watch /\ SendRoom
  /\ inst' = Resumed
  /\ UNCHANGED <<pty, cl, up, down, end, prog, orphan, faults>>

-----------------------------------------------------------------------------
(* ExecEnd.  An end is e, the program's input pipe p and the window w. *)

\* drop_input: what is held counts as consumed, and the input closes.
Dropped(s) == [s EXCEPT !.w = @ + s.e.real, !.e.real = 0, !.e.synth = 0, !.e.in = FALSE]

\* Mutant: the keystroke for EOF is counted as a byte of the tunnel.
TakenAll(s, n) ==
  LET real == Smaller(n, s.e.real)
  IN [s EXCEPT !.w = @ + n, !.e.real = @ - real, !.e.synth = @ - (n - real),
               !.p = @ \o [i \in 1 .. n |-> IF i <= real THEN "data" ELSE "veof"]]

\* account: n units go to the program; the keystroke added for EOF never came from the tunnel.
Taken(s, n) ==
  LET real == Smaller(n, s.e.real)
  IN [s EXCEPT !.w = @ + real, !.e.real = @ - real, !.e.synth = @ - (n - real),
               !.p = @ \o [i \in 1 .. n |-> IF i <= real THEN "data" ELSE "veof"]]

\* The pipe closes once EOF was seen and all is written.
EofDone(e) == e.in /\ e.eof /\ ~pty /\ e.real + e.synth = 0

\* flush_input: as much as the program's side takes, then EOF; everything is dropped once
\* nobody reads it.
FlushInput(s) ==
  LET held == s.e.real + s.e.synth
      t == IF ~s.e.in \/ held = 0 THEN s
           ELSE IF ~prog.stdin THEN Dropped(s)
           ELSE Taken(s, Smaller(held, PipeCap - Len(s.p)))
  IN IF EofDone(t.e) THEN [t EXCEPT !.e.in = FALSE] ELSE t

\* on_tunnel_data for one frame.
Framed(s, f) ==
  IF f = "data"
  THEN IF s.e.in /\ ~s.e.eof THEN [s EXCEPT !.e.real = @ + 1, !.w = @ - 1] ELSE s
  ELSE [s EXCEPT !.e.eof = TRUE, !.e.synth = IF pty /\ s.e.in /\ ~s.e.eof THEN 1 ELSE @]

\* A state of end, pipe and window becomes the next one.
Becomes(s) ==
  /\ end' = s.e
  /\ prog' = [prog EXCEPT !.pin = s.p]
  /\ up' = [up EXCEPT !.wnd = s.w]

Now == [e |-> end, p |-> prog.pin, w |-> up.wnd]

RecvInput ==
  LET s == FlushInput(Framed(Now, Head(up.net)))
  IN /\ end.open /\ up.net # <<>> /\ Head(up.net) # "fin" /\ up.wnd > 0
     /\ end' = s.e
     /\ prog' = [prog EXCEPT !.pin = s.p]
     /\ up' = [up EXCEPT !.net = Tail(@), !.wnd = s.w]
     /\ UNCHANGED <<pty, cl, down, inst, orphan, faults>>

\* Mutant: EXIT is sent as soon as the program has ended.
FinishableEarly(e) == ~e.reaped /\ prog.st = "zombie"

\* maybe_finish: all output is read and the program has ended.
Finishable(e) == ~e.reaped /\ e.fds = {} /\ prog.st = "zombie"

\* ... and finish, or nothing.
MaybeFinish(s, net) ==
  LET t == Dropped(s)
  IN IF Finishable(s.e)
     THEN /\ end' = [t.e EXCEPT !.reaped = TRUE, !.shut = TRUE]
          /\ prog' = [prog EXCEPT !.pin = t.p, !.st = "reaped"]
          /\ up' = [up EXCEPT !.wnd = t.w]
          /\ down' = [down EXCEPT !.net = Append(net, "exit")]
     ELSE /\ Becomes(s)
          /\ down' = [down EXCEPT !.net = net]

\* What the end wants polled: output only while the tunnel has room for a frame.
Watches ==
  (IF Len(down.net) < Room THEN end.fds ELSE {})
    \cup (IF end.in /\ end.real + end.synth > 0 THEN {"in"} ELSE {})

\* sync_watches: the descriptors of an open instance that the daemon polls.
Watched(f) == end.open /\ f \in Watches

\* in_ is writable, or nobody reads it any more.
InReady ==
  /\ Watched("in")
  /\ Len(prog.pin) < PipeCap \/ ~prog.stdin
  /\ MaybeFinish(FlushInput(Now), down.net)
  /\ UNCHANGED <<pty, cl, inst, orphan, faults>>

\* out_ or err_ is readable and the tunnel has room: a frame.
OutReady(f) ==
  /\ Watched(f) /\ prog.pipe[f] > 0
  /\ down' = [down EXCEPT !.net = Append(@, f)]
  /\ prog' = [prog EXCEPT !.pipe[f] = @ - 1]
  /\ UNCHANGED <<pty, cl, up, inst, end, orphan, faults>>

\* ... or its end, when nobody can write to it any more.
OutEof(f) ==
  LET s == [Now EXCEPT !.e.fds = @ \ {f}]
  IN /\ Watched(f)
     /\ prog.pipe[f] = 0 /\ f \notin prog.writers
     /\ MaybeFinish(IF pty THEN Dropped(s) ELSE s, down.net)
     /\ UNCHANGED <<pty, cl, inst, orphan, faults>>

\* ExecEnd::tick: the program ended after its output did.
EndTick ==
  /\ end.open /\ Finishable(end)
  /\ MaybeFinish(Now, down.net)
  /\ UNCHANGED <<pty, cl, inst, orphan, faults>>

\* ~ExecEnd: a program that was not waited for is hung up, and remembered unless it has ended.
Orphaned(e) ==
  IF e.reaped \/ prog.st = "zombie" THEN NoOrphan ELSE [NoOrphan EXCEPT !.on = TRUE]

\* The end goes and its descriptors close; SIGHUP may end the program and its children.  Once the
\* program itself has ended the daemon follows nothing: a child that lives on is not in orphans(),
\* is never killed, and is left out here.
EndGone ==
  /\ end' = [end EXCEPT !.open = FALSE, !.in = FALSE, !.fds = {}, !.real = 0, !.synth = 0]
  /\ orphan' = Orphaned(end)
  /\ prog' \in IF end.reaped THEN {prog}
               ELSE IF prog.st = "zombie" THEN {[prog EXCEPT !.st = "reaped", !.writers = {}]}
               ELSE {prog, [prog EXCEPT !.st = "zombie", !.writers = {}]}

\* want_close: the daemon's tick closes an end that is finished; its FIN follows EXIT.
CloseEnd ==
  /\ end.open /\ end.shut
  /\ EndGone
  /\ down' = [down EXCEPT !.net = Append(@, "fin")]
  /\ up' = [up EXCEPT !.net = <<>>]
  /\ UNCHANGED <<pty, cl, inst, faults>>

\* on_tunnel_gone: the client's side closed first.
RecvHangup ==
  /\ end.open /\ up.net # <<>> /\ Head(up.net) = "fin"
  /\ EndGone
  /\ up' = [up EXCEPT !.net = <<>>]
  /\ down' = [down EXCEPT !.net = <<>>]
  /\ UNCHANGED <<pty, cl, inst, faults>>

\* What is sent to an end that is gone is thrown away.
Discard ==
  /\ ~end.open /\ up.net # <<>>
  /\ up' = [up EXCEPT !.net = <<>>]
  /\ UNCHANGED <<pty, cl, down, inst, end, prog, orphan, faults>>

\* Mutant: an orphan is never old enough.
KillDueNever == orphan.age > KillAfter /\ ~orphan.killed

\* It has had its time since SIGHUP, and gets SIGKILL once.
KillDue == orphan.age = KillAfter /\ ~orphan.killed

\* reap_orphans, every tick.
ReapOrphans ==
  /\ orphan.on
  /\ \/ /\ prog.st = "zombie"
        /\ orphan' = NoOrphan
        /\ prog' = [prog EXCEPT !.st = "reaped", !.writers = {}]
     \/ /\ prog.st = "run" /\ orphan.age < KillAfter
        /\ orphan' = [orphan EXCEPT !.age = @ + 1]
        /\ UNCHANGED prog
     \/ /\ prog.st = "run" /\ KillDue
        /\ orphan' = [orphan EXCEPT !.killed = TRUE]
        /\ prog' = [prog EXCEPT !.st = "zombie", !.writers = {}]
  /\ UNCHANGED <<pty, cl, up, down, inst, end, faults>>

-----------------------------------------------------------------------------
(* The program *)

\* It reads a frame of input and owes output for it.
ProgRead ==
  /\ prog.st = "run" /\ prog.stdin /\ prog.owed = 0 /\ prog.pin # <<>> /\ Head(prog.pin) = "data"
  /\ \E n \in IF prog.writers = {} THEN {0} ELSE Gains :
       prog' = [prog EXCEPT !.pin = Tail(@), !.owed = n, !.read = @ + 1]
  /\ UNCHANGED <<pty, cl, up, down, inst, end, orphan, faults>>

\* It writes to a stream with room.
ProgWrite(f) ==
  /\ prog.st = "run" /\ prog.owed > 0
  /\ f \in prog.writers \cap end.fds /\ prog.pipe[f] < PipeCap
  /\ prog' = [prog EXCEPT !.pipe[f] = @ + 1, !.owed = @ - 1, !.wrote = @ + 1]
  /\ UNCHANGED <<pty, cl, up, down, inst, end, orphan, faults>>

\* It ends; a child may keep its output open.
Ends(p, writers) == [p EXCEPT !.st = "zombie", !.stdin = FALSE, !.pin = <<>>, !.writers = writers]

AtEof ==
  \/ prog.pin = <<>> /\ ~end.in
  \/ prog.pin # <<>> /\ Head(prog.pin) = "veof"

\* Its input ended and everything is written.
ProgDone ==
  /\ prog.st = "run" /\ prog.owed = 0 /\ (AtEof \/ ~prog.stdin)
  /\ \E kept \in {{}, prog.writers} : prog' = Ends(prog, kept)
  /\ UNCHANGED <<pty, cl, up, down, inst, end, orphan, faults>>

\* It ends for a reason of its own.
ProgQuit ==
  /\ prog.st = "run"
  /\ prog' = Ends(prog, {})
  /\ UNCHANGED <<pty, cl, up, down, inst, end, orphan, faults>>

\* It closes its standard input and runs on.
ProgCloseStdin ==
  /\ prog.st = "run" /\ prog.stdin /\ ~pty
  /\ prog' = [prog EXCEPT !.stdin = FALSE, !.pin = <<>>]
  /\ UNCHANGED <<pty, cl, up, down, inst, end, orphan, faults>>

\* It closes its output and runs on, without its terminal if it has one.
ProgCloseOutput ==
  /\ prog.st = "run" /\ prog.owed = 0 /\ prog.writers # {}
  /\ prog' = [prog EXCEPT !.writers = {}, !.stdin = @ /\ ~pty, !.pin = IF pty THEN <<>> ELSE @]
  /\ UNCHANGED <<pty, cl, up, down, inst, end, orphan, faults>>

\* A child that kept the output open ends.
ChildEnds ==
  /\ prog.st \in {"zombie", "reaped"} /\ prog.writers # {}
  /\ prog' = [prog EXCEPT !.writers = {}]
  /\ UNCHANGED <<pty, cl, up, down, inst, end, orphan, faults>>

-----------------------------------------------------------------------------
(* Failures *)

\* The connection breaks (keepalive, reset): both daemons see it.
Break ==
  /\ faults > 0 /\ end.open /\ inst.st = "open"
  /\ faults' = faults - 1
  /\ EndGone
  /\ inst' = Released(down)
  /\ up' = [up EXCEPT !.net = <<>>]
  /\ down' = [down EXCEPT !.net = <<>>]
  /\ UNCHANGED <<pty, cl>>

\* The program's daemon stops: stop_orphans leaves nothing behind.
StopDaemon ==
  /\ faults > 0 /\ end.open /\ inst.st = "open"
  /\ faults' = faults - 1
  /\ end' = [end EXCEPT !.open = FALSE, !.in = FALSE, !.fds = {}, !.real = 0, !.synth = 0]
  /\ prog' = IF prog.st = "none" THEN prog ELSE [prog EXCEPT !.st = "reaped", !.writers = {}]
  /\ inst' = Released(down)
  /\ up' = [up EXCEPT !.net = <<>>]
  /\ down' = [down EXCEPT !.net = <<>>]
  /\ UNCHANGED <<pty, cl, orphan>>

Daemons ==
  \/ \E n \in 0 .. Len(down.net) - 1 : OpenOk(n)
  \/ RecvOutput \/ FlushClient \/ RecvFin \/ ClientTooSlow \/ CfdReady \/ Resume
  \/ RecvInput \/ InReady \/ (\E f \in Streams : OutReady(f) \/ OutEof(f)) \/ EndTick
  \/ CloseEnd \/ RecvHangup \/ Discard \/ ReapOrphans

Client == ClientRead \/ ClientLost \/ ReadStdin \/ Sent

Filter == ProgRead \/ (\E f \in Streams : ProgWrite(f)) \/ ProgDone \/ ChildEnds

Finished ==
  /\ cl.st = "done" /\ ~end.open /\ ~inst.fd /\ ~orphan.on /\ prog.writers = {} /\ up.net = <<>>
  /\ UNCHANGED runVars

RunNext ==
  \/ Client \/ Daemons \/ Filter
  \/ StdoutGone \/ ProgQuit \/ ProgCloseStdin \/ ProgCloseOutput \/ Break \/ StopDaemon
  \/ Finished

RunSpec == RunInit /\ [][RunNext]_runVars

\* The event loops run; input is at hand; the program reads, writes and ends with its input.
RunFairSpec ==
  /\ RunSpec
  /\ WF_runVars(ClientRead \/ ClientLost) /\ WF_runVars(ReadStdin) /\ WF_runVars(Sent)
  /\ WF_runVars(\E n \in 0 .. Len(down.net) - 1 : OpenOk(n))
  /\ WF_runVars(RecvOutput) /\ WF_runVars(FlushClient)
  /\ WF_runVars(RecvFin) /\ WF_runVars(ClientTooSlow)
  /\ WF_runVars(CfdReady) /\ WF_runVars(Resume) /\ WF_runVars(RecvInput) /\ WF_runVars(InReady)
  /\ \A f \in Streams : WF_runVars(OutReady(f)) /\ WF_runVars(OutEof(f))
  /\ WF_runVars(EndTick) /\ WF_runVars(CloseEnd) /\ WF_runVars(RecvHangup) /\ WF_runVars(Discard)
  /\ WF_runVars(ReapOrphans)

\* The program reads its input, writes what it owes and ends when its input does.
FilterSpec ==
  /\ RunFairSpec
  /\ WF_runVars(ProgRead) /\ WF_runVars(\E f \in Streams : ProgWrite(f))
  /\ WF_runVars(ProgDone) /\ WF_runVars(ChildEnds)

-----------------------------------------------------------------------------
(* Properties *)

\* What is held for a slow program or a slow client is exactly what is missing from the
\* sender's window: nothing is credited twice (preacked, the EOF keystroke) and nothing is
\* forgotten (drop_input, a client that is gone), so no queue outgrows the window for long.
WindowsExact ==
  /\ end.open => up.wnd + end.real = Window
  /\ inst.st = "open" => down.wnd + Accounted(down.q) = Window + down.pre

\* EXIT is the last frame: a client that got it has got every frame the program wrote, from
\* both streams, also when a child kept them open after the program ended.
ExitIsLast == cl.status = "exit" => cl.got = prog.wrote

\* A program that sees the end of its input has been given all of it, however slowly it read.
EofAfterInput ==
  prog.st = "run" /\ prog.stdin /\ end.open /\ AtEof => prog.read = Input

\* Nobody is left behind by the daemon: a program whose connection is gone was waited for or
\* is an orphan that will be.
NoneForgotten ==
  ~end.open /\ prog.st \in {"run", "zombie"} => orphan.on

\* In every state of a run the windows count what is held (WindowsExact), the end of the input
\* comes after the input (EofAfterInput) and no program is forgotten (NoneForgotten).
RunInv == RunTypeOK /\ WindowsExact /\ EofAfterInput /\ NoneForgotten

\* The run comes to an end at the client, with a status, although every buffer on the way is
\* small, whoever closes, quits or breaks off first.
RunEnds == <>(cl.st = "done")

\* A program whose connection ended first is ended and waited for, also one that ignores
\* SIGHUP (reap_orphans).
StraysEnd == (orphan.on ~> prog.st = "reaped")
=============================================================================
