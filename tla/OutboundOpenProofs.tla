------------------------- MODULE OutboundOpenProofs -------------------------
(***************************************************************************)
(* Proofs about an outbound request and the program it may run.  About     *)
(* OutboundOpen, for any requests, times and bounds: one dial at a time,   *)
(* one verdict for the client, and no poll of a client that is not         *)
(* spliced.  About ExecRun, for any sizes of the input, the buffers and    *)
(* the windows: exact accounting of every byte of the window, the end of   *)
(* the input after all of it, and EXIT after all of the output.            *)
(***************************************************************************)
EXTENDS OutboundOpen, ExecRun, FiniteSetTheorems, FunctionTheorems, SequenceTheorems, TLAPS

\* What RequestInv needs of one request to be inductive.  Only a live request
\* has a connection; one that is not asked yet is a blank entry; a live one
\* that was not dismissed still has its client's socket; the bound on pcbs
\* counts all of them; after a crash nothing is left.
Facts(i) ==
  /\ conn[i] => life[i] = "live"
  /\ life[i] = "new" => kind[i] = "plain" /\ ~ open[i]
  /\ life[i] = "live" /\ kind[i] # "plain" => csock[i] = "held"
  /\ One(conn[i]) + halfclosed[i] + orphans[i] <= MaxPcbs
  /\ crashed => life[i] = "gone"

\* The parts of RequestInv for one request.
DialOf(i) == /\ inflight[i] <= 1
             /\ life[i] = "live" => (dialing[i] <=> inflight[i] = 1)
             /\ dialing[i] => ~ conn[i]

VerdictOf(i) ==
  /\ kind[i] = "pipe" =>
       /\ told[i] \in {<<"OK">>, <<"OK", "READY">>, <<"OK", "ERR">>}
       /\ life[i] = "live" => told[i] = IF open[i] THEN <<"OK", "READY">> ELSE <<"OK">>
  /\ kind[i] = "follow" =>
       /\ life[i] = "live" => told[i] = <<"OK">> /\ csock[i] = "held"
       /\ life[i] = "gone" /\ ~ crashed =>
            told[i] \in {<<"OK", "D">>, <<"OK", "E">>} /\ csock[i] = "closed"

WatchOf(i) == watch[i] =>
  life[i] = "live" /\ kind[i] = "pipe" /\ open[i] /\ conn[i] /\ csock[i] = "held"

All(i) == Facts(i) /\ DialOf(i) /\ VerdictOf(i) /\ WatchOf(i)

IInv == TypeOK /\ \A i \in Ids : All(i)

\* A second line after the first.
LEMMA TwoLines ==
  ASSUME NEW a \in Lines, NEW b \in Lines
  PROVE  Append(<<a>>, b) = <<a, b>> /\ <<a>> \o <<b>> = <<a, b>>
<1>1. <<a>> \in Seq(Lines) /\ <<a, b>> \in Seq(Lines) /\ Append(<<a>>, b) \in Seq(Lines)
  OBVIOUS
<1>2. Len(Append(<<a>>, b)) = 2 /\ Len(<<a, b>>) = 2
  OBVIOUS
<1>3. Append(<<a>>, b)[1] = a /\ Append(<<a>>, b)[2] = b /\ <<a, b>>[1] = a /\ <<a, b>>[2] = b
  OBVIOUS
<1>4. \A i \in 1 .. 2 : i = 1 \/ i = 2
  OBVIOUS
<1>5. Append(<<a>>, b) = <<a, b>>
  BY <1>1, <1>2, <1>3, <1>4, SeqEqual
<1>6. Append(<<a>>, b) = <<a>> \o <<b>>
  BY <1>1, AppendIsConcat
<1> QED
  BY <1>5, <1>6

\* The parts together are the property that the run checks.
LEMMA IInvImplies == IInv => RequestInv
  BY DEF IInv, All, DialOf, VerdictOf, WatchOf, RequestInv, OneDial, OneVerdict,
         WatchedWhenSpliced

\* The invariant holds at the start.
LEMMA InitHolds == Init => IInv
<1> SUFFICES ASSUME Init PROVE IInv
  OBVIOUS
<1>1. /\ life \in [Ids -> {"new", "live", "gone"}] /\ kind \in [Ids -> Kinds]
      /\ csock \in [Ids -> {"none", "held", "closing", "closed"}]
      /\ client \in [Ids -> {"alive", "gone"}]
  BY DEF Init, Kinds
<1>2. /\ wait \in [Ids -> BOOLEAN] /\ dialing \in [Ids -> BOOLEAN] /\ conn \in [Ids -> BOOLEAN]
      /\ open \in [Ids -> BOOLEAN] /\ watch \in [Ids -> BOOLEAN] /\ full \in [Ids -> BOOLEAN]
      /\ crashed \in BOOLEAN /\ want_close \in SUBSET Ids
  BY DEF Init
<1>3. /\ deadline \in [Ids -> Times] /\ next_dial \in [Ids -> Times] /\ inflight \in [Ids -> Nat]
      /\ halfclosed \in [Ids -> 0 .. MaxPcbs] /\ orphans \in [Ids -> 0 .. MaxPcbs]
      /\ unread \in [Ids -> 0 .. MaxUnread]
  BY TimeAssumption, OutboundBounds DEF Init, Times
<1>4. told \in [Ids -> Seq(Lines)]
  <2>1. <<>> \in Seq(Lines)
    OBVIOUS
  <2> QED
    BY <2>1 DEF Init
<1>5. TypeOK
  BY <1>1, <1>2, <1>3, <1>4 DEF TypeOK
<1>6. ASSUME NEW i \in Ids PROVE All(i)
  BY OutboundBounds DEF Init, All, Facts, DialOf, VerdictOf, WatchOf, One
<1> QED
  BY <1>5, <1>6 DEF IInv

\* Open keeps the invariant (Daemon::handle_cmd OPEN, LIST, REACH).
LEMMA OpenStep ==
  ASSUME IInv, NEW j \in Ids, NEW k \in Kinds, NEW w \in BOOLEAN, Open(j, k, w)
  PROVE  IInv'
<1>1. TypeOK'
  <2> USE DEF requestVars, clockVars, clientVars, leftVars
  <2>1. wait' \in [Ids -> BOOLEAN]
    BY DEF IInv, TypeOK, Open
  <2>2. deadline' \in [Ids -> Times] /\ next_dial' \in [Ids -> Times]
    BY TimeAssumption DEF IInv, TypeOK, Open, Times, Forever
  <2>3. told' \in [Ids -> Seq(Lines)]
    <3>1. <<>> \in Seq(Lines) /\ <<"OK">> \in Seq(Lines)
      BY DEF Lines
    <3> QED
      BY <3>1 DEF IInv, TypeOK, Open
  <2>4. dialing' \in [Ids -> BOOLEAN] /\ inflight' \in [Ids -> Nat]
    BY DEF IInv, TypeOK, Open, One
  <2>5. /\ life' \in [Ids -> {"new", "live", "gone"}] /\ kind' \in [Ids -> Kinds]
        /\ csock' \in [Ids -> {"none", "held", "closing", "closed"}]
        /\ client' \in [Ids -> {"alive", "gone"}]
    BY DEF IInv, TypeOK, Open
  <2> QED
    BY <2>1, <2>2, <2>3, <2>4, <2>5 DEF IInv, TypeOK, Open
<1>2. ASSUME NEW i \in Ids, i # j PROVE All(i)'
  BY <1>2 DEF IInv, TypeOK, Open, All, Facts, DialOf, VerdictOf, WatchOf, One, leftVars
<1>3. All(j)'
  <2>1. All(j) /\ life[j] = "new"
    BY DEF IInv, Open
  <2>2. ~ conn[j] /\ ~ open[j] /\ ~ watch[j] /\ ~ crashed
    BY <2>1 DEF All, Facts, WatchOf
  <2>3. /\ life'[j] = "live" /\ kind'[j] = k /\ conn' = conn /\ open' = open /\ watch' = watch
        /\ halfclosed' = halfclosed /\ orphans' = orphans /\ crashed' = crashed
        /\ csock'[j] = IF k = "plain" THEN "closed" ELSE "held"
        /\ told'[j] = IF k = "meta" THEN <<>> ELSE <<"OK">>
    BY DEF IInv, TypeOK, Open, leftVars
  <2>4. dialing'[j] \in BOOLEAN /\ inflight'[j] = One(dialing'[j])
    BY DEF IInv, TypeOK, Open
  <2>5. Facts(j)'
    BY <2>1, <2>2, <2>3 DEF All, Facts, One
  <2>6. DialOf(j)'
    BY <2>2, <2>3, <2>4 DEF DialOf, One
  <2>7. VerdictOf(j)'
    BY <2>2, <2>3 DEF VerdictOf
  <2> QED
    BY <2>2, <2>3, <2>5, <2>6, <2>7 DEF All, WatchOf
<1> QED
  BY <1>1, <1>2, <1>3 DEF IInv

\* OpenRefused keeps the invariant (Daemon::handle_cmd OPEN).
LEMMA OpenRefusedStep ==
  ASSUME IInv, NEW j \in Ids, OpenRefused(j)
  PROVE  IInv'
<1>1. TypeOK'
  <2>1. life' \in [Ids -> {"new", "live", "gone"}]
    BY DEF IInv, TypeOK, OpenRefused
  <2>2. csock' \in [Ids -> {"none", "held", "closing", "closed"}]
    BY DEF IInv, TypeOK, OpenRefused
  <2>3. told' \in [Ids -> Seq(Lines)]
    <3>1. <<"ERR">> \in Seq(Lines)
      BY DEF Lines
    <3> QED
      BY <3>1 DEF IInv, TypeOK, OpenRefused
  <2> QED
    BY <2>1, <2>2, <2>3 DEF IInv, TypeOK, OpenRefused, requestVars, clockVars, clientVars, leftVars
<1>2. ASSUME NEW i \in Ids PROVE All(i)'
  BY OutboundBounds DEF IInv, TypeOK, OpenRefused, All, Facts, DialOf, VerdictOf, WatchOf, One, Kinds,
     requestVars, clockVars, clientVars, leftVars, Handshaking, Holds, Erased
<1> QED
  BY <1>1, <1>2 DEF IInv

\* DialConnected keeps the invariant (Daemon::dial).
LEMMA DialConnectedStep ==
  ASSUME IInv, NEW j \in Ids, DialConnected(j)
  PROVE  IInv'
<1>1. TypeOK'
  <2>1. inflight' \in [Ids -> Nat]
    BY DEF IInv, TypeOK, DialConnected
  <2>2. conn' \in [Ids -> BOOLEAN] /\ dialing' \in [Ids -> BOOLEAN] /\ open' \in [Ids -> BOOLEAN]
    BY DEF IInv, TypeOK, DialConnected
  <2> QED
    BY <2>1, <2>2 DEF IInv, TypeOK, DialConnected, requestVars, clockVars, clientVars, leftVars
<1>2. ASSUME NEW i \in Ids, i # j PROVE All(i)'
  BY <1>2 DEF IInv, TypeOK, DialConnected, All, Facts, DialOf, VerdictOf, WatchOf, One, requestVars, leftVars
<1>3. All(j)'
  BY OutboundBounds DEF IInv, TypeOK, DialConnected, All, Facts, DialOf, VerdictOf, WatchOf, One,
     requestVars, leftVars
<1> QED
  BY <1>1, <1>2, <1>3 DEF IInv

\* DialFailed keeps the invariant (Daemon::dial).
LEMMA DialFailedStep ==
  ASSUME IInv, NEW j \in Ids, DialFailed(j)
  PROVE  IInv'
<1>1. TypeOK'
  <2>1. inflight' \in [Ids -> Nat]
    BY DEF IInv, TypeOK, DialFailed
  <2>2. conn' \in [Ids -> BOOLEAN] /\ dialing' \in [Ids -> BOOLEAN]
    BY DEF IInv, TypeOK, DialFailed
  <2> QED
    BY <2>1, <2>2 DEF IInv, TypeOK, DialFailed, requestVars, clockVars, clientVars, leftVars
<1>2. ASSUME NEW i \in Ids PROVE All(i)'
  BY OutboundBounds DEF IInv, TypeOK, DialFailed, All, Facts, DialOf, VerdictOf, WatchOf, One, Kinds,
     requestVars, clockVars, clientVars, leftVars, Handshaking, Holds, Erased
<1> QED
  BY <1>1, <1>2 DEF IInv

\* AnswerOk keeps the invariant (Daemon::on_tunnel_data).
LEMMA AnswerOkStep ==
  ASSUME IInv, NEW j \in Ids, AnswerOk(j)
  PROVE  IInv'
<1>1. TypeOK'
  <2>1. open' \in [Ids -> BOOLEAN] /\ watch' \in [Ids -> BOOLEAN]
    BY DEF IInv, TypeOK, AnswerOk
  <2>2. told' \in [Ids -> Seq(Lines)]
    BY DEF IInv, TypeOK, AnswerOk, Lines
  <2> QED
    BY <2>1, <2>2 DEF IInv, TypeOK, AnswerOk, requestVars, clockVars, clientVars, leftVars
<1>2. Append(<<"OK">>, "READY") = <<"OK", "READY">>
  BY TwoLines DEF Lines
<1>3. kind[j] = "pipe" => told'[j] = <<"OK", "READY">>
  BY <1>2 DEF IInv, TypeOK, AnswerOk, Handshaking, All, VerdictOf
<1>4. ASSUME NEW i \in Ids, i # j PROVE All(i)'
  BY <1>4 DEF IInv, TypeOK, AnswerOk, All, Facts, DialOf, VerdictOf, WatchOf, One,
     requestVars, clockVars, clientVars, leftVars
<1>5. All(j)'
  BY <1>3 DEF IInv, TypeOK, AnswerOk, Handshaking, All, Facts, DialOf, VerdictOf, WatchOf, One,
     requestVars, clockVars, clientVars, leftVars
<1> QED
  BY <1>1, <1>4, <1>5 DEF IInv

\* AnswerOkNoConn keeps the invariant (Daemon::bind_end).
LEMMA AnswerOkNoConnStep ==
  ASSUME IInv, NEW j \in Ids, AnswerOkNoConn(j)
  PROVE  IInv'
<1>1. TypeOK'
  <2>1. life' \in [Ids -> {"new", "live", "gone"}]
    BY DEF IInv, TypeOK, AnswerOkNoConn
  <2>2. csock' \in [Ids -> {"none", "held", "closing", "closed"}]
    BY DEF IInv, TypeOK, AnswerOkNoConn
  <2>3. /\ conn' \in [Ids -> BOOLEAN] /\ dialing' \in [Ids -> BOOLEAN] /\ open' \in [Ids -> BOOLEAN]
        /\ watch' \in [Ids -> BOOLEAN] /\ full' \in [Ids -> BOOLEAN]
    BY DEF IInv, TypeOK, AnswerOkNoConn, Erased
  <2>4. /\ inflight' \in [Ids -> Nat]
        /\ halfclosed' \in [Ids -> 0 .. MaxPcbs] /\ orphans' \in [Ids -> 0 .. MaxPcbs]
    BY OutboundBounds DEF AnswerOkNoConn
  <2> QED
    BY <2>1, <2>2, <2>3, <2>4 DEF IInv, TypeOK, AnswerOkNoConn, requestVars, clockVars, clientVars, leftVars
<1>2. ASSUME NEW i \in Ids PROVE All(i)'
  BY OutboundBounds DEF IInv, TypeOK, AnswerOkNoConn, All, Facts, DialOf, VerdictOf, WatchOf, One, Kinds,
     requestVars, clockVars, clientVars, leftVars, Handshaking, Holds, Erased
<1> QED
  BY <1>1, <1>2 DEF IInv

\* AnswerNotYet keeps the invariant (Daemon::on_tunnel_data).
LEMMA AnswerNotYetStep ==
  ASSUME IInv, NEW j \in Ids, AnswerNotYet(j)
  PROVE  IInv'
<1>1. TypeOK'
  <2>1. UnknownRetry \in Times
    BY TimeAssumption DEF Times
  <2> QED
    BY <2>1 DEF IInv, TypeOK, AnswerNotYet, requestVars, clientVars, leftVars
<1>2. ASSUME NEW i \in Ids PROVE All(i)'
  BY OutboundBounds DEF IInv, TypeOK, AnswerNotYet, All, Facts, DialOf, VerdictOf, WatchOf, One, Kinds,
     requestVars, clockVars, clientVars, leftVars, Handshaking, Holds, Erased
<1> QED
  BY <1>1, <1>2 DEF IInv

\* LocalShutdown keeps the invariant (Daemon::bind_end).
LEMMA LocalShutdownStep ==
  ASSUME IInv, NEW j \in Ids, LocalShutdown(j)
  PROVE  IInv'
<1>1. TypeOK'
  BY TimeAssumption, OutboundBounds DEF IInv, TypeOK, LocalShutdown, Kinds, Times, Lines, One,
     requestVars, clockVars, clientVars, leftVars, Handshaking, Holds, Erased
<1>2. ASSUME NEW i \in Ids PROVE All(i)'
  BY OutboundBounds DEF IInv, TypeOK, LocalShutdown, All, Facts, DialOf, VerdictOf, WatchOf, One, Kinds,
     requestVars, clockVars, clientVars, leftVars, Handshaking, Holds, Erased
<1> QED
  BY <1>1, <1>2 DEF IInv

\* TunnelDrained keeps the invariant (Daemon::bind_end).
LEMMA TunnelDrainedStep ==
  ASSUME IInv, NEW j \in Ids, TunnelDrained(j)
  PROVE  IInv'
<1>1. TypeOK'
  BY TimeAssumption, OutboundBounds DEF IInv, TypeOK, TunnelDrained, Kinds, Times, Lines, One,
     requestVars, clockVars, clientVars, leftVars, Handshaking, Holds, Erased
<1>2. ASSUME NEW i \in Ids PROVE All(i)'
  BY OutboundBounds DEF IInv, TypeOK, TunnelDrained, All, Facts, DialOf, VerdictOf, WatchOf, One, Kinds,
     requestVars, clockVars, clientVars, leftVars, Handshaking, Holds, Erased
<1> QED
  BY <1>1, <1>2 DEF IInv

\* ClientPause keeps the invariant (Daemon::watch_cfd).
LEMMA ClientPauseStep ==
  ASSUME IInv, NEW j \in Ids, ClientPause(j)
  PROVE  IInv'
<1>1. TypeOK'
  BY TimeAssumption, OutboundBounds DEF IInv, TypeOK, ClientPause, Kinds, Times, Lines, One,
     requestVars, clockVars, clientVars, leftVars, Handshaking, Holds, Erased
<1>2. ASSUME NEW i \in Ids PROVE All(i)'
  BY OutboundBounds DEF IInv, TypeOK, ClientPause, All, Facts, DialOf, VerdictOf, WatchOf, One, Kinds,
     requestVars, clockVars, clientVars, leftVars, Handshaking, Holds, Erased
<1> QED
  BY <1>1, <1>2 DEF IInv

\* ClientForward keeps the invariant (Daemon::watch_cfd).
LEMMA ClientForwardStep ==
  ASSUME IInv, NEW j \in Ids, ClientForward(j)
  PROVE  IInv'
<1>1. TypeOK'
  <2> USE DEF requestVars, clockVars, clientVars, leftVars
  <2>1. full' \in [Ids -> BOOLEAN]
    BY DEF IInv, TypeOK, ClientForward
  <2>2. unread' \in [Ids -> 0 .. MaxUnread]
    BY OutboundBounds DEF IInv, TypeOK, ClientForward
  <2> QED
    BY <2>1, <2>2 DEF IInv, TypeOK, ClientForward
<1>2. ASSUME NEW i \in Ids PROVE All(i)'
  BY OutboundBounds DEF IInv, TypeOK, ClientForward, All, Facts, DialOf, VerdictOf, WatchOf, One, Kinds,
     requestVars, clockVars, clientVars, leftVars, Handshaking, Holds, Erased
<1> QED
  BY <1>1, <1>2 DEF IInv

\* ClientFlushed keeps the invariant (Daemon::flush_client, Daemon::close_client).
LEMMA ClientFlushedStep ==
  ASSUME IInv, NEW j \in Ids, ClientFlushed(j)
  PROVE  IInv'
<1>1. TypeOK'
  BY TimeAssumption, OutboundBounds DEF IInv, TypeOK, ClientFlushed, Kinds, Times, Lines, One,
     requestVars, clockVars, clientVars, leftVars, Handshaking, Holds, Erased
<1>2. ASSUME NEW i \in Ids PROVE All(i)'
  BY OutboundBounds DEF IInv, TypeOK, ClientFlushed, All, Facts, DialOf, VerdictOf, WatchOf, One, Kinds,
     requestVars, clockVars, clientVars, leftVars, Handshaking, Holds, Erased
<1> QED
  BY <1>1, <1>2 DEF IInv

\* ClientWrite keeps the invariant (the client process writes to its socket).
LEMMA ClientWriteStep ==
  ASSUME IInv, NEW j \in Ids, ClientWrite(j)
  PROVE  IInv'
<1>1. TypeOK'
  <2>1. unread' \in [Ids -> 0 .. MaxUnread]
    BY OutboundBounds DEF IInv, TypeOK, ClientWrite
  <2> QED
    BY <2>1 DEF IInv, TypeOK, ClientWrite, requestVars, clockVars, clientVars, leftVars
<1>2. ASSUME NEW i \in Ids PROVE All(i)'
  BY OutboundBounds DEF IInv, TypeOK, ClientWrite, All, Facts, DialOf, VerdictOf, WatchOf, One, Kinds,
     requestVars, clockVars, clientVars, leftVars, Handshaking, Holds, Erased
<1> QED
  BY <1>1, <1>2 DEF IInv

\* ClientExit keeps the invariant (the client process ends).
LEMMA ClientExitStep ==
  ASSUME IInv, NEW j \in Ids, ClientExit(j)
  PROVE  IInv'
<1>1. TypeOK'
  BY TimeAssumption, OutboundBounds DEF IInv, TypeOK, ClientExit, Kinds, Times, Lines, One,
     requestVars, clockVars, clientVars, leftVars, Handshaking, Holds, Erased
<1>2. ASSUME NEW i \in Ids PROVE All(i)'
  BY OutboundBounds DEF IInv, TypeOK, ClientExit, All, Facts, DialOf, VerdictOf, WatchOf, One, Kinds,
     requestVars, clockVars, clientVars, leftVars, Handshaking, Holds, Erased
<1> QED
  BY <1>1, <1>2 DEF IInv


-----------------------------------------------------------------------------
(* Handlers that end requests *)

\* The lines that fail_open and close_instance add.
LEMMA LastLines ==
  /\ \A s \in Seq(Lines) : s \o <<>> = s
  /\ <<"OK">> \o <<"ERR">> = <<"OK", "ERR">>
  /\ <<"OK">> \o <<"D">> = <<"OK", "D">>
  /\ <<"OK">> \o <<"E">> = <<"OK", "E">>
<1>1. \A s \in Seq(Lines) : s \o <<>> = s
  BY ConcatEmptySeq
<1>2. "OK" \in Lines /\ "ERR" \in Lines /\ "D" \in Lines /\ "E" \in Lines
  BY DEF Lines
<1> QED
  BY <1>1, <1>2, TwoLines

\* The requests in E, and no others, have ended with their last lines.
EndsOnly(E) ==
  /\ life' \in [Ids -> {"new", "live", "gone"}]
  /\ told' \in [Ids -> Seq(Lines)]
  /\ csock' \in [Ids -> {"none", "held", "closing", "closed"}]
  /\ \A i \in Ids \ E : life'[i] = life[i] /\ told'[i] = told[i] /\ csock'[i] = csock[i]
  /\ \A i \in E : /\ life'[i] = "gone"
                  /\ kind[i] = "pipe" =>
                       told'[i] \in {<<"OK">>, <<"OK", "READY">>, <<"OK", "ERR">>}
                  /\ kind[i] = "follow" =>
                       told'[i] \in {<<"OK", "D">>, <<"OK", "E">>} /\ csock'[i] = "closed"

\* fail_open of F and close_instance of K.
LEMMA FinishFacts ==
  ASSUME IInv, NEW F, NEW K, F \subseteq Live, K \subseteq Live, \A i \in F : ~ open[i],
         Finish(F, K)
  PROVE  EndsOnly(F \cup K)
<1>1. PICK done \in SUBSET (F \cup K) :
        told' = [i \in Ids |-> told[i] \o Failed(F, i)
                                 \o (IF i \in F \cup K THEN Final(F, done, i) ELSE <<>>)]
  BY DEF Finish
<1>2. PICK queued \in SUBSET {i \in F \cup K : kind[i] = "pipe"} :
        csock' = [i \in Ids |-> IF i \in F \cup K /\ Holds(i)
                                 THEN IF i \in queued THEN "closing" ELSE "closed"
                                 ELSE csock[i]]
  BY DEF Finish
<1>3. ASSUME NEW i \in Ids \ (F \cup K)
      PROVE  life'[i] = life[i] /\ told'[i] = told[i] /\ csock'[i] = csock[i]
  BY <1>1, <1>2, <1>3, LastLines DEF Finish, Failed, IInv, TypeOK
<1>4. ASSUME NEW i \in F \cup K
      PROVE  /\ life'[i] = "gone"
             /\ kind[i] = "pipe" =>
                  told'[i] \in {<<"OK">>, <<"OK", "READY">>, <<"OK", "ERR">>}
             /\ kind[i] = "follow" =>
                  told'[i] \in {<<"OK", "D">>, <<"OK", "E">>} /\ csock'[i] = "closed"
             /\ told'[i] \in Seq(Lines)
  <2>0. i \in Ids /\ life[i] = "live"
    BY DEF Live
  <2>1. life'[i] = "gone"
    BY <2>0 DEF Finish
  <2>2. told'[i] = told[i] \o Failed(F, i) \o Final(F, done, i)
    BY <1>1, <2>0
  <2>3. CASE kind[i] = "pipe"
    <3>1. told[i] \in {<<"OK">>, <<"OK", "READY">>} /\ (i \in F => told[i] = <<"OK">>)
      BY <2>0, <2>3 DEF IInv, All, VerdictOf
    <3>2. Failed(F, i) \in {<<>>, <<"ERR">>} /\ (i \notin F => Failed(F, i) = <<>>)
          /\ Final(F, done, i) = <<>>
      BY <2>3 DEF Failed, Final
    <3>3. told[i] \in Seq(Lines)
      BY <2>0 DEF IInv, TypeOK
    <3>4. told'[i] = told[i] \/ (i \in F /\ told'[i] = <<"OK", "ERR">>)
      <4>1. CASE Failed(F, i) = <<>>
        BY <2>2, <3>2, <3>3, <4>1, LastLines
      <4>2. CASE Failed(F, i) = <<"ERR">>
        <5>1. i \in F
          BY <4>2, <3>2
        <5>2. told[i] \o <<"ERR">> = <<"OK", "ERR">>
          BY <5>1, <3>1, LastLines
        <5>3. <<"OK", "ERR">> \in Seq(Lines)
          BY DEF Lines
        <5> QED
          BY <2>2, <3>2, <4>2, <5>1, <5>2, <5>3, LastLines
      <4> QED
        BY <3>2, <4>1, <4>2
    <3>5. <<"OK", "ERR">> \in Seq(Lines)
      BY DEF Lines
    <3> QED
      BY <2>1, <2>3, <3>1, <3>3, <3>4, <3>5
  <2>4. CASE kind[i] = "follow"
    <3>1. told[i] = <<"OK">> /\ csock[i] = "held" /\ told[i] \in Seq(Lines)
      BY <2>0, <2>4 DEF IInv, TypeOK, All, VerdictOf
    <3>2. csock'[i] = "closed"
      BY <1>2, <2>0, <2>4, <3>1 DEF Holds
    <3>3. told'[i] \in {<<"OK", "D">>, <<"OK", "E">>}
      <4>1. CASE i \in F
        <5>1. Failed(F, i) = <<"E">> /\ Final(F, done, i) = <<>>
          BY <4>1, <2>4, <3>1 DEF Failed, Final, Holds
        <5>2. <<"OK", "E">> \in Seq(Lines)
          BY DEF Lines
        <5> QED
          BY <2>2, <3>1, <5>1, <5>2, LastLines
      <4>2. CASE i \notin F
        <5>1. Failed(F, i) = <<>> /\ Final(F, done, i) \in {<<"D">>, <<"E">>}
          BY <4>2, <2>4, <3>1 DEF Failed, Final, Holds
        <5>2. told'[i] = told[i] \o Final(F, done, i)
          BY <2>2, <3>1, <5>1, LastLines
        <5> QED
          BY <3>1, <5>1, <5>2, LastLines
      <4> QED
        BY <4>1, <4>2
    <3>4. <<"OK", "D">> \in Seq(Lines) /\ <<"OK", "E">> \in Seq(Lines)
      BY DEF Lines
    <3> QED
      BY <2>1, <2>4, <3>2, <3>3, <3>4
  <2>5. CASE kind[i] # "pipe" /\ kind[i] # "follow"
    <3>1. Failed(F, i) = <<>> /\ Final(F, done, i) = <<>>
      BY <2>5 DEF Failed, Final
    <3>2. told[i] \in Seq(Lines)
      BY <2>0 DEF IInv, TypeOK
    <3> QED
      BY <2>1, <2>2, <2>5, <3>1, <3>2, LastLines
  <2> QED
    BY <2>3, <2>4, <2>5
<1>5. told' \in [Ids -> Seq(Lines)]
  <2>1. \A i \in Ids : told'[i] \in Seq(Lines)
    BY <1>3, <1>4 DEF IInv, TypeOK
  <2>2. told' = [i \in Ids |-> told'[i]]
    BY <1>1
  <2> QED
    BY <2>1, <2>2
<1>6. life' \in [Ids -> {"new", "live", "gone"}]
      /\ csock' \in [Ids -> {"none", "held", "closing", "closed"}]
  BY <1>2 DEF Finish, IInv, TypeOK
<1> QED
  BY <1>3, <1>4, <1>5, <1>6 DEF EndsOnly

\* fail_open of a request that is not open yet.
LEMMA FailOpenStep ==
  ASSUME IInv, NEW j \in Ids, life[j] = "live", ~ open[j], FailOpen(j)
  PROVE  IInv'
<1> USE DEF requestVars, clockVars, clientVars, leftVars
<1>1. Finish({j}, {}) /\ j \in Live
  BY DEF Live, FailOpen
<1>2. EndsOnly({j} \cup {})
  BY <1>1, FinishFacts
<1>3. EndsOnly({j})
  <2>1. {j} \cup {} = {j}
    OBVIOUS
  <2> QED
    BY <1>2, <2>1
<1>4. TypeOK'
  BY <1>3 DEF EndsOnly, FailOpen, Erased, IInv, TypeOK
<1>5. ASSUME NEW i \in Ids, i # j PROVE All(i)'
  <2>1. /\ conn'[i] <=> conn[i]
        /\ open'[i] <=> open[i]
        /\ watch'[i] <=> watch[i]
        /\ dialing'[i] <=> dialing[i]
        /\ life'[i] = life[i] /\ told'[i] = told[i] /\ csock'[i] = csock[i]
    BY <1>3, <1>5 DEF EndsOnly, FailOpen, Erased, IInv, TypeOK
  <2>2. /\ kind' = kind /\ inflight' = inflight /\ crashed' = crashed
        /\ halfclosed' = halfclosed /\ orphans' = orphans
    BY DEF FailOpen
  <2> QED
    BY <2>1, <2>2 DEF IInv, All, Facts, DialOf, VerdictOf, WatchOf, One
<1>6. All(j)'
  BY <1>3, OutboundBounds DEF EndsOnly, FailOpen, Erased, IInv, TypeOK, All, Facts, DialOf, VerdictOf, WatchOf, One
<1> QED
  BY <1>4, <1>5, <1>6 DEF IInv

\* close_instance of any live request.
LEMMA CloseInstanceStep ==
  ASSUME IInv, NEW j \in Ids, life[j] = "live", CloseInstance(j)
  PROVE  IInv'
<1> USE DEF requestVars, clockVars, clientVars, leftVars
<1>1. Finish({}, {j}) /\ j \in Live
  BY DEF Live, CloseInstance
<1>2. EndsOnly({} \cup {j})
  BY <1>1, FinishFacts
<1>3. EndsOnly({j})
  <2>1. {} \cup {j} = {j}
    OBVIOUS
  <2> QED
    BY <1>2, <2>1
<1>4. TypeOK'
  BY <1>3 DEF EndsOnly, CloseInstance, Erased, IInv, TypeOK
<1>5. ASSUME NEW i \in Ids, i # j PROVE All(i)'
  <2>1. /\ conn'[i] <=> conn[i]
        /\ open'[i] <=> open[i]
        /\ watch'[i] <=> watch[i]
        /\ dialing'[i] <=> dialing[i]
        /\ life'[i] = life[i] /\ told'[i] = told[i] /\ csock'[i] = csock[i]
    BY <1>3, <1>5 DEF EndsOnly, CloseInstance, Erased, IInv, TypeOK
  <2>2. /\ kind' = kind /\ inflight' = inflight /\ crashed' = crashed
        /\ halfclosed' = halfclosed /\ orphans' = orphans
    BY DEF CloseInstance
  <2> QED
    BY <2>1, <2>2 DEF IInv, All, Facts, DialOf, VerdictOf, WatchOf, One
<1>6. All(j)'
  BY <1>3, OutboundBounds DEF EndsOnly, CloseInstance, Erased, IInv, TypeOK, All, Facts, DialOf, VerdictOf,
     WatchOf, One
<1> QED
  BY <1>4, <1>5, <1>6 DEF IInv

\* on_tunnel_gone, with what it leaves of the fields of the request.
LEMMA OnTunnelGoneFacts ==
  ASSUME IInv, NEW j \in Ids, OnTunnelGone(j)
  PROVE  /\ life' \in [Ids -> {"new", "live", "gone"}]
         /\ told' \in [Ids -> Seq(Lines)]
         /\ csock' \in [Ids -> {"none", "held", "closing", "closed"}]
         /\ \A i \in Ids \ {j} : life'[i] = life[i] /\ told'[i] = told[i] /\ csock'[i] = csock[i]
         /\ life[j] = "live" /\ open[j] =>
              /\ life'[j] = "gone"
              /\ kind[j] = "pipe" => told'[j] = told[j]
              /\ kind[j] = "follow" =>
                   told'[j] \in {<<"OK", "D">>, <<"OK", "E">>} /\ csock'[j] = "closed"
         /\ ~ (life[j] = "live" /\ open[j]) =>
              life'[j] = life[j] /\ told'[j] = told[j] /\ csock'[j] = csock[j]
<1> DEFINE ends == life[j] = "live" /\ open[j]
<1>1. PICK done \in SUBSET {j} :
        told' = [told EXCEPT ![j] = IF ends THEN @ \o Final({}, done, j) ELSE @]
  BY DEF OnTunnelGone
<1>2. /\ Final({}, done, j) \in {<<>>, <<"D">>, <<"E">>}
      /\ kind[j] # "follow" => Final({}, done, j) = <<>>
      /\ kind[j] = "follow" /\ csock[j] = "held" => Final({}, done, j) \in {<<"D">>, <<"E">>}
  BY DEF Final, Holds
<1>3. told[j] \in Seq(Lines) /\ told \in [Ids -> Seq(Lines)]
  BY DEF IInv, TypeOK
<1>4. ASSUME ends, kind[j] # "follow" PROVE told'[j] = told[j]
  BY <1>1, <1>2, <1>3, <1>4, LastLines
<1>5. ASSUME ends, kind[j] = "follow"
      PROVE  told'[j] \in {<<"OK", "D">>, <<"OK", "E">>}
  <2>1. told[j] = <<"OK">> /\ csock[j] = "held"
    BY <1>5 DEF IInv, All, VerdictOf
  <2> QED
    BY <1>1, <1>2, <1>3, <1>5, <2>1, LastLines
<1>6. told' \in [Ids -> Seq(Lines)]
  <2>1. <<"OK", "D">> \in Seq(Lines) /\ <<"OK", "E">> \in Seq(Lines)
    BY DEF Lines
  <2>2. told'[j] \in Seq(Lines)
    <3>1. CASE ~ ends
      BY <1>1, <1>3, <3>1
    <3>2. CASE ends
      BY <1>3, <1>4, <1>5, <2>1, <3>2
    <3> QED
      BY <3>1, <3>2
  <2>3. told' = [told EXCEPT ![j] = told'[j]]
    BY <1>1, <1>3
  <2> QED
    BY <1>3, <2>2, <2>3
<1>7. ends /\ kind[j] = "follow" => csock'[j] = "closed"
  <2>1. ends /\ kind[j] = "follow" => csock[j] = "held"
    BY DEF IInv, All, VerdictOf
  <2> QED
    BY <2>1 DEF OnTunnelGone, Holds, IInv, TypeOK
<1>8. /\ life' \in [Ids -> {"new", "live", "gone"}]
      /\ csock' \in [Ids -> {"none", "held", "closing", "closed"}]
      /\ \A i \in Ids \ {j} : life'[i] = life[i] /\ csock'[i] = csock[i]
      /\ ends => life'[j] = "gone"
      /\ ~ ends => life'[j] = life[j] /\ csock'[j] = csock[j]
  BY DEF OnTunnelGone, IInv, TypeOK
<1>9. (\A i \in Ids \ {j} : told'[i] = told[i]) /\ (~ ends => told'[j] = told[j])
  BY <1>1, <1>3
<1> QED
  BY <1>4, <1>5, <1>6, <1>7, <1>8, <1>9

\* Only pcbs of request j have changed, within the bound.
PcbsOf(j) ==
  /\ halfclosed' \in [Ids -> 0 .. MaxPcbs] /\ orphans' \in [Ids -> 0 .. MaxPcbs]
  /\ \A i \in Ids \ {j} : halfclosed'[i] = halfclosed[i] /\ orphans'[i] = orphans[i]
  /\ halfclosed'[j] + orphans'[j] <= MaxPcbs

\* ... keeps the invariant, whichever pcbs the callback was about.
LEMMA GoneStep ==
  ASSUME IInv, NEW j \in Ids, OnTunnelGone(j), PcbsOf(j)
  PROVE  IInv'
<1> USE DEF requestVars, clockVars, clientVars, leftVars
<1>1. TypeOK'
  <2>1. /\ conn' \in [Ids -> BOOLEAN] /\ open' \in [Ids -> BOOLEAN]
        /\ watch' \in [Ids -> BOOLEAN] /\ full' \in [Ids -> BOOLEAN]
    BY DEF OnTunnelGone, Erased, IInv, TypeOK
  <2> QED
    BY <2>1, OnTunnelGoneFacts DEF OnTunnelGone, PcbsOf, IInv, TypeOK
<1>2. ~ conn'[j] /\ ~ open'[j] /\ ~ watch'[j]
  BY DEF OnTunnelGone, Erased
<1>3. ASSUME NEW i \in Ids, i # j
      PROVE  /\ conn'[i] <=> conn[i]
             /\ open'[i] <=> open[i]
             /\ watch'[i] <=> watch[i]
             /\ life'[i] = life[i] /\ told'[i] = told[i] /\ csock'[i] = csock[i]
             /\ halfclosed'[i] = halfclosed[i] /\ orphans'[i] = orphans[i]
  <2>1. /\ life'[i] = life[i] /\ told'[i] = told[i] /\ csock'[i] = csock[i]
    BY <1>3, OnTunnelGoneFacts
  <2>2. halfclosed'[i] = halfclosed[i] /\ orphans'[i] = orphans[i]
    BY <1>3 DEF PcbsOf
  <2> QED
    BY <1>3, <2>1, <2>2 DEF OnTunnelGone, Erased
<1>4. kind' = kind /\ inflight' = inflight /\ dialing' = dialing /\ crashed' = crashed
  BY DEF OnTunnelGone
<1>5. ASSUME NEW i \in Ids, i # j PROVE All(i)'
  <2>1. All(i)
    BY DEF IInv
  <2>2. Facts(i)'
    <3>1. One(conn'[i]) = One(conn[i])
      BY <1>3, <1>5 DEF One
    <3> QED
      BY <1>3, <1>4, <1>5, <2>1, <3>1 DEF All, Facts
  <2>3. DialOf(i)'
    BY <1>3, <1>4, <1>5, <2>1 DEF All, DialOf
  <2>4. VerdictOf(i)'
    BY <1>3, <1>4, <1>5, <2>1 DEF All, VerdictOf
  <2>5. WatchOf(i)'
    BY <1>3, <1>4, <1>5, <2>1 DEF All, WatchOf
  <2> QED
    BY <2>2, <2>3, <2>4, <2>5 DEF All
<1>6. Facts(j)' /\ WatchOf(j)' /\ DialOf(j)'
  <2>1. All(j)
    BY DEF IInv
  <2>2. One(conn'[j]) + halfclosed'[j] + orphans'[j] <= MaxPcbs
    <3>1. One(conn'[j]) = 0
      BY <1>2 DEF One
    <3>2. halfclosed'[j] \in Int /\ orphans'[j] \in Int
      BY OutboundBounds DEF PcbsOf
    <3> QED
      BY <3>1, <3>2, OutboundBounds DEF PcbsOf
  <2>3. life'[j] = life[j] \/ life'[j] = "gone"
    BY OnTunnelGoneFacts
  <2>4. life'[j] = "live" => life[j] = "live" /\ csock'[j] = csock[j]
    BY <2>3, OnTunnelGoneFacts
  <2>5. Facts(j)'
    BY <1>2, <1>4, <2>1, <2>2, <2>3, <2>4 DEF All, Facts
  <2>6. DialOf(j)'
    BY <1>2, <1>4, <2>1, <2>4 DEF All, DialOf
  <2> QED
    BY <1>2, <2>5, <2>6 DEF WatchOf
<1>7. VerdictOf(j)'
  <2>0. VerdictOf(j) /\ Facts(j)
    BY DEF IInv, All
  <2>1. CASE life[j] = "live" /\ open[j]
    BY <1>2, <1>4, <2>1, <2>0, OnTunnelGoneFacts DEF Facts, VerdictOf
  <2>2. CASE life[j] = "live" /\ ~ open[j]
    BY <1>2, <1>4, <2>2, <2>0, OnTunnelGoneFacts DEF Facts, VerdictOf
  <2>3. CASE life[j] # "live"
    BY <1>2, <1>4, <2>3, <2>0, OnTunnelGoneFacts DEF Facts, VerdictOf
  <2> QED
    BY <2>1, <2>2, <2>3
<1> QED
  BY <1>1, <1>5, <1>6, <1>7 DEF IInv, All

\* TunnelError keeps the invariant (TcpConn::on_lwip_err).
LEMMA TunnelErrorStep == ASSUME IInv, NEW j \in Ids, TunnelError(j) PROVE IInv'
<1>1. One(conn[j]) \in {0, 1} /\ One(conn[j]) + halfclosed[j] + orphans[j] <= MaxPcbs
  BY DEF IInv, All, Facts, One
<1>2. halfclosed' = halfclosed /\ orphans' = orphans
  BY DEF TunnelError, leftVars
<1>3. /\ halfclosed \in [Ids -> 0 .. MaxPcbs]
      /\ orphans \in [Ids -> 0 .. MaxPcbs]
  BY DEF IInv, TypeOK
<1>4. halfclosed[j] + orphans[j] <= MaxPcbs
  BY <1>1, <1>3, OutboundBounds
<1>5. PcbsOf(j)
  BY <1>2, <1>3, <1>4 DEF PcbsOf
<1> QED
  BY <1>5, GoneStep DEF TunnelError

\* TunnelFin keeps the invariant (TcpConn::on_lwip_recv).
LEMMA TunnelFinStep == ASSUME IInv, NEW j \in Ids, TunnelFin(j) PROVE IInv'
<1>0. conn[j] /\ Facts(j)
  BY DEF TunnelFin, IInv, All
<1>1. 1 + halfclosed[j] + orphans[j] <= MaxPcbs
  BY <1>0 DEF Facts, One
<1>2. PcbsOf(j)
  BY <1>1, OutboundBounds DEF TunnelFin, PcbsOf, IInv, TypeOK
<1> QED
  BY <1>2, GoneStep DEF TunnelFin

\* StaleError keeps the invariant (TcpConn::on_lwip_err).
LEMMA StaleErrorStep == ASSUME IInv, NEW j \in Ids, StaleError(j) PROVE IInv'
<1>1. One(conn[j]) \in {0, 1} /\ One(conn[j]) + halfclosed[j] + orphans[j] <= MaxPcbs
  BY DEF IInv, All, Facts, One
<1>t. /\ halfclosed \in [Ids -> 0 .. MaxPcbs] /\ orphans \in [Ids -> 0 .. MaxPcbs]
      /\ halfclosed[j] \in Int /\ orphans[j] \in Int
  BY OutboundBounds DEF IInv, TypeOK
<1>2. CASE /\ halfclosed[j] > 0
           /\ halfclosed' = [halfclosed EXCEPT ![j] = @ - 1]
           /\ orphans' = [orphans EXCEPT ![j] = @ + One(conn[j])]
  <2>1. PcbsOf(j)
    BY <1>1, <1>t, <1>2, OutboundBounds DEF PcbsOf
  <2> QED
    BY <2>1, GoneStep DEF StaleError
<1>3. CASE /\ orphans[j] > 0
           /\ orphans' = [orphans EXCEPT ![j] = @ - 1 + One(conn[j])]
           /\ UNCHANGED halfclosed
  <2>1. PcbsOf(j)
    BY <1>1, <1>t, <1>3, OutboundBounds DEF PcbsOf
  <2> QED
    BY <2>1, GoneStep DEF StaleError
<1> QED
  BY <1>2, <1>3 DEF StaleError

\* OrphanFin keeps the invariant (TcpConn::on_lwip_recv).
LEMMA OrphanFinStep == ASSUME IInv, NEW j \in Ids, OrphanFin(j) PROVE IInv'
<1>1. One(conn[j]) \in {0, 1} /\ One(conn[j]) + halfclosed[j] + orphans[j] <= MaxPcbs
  BY DEF IInv, All, Facts, One
<1>t. /\ halfclosed \in [Ids -> 0 .. MaxPcbs] /\ orphans \in [Ids -> 0 .. MaxPcbs]
      /\ halfclosed[j] \in Int /\ orphans[j] \in Int
  BY OutboundBounds DEF IInv, TypeOK
<1>2. PcbsOf(j)
  BY <1>1, <1>t, OutboundBounds DEF OrphanFin, PcbsOf
<1> QED
  BY <1>2, GoneStep DEF OrphanFin

-----------------------------------------------------------------------------
(* The tick and the clock *)

\* Time touches the two clocks alone.
LEMMA ElapseStep == IInv /\ Elapse => IInv'
<1> SUFFICES ASSUME IInv, Elapse PROVE IInv'
  OBVIOUS
<1> USE DEF requestVars, clockVars, clientVars, leftVars
<1>0. \A t \in Times : Countdown(t) \in Times
  BY TimeAssumption DEF Countdown, Times
<1>1. deadline' \in [Ids -> Times] /\ next_dial' \in [Ids -> Times]
  BY <1>0 DEF Elapse, IInv, TypeOK
<1>2. TypeOK'
  BY <1>1 DEF Elapse, IInv, TypeOK
<1>3. ASSUME NEW i \in Ids PROVE All(i)'
  BY DEF Elapse, IInv, All, Facts, DialOf, VerdictOf, WatchOf, One
<1> QED
  BY <1>2, <1>3 DEF IInv

\* The tick dials only who has no connect underway and polls only who is spliced.
LEMMA TickStep == IInv /\ Tick => IInv'
<1> SUFFICES ASSUME IInv, Tick PROVE IInv'
  OBVIOUS
<1> USE DEF requestVars, clockVars, clientVars, leftVars
<1> DEFINE F == {i \in Unconnected : deadline[i] = 0}
           K == want_close \cap Live
           resumed == {i \in Live : open[i] /\ kind[i] = "pipe" /\ conn[i] /\ ~ full[i]}
<1>1. F \subseteq Live /\ K \subseteq Live /\ (\A i \in F : ~ open[i]) /\ Finish(F, K)
  BY DEF Unconnected, Tick
<1>2. EndsOnly(F \cup K)
  BY <1>1, FinishFacts
<1>3. PICK started \in SUBSET Due :
        /\ dialing' = [i \in Ids |-> i \in started \/ (dialing[i] /\ i \notin F)]
        /\ inflight' = [i \in Ids |-> inflight[i] + One(i \in started)]
  BY DEF Tick
<1>4. /\ conn' = [i \in Ids |-> conn[i] /\ i \notin K]
      /\ open' = [i \in Ids |-> open[i] /\ i \notin K]
      /\ full' = [i \in Ids |-> full[i] /\ i \notin K]
      /\ watch' = [i \in Ids |-> (watch[i] \/ i \in resumed) /\ i \notin K]
      /\ next_dial' = [i \in Ids |-> IF i \in Due THEN DialRetry ELSE next_dial[i]]
      /\ want_close' = {}
      /\ UNCHANGED <<requestVars, deadline, leftVars, clientVars, crashed>>
  BY DEF Tick
<1>5. \A i \in started : /\ i \in Ids /\ life[i] = "live" /\ ~ open[i] /\ ~ conn[i]
                         /\ ~ dialing[i] /\ i \notin F /\ i \notin K
  BY DEF Due, Unconnected, Live
<1>6. \A i \in F \cup K : i \in Ids /\ life[i] = "live"
  BY <1>1 DEF Live
<1>7. \A i \in F : ~ open[i] /\ ~ conn[i] /\ i \notin K
  BY DEF Unconnected
<1>8. \A i \in resumed : i \in Ids /\ life[i] = "live" /\ open[i] /\ kind[i] = "pipe" /\ conn[i]
  BY DEF Live
<1> HIDE DEF F, K, resumed
<1>9. TypeOK'
  <2>1. /\ conn' \in [Ids -> BOOLEAN] /\ open' \in [Ids -> BOOLEAN]
        /\ watch' \in [Ids -> BOOLEAN] /\ full' \in [Ids -> BOOLEAN]
        /\ dialing' \in [Ids -> BOOLEAN]
    BY <1>3, <1>4
  <2>2. inflight' \in [Ids -> Nat]
    BY <1>3 DEF One, IInv, TypeOK
  <2>3. next_dial' \in [Ids -> Times] /\ want_close' \in SUBSET Ids
    BY <1>4, TimeAssumption DEF Times, IInv, TypeOK
  <2> QED
    BY <1>2, <1>4, <2>1, <2>2, <2>3 DEF EndsOnly, IInv, TypeOK
<1>10. ASSUME NEW i \in Ids PROVE All(i)'
  <2>1. CASE i \in F \cup K
    <3>1. ~ conn'[i] /\ ~ watch'[i] /\ inflight'[i] = inflight[i] /\ life[i] = "live"
      <4>1. life[i] = "live" /\ i \notin started /\ (i \in K \/ (~ open[i] /\ ~ conn[i]))
        BY <1>5, <1>6, <1>7, <2>1
      <4>2. One(i \in started) = 0
        BY <4>1 DEF One
      <4>3. inflight'[i] = inflight[i]
        BY <1>3, <4>2 DEF IInv, TypeOK
      <4>4. ~ conn'[i]
        BY <1>4, <4>1
      <4>5. i \notin K => ~ watch[i] /\ i \notin resumed
        BY <1>8, <4>1 DEF IInv, All, WatchOf
      <4> QED
        BY <1>4, <4>1, <4>3, <4>4, <4>5
    <3>2. Facts(i)' /\ DialOf(i)' /\ WatchOf(i)'
      BY <3>1, <2>1, <1>2, <1>4, OutboundBounds
         DEF EndsOnly, IInv, TypeOK, All, Facts, DialOf, WatchOf, One
    <3>3. VerdictOf(i)'
      BY <2>1, <1>2, <1>4 DEF EndsOnly, VerdictOf
    <3> QED
      BY <3>2, <3>3 DEF All
  <2>2. CASE i \notin F \cup K
    <3>1. /\ conn'[i] <=> conn[i]
          /\ open'[i] <=> open[i]
          /\ watch'[i] => watch[i] \/ i \in resumed
          /\ life'[i] = life[i] /\ told'[i] = told[i] /\ csock'[i] = csock[i]
          /\ kind' = kind /\ crashed' = crashed /\ halfclosed' = halfclosed /\ orphans' = orphans
      BY <1>2, <1>4, <2>2 DEF EndsOnly
    <3>2. Facts(i)' /\ VerdictOf(i)'
      BY <3>1 DEF IInv, All, Facts, VerdictOf, One
    <3>3. WatchOf(i)'
      BY <3>1, <1>8 DEF IInv, All, Facts, WatchOf
    <3>4. DialOf(i)'
      <4>1. CASE i \in started
        <5>1. inflight[i] = 0
          BY <1>5, <4>1 DEF IInv, TypeOK, All, DialOf
        <5>2. dialing'[i] /\ inflight'[i] = 1
          <6>1. One(i \in started) = 1
            BY <4>1 DEF One
          <6>2. inflight'[i] = inflight[i] + One(i \in started)
            BY <1>3
          <6>3. dialing'[i]
            BY <1>3, <2>2, <4>1
          <6> QED
            BY <5>1, <6>1, <6>2, <6>3
        <5> QED
          BY <5>2, <3>1, <1>5, <4>1 DEF DialOf
      <4>2. CASE i \notin started
        <5>1. (dialing'[i] <=> dialing[i]) /\ inflight'[i] = inflight[i]
          BY <1>3, <2>2, <4>2 DEF One, IInv, TypeOK
        <5> QED
          BY <5>1, <3>1 DEF IInv, All, DialOf
      <4> QED
        BY <4>1, <4>2
    <3> QED
      BY <3>2, <3>3, <3>4 DEF All
  <2> QED
    BY <2>1, <2>2
<1> QED
  BY <1>9, <1>10 DEF IInv

-----------------------------------------------------------------------------
\* No step of any request breaks the invariant.
LEMMA NextHolds == IInv /\ [Next]_vars => IInv'
<1> SUFFICES ASSUME IInv, [Next]_vars PROVE IInv'
  OBVIOUS
<1>1. CASE UNCHANGED vars
  BY <1>1 DEF vars, IInv, TypeOK, All, Facts, DialOf, VerdictOf, WatchOf
<1>2. CASE Tick
  BY <1>2, TickStep
<1>3. CASE Elapse
  BY <1>3, ElapseStep
<1>4. ASSUME NEW j \in Ids, RequestStep(j) PROVE IInv'
  <2>1. CASE \E k \in Kinds, w \in BOOLEAN : Open(j, k, w)
    BY <2>1, OpenStep
  <2>2. CASE OpenRefused(j)
    BY <2>2, OpenRefusedStep
  <2>3. CASE CloseCmd(j)
    BY <2>3, CloseInstanceStep DEF CloseCmd
  <2>4. CASE DialConnected(j) \/ DialFailed(j)
    BY <2>4, DialConnectedStep, DialFailedStep
  <2>5. CASE Settle(j)
    <3>1. CASE AnswerOk(j) \/ AnswerOkNoConn(j) \/ AnswerNotYet(j)
      BY <3>1, AnswerOkStep, AnswerOkNoConnStep, AnswerNotYetStep
    <3>2. CASE AnswerNo(j)
      BY <3>2, FailOpenStep DEF AnswerNo, Handshaking
    <3>3. CASE AnswerGarbage(j)
      BY <3>3, CloseInstanceStep DEF AnswerGarbage, Handshaking
    <3>4. CASE TunnelError(j) \/ TunnelFin(j)
      BY <3>4, TunnelErrorStep, TunnelFinStep
    <3> QED
      BY <2>5, <3>1, <3>2, <3>3, <3>4 DEF Settle
  <2>6. CASE StaleError(j) \/ OrphanFin(j)
    BY <2>6, StaleErrorStep, OrphanFinStep
  <2>7. CASE LocalShutdown(j) \/ TunnelDrained(j)
    BY <2>7, LocalShutdownStep, TunnelDrainedStep
  <2>8. CASE ClientPause(j) \/ ClientForward(j) \/ ClientFlushed(j) \/ ClientWrite(j) \/ ClientExit(j)
    BY <2>8, ClientPauseStep, ClientForwardStep, ClientFlushedStep, ClientWriteStep, ClientExitStep
  <2>9. CASE ClientEof(j)
    <3>1. life[j] = "live"
      BY <2>9 DEF ClientEof, IInv, All, WatchOf
    <3> QED
      BY <2>9, <3>1, CloseInstanceStep DEF ClientEof
  <2> QED
    BY <1>4, <2>1, <2>2, <2>3, <2>4, <2>5, <2>6, <2>7, <2>8, <2>9 DEF RequestStep
<1> QED
  BY <1>1, <1>2, <1>3, <1>4 DEF Next

\* Whatever the peer, the network, the clients and the clock do, every request
\* has at most one connect underway, tells its client one verdict, and is polled
\* only while it is spliced (Daemon::dial, on_tunnel_gone, tick, watch_cfd).
THEOREM RequestsCorrect == Spec => []RequestInv
<1>1. Spec => []IInv
  BY InitHolds, NextHolds, PTL DEF Spec
<1> QED
  BY <1>1, IInvImplies, PTL

-----------------------------------------------------------------------------
(* Counting in sequences *)

\* How many elements of q are in S.
CountIn(q, S) == Cardinality({i \in 1 .. Len(q) : q[i] \in S})

\* A count is a number no greater than the length.
LEMMA CountType ==
  ASSUME NEW T, NEW q \in Seq(T), NEW S
  PROVE  /\ IsFiniteSet({i \in 1 .. Len(q) : q[i] \in S})
         /\ CountIn(q, S) \in Nat /\ CountIn(q, S) <= Len(q)
<1> DEFINE A == {i \in 1 .. Len(q) : q[i] \in S}
<1>1. Len(q) \in Nat
  BY LenProperties
<1>2. IsFiniteSet(1 .. Len(q)) /\ Cardinality(1 .. Len(q)) = Len(q)
  <2> DEFINE m == Len(q)
  <2>1. m \in Nat
    BY <1>1
  <2> HIDE DEF m
  <2>2. IsFiniteSet(1 .. m) /\ Cardinality(1 .. m) = m
    BY <2>1, FS_Interval
  <2> QED
    BY <2>2 DEF m
<1>3. A \in SUBSET (1 .. Len(q))
  OBVIOUS
<1> HIDE DEF A
<1>4. IsFiniteSet(A) /\ Cardinality(A) <= Len(q)
  BY <1>2, <1>3, FS_Subset
<1>5. Cardinality(A) \in Nat
  BY <1>4, FS_CardinalityType
<1> QED
  BY <1>4, <1>5 DEF A, CountIn

\* No element, or one.
LEMMA CountEmpty == ASSUME NEW S PROVE CountIn(<<>>, S) = 0
<1>1. {i \in 1 .. Len(<<>>) : <<>>[i] \in S} = {}
  OBVIOUS
<1> QED
  BY <1>1, FS_EmptySet DEF CountIn

\* One element counts if it is in S.
LEMMA CountOne == ASSUME NEW x, NEW S PROVE CountIn(<<x>>, S) = IF x \in S THEN 1 ELSE 0
<1>1. CASE x \in S
  <2>1. {i \in 1 .. Len(<<x>>) : <<x>>[i] \in S} = {1}
    BY <1>1
  <2> QED
    BY <1>1, <2>1, FS_Singleton DEF CountIn
<1>2. CASE x \notin S
  <2>1. {i \in 1 .. Len(<<x>>) : <<x>>[i] \in S} = {}
    BY <1>2
  <2> QED
    BY <1>2, <2>1, FS_EmptySet DEF CountIn
<1> QED
  BY <1>1, <1>2

\* A set of numbers has the size of the set of the numbers that are n greater.
LEMMA ShiftSize ==
  ASSUME NEW B \in SUBSET Nat, IsFiniteSet(B), NEW n \in Nat
  PROVE  /\ IsFiniteSet({i + n : i \in B})
         /\ Cardinality({i + n : i \in B}) = Cardinality(B)
<1> DEFINE C == {i + n : i \in B}
           g == [i \in B |-> i + n]
<1>1. g \in [B -> C] /\ \A i, j \in B : g[i] = g[j] => i = j
  <2>1. g \in [B -> C]
    OBVIOUS
  <2>2. \A i \in B : i \in Nat /\ g[i] = i + n
    OBVIOUS
  <2> HIDE DEF C, g
  <2>3. \A i, j \in B : g[i] = g[j] => i = j
    BY <2>2
  <2> QED
    BY <2>1, <2>3
<1>2. \A k \in C : \E i \in B : g[i] = k
  OBVIOUS
<1> HIDE DEF C, g
<1>3. g \in Bijection(B, C)
  BY <1>1, <1>2 DEF Bijection, Injection, Surjection, IsInjective
<1>4. ExistsBijection(B, C)
  BY <1>3 DEF ExistsBijection
<1> QED
  BY <1>4, FS_Bijection DEF C

\* Two sequences after one another.
LEMMA CountConcat ==
  ASSUME NEW T, NEW p \in Seq(T), NEW q \in Seq(T), NEW S
  PROVE  CountIn(p \o q, S) = CountIn(p, S) + CountIn(q, S)
<1> DEFINE A == {i \in 1 .. Len(p) : p[i] \in S}
           B == {i \in 1 .. Len(q) : q[i] \in S}
           C == {i + Len(p) : i \in B}
           D == {i \in 1 .. Len(p \o q) : (p \o q)[i] \in S}
<1>1. Len(p) \in Nat /\ Len(q) \in Nat
  BY LenProperties
<1>2. /\ Len(p \o q) = Len(p) + Len(q)
      /\ \A i \in 1 .. Len(p) + Len(q) :
           (p \o q)[i] = IF i <= Len(p) THEN p[i] ELSE q[i - Len(p)]
  BY ConcatProperties
<1>3. IsFiniteSet(A) /\ IsFiniteSet(B) /\ Cardinality(A) \in Nat /\ Cardinality(B) \in Nat
  BY CountType DEF CountIn
<1>4. IsFiniteSet(C) /\ Cardinality(C) = Cardinality(B)
  <2>1. B \in SUBSET Nat
    OBVIOUS
  <2> HIDE DEF B
  <2> QED
    BY <1>1, <1>3, <2>1, ShiftSize
<1>5. A \cap C = {}
  BY <1>1
<1>6. D = A \cup C
  <2>1. ASSUME NEW i \in D PROVE i \in A \cup C
    <3>1. i \in 1 .. Len(p) + Len(q) /\ (p \o q)[i] \in S
      BY <1>2
    <3>2. CASE i <= Len(p)
      BY <1>1, <1>2, <3>1, <3>2
    <3>3. CASE ~(i <= Len(p))
      <4>1. i - Len(p) \in B /\ i = (i - Len(p)) + Len(p)
        BY <1>1, <1>2, <3>1, <3>3
      <4> QED
        BY <4>1
    <3> QED
      BY <3>2, <3>3
  <2>2. ASSUME NEW i \in A PROVE i \in D
    BY <1>1, <1>2, <2>2
  <2>3. ASSUME NEW j \in B PROVE j + Len(p) \in D
    <3>1. j + Len(p) \in 1 .. Len(p) + Len(q) /\ ~(j + Len(p) <= Len(p))
          /\ (j + Len(p)) - Len(p) = j
      BY <1>1
    <3> QED
      BY <1>2, <3>1
  <2> QED
    BY <2>1, <2>2, <2>3
<1> HIDE DEF A, B, C, D
<1>7. Cardinality(D) = Cardinality(A) + Cardinality(C) - Cardinality(A \cap C)
  BY <1>3, <1>4, <1>6, FS_Union
<1>8. Cardinality(A \cap C) = 0
  BY <1>5, FS_EmptySet
<1>9. Cardinality(D) = Cardinality(A) + Cardinality(B)
  BY <1>3, <1>4, <1>7, <1>8
<1> QED
  BY <1>9 DEF CountIn, A, B, D

\* An element is added.
LEMMA CountAppend ==
  ASSUME NEW T, NEW q \in Seq(T), NEW x \in T, NEW S
  PROVE  CountIn(Append(q, x), S) = CountIn(q, S) + (IF x \in S THEN 1 ELSE 0)
<1>1. <<x>> \in Seq(T) /\ Append(q, x) = q \o <<x>>
  BY AppendIsConcat
<1>2. CountIn(q \o <<x>>, S) = CountIn(q, S) + CountIn(<<x>>, S)
  BY <1>1, CountConcat
<1> QED
  BY <1>1, <1>2, CountOne

\* A sequence is its first element and the rest.
LEMMA HeadAndTail ==
  ASSUME NEW T, NEW q \in Seq(T), q # <<>>
  PROVE  /\ Head(q) \in T /\ Tail(q) \in Seq(T) /\ Head(q) = q[1]
         /\ Len(q) \in Nat \ {0} /\ Len(Tail(q)) = Len(q) - 1
         /\ \A i \in 1 .. Len(q) - 1 : Tail(q)[i] = q[i + 1]
         /\ q = <<Head(q)>> \o Tail(q)
<1>1. /\ Head(q) \in T /\ Tail(q) \in Seq(T) /\ Head(q) = q[1] /\ Len(q) \in Nat \ {0}
      /\ Len(Tail(q)) = Len(q) - 1 /\ \A i \in 1 .. Len(q) - 1 : Tail(q)[i] = q[i + 1]
  BY EmptySeq, HeadTailProperties
<1> DEFINE p == <<Head(q)>> \o Tail(q)
<1>2. <<Head(q)>> \in Seq(T) /\ Len(<<Head(q)>>) = 1 /\ <<Head(q)>>[1] = Head(q)
  BY <1>1
<1>3. /\ p \in Seq(T) /\ Len(p) = 1 + Len(Tail(q))
      /\ \A i \in 1 .. 1 + Len(Tail(q)) :
           p[i] = IF i <= 1 THEN <<Head(q)>>[i] ELSE Tail(q)[i - 1]
  BY <1>1, <1>2, ConcatProperties
<1> HIDE DEF p
<1>4. ASSUME NEW i \in 1 .. Len(p) PROVE p[i] = q[i]
  <2>1. CASE i = 1
    BY <1>1, <1>2, <1>3, <2>1
  <2>2. CASE i # 1
    <3>1. i - 1 \in 1 .. Len(q) - 1 /\ (i - 1) + 1 = i /\ ~(i <= 1)
          /\ i \in 1 .. 1 + Len(Tail(q))
      BY <1>1, <1>3, <2>2
    <3> QED
      BY <1>1, <1>3, <3>1
  <2> QED
    BY <2>1, <2>2
<1>5. p = q
  BY <1>1, <1>3, <1>4, SeqEqual
<1> QED
  BY <1>1, <1>5 DEF p

\* The first element is taken.
LEMMA CountTail ==
  ASSUME NEW T, NEW q \in Seq(T), q # <<>>, NEW S
  PROVE  CountIn(q, S) = (IF Head(q) \in S THEN 1 ELSE 0) + CountIn(Tail(q), S)
<1>1. Head(q) \in T /\ Tail(q) \in Seq(T) /\ q = <<Head(q)>> \o Tail(q)
  BY HeadAndTail
<1>2. <<Head(q)>> \in Seq(T)
  BY <1>1
<1>3. CountIn(<<Head(q)>> \o Tail(q), S) = CountIn(<<Head(q)>>, S) + CountIn(Tail(q), S)
  BY <1>1, <1>2, CountConcat
<1> QED
  BY <1>1, <1>3, CountOne

\* Sequences that agree on who is counted.
LEMMA CountSame ==
  ASSUME NEW p, NEW q, NEW S, NEW U, Len(p) = Len(q),
         \A i \in 1 .. Len(p) : p[i] \in S <=> q[i] \in U
  PROVE  CountIn(p, S) = CountIn(q, U)
<1>1. {i \in 1 .. Len(p) : p[i] \in S} = {i \in 1 .. Len(q) : q[i] \in U}
  OBVIOUS
<1> QED
  BY <1>1 DEF CountIn

\* Nobody is counted.
LEMMA CountNone ==
  ASSUME NEW q, NEW S, \A i \in 1 .. Len(q) : q[i] \notin S
  PROVE  CountIn(q, S) = 0
<1>1. {i \in 1 .. Len(q) : q[i] \in S} = {}
  OBVIOUS
<1> QED
  BY <1>1, FS_EmptySet DEF CountIn

-----------------------------------------------------------------------------
(* The inductive invariant *)

Has(q, x) == \E i \in 1 .. Len(q) : q[i] = x

\* Nothing but FIN follows x.
OnlyFinAfter(q, x) == \A i, j \in 1 .. Len(q) : i < j /\ q[i] = x => q[j] = "fin"

\* All that is on its way to the client, the next frame to be read first.
Frames(q) == [i \in 1 .. Len(q) |-> q[i].frame]
Chain(d) == (d.sock \o Frames(d.q)) \o d.net

\* All that is on its way to the program's daemon.
Flow(u) == u.net \o u.sock

Bounded == Len(down.sock) <= SockCap /\ Len(prog.pin) <= PipeCap

\* The instance of the client's daemon and the two ends: as long as the instance is there so
\* is its client's socket, nothing but OK has gone before it opens, and if it is gone first
\* it went with its client.
InstOK ==
  /\ inst.st # "gone" => inst.fd /\ ~inst.closing
  /\ inst.st = "dial" => /\ down.sock = <<>> /\ down.q = <<>> /\ down.wnd = Window
                         /\ down.pre = 0 /\ cl.got = 0
  /\ \A i \in 1 .. Len(down.net) : down.net[i] = "ok" => i = 1 /\ inst.st = "dial"
  /\ end.open /\ (inst.st = "gone" \/ Has(up.net, "fin")) => cl.st = "done"
  /\ inst.st = "gone" /\ cl.st # "done" => down.net = <<>>

\* The windows, also while an instance that is gone still has something queued; what was
\* acknowledged in advance is queued, else account would open the window too far.
UpWindow(e, w) == e.open => w + e.real = Window
DownWindow(d, st) ==
  st # "gone" \/ d.q # <<>> =>
    d.wnd + Accounted(d.q) = Window + d.pre /\ d.pre <= Accounted(d.q)

\* The end, the program and the orphan.
ProgOK ==
  /\ end.reaped => prog.st \in {"none", "reaped"} /\ end.fds = {}
  /\ ~end.open /\ prog.st \in {"run", "zombie"} => orphan.on
  /\ end.open => \A f \in Streams \ end.fds : prog.pipe[f] = 0
  /\ pty => end.fds \subseteq {"out"}
  /\ pty /\ prog.st = "run" /\ prog.stdin /\ end.open => "out" \in prog.writers

\* Behind EOF comes nothing, and once it has left the client there is nothing before it that
\* the client has still to send.
Upstream(flow, c, eof) ==
  /\ (c.st = "send" /\ c.frame = "eof") \/ eof \/ Has(flow, "eof") => ~c.stdin /\ c.left = 0
  /\ eof \/ Has(flow, "eof") => c.st # "send"
  /\ OnlyFinAfter(flow, "eof")
  /\ eof => \A i \in 1 .. Len(flow) : flow[i] = "fin"

\* The keystroke for EOF goes to the program after all the input.
Keystroke(e, pin) ==
  /\ ~e.in => e.real = 0 /\ e.synth = 0
  /\ e.synth = 1 => e.eof
  /\ \A i \in 1 .. Len(pin) : pin[i] = "veof" =>
       i = Len(pin) /\ e.eof /\ e.real = 0 /\ e.synth = 0

EofOK == end.open => Upstream(Flow(up), cl, end.eof) /\ Keystroke(end, prog.pin)

\* A program that reads gets all the input: what was read and what is on its way, held or
\* not yet sent make the whole.
Sending(c) == IF c.st = "send" /\ c.frame = "data" THEN 1 ELSE 0
Supplied(flow, c, e, p, st) ==
  st # "gone" \/ e.eof \/ Has(flow, "eof") =>
    c.left + Sending(c) + CountIn(flow, {"data"}) + e.real + CountIn(p.pin, {"data"})
      + p.read = Input

InputOK ==
  end.open /\ prog.st = "run" /\ prog.stdin =>
    /\ ~end.in => end.eof
    /\ Supplied(Flow(up), cl, end, prog, inst.st)

\* A client that has not ended gets all the output: what it got and what is on its way make
\* the whole, without the program's pipes once EXIT is sent.
Delivery(chain, c, e, p) ==
  c.st # "done" =>
    /\ OnlyFinAfter(chain, "exit")
    /\ Has(chain, "exit") => e.reaped /\ c.got + CountIn(chain, Streams) = p.wrote
    /\ Has(chain, "fin") => ~e.open
    /\ \A i \in 1 .. Len(chain) : chain[i] = "ready" => i = 1 /\ c.got = 0
    /\ e.open /\ ~e.reaped =>
         c.got + CountIn(chain, Streams) + p.pipe["out"] + p.pipe["err"] = p.wrote

\* EXIT was read: the count is final.
StatusOK ==
  cl.status = "exit" => cl.st = "done" /\ cl.got = prog.wrote /\ prog.st # "run"

RunIInv ==
  /\ RunTypeOK /\ Bounded /\ InstOK
  /\ UpWindow(end, up.wnd) /\ DownWindow(down, inst.st)
  /\ ProgOK /\ EofOK /\ InputOK
  /\ Delivery(Chain(down), cl, end, prog) /\ StatusOK

-----------------------------------------------------------------------------
(* What is on its way to the client *)

Signals == Streams \cup {"ok", "ready", "exit", "fin"}

\* The parts of the chain are sequences.
LEMMA ChainOf ==
  ASSUME NEW d \in Downlinks
  PROVE  /\ d.sock \in Seq(Signals) /\ d.net \in Seq(Signals)
         /\ Frames(d.q) \in Seq(Signals) /\ Len(Frames(d.q)) = Len(d.q) /\ Len(d.q) \in Nat
         /\ Chain(d) \in Seq(Signals) /\ Len(Chain(d)) \in Nat
<1>1. /\ d.sock \in Seq(Streams \cup {"ready", "exit"}) /\ d.q \in Seq(Chunks)
      /\ d.net \in Seq(Streams \cup {"ok", "exit", "fin"})
  BY DEF Downlinks
<1>2. d.sock \in Seq(Signals) /\ d.net \in Seq(Signals)
  <2>1. Streams \cup {"ready", "exit"} \subseteq Signals
        /\ Streams \cup {"ok", "exit", "fin"} \subseteq Signals
    BY DEF Signals
  <2> QED
    BY <1>1, <2>1, SeqMonotonic
<1>3. Len(d.q) \in Nat /\ \A i \in 1 .. Len(d.q) : d.q[i] \in Chunks
  BY <1>1, LenProperties, ElementOfSeq
<1>4. Frames(d.q) \in [1 .. Len(d.q) -> Signals]
  BY <1>3 DEF Frames, Chunks, Signals
<1>5. Frames(d.q) \in Seq(Signals) /\ Len(Frames(d.q)) = Len(d.q)
  <2>1. Frames(d.q) \in Seq(Signals)
    BY <1>3, <1>4, SeqDef
  <2>2. DOMAIN Frames(d.q) = 1 .. Len(d.q) /\ DOMAIN Frames(d.q) = 1 .. Len(Frames(d.q))
        /\ Len(Frames(d.q)) \in Nat
    BY <1>4, <2>1, LenProperties
  <2> QED
    BY <1>3, <2>1, <2>2
<1>6. Chain(d) \in Seq(Signals)
  BY <1>2, <1>5, ConcatProperties DEF Chain
<1> QED
  BY <1>2, <1>3, <1>5, <1>6, LenProperties

\* Steps that leave the chain alone.
LEMMA DeliveryKept ==
  ASSUME NEW chain \in Seq(Signals), NEW c \in Clients, NEW e \in ExecEnds, NEW p \in Programs,
         Delivery(chain, c, e, p),
         NEW c1 \in Clients, NEW e1 \in ExecEnds, NEW p1 \in Programs,
         c1.st # "done" => c.st # "done" /\ c1.got = c.got,
         e1.open => e.open,
         e.reaped => e1.reaped /\ p1.wrote = p.wrote,
         e1.open /\ ~e1.reaped =>
           p1.pipe["out"] + p1.pipe["err"] + p.wrote = p.pipe["out"] + p.pipe["err"] + p1.wrote
  PROVE  Delivery(chain, c1, e1, p1)
<1> SUFFICES ASSUME c1.st # "done" PROVE Delivery(chain, c1, e1, p1)
  BY DEF Delivery
<1>1. /\ p.pipe["out"] \in Nat /\ p.pipe["err"] \in Nat /\ p.wrote \in Nat
      /\ p1.pipe["out"] \in Nat /\ p1.pipe["err"] \in Nat /\ p1.wrote \in Nat
  BY DEF Programs, Streams
<1>2. c.got \in Nat /\ CountIn(chain, Streams) \in Nat
  BY CountType DEF Clients
<1>3. /\ OnlyFinAfter(chain, "exit")
      /\ Has(chain, "exit") => e.reaped /\ c.got + CountIn(chain, Streams) = p.wrote
      /\ Has(chain, "fin") => ~e.open
      /\ \A i \in 1 .. Len(chain) : chain[i] = "ready" => i = 1 /\ c.got = 0
      /\ e.open /\ ~e.reaped =>
           c.got + CountIn(chain, Streams) + p.pipe["out"] + p.pipe["err"] = p.wrote
  BY DEF Delivery
<1>4. Has(chain, "exit") => e1.reaped /\ c1.got + CountIn(chain, Streams) = p1.wrote
  BY <1>3
<1>5. ASSUME e1.open, ~e1.reaped
      PROVE  c1.got + CountIn(chain, Streams) + p1.pipe["out"] + p1.pipe["err"] = p1.wrote
  <2>1. /\ c.got + CountIn(chain, Streams) + p.pipe["out"] + p.pipe["err"] = p.wrote
        /\ p1.pipe["out"] + p1.pipe["err"] + p.wrote
             = p.pipe["out"] + p.pipe["err"] + p1.wrote
        /\ c1.got = c.got
    BY <1>3, <1>5 DEF ExecEnds
  <2> DEFINE a == p.pipe["out"]
             b == p.pipe["err"]
             a1 == p1.pipe["out"]
             b1 == p1.pipe["err"]
             n == CountIn(chain, Streams)
             g == c.got
  <2>3. a \in Nat /\ b \in Nat /\ a1 \in Nat /\ b1 \in Nat /\ n \in Nat /\ g \in Nat
        /\ g + n + a + b = p.wrote /\ a1 + b1 + p.wrote = a + b + p1.wrote /\ c1.got = g
    BY <1>1, <1>2, <2>1
  <2> HIDE DEF a, b, a1, b1, n, g
  <2>4. c1.got + n + a1 + b1 = p1.wrote
    BY <1>1, <2>3
  <2> QED
    BY <2>4 DEF a1, b1, n
<1> QED
  BY <1>3, <1>4, <1>5 DEF Delivery

\* A frame leaves or enters the chain.
LEMMA HasTail ==
  ASSUME NEW T, NEW q \in Seq(T), q # <<>>, NEW x
  PROVE  /\ Has(q, x) <=> Head(q) = x \/ Has(Tail(q), x)
         /\ OnlyFinAfter(q, x) => OnlyFinAfter(Tail(q), x)
         /\ OnlyFinAfter(q, x) /\ Head(q) = x =>
              \A i \in 1 .. Len(Tail(q)) : Tail(q)[i] = "fin"
<1>1. /\ Head(q) = q[1] /\ Len(q) \in Nat \ {0} /\ Len(Tail(q)) = Len(q) - 1
      /\ \A i \in 1 .. Len(q) - 1 : Tail(q)[i] = q[i + 1]
  BY HeadAndTail
<1>2. \A i \in 1 .. Len(q) - 1 : i + 1 \in 1 .. Len(q) /\ 1 < i + 1
  BY <1>1
<1>3. ASSUME Has(q, x) PROVE Head(q) = x \/ Has(Tail(q), x)
  <2>1. PICK i \in 1 .. Len(q) : q[i] = x
    BY <1>3 DEF Has
  <2>2. CASE i # 1
    <3>1. i - 1 \in 1 .. Len(q) - 1 /\ (i - 1) + 1 = i
      BY <1>1, <2>2
    <3> QED
      BY <1>1, <2>1, <3>1 DEF Has
  <2> QED
    BY <1>1, <2>1, <2>2
<1>4. ASSUME Head(q) = x \/ Has(Tail(q), x) PROVE Has(q, x)
  BY <1>1, <1>2, <1>4 DEF Has
<1>5. OnlyFinAfter(q, x) => OnlyFinAfter(Tail(q), x)
  <2> SUFFICES ASSUME OnlyFinAfter(q, x), NEW i \in 1 .. Len(Tail(q)), NEW j \in 1 .. Len(Tail(q)),
                      i < j, Tail(q)[i] = x
               PROVE  Tail(q)[j] = "fin"
    BY DEF OnlyFinAfter
  <2>1. i + 1 \in 1 .. Len(q) /\ j + 1 \in 1 .. Len(q) /\ i + 1 < j + 1
        /\ Tail(q)[i] = q[i + 1] /\ Tail(q)[j] = q[j + 1]
    BY <1>1
  <2> QED
    BY <2>1 DEF OnlyFinAfter
<1>6. OnlyFinAfter(q, x) /\ Head(q) = x => \A i \in 1 .. Len(Tail(q)) : Tail(q)[i] = "fin"
  <2> SUFFICES ASSUME OnlyFinAfter(q, x), Head(q) = x, NEW i \in 1 .. Len(Tail(q))
               PROVE  Tail(q)[i] = "fin"
    OBVIOUS
  <2>1. i + 1 \in 1 .. Len(q) /\ 1 \in 1 .. Len(q) /\ 1 < i + 1 /\ Tail(q)[i] = q[i + 1]
    BY <1>1
  <2> QED
    BY <1>1, <2>1 DEF OnlyFinAfter
<1> QED
  BY <1>3, <1>4, <1>5, <1>6

\* What is in a sequence with an element appended, and behind what.
LEMMA HasAppend ==
  ASSUME NEW T, NEW q \in Seq(T), NEW m \in T, NEW x
  PROVE  /\ Has(Append(q, m), x) <=> m = x \/ Has(q, x)
         /\ OnlyFinAfter(q, x) /\ (~Has(q, x) \/ m = "fin") => OnlyFinAfter(Append(q, m), x)
<1> DEFINE p == Append(q, m)
<1>1. /\ Len(q) \in Nat /\ Len(p) = Len(q) + 1
      /\ \A i \in 1 .. Len(q) : p[i] = q[i]
      /\ p[Len(q) + 1] = m
  BY LenProperties, AppendProperties
<1>2. /\ \A i \in 1 .. Len(p) : i \in 1 .. Len(q) \/ i = Len(q) + 1
      /\ \A i \in 1 .. Len(q) : i \in 1 .. Len(p)
      /\ Len(q) + 1 \in 1 .. Len(p)
  BY <1>1
<1> HIDE DEF p
<1>3. Has(p, x) <=> m = x \/ Has(q, x)
  BY <1>1, <1>2 DEF Has
<1>4. OnlyFinAfter(q, x) /\ (~Has(q, x) \/ m = "fin") => OnlyFinAfter(p, x)
  <2> SUFFICES ASSUME OnlyFinAfter(q, x), ~Has(q, x) \/ m = "fin",
                      NEW i \in 1 .. Len(p), NEW j \in 1 .. Len(p), i < j, p[i] = x
               PROVE  p[j] = "fin"
    BY DEF OnlyFinAfter
  <2>1. i \in 1 .. Len(q) /\ p[i] = q[i]
    BY <1>1
  <2>2. m = "fin" \/ j \in 1 .. Len(q)
    BY <2>1 DEF Has
  <2>3. CASE j \in 1 .. Len(q)
    BY <1>1, <2>1, <2>3 DEF OnlyFinAfter
  <2>4. CASE j \notin 1 .. Len(q)
    BY <1>1, <1>2, <2>2, <2>4
  <2> QED
    BY <2>3, <2>4
<1> QED
  BY <1>3, <1>4 DEF p

\* The beginning of a sequence.
LEMMA HasPrefix ==
  ASSUME NEW T, NEW q \in Seq(T), NEW r \in Seq(T), NEW x
  PROVE  /\ Has(q \o r, x) <=> Has(q, x) \/ Has(r, x)
         /\ OnlyFinAfter(q \o r, x) => OnlyFinAfter(q, x)
         /\ OnlyFinAfter(q \o r, x) /\ Has(q, x) => \A i \in 1 .. Len(r) : r[i] = "fin"
<1> DEFINE p == q \o r
<1>1. /\ Len(q) \in Nat /\ Len(r) \in Nat /\ Len(p) = Len(q) + Len(r)
      /\ \A i \in 1 .. Len(q) + Len(r) : p[i] = IF i <= Len(q) THEN q[i] ELSE r[i - Len(q)]
  BY LenProperties, ConcatProperties
<1> HIDE DEF p
<1>2. \A i \in 1 .. Len(q) : i \in 1 .. Len(p) /\ p[i] = q[i]
  BY <1>1
<1>3. ASSUME NEW i \in 1 .. Len(r)
      PROVE  Len(q) + i \in 1 .. Len(p) /\ p[Len(q) + i] = r[i]
  <2>1. Len(q) + i \in 1 .. Len(q) + Len(r) /\ ~(Len(q) + i <= Len(q))
        /\ (Len(q) + i) - Len(q) = i
    BY <1>1
  <2> QED
    BY <1>1, <2>1
<1>4. ASSUME NEW i \in 1 .. Len(p), p[i] = x PROVE Has(q, x) \/ Has(r, x)
  <2>1. CASE i <= Len(q)
    BY <1>1, <1>4, <2>1 DEF Has
  <2>2. CASE ~(i <= Len(q))
    <3>1. i - Len(q) \in 1 .. Len(r)
      BY <1>1, <2>2
    <3> QED
      BY <1>1, <1>4, <2>2, <3>1 DEF Has
  <2> QED
    BY <2>1, <2>2
<1>5. Has(p, x) <=> Has(q, x) \/ Has(r, x)
  BY <1>2, <1>3, <1>4 DEF Has
<1>6. OnlyFinAfter(p, x) => OnlyFinAfter(q, x)
  <2> SUFFICES ASSUME OnlyFinAfter(p, x), NEW i \in 1 .. Len(q), NEW j \in 1 .. Len(q),
                      i < j, q[i] = x
               PROVE  q[j] = "fin"
    BY DEF OnlyFinAfter
  <2>1. i \in 1 .. Len(p) /\ j \in 1 .. Len(p) /\ p[i] = x /\ p[j] = q[j]
    BY <1>2
  <2> QED
    BY <2>1 DEF OnlyFinAfter
<1>7. OnlyFinAfter(p, x) /\ Has(q, x) => \A i \in 1 .. Len(r) : r[i] = "fin"
  <2> SUFFICES ASSUME OnlyFinAfter(p, x), NEW k \in 1 .. Len(q), q[k] = x, NEW i \in 1 .. Len(r)
               PROVE  r[i] = "fin"
    BY DEF Has
  <2>1. k \in 1 .. Len(p) /\ p[k] = x /\ Len(q) + i \in 1 .. Len(p) /\ p[Len(q) + i] = r[i]
    BY <1>2, <1>3
  <2>2. k < Len(q) + i
    BY <1>1
  <2> QED
    BY <2>1, <2>2 DEF OnlyFinAfter
<1> QED
  BY <1>5, <1>6, <1>7 DEF p

\* The client reads a frame.
LEMMA DeliveryRead ==
  ASSUME NEW chain \in Seq(Signals), NEW c \in Clients, NEW e \in ExecEnds, NEW p \in Programs,
         Delivery(chain, c, e, p), c.st # "done", chain # <<>>,
         Head(chain) \in Streams \cup {"ready"},
         NEW c1 \in Clients, c1.got = IF Head(chain) = "ready" THEN 0 ELSE c.got + 1
  PROVE  Delivery(Tail(chain), c1, e, p)
<1> DEFINE rest == Tail(chain)
           n == CountIn(chain, Streams)
           n1 == CountIn(rest, Streams)
<1>1. /\ rest \in Seq(Signals) /\ Head(chain) = chain[1] /\ Len(chain) \in Nat \ {0}
      /\ Len(rest) = Len(chain) - 1 /\ \A i \in 1 .. Len(chain) - 1 : rest[i] = chain[i + 1]
  BY HeadAndTail
<1>2. n \in Nat /\ n1 \in Nat /\ c.got \in Nat /\ c1.got \in Nat
  BY <1>1, CountType DEF Clients
<1>3. n = (IF Head(chain) \in Streams THEN 1 ELSE 0) + n1
  BY CountTail
<1>4. /\ \A x : Has(rest, x) => Has(chain, x)
      /\ OnlyFinAfter(chain, "exit") => OnlyFinAfter(rest, "exit")
  BY HasTail
<1>5. /\ OnlyFinAfter(chain, "exit")
      /\ Has(chain, "exit") => e.reaped /\ c.got + n = p.wrote
      /\ Has(chain, "fin") => ~e.open
      /\ \A i \in 1 .. Len(chain) : chain[i] = "ready" => i = 1 /\ c.got = 0
      /\ e.open /\ ~e.reaped => c.got + n + p.pipe["out"] + p.pipe["err"] = p.wrote
  BY DEF Delivery
<1> HIDE DEF rest, n, n1
<1>6. c1.got + n1 = c.got + n
  <2>1. CASE Head(chain) = "ready"
    <3>1. c.got = 0 /\ Head(chain) \notin Streams
      BY <1>1, <1>5, <2>1 DEF Streams
    <3> QED
      BY <1>2, <1>3, <2>1, <3>1
  <2>2. CASE Head(chain) # "ready"
    <3>1. Head(chain) \in Streams /\ c1.got = c.got + 1
      BY <2>2
    <3>2. n = 1 + n1
      BY <1>3, <3>1
    <3> QED
      BY <1>2, <3>1, <3>2, SMTT(30)
  <2> QED
    BY <2>1, <2>2
<1>7. ASSUME NEW i \in 1 .. Len(rest) PROVE rest[i] # "ready"
  <2>1. i + 1 \in 1 .. Len(chain) /\ i + 1 # 1 /\ rest[i] = chain[i + 1]
    BY <1>1
  <2> QED
    BY <1>5, <2>1
<1>8. Delivery(rest, c1, e, p)
  BY <1>4, <1>5, <1>6, <1>7 DEF Delivery, n1
<1> QED
  BY <1>8 DEF rest

\* The client reads EXIT.
LEMMA DeliveryExit ==
  ASSUME NEW chain \in Seq(Signals), NEW c \in Clients, NEW e \in ExecEnds, NEW p \in Programs,
         Delivery(chain, c, e, p), c.st # "done", chain # <<>>, Head(chain) = "exit"
  PROVE  e.reaped /\ c.got = p.wrote
<1>1. /\ Has(chain, "exit") /\ OnlyFinAfter(chain, "exit")
      /\ e.reaped /\ c.got + CountIn(chain, Streams) = p.wrote
  BY HasTail DEF Delivery
<1>2. \A i \in 1 .. Len(Tail(chain)) : Tail(chain)[i] = "fin"
  BY <1>1, HasTail
<1>3. CountIn(Tail(chain), Streams) = 0
  BY <1>2, CountNone DEF Streams
<1>4. CountIn(chain, Streams) = (IF Head(chain) \in Streams THEN 1 ELSE 0) + 0
  BY <1>3, CountTail
<1>5. CountIn(chain, Streams) = 0
  BY <1>4 DEF Streams
<1> QED
  BY <1>1, <1>5 DEF Clients

\* A frame of output is sent.
LEMMA DeliveryOut ==
  ASSUME NEW chain \in Seq(Signals), NEW c \in Clients, NEW e \in ExecEnds, NEW p \in Programs,
         Delivery(chain, c, e, p), e.open, ~e.reaped, NEW f \in Streams, p.pipe[f] > 0,
         NEW p1 \in Programs, p1.wrote = p.wrote, p1.pipe = [p.pipe EXCEPT ![f] = @ - 1]
  PROVE  Delivery(Append(chain, f), c, e, p1)
<1> SUFFICES ASSUME c.st # "done" PROVE Delivery(Append(chain, f), c, e, p1)
  BY DEF Delivery
<1> DEFINE long == Append(chain, f)
           n == CountIn(chain, Streams)
           n1 == CountIn(long, Streams)
           a == p.pipe["out"]
           b == p.pipe["err"]
           a1 == p1.pipe["out"]
           b1 == p1.pipe["err"]
<1>1. f \in Signals /\ f # "fin" /\ f # "exit" /\ f # "ready"
  BY DEF Streams, Signals
<1>2. n \in Nat /\ c.got \in Nat /\ n1 = n + 1
  <2>1. n1 = n + (IF f \in Streams THEN 1 ELSE 0)
    BY <1>1, CountAppend
  <2>2. n \in Nat /\ c.got \in Nat
    BY CountType DEF Clients
  <2> HIDE DEF n, n1
  <2> QED
    BY <2>1, <2>2
<1>3. /\ a \in Nat /\ b \in Nat /\ a1 \in Nat /\ b1 \in Nat /\ a1 + b1 + 1 = a + b
  <2>1. p.pipe \in [{"out", "err"} -> Nat] /\ f \in {"out", "err"}
    BY DEF Programs, Streams
  <2>2. CASE f = "out"
    <3>1. a \in Nat /\ b \in Nat /\ a > 0 /\ a1 = a - 1 /\ b1 = b
      BY <2>1, <2>2
    <3> QED
      BY <3>1
  <2>3. CASE f = "err"
    <3>1. a \in Nat /\ b \in Nat /\ b > 0 /\ a1 = a /\ b1 = b - 1
      BY <2>1, <2>3
    <3> QED
      BY <3>1
  <2> QED
    BY <2>1, <2>2, <2>3
<1>4. /\ OnlyFinAfter(chain, "exit")
      /\ Has(chain, "exit") => e.reaped
      /\ Has(chain, "fin") => ~e.open
      /\ \A i \in 1 .. Len(chain) : chain[i] = "ready" => i = 1 /\ c.got = 0
      /\ e.open /\ ~e.reaped => c.got + n + a + b = p.wrote
  BY DEF Delivery
<1>5. /\ OnlyFinAfter(long, "exit") /\ ~Has(long, "exit") /\ ~Has(long, "fin")
  BY <1>1, <1>4, HasAppend
<1>6. \A i \in 1 .. Len(long) : long[i] = "ready" => i = 1 /\ c.got = 0
  <2>1. /\ Len(chain) \in Nat /\ Len(long) = Len(chain) + 1 /\ long[Len(chain) + 1] = f
        /\ \A i \in 1 .. Len(chain) : long[i] = chain[i]
    BY <1>1, LenProperties, AppendProperties
  <2>2. \A i \in 1 .. Len(long) : i \in 1 .. Len(chain) \/ i = Len(chain) + 1
    BY <2>1
  <2> HIDE DEF long
  <2> QED
    BY <1>1, <1>4, <2>1, <2>2
<1> HIDE DEF long, n, n1, a, b, a1, b1
<1>7. c.got + n1 + a1 + b1 = p1.wrote
  <2>1. c.got + n + a + b = p.wrote
    BY <1>4
  <2> DEFINE g == c.got
  <2>2. g \in Nat /\ g + n + a + b = p.wrote
    BY <1>2, <2>1
  <2> HIDE DEF g
  <2>3. g + n1 + a1 + b1 = p.wrote
    BY <1>2, <1>3, <2>2
  <2> QED
    BY <2>3 DEF g
<1>8. Delivery(long, c, e, p1)
  BY <1>5, <1>6, <1>7 DEF Delivery, n1, a1, b1
<1> QED
  BY <1>8 DEF long

\* EXIT or FIN is sent.
LEMMA DeliveryEnd ==
  ASSUME NEW chain \in Seq(Signals), NEW c \in Clients, NEW e \in ExecEnds, NEW p \in Programs,
         Delivery(chain, c, e, p), e.open, NEW m \in {"exit", "fin"},
         NEW e1 \in ExecEnds, NEW p1 \in Programs, p1.wrote = p.wrote,
         m = "exit" => ~e.reaped /\ e1.reaped /\ p.pipe["out"] = 0 /\ p.pipe["err"] = 0,
         m = "fin" => ~e1.open /\ e1.reaped = e.reaped
  PROVE  Delivery(Append(chain, m), c, e1, p1)
<1> SUFFICES ASSUME c.st # "done" PROVE Delivery(Append(chain, m), c, e1, p1)
  BY DEF Delivery
<1> DEFINE long == Append(chain, m)
           n == CountIn(chain, Streams)
<1>1. m \in Signals /\ m \notin Streams /\ m # "ready"
  BY DEF Streams, Signals
<1>2. n \in Nat /\ c.got \in Nat /\ CountIn(long, Streams) = n
  <2>1. CountIn(long, Streams) = n + (IF m \in Streams THEN 1 ELSE 0)
    BY <1>1, CountAppend
  <2>2. n \in Nat /\ c.got \in Nat
    BY CountType DEF Clients
  <2> HIDE DEF n, long
  <2> QED
    BY <1>1, <2>1, <2>2
<1>3. /\ OnlyFinAfter(chain, "exit")
      /\ Has(chain, "exit") => e.reaped /\ c.got + n = p.wrote
      /\ Has(chain, "fin") => ~e.open
      /\ \A i \in 1 .. Len(chain) : chain[i] = "ready" => i = 1 /\ c.got = 0
      /\ e.open /\ ~e.reaped => c.got + n + p.pipe["out"] + p.pipe["err"] = p.wrote
  BY DEF Delivery
<1>4. /\ \A x : Has(long, x) <=> m = x \/ Has(chain, x)
      /\ OnlyFinAfter(long, "exit")
  BY <1>1, <1>3, HasAppend
<1>5. \A i \in 1 .. Len(long) : long[i] = "ready" => i = 1 /\ c.got = 0
  <2>1. /\ Len(chain) \in Nat /\ Len(long) = Len(chain) + 1 /\ long[Len(chain) + 1] = m
        /\ \A i \in 1 .. Len(chain) : long[i] = chain[i]
    BY <1>1, LenProperties, AppendProperties
  <2>2. \A i \in 1 .. Len(long) : i \in 1 .. Len(chain) \/ i = Len(chain) + 1
    BY <2>1
  <2> HIDE DEF long
  <2> QED
    BY <1>1, <1>3, <2>1, <2>2
<1> HIDE DEF long, n
<1>6. CASE m = "exit"
  <2>1. c.got + n = p1.wrote
    BY <1>2, <1>3, <1>6
  <2> QED
    BY <1>2, <1>3, <1>4, <1>5, <1>6, <2>1 DEF Delivery, long
<1>7. CASE m = "fin"
  BY <1>2, <1>3, <1>4, <1>5, <1>7 DEF Delivery, long
<1> QED
  BY <1>6, <1>7

\* What is behind some point is lost, with the end.
LEMMA DeliveryCut ==
  ASSUME NEW a \in Seq(Signals), NEW b \in Seq(Signals), NEW c \in Clients,
         NEW e \in ExecEnds, NEW p \in Programs, Delivery(a \o b, c, e, p),
         NEW e1 \in ExecEnds, NEW p1 \in Programs, p1.wrote = p.wrote,
         e1.reaped = e.reaped, c.st # "done" => ~e1.open
  PROVE  Delivery(a, c, e1, p1)
<1> SUFFICES ASSUME c.st # "done" PROVE Delivery(a, c, e1, p1)
  BY DEF Delivery
<1>1. /\ OnlyFinAfter(a \o b, "exit")
      /\ Has(a \o b, "exit") => e.reaped /\ c.got + CountIn(a \o b, Streams) = p.wrote
      /\ \A i \in 1 .. Len(a \o b) : (a \o b)[i] = "ready" => i = 1 /\ c.got = 0
  BY DEF Delivery
<1>2. /\ OnlyFinAfter(a, "exit")
      /\ Has(a, "exit") => Has(a \o b, "exit")
      /\ Has(a, "exit") => \A i \in 1 .. Len(b) : b[i] = "fin"
  BY <1>1, HasPrefix
<1>3. ASSUME Has(a, "exit") PROVE c.got + CountIn(a, Streams) = p1.wrote
  <2>1. CountIn(b, Streams) = 0
    BY <1>2, <1>3, CountNone DEF Streams
  <2>2. CountIn(a \o b, Streams) = CountIn(a, Streams) + 0 /\ CountIn(a, Streams) \in Nat
    BY <2>1, CountConcat, CountType
  <2>3. CountIn(a \o b, Streams) = CountIn(a, Streams)
    BY <2>2
  <2> QED
    BY <1>1, <1>2, <1>3, <2>3
<1>4. ASSUME NEW i \in 1 .. Len(a), a[i] = "ready" PROVE i = 1 /\ c.got = 0
  <2>1. Len(a) \in Nat /\ Len(b) \in Nat /\ Len(a \o b) = Len(a) + Len(b)
        /\ \A j \in 1 .. Len(a) + Len(b) :
             (a \o b)[j] = IF j <= Len(a) THEN a[j] ELSE b[j - Len(a)]
    BY LenProperties, ConcatProperties
  <2>2. i \in 1 .. Len(a \o b) /\ (a \o b)[i] = a[i]
    BY <2>1
  <2> QED
    BY <1>1, <1>4, <2>2
<1> QED
  BY <1>1, <1>2, <1>3, <1>4 DEF Delivery

\* OK becomes READY.
LEMMA DeliveryOpened ==
  ASSUME NEW chain \in Seq(Signals), NEW c \in Clients, NEW e \in ExecEnds, NEW p \in Programs,
         Delivery(chain, c, e, p), c.got = 0, NEW new \in Seq(Signals), Len(new) = Len(chain),
         chain[1] = "ok", new[1] = "ready", \A i \in 2 .. Len(chain) : new[i] = chain[i]
  PROVE  Delivery(new, c, e, p)
<1> SUFFICES ASSUME c.st # "done" PROVE Delivery(new, c, e, p)
  BY DEF Delivery
<1>1. Len(chain) \in Nat /\ \A i \in 1 .. Len(chain) : i = 1 \/ i \in 2 .. Len(chain)
  BY LenProperties
<1>2. \A i \in 1 .. Len(chain) : chain[i] \in Streams <=> new[i] \in Streams
  BY <1>1 DEF Streams
<1>3. CountIn(new, Streams) = CountIn(chain, Streams)
  BY <1>2, CountSame
<1>4. \A x : x \notin {"ok", "ready"} => (Has(new, x) <=> Has(chain, x))
  BY <1>1 DEF Has
<1>5. /\ OnlyFinAfter(chain, "exit")
      /\ Has(chain, "exit") => e.reaped /\ c.got + CountIn(chain, Streams) = p.wrote
      /\ Has(chain, "fin") => ~e.open
      /\ \A i \in 1 .. Len(chain) : chain[i] = "ready" => i = 1 /\ c.got = 0
      /\ e.open /\ ~e.reaped =>
           c.got + CountIn(chain, Streams) + p.pipe["out"] + p.pipe["err"] = p.wrote
  BY DEF Delivery
<1>6. OnlyFinAfter(new, "exit")
  <2> SUFFICES ASSUME NEW i \in 1 .. Len(new), NEW j \in 1 .. Len(new), i < j, new[i] = "exit"
               PROVE  new[j] = "fin"
    BY DEF OnlyFinAfter
  <2>1. i \in 2 .. Len(chain) /\ j \in 2 .. Len(chain)
    BY <1>1
  <2>2. chain[i] = "exit" /\ new[j] = chain[j]
    BY <2>1
  <2> QED
    BY <1>5, <2>2 DEF OnlyFinAfter
<1>7. \A i \in 1 .. Len(new) : new[i] = "ready" => i = 1
  BY <1>1, <1>5
<1> QED
  BY <1>3, <1>4, <1>5, <1>6, <1>7 DEF Delivery

\* Two adjacent parts of a sequence.
LEMMA Parts ==
  ASSUME NEW T, NEW q \in Seq(T), NEW n \in 0 .. Len(q)
  PROVE  LET a == SubSeq(q, 1, n)
             b == SubSeq(q, n + 1, Len(q))
         IN /\ a \in Seq(T) /\ b \in Seq(T) /\ Len(a) = n /\ Len(b) = Len(q) - n
            /\ \A i \in 1 .. n : a[i] = q[i]
            /\ \A i \in 1 .. Len(q) - n : b[i] = q[n + i]
            /\ a \o b = q
<1> DEFINE a == SubSeq(q, 1, n)
           b == SubSeq(q, n + 1, Len(q))
<1>1. Len(q) \in Nat /\ n \in Nat /\ n <= Len(q) /\ \A i \in 1 .. Len(q) : q[i] \in T
  BY LenProperties, ElementOfSeq
<1>2. (\A i \in 1 .. n : q[i] \in T) /\ (\A i \in n + 1 .. Len(q) : q[i] \in T)
  BY <1>1
<1>3. /\ a \in Seq(T) /\ Len(a) = IF 1 <= n THEN n - 1 + 1 ELSE 0
      /\ \A i \in 1 .. n - 1 + 1 : a[i] = q[1 + i - 1]
  BY <1>1, <1>2, SubSeqProperties
<1>4. /\ b \in Seq(T) /\ Len(b) = IF n + 1 <= Len(q) THEN Len(q) - (n + 1) + 1 ELSE 0
      /\ \A i \in 1 .. Len(q) - (n + 1) + 1 : b[i] = q[n + 1 + i - 1]
  BY <1>1, <1>2, SubSeqProperties
<1>5. a \o b = q
  <2>1. 1 \in 1 .. Len(q) + 1 /\ n \in 1 - 1 .. Len(q) /\ Len(q) \in n .. Len(q)
    BY <1>1
  <2>2. SubSeq(q, 1, n) \o SubSeq(q, n + 1, Len(q)) = SubSeq(q, 1, Len(q))
    BY <2>1, ConcatAdjacentSubSeq
  <2> QED
    BY <2>2, SubSeqFull
<1> HIDE DEF a, b
<1>6. Len(a) = n /\ Len(b) = Len(q) - n
  BY <1>1, <1>3, <1>4
<1>7. ASSUME NEW i \in 1 .. n PROVE a[i] = q[i]
  <2>1. i \in 1 .. n - 1 + 1 /\ 1 + i - 1 = i
    BY <1>1
  <2> QED
    BY <1>3, <2>1
<1>8. ASSUME NEW i \in 1 .. Len(q) - n PROVE b[i] = q[n + i]
  <2>1. i \in 1 .. Len(q) - (n + 1) + 1 /\ n + 1 + i - 1 = n + i
    BY <1>1
  <2> QED
    BY <1>4, <2>1
<1> QED
  BY <1>3, <1>4, <1>5, <1>6, <1>7, <1>8 DEF a, b

\* The frames of a queue, part by part.
LEMMA FramesOf ==
  ASSUME NEW q \in Seq(Chunks)
  PROVE  /\ Frames(q) \in Seq(Streams \cup {"ready", "exit"}) /\ Len(Frames(q)) = Len(q)
         /\ Len(q) \in Nat /\ \A i \in 1 .. Len(q) : Frames(q)[i] = q[i].frame
<1>1. Len(q) \in Nat /\ \A i \in 1 .. Len(q) : q[i] \in Chunks
  BY LenProperties, ElementOfSeq
<1>2. Frames(q) \in [1 .. Len(q) -> Streams \cup {"ready", "exit"}]
  BY <1>1 DEF Frames, Chunks
<1>3. Frames(q) \in Seq(Streams \cup {"ready", "exit"})
  BY <1>1, <1>2, SeqDef
<1>4. DOMAIN Frames(q) = 1 .. Len(q) /\ DOMAIN Frames(q) = 1 .. Len(Frames(q))
      /\ Len(Frames(q)) \in Nat
  BY <1>2, <1>3, LenProperties
<1> QED
  BY <1>1, <1>3, <1>4 DEF Frames

\* The frames of two queues put together.
LEMMA FramesConcat ==
  ASSUME NEW a \in Seq(Chunks), NEW b \in Seq(Chunks)
  PROVE  Frames(a \o b) = Frames(a) \o Frames(b)
<1> DEFINE S == Streams \cup {"ready", "exit"}
<1>1. /\ a \o b \in Seq(Chunks) /\ Len(a \o b) = Len(a) + Len(b)
      /\ \A i \in 1 .. Len(a) + Len(b) : (a \o b)[i] = IF i <= Len(a) THEN a[i] ELSE b[i - Len(a)]
  BY ConcatProperties
<1>2. /\ Frames(a) \in Seq(S) /\ Len(Frames(a)) = Len(a) /\ Len(a) \in Nat
      /\ \A i \in 1 .. Len(a) : Frames(a)[i] = a[i].frame
  BY FramesOf
<1>3. /\ Frames(b) \in Seq(S) /\ Len(Frames(b)) = Len(b) /\ Len(b) \in Nat
      /\ \A i \in 1 .. Len(b) : Frames(b)[i] = b[i].frame
  BY FramesOf
<1>4. /\ Frames(a \o b) \in Seq(S) /\ Len(Frames(a \o b)) = Len(a) + Len(b)
      /\ \A i \in 1 .. Len(a) + Len(b) : Frames(a \o b)[i] = (a \o b)[i].frame
  BY <1>1, FramesOf
<1> HIDE DEF S
<1>5. /\ Frames(a) \o Frames(b) \in Seq(S) /\ Len(Frames(a) \o Frames(b)) = Len(a) + Len(b)
      /\ \A i \in 1 .. Len(a) + Len(b) : (Frames(a) \o Frames(b))[i]
           = IF i <= Len(a) THEN Frames(a)[i] ELSE Frames(b)[i - Len(a)]
  <2> DEFINE x == Frames(a)
             y == Frames(b)
  <2>1. x \in Seq(S) /\ y \in Seq(S) /\ Len(x) = Len(a) /\ Len(y) = Len(b)
    BY <1>2, <1>3
  <2> HIDE DEF x, y
  <2>2. /\ x \o y \in Seq(S) /\ Len(x \o y) = Len(x) + Len(y)
        /\ \A i \in 1 .. Len(x) + Len(y) : (x \o y)[i] = IF i <= Len(x) THEN x[i] ELSE y[i - Len(x)]
    BY <2>1, ConcatProperties
  <2> QED
    BY <2>1, <2>2 DEF x, y
<1>6. ASSUME NEW i \in 1 .. Len(a) + Len(b)
      PROVE  Frames(a \o b)[i] = (Frames(a) \o Frames(b))[i]
  <2>1. CASE i <= Len(a)
    <3>1. i \in 1 .. Len(a)
      BY <1>2, <2>1
    <3> QED
      BY <1>1, <1>2, <1>4, <1>5, <2>1, <3>1
  <2>2. CASE ~(i <= Len(a))
    <3>1. i - Len(a) \in 1 .. Len(b)
      BY <1>2, <1>3, <2>2
    <3> QED
      BY <1>1, <1>3, <1>4, <1>5, <2>2, <3>1
  <2> QED
    BY <2>1, <2>2
<1> QED
  BY <1>4, <1>5, <1>6, SeqEqual

\* What is accounted for is counted.
AccountedChunks == [frame: Streams \cup {"ready", "exit"}, acc: {TRUE}]

\* The accounted chunks of a queue as a count.
LEMMA AccountedIsCount ==
  ASSUME NEW q \in Seq(Chunks)
  PROVE  Accounted(q) = CountIn(q, AccountedChunks)
<1>1. DOMAIN q = 1 .. Len(q) /\ \A i \in 1 .. Len(q) : q[i] \in Chunks
  BY LenProperties, ElementOfSeq
<1>2. \A i \in 1 .. Len(q) : q[i].acc <=> q[i] \in AccountedChunks
  BY <1>1 DEF Chunks, AccountedChunks
<1>3. {i \in DOMAIN q : q[i].acc} = {i \in 1 .. Len(q) : q[i] \in AccountedChunks}
  BY <1>1, <1>2
<1> QED
  BY <1>3 DEF Accounted, CountIn

\* The accounted chunks of a queue in two parts.
LEMMA AccountedParts ==
  ASSUME NEW a \in Seq(Chunks), NEW b \in Seq(Chunks)
  PROVE  /\ Accounted(a) \in Nat /\ Accounted(b) \in Nat
         /\ Accounted(a \o b) = Accounted(a) + Accounted(b)
         /\ Accounted(<<>>) = 0
<1>1. a \o b \in Seq(Chunks) /\ <<>> \in Seq(Chunks)
  BY ConcatProperties, EmptySeq
<1>2. /\ Accounted(a) = CountIn(a, AccountedChunks)
      /\ Accounted(b) = CountIn(b, AccountedChunks)
      /\ Accounted(a \o b) = CountIn(a \o b, AccountedChunks)
      /\ Accounted(<<>>) = CountIn(<<>>, AccountedChunks)
  BY <1>1, AccountedIsCount
<1>3. CountIn(a, AccountedChunks) \in Nat /\ CountIn(b, AccountedChunks) \in Nat
  BY CountType
<1>4. CountIn(a \o b, AccountedChunks)
        = CountIn(a, AccountedChunks) + CountIn(b, AccountedChunks)
  BY CountConcat
<1> QED
  BY <1>2, <1>3, <1>4, CountEmpty

\* account: n of the units that are held are done with.
LEMMA CreditedOf ==
  ASSUME NEW d \in Downlinks, NEW A \in Nat, NEW n \in Nat, n <= A, NEW e, e = Credited(d, n),
         d.wnd + A = Window + d.pre, d.pre <= A
  PROVE  /\ e \in Downlinks /\ e.net = d.net /\ e.q = d.q /\ e.sock = d.sock
         /\ e.wnd + (A - n) = Window + e.pre /\ e.pre <= A - n
<1> DEFINE pre == Smaller(n, d.pre)
<1>1. d.wnd \in 0 .. Window /\ d.pre \in Nat /\ Window \in Nat
  BY ExecAssumption DEF Downlinks
<1>2. pre \in Nat /\ pre <= n /\ pre <= d.pre /\ (pre = n \/ pre = d.pre)
  BY <1>1 DEF Smaller
<1>3. e = [[d EXCEPT !.wnd = @ + (n - pre)] EXCEPT !.pre = @ - pre]
  BY DEF Credited, Reopened
<1> HIDE DEF pre
<1>4. e.wnd = d.wnd + (n - pre) /\ e.pre = d.pre - pre
  BY <1>3 DEF Downlinks
<1>5. e.wnd + (A - n) = Window + e.pre /\ e.pre <= A - n /\ e.pre \in Nat
  BY <1>1, <1>2, <1>4
<1>6. e.wnd \in 0 .. Window
  BY <1>1, <1>2, <1>4, <1>5
<1>7. e.net = d.net /\ e.q = d.q /\ e.sock = d.sock
  BY <1>3 DEF Downlinks
<1>8. e \in Downlinks
  <2>1. e = [d EXCEPT !.wnd = e.wnd, !.pre = e.pre]
    BY <1>3, <1>4 DEF Downlinks
  <2> QED
    BY <1>5, <1>6, <2>1 DEF Downlinks
<1> QED
  BY <1>5, <1>7, <1>8

\* flush_client keeps the window exact and moves frames forward only.
LEMMA FlushedOf ==
  ASSUME NEW d \in Downlinks, Len(d.sock) <= SockCap, NEW e, e = Flushed(d),
         d.wnd + Accounted(d.q) = Window + d.pre, d.pre <= Accounted(d.q)
  PROVE  /\ e \in Downlinks /\ e.net = d.net /\ Len(e.sock) <= SockCap
         /\ e.wnd + Accounted(e.q) = Window + e.pre /\ e.pre <= Accounted(e.q)
         /\ cl.st # "done" => Chain(e) = Chain(d)
<1> DEFINE n == Smaller(Len(d.q), SockCap - Len(d.sock))
           a == SubSeq(d.q, 1, n)
           b == SubSeq(d.q, n + 1, Len(d.q))
<1>1. /\ d.q \in Seq(Chunks) /\ d.sock \in Seq(Streams \cup {"ready", "exit"})
      /\ Len(d.q) \in Nat /\ Len(d.sock) \in Nat /\ Accounted(d.q) \in Nat
  <2>1. d.q \in Seq(Chunks) /\ d.sock \in Seq(Streams \cup {"ready", "exit"})
    BY DEF Downlinks
  <2> QED
    BY <2>1, LenProperties, AccountedParts
<1>2. <<>> \in Seq(Chunks) /\ Accounted(<<>>) = 0
  BY <1>1, EmptySeq, AccountedParts
<1>3. CASE cl.st = "done"
  <2> DEFINE g == Credited(d, Accounted(d.q))
  <2>1. /\ g \in Downlinks /\ g.net = d.net /\ g.q = d.q /\ g.sock = d.sock
        /\ g.wnd + (Accounted(d.q) - Accounted(d.q)) = Window + g.pre
        /\ g.pre <= Accounted(d.q) - Accounted(d.q)
    BY <1>1, CreditedOf
  <2>2. e = [g EXCEPT !.q = <<>>]
    BY <1>3 DEF Flushed
  <2> HIDE DEF g
  <2>3. e \in Downlinks /\ e.net = d.net /\ e.sock = d.sock /\ e.q = <<>>
        /\ e.wnd = g.wnd /\ e.pre = g.pre
    BY <1>2, <2>1, <2>2 DEF Downlinks
  <2>4. e.wnd \in Int /\ e.pre \in Int
    BY <2>3 DEF Downlinks
  <2> QED
    BY <1>1, <1>2, <1>3, <2>1, <2>3, <2>4
<1>4. CASE cl.st # "done"
  <2> DEFINE g == Credited(d, Accounted(a))
             new == d.sock \o Frames(a)
  <2>1. n \in 0 .. Len(d.q) /\ n <= SockCap - Len(d.sock)
    <3> DEFINE l == Len(d.q)
               k == SockCap - Len(d.sock)
    <3>1. l \in Nat /\ k \in Nat
      BY <1>1, ExecAssumption
    <3> HIDE DEF l, k
    <3>2. Smaller(l, k) \in 0 .. l /\ Smaller(l, k) <= k
      BY <3>1 DEF Smaller
    <3> QED
      BY <3>2 DEF l, k
  <2>2. /\ a \in Seq(Chunks) /\ b \in Seq(Chunks) /\ Len(a) = n /\ a \o b = d.q
        /\ \A i \in 1 .. n : a[i] = d.q[i]
    <3> DEFINE w == d.q
    <3>1. w \in Seq(Chunks) /\ n \in 0 .. Len(w)
      BY <1>1, <2>1
    <3> HIDE DEF n, w
    <3>2. /\ SubSeq(w, 1, n) \in Seq(Chunks) /\ SubSeq(w, n + 1, Len(w)) \in Seq(Chunks)
          /\ Len(SubSeq(w, 1, n)) = n /\ SubSeq(w, 1, n) \o SubSeq(w, n + 1, Len(w)) = w
          /\ \A i \in 1 .. n : SubSeq(w, 1, n)[i] = w[i]
      BY <3>1, Parts
    <3> QED
      BY <3>2 DEF w
  <2>3. [i \in 1 .. n |-> d.q[i].frame] = Frames(a)
    <3> HIDE DEF n, a
    <3> QED
      BY <2>2 DEF Frames
  <2>4. e = [g EXCEPT !.sock = new, !.q = b]
    BY <1>4, <2>3 DEF Flushed
  <2> HIDE DEF n, a, b
  <2>5. /\ Accounted(a) \in Nat /\ Accounted(b) \in Nat
        /\ Accounted(d.q) = Accounted(a) + Accounted(b)
    BY <2>2, AccountedParts
  <2>6. /\ g \in Downlinks /\ g.net = d.net
        /\ g.wnd + (Accounted(d.q) - Accounted(a)) = Window + g.pre
        /\ g.pre <= Accounted(d.q) - Accounted(a)
    <3>1. Accounted(a) <= Accounted(d.q)
      BY <2>5
    <3> QED
      BY <1>1, <2>5, <3>1, CreditedOf
  <2> HIDE DEF g
  <2>7. /\ Frames(a) \in Seq(Streams \cup {"ready", "exit"}) /\ Len(Frames(a)) = n
        /\ Frames(b) \in Seq(Streams \cup {"ready", "exit"})
    BY <2>2, FramesOf
  <2>8. new \in Seq(Streams \cup {"ready", "exit"}) /\ Len(new) = Len(d.sock) + n
    BY <1>1, <2>7, ConcatProperties
  <2>9. new \o Frames(b) = d.sock \o Frames(d.q)
    <3>1. Frames(d.q) = Frames(a) \o Frames(b)
      BY <2>2, FramesConcat
    <3>2. (d.sock \o Frames(a)) \o Frames(b) = d.sock \o (Frames(a) \o Frames(b))
      <4> DEFINE S == Streams \cup {"ready", "exit"}
                 x == d.sock
                 y == Frames(a)
                 z == Frames(b)
      <4>1. x \in Seq(S) /\ y \in Seq(S) /\ z \in Seq(S)
        BY <1>1, <2>7
      <4> HIDE DEF S, x, y, z
      <4>2. (x \o y) \o z = x \o (y \o z)
        BY <4>1, SMTT(30)
      <4> QED
        BY <4>2 DEF x, y, z
    <3> QED
      BY <3>1, <3>2
  <2> HIDE DEF new
  <2>10. /\ e \in Downlinks /\ e.net = d.net /\ e.sock = new /\ e.q = b
         /\ e.wnd = g.wnd /\ e.pre = g.pre
    BY <2>2, <2>4, <2>6, <2>8 DEF Downlinks
  <2>11. Chain(e) = Chain(d)
    BY <2>9, <2>10 DEF Chain
  <2>12. e.wnd + Accounted(e.q) = Window + e.pre /\ e.pre <= Accounted(e.q)
    <3>1. Accounted(d.q) - Accounted(a) = Accounted(b)
      BY <2>5
    <3> QED
      BY <2>6, <2>10, <3>1
  <2>13. Len(e.sock) <= SockCap
    BY <1>1, <2>1, <2>8, <2>10, ExecAssumption
  <2> QED
    BY <2>10, <2>11, <2>12, <2>13
<1> QED
  BY <1>3, <1>4

-----------------------------------------------------------------------------
(* What is on its way to the program *)

\* The client does something other than send.
LEMMA UpstreamKept ==
  ASSUME NEW flow, NEW c, NEW eof, Upstream(flow, c, eof), NEW c1, c1.stdin = c.stdin,
         c1.left = c.left, c1.st # "send"
  PROVE  Upstream(flow, c1, eof)
BY DEF Upstream

\* send_frame is done.
LEMMA UpstreamSent ==
  ASSUME NEW flow \in Seq({"data", "eof", "fin"}), NEW c \in Clients, NEW eof \in BOOLEAN,
         Upstream(flow, c, eof), c.st = "send", NEW c1, c1.stdin = c.stdin, c1.left = c.left,
         c1.st = "poll"
  PROVE  Upstream(Append(flow, c.frame), c1, eof)
<1>1. ~eof /\ ~Has(flow, "eof") /\ OnlyFinAfter(flow, "eof")
  BY DEF Upstream
<1>2. c.frame \in {"data", "eof", "fin"}
  BY DEF Clients
<1>3. /\ Has(Append(flow, c.frame), "eof") <=> c.frame = "eof"
      /\ OnlyFinAfter(Append(flow, c.frame), "eof")
  BY <1>1, <1>2, HasAppend
<1>4. c.frame = "eof" => ~c.stdin /\ c.left = 0
  BY DEF Upstream
<1> QED
  BY <1>1, <1>3, <1>4 DEF Upstream

\* FIN follows all.
LEMMA UpstreamFin ==
  ASSUME NEW flow \in Seq({"data", "eof", "fin"}), NEW c, NEW eof \in BOOLEAN,
         Upstream(flow, c, eof)
  PROVE  Upstream(Append(flow, "fin"), c, eof)
<1> DEFINE long == Append(flow, "fin")
<1>1. /\ Has(long, "eof") <=> Has(flow, "eof")
      /\ OnlyFinAfter(flow, "eof") => OnlyFinAfter(long, "eof")
  BY HasAppend
<1>2. /\ Len(flow) \in Nat /\ Len(long) = Len(flow) + 1 /\ long[Len(flow) + 1] = "fin"
      /\ \A i \in 1 .. Len(flow) : long[i] = flow[i]
  BY LenProperties, AppendProperties
<1>3. \A i \in 1 .. Len(long) : i \in 1 .. Len(flow) \/ i = Len(flow) + 1
  BY <1>2
<1> HIDE DEF long
<1>4. eof => \A i \in 1 .. Len(long) : long[i] = "fin"
  BY <1>2, <1>3 DEF Upstream
<1>5. Upstream(long, c, eof)
  BY <1>1, <1>4 DEF Upstream
<1> QED
  BY <1>5 DEF long

\* A frame is received.
LEMMA UpstreamRecv ==
  ASSUME NEW flow \in Seq({"data", "eof", "fin"}), NEW c, NEW eof \in BOOLEAN,
         Upstream(flow, c, eof), flow # <<>>, Head(flow) # "fin"
  PROVE  ~eof /\ Upstream(Tail(flow), c, Head(flow) = "eof")
<1>1. Head(flow) = flow[1] /\ 1 \in 1 .. Len(flow)
  BY HeadAndTail
<1>2. ~eof
  BY <1>1 DEF Upstream
<1>3. /\ Has(flow, "eof") <=> Head(flow) = "eof" \/ Has(Tail(flow), "eof")
      /\ OnlyFinAfter(Tail(flow), "eof")
      /\ Head(flow) = "eof" => \A i \in 1 .. Len(Tail(flow)) : Tail(flow)[i] = "fin"
  BY HasTail DEF Upstream
<1> QED
  BY <1>2, <1>3 DEF Upstream

-----------------------------------------------------------------------------
(* The end's input *)

EndStates == [e: ExecEnds, p: Seq({"data", "veof"}), w: 0 .. Window]

\* What every operation on the end's input keeps.
Held(s) ==
  /\ s \in EndStates /\ Len(s.p) <= PipeCap
  /\ s.w + s.e.real = Window
  /\ Keystroke(s.e, s.p)

SameRest(s, t) ==
  /\ t.e.open = s.e.open /\ t.e.eof = s.e.eof /\ t.e.fds = s.e.fds
  /\ t.e.reaped = s.e.reaped /\ t.e.shut = s.e.shut

\* Input that was read or is held or in the pipe.
Kept(s) == s.e.real + CountIn(s.p, {"data"})

\* The types of what the end holds while it flushes its input.
LEMMA HeldFields ==
  ASSUME NEW s, Held(s)
  PROVE  /\ s.e \in ExecEnds /\ s.p \in Seq({"data", "veof"}) /\ s.w \in 0 .. Window
         /\ Window \in Nat /\ s.e.real \in Nat /\ s.e.synth \in {0, 1} /\ s.e.in \in BOOLEAN
         /\ s.e.eof \in BOOLEAN /\ Len(s.p) \in Nat /\ CountIn(s.p, {"data"}) \in Nat
         /\ Keystroke(s.e, s.p) /\ s.w + s.e.real = Window
         /\ s = [e |-> s.e, p |-> s.p, w |-> s.w]
<1>1. s.e \in ExecEnds /\ s.p \in Seq({"data", "veof"}) /\ s.w \in 0 .. Window
  BY DEF Held, EndStates
<1>2. s = [e |-> s.e, p |-> s.p, w |-> s.w]
  BY DEF Held, EndStates
<1>3. s.e.real \in Nat /\ s.e.synth \in {0, 1} /\ s.e.in \in BOOLEAN /\ s.e.eof \in BOOLEAN
  BY <1>1 DEF ExecEnds
<1>4. Len(s.p) \in Nat /\ CountIn(s.p, {"data"}) \in Nat
  BY <1>1, LenProperties, CountType
<1> QED
  BY <1>1, <1>2, <1>3, <1>4, ExecAssumption DEF Held

\* drop_input.
LEMMA DroppedOf ==
  ASSUME NEW s, Held(s), NEW t, t = Dropped(s)
  PROVE  /\ Held(t) /\ SameRest(s, t) /\ t.p = s.p
         /\ t.e = [s.e EXCEPT !.real = 0, !.synth = 0, !.in = FALSE]
<1>1. /\ s.e \in ExecEnds /\ s.p \in Seq({"data", "veof"}) /\ s.w \in 0 .. Window
      /\ Window \in Nat /\ s.e.real \in Nat /\ s.w + s.e.real = Window
      /\ Keystroke(s.e, s.p) /\ s = [e |-> s.e, p |-> s.p, w |-> s.w]
  BY HeldFields
<1> DEFINE e1 == [s.e EXCEPT !.real = 0, !.synth = 0, !.in = FALSE]
<1>2. t = [e |-> e1, p |-> s.p, w |-> s.w + s.e.real]
  BY <1>1 DEF Dropped
<1>3. e1 \in ExecEnds /\ e1.real = 0 /\ e1.synth = 0 /\ e1.in = FALSE /\ e1.open = s.e.open
      /\ e1.eof = s.e.eof /\ e1.fds = s.e.fds /\ e1.reaped = s.e.reaped /\ e1.shut = s.e.shut
  BY <1>1 DEF ExecEnds
<1>4. Keystroke(e1, s.p)
  BY <1>1, <1>3 DEF Keystroke
<1>5. s.w + s.e.real \in 0 .. Window /\ (s.w + s.e.real) + 0 = Window
  BY <1>1
<1>6. t.e = e1 /\ t.p = s.p /\ t.w = s.w + s.e.real
  BY <1>2
<1> HIDE DEF e1
<1>7. t \in EndStates
  BY <1>1, <1>2, <1>3, <1>5 DEF EndStates
<1>8. Held(t)
  BY <1>3, <1>4, <1>5, <1>6, <1>7 DEF Held
<1> QED
  BY <1>3, <1>6, <1>8 DEF SameRest, e1

\* n units of input, of which k are not the keystroke.
Units(n, k) == [i \in 1 .. n |-> IF i <= k THEN "data" ELSE "veof"]

\* What flush_input writes: the input first, the keystroke for EOF last.
LEMMA UnitsOf ==
  ASSUME NEW n \in Nat, NEW k \in 0 .. n
  PROVE  /\ Units(n, k) \in Seq({"data", "veof"}) /\ Len(Units(n, k)) = n
         /\ CountIn(Units(n, k), {"data"}) = k
         /\ \A i \in 1 .. n : Units(n, k)[i] = IF i <= k THEN "data" ELSE "veof"
<1>1. Units(n, k) \in [1 .. n -> {"data", "veof"}]
  BY DEF Units
<1>2. Units(n, k) \in Seq({"data", "veof"})
  BY <1>1, SeqDef
<1>3. Len(Units(n, k)) = n
  <2>1. DOMAIN Units(n, k) = 1 .. n /\ DOMAIN Units(n, k) = 1 .. Len(Units(n, k))
        /\ Len(Units(n, k)) \in Nat
    BY <1>1, <1>2, LenProperties
  <2> QED
    BY <2>1
<1>4. \A i \in 1 .. n : Units(n, k)[i] = IF i <= k THEN "data" ELSE "veof"
  BY DEF Units
<1>5. {i \in 1 .. n : Units(n, k)[i] \in {"data"}} = 1 .. k
  BY <1>4
<1>6. Cardinality(1 .. k) = k
  BY FS_Interval
<1> QED
  BY <1>2, <1>3, <1>4, <1>5, <1>6 DEF CountIn

\* account: the program's pipe takes n units.
LEMMA TakenOf ==
  ASSUME NEW s, Held(s), NEW n \in Nat, n <= s.e.real + s.e.synth, n <= PipeCap - Len(s.p),
         NEW t, t = Taken(s, n)
  PROVE  /\ Held(t) /\ SameRest(s, t) /\ t.e.in = s.e.in /\ Kept(t) = Kept(s)
<1> DEFINE k == Smaller(n, s.e.real)
           e1 == [s.e EXCEPT !.real = @ - k, !.synth = @ - (n - k)]
           p1 == s.p \o Units(n, k)
           D == {"data"}
<1>1. /\ s.e \in ExecEnds /\ s.p \in Seq({"data", "veof"}) /\ s.w \in 0 .. Window
      /\ Window \in Nat /\ s.e.real \in Nat /\ s.e.synth \in {0, 1} /\ Len(s.p) \in Nat
      /\ s.w + s.e.real = Window /\ CountIn(s.p, D) \in Nat
      /\ Keystroke(s.e, s.p) /\ s = [e |-> s.e, p |-> s.p, w |-> s.w]
  BY HeldFields
<1>2. k \in 0 .. n /\ k <= s.e.real /\ (k = n \/ (k = s.e.real /\ n = k + 1 /\ s.e.synth = 1))
  <2> DEFINE r == s.e.real
             y == s.e.synth
  <2>1. r \in Nat /\ y \in {0, 1} /\ n <= r + y
    BY <1>1
  <2> HIDE DEF r, y
  <2>2. Smaller(n, r) \in 0 .. n /\ Smaller(n, r) <= r
        /\ (Smaller(n, r) = n \/ (Smaller(n, r) = r /\ n = r + 1 /\ y = 1))
    BY <2>1 DEF Smaller
  <2> QED
    BY <2>2 DEF r, y
<1>3. t = [e |-> e1, p |-> p1, w |-> s.w + k]
  BY <1>1 DEF Taken, Units
<1>4. /\ Units(n, k) \in Seq({"data", "veof"}) /\ Len(Units(n, k)) = n
      /\ CountIn(Units(n, k), D) = k
      /\ \A i \in 1 .. n : Units(n, k)[i] = IF i <= k THEN "data" ELSE "veof"
  <2> HIDE DEF k
  <2> QED
    BY <1>2, UnitsOf
<1> HIDE DEF k
<1>5. /\ e1.real = s.e.real - k /\ e1.synth = s.e.synth - (n - k) /\ e1.in = s.e.in
      /\ e1.open = s.e.open /\ e1.eof = s.e.eof /\ e1.fds = s.e.fds
      /\ e1.reaped = s.e.reaped /\ e1.shut = s.e.shut
  BY <1>1 DEF ExecEnds
<1>6. e1.real \in Nat /\ e1.synth \in {0, 1}
  BY <1>1, <1>2, <1>5
<1>7. e1 \in ExecEnds
  <2>1. e1 = [s.e EXCEPT !.real = e1.real, !.synth = e1.synth]
    BY <1>1, <1>5 DEF ExecEnds
  <2> HIDE DEF e1
  <2> QED
    BY <1>1, <1>6, <2>1 DEF ExecEnds
<1> HIDE DEF e1
<1>8. /\ p1 \in Seq({"data", "veof"}) /\ Len(p1) = Len(s.p) + n
      /\ \A i \in 1 .. Len(s.p) + n :
           p1[i] = IF i <= Len(s.p) THEN s.p[i] ELSE Units(n, k)[i - Len(s.p)]
  <2> DEFINE a == s.p
             b == Units(n, k)
  <2>1. a \in Seq({"data", "veof"}) /\ b \in Seq({"data", "veof"}) /\ Len(b) = n
    BY <1>1, <1>4
  <2> HIDE DEF a, b
  <2>2. /\ a \o b \in Seq({"data", "veof"}) /\ Len(a \o b) = Len(a) + Len(b)
        /\ \A i \in 1 .. Len(a) + Len(b) : (a \o b)[i] = IF i <= Len(a) THEN a[i] ELSE b[i - Len(a)]
    BY <2>1, ConcatProperties
  <2> QED
    BY <2>1, <2>2 DEF a, b
<1>9. CountIn(p1, D) = CountIn(s.p, D) + k
  <2>1. CountIn(p1, D) = CountIn(s.p, D) + CountIn(Units(n, k), D)
    BY <1>1, <1>4, CountConcat
  <2> QED
    BY <1>4, <2>1
<1> HIDE DEF p1, D
<1>10. ASSUME NEW i \in 1 .. Len(p1), p1[i] = "veof"
       PROVE  i = Len(p1) /\ e1.eof /\ e1.real = 0 /\ e1.synth = 0
  <2>1. CASE i <= Len(s.p)
    <3>1. i \in 1 .. Len(s.p) /\ s.p[i] = "veof"
      BY <1>1, <1>8, <1>10, <2>1
    <3>2. i = Len(s.p) /\ s.e.eof /\ s.e.real = 0 /\ s.e.synth = 0
      BY <1>1, <3>1 DEF Keystroke
    <3>3. k = 0 /\ n = 0
      BY <1>2, <3>2
    <3> QED
      BY <1>1, <1>5, <1>8, <3>2, <3>3
  <2>2. CASE ~(i <= Len(s.p))
    <3>1. i - Len(s.p) \in 1 .. n
      BY <1>1, <1>8, <2>2
    <3>2. Units(n, k)[i - Len(s.p)] = "veof"
      BY <1>8, <1>10, <2>2
    <3>3. ~(i - Len(s.p) <= k)
      BY <1>4, <3>1, <3>2
    <3>4. k = s.e.real /\ n = k + 1 /\ s.e.synth = 1 /\ i - Len(s.p) = n
      BY <1>1, <1>2, <3>1, <3>3
    <3>5. s.e.eof
      BY <1>1, <3>4 DEF Keystroke
    <3>6. k \in Nat /\ e1.real = k - k /\ e1.synth = 1 - ((k + 1) - k)
      BY <1>2, <1>5, <3>4
    <3>7. i = Len(p1)
      BY <1>1, <1>8, <3>4
    <3> QED
      BY <1>5, <3>5, <3>6, <3>7
  <2> QED
    BY <2>1, <2>2
<1>11. Keystroke(e1, p1)
  <2>1. ~e1.in => e1.real = 0 /\ e1.synth = 0
    <3> SUFFICES ASSUME ~e1.in PROVE e1.real = 0 /\ e1.synth = 0
      OBVIOUS
    <3>1. s.e.real = 0 /\ s.e.synth = 0
      BY <1>1, <1>5 DEF Keystroke
    <3>2. k = 0 /\ n = 0
      BY <1>2, <3>1
    <3> QED
      BY <1>5, <3>1, <3>2
  <2>2. e1.synth = 1 => e1.eof
    BY <1>1, <1>2, <1>5 DEF Keystroke
  <2> QED
    BY <1>10, <2>1, <2>2 DEF Keystroke
<1>12. s.w + k \in 0 .. Window /\ (s.w + k) + e1.real = Window
  <2> DEFINE r == s.e.real
             r1 == e1.real
             v == s.w
  <2>1. /\ r \in Nat /\ v \in Nat /\ Window \in Nat /\ k \in Nat
        /\ v + r = Window /\ k <= r /\ r1 = r - k
    BY <1>1, <1>2, <1>5
  <2> HIDE DEF r, r1, v
  <2>2. v + k \in 0 .. Window /\ (v + k) + r1 = Window
    BY <2>1
  <2> QED
    BY <2>2 DEF r1, v
<1>13. t.e = e1 /\ t.p = p1 /\ t.w = s.w + k
  BY <1>3
<1>14. t \in EndStates
  BY <1>3, <1>7, <1>8, <1>12 DEF EndStates
<1>15. Len(p1) <= PipeCap
  <2> DEFINE l == Len(s.p)
  <2>1. Len(p1) = l + n /\ l \in Nat /\ n <= PipeCap - l /\ PipeCap \in Nat
    BY <1>1, <1>8, ExecAssumption
  <2> HIDE DEF l
  <2> QED
    BY <2>1
<1>16. Held(t)
  BY <1>11, <1>12, <1>13, <1>14, <1>15 DEF Held
<1>17. Kept(t) = Kept(s)
  <2>1. e1.real + CountIn(p1, D) = s.e.real + CountIn(s.p, D)
    <3> DEFINE r == s.e.real
               c == CountIn(s.p, D)
    <3>1. r \in Nat /\ c \in Nat /\ e1.real = r - k /\ CountIn(p1, D) = c + k /\ k \in Nat
      BY <1>1, <1>2, <1>5, <1>9
    <3> HIDE DEF r, c
    <3>2. e1.real + CountIn(p1, D) = r + c
      BY <3>1
    <3> QED
      BY <3>2 DEF r, c
  <2> QED
    BY <1>13, <2>1 DEF Kept, D
<1> QED
  BY <1>5, <1>13, <1>16, <1>17 DEF SameRest

\* on_tunnel_data: a frame.
LEMMA FramedOf ==
  ASSUME NEW s, Held(s), NEW f \in {"data", "eof"}, s.w > 0, NEW t, t = Framed(s, f)
  PROVE  /\ Held(t) /\ t.p = s.p /\ t.e.in = s.e.in /\ t.e.open = s.e.open
         /\ t.e.fds = s.e.fds /\ t.e.reaped = s.e.reaped /\ t.e.shut = s.e.shut
         /\ t.e.eof = (s.e.eof \/ f = "eof")
         /\ Kept(t) = Kept(s) + IF f = "data" /\ s.e.in /\ ~s.e.eof THEN 1 ELSE 0
<1>1. /\ s.e \in ExecEnds /\ s.p \in Seq({"data", "veof"}) /\ s.w \in 0 .. Window
      /\ Window \in Nat /\ s.e.real \in Nat /\ s.e.synth \in {0, 1} /\ s.e.in \in BOOLEAN
      /\ s.e.eof \in BOOLEAN /\ s.w + s.e.real = Window /\ CountIn(s.p, {"data"}) \in Nat
      /\ Keystroke(s.e, s.p) /\ s = [e |-> s.e, p |-> s.p, w |-> s.w]
  BY HeldFields
<1>2. CASE f = "data" /\ s.e.in /\ ~s.e.eof
  <2> DEFINE e1 == [s.e EXCEPT !.real = @ + 1]
  <2>1. t = [e |-> e1, p |-> s.p, w |-> s.w - 1]
    BY <1>1, <1>2 DEF Framed
  <2>2. /\ e1 \in ExecEnds /\ e1.real = s.e.real + 1 /\ e1.synth = s.e.synth
        /\ e1.in = s.e.in /\ e1.eof = s.e.eof /\ e1.open = s.e.open /\ e1.fds = s.e.fds
        /\ e1.reaped = s.e.reaped /\ e1.shut = s.e.shut
    BY <1>1 DEF ExecEnds
  <2> HIDE DEF e1
  <2>3. Keystroke(e1, s.p)
    BY <1>1, <1>2, <2>2 DEF Keystroke
  <2>4. s.w - 1 \in 0 .. Window /\ (s.w - 1) + e1.real = Window
    BY <1>1, <2>2
  <2>5. t \in EndStates /\ t.e = e1 /\ t.p = s.p /\ t.w = s.w - 1
    BY <1>1, <2>1, <2>2, <2>4 DEF EndStates
  <2>6. Held(t)
    BY <2>3, <2>4, <2>5 DEF Held
  <2>7. Kept(t) = Kept(s) + 1
    <3> DEFINE r == s.e.real
               c == CountIn(s.p, {"data"})
    <3>1. r \in Nat /\ c \in Nat /\ Kept(t) = (r + 1) + c /\ Kept(s) = r + c
      BY <1>1, <2>2, <2>5 DEF Kept
    <3> HIDE DEF r, c
    <3> QED
      BY <3>1
  <2> QED
    BY <1>1, <1>2, <2>2, <2>5, <2>6, <2>7
<1>3. CASE f = "data" /\ ~(s.e.in /\ ~s.e.eof)
  <2>1. t = s
    BY <1>3 DEF Framed
  <2>2. Kept(s) + 0 = Kept(s)
    BY <1>1 DEF Kept
  <2> QED
    BY <1>1, <1>3, <2>1, <2>2
<1>4. CASE f = "eof"
  <2> DEFINE y == IF pty /\ s.e.in /\ ~s.e.eof THEN 1 ELSE s.e.synth
             e1 == [s.e EXCEPT !.eof = TRUE, !.synth = y]
  <2>1. t = [e |-> e1, p |-> s.p, w |-> s.w]
    BY <1>1, <1>4 DEF Framed
  <2>2. y \in {0, 1}
    BY <1>1
  <2>3. /\ e1 \in ExecEnds /\ e1.real = s.e.real /\ e1.synth = y
        /\ e1.in = s.e.in /\ e1.eof = TRUE /\ e1.open = s.e.open /\ e1.fds = s.e.fds
        /\ e1.reaped = s.e.reaped /\ e1.shut = s.e.shut
    <3> HIDE DEF y
    <3> QED
      BY <1>1, <2>2 DEF ExecEnds
  <2> HIDE DEF e1
  <2>4. Keystroke(e1, s.p)
    BY <1>1, <2>3 DEF Keystroke
  <2>5. t \in EndStates /\ t.e = e1 /\ t.p = s.p /\ t.w = s.w
    BY <1>1, <2>1, <2>3 DEF EndStates
  <2>6. Held(t)
    BY <1>1, <2>3, <2>4, <2>5 DEF Held
  <2>7. Kept(t) = Kept(s) + 0
    BY <1>1, <2>3, <2>5 DEF Kept
  <2> QED
    BY <1>4, <2>3, <2>5, <2>6, <2>7
<1> QED
  BY <1>2, <1>3, <1>4

\* flush_input.
LEMMA FlushInputOf ==
  ASSUME NEW s, Held(s), NEW t, t = FlushInput(s)
  PROVE  /\ Held(t) /\ SameRest(s, t)
         /\ prog.stdin => Kept(t) = Kept(s) /\ (~t.e.in => ~s.e.in \/ t.e.eof)
<1> DEFINE held == s.e.real + s.e.synth
           m == Smaller(held, PipeCap - Len(s.p))
           u == IF ~s.e.in \/ held = 0 THEN s
                ELSE IF ~prog.stdin THEN Dropped(s) ELSE Taken(s, m)
<1>1. t = IF EofDone(u.e) THEN [u EXCEPT !.e.in = FALSE] ELSE u
  BY DEF FlushInput
<1>2. /\ Held(u) /\ SameRest(s, u)
      /\ prog.stdin => Kept(u) = Kept(s) /\ u.e.in = s.e.in
  <2>1. CASE ~s.e.in \/ held = 0
    <3>1. u = s
      BY <2>1
    <3> HIDE DEF u
    <3> QED
      BY <3>1 DEF SameRest
  <2>2. CASE ~(~s.e.in \/ held = 0) /\ ~prog.stdin
    <3>1. u = Dropped(s)
      BY <2>2
    <3> HIDE DEF u
    <3> QED
      BY <2>2, <3>1, DroppedOf
  <2>3. CASE ~(~s.e.in \/ held = 0) /\ prog.stdin
    <3>1. u = Taken(s, m)
      BY <2>3
    <3>2. m \in Nat /\ m <= held /\ m <= PipeCap - Len(s.p)
      <4> DEFINE k == PipeCap - Len(s.p)
      <4>1. s.e.real \in Nat /\ s.e.synth \in {0, 1} /\ Len(s.p) \in Nat /\ Len(s.p) <= PipeCap
        BY HeldFields DEF Held
      <4>2. held \in Nat /\ k \in Nat
        BY <4>1, ExecAssumption
      <4> HIDE DEF held, k
      <4>3. Smaller(held, k) \in Nat /\ Smaller(held, k) <= held /\ Smaller(held, k) <= k
        BY <4>2 DEF Smaller
      <4> QED
        BY <4>3 DEF k
    <3> HIDE DEF u, m
    <3> QED
      BY <3>1, <3>2, TakenOf
  <2> QED
    BY <2>1, <2>2, <2>3
<1> HIDE DEF u
<1>3. CASE ~EofDone(u.e)
  BY <1>1, <1>2, <1>3
<1>4. CASE EofDone(u.e)
  <2> DEFINE e1 == [u.e EXCEPT !.in = FALSE]
  <2>1. /\ u.e \in ExecEnds /\ u.p \in Seq({"data", "veof"}) /\ u.w \in 0 .. Window
        /\ u.e.real \in Nat /\ u.e.synth \in {0, 1} /\ u.w + u.e.real = Window
        /\ Keystroke(u.e, u.p) /\ u = [e |-> u.e, p |-> u.p, w |-> u.w] /\ Len(u.p) <= PipeCap
    BY <1>2, HeldFields DEF Held
  <2>2. t = [e |-> e1, p |-> u.p, w |-> u.w]
    BY <1>1, <1>4, <2>1
  <2>3. u.e.real = 0 /\ u.e.synth = 0 /\ u.e.eof
    BY <1>4, <2>1 DEF EofDone
  <2>4. /\ e1 \in ExecEnds /\ e1.real = u.e.real /\ e1.synth = u.e.synth
        /\ e1.in = FALSE /\ e1.eof = u.e.eof /\ e1.open = u.e.open /\ e1.fds = u.e.fds
        /\ e1.reaped = u.e.reaped /\ e1.shut = u.e.shut
    BY <2>1 DEF ExecEnds
  <2> HIDE DEF e1
  <2>5. Keystroke(e1, u.p)
    BY <2>1, <2>3, <2>4 DEF Keystroke
  <2>6. t \in EndStates /\ t.e = e1 /\ t.p = u.p /\ t.w = u.w
    BY <2>1, <2>2, <2>4 DEF EndStates
  <2>7. Held(t)
    BY <2>1, <2>4, <2>5, <2>6 DEF Held
  <2>8. Kept(t) = Kept(u) /\ SameRest(u, t)
    BY <2>4, <2>6 DEF Kept, SameRest
  <2> QED
    BY <1>2, <2>3, <2>4, <2>6, <2>7, <2>8 DEF SameRest
<1> QED
  BY <1>3, <1>4


-----------------------------------------------------------------------------
(* The actions, one lemma each *)

\* What the fields of the state are.
LEMMA Fields ==
  ASSUME RunTypeOK
  PROVE  /\ cl \in Clients /\ up \in Uplinks /\ down \in Downlinks /\ inst \in Instances
         /\ end \in ExecEnds /\ prog \in Programs /\ orphan \in Orphans /\ pty \in BOOLEAN
         /\ faults \in 0 .. MaxFaults
         /\ up.sock \in Seq({"data", "eof"}) /\ up.net \in Seq({"data", "eof", "fin"})
         /\ down.net \in Seq(Streams \cup {"ok", "exit", "fin"}) /\ down.q \in Seq(Chunks)
         /\ down.sock \in Seq(Streams \cup {"ready", "exit"})
         /\ prog.pin \in Seq({"data", "veof"}) /\ Flow(up) \in Seq({"data", "eof", "fin"})
         /\ Chain(down) \in Seq(Signals)
<1>1. /\ cl \in Clients /\ up \in Uplinks /\ down \in Downlinks /\ inst \in Instances
      /\ end \in ExecEnds /\ prog \in Programs /\ orphan \in Orphans /\ pty \in BOOLEAN
      /\ faults \in 0 .. MaxFaults
  BY DEF RunTypeOK
<1>2. /\ up.sock \in Seq({"data", "eof"}) /\ up.net \in Seq({"data", "eof", "fin"})
  BY <1>1 DEF Uplinks
<1>3. /\ down.net \in Seq(Streams \cup {"ok", "exit", "fin"}) /\ down.q \in Seq(Chunks)
      /\ down.sock \in Seq(Streams \cup {"ready", "exit"})
  BY <1>1 DEF Downlinks
<1>4. prog.pin \in Seq({"data", "veof"})
  BY <1>1 DEF Programs
<1>5. Chain(down) \in Seq(Signals)
  BY <1>1, ChainOf
<1>6. up.sock \in Seq({"data", "eof", "fin"})
  <2>1. {"data", "eof"} \subseteq {"data", "eof", "fin"}
    OBVIOUS
  <2> QED
    BY <1>2, <2>1, SeqMonotonic
<1>7. Flow(up) \in Seq({"data", "eof", "fin"})
  <2> DEFINE a == up.net
             b == up.sock
  <2>1. a \in Seq({"data", "eof", "fin"}) /\ b \in Seq({"data", "eof", "fin"})
    BY <1>2, <1>6
  <2> HIDE DEF a, b
  <2>2. a \o b \in Seq({"data", "eof", "fin"})
    BY <2>1, ConcatProperties
  <2> QED
    BY <2>2 DEF a, b, Flow
<1> QED
  BY <1>1, <1>2, <1>3, <1>4, <1>5, <1>7

\* The head of the client's socket is the head of the chain.
LEMMA ChainHead ==
  ASSUME NEW d \in Downlinks, d.sock # <<>>, NEW d1, d1 = [d EXCEPT !.sock = Tail(@)]
  PROVE  /\ Chain(d) # <<>> /\ Head(Chain(d)) = Head(d.sock)
         /\ d1 \in Downlinks /\ d1.sock = Tail(d.sock) /\ d1.q = d.q /\ d1.net = d.net
         /\ d1.wnd = d.wnd /\ d1.pre = d.pre /\ Chain(d1) = Tail(Chain(d))
<1> DEFINE S == Streams \cup {"ready", "exit"}
           x == d.sock
           y == Frames(d.q)
           z == d.net
<1>1. x \in Seq(S) /\ x # <<>>
  BY DEF Downlinks
<1>2. Tail(x) \in Seq(S) /\ x = <<Head(x)>> \o Tail(x) /\ Head(x) \in S
  <2> HIDE DEF x
  <2> QED
    BY <1>1, HeadAndTail
<1>3. /\ d1 \in Downlinks /\ d1.sock = Tail(x) /\ d1.q = d.q /\ d1.net = d.net
      /\ d1.wnd = d.wnd /\ d1.pre = d.pre
  BY <1>2 DEF Downlinks
<1>4. x \in Seq(Signals) /\ y \in Seq(Signals) /\ z \in Seq(Signals)
  BY ChainOf
<1>5. Tail(x) \in Seq(Signals) /\ Head(x) \in Signals /\ <<Head(x)>> \in Seq(Signals)
  <2>1. Tail(x) \in Seq(Signals)
    BY <1>3, ChainOf
  <2>2. Head(x) \in Signals
    BY <1>2 DEF Signals
  <2> QED
    BY <2>1, <2>2
<1>6. Chain(d) = (x \o y) \o z /\ Chain(d1) = (Tail(x) \o y) \o z
  BY <1>3 DEF Chain
<1> DEFINE h == <<Head(x)>>
           r == Tail(x)
<1> HIDE DEF S, x, y, z
<1>7. (x \o y) \o z = h \o ((r \o y) \o z)
  <2>1. x = h \o r /\ h \in Seq(Signals) /\ r \in Seq(Signals)
    BY <1>2, <1>5
  <2> HIDE DEF h, r
  <2> DEFINE v == r \o y
  <2>5. h \in Seq(Signals) /\ r \in Seq(Signals) /\ y \in Seq(Signals) /\ z \in Seq(Signals)
    BY <1>4, <2>1
  <2>2. (h \o r) \o y = h \o (r \o y)
    <3> HIDE DEF v
    <3> QED
      BY <2>5, SMT
  <2>3. v \in Seq(Signals)
    BY <2>5, ConcatProperties
  <2> HIDE DEF v
  <2>4. (h \o v) \o z = h \o (v \o z)
    BY <2>3, <2>5, SMTT(30)
  <2> QED
    BY <2>1, <2>2, <2>4 DEF v
<1> DEFINE w == (r \o y) \o z
<1>8. w \in Seq(Signals)
  BY <1>6, <1>3, ChainOf
<1> HIDE DEF w, r
<1>9. /\ h \o w # <<>> /\ Head(h \o w) = Head(x) /\ Tail(h \o w) = w
  <2> DEFINE m == Head(x)
  <2>1. m \in Signals
    BY <1>5
  <2> HIDE DEF m
  <2>2. <<m>> \o w # <<>> /\ Head(<<m>> \o w) = m /\ Tail(<<m>> \o w) = w
    BY <1>8, <2>1
  <2> QED
    BY <2>2 DEF m, h
<1> QED
  BY <1>3, <1>6, <1>7, <1>9 DEF w, r, x

\* The client does something other than send.
LEMMA ClientIdle ==
  ASSUME EofOK, InputOK, cl'.left = cl.left, cl'.stdin = cl.stdin, cl.st # "send",
         cl'.st # "send", UNCHANGED <<pty, up, inst, end, prog>>
  PROVE  EofOK' /\ InputOK'
<1>1. EofOK'
  <2> SUFFICES ASSUME end.open
               PROVE  Upstream(Flow(up'), cl', end.eof) /\ Keystroke(end, prog.pin)
    BY DEF EofOK
  <2>1. Upstream(Flow(up), cl, end.eof) /\ Keystroke(end, prog.pin)
    BY DEF EofOK
  <2> QED
    BY <2>1, UpstreamKept
<1>2. Sending(cl') = Sending(cl)
  BY DEF Sending
<1>3. InputOK'
  BY <1>2 DEF InputOK, Supplied
<1> QED
  BY <1>1, <1>3

\* ClientRead keeps the invariant (run_exec_client).
LEMMA ClientReadOK == ASSUME RunIInv, ClientRead PROVE RunIInv'
<1> DEFINE f == Head(down.sock)
<1>1. /\ cl \in Clients /\ down \in Downlinks /\ end \in ExecEnds /\ prog \in Programs
      /\ Chain(down) \in Seq(Signals)
  BY Fields DEF RunIInv
<1>2. /\ cl.st \in {"await", "poll"} /\ down.sock # <<>>
      /\ down' = [down EXCEPT !.sock = Tail(@)]
      /\ UNCHANGED <<pty, up, inst, end, prog, orphan, faults>>
  BY DEF ClientRead
<1>3. \/ f = "exit" /\ cl' = Gone("exit")
      \/ /\ f # "exit"
         /\ \E next \in {"poll", "stdin"} :
              cl' = [cl EXCEPT !.st = next, !.got = IF f = "ready" THEN 0 ELSE @ + 1]
  BY DEF ClientRead
<1>4. /\ Chain(down) # <<>> /\ Head(Chain(down)) = f /\ down' \in Downlinks
      /\ down'.sock = Tail(down.sock) /\ down'.q = down.q /\ down'.net = down.net
      /\ down'.wnd = down.wnd /\ down'.pre = down.pre /\ Chain(down') = Tail(Chain(down))
  BY <1>1, <1>2, ChainHead
<1>5. /\ f \in Streams \cup {"ready", "exit"} /\ Len(down'.sock) <= SockCap
  <2> DEFINE s == down.sock
  <2>1. s \in Seq(Streams \cup {"ready", "exit"}) /\ s # <<>> /\ Len(s) <= SockCap
    BY <1>1, <1>2 DEF Downlinks, RunIInv, Bounded
  <2> HIDE DEF s
  <2>2. Head(s) \in Streams \cup {"ready", "exit"} /\ Len(Tail(s)) = Len(s) - 1 /\ Len(s) \in Nat
    BY <2>1, HeadAndTail
  <2> QED
    BY <1>4, <2>1, <2>2, ExecAssumption DEF s
<1> HIDE DEF f
<1>6. /\ cl' \in Clients /\ cl'.left = cl.left /\ cl'.stdin = cl.stdin /\ cl'.st # "send"
      /\ cl'.st = "done" => f = "exit" /\ cl'.got = cl.got /\ cl'.status = "exit"
      /\ cl'.st # "done" => /\ f # "exit" /\ cl'.status = cl.status
                            /\ cl'.got = IF f = "ready" THEN 0 ELSE cl.got + 1
  <2>1. CASE f = "exit" /\ cl' = Gone("exit")
    BY <1>1, <2>1 DEF Gone, Clients
  <2>2. CASE /\ f # "exit"
             /\ \E next \in {"poll", "stdin"} :
                  cl' = [cl EXCEPT !.st = next, !.got = IF f = "ready" THEN 0 ELSE @ + 1]
    <3>1. PICK next \in {"poll", "stdin"} :
             cl' = [cl EXCEPT !.st = next, !.got = IF f = "ready" THEN 0 ELSE @ + 1]
      BY <2>2
    <3>2. (IF f = "ready" THEN 0 ELSE cl.got + 1) \in Nat
      BY <1>1 DEF Clients
    <3> QED
      BY <1>1, <2>2, <3>1, <3>2 DEF Clients
  <2> QED
    BY <1>3, <2>1, <2>2
<1>7. RunTypeOK' /\ Bounded'
  BY <1>2, <1>4, <1>5, <1>6 DEF RunIInv, RunTypeOK, Bounded
<1>8. InstOK'
  BY <1>2, <1>4, <1>6 DEF RunIInv, InstOK
<1>9. UpWindow(end, up.wnd)' /\ DownWindow(down, inst.st)' /\ ProgOK'
  BY <1>2, <1>4 DEF RunIInv, UpWindow, DownWindow, ProgOK
<1>10. EofOK' /\ InputOK'
  BY <1>2, <1>6, ClientIdle DEF RunIInv
<1>11. Delivery(Chain(down), cl, end, prog)'
  <2>1. Delivery(Chain(down), cl, end, prog) /\ cl.st # "done"
    BY <1>2 DEF RunIInv
  <2>2. CASE cl'.st = "done"
    BY <2>2 DEF Delivery
  <2>3. CASE cl'.st # "done"
    <3>1. f \in Streams \cup {"ready"} /\ cl'.got = IF f = "ready" THEN 0 ELSE cl.got + 1
      BY <1>5, <1>6, <2>3
    <3>2. Delivery(Tail(Chain(down)), cl', end, prog)
      BY <1>1, <1>4, <1>6, <2>1, <3>1, DeliveryRead
    <3> QED
      BY <1>2, <1>4, <3>2
  <2> QED
    BY <2>2, <2>3
<1>12. StatusOK'
  <2>1. CASE cl'.st = "done"
    <3>1. end.reaped /\ cl.got = prog.wrote
      BY <1>1, <1>2, <1>4, <1>6, <2>1, DeliveryExit DEF RunIInv
    <3> QED
      BY <1>2, <1>6, <2>1, <3>1 DEF RunIInv, ProgOK, StatusOK
  <2>2. CASE cl'.st # "done"
    BY <1>2, <1>6, <2>2 DEF RunIInv, StatusOK
  <2> QED
    BY <2>1, <2>2
<1> QED
  BY <1>7, <1>8, <1>9, <1>10, <1>11, <1>12 DEF RunIInv

\* The client ends without EXIT.
LEMMA ClientGone ==
  ASSUME RunIInv, cl.st \in {"await", "poll"}, NEW why \in {"lost", "pipe"}, cl' = Gone(why),
         faults' \in 0 .. MaxFaults, UNCHANGED <<pty, up, down, inst, end, prog, orphan>>
  PROVE  RunIInv'
<1>1. cl \in Clients
  BY Fields DEF RunIInv
<1>2. /\ cl' \in Clients /\ cl'.left = cl.left /\ cl'.stdin = cl.stdin /\ cl'.st = "done"
      /\ cl'.status = why /\ cl'.got = cl.got
  BY <1>1 DEF Gone, Clients
<1>3. RunTypeOK' /\ Bounded'
  BY <1>2 DEF RunIInv, RunTypeOK, Bounded
<1>4. InstOK' /\ UpWindow(end, up.wnd)' /\ DownWindow(down, inst.st)' /\ ProgOK'
  BY <1>2 DEF RunIInv, InstOK, UpWindow, DownWindow, ProgOK
<1>5. EofOK' /\ InputOK'
  BY <1>2, ClientIdle DEF RunIInv
<1>6. Delivery(Chain(down), cl, end, prog)' /\ StatusOK'
  BY <1>2 DEF Delivery, StatusOK
<1> QED
  BY <1>3, <1>4, <1>5, <1>6 DEF RunIInv

\* ClientLost keeps the invariant (run_exec_client).
LEMMA ClientLostOK == ASSUME RunIInv, ClientLost PROVE RunIInv'
<1>1. faults \in 0 .. MaxFaults
  BY Fields DEF RunIInv
<1> QED
  BY <1>1, ClientGone DEF ClientLost

\* StdoutGone keeps the invariant (run_exec_client).
LEMMA StdoutGoneOK == ASSUME RunIInv, StdoutGone PROVE RunIInv'
<1>1. faults \in 0 .. MaxFaults /\ faults > 0 /\ faults' = faults - 1
  BY Fields DEF RunIInv, StdoutGone
<1>2. faults' \in 0 .. MaxFaults
  BY <1>1, ExecAssumption
<1> QED
  BY <1>2, ClientGone DEF StdoutGone

\* ReadStdin keeps the invariant (run_exec_client).
LEMMA ReadStdinOK == ASSUME RunIInv, ReadStdin PROVE RunIInv'
<1> DEFINE f == IF cl.left > 0 THEN "data" ELSE "eof"
<1>1. cl \in Clients /\ Input \in Nat /\ cl.left \in 0 .. Input
  BY Fields, ExecAssumption DEF RunIInv, Clients
<1>2. /\ cl.stdin /\ cl.st \in {"stdin", "poll"}
      /\ UNCHANGED <<pty, up, down, inst, end, prog, orphan, faults>>
  BY DEF ReadStdin
<1>3. /\ cl'.st = "send" /\ cl'.frame = f /\ cl'.stdin = (f = "data")
      /\ cl'.left = (IF f = "data" THEN cl.left - 1 ELSE 0)
      /\ cl'.status = cl.status /\ cl'.got = cl.got
      /\ cl' = [cl EXCEPT !.st = cl'.st, !.frame = cl'.frame, !.stdin = cl'.stdin,
                          !.left = cl'.left]
  BY <1>1 DEF ReadStdin, Clients
<1>4. f \in {"data", "eof"} /\ (f = "eof" => cl.left = 0) /\ (f = "data" => cl.left > 0)
  BY <1>1
<1> HIDE DEF f
<1>5. cl'.left \in 0 .. Input
  BY <1>1, <1>3, <1>4
<1>6. cl' \in Clients
  BY <1>1, <1>3, <1>4, <1>5 DEF Clients
<1>7. RunTypeOK' /\ Bounded'
  BY <1>2, <1>6 DEF RunIInv, RunTypeOK, Bounded
<1>8. InstOK' /\ UpWindow(end, up.wnd)' /\ DownWindow(down, inst.st)' /\ ProgOK'
  BY <1>2, <1>3 DEF RunIInv, InstOK, UpWindow, DownWindow, ProgOK
<1>9. EofOK'
  <2>1. end.open => ~end.eof /\ ~Has(Flow(up), "eof")
    BY <1>2 DEF RunIInv, EofOK, Upstream
  <2> QED
    BY <1>2, <1>3, <1>4, <2>1 DEF RunIInv, EofOK, Upstream
<1>10. InputOK'
  <2>1. cl'.left + Sending(cl') = cl.left + Sending(cl)
    BY <1>1, <1>2, <1>3, <1>4 DEF Sending
  <2> QED
    BY <1>2, <2>1 DEF RunIInv, InputOK, Supplied
<1>11. Delivery(Chain(down), cl, end, prog)'
  <2>1. Delivery(Chain(down), cl', end, prog)
    BY <1>2, <1>3 DEF RunIInv, Delivery
  <2> QED
    BY <1>2, <2>1
<1>12. StatusOK'
  BY <1>2, <1>3 DEF RunIInv, StatusOK
<1> QED
  BY <1>7, <1>8, <1>9, <1>10, <1>11, <1>12 DEF RunIInv

\* Joining sequences at either end.
LEMMA JoinAppend ==
  ASSUME NEW T, NEW a \in Seq(T), NEW b \in Seq(T), NEW x \in T
  PROVE  a \o Append(b, x) = Append(a \o b, x) /\ Append(b, x) \in Seq(T)
<1> DEFINE y == <<x>>
           c == a \o b
<1>1. y \in Seq(T) /\ Append(b, x) = b \o y
  BY AppendIsConcat
<1>2. c \in Seq(T)
  BY ConcatProperties
<1>3. Append(c, x) = c \o y
  <2> HIDE DEF c
  <2> QED
    BY <1>2, AppendIsConcat
<1>5. y \in Seq(T)
  BY <1>1
<1> HIDE DEF y
<1>4. (a \o b) \o y = a \o (b \o y)
  <2> HIDE DEF c
  <2> QED
    BY <1>5, SMT
<1> QED
  BY <1>1, <1>3, <1>4, AppendProperties DEF c

\* Moving the head of one queue to the end of the queue before it changes nothing together.
LEMMA JoinMove ==
  ASSUME NEW T, NEW a \in Seq(T), NEW b \in Seq(T), b # <<>>
  PROVE  Append(a, Head(b)) \o Tail(b) = a \o b
<1> DEFINE h == <<Head(b)>>
           r == Tail(b)
<1>1. Head(b) \in T /\ r \in Seq(T) /\ b = h \o r /\ h \in Seq(T)
  BY HeadAndTail
<1>2. Append(a, Head(b)) = a \o h
  BY <1>1, AppendIsConcat
<1>4. h \in Seq(T) /\ r \in Seq(T)
  BY <1>1
<1> HIDE DEF h, r
<1>3. (a \o h) \o r = a \o (h \o r)
  BY <1>4, SMTT(30)
<1> QED
  BY <1>1, <1>2, <1>3 DEF r

\* A socket of the client as a part of the flow.
LEMMA FlowParts ==
  ASSUME NEW u \in Uplinks
  PROVE  /\ u.net \in Seq({"data", "eof", "fin"}) /\ u.sock \in Seq({"data", "eof", "fin"})
         /\ u.sock \in Seq({"data", "eof"}) /\ u.wnd \in 0 .. Window
         /\ Flow(u) \in Seq({"data", "eof", "fin"})
<1>1. /\ u.net \in Seq({"data", "eof", "fin"}) /\ u.sock \in Seq({"data", "eof"})
      /\ u.wnd \in 0 .. Window
  BY DEF Uplinks
<1>2. {"data", "eof"} \subseteq {"data", "eof", "fin"}
  OBVIOUS
<1>3. u.sock \in Seq({"data", "eof", "fin"})
  BY <1>1, <1>2, SeqMonotonic
<1> QED
  BY <1>1, <1>3, ConcatProperties DEF Flow

\* Sent keeps the invariant (write_full, send_frame).
LEMMA SentOK == ASSUME RunIInv, Sent PROVE RunIInv'
<1>1. /\ cl \in Clients /\ up \in Uplinks /\ end \in ExecEnds /\ prog \in Programs
      /\ inst \in Instances
  BY Fields DEF RunIInv
<1>2. /\ cl.st = "send" /\ cl' = [cl EXCEPT !.st = "poll"]
      /\ up' = IF inst.fd THEN [up EXCEPT !.sock = Append(@, cl.frame)] ELSE up
      /\ UNCHANGED <<pty, down, inst, end, prog, orphan, faults>>
  BY DEF Sent
<1>3. /\ cl' \in Clients /\ cl'.st = "poll" /\ cl'.left = cl.left /\ cl'.stdin = cl.stdin
      /\ cl'.status = cl.status /\ cl'.got = cl.got /\ cl.frame \in {"data", "eof"}
  BY <1>1, <1>2 DEF Clients
<1>4. /\ up' \in Uplinks /\ up'.net = up.net /\ up'.wnd = up.wnd
      /\ inst.fd => up'.sock = Append(up.sock, cl.frame)
  <2>1. up.sock \in Seq({"data", "eof"})
    BY <1>1, FlowParts
  <2>2. Append(up.sock, cl.frame) \in Seq({"data", "eof"})
    BY <1>3, <2>1, AppendProperties
  <2> QED
    BY <1>1, <1>2, <2>2 DEF Uplinks
<1>5. RunTypeOK' /\ Bounded'
  BY <1>2, <1>3, <1>4 DEF RunIInv, RunTypeOK, Bounded
<1>6. InstOK' /\ UpWindow(end, up.wnd)' /\ DownWindow(down, inst.st)' /\ ProgOK'
  BY <1>2, <1>3, <1>4 DEF RunIInv, InstOK, UpWindow, DownWindow, ProgOK
<1>7. end.open => inst.fd /\ inst.st # "gone"
  BY <1>2 DEF RunIInv, InstOK
<1>8. inst.fd => Flow(up') = Append(Flow(up), cl.frame)
  <2> DEFINE a == up.net
             b == up.sock
             x == cl.frame
  <2>1. a \in Seq({"data", "eof", "fin"}) /\ b \in Seq({"data", "eof", "fin"})
        /\ x \in {"data", "eof", "fin"}
    BY <1>1, <1>3, FlowParts
  <2> HIDE DEF a, b, x
  <2>2. a \o Append(b, x) = Append(a \o b, x)
    BY <2>1, JoinAppend
  <2> QED
    BY <1>4, <2>2 DEF a, b, x, Flow
<1>9. EofOK'
  <2> SUFFICES ASSUME end.open
               PROVE  Upstream(Flow(up'), cl', end.eof) /\ Keystroke(end, prog.pin)
    BY <1>2 DEF EofOK
  <2>1. Upstream(Flow(up), cl, end.eof) /\ Keystroke(end, prog.pin) /\ end.eof \in BOOLEAN
    BY <1>1 DEF RunIInv, EofOK, ExecEnds
  <2>2. Flow(up) \in Seq({"data", "eof", "fin"})
    BY <1>1, FlowParts
  <2>3. Upstream(Append(Flow(up), cl.frame), cl', end.eof)
    BY <1>1, <1>2, <1>3, <2>1, <2>2, UpstreamSent
  <2> QED
    BY <1>7, <1>8, <2>1, <2>3
<1>10. InputOK'
  <2> SUFFICES ASSUME end.open, prog.st = "run", prog.stdin
               PROVE  (~end.in => end.eof) /\ Supplied(Flow(up'), cl', end, prog, inst.st)
    BY <1>2 DEF InputOK
  <2> DEFINE n == CountIn(Flow(up), {"data"})
             n1 == CountIn(Flow(up'), {"data"})
  <2>1. /\ ~end.in => end.eof
        /\ cl.left + Sending(cl) + n + end.real + CountIn(prog.pin, {"data"}) + prog.read = Input
    BY <1>7 DEF RunIInv, InputOK, Supplied
  <2>2. Flow(up) \in Seq({"data", "eof", "fin"}) /\ cl.frame \in {"data", "eof", "fin"}
    BY <1>1, <1>3, FlowParts
  <2>3. n \in Nat /\ n1 = n + (IF cl.frame \in {"data"} THEN 1 ELSE 0)
    <3> DEFINE fl == Flow(up)
               x == cl.frame
               T == {"data", "eof", "fin"}
               D == {"data"}
    <3>1. fl \in Seq(T) /\ x \in T /\ Flow(up') = Append(fl, x)
      BY <1>7, <1>8, <2>2
    <3> HIDE DEF fl, x, T, D
    <3>2. CountIn(fl, D) \in Nat
      BY <3>1, CountType
    <3>3. CountIn(Append(fl, x), D) = CountIn(fl, D) + (IF x \in D THEN 1 ELSE 0)
      BY <3>1, CountAppend
    <3> QED
      BY <3>1, <3>2, <3>3 DEF fl, x, D
  <2> HIDE DEF n, n1
  <2>4. cl.left \in Nat /\ cl'.left + Sending(cl') + n1 = cl.left + Sending(cl) + n
    <3>1. cl.left \in Nat
      BY <1>1 DEF Clients
    <3>2. Sending(cl') = 0 /\ Sending(cl) = IF cl.frame = "data" THEN 1 ELSE 0
      BY <1>2, <1>3 DEF Sending
    <3> QED
      BY <1>3, <2>3, <3>1, <3>2
  <2> QED
    BY <2>1, <2>4 DEF Supplied, n, n1
<1>11. Delivery(Chain(down), cl, end, prog)'
  <2>1. Delivery(Chain(down), cl', end, prog)
    BY <1>2, <1>3 DEF RunIInv, Delivery
  <2> QED
    BY <1>2, <2>1
<1>12. StatusOK'
  BY <1>2, <1>3 DEF RunIInv, StatusOK
<1> QED
  BY <1>5, <1>6, <1>9, <1>10, <1>11, <1>12 DEF RunIInv

\* Steps of the client's daemon and of the tunnel that leave the flow and the end alone.
LEMMA InputKept ==
  ASSUME EofOK, InputOK, Flow(up') = Flow(up), inst'.st # "gone" => inst.st # "gone",
         UNCHANGED <<pty, cl, end, prog>>
  PROVE  EofOK' /\ InputOK'
<1>1. EofOK'
  BY DEF EofOK
<1>2. InputOK'
  BY DEF InputOK, Supplied
<1> QED
  BY <1>1, <1>2

-----------------------------------------------------------------------------
(* The client's daemon *)

\* A chain of which a part moved forward, or was thrown away with its client.
LEMMA DeliveryMoved ==
  ASSUME Delivery(Chain(down), cl, end, prog), cl.st # "done" => Chain(down') = Chain(down),
         UNCHANGED <<cl, end, prog>>
  PROVE  Delivery(Chain(down), cl, end, prog)'
BY DEF Delivery

\* RecvOutput keeps the invariant (Daemon::on_tunnel_data).
LEMMA RecvOutputOK == ASSUME RunIInv, RecvOutput PROVE RunIInv'
<1> DEFINE q == down.q
           z == down.net
           k == Chunk(Head(z))
           d == [down EXCEPT !.net = Tail(@), !.wnd = @ - 1, !.q = Append(@, k)]
<1>1. /\ cl \in Clients /\ down \in Downlinks /\ Window \in Nat
      /\ z \in Seq(Streams \cup {"ok", "exit", "fin"}) /\ q \in Seq(Chunks)
      /\ down.wnd \in 0 .. Window /\ down.pre \in Nat
  BY Fields, ExecAssumption DEF RunIInv, Downlinks
<1>2. /\ inst.st = "open" /\ z # <<>> /\ Head(z) # "fin" /\ down.wnd > 0
      /\ down' = Flushed(d) /\ UNCHANGED <<pty, cl, up, inst, end, prog, orphan, faults>>
  BY DEF RecvOutput
<1>3. /\ Tail(z) \in Seq(Streams \cup {"ok", "exit", "fin"}) /\ Head(z) \in Streams \cup {"exit"}
      /\ Len(z) \in Nat \ {0} /\ Len(Tail(z)) = Len(z) - 1
      /\ \A i \in 1 .. Len(z) - 1 : Tail(z)[i] = z[i + 1]
  <2>1. \A i \in 1 .. Len(z) : z[i] # "ok"
    BY <1>2 DEF RunIInv, InstOK
  <2> HIDE DEF z
  <2>2. /\ Tail(z) \in Seq(Streams \cup {"ok", "exit", "fin"})
        /\ Head(z) \in Streams \cup {"ok", "exit", "fin"} /\ Head(z) = z[1]
        /\ Len(z) \in Nat \ {0} /\ Len(Tail(z)) = Len(z) - 1
        /\ \A i \in 1 .. Len(z) - 1 : Tail(z)[i] = z[i + 1]
    BY <1>1, <1>2, HeadAndTail
  <2> QED
    BY <1>2, <2>1, <2>2
<1>4. k \in Chunks /\ k.frame = Head(z) /\ k.acc = TRUE
  BY <1>3 DEF Chunk, Chunks
<1> HIDE DEF k
<1>5. /\ <<k>> \in Seq(Chunks) /\ Append(q, k) = q \o <<k>> /\ Append(q, k) \in Seq(Chunks)
  <2> HIDE DEF q
  <2> QED
    BY <1>1, <1>4, AppendIsConcat, AppendProperties
<1>6. Accounted(<<k>>) = 1 /\ Accounted(q) \in Nat /\ Accounted(Append(q, k)) = Accounted(q) + 1
  <2>1. Accounted(<<k>>) = CountIn(<<k>>, AccountedChunks)
    BY <1>5, AccountedIsCount
  <2>2. k \in AccountedChunks
    BY <1>4 DEF Chunks, AccountedChunks
  <2>3. CountIn(<<k>>, AccountedChunks) = 1
    BY <2>2, CountOne
  <2> HIDE DEF q
  <2>4. Accounted(q) \in Nat /\ Accounted(q \o <<k>>) = Accounted(q) + Accounted(<<k>>)
    BY <1>1, <1>5, AccountedParts
  <2> QED
    BY <1>5, <2>1, <2>3, <2>4
<1>7. /\ d.net = Tail(z) /\ d.wnd = down.wnd - 1 /\ d.q = Append(q, k) /\ d.pre = down.pre
      /\ d.sock = down.sock
  BY <1>1 DEF Downlinks
<1>8. d \in Downlinks
  <2>1. down.wnd - 1 \in 0 .. Window
    BY <1>1, <1>2
  <2>2. d = [down EXCEPT !.net = Tail(z), !.wnd = down.wnd - 1, !.q = Append(q, k)]
    OBVIOUS
  <2> HIDE DEF d, q, z
  <2> QED
    BY <1>1, <1>3, <1>5, <2>1, <2>2 DEF Downlinks
<1> HIDE DEF d
<1>9. d.wnd + Accounted(d.q) = Window + d.pre /\ d.pre <= Accounted(d.q)
  <2>1. down.wnd + Accounted(q) = Window + down.pre /\ down.pre <= Accounted(q)
    BY <1>2 DEF RunIInv, DownWindow
  <2> DEFINE m == Accounted(q)
             v == down.wnd
             k0 == down.pre
  <2>2. /\ m \in Nat /\ v \in Nat /\ k0 \in Nat /\ v + m = Window + k0 /\ k0 <= m
        /\ Accounted(d.q) = m + 1 /\ d.wnd = v - 1 /\ d.pre = k0 /\ Window \in Nat
    BY <1>1, <1>6, <1>7, <2>1
  <2> HIDE DEF m, v, k0
  <2> QED
    BY <2>2
<1>10. Chain(d) = Chain(down)
  <2> DEFINE x == down.sock
             y == Frames(q)
             h == <<Head(z)>>
             r == Tail(z)
  <2>1. Frames(<<k>>) = h
    <3>1. Len(<<k>>) = 1 /\ <<k>>[1].frame = Head(z) /\ 1 .. 1 = {1}
      BY <1>4
    <3>2. Frames(<<k>>) = [i \in 1 .. 1 |-> Head(z)]
      BY <3>1 DEF Frames
    <3>3. [i \in 1 .. 1 |-> Head(z)] = h
      BY <3>1
    <3> QED
      BY <3>2, <3>3
  <2>2. Frames(d.q) = y \o h
    <3> DEFINE u == <<k>>
    <3>1. q \in Seq(Chunks) /\ u \in Seq(Chunks) /\ d.q = q \o u
      BY <1>1, <1>5, <1>7
    <3> HIDE DEF q, u
    <3>2. Frames(q \o u) = Frames(q) \o Frames(u)
      BY <3>1, FramesConcat
    <3> QED
      BY <2>1, <3>1, <3>2 DEF u
  <2>3. x \in Seq(Signals) /\ y \in Seq(Signals) /\ z \in Seq(Signals) /\ r \in Seq(Signals)
    BY <1>1, <1>7, <1>8, ChainOf
  <2>4. h \in Seq(Signals) /\ z = h \o r
    <3>1. Head(z) \in Signals
      BY <1>3 DEF Signals
    <3> HIDE DEF z
    <3> QED
      BY <1>1, <1>2, <3>1, HeadAndTail
  <2>5. Chain(d) = (x \o (y \o h)) \o r /\ Chain(down) = (x \o y) \o z
    BY <1>7, <2>2 DEF Chain
  <2>9. x \in Seq(Signals) /\ y \in Seq(Signals) /\ h \in Seq(Signals) /\ r \in Seq(Signals)
    BY <2>3, <2>4
  <2> HIDE DEF x, y, h, r, z, q
  <2>6. (x \o y) \o h = x \o (y \o h)
    BY <2>9, SMT
  <2> DEFINE v == x \o y
  <2>7. v \in Seq(Signals)
    BY <2>9, ConcatProperties
  <2> HIDE DEF v
  <2>8. (v \o h) \o r = v \o (h \o r)
    BY <2>7, <2>9, SMTT(30)
  <2> QED
    BY <2>4, <2>5, <2>6, <2>8 DEF v
<1>11. /\ down' \in Downlinks /\ down'.net = Tail(z) /\ Len(down'.sock) <= SockCap
       /\ down'.wnd + Accounted(down'.q) = Window + down'.pre /\ down'.pre <= Accounted(down'.q)
       /\ cl.st # "done" => Chain(down') = Chain(down)
  <2>1. Len(d.sock) <= SockCap
    BY <1>7 DEF RunIInv, Bounded
  <2> QED
    BY <1>2, <1>7, <1>8, <1>9, <1>10, <2>1, FlushedOf
<1>12. RunTypeOK' /\ Bounded'
  BY <1>2, <1>11 DEF RunIInv, RunTypeOK, Bounded
<1>13. InstOK'
  <2>1. \A i \in 1 .. Len(down'.net) : down'.net[i] # "ok"
    <3> SUFFICES ASSUME NEW i \in 1 .. Len(Tail(z)) PROVE Tail(z)[i] # "ok"
      BY <1>11
    <3>1. Tail(z)[i] = z[i + 1] /\ i + 1 \in 1 .. Len(z)
      BY <1>3
    <3> QED
      BY <1>2, <3>1 DEF RunIInv, InstOK
  <2> QED
    BY <1>2, <2>1 DEF RunIInv, InstOK
<1>14. UpWindow(end, up.wnd)' /\ DownWindow(down, inst.st)' /\ ProgOK' /\ StatusOK'
  BY <1>2, <1>11 DEF RunIInv, UpWindow, DownWindow, ProgOK, StatusOK
<1>15. EofOK' /\ InputOK'
  BY <1>2, InputKept DEF RunIInv
<1>16. Delivery(Chain(down), cl, end, prog)'
  BY <1>2, <1>11, DeliveryMoved DEF RunIInv
<1> QED
  BY <1>12, <1>13, <1>14, <1>15, <1>16 DEF RunIInv

\* FlushClient keeps the invariant (Daemon::flush_client).
LEMMA FlushClientOK == ASSUME RunIInv, FlushClient PROVE RunIInv'
<1>1. down \in Downlinks /\ inst \in Instances
  BY Fields DEF RunIInv
<1>2. /\ inst.fd /\ down.q # <<>> /\ down' = Flushed(down)
      /\ inst' = (IF inst.closing /\ down'.q = <<>>
                  THEN [inst EXCEPT !.closing = FALSE, !.fd = FALSE] ELSE inst)
      /\ UNCHANGED <<pty, cl, up, end, prog, orphan, faults>>
  BY DEF FlushClient
<1>3. /\ down' \in Downlinks /\ down'.net = down.net /\ Len(down'.sock) <= SockCap
      /\ down'.wnd + Accounted(down'.q) = Window + down'.pre /\ down'.pre <= Accounted(down'.q)
      /\ cl.st # "done" => Chain(down') = Chain(down)
  <2>1. /\ Len(down.sock) <= SockCap /\ down.pre <= Accounted(down.q)
        /\ down.wnd + Accounted(down.q) = Window + down.pre
    BY <1>2 DEF RunIInv, Bounded, DownWindow
  <2> QED
    BY <1>1, <1>2, <2>1, FlushedOf
<1>4. inst' \in Instances /\ inst'.st = inst.st /\ ((inst'.fd /\ ~inst'.closing) \/ inst.st = "gone")
  <2>1. inst.closing => inst.st = "gone"
    BY <1>1 DEF RunIInv, InstOK, Instances
  <2> QED
    BY <1>1, <1>2, <2>1 DEF Instances
<1>5. RunTypeOK' /\ Bounded'
  BY <1>2, <1>3, <1>4 DEF RunIInv, RunTypeOK, Bounded
<1>6. InstOK'
  BY <1>2, <1>3, <1>4 DEF RunIInv, InstOK
<1>7. UpWindow(end, up.wnd)' /\ DownWindow(down, inst.st)' /\ ProgOK' /\ StatusOK'
  BY <1>2, <1>3 DEF RunIInv, UpWindow, DownWindow, ProgOK, StatusOK
<1>8. EofOK' /\ InputOK'
  BY <1>2, <1>4, InputKept DEF RunIInv
<1>9. Delivery(Chain(down), cl, end, prog)'
  BY <1>2, <1>3, DeliveryMoved DEF RunIInv
<1> QED
  BY <1>5, <1>6, <1>7, <1>8, <1>9 DEF RunIInv

\* close_instance on the client's side.
LEMMA ReleasedOf ==
  ASSUME inst \in Instances, NEW d, NEW i1, i1 = Released(d)
  PROVE  /\ i1 \in Instances /\ i1.st = "gone" /\ i1.closing = (d.q # <<>>) /\ i1.fd = (d.q # <<>>)
BY DEF Released, Instances

\* What was in the tunnel is lost: the chain up to the queue is left.
LEMMA ChainCut ==
  ASSUME NEW d \in Downlinks, NEW d1, d1 = [d EXCEPT !.net = <<>>]
  PROVE  /\ d1 \in Downlinks /\ d1.net = <<>> /\ d1.q = d.q /\ d1.sock = d.sock
         /\ d1.wnd = d.wnd /\ d1.pre = d.pre
         /\ Chain(d1) \in Seq(Signals) /\ Chain(d) = Chain(d1) \o d.net
<1>1. <<>> \in Seq(Streams \cup {"ok", "exit", "fin"})
  BY EmptySeq
<1>2. /\ d1 \in Downlinks /\ d1.net = <<>> /\ d1.q = d.q /\ d1.sock = d.sock
      /\ d1.wnd = d.wnd /\ d1.pre = d.pre
  BY <1>1 DEF Downlinks
<1> DEFINE x == d.sock \o Frames(d.q)
<1>3. x \in Seq(Signals)
  BY ChainOf, ConcatProperties
<1>4. Chain(d) = x \o d.net /\ Chain(d1) = x \o <<>>
  BY <1>2 DEF Chain
<1> HIDE DEF x
<1>5. x \o <<>> = x
  BY <1>3, ConcatEmptySeq
<1> QED
  BY <1>2, <1>3, <1>4, <1>5

\* RecvFin keeps the invariant (TcpConn::on_lwip_recv).
LEMMA RecvFinOK == ASSUME RunIInv, RecvFin PROVE RunIInv'
<1> DEFINE z == down.net
<1>1. /\ cl \in Clients /\ down \in Downlinks /\ inst \in Instances /\ end \in ExecEnds
      /\ prog \in Programs /\ z \in Seq(Signals) /\ Chain(down) \in Seq(Signals)
  BY Fields, ChainOf DEF RunIInv
<1>2. /\ inst.st = "open" /\ z # <<>> /\ Head(z) = "fin" /\ down' = [down EXCEPT !.net = <<>>]
      /\ inst' = Released(down) /\ UNCHANGED <<pty, cl, up, end, prog, orphan, faults>>
  BY DEF RecvFin
<1>3. /\ down' \in Downlinks /\ down'.net = <<>> /\ down'.q = down.q /\ down'.sock = down.sock
      /\ down'.wnd = down.wnd /\ down'.pre = down.pre
      /\ Chain(down') \in Seq(Signals) /\ Chain(down) = Chain(down') \o z
  BY <1>1, <1>2, ChainCut
<1>4. /\ inst' \in Instances /\ inst'.st = "gone" /\ inst'.closing = (down.q # <<>>)
      /\ inst'.fd = (down.q # <<>>)
  BY <1>1, <1>2, ReleasedOf
<1>5. cl.st # "done" => ~end.open
  <2>1. Has(z, "fin")
    <3> HIDE DEF z
    <3> QED
      BY <1>1, <1>2, HasTail
  <2>2. Has(Chain(down), "fin")
    <3> DEFINE a == Chain(down')
    <3> HIDE DEF a, z
    <3>1. a \in Seq(Signals) /\ Chain(down) = a \o z
      BY <1>3 DEF a
    <3> QED
      BY <1>1, <2>1, <3>1, HasPrefix
  <2> QED
    BY <2>2 DEF RunIInv, Delivery
<1>6. RunTypeOK' /\ Bounded'
  BY <1>2, <1>3, <1>4 DEF RunIInv, RunTypeOK, Bounded
<1>7. InstOK'
  <2>1. Len(down'.net) = 0
    BY <1>3
  <2> QED
    BY <1>2, <1>3, <1>4, <1>5, <2>1 DEF RunIInv, InstOK
<1>8. UpWindow(end, up.wnd)' /\ DownWindow(down, inst.st)' /\ ProgOK' /\ StatusOK'
  BY <1>2, <1>3 DEF RunIInv, UpWindow, DownWindow, ProgOK, StatusOK
<1>9. EofOK' /\ InputOK'
  BY <1>2, <1>4, InputKept DEF RunIInv
<1>10. Delivery(Chain(down), cl, end, prog)'
  <2> DEFINE a == Chain(down')
  <2>1. a \in Seq(Signals) /\ Delivery(a \o z, cl, end, prog)
    BY <1>3 DEF RunIInv
  <2> HIDE DEF a, z
  <2>2. Delivery(a, cl, end, prog)
    BY <1>1, <1>5, <2>1, DeliveryCut
  <2> QED
    BY <1>2, <2>2 DEF a
<1> QED
  BY <1>6, <1>7, <1>8, <1>9, <1>10 DEF RunIInv

\* ClientTooSlow keeps the invariant (Daemon::tick).
LEMMA ClientTooSlowOK == ASSUME RunIInv, ClientTooSlow PROVE RunIInv'
<1>1. /\ cl \in Clients /\ down \in Downlinks /\ inst \in Instances /\ end \in ExecEnds
      /\ prog \in Programs
  BY Fields DEF RunIInv
<1>2. /\ inst.closing /\ inst' = [inst EXCEPT !.closing = FALSE, !.fd = FALSE]
      /\ down' = [down EXCEPT !.q = <<>>] /\ UNCHANGED <<pty, cl, up, end, prog, orphan, faults>>
  BY DEF ClientTooSlow
<1>3. inst.st = "gone"
  BY <1>2 DEF RunIInv, InstOK
<1>4. inst' \in Instances /\ inst'.st = "gone"
  BY <1>1, <1>2, <1>3 DEF Instances
<1>5. /\ down' \in Downlinks /\ down'.net = down.net /\ down'.q = <<>> /\ down'.sock = down.sock
  <2>1. <<>> \in Seq(Chunks)
    BY EmptySeq
  <2> QED
    BY <1>1, <1>2, <2>1 DEF Downlinks
<1>6. RunTypeOK' /\ Bounded'
  BY <1>2, <1>4, <1>5 DEF RunIInv, RunTypeOK, Bounded
<1>7. InstOK'
  BY <1>2, <1>3, <1>4, <1>5 DEF RunIInv, InstOK
<1>8. UpWindow(end, up.wnd)' /\ DownWindow(down, inst.st)' /\ ProgOK' /\ StatusOK'
  BY <1>2, <1>4, <1>5 DEF RunIInv, UpWindow, DownWindow, ProgOK, StatusOK
<1>9. EofOK' /\ InputOK'
  BY <1>2, <1>4, InputKept DEF RunIInv
<1>10. Delivery(Chain(down), cl, end, prog)'
  <2> SUFFICES ASSUME cl.st # "done" PROVE Delivery(Chain(down'), cl, end, prog)
    BY <1>2 DEF Delivery
  <2>1. down.net = <<>> /\ ~end.open
    BY <1>3 DEF RunIInv, InstOK
  <2> DEFINE a == down.sock
             b == Frames(down.q)
  <2>2. a \in Seq(Signals) /\ b \in Seq(Signals)
    BY <1>1, ChainOf
  <2>3. Frames(<<>>) = <<>>
    BY DEF Frames
  <2>4. Chain(down) = (a \o b) \o <<>> /\ Chain(down') = (a \o <<>>) \o <<>>
    BY <1>5, <2>1, <2>3 DEF Chain
  <2> HIDE DEF a, b
  <2> DEFINE c == a \o b
  <2>5. c \in Seq(Signals)
    BY <2>2, ConcatProperties
  <2> HIDE DEF c
  <2>6. c \o <<>> = c /\ a \o <<>> = a
    BY <2>2, <2>5, ConcatEmptySeq
  <2>7. Delivery(a \o b, cl, end, prog) /\ Chain(down') = a
    BY <2>4, <2>6 DEF RunIInv, c
  <2>8. Delivery(a, cl, end, prog)
    BY <1>1, <2>1, <2>2, <2>7, DeliveryCut
  <2> QED
    BY <2>7, <2>8
<1> QED
  BY <1>6, <1>7, <1>8, <1>9, <1>10 DEF RunIInv

\* Resume keeps the invariant (Daemon::bind_end).
LEMMA ResumeOK == ASSUME RunIInv, Resume PROVE RunIInv'
<1>1. inst \in Instances
  BY Fields DEF RunIInv
<1>2. inst.st = "open" /\ UNCHANGED <<pty, cl, up, down, end, prog, orphan, faults>>
      /\ inst' = [inst EXCEPT !.watch = TRUE]
  BY DEF Resume, Resumed
<1>3. inst' \in Instances /\ inst'.st = inst.st /\ inst'.fd = inst.fd
      /\ inst'.closing = inst.closing
  BY <1>1, <1>2 DEF Instances
<1>4. RunTypeOK' /\ Bounded' /\ InstOK'
  BY <1>2, <1>3 DEF RunIInv, RunTypeOK, Bounded, InstOK
<1>5. UpWindow(end, up.wnd)' /\ DownWindow(down, inst.st)' /\ ProgOK' /\ StatusOK'
  BY <1>2, <1>3 DEF RunIInv, UpWindow, DownWindow, ProgOK, StatusOK
<1>6. EofOK' /\ InputOK'
  BY <1>2, <1>3, InputKept DEF RunIInv
<1>7. Delivery(Chain(down), cl, end, prog)'
  BY <1>2, DeliveryMoved DEF RunIInv
<1> QED
  BY <1>4, <1>5, <1>6, <1>7 DEF RunIInv

\* CfdReady keeps the invariant (Daemon::watch_cfd).
LEMMA CfdReadyOK == ASSUME RunIInv, CfdReady PROVE RunIInv'
<1>1. /\ cl \in Clients /\ up \in Uplinks /\ down \in Downlinks /\ inst \in Instances
      /\ end \in ExecEnds /\ prog \in Programs
  BY Fields DEF RunIInv
<1>2. inst.st = "open" /\ UNCHANGED <<pty, cl, end, prog, orphan, faults>>
  BY DEF CfdReady
<1>3. CASE inst' = [inst EXCEPT !.watch = FALSE] /\ UNCHANGED <<up, down>>
  <2>1. inst' \in Instances /\ inst'.st = inst.st /\ inst'.fd = inst.fd
        /\ inst'.closing = inst.closing
    BY <1>1, <1>3 DEF Instances
  <2>2. RunTypeOK' /\ Bounded' /\ InstOK'
    BY <1>2, <1>3, <2>1 DEF RunIInv, RunTypeOK, Bounded, InstOK
  <2>3. UpWindow(end, up.wnd)' /\ DownWindow(down, inst.st)' /\ ProgOK' /\ StatusOK'
    BY <1>2, <1>3, <2>1 DEF RunIInv, UpWindow, DownWindow, ProgOK, StatusOK
  <2>4. EofOK' /\ InputOK'
    BY <1>2, <1>3, <2>1, InputKept DEF RunIInv
  <2>5. Delivery(Chain(down), cl, end, prog)'
    BY <1>2, <1>3, DeliveryMoved DEF RunIInv
  <2> QED
    BY <2>2, <2>3, <2>4, <2>5 DEF RunIInv
<1>4. CASE /\ up.sock # <<>> /\ UNCHANGED <<inst, down>>
           /\ up' = [up EXCEPT !.sock = Tail(@), !.net = Append(@, Head(up.sock))]
  <2> DEFINE a == up.net
             b == up.sock
             T == {"data", "eof", "fin"}
  <2>1. a \in Seq(T) /\ b \in Seq(T) /\ b \in Seq({"data", "eof"}) /\ b # <<>>
    BY <1>1, <1>4, FlowParts
  <2>2. Tail(b) \in Seq({"data", "eof"}) /\ Head(b) \in {"data", "eof"}
    <3> HIDE DEF b
    <3> QED
      BY <2>1, HeadAndTail
  <2>3. Append(a, Head(b)) \in Seq(T)
    <3>1. Head(b) \in T
      BY <2>2
    <3> HIDE DEF a, b, T
    <3> QED
      BY <2>1, <3>1, AppendProperties
  <2>4. up' \in Uplinks /\ up'.net = Append(a, Head(b)) /\ up'.sock = Tail(b) /\ up'.wnd = up.wnd
    BY <1>1, <1>4, <2>2, <2>3 DEF Uplinks
  <2>5. Flow(up') = Flow(up)
    <3>1. Append(a, Head(b)) \o Tail(b) = a \o b
      <4> HIDE DEF a, b, T
      <4> QED
        BY <2>1, JoinMove
    <3> QED
      BY <2>4, <3>1 DEF Flow
  <2>6. Has(up'.net, "fin") => Has(up.net, "fin")
    <3> DEFINE m == Head(b)
    <3>1. m \in T /\ m # "fin"
      BY <2>2
    <3>2. Has(Append(a, m), "fin") => Has(a, "fin")
      <4> HIDE DEF a, m, T
      <4> QED
        BY <2>1, <3>1, HasAppend
    <3> QED
      BY <2>4, <3>2
  <2>7. RunTypeOK' /\ Bounded' /\ InstOK'
    BY <1>2, <1>4, <2>4, <2>6 DEF RunIInv, RunTypeOK, Bounded, InstOK
  <2>8. UpWindow(end, up.wnd)' /\ DownWindow(down, inst.st)' /\ ProgOK' /\ StatusOK'
    BY <1>2, <1>4, <2>4 DEF RunIInv, UpWindow, DownWindow, ProgOK, StatusOK
  <2>9. EofOK' /\ InputOK'
    BY <1>2, <1>4, <2>5, InputKept DEF RunIInv
  <2>10. Delivery(Chain(down), cl, end, prog)'
    BY <1>2, <1>4, DeliveryMoved DEF RunIInv
  <2> QED
    BY <2>7, <2>8, <2>9, <2>10 DEF RunIInv
<1>5. CASE /\ up.sock = <<>> /\ cl.st = "done" /\ inst' = Released(down)
           /\ up' = [up EXCEPT !.net = Append(@, "fin")] /\ UNCHANGED down
  <2> DEFINE a == up.net
             T == {"data", "eof", "fin"}
  <2>1. a \in Seq(T) /\ "fin" \in T
    BY <1>1, FlowParts
  <2>2. Append(a, "fin") \in Seq(T)
    <3> HIDE DEF a, T
    <3> QED
      BY <2>1, AppendProperties
  <2>3. up' \in Uplinks /\ up'.net = Append(a, "fin") /\ up'.sock = <<>> /\ up'.wnd = up.wnd
    BY <1>1, <1>5, <2>2 DEF Uplinks
  <2>4. Flow(up) = a /\ Flow(up') = Append(a, "fin")
    <3> DEFINE b == Append(a, "fin")
    <3>1. a \o <<>> = a /\ b \o <<>> = b
      <4> HIDE DEF a, b, T
      <4> QED
        BY <2>1, <2>2, ConcatEmptySeq DEF b
    <3> QED
      BY <1>5, <2>3, <3>1 DEF Flow
  <2>5. /\ inst' \in Instances /\ inst'.st = "gone" /\ inst'.closing = (down.q # <<>>)
        /\ inst'.fd = (down.q # <<>>)
    BY <1>1, <1>5, ReleasedOf
  <2>6. RunTypeOK' /\ Bounded'
    BY <1>2, <1>5, <2>3, <2>5 DEF RunIInv, RunTypeOK, Bounded
  <2>7. InstOK'
    BY <1>2, <1>5, <2>5 DEF RunIInv, InstOK
  <2>8. UpWindow(end, up.wnd)' /\ DownWindow(down, inst.st)' /\ ProgOK' /\ StatusOK'
    BY <1>2, <1>5, <2>3 DEF RunIInv, UpWindow, DownWindow, ProgOK, StatusOK
  <2>9. EofOK'
    <3> SUFFICES ASSUME end.open
                 PROVE  Upstream(Append(a, "fin"), cl, end.eof) /\ Keystroke(end, prog.pin)
      BY <1>2, <2>4 DEF EofOK
    <3>1. Upstream(a, cl, end.eof) /\ Keystroke(end, prog.pin) /\ end.eof \in BOOLEAN
      BY <1>1, <2>4 DEF RunIInv, EofOK, ExecEnds
    <3> HIDE DEF a
    <3>2. Upstream(Append(a, "fin"), cl, end.eof)
      BY <2>1, <3>1, UpstreamFin
    <3> QED
      BY <3>1, <3>2
  <2>10. InputOK'
    <3> DEFINE D == {"data"}
    <3>1. "fin" \notin D /\ CountIn(a, D) \in Nat
      BY <2>1, CountType
    <3>2. CountIn(Append(a, "fin"), D) = CountIn(a, D) + (IF "fin" \in D THEN 1 ELSE 0)
      <4> HIDE DEF a, D, T
      <4> QED
        BY <2>1, CountAppend
    <3>3. CountIn(Flow(up'), {"data"}) = CountIn(Flow(up), {"data"})
      BY <2>4, <3>1, <3>2
    <3> HIDE DEF D
    <3> QED
      BY <1>2, <3>3 DEF RunIInv, InputOK, Supplied
  <2>11. Delivery(Chain(down), cl, end, prog)'
    BY <1>2, <1>5, DeliveryMoved DEF RunIInv
  <2> QED
    BY <2>6, <2>7, <2>8, <2>9, <2>10, <2>11 DEF RunIInv
<1> QED
  BY <1>3, <1>4, <1>5 DEF CfdReady

\* Everybody is counted.
LEMMA CountAll ==
  ASSUME NEW q, Len(q) \in Nat, NEW S, \A i \in 1 .. Len(q) : q[i] \in S
  PROVE  CountIn(q, S) = Len(q)
<1>1. {i \in 1 .. Len(q) : q[i] \in S} = 1 .. Len(q)
  OBVIOUS
<1> DEFINE m == Len(q)
<1>2. m \in Nat
  OBVIOUS
<1> HIDE DEF m
<1>3. Cardinality(1 .. m) = m
  BY <1>2, FS_Interval
<1> QED
  BY <1>1, <1>3 DEF CountIn, m

\* OpenOk keeps the invariant (Daemon::on_tunnel_data).
LEMMA OpenOkOK ==
  ASSUME RunIInv, NEW n \in 0 .. Len(down.net) - 1, OpenOk(n)
  PROVE  RunIInv'
<1> DEFINE z == down.net
           Z == Streams \cup {"ok", "exit", "fin"}
           rest == SubSeq(z, 2, n + 1)
           tail == SubSeq(z, n + 2, Len(z))
           r == [frame |-> "ready", acc |-> FALSE]
           c == [i \in 1 .. n |-> Chunk(rest[i])]
           q == <<r>> \o c
           d == [down EXCEPT !.net = tail, !.q = q, !.pre = n]
<1>1. /\ cl \in Clients /\ down \in Downlinks /\ inst \in Instances /\ end \in ExecEnds
      /\ prog \in Programs /\ z \in Seq(Z) /\ Len(z) \in Nat /\ Window \in Nat
  BY Fields, ExecAssumption, LenProperties DEF RunIInv
<1>2. /\ inst.st = "dial" /\ z # <<>> /\ Head(z) = "ok" /\ \A i \in 1 .. n : rest[i] # "fin"
      /\ down' = Flushed(d) /\ inst' = [inst EXCEPT !.st = "open", !.watch = TRUE]
      /\ UNCHANGED <<pty, cl, up, end, prog, orphan, faults>>
  BY DEF OpenOk
<1>3. /\ down.sock = <<>> /\ down.q = <<>> /\ down.wnd = Window /\ down.pre = 0 /\ cl.got = 0
      /\ \A i \in 1 .. Len(z) : z[i] = "ok" => i = 1
      /\ inst.fd /\ ~inst.closing
  BY <1>2 DEF RunIInv, InstOK
<1>4. n \in Nat /\ n + 1 <= Len(z) /\ \A i \in 1 .. Len(z) : z[i] \in Z
  BY <1>1, ElementOfSeq
<1>5. /\ \A i \in 1 .. n : rest[i] = z[i + 1] /\ rest[i] \in Streams \cup {"exit"}
  <2>1. \A i \in 2 .. n + 1 : z[i] \in Z
    BY <1>1, <1>4
  <2> HIDE DEF z, Z
  <2>2. \A i \in 1 .. n + 1 - 2 + 1 : SubSeq(z, 2, n + 1)[i] = z[2 + i - 1]
    BY <1>1, <1>4, <2>1, SubSeqProperties
  <2>3. ASSUME NEW i \in 1 .. n PROVE rest[i] = z[i + 1] /\ i + 1 \in 1 .. Len(z) /\ i + 1 # 1
    <3>1. i \in 1 .. n + 1 - 2 + 1 /\ 2 + i - 1 = i + 1
      BY <1>4
    <3> QED
      BY <1>1, <1>4, <2>2, <3>1
  <2>4. ASSUME NEW i \in 1 .. n PROVE rest[i] \in Streams \cup {"exit"}
    <3>1. rest[i] \in Z /\ rest[i] # "ok" /\ rest[i] # "fin"
      BY <1>2, <1>3, <1>4, <2>3
    <3> QED
      BY <3>1 DEF Z
  <2> QED
    BY <2>3, <2>4
<1>6. /\ tail \in Seq(Z) /\ Len(tail) = Len(z) - (n + 1)
      /\ \A i \in 1 .. Len(z) - (n + 1) : tail[i] = z[n + 1 + i]
  <2> DEFINE m == n + 1
             b == SubSeq(z, m + 1, Len(z))
  <2>1. m \in 0 .. Len(z)
    BY <1>1, <1>4
  <2>2. /\ b \in Seq(Z) /\ Len(b) = Len(z) - m /\ \A i \in 1 .. Len(z) - m : b[i] = z[m + i]
    <3> HIDE DEF z, Z, m
    <3> QED
      BY <1>1, <2>1, Parts
  <2>3. m + 1 = n + 2
    BY <1>4
  <2> HIDE DEF z, Z
  <2> QED
    BY <2>2, <2>3
<1> HIDE DEF tail, rest, Z
<1>7. /\ c \in Seq(Chunks) /\ Len(c) = n
      /\ \A i \in 1 .. n : c[i].frame = z[i + 1] /\ c[i].acc = TRUE
  <2>1. ASSUME NEW i \in 1 .. n
        PROVE  Chunk(rest[i]) \in Chunks /\ Chunk(rest[i]).frame = z[i + 1]
               /\ Chunk(rest[i]).acc = TRUE
    BY <1>5 DEF Chunk, Chunks
  <2>2. c \in [1 .. n -> Chunks]
    BY <2>1
  <2>3. c \in Seq(Chunks)
    BY <1>4, <2>2, SeqDef
  <2>4. DOMAIN c = 1 .. n /\ DOMAIN c = 1 .. Len(c) /\ Len(c) \in Nat
    <3>1. DOMAIN c = 1 .. n
      OBVIOUS
    <3> HIDE DEF c
    <3> QED
      BY <2>3, <3>1, LenProperties
  <2>5. \A i \in 1 .. n : c[i] = Chunk(rest[i])
    OBVIOUS
  <2> HIDE DEF c
  <2>6. Len(c) = n
    BY <1>4, <2>4
  <2> QED
    BY <2>1, <2>3, <2>5, <2>6
<1>8. r \in Chunks /\ <<r>> \in Seq(Chunks) /\ Len(<<r>>) = 1 /\ <<r>>[1] = r
      /\ r.frame = "ready" /\ r.acc = FALSE
  BY DEF Chunks
<1> HIDE DEF c, r
<1>9. /\ q \in Seq(Chunks) /\ Len(q) = n + 1
      /\ \A i \in 1 .. n + 1 : q[i] = IF i <= 1 THEN <<r>>[i] ELSE c[i - 1]
  <2> DEFINE s == <<r>>
  <2>1. s \in Seq(Chunks) /\ Len(s) = 1
    BY <1>8
  <2>4. c \in Seq(Chunks)
    BY <1>7
  <2> HIDE DEF s
  <2>2. /\ s \o c \in Seq(Chunks) /\ Len(s \o c) = Len(s) + Len(c)
        /\ \A i \in 1 .. Len(s) + Len(c) :
             (s \o c)[i] = IF i <= Len(s) THEN s[i] ELSE c[i - Len(s)]
    BY <2>1, <2>4, ConcatProperties
  <2>3. Len(s) + Len(c) = n + 1
    BY <1>4, <1>7, <2>1
  <2> QED
    BY <2>1, <2>2, <2>3 DEF s
<1>10. Accounted(q) = n
  <2>1. Accounted(q) = Accounted(<<r>>) + Accounted(c)
    BY <1>7, <1>8, AccountedParts
  <2>2. Accounted(<<r>>) = 0
    <3>1. r \notin AccountedChunks
      BY <1>8 DEF AccountedChunks
    <3>2. CountIn(<<r>>, AccountedChunks) = 0
      BY <3>1, CountOne
    <3> QED
      BY <1>8, <3>2, AccountedIsCount
  <2>3. Accounted(c) = n
    <3>1. \A i \in 1 .. Len(c) : c[i] \in Chunks
      BY <1>7, ElementOfSeq
    <3>2. \A i \in 1 .. Len(c) : c[i] \in AccountedChunks
      BY <1>7, <3>1 DEF Chunks, AccountedChunks
    <3>3. CountIn(c, AccountedChunks) = Len(c)
      BY <1>4, <1>7, <3>2, CountAll
    <3> QED
      BY <1>7, <3>3, AccountedIsCount
  <2> QED
    BY <1>4, <2>1, <2>2, <2>3
<1> HIDE DEF q
<1>11. d \in Downlinks /\ d.net = tail /\ d.q = q /\ d.pre = n /\ d.sock = <<>> /\ d.wnd = Window
  <2>1. tail \in Seq(Streams \cup {"ok", "exit", "fin"})
    BY <1>6 DEF Z
  <2> QED
    BY <1>1, <1>3, <1>4, <1>9, <2>1 DEF Downlinks
<1> HIDE DEF d
<1>12. /\ Chain(down) \in Seq(Signals) /\ Chain(d) \in Seq(Signals) /\ Chain(down) = z
       /\ Len(Chain(d)) = Len(z) /\ Chain(d)[1] = "ready"
       /\ \A i \in 2 .. Len(z) : Chain(d)[i] = z[i]
  <2> DEFINE y == Frames(q)
  <2>1. /\ y \in Seq(Signals) /\ Len(y) = n + 1 /\ tail \in Seq(Signals) /\ z \in Seq(Signals)
        /\ Chain(down) \in Seq(Signals) /\ Chain(d) \in Seq(Signals)
    BY <1>1, <1>9, <1>11, ChainOf
  <2>2. y[1] = "ready" /\ \A i \in 2 .. n + 1 : y[i] = z[i]
    <3>1. \A i \in 1 .. n + 1 : y[i] = q[i].frame
      BY <1>9 DEF Frames
    <3>2. 1 \in 1 .. n + 1 /\ 1 <= 1
      BY <1>4
    <3>3. y[1] = "ready"
      BY <1>8, <1>9, <3>1, <3>2
    <3>4. ASSUME NEW i \in 2 .. n + 1 PROVE y[i] = z[i]
      <4>1. i \in 1 .. n + 1 /\ ~(i <= 1) /\ i - 1 \in 1 .. n /\ (i - 1) + 1 = i
        BY <1>4
      <4>2. y[i] = c[i - 1].frame
        BY <1>9, <3>1, <4>1
      <4> HIDE DEF y
      <4> QED
        BY <1>7, <4>1, <4>2
    <3> QED
      BY <3>3, <3>4
  <2>3. Frames(<<>>) = <<>>
    BY DEF Frames
  <2> HIDE DEF y
  <2>4. <<>> \o y = y /\ <<>> \o <<>> = <<>> /\ <<>> \o z = z
    <3> HIDE DEF z
    <3>1. <<>> \in Seq(Signals)
      BY EmptySeq
    <3> QED
      BY <2>1, <3>1, ConcatEmptySeq
  <2>5. Chain(down) = z /\ Chain(d) = y \o tail
    BY <1>3, <1>11, <2>3, <2>4 DEF Chain, y
  <2>6. /\ Len(y \o tail) = Len(y) + Len(tail)
        /\ \A i \in 1 .. Len(y) + Len(tail) :
             (y \o tail)[i] = IF i <= Len(y) THEN y[i] ELSE tail[i - Len(y)]
    BY <2>1, ConcatProperties
  <2> DEFINE l == Len(z)
  <2>7. l \in Nat /\ n + 1 <= l /\ Len(tail) = l - (n + 1)
    BY <1>1, <1>4, <1>6
  <2>8. \A i \in 1 .. l - (n + 1) : tail[i] = z[n + 1 + i]
    BY <1>6
  <2> HIDE DEF l, z
  <2>9. Len(y \o tail) = l
    BY <1>4, <2>1, <2>6, <2>7
  <2>10. (y \o tail)[1] = "ready"
    <3>1. 1 \in 1 .. Len(y) + Len(tail) /\ 1 <= Len(y)
      BY <1>4, <2>1, <2>7
    <3> QED
      BY <2>2, <2>6, <3>1
  <2>11. ASSUME NEW i \in 2 .. l PROVE (y \o tail)[i] = z[i]
    <3>1. i \in 1 .. Len(y) + Len(tail)
      BY <1>4, <2>1, <2>7
    <3>2. CASE i <= n + 1
      <4>1. i \in 2 .. n + 1
        BY <1>4, <2>7, <3>2
      <4> QED
        BY <2>1, <2>2, <2>6, <3>1, <3>2, <4>1
    <3>3. CASE ~(i <= n + 1)
      <4>1. i - (n + 1) \in 1 .. l - (n + 1) /\ n + 1 + (i - (n + 1)) = i
        BY <1>4, <2>7, <3>3
      <4> QED
        BY <2>1, <2>6, <2>8, <3>1, <3>3, <4>1
    <3> QED
      BY <3>2, <3>3
  <2> QED
    BY <2>1, <2>5, <2>9, <2>10, <2>11 DEF l
<1>13. /\ down' \in Downlinks /\ down'.net = tail /\ Len(down'.sock) <= SockCap
       /\ down'.wnd + Accounted(down'.q) = Window + down'.pre /\ down'.pre <= Accounted(down'.q)
       /\ cl.st # "done" => Chain(down') = Chain(d)
  <2>1. Len(d.sock) <= SockCap /\ d.wnd + Accounted(d.q) = Window + d.pre
        /\ d.pre <= Accounted(d.q)
    BY <1>1, <1>4, <1>10, <1>11, ExecAssumption
  <2> QED
    BY <1>2, <1>11, <2>1, FlushedOf
<1>14. inst' \in Instances /\ inst'.st = "open" /\ inst'.fd /\ ~inst'.closing
  BY <1>1, <1>2, <1>3 DEF Instances
<1>15. RunTypeOK' /\ Bounded'
  BY <1>2, <1>13, <1>14 DEF RunIInv, RunTypeOK, Bounded
<1>16. InstOK'
  <2>1. \A i \in 1 .. Len(down'.net) : down'.net[i] # "ok"
    <3> SUFFICES ASSUME NEW i \in 1 .. Len(tail) PROVE tail[i] # "ok"
      BY <1>13
    <3> DEFINE l == Len(z)
    <3>1. l \in Nat /\ n + 1 <= l /\ Len(tail) = l - (n + 1)
      BY <1>1, <1>4, <1>6
    <3>2. \A j \in 1 .. l - (n + 1) : tail[j] = z[n + 1 + j]
      BY <1>6
    <3>3. \A j \in 1 .. l : z[j] = "ok" => j = 1
      BY <1>3
    <3> HIDE DEF l, z
    <3>4. i \in 1 .. l - (n + 1) /\ n + 1 + i \in 1 .. l /\ n + 1 + i # 1
      BY <1>4, <3>1
    <3> QED
      BY <3>2, <3>3, <3>4
  <2> QED
    BY <1>2, <1>14, <2>1 DEF RunIInv, InstOK
<1>17. UpWindow(end, up.wnd)' /\ DownWindow(down, inst.st)' /\ ProgOK' /\ StatusOK'
  BY <1>2, <1>13 DEF RunIInv, UpWindow, DownWindow, ProgOK, StatusOK
<1>18. EofOK' /\ InputOK'
  BY <1>2, <1>14, InputKept DEF RunIInv
<1>19. Delivery(Chain(down), cl, end, prog)'
  <2> SUFFICES ASSUME cl.st # "done" PROVE Delivery(Chain(down'), cl, end, prog)
    BY <1>2 DEF Delivery
  <2> DEFINE a == Chain(down)
             b == Chain(d)
  <2>1. z[1] = "ok"
    <3> HIDE DEF z
    <3> QED
      BY <1>1, <1>2, HeadAndTail
  <2>2. /\ a \in Seq(Signals) /\ b \in Seq(Signals) /\ Len(b) = Len(a) /\ a[1] = "ok"
        /\ b[1] = "ready" /\ \A i \in 2 .. Len(a) : b[i] = a[i]
        /\ Delivery(a, cl, end, prog)
    BY <1>12, <2>1 DEF RunIInv
  <2> HIDE DEF a, b
  <2>3. Delivery(b, cl, end, prog)
    BY <1>1, <1>3, <2>2, DeliveryOpened
  <2> QED
    BY <1>13, <2>3 DEF b
<1> QED
  BY <1>15, <1>16, <1>17, <1>18, <1>19 DEF RunIInv

-----------------------------------------------------------------------------
(* The program *)

\* A step of the program that writes nothing, and that lets it read on with the same input or
\* takes all of it away.
LEMMA ProgKept ==
  ASSUME RunIInv, prog' \in Programs, orphan' \in Orphans,
         prog'.pipe = prog.pipe, prog'.wrote = prog.wrote,
         prog'.st # prog.st => prog'.st \in {"zombie", "reaped"} /\ prog.st # "none",
         end.reaped => prog'.st = prog.st,
         ~end.open /\ prog'.st \in {"run", "zombie"} => orphan'.on,
         prog'.pin = prog.pin \/ prog'.pin = <<>>,
         prog'.st = "run" /\ prog'.stdin =>
           /\ prog.st = "run" /\ prog.stdin /\ prog'.pin = prog.pin /\ prog'.read = prog.read
           /\ pty => prog'.writers = prog.writers,
         UNCHANGED <<pty, cl, up, down, inst, end, faults>>
  PROVE  RunIInv'
<1>1. /\ cl \in Clients /\ end \in ExecEnds /\ prog \in Programs /\ Chain(down) \in Seq(Signals)
  BY Fields DEF RunIInv
<1>2. RunTypeOK'
  BY DEF RunIInv, RunTypeOK
<1>3. Bounded'
  <2>1. Len(prog'.pin) <= PipeCap
    BY ExecAssumption DEF RunIInv, Bounded
  <2> QED
    BY <2>1 DEF RunIInv, Bounded
<1>4. InstOK' /\ UpWindow(end, up.wnd)' /\ DownWindow(down, inst.st)'
  BY DEF RunIInv, InstOK, UpWindow, DownWindow
<1>5. ProgOK'
  BY DEF RunIInv, ProgOK
<1>6. EofOK'
  <2> SUFFICES ASSUME end.open
               PROVE  Upstream(Flow(up), cl, end.eof) /\ Keystroke(end, prog'.pin)
    BY DEF EofOK
  <2>1. Upstream(Flow(up), cl, end.eof) /\ Keystroke(end, prog.pin)
    BY DEF RunIInv, EofOK
  <2>2. CASE prog'.pin = prog.pin
    BY <2>1, <2>2
  <2>3. CASE prog'.pin = <<>>
    <3>1. Len(prog'.pin) = 0
      BY <2>3
    <3> QED
      BY <2>1, <3>1 DEF Keystroke
  <2> QED
    BY <2>2, <2>3
<1>7. InputOK'
  <2> SUFFICES ASSUME end.open, prog'.st = "run", prog'.stdin
               PROVE  (~end.in => end.eof) /\ Supplied(Flow(up), cl, end, prog', inst.st)
    BY DEF InputOK
  <2>1. /\ prog.st = "run" /\ prog.stdin /\ prog'.pin = prog.pin /\ prog'.read = prog.read
    OBVIOUS
  <2>2. (~end.in => end.eof) /\ Supplied(Flow(up), cl, end, prog, inst.st)
    BY <2>1 DEF RunIInv, InputOK
  <2> QED
    BY <2>1, <2>2 DEF Supplied
<1>8. Delivery(Chain(down), cl, end, prog)'
  <2>1. Delivery(Chain(down), cl, end, prog)
    BY DEF RunIInv
  <2>2. Delivery(Chain(down), cl, end, prog')
    BY <1>1, <2>1 DEF Delivery
  <2> QED
    BY <2>2
<1>9. StatusOK'
  BY DEF RunIInv, StatusOK
<1> QED
  BY <1>2, <1>3, <1>4, <1>5, <1>6, <1>7, <1>8, <1>9 DEF RunIInv

\* Facts about a program that runs.
LEMMA Running ==
  ASSUME RunIInv, prog.st = "run"
  PROVE  ~end.reaped /\ (~end.open => orphan.on) /\ prog \in Programs /\ orphan \in Orphans
<1>1. prog \in Programs /\ orphan \in Orphans
  BY Fields DEF RunIInv
<1> QED
  BY <1>1 DEF RunIInv, ProgOK

\* The program ends.
LEMMA EndsOK ==
  ASSUME RunIInv, prog.st = "run", NEW w \in SUBSET Streams, prog' = Ends(prog, w),
         UNCHANGED <<pty, cl, up, down, inst, end, orphan, faults>>
  PROVE  RunIInv'
<1>1. ~end.reaped /\ (~end.open => orphan.on) /\ prog \in Programs /\ orphan \in Orphans
  BY Running
<1>2. <<>> \in Seq({"data", "veof"})
  BY EmptySeq
<1>3. /\ prog' \in Programs /\ prog'.st = "zombie" /\ prog'.pin = <<>>
      /\ prog'.pipe = prog.pipe /\ prog'.wrote = prog.wrote
  BY <1>1, <1>2 DEF Ends, Programs
<1> QED
  BY <1>1, <1>3, ProgKept

\* ProgDone keeps the invariant (the program ends with its input).
LEMMA ProgDoneOK == ASSUME RunIInv, ProgDone PROVE RunIInv'
<1>1. PICK kept \in {{}, prog.writers} : prog' = Ends(prog, kept)
  BY DEF ProgDone
<1>2. kept \in SUBSET Streams
  BY Fields DEF RunIInv, Programs
<1> QED
  BY <1>1, <1>2, EndsOK DEF ProgDone

\* ProgQuit keeps the invariant (the program ends).
LEMMA ProgQuitOK == ASSUME RunIInv, ProgQuit PROVE RunIInv'
BY EndsOK DEF ProgQuit

\* ProgCloseStdin keeps the invariant (the program closes its standard input).
LEMMA ProgCloseStdinOK == ASSUME RunIInv, ProgCloseStdin PROVE RunIInv'
<1>1. /\ prog.st = "run" /\ prog' = [prog EXCEPT !.stdin = FALSE, !.pin = <<>>]
      /\ UNCHANGED <<pty, cl, up, down, inst, end, orphan, faults>>
  BY DEF ProgCloseStdin
<1>2. ~end.reaped /\ (~end.open => orphan.on) /\ prog \in Programs /\ orphan \in Orphans
  BY <1>1, Running
<1>3. <<>> \in Seq({"data", "veof"})
  BY EmptySeq
<1>4. /\ prog' \in Programs /\ prog'.st = "run" /\ ~prog'.stdin /\ prog'.pin = <<>>
      /\ prog'.pipe = prog.pipe /\ prog'.wrote = prog.wrote
  BY <1>1, <1>2, <1>3 DEF Programs
<1> QED
  BY <1>1, <1>2, <1>4, ProgKept

\* ProgCloseOutput keeps the invariant (the program closes its output).
LEMMA ProgCloseOutputOK == ASSUME RunIInv, ProgCloseOutput PROVE RunIInv'
<1>1. /\ prog.st = "run"
      /\ prog' = [prog EXCEPT !.writers = {}, !.stdin = @ /\ ~pty, !.pin = IF pty THEN <<>> ELSE @]
      /\ UNCHANGED <<pty, cl, up, down, inst, end, orphan, faults>>
  BY DEF ProgCloseOutput
<1>2. ~end.reaped /\ (~end.open => orphan.on) /\ prog \in Programs /\ orphan \in Orphans
  BY <1>1, Running
<1>3. <<>> \in Seq({"data", "veof"})
  BY EmptySeq
<1>4. /\ prog' \in Programs /\ prog'.st = "run" /\ prog'.stdin = (prog.stdin /\ ~pty)
      /\ prog'.pin = (IF pty THEN <<>> ELSE prog.pin) /\ prog'.read = prog.read
      /\ prog'.pipe = prog.pipe /\ prog'.wrote = prog.wrote
  BY <1>1, <1>2, <1>3 DEF Programs
<1>5. CASE pty
  <2>1. prog'.pin = <<>> /\ ~prog'.stdin
    BY <1>4, <1>5
  <2> QED
    BY <1>1, <1>2, <1>4, <2>1, ProgKept
<1>6. CASE ~pty
  <2>1. prog'.pin = prog.pin /\ prog'.stdin = prog.stdin
    BY <1>2, <1>4, <1>6 DEF Programs
  <2> QED
    BY <1>1, <1>2, <1>4, <1>6, <2>1, ProgKept
<1> QED
  BY <1>5, <1>6

\* ChildEnds keeps the invariant (a child of the program ends).
LEMMA ChildEndsOK == ASSUME RunIInv, ChildEnds PROVE RunIInv'
<1>1. /\ prog.st \in {"zombie", "reaped"} /\ prog' = [prog EXCEPT !.writers = {}]
      /\ UNCHANGED <<pty, cl, up, down, inst, end, orphan, faults>>
  BY DEF ChildEnds
<1>2. prog \in Programs /\ orphan \in Orphans /\ (~end.open /\ prog.st = "zombie" => orphan.on)
  BY Fields DEF RunIInv, ProgOK
<1>3. /\ prog' \in Programs /\ prog'.st = prog.st /\ prog'.pin = prog.pin
      /\ prog'.pipe = prog.pipe /\ prog'.wrote = prog.wrote
  BY <1>1, <1>2 DEF Programs
<1> QED
  BY <1>1, <1>2, <1>3, ProgKept

\* ReapOrphans keeps the invariant (reap_orphans).
LEMMA ReapOrphansOK == ASSUME RunIInv, ReapOrphans PROVE RunIInv'
<1>1. orphan.on /\ UNCHANGED <<pty, cl, up, down, inst, end, faults>>
  BY DEF ReapOrphans
<1>2. prog \in Programs /\ orphan \in Orphans
      /\ (end.reaped => prog.st \in {"none", "reaped"})
  BY Fields DEF RunIInv, ProgOK
<1>3. NoOrphan \in Orphans
  BY ExecAssumption DEF NoOrphan, Orphans
<1>4. CASE /\ prog.st = "zombie" /\ orphan' = NoOrphan
           /\ prog' = [prog EXCEPT !.st = "reaped", !.writers = {}]
  <2>1. /\ prog' \in Programs /\ prog'.st = "reaped" /\ prog'.pin = prog.pin
        /\ prog'.pipe = prog.pipe /\ prog'.wrote = prog.wrote
    BY <1>2, <1>4 DEF Programs
  <2> QED
    BY <1>1, <1>2, <1>3, <1>4, <2>1, ProgKept
<1>5. CASE /\ prog.st = "run" /\ orphan.age < KillAfter /\ UNCHANGED prog
           /\ orphan' = [orphan EXCEPT !.age = @ + 1]
  <2>1. orphan.age + 1 \in 0 .. KillAfter
    BY <1>2, <1>5, ExecAssumption DEF Orphans
  <2>2. orphan' \in Orphans /\ orphan'.on
    BY <1>1, <1>2, <1>5, <2>1 DEF Orphans
  <2> QED
    BY <1>1, <1>2, <1>5, <2>2, ProgKept
<1>6. CASE /\ prog.st = "run" /\ orphan' = [orphan EXCEPT !.killed = TRUE]
           /\ prog' = [prog EXCEPT !.st = "zombie", !.writers = {}]
  <2>1. /\ prog' \in Programs /\ prog'.st = "zombie" /\ prog'.pin = prog.pin
        /\ prog'.pipe = prog.pipe /\ prog'.wrote = prog.wrote
        /\ orphan' \in Orphans /\ orphan'.on
    BY <1>1, <1>2, <1>6 DEF Programs, Orphans
  <2> QED
    BY <1>1, <1>2, <1>6, <2>1, ProgKept
<1> QED
  BY <1>4, <1>5, <1>6 DEF ReapOrphans

\* ProgRead keeps the invariant (the program reads its standard input).
LEMMA ProgReadOK == ASSUME RunIInv, ProgRead PROVE RunIInv'
<1> DEFINE a == prog.pin
           D == {"data"}
<1>1. /\ prog.st = "run" /\ prog.stdin /\ a # <<>> /\ Head(a) = "data"
      /\ UNCHANGED <<pty, cl, up, down, inst, end, orphan, faults>>
  BY DEF ProgRead
<1>2. /\ ~end.reaped /\ (~end.open => orphan.on) /\ prog \in Programs
      /\ cl \in Clients /\ end \in ExecEnds /\ Chain(down) \in Seq(Signals)
      /\ Flow(up) \in Seq({"data", "eof", "fin"})
  BY <1>1, Running, Fields DEF RunIInv
<1>3. PICK n \in Nat : prog' = [prog EXCEPT !.pin = Tail(@), !.owed = n, !.read = @ + 1]
  <2>1. PICK n \in IF prog.writers = {} THEN {0} ELSE Gains :
           prog' = [prog EXCEPT !.pin = Tail(@), !.owed = n, !.read = @ + 1]
    BY DEF ProgRead
  <2>2. n \in Nat
    BY ExecAssumption
  <2> QED
    BY <2>1, <2>2
<1>4. a \in Seq({"data", "veof"})
  BY <1>2 DEF Programs
<1>5. /\ Tail(a) \in Seq({"data", "veof"}) /\ Len(a) \in Nat \ {0} /\ Len(Tail(a)) = Len(a) - 1
      /\ \A i \in 1 .. Len(a) - 1 : Tail(a)[i] = a[i + 1]
      /\ CountIn(a, D) = (IF Head(a) \in D THEN 1 ELSE 0) + CountIn(Tail(a), D)
      /\ CountIn(Tail(a), D) \in Nat
  <2> HIDE DEF a, D
  <2>1. /\ Tail(a) \in Seq({"data", "veof"}) /\ Len(a) \in Nat \ {0} /\ Len(Tail(a)) = Len(a) - 1
        /\ \A i \in 1 .. Len(a) - 1 : Tail(a)[i] = a[i + 1]
    BY <1>1, <1>4, HeadAndTail
  <2>2. CountIn(a, D) = (IF Head(a) \in D THEN 1 ELSE 0) + CountIn(Tail(a), D)
    BY <1>1, <1>4, CountTail
  <2>3. CountIn(Tail(a), D) \in Nat
    BY <2>1, CountType
  <2> QED
    BY <2>1, <2>2, <2>3
<1>6. /\ prog' \in Programs /\ prog'.st = "run" /\ prog'.stdin /\ prog'.pin = Tail(a)
      /\ prog'.pipe = prog.pipe /\ prog'.wrote = prog.wrote /\ prog'.writers = prog.writers
      /\ prog'.read = prog.read + 1 /\ prog.read \in Nat
  <2>1. Tail(prog.pin) \in Seq({"data", "veof"})
    BY <1>5
  <2>2. prog.read \in Nat /\ prog.read + 1 \in Nat
    BY <1>2 DEF Programs
  <2>3. prog' = [prog EXCEPT !.pin = Tail(prog.pin), !.owed = n, !.read = prog.read + 1]
    BY <1>3
  <2> QED
    BY <1>1, <1>2, <2>1, <2>2, <2>3 DEF Programs
<1>7. RunTypeOK' /\ Bounded'
  <2>1. Len(a) <= PipeCap
    BY DEF RunIInv, Bounded
  <2>2. Len(prog'.pin) <= PipeCap
    <3> HIDE DEF a
    <3> QED
      BY <1>5, <1>6, <2>1, ExecAssumption
  <2> QED
    BY <1>1, <1>6, <2>2 DEF RunIInv, RunTypeOK, Bounded
<1>8. InstOK' /\ UpWindow(end, up.wnd)' /\ DownWindow(down, inst.st)'
  BY <1>1 DEF RunIInv, InstOK, UpWindow, DownWindow
<1>9. ProgOK' /\ StatusOK'
  BY <1>1, <1>2, <1>6 DEF RunIInv, ProgOK, StatusOK
<1>10. EofOK'
  <2> SUFFICES ASSUME end.open
               PROVE  Upstream(Flow(up), cl, end.eof) /\ Keystroke(end, Tail(a))
    BY <1>1, <1>6 DEF EofOK
  <2>1. Upstream(Flow(up), cl, end.eof) /\ Keystroke(end, a)
    BY DEF RunIInv, EofOK
  <2> HIDE DEF a
  <2>2. ASSUME NEW i \in 1 .. Len(Tail(a)), Tail(a)[i] = "veof"
        PROVE  i = Len(Tail(a)) /\ end.eof /\ end.real = 0 /\ end.synth = 0
    <3>1. i + 1 \in 1 .. Len(a) /\ a[i + 1] = "veof"
      BY <1>5, <2>2
    <3>6. \A j \in 1 .. Len(a) : a[j] = "veof" =>
            j = Len(a) /\ end.eof /\ end.real = 0 /\ end.synth = 0
      BY <2>1 DEF Keystroke
    <3>2. i + 1 = Len(a) /\ end.eof /\ end.real = 0 /\ end.synth = 0
      <4> DEFINE k == i + 1
      <4> HIDE DEF k
      <4>1. k \in 1 .. Len(a) /\ a[k] = "veof"
        BY <3>1 DEF k
      <4>2. k = Len(a) /\ end.eof /\ end.real = 0 /\ end.synth = 0
        BY <3>6, <4>1, ZenonT(30)
      <4> QED
        BY <4>2 DEF k
    <3> DEFINE l == Len(a)
               l1 == Len(Tail(a))
    <3>3. l \in Nat /\ l1 = l - 1 /\ i + 1 = l /\ i \in 1 .. l1
      BY <1>5, <3>2
    <3> HIDE DEF l, l1
    <3>5. i = l1
      BY <3>3
    <3>4. i = Len(Tail(a))
      BY <3>5 DEF l1
    <3> QED
      BY <3>2, <3>4
  <2> QED
    BY <2>1, <2>2 DEF Keystroke
<1>11. InputOK'
  <2> SUFFICES ASSUME end.open
               PROVE  (~end.in => end.eof) /\ Supplied(Flow(up), cl, end, prog', inst.st)
    BY <1>1 DEF InputOK
  <2>1. (~end.in => end.eof) /\ Supplied(Flow(up), cl, end, prog, inst.st)
    BY <1>1 DEF RunIInv, InputOK
  <2> DEFINE x == cl.left + Sending(cl) + CountIn(Flow(up), {"data"}) + end.real
             m == CountIn(a, D)
             m1 == CountIn(Tail(a), D)
             r == prog.read
  <2>2. x \in Nat
    <3>1. cl.left \in Nat /\ Sending(cl) \in Nat /\ end.real \in Nat
      BY <1>2 DEF Clients, ExecEnds, Sending
    <3>2. CountIn(Flow(up), {"data"}) \in Nat
      BY <1>2, CountType
    <3> QED
      BY <3>1, <3>2
  <2>3. m = 1 + m1 /\ m1 \in Nat /\ r \in Nat
    BY <1>1, <1>5, <1>6
  <2>4. x + m + r = x + m1 + (r + 1)
    <3> HIDE DEF x, m, m1, r
    <3> QED
      BY <2>2, <2>3
  <2>5. prog'.read = r + 1 /\ prog'.pin = Tail(a)
    BY <1>6
  <2> QED
    BY <2>1, <2>4, <2>5 DEF Supplied
<1>12. Delivery(Chain(down), cl, end, prog)'
  <2>1. Delivery(Chain(down), cl, end, prog')
    BY <1>6 DEF RunIInv, Delivery
  <2> QED
    BY <1>1, <2>1
<1> QED
  BY <1>7, <1>8, <1>9, <1>10, <1>11, <1>12 DEF RunIInv

\* ProgWrite keeps the invariant (the program writes to a pipe or terminal).
LEMMA ProgWriteOK == ASSUME RunIInv, NEW f \in Streams, ProgWrite(f) PROVE RunIInv'
<1>1. /\ prog.st = "run" /\ prog.owed > 0 /\ f \in end.fds
      /\ prog' = [prog EXCEPT !.pipe[f] = @ + 1, !.owed = @ - 1, !.wrote = @ + 1]
      /\ UNCHANGED <<pty, cl, up, down, inst, end, orphan, faults>>
  BY DEF ProgWrite
<1>2. /\ ~end.reaped /\ (~end.open => orphan.on) /\ prog \in Programs
      /\ cl \in Clients /\ end \in ExecEnds /\ Chain(down) \in Seq(Signals)
  BY <1>1, Running, Fields DEF RunIInv
<1>3. /\ prog.owed - 1 \in Nat /\ prog.wrote + 1 \in Nat /\ prog.wrote \in Nat
      /\ prog.pipe \in [Streams -> Nat] /\ [prog.pipe EXCEPT ![f] = @ + 1] \in [Streams -> Nat]
  BY <1>1, <1>2 DEF Programs
<1>4. /\ prog' \in Programs /\ prog'.st = "run" /\ prog'.stdin = prog.stdin
      /\ prog'.pin = prog.pin /\ prog'.read = prog.read /\ prog'.writers = prog.writers
      /\ prog'.pipe = [prog.pipe EXCEPT ![f] = @ + 1] /\ prog'.wrote = prog.wrote + 1
  BY <1>1, <1>2, <1>3 DEF Programs
<1>5. RunTypeOK' /\ Bounded'
  BY <1>1, <1>4 DEF RunIInv, RunTypeOK, Bounded
<1>6. InstOK' /\ UpWindow(end, up.wnd)' /\ DownWindow(down, inst.st)'
  BY <1>1 DEF RunIInv, InstOK, UpWindow, DownWindow
<1>7. ProgOK'
  <2>1. end.open => \A g \in Streams \ end.fds : prog'.pipe[g] = 0
    BY <1>1, <1>3, <1>4 DEF RunIInv, ProgOK
  <2> QED
    BY <1>1, <1>2, <1>4, <2>1 DEF RunIInv, ProgOK
<1>8. EofOK' /\ InputOK' /\ StatusOK'
  BY <1>1, <1>4 DEF RunIInv, EofOK, InputOK, Supplied, StatusOK
<1>9. Delivery(Chain(down), cl, end, prog)'
  <2>1. prog'.pipe["out"] + prog'.pipe["err"] + prog.wrote
          = prog.pipe["out"] + prog.pipe["err"] + prog'.wrote
    BY <1>3, <1>4 DEF Streams
  <2>2. Delivery(Chain(down), cl, end, prog)
    BY DEF RunIInv
  <2>3. Delivery(Chain(down), cl, end, prog')
    BY <1>2, <1>4, <2>1, <2>2, DeliveryKept
  <2> QED
    BY <1>1, <2>3
<1> QED
  BY <1>5, <1>6, <1>7, <1>8, <1>9 DEF RunIInv

-----------------------------------------------------------------------------
(* The end goes *)

\* ~ExecEnd.
LEMMA EndGoneOf ==
  ASSUME RunIInv, end.open, EndGone
  PROVE  /\ end' \in ExecEnds /\ ~end'.open /\ end'.reaped = end.reaped /\ end'.fds = {}
         /\ orphan' \in Orphans /\ prog' \in Programs
         /\ prog'.wrote = prog.wrote /\ prog'.pin = prog.pin
         /\ (prog'.st = "run" => prog.st = "run")
         /\ end'.reaped => prog'.st \in {"none", "reaped"}
         /\ prog'.st \in {"run", "zombie"} => orphan'.on
<1>1. end \in ExecEnds /\ prog \in Programs
  BY Fields DEF RunIInv
<1>2. end' \in ExecEnds /\ ~end'.open /\ end'.reaped = end.reaped /\ end'.fds = {}
  BY <1>1 DEF EndGone, ExecEnds
<1>3. end.reaped => prog.st \in {"none", "reaped"}
  BY DEF RunIInv, ProgOK
<1>4. orphan' = IF end.reaped \/ prog.st = "zombie" THEN NoOrphan ELSE [NoOrphan EXCEPT !.on = TRUE]
  BY DEF EndGone, Orphaned
<1>5. /\ NoOrphan \in Orphans /\ [NoOrphan EXCEPT !.on = TRUE] \in Orphans
      /\ [NoOrphan EXCEPT !.on = TRUE].on
  <2>1. 0 \in 0 .. KillAfter
    BY ExecAssumption
  <2>2. NoOrphan \in Orphans
    BY <2>1 DEF NoOrphan, Orphans
  <2> QED
    BY <2>2 DEF Orphans
<1>6. CASE end.reaped
  BY <1>1, <1>2, <1>3, <1>4, <1>5, <1>6 DEF EndGone
<1>7. CASE ~end.reaped /\ prog.st = "zombie"
  <2>1. prog' = [prog EXCEPT !.st = "reaped", !.writers = {}]
    BY <1>7 DEF EndGone
  <2>2. /\ prog' \in Programs /\ prog'.st = "reaped" /\ prog'.wrote = prog.wrote
        /\ prog'.pin = prog.pin
    BY <1>1, <2>1 DEF Programs
  <2> QED
    BY <1>2, <1>4, <1>5, <1>7, <2>2
<1>8. CASE ~end.reaped /\ prog.st # "zombie"
  <2>1. prog' \in {prog, [prog EXCEPT !.st = "zombie", !.writers = {}]}
    BY <1>8 DEF EndGone
  <2>2. /\ prog' \in Programs /\ prog'.wrote = prog.wrote /\ prog'.pin = prog.pin
        /\ prog'.st = "run" => prog.st = "run"
    BY <1>1, <2>1 DEF Programs
  <2>3. ~end'.reaped /\ orphan'.on /\ orphan' \in Orphans
    BY <1>2, <1>4, <1>5, <1>8
  <2> QED
    BY <1>2, <2>2, <2>3
<1> QED
  BY <1>6, <1>7, <1>8

\* Whatever ends it, nothing is promised about the input any more.
LEMMA NoEnd ==
  ASSUME RunIInv, ~end'.open, end'.fds = {}, prog' \in Programs,
         prog'.wrote = prog.wrote, prog'.pin = prog.pin, prog'.st = "run" => prog.st = "run",
         end'.reaped => prog'.st \in {"none", "reaped"},
         prog'.st \in {"run", "zombie"} => orphan'.on,
         cl' = cl
  PROVE  /\ UpWindow(end, up.wnd)' /\ ProgOK' /\ EofOK' /\ InputOK' /\ StatusOK'
         /\ Len(prog'.pin) <= PipeCap
<1>1. UpWindow(end, up.wnd)' /\ EofOK' /\ InputOK'
  BY DEF UpWindow, EofOK, InputOK
<1>2. ProgOK'
  BY DEF ProgOK
<1>3. StatusOK' /\ Len(prog'.pin) <= PipeCap
  BY DEF RunIInv, StatusOK, Bounded
<1> QED
  BY <1>1, <1>2, <1>3

\* A message follows all that is in the tunnel.
Sendable == Streams \cup {"exit", "fin"}

\* A frame that is sent joins the end of the chain.
LEMMA ChainAppend ==
  ASSUME NEW d \in Downlinks, NEW m \in Sendable,
         NEW d1, d1 = [d EXCEPT !.net = Append(@, m)]
  PROVE  /\ d1 \in Downlinks /\ d1.net = Append(d.net, m) /\ d1.q = d.q /\ d1.sock = d.sock
         /\ d1.wnd = d.wnd /\ d1.pre = d.pre /\ Chain(d1) = Append(Chain(d), m)
         /\ \A i \in 1 .. Len(d1.net) : d1.net[i] = "ok" => i \in 1 .. Len(d.net) /\ d.net[i] = "ok"
<1> DEFINE z == d.net
           Z == Streams \cup {"ok", "exit", "fin"}
<1>1. z \in Seq(Z) /\ m \in Z /\ m # "ok"
  BY DEF Downlinks, Streams, Sendable
<1>2. /\ Append(z, m) \in Seq(Z) /\ Len(z) \in Nat /\ Len(Append(z, m)) = Len(z) + 1
      /\ \A i \in 1 .. Len(z) : Append(z, m)[i] = z[i]
      /\ Append(z, m)[Len(z) + 1] = m
  <2> HIDE DEF z, Z
  <2> QED
    BY <1>1, AppendProperties, LenProperties
<1>3. /\ d1 \in Downlinks /\ d1.net = Append(z, m) /\ d1.q = d.q /\ d1.sock = d.sock
      /\ d1.wnd = d.wnd /\ d1.pre = d.pre
  BY <1>2 DEF Downlinks
<1>4. ASSUME NEW i \in 1 .. Len(Append(z, m)), Append(z, m)[i] = "ok"
      PROVE  i \in 1 .. Len(z) /\ z[i] = "ok"
  <2> HIDE DEF z
  <2>1. i \in 1 .. Len(z) \/ i = Len(z) + 1
    BY <1>2
  <2> QED
    BY <1>1, <1>2, <1>4, <2>1
<1>5. Chain(d1) = Append(Chain(d), m)
  <2> DEFINE x == d.sock \o Frames(d.q)
  <2>1. x \in Seq(Signals) /\ z \in Seq(Signals) /\ m \in Signals
    BY ChainOf, ConcatProperties DEF Signals, Sendable
  <2>2. Chain(d1) = x \o Append(z, m) /\ Chain(d) = x \o z
    BY <1>3 DEF Chain
  <2> HIDE DEF x, z
  <2>3. x \o Append(z, m) = Append(x \o z, m)
    BY <2>1, JoinAppend
  <2> QED
    BY <2>2, <2>3
<1> QED
  BY <1>3, <1>4, <1>5

\* The tunnel towards the program is emptied.
LEMMA UpCut ==
  ASSUME NEW u \in Uplinks, NEW u1, u1 = [u EXCEPT !.net = <<>>]
  PROVE  /\ u1 \in Uplinks /\ u1.net = <<>> /\ u1.sock = u.sock /\ u1.wnd = u.wnd
         /\ ~Has(u1.net, "fin")
<1>1. <<>> \in Seq({"data", "eof", "fin"}) /\ Len(<<>>) = 0
  BY EmptySeq
<1>2. u1 \in Uplinks /\ u1.net = <<>> /\ u1.sock = u.sock /\ u1.wnd = u.wnd
  BY <1>1 DEF Uplinks
<1> QED
  BY <1>1, <1>2 DEF Has

\* CloseEnd keeps the invariant (TcpConn::send, do_close, close, poll_close).
LEMMA CloseEndOK == ASSUME RunIInv, CloseEnd PROVE RunIInv'
<1>1. /\ cl \in Clients /\ up \in Uplinks /\ down \in Downlinks /\ end \in ExecEnds
      /\ prog \in Programs /\ Chain(down) \in Seq(Signals)
  BY Fields DEF RunIInv
<1>2. /\ end.open /\ EndGone /\ down' = [down EXCEPT !.net = Append(@, "fin")]
      /\ up' = [up EXCEPT !.net = <<>>] /\ UNCHANGED <<pty, cl, inst, faults>>
  BY DEF CloseEnd
<1>3. /\ end' \in ExecEnds /\ ~end'.open /\ end'.reaped = end.reaped /\ end'.fds = {}
      /\ orphan' \in Orphans /\ prog' \in Programs
      /\ prog'.wrote = prog.wrote /\ prog'.pin = prog.pin /\ (prog'.st = "run" => prog.st = "run")
      /\ end'.reaped => prog'.st \in {"none", "reaped"}
      /\ prog'.st \in {"run", "zombie"} => orphan'.on
  BY <1>2, EndGoneOf
<1>4. /\ UpWindow(end, up.wnd)' /\ ProgOK' /\ EofOK' /\ InputOK' /\ StatusOK'
      /\ Len(prog'.pin) <= PipeCap
  BY <1>2, <1>3, NoEnd
<1>5. /\ down' \in Downlinks /\ down'.q = down.q /\ down'.sock = down.sock
      /\ down'.wnd = down.wnd /\ down'.pre = down.pre /\ Chain(down') = Append(Chain(down), "fin")
      /\ \A i \in 1 .. Len(down'.net) :
           down'.net[i] = "ok" => i \in 1 .. Len(down.net) /\ down.net[i] = "ok"
  <2> DEFINE m == "fin"
  <2>1. m \in Sendable /\ down' = [down EXCEPT !.net = Append(@, m)]
    BY <1>2 DEF Sendable
  <2> HIDE DEF m
  <2>2. /\ down' \in Downlinks /\ down'.q = down.q /\ down'.sock = down.sock
        /\ down'.wnd = down.wnd /\ down'.pre = down.pre /\ Chain(down') = Append(Chain(down), m)
        /\ \A i \in 1 .. Len(down'.net) :
             down'.net[i] = "ok" => i \in 1 .. Len(down.net) /\ down.net[i] = "ok"
    BY <1>1, <2>1, ChainAppend
  <2> QED
    BY <2>2 DEF m
<1>6. up' \in Uplinks
  BY <1>1, <1>2, UpCut
<1>7. RunTypeOK' /\ Bounded'
  BY <1>2, <1>3, <1>4, <1>5, <1>6 DEF RunIInv, RunTypeOK, Bounded
<1>8. InstOK' /\ DownWindow(down, inst.st)'
  BY <1>2, <1>3, <1>5 DEF RunIInv, InstOK, DownWindow
<1>9. Delivery(Chain(down), cl, end, prog)'
  <2> DEFINE a == Chain(down)
  <2>1. a \in Seq(Signals) /\ Delivery(a, cl, end, prog)
    BY <1>1 DEF RunIInv
  <2> HIDE DEF a
  <2>2. Delivery(Append(a, "fin"), cl, end', prog')
    BY <1>1, <1>2, <1>3, <2>1, DeliveryEnd
  <2> QED
    BY <1>2, <1>5, <2>2 DEF a
<1> QED
  BY <1>4, <1>7, <1>8, <1>9 DEF RunIInv

\* RecvHangup keeps the invariant (Daemon::on_tunnel_gone).
LEMMA RecvHangupOK == ASSUME RunIInv, RecvHangup PROVE RunIInv'
<1>1. up \in Uplinks /\ down \in Downlinks
  BY Fields DEF RunIInv
<1>2. /\ end.open /\ EndGone /\ down' = [down EXCEPT !.net = <<>>]
      /\ up.net # <<>> /\ Head(up.net) = "fin"
      /\ up' = [up EXCEPT !.net = <<>>] /\ UNCHANGED <<pty, cl, inst, faults>>
  BY DEF RecvHangup
<1>3. /\ end' \in ExecEnds /\ ~end'.open /\ end'.reaped = end.reaped /\ end'.fds = {}
      /\ orphan' \in Orphans /\ prog' \in Programs
      /\ prog'.wrote = prog.wrote /\ prog'.pin = prog.pin /\ (prog'.st = "run" => prog.st = "run")
      /\ end'.reaped => prog'.st \in {"none", "reaped"}
      /\ prog'.st \in {"run", "zombie"} => orphan'.on
  BY <1>2, EndGoneOf
<1>4. /\ UpWindow(end, up.wnd)' /\ ProgOK' /\ EofOK' /\ InputOK' /\ StatusOK'
      /\ Len(prog'.pin) <= PipeCap
  BY <1>2, <1>3, NoEnd
<1>5. /\ down' \in Downlinks /\ down'.net = <<>> /\ down'.q = down.q /\ down'.sock = down.sock
      /\ down'.wnd = down.wnd /\ down'.pre = down.pre
  BY <1>1, <1>2, ChainCut
<1>6. up' \in Uplinks
  BY <1>1, <1>2, UpCut
<1>7. cl.st = "done"
  <2> DEFINE a == up.net
  <2>1. a \in Seq({"data", "eof", "fin"}) /\ a # <<>> /\ Head(a) = "fin"
    BY <1>1, <1>2, FlowParts
  <2> HIDE DEF a
  <2>2. Has(a, "fin")
    BY <2>1, HasTail
  <2> QED
    BY <1>2, <2>2 DEF RunIInv, InstOK, a
<1>8. RunTypeOK' /\ Bounded'
  BY <1>2, <1>3, <1>4, <1>5, <1>6 DEF RunIInv, RunTypeOK, Bounded
<1>9. InstOK' /\ DownWindow(down, inst.st)'
  <2>1. Len(down'.net) = 0
    BY <1>5
  <2> QED
    BY <1>2, <1>3, <1>5, <1>7, <2>1 DEF RunIInv, InstOK, DownWindow
<1>10. Delivery(Chain(down), cl, end, prog)'
  BY <1>2, <1>7 DEF Delivery
<1> QED
  BY <1>4, <1>8, <1>9, <1>10 DEF RunIInv

\* Both sides lose the connection.
LEMMA CutOK ==
  ASSUME RunIInv, inst.st = "open", end' \in ExecEnds, ~end'.open, end'.reaped = end.reaped,
         end'.fds = {}, orphan' \in Orphans, prog' \in Programs,
         prog'.wrote = prog.wrote, prog'.pin = prog.pin, prog'.st = "run" => prog.st = "run",
         end'.reaped => prog'.st \in {"none", "reaped"},
         prog'.st \in {"run", "zombie"} => orphan'.on,
         faults > 0, faults' = faults - 1, inst' = Released(down),
         up' = [up EXCEPT !.net = <<>>], down' = [down EXCEPT !.net = <<>>],
         UNCHANGED <<pty, cl>>
  PROVE  RunIInv'
<1>1. /\ cl \in Clients /\ up \in Uplinks /\ down \in Downlinks /\ end \in ExecEnds
      /\ prog \in Programs /\ inst \in Instances /\ down.net \in Seq(Signals)
      /\ faults \in 0 .. MaxFaults
  BY Fields, ChainOf DEF RunIInv
<1>2. faults' \in 0 .. MaxFaults
  BY <1>1, ExecAssumption
<1>3. /\ UpWindow(end, up.wnd)' /\ ProgOK' /\ EofOK' /\ InputOK' /\ StatusOK'
      /\ Len(prog'.pin) <= PipeCap
  BY NoEnd
<1>4. /\ down' \in Downlinks /\ down'.net = <<>> /\ down'.q = down.q /\ down'.sock = down.sock
      /\ down'.wnd = down.wnd /\ down'.pre = down.pre
      /\ Chain(down') \in Seq(Signals) /\ Chain(down) = Chain(down') \o down.net
  BY <1>1, ChainCut
<1>5. up' \in Uplinks
  BY <1>1, UpCut
<1>6. /\ inst' \in Instances /\ inst'.st = "gone"
  BY <1>1, ReleasedOf
<1>7. RunTypeOK' /\ Bounded'
  BY <1>2, <1>3, <1>4, <1>5, <1>6 DEF RunIInv, RunTypeOK, Bounded
<1>8. InstOK' /\ DownWindow(down, inst.st)'
  <2>1. Len(down'.net) = 0
    BY <1>4
  <2> QED
    BY <1>4, <1>6, <2>1 DEF RunIInv, InstOK, DownWindow
<1>9. Delivery(Chain(down), cl, end, prog)'
  <2> DEFINE a == Chain(down')
             b == down.net
  <2>1. a \in Seq(Signals) /\ b \in Seq(Signals) /\ Delivery(a \o b, cl, end, prog)
    BY <1>1, <1>4 DEF RunIInv
  <2> HIDE DEF a, b
  <2>2. Delivery(a, cl, end', prog')
    BY <1>1, <2>1, DeliveryCut
  <2> QED
    BY <2>2 DEF a
<1> QED
  BY <1>3, <1>7, <1>8, <1>9 DEF RunIInv

\* Break keeps the invariant (TcpConn::on_lwip_err).
LEMMA BreakOK == ASSUME RunIInv, Break PROVE RunIInv'
<1>1. /\ end.open /\ EndGone /\ inst.st = "open" /\ faults > 0 /\ faults' = faults - 1
      /\ inst' = Released(down) /\ up' = [up EXCEPT !.net = <<>>]
      /\ down' = [down EXCEPT !.net = <<>>] /\ UNCHANGED <<pty, cl>>
  BY DEF Break
<1>2. /\ end' \in ExecEnds /\ ~end'.open /\ end'.reaped = end.reaped /\ end'.fds = {}
      /\ orphan' \in Orphans /\ prog' \in Programs
      /\ prog'.wrote = prog.wrote /\ prog'.pin = prog.pin /\ (prog'.st = "run" => prog.st = "run")
      /\ end'.reaped => prog'.st \in {"none", "reaped"}
      /\ prog'.st \in {"run", "zombie"} => orphan'.on
  BY <1>1, EndGoneOf
<1> QED
  BY <1>1, <1>2, CutOK

\* StopDaemon keeps the invariant (stop_orphans).
LEMMA StopDaemonOK == ASSUME RunIInv, StopDaemon PROVE RunIInv'
<1>1. end \in ExecEnds /\ prog \in Programs /\ orphan \in Orphans
  BY Fields DEF RunIInv
<1>2. /\ inst.st = "open" /\ faults > 0 /\ faults' = faults - 1
      /\ end' = [end EXCEPT !.open = FALSE, !.in = FALSE, !.fds = {}, !.real = 0, !.synth = 0]
      /\ prog' = IF prog.st = "none" THEN prog ELSE [prog EXCEPT !.st = "reaped", !.writers = {}]
      /\ inst' = Released(down) /\ up' = [up EXCEPT !.net = <<>>]
      /\ down' = [down EXCEPT !.net = <<>>] /\ UNCHANGED <<pty, cl, orphan>>
  BY DEF StopDaemon
<1>3. end' \in ExecEnds /\ ~end'.open /\ end'.reaped = end.reaped /\ end'.fds = {}
  BY <1>1, <1>2 DEF ExecEnds
<1>4. /\ prog' \in Programs /\ prog'.wrote = prog.wrote /\ prog'.pin = prog.pin
      /\ prog'.st \in {"none", "reaped"}
  BY <1>1, <1>2 DEF Programs
<1> QED
  BY <1>1, <1>2, <1>3, <1>4, CutOK

\* Discard keeps the invariant (lwIP: data for a connection that is gone is answered with a reset).
LEMMA DiscardOK == ASSUME RunIInv, Discard PROVE RunIInv'
<1>1. /\ ~end.open /\ up' = [up EXCEPT !.net = <<>>]
      /\ UNCHANGED <<pty, cl, down, inst, end, prog, orphan, faults>>
  BY DEF Discard
<1>2. up' \in Uplinks
  BY <1>1, Fields, UpCut DEF RunIInv
<1>3. RunTypeOK' /\ Bounded' /\ InstOK' /\ DownWindow(down, inst.st)'
  BY <1>1, <1>2 DEF RunIInv, RunTypeOK, Bounded, InstOK, DownWindow
<1>4. UpWindow(end, up.wnd)' /\ ProgOK' /\ EofOK' /\ InputOK' /\ StatusOK'
  BY <1>1 DEF RunIInv, UpWindow, ProgOK, EofOK, InputOK, StatusOK
<1>5. Delivery(Chain(down), cl, end, prog)'
  BY <1>1, DeliveryMoved DEF RunIInv
<1> QED
  BY <1>3, <1>4, <1>5 DEF RunIInv

-----------------------------------------------------------------------------
(* The end *)

\* What holds of the end's input now.
LEMMA NowHeld ==
  ASSUME RunIInv, end.open
  PROVE  /\ Held(Now) /\ Now.e = end /\ Now.p = prog.pin /\ Now.w = up.wnd
         /\ Kept(Now) = end.real + CountIn(prog.pin, {"data"}) /\ Kept(Now) \in Nat
<1>1. end \in ExecEnds /\ prog.pin \in Seq({"data", "veof"}) /\ up.wnd \in 0 .. Window
  BY Fields DEF RunIInv, Uplinks
<1>2. Now.e = end /\ Now.p = prog.pin /\ Now.w = up.wnd
  BY DEF Now
<1>3. Now \in EndStates
  BY <1>1 DEF Now, EndStates
<1>4. Held(Now)
  BY <1>2, <1>3 DEF Held, RunIInv, Bounded, UpWindow, EofOK
<1>5. end.real \in Nat /\ CountIn(prog.pin, {"data"}) \in Nat
  BY <1>1, CountType DEF ExecEnds
<1> QED
  BY <1>2, <1>4, <1>5 DEF Kept

\* The program's input as part of the state.
LEMMA PinOf ==
  ASSUME NEW p \in Programs, NEW a \in Seq({"data", "veof"}), NEW p1, p1 = [p EXCEPT !.pin = a]
  PROVE  /\ p1 \in Programs /\ p1.pin = a /\ p1.st = p.st /\ p1.stdin = p.stdin
         /\ p1.read = p.read /\ p1.wrote = p.wrote /\ p1.pipe = p.pipe
         /\ p1.writers = p.writers
BY DEF Programs

\* RecvInput keeps the invariant (ExecEnd::on_tunnel_data).
LEMMA RecvInputOK == ASSUME RunIInv, RecvInput PROVE RunIInv'
<1> DEFINE T == {"data", "eof", "fin"}
           D == {"data"}
           f == Head(up.net)
           s1 == Framed(Now, f)
           s == FlushInput(s1)
           a == up.net
           fl == Flow(up)
<1>1. /\ cl \in Clients /\ up \in Uplinks /\ end \in ExecEnds /\ prog \in Programs
      /\ a \in Seq(T) /\ fl \in Seq(T) /\ up.sock \in Seq(T) /\ Chain(down) \in Seq(Signals)
  BY Fields, FlowParts DEF RunIInv
<1>2. /\ end.open /\ a # <<>> /\ f # "fin" /\ up.wnd > 0
      /\ end' = s.e /\ prog' = [prog EXCEPT !.pin = s.p]
      /\ up' = [up EXCEPT !.net = Tail(@), !.wnd = s.w]
      /\ UNCHANGED <<pty, cl, down, inst, orphan, faults>>
  BY DEF RecvInput
<1>3. /\ Held(Now) /\ Now.e = end /\ Now.p = prog.pin /\ Now.w = up.wnd
      /\ Kept(Now) = end.real + CountIn(prog.pin, D) /\ Kept(Now) \in Nat
  BY <1>2, NowHeld
<1>4. f \in {"data", "eof"} /\ Tail(a) \in Seq(T) /\ (Has(Tail(a), "fin") => Has(a, "fin"))
  <2>1. Head(a) \in T /\ Tail(a) \in Seq(T) /\ (Has(Tail(a), "fin") => Has(a, "fin"))
    <3> HIDE DEF a, T
    <3> QED
      BY <1>1, <1>2, HeadAndTail, HasTail
  <2> QED
    BY <1>2, <2>1
<1>5. fl # <<>> /\ Head(fl) = f /\ Tail(fl) = Tail(a) \o up.sock
  <2> DEFINE h == Head(a)
             r == Tail(a)
             b == up.sock
  <2>1. a = <<h>> \o r /\ h \in T /\ r \in Seq(T) /\ <<h>> \in Seq(T) /\ b \in Seq(T)
    <3>1. a = <<h>> \o r /\ h \in T /\ r \in Seq(T)
      <4> HIDE DEF a, T
      <4> QED
        BY <1>1, <1>2, HeadAndTail
    <3> QED
      BY <1>1, <3>1
  <2>2. fl = a \o b
    BY DEF Flow
  <2> HIDE DEF a, h, r, b, fl, T
  <2> DEFINE g == <<h>>
             w == r \o b
  <2>3. g \in Seq(T) /\ w \in Seq(T)
    BY <2>1, ConcatProperties
  <2>6. r \in Seq(T) /\ b \in Seq(T)
    BY <2>1
  <2>4. (g \o r) \o b = g \o (r \o b)
    <3> HIDE DEF g, w
    <3> QED
      BY <2>3, <2>6, SMT
  <2> HIDE DEF w
  <2>5. <<h>> \o w # <<>> /\ Head(<<h>> \o w) = h /\ Tail(<<h>> \o w) = w
    BY <2>1, <2>3
  <2> QED
    BY <2>1, <2>2, <2>4, <2>5 DEF w, h, r, b, a
<1>6. ~end.eof /\ Upstream(Tail(fl), cl, f = "eof")
  <2>1. Upstream(fl, cl, end.eof) /\ end.eof \in BOOLEAN
    BY <1>1, <1>2 DEF RunIInv, EofOK, ExecEnds
  <2> HIDE DEF fl
  <2>2. ~end.eof /\ Upstream(Tail(fl), cl, Head(fl) = "eof")
    BY <1>1, <1>2, <1>5, <2>1, UpstreamRecv
  <2> QED
    BY <1>5, <2>2
<1> HIDE DEF f
<1>7. /\ Held(s1) /\ s1.p = prog.pin /\ s1.e.in = end.in /\ s1.e.open = end.open
      /\ s1.e.fds = end.fds /\ s1.e.reaped = end.reaped /\ s1.e.shut = end.shut
      /\ s1.e.eof = (end.eof \/ f = "eof")
      /\ Kept(s1) = Kept(Now) + IF f = "data" /\ end.in /\ ~end.eof THEN 1 ELSE 0
  <2> DEFINE n == Now
  <2>1. Held(n) /\ n.w > 0 /\ n.e = end /\ n.p = prog.pin
    BY <1>2, <1>3
  <2> HIDE DEF n
  <2>2. /\ Held(Framed(n, f)) /\ Framed(n, f).p = n.p /\ Framed(n, f).e.in = n.e.in
        /\ Framed(n, f).e.open = n.e.open
        /\ Framed(n, f).e.fds = n.e.fds /\ Framed(n, f).e.reaped = n.e.reaped
        /\ Framed(n, f).e.shut = n.e.shut /\ Framed(n, f).e.eof = (n.e.eof \/ f = "eof")
        /\ Kept(Framed(n, f)) = Kept(n) + IF f = "data" /\ n.e.in /\ ~n.e.eof THEN 1 ELSE 0
    BY <1>4, <2>1, FramedOf
  <2> QED
    BY <2>1, <2>2 DEF n
<1> HIDE DEF s1
<1>8. /\ Held(s) /\ SameRest(s1, s)
      /\ prog.stdin => Kept(s) = Kept(s1) /\ (~s.e.in => ~s1.e.in \/ s.e.eof)
  BY <1>7, FlushInputOf
<1> HIDE DEF s
<1>9. /\ s.e \in ExecEnds /\ s.p \in Seq({"data", "veof"}) /\ s.w \in 0 .. Window
      /\ Keystroke(s.e, s.p) /\ s.w + s.e.real = Window /\ Len(s.p) <= PipeCap
      /\ s.e.real \in Nat /\ CountIn(s.p, D) \in Nat
  BY <1>8, HeldFields DEF Held
<1>10. /\ end' \in ExecEnds /\ end'.open = end.open /\ end'.eof = (f = "eof")
       /\ end'.fds = end.fds /\ end'.reaped = end.reaped
  BY <1>2, <1>6, <1>7, <1>8, <1>9 DEF SameRest
<1>11. /\ prog' \in Programs /\ prog'.pin = s.p /\ prog'.st = prog.st /\ prog'.stdin = prog.stdin
       /\ prog'.read = prog.read /\ prog'.wrote = prog.wrote /\ prog'.pipe = prog.pipe
       /\ prog'.writers = prog.writers
  BY <1>1, <1>2, <1>9, PinOf
<1>12. up' \in Uplinks /\ up'.net = Tail(a) /\ up'.sock = up.sock /\ up'.wnd = s.w
       /\ Flow(up') = Tail(fl)
  <2>1. up' \in Uplinks /\ up'.net = Tail(a) /\ up'.sock = up.sock /\ up'.wnd = s.w
    BY <1>1, <1>2, <1>4, <1>9 DEF Uplinks
  <2> QED
    BY <1>5, <2>1 DEF Flow
<1>13. RunTypeOK' /\ Bounded'
  BY <1>2, <1>9, <1>10, <1>11, <1>12 DEF RunIInv, RunTypeOK, Bounded
<1>14. InstOK'
  BY <1>2, <1>4, <1>10, <1>12 DEF RunIInv, InstOK
<1>15. UpWindow(end, up.wnd)' /\ DownWindow(down, inst.st)'
  BY <1>2, <1>9, <1>12 DEF RunIInv, UpWindow, DownWindow
<1>16. ProgOK' /\ StatusOK'
  BY <1>2, <1>10, <1>11 DEF RunIInv, ProgOK, StatusOK
<1>17. EofOK'
  BY <1>2, <1>6, <1>9, <1>10, <1>11, <1>12 DEF EofOK
<1>18. InputOK'
  <2> SUFFICES ASSUME prog.st = "run", prog.stdin
               PROVE  /\ ~end'.in => end'.eof
                      /\ Supplied(Tail(fl), cl, end', prog', inst.st)
    BY <1>2, <1>11, <1>12 DEF InputOK
  <2>1. end.in /\ Supplied(fl, cl, end, prog, inst.st)
    BY <1>1, <1>2, <1>6 DEF RunIInv, InputOK, ExecEnds
  <2>2. ~end'.in => end'.eof
    BY <1>2, <1>7, <1>8, <2>1
  <2>3. SUFFICES ASSUME inst.st # "gone" \/ end'.eof \/ Has(Tail(fl), "eof")
                 PROVE  cl.left + Sending(cl) + CountIn(Tail(fl), D) + end'.real
                          + CountIn(prog'.pin, D) + prog'.read = Input
    BY <2>2 DEF Supplied
  <2>4. inst.st # "gone" \/ Has(fl, "eof")
    <3>1. Has(fl, "eof") <=> Head(fl) = "eof" \/ Has(Tail(fl), "eof")
      <4> HIDE DEF fl, T
      <4> QED
        BY <1>1, <1>5, HasTail
    <3> QED
      BY <1>5, <1>10, <2>3, <3>1
  <2> DEFINE x == cl.left + Sending(cl)
             n == CountIn(fl, D)
             n1 == CountIn(Tail(fl), D)
             k == end.real
             m == CountIn(prog.pin, D)
             k1 == end'.real
             m1 == CountIn(prog'.pin, D)
             r == prog.read
             i == IF f = "data" THEN 1 ELSE 0
  <2>5. x + n + k + m + r = Input
    BY <2>1, <2>4 DEF Supplied
  <2>6. x \in Nat /\ r \in Nat
    BY <1>1 DEF Clients, Programs, Sending
  <2>7. n = i + n1 /\ n1 \in Nat
    <3>1. n = (IF Head(fl) \in D THEN 1 ELSE 0) + n1 /\ Tail(fl) \in Seq(T)
      <4> HIDE DEF fl, D, T
      <4> QED
        BY <1>1, <1>5, CountTail, HeadAndTail
    <3>2. n1 \in Nat
      <4> HIDE DEF fl, D, T
      <4> QED
        BY <3>1, CountType
    <3> HIDE DEF n, n1
    <3> QED
      BY <1>5, <3>1, <3>2
  <2>8. k1 + m1 = k + m + i
    <3>1. Kept(s) = k1 + m1
      BY <1>2, <1>11 DEF Kept
    <3>2. Kept(s) = Kept(Now) + i
      BY <1>6, <1>7, <1>8, <2>1
    <3> QED
      BY <1>3, <3>1, <3>2
  <2>9. k \in Nat /\ m \in Nat /\ k1 \in Nat /\ m1 \in Nat /\ i \in {0, 1}
    <3>1. prog.pin \in Seq({"data", "veof"}) /\ k \in Nat
      BY <1>1 DEF Programs, ExecEnds
    <3> QED
      BY <1>2, <1>9, <1>11, <3>1, CountType
  <2> HIDE DEF x, n, n1, k, m, k1, m1, r, i
  <2>10. x + n1 + k1 + m1 + r = Input
    BY <2>5, <2>6, <2>7, <2>8, <2>9
  <2> QED
    BY <1>11, <2>10 DEF x, n1, k1, m1, r
<1>19. Delivery(Chain(down), cl, end, prog)'
  <2>1. Delivery(Chain(down), cl, end', prog')
    BY <1>10, <1>11 DEF RunIInv, Delivery
  <2> QED
    BY <1>2, <2>1
<1> QED
  BY <1>13, <1>14, <1>15, <1>16, <1>17, <1>18, <1>19 DEF RunIInv

\* maybe_finish, after a step of the end.
LEMMA MaybeFinishOK ==
  ASSUME RunIInv, end.open, NEW s, Held(s), s.e.open = end.open, s.e.eof = end.eof,
         s.e.reaped = end.reaped, s.e.fds \subseteq end.fds,
         \A f \in end.fds \ s.e.fds : prog.pipe[f] = 0,
         prog.st = "run" /\ prog.stdin => Kept(s) = Kept(Now) /\ (~s.e.in => ~end.in \/ end.eof),
         MaybeFinish(s, down.net), UNCHANGED <<pty, cl, inst, orphan, faults>>
  PROVE  RunIInv'
<1>1. /\ cl \in Clients /\ up \in Uplinks /\ down \in Downlinks /\ end \in ExecEnds
      /\ prog \in Programs /\ Chain(down) \in Seq(Signals)
  BY Fields DEF RunIInv
<1>2. /\ s.e \in ExecEnds /\ s.p \in Seq({"data", "veof"}) /\ s.w \in 0 .. Window
      /\ Keystroke(s.e, s.p) /\ s.w + s.e.real = Window /\ Len(s.p) <= PipeCap
  BY HeldFields DEF Held
<1>3. \A f \in Streams \ s.e.fds : prog.pipe[f] = 0
  BY DEF RunIInv, ProgOK
<1>4. Upstream(Flow(up), cl, end.eof)
  BY DEF RunIInv, EofOK
<1>5. CASE Finishable(s.e)
  <2> DEFINE t == Dropped(s)
  <2>1. /\ ~end.reaped /\ s.e.fds = {} /\ prog.st = "zombie"
        /\ end' = [t.e EXCEPT !.reaped = TRUE, !.shut = TRUE]
        /\ prog' = [prog EXCEPT !.pin = t.p, !.st = "reaped"]
        /\ up' = [up EXCEPT !.wnd = t.w]
        /\ down' = [down EXCEPT !.net = Append(down.net, "exit")]
    BY <1>5 DEF MaybeFinish, Finishable
  <2>2. Held(t) /\ SameRest(s, t) /\ t.p = s.p
    BY DroppedOf
  <2> HIDE DEF t
  <2>3. /\ t.e \in ExecEnds /\ t.p \in Seq({"data", "veof"}) /\ t.w \in 0 .. Window
        /\ Keystroke(t.e, t.p) /\ t.w + t.e.real = Window /\ Len(t.p) <= PipeCap
    BY <2>2, HeldFields DEF Held
  <2>4. /\ end' \in ExecEnds /\ end'.open /\ end'.eof = end.eof /\ end'.fds = {} /\ end'.reaped
        /\ end'.in = t.e.in /\ end'.real = t.e.real /\ end'.synth = t.e.synth
    BY <2>1, <2>2, <2>3 DEF SameRest, ExecEnds
  <2>5. /\ prog' \in Programs /\ prog'.pin = t.p /\ prog'.st = "reaped"
        /\ prog'.wrote = prog.wrote /\ prog'.pipe = prog.pipe
    BY <1>1, <2>1, <2>3 DEF Programs
  <2>6. up' \in Uplinks /\ up'.net = up.net /\ up'.sock = up.sock /\ up'.wnd = t.w
        /\ Flow(up') = Flow(up)
    <3>1. up' \in Uplinks /\ up'.net = up.net /\ up'.sock = up.sock /\ up'.wnd = t.w
      BY <1>1, <2>1, <2>3 DEF Uplinks
    <3> QED
      BY <3>1 DEF Flow
  <2>7. /\ down' \in Downlinks /\ down'.q = down.q /\ down'.sock = down.sock
        /\ down'.wnd = down.wnd /\ down'.pre = down.pre
        /\ Chain(down') = Append(Chain(down), "exit")
        /\ \A i \in 1 .. Len(down'.net) :
             down'.net[i] = "ok" => i \in 1 .. Len(down.net) /\ down.net[i] = "ok"
    <3> DEFINE m == "exit"
    <3>1. m \in Sendable /\ down' = [down EXCEPT !.net = Append(@, m)]
      BY <2>1 DEF Sendable
    <3> HIDE DEF m
    <3>2. /\ down' \in Downlinks /\ down'.q = down.q /\ down'.sock = down.sock
          /\ down'.wnd = down.wnd /\ down'.pre = down.pre
          /\ Chain(down') = Append(Chain(down), m)
          /\ \A i \in 1 .. Len(down'.net) :
               down'.net[i] = "ok" => i \in 1 .. Len(down.net) /\ down.net[i] = "ok"
      BY <1>1, <3>1, ChainAppend
    <3> QED
      BY <3>2 DEF m
  <2>8. RunTypeOK' /\ Bounded'
    BY <2>3, <2>4, <2>5, <2>6, <2>7 DEF RunIInv, RunTypeOK, Bounded
  <2>9. InstOK'
    BY <2>4, <2>6, <2>7 DEF RunIInv, InstOK
  <2>10. UpWindow(end, up.wnd)' /\ DownWindow(down, inst.st)'
    BY <2>3, <2>4, <2>6, <2>7 DEF RunIInv, UpWindow, DownWindow
  <2>11. ProgOK' /\ StatusOK' /\ InputOK'
    BY <1>3, <2>1, <2>4, <2>5 DEF RunIInv, ProgOK, StatusOK, InputOK
  <2>12. EofOK'
    <3>1. Keystroke(end', prog'.pin)
      BY <2>2, <2>3, <2>4, <2>5 DEF Keystroke, SameRest
    <3> QED
      BY <1>4, <2>4, <2>6, <3>1 DEF EofOK
  <2>13. Delivery(Chain(down), cl, end, prog)'
    <3> DEFINE a == Chain(down)
    <3>1. a \in Seq(Signals) /\ Delivery(a, cl, end, prog)
      BY <1>1 DEF RunIInv
    <3>2. prog.pipe["out"] = 0 /\ prog.pipe["err"] = 0
      BY <1>3, <2>1 DEF Streams
    <3> HIDE DEF a
    <3>4. /\ cl \in Clients /\ end \in ExecEnds /\ prog \in Programs /\ ~end.reaped
          /\ end' \in ExecEnds /\ end'.reaped /\ prog' \in Programs /\ prog'.wrote = prog.wrote
      BY <1>1, <2>1, <2>4, <2>5
    <3>3. Delivery(Append(a, "exit"), cl, end', prog')
      BY <3>1, <3>2, <3>4, DeliveryEnd
    <3> QED
      BY <2>7, <3>3 DEF a
  <2> QED
    BY <2>8, <2>9, <2>10, <2>11, <2>12, <2>13 DEF RunIInv
<1>6. CASE ~Finishable(s.e)
  <2>1. /\ end' = s.e /\ prog' = [prog EXCEPT !.pin = s.p] /\ up' = [up EXCEPT !.wnd = s.w]
        /\ down' = [down EXCEPT !.net = down.net]
    BY <1>6 DEF MaybeFinish, Becomes
  <2>2. down' = down
    BY <1>1, <2>1 DEF Downlinks
  <2>3. /\ prog' \in Programs /\ prog'.pin = s.p /\ prog'.st = prog.st /\ prog'.stdin = prog.stdin
        /\ prog'.read = prog.read /\ prog'.wrote = prog.wrote /\ prog'.pipe = prog.pipe
        /\ prog'.writers = prog.writers
    BY <1>1, <1>2, <2>1, PinOf
  <2>4. up' \in Uplinks /\ up'.net = up.net /\ up'.sock = up.sock /\ up'.wnd = s.w
        /\ Flow(up') = Flow(up)
    <3>1. up' \in Uplinks /\ up'.net = up.net /\ up'.sock = up.sock /\ up'.wnd = s.w
      BY <1>1, <1>2, <2>1 DEF Uplinks
    <3> QED
      BY <3>1 DEF Flow
  <2>5. RunTypeOK' /\ Bounded'
    BY <1>2, <2>1, <2>2, <2>3, <2>4 DEF RunIInv, RunTypeOK, Bounded
  <2>11. InstOK'
    BY <2>1, <2>2, <2>4 DEF RunIInv, InstOK
  <2>12. UpWindow(end, up.wnd)'
    BY <1>2, <2>1, <2>4 DEF UpWindow
  <2>6. InstOK' /\ UpWindow(end, up.wnd)' /\ DownWindow(down, inst.st)'
    BY <2>2, <2>11, <2>12 DEF RunIInv, DownWindow
  <2>7. ProgOK' /\ StatusOK'
    BY <1>3, <2>1, <2>3 DEF RunIInv, ProgOK, StatusOK
  <2>8. EofOK'
    BY <1>2, <1>4, <2>1, <2>3, <2>4 DEF EofOK
  <2>9. InputOK'
    <3> SUFFICES ASSUME prog.st = "run", prog.stdin
                 PROVE  (~s.e.in => end.eof) /\ Supplied(Flow(up), cl, s.e, prog', inst.st)
      BY <2>1, <2>3, <2>4 DEF InputOK
    <3>1. (~end.in => end.eof) /\ Supplied(Flow(up), cl, end, prog, inst.st)
      BY DEF RunIInv, InputOK
    <3>2. s.e.real + CountIn(prog'.pin, {"data"}) = end.real + CountIn(prog.pin, {"data"})
      BY <2>3, NowHeld DEF Kept
    <3> DEFINE x == cl.left + Sending(cl) + CountIn(Flow(up), {"data"})
               k == end.real
               m == CountIn(prog.pin, {"data"})
               k1 == s.e.real
               m1 == CountIn(prog'.pin, {"data"})
               r == prog.read
    <3>3. x \in Nat /\ r \in Nat /\ k \in Nat /\ k1 \in Nat
      <4>1. cl.left \in Nat /\ Sending(cl) \in Nat /\ r \in Nat /\ k \in Nat /\ k1 \in Nat
        BY <1>1, <1>2 DEF Clients, Programs, ExecEnds, Sending
      <4>2. Flow(up) \in Seq({"data", "eof", "fin"})
        BY <1>1, FlowParts
      <4>3. CountIn(Flow(up), {"data"}) \in Nat
        BY <4>2, CountType
      <4> QED
        BY <4>1, <4>3
    <3>4. m \in Nat /\ m1 \in Nat
      <4>1. prog.pin \in Seq({"data", "veof"}) /\ prog'.pin \in Seq({"data", "veof"})
        BY <1>1, <1>2, <2>3 DEF Programs
      <4> QED
        BY <4>1, CountType
    <3>5. k1 + m1 = k + m
      BY <3>2
    <3>6. x + k1 + m1 + r = x + k + m + r
      <4> HIDE DEF x, k, m, k1, m1, r
      <4> QED
        BY <3>3, <3>4, <3>5
    <3> QED
      BY <2>3, <3>1, <3>6 DEF Supplied
  <2>10. Delivery(Chain(down), cl, end, prog)'
    <3>1. Delivery(Chain(down), cl, s.e, prog')
      BY <2>3 DEF RunIInv, Delivery
    <3> QED
      BY <2>1, <2>2, <3>1
  <2> QED
    BY <2>5, <2>6, <2>7, <2>8, <2>9, <2>10 DEF RunIInv
<1> QED
  BY <1>5, <1>6

\* InReady keeps the invariant (ExecEnd::on_fd_ready).
LEMMA InReadyOK == ASSUME RunIInv, InReady PROVE RunIInv'
<1> DEFINE n == Now
           s == FlushInput(n)
<1>1. /\ end.open /\ MaybeFinish(s, down.net) /\ UNCHANGED <<pty, cl, inst, orphan, faults>>
  BY DEF InReady, Watched
<1>2. Held(n) /\ n.e = end
  BY <1>1, NowHeld
<1> HIDE DEF n
<1>3. /\ Held(s) /\ SameRest(n, s)
      /\ prog.stdin => Kept(s) = Kept(n) /\ (~s.e.in => ~n.e.in \/ s.e.eof)
  BY <1>2, FlushInputOf
<1> HIDE DEF s
<1>4. /\ s.e.open = end.open /\ s.e.eof = end.eof /\ s.e.reaped = end.reaped
      /\ s.e.fds = end.fds
  BY <1>2, <1>3 DEF SameRest
<1>5. prog.stdin => Kept(s) = Kept(Now) /\ (~s.e.in => ~end.in \/ end.eof)
  BY <1>2, <1>3, <1>4 DEF n
<1> QED
  BY <1>1, <1>3, <1>4, <1>5, MaybeFinishOK

\* EndTick keeps the invariant (ExecEnd::tick).
LEMMA EndTickOK == ASSUME RunIInv, EndTick PROVE RunIInv'
<1>1. /\ end.open /\ MaybeFinish(Now, down.net) /\ UNCHANGED <<pty, cl, inst, orphan, faults>>
  BY DEF EndTick
<1>2. Held(Now) /\ Now.e = end
  BY <1>1, NowHeld
<1> QED
  BY <1>1, <1>2, MaybeFinishOK

\* OutEof keeps the invariant (ExecEnd::on_fd_ready).
LEMMA OutEofOK == ASSUME RunIInv, NEW f \in Streams, OutEof(f) PROVE RunIInv'
<1> DEFINE s == [Now EXCEPT !.e.fds = @ \ {f}]
           t == IF pty THEN Dropped(s) ELSE s
<1>1. /\ end.open /\ f \in end.fds /\ prog.pipe[f] = 0 /\ f \notin prog.writers
      /\ MaybeFinish(t, down.net) /\ UNCHANGED <<pty, cl, inst, orphan, faults>>
  BY DEF OutEof, Watched, Watches, Streams
<1>2. /\ Held(Now) /\ Now.e = end /\ Now.p = prog.pin /\ Now.w = up.wnd /\ end \in ExecEnds
  BY <1>1, NowHeld, Fields DEF RunIInv
<1> DEFINE e1 == [end EXCEPT !.fds = @ \ {f}]
<1>3. s = [e |-> e1, p |-> prog.pin, w |-> up.wnd]
  BY <1>2 DEF Now
<1>4. /\ e1 \in ExecEnds /\ e1.open = end.open /\ e1.in = end.in /\ e1.real = end.real
      /\ e1.synth = end.synth /\ e1.eof = end.eof /\ e1.fds = end.fds \ {f}
      /\ e1.reaped = end.reaped /\ e1.shut = end.shut
  BY <1>2 DEF ExecEnds
<1> HIDE DEF s, e1
<1>5. s.e = e1 /\ s.p = prog.pin /\ s.w = up.wnd
  BY <1>3
<1>6. Held(s)
  <2>1. Now \in EndStates /\ Len(Now.p) <= PipeCap /\ Now.w + Now.e.real = Window
        /\ Keystroke(Now.e, Now.p)
    BY <1>2 DEF Held
  <2>2. prog.pin \in Seq({"data", "veof"}) /\ up.wnd \in 0 .. Window
    BY <1>2, <2>1 DEF EndStates
  <2>3. s \in EndStates
    BY <1>3, <1>4, <2>2 DEF EndStates
  <2>4. Keystroke(e1, prog.pin)
    BY <1>2, <1>4, <2>1 DEF Keystroke
  <2> QED
    BY <1>2, <1>4, <1>5, <2>1, <2>3, <2>4 DEF Held
<1>7. Kept(s) = Kept(Now)
  BY <1>2, <1>4, <1>5 DEF Kept
<1>8. CASE pty
  <2>1. t = Dropped(s)
    BY <1>8
  <2> HIDE DEF t
  <2>2. Held(t) /\ SameRest(s, t)
    BY <1>6, <2>1, DroppedOf
  <2>3. /\ t.e.open = end.open /\ t.e.eof = end.eof /\ t.e.reaped = end.reaped
        /\ t.e.fds = end.fds \ {f}
    BY <1>4, <1>5, <2>2 DEF SameRest
  <2>4. ~(prog.st = "run" /\ prog.stdin)
    BY <1>1, <1>8 DEF RunIInv, ProgOK
  <2> QED
    BY <1>1, <2>2, <2>3, <2>4, MaybeFinishOK
<1>9. CASE ~pty
  <2>1. t = s
    BY <1>9
  <2> HIDE DEF t
  <2> QED
    BY <1>1, <1>4, <1>5, <1>6, <1>7, <2>1, MaybeFinishOK
<1> QED
  BY <1>8, <1>9, Fields DEF RunIInv

\* OutReady keeps the invariant (ExecEnd::on_fd_ready).
LEMMA OutReadyOK == ASSUME RunIInv, NEW f \in Streams, OutReady(f) PROVE RunIInv'
<1>1. /\ cl \in Clients /\ down \in Downlinks /\ end \in ExecEnds
      /\ prog \in Programs /\ Chain(down) \in Seq(Signals)
  BY Fields DEF RunIInv
<1>2. /\ end.open /\ f \in end.fds /\ prog.pipe[f] > 0
      /\ down' = [down EXCEPT !.net = Append(@, f)]
      /\ prog' = [prog EXCEPT !.pipe[f] = @ - 1]
      /\ UNCHANGED <<pty, cl, up, inst, end, orphan, faults>>
  BY DEF OutReady, Watched, Watches, Streams
<1>3. ~end.reaped
  BY <1>2 DEF RunIInv, ProgOK
<1>4. prog.pipe \in [Streams -> Nat] /\ [prog.pipe EXCEPT ![f] = @ - 1] \in [Streams -> Nat]
  BY <1>1, <1>2 DEF Programs
<1>5. /\ prog' \in Programs /\ prog'.st = prog.st /\ prog'.stdin = prog.stdin
      /\ prog'.pin = prog.pin /\ prog'.read = prog.read /\ prog'.writers = prog.writers
      /\ prog'.pipe = [prog.pipe EXCEPT ![f] = @ - 1] /\ prog'.wrote = prog.wrote
  BY <1>1, <1>2, <1>4 DEF Programs
<1>6. /\ down' \in Downlinks /\ down'.q = down.q /\ down'.sock = down.sock
      /\ down'.wnd = down.wnd /\ down'.pre = down.pre /\ Chain(down') = Append(Chain(down), f)
      /\ \A i \in 1 .. Len(down'.net) :
           down'.net[i] = "ok" => i \in 1 .. Len(down.net) /\ down.net[i] = "ok"
  <2>1. f \in Sendable /\ down' = [down EXCEPT !.net = Append(@, f)] /\ down \in Downlinks
    BY <1>1, <1>2 DEF Sendable
  <2> QED
    BY <2>1, ChainAppend
<1>7. RunTypeOK' /\ Bounded'
  BY <1>2, <1>5, <1>6 DEF RunIInv, RunTypeOK, Bounded
<1>8. InstOK' /\ UpWindow(end, up.wnd)' /\ DownWindow(down, inst.st)'
  BY <1>2, <1>6 DEF RunIInv, InstOK, UpWindow, DownWindow
<1>9. ProgOK'
  <2>1. \A g \in Streams \ end.fds : prog'.pipe[g] = 0
    BY <1>2, <1>4, <1>5 DEF RunIInv, ProgOK
  <2> QED
    BY <1>2, <1>5, <2>1 DEF RunIInv, ProgOK
<1>10. EofOK' /\ InputOK' /\ StatusOK'
  BY <1>2, <1>5 DEF RunIInv, EofOK, InputOK, Supplied, StatusOK
<1>11. Delivery(Chain(down), cl, end, prog)'
  <2> DEFINE a == Chain(down)
  <2>1. a \in Seq(Signals) /\ Delivery(a, cl, end, prog)
    BY <1>1 DEF RunIInv
  <2> HIDE DEF a
  <2>2. Delivery(Append(a, f), cl, end, prog')
    BY <1>1, <1>2, <1>3, <1>5, <2>1, DeliveryOut
  <2> QED
    BY <1>2, <1>6, <2>2 DEF a
<1> QED
  BY <1>7, <1>8, <1>9, <1>10, <1>11 DEF RunIInv

-----------------------------------------------------------------------------
(* The theorems *)

\* Short sequences.
LEMMA ShortSeqs ==
  /\ Len(<<>>) = 0 /\ Frames(<<>>) = <<>> /\ Accounted(<<>>) = 0
  /\ \A x : ~Has(<<>>, x)
  /\ \A S : CountIn(<<>>, S) = 0
  /\ <<>> \o <<>> = <<>>
<1>1. Len(<<>>) = 0
  OBVIOUS
<1>2. Frames(<<>>) = <<>>
  BY DEF Frames
<1>3. Accounted(<<>>) = 0
  BY EmptySeq, AccountedParts
<1>4. \A x : ~Has(<<>>, x)
  BY <1>1 DEF Has
<1>5. \A S : CountIn(<<>>, S) = 0
  BY CountEmpty
<1>6. <<>> \o <<>> = <<>>
  BY EmptySeq, ConcatEmptySeq
<1> QED
  BY <1>1, <1>2, <1>3, <1>4, <1>5, <1>6

\* The start: what depends on how the program started is assumed.
LEMMA StartOf ==
  ASSUME RunInit, prog \in Programs, end \in ExecEnds,
         NEW net \in Seq(Streams \cup {"ok", "exit", "fin"}),
         down = [net |-> net, wnd |-> Window, q |-> <<>>, sock |-> <<>>, pre |-> 0],
         \A i \in 1 .. Len(net) : net[i] = "ok" => i = 1,
         end.open, end.real = 0, end.synth = 0, ~end.eof, prog.pin = <<>>, ProgOK,
         prog.st = "run" => end.in /\ prog.read = 0,
         Delivery(net, cl, end, prog)
  PROVE  RunIInv
<1>1. /\ cl = NewClient /\ up = [sock |-> <<>>, net |-> <<>>, wnd |-> Window]
      /\ inst = [st |-> "dial", watch |-> FALSE, closing |-> FALSE, fd |-> TRUE]
      /\ orphan = NoOrphan /\ faults = MaxFaults /\ pty \in BOOLEAN
  BY DEF RunInit
<1>2. /\ cl.st = "await" /\ cl.left = Input /\ cl.stdin /\ cl.frame = "eof"
      /\ cl.status = "none" /\ cl.got = 0
  BY <1>1 DEF NewClient
<1>3. cl \in Clients
  <2>1. Input \in 0 .. Input
    BY ExecAssumption
  <2> QED
    BY <1>1, <2>1 DEF NewClient, Clients
<1>4. /\ <<>> \in Seq({"data", "eof"}) /\ <<>> \in Seq({"data", "eof", "fin"})
      /\ <<>> \in Seq(Chunks) /\ <<>> \in Seq(Streams \cup {"ready", "exit"})
  BY EmptySeq
<1>5. Window \in 0 .. Window /\ 0 \in Nat /\ Window \in Nat
  BY ExecAssumption
<1>6. up \in Uplinks /\ down \in Downlinks
  BY <1>1, <1>4, <1>5 DEF Uplinks, Downlinks
<1>7. inst \in Instances
  BY <1>1 DEF Instances
<1>8. orphan \in Orphans /\ faults \in 0 .. MaxFaults
  <2>1. 0 \in 0 .. KillAfter /\ MaxFaults \in 0 .. MaxFaults
    BY ExecAssumption
  <2> QED
    BY <1>1, <2>1 DEF NoOrphan, Orphans
<1>9. RunTypeOK
  BY <1>1, <1>3, <1>6, <1>7, <1>8 DEF RunTypeOK
<1>10. down.net = net /\ down.sock = <<>> /\ down.q = <<>> /\ down.wnd = Window /\ down.pre = 0
  OBVIOUS
<1>11. up.net = <<>> /\ up.sock = <<>> /\ up.wnd = Window
  BY <1>1
<1>12. inst.st = "dial" /\ inst.fd /\ ~inst.closing
  BY <1>1
<1>13. Bounded
  BY <1>10, ShortSeqs, ExecAssumption DEF Bounded
<1>14. InstOK
  BY <1>2, <1>10, <1>11, <1>12, ShortSeqs DEF InstOK
<1>15. UpWindow(end, up.wnd) /\ DownWindow(down, inst.st)
  BY <1>5, <1>10, <1>11, ShortSeqs DEF UpWindow, DownWindow
<1>16. Flow(up) = <<>>
  BY <1>11, ShortSeqs DEF Flow
<1>17. EofOK
  BY <1>2, <1>16, ShortSeqs DEF EofOK, Upstream, Keystroke, OnlyFinAfter
<1>18. InputOK
  <2>1. Sending(cl) = 0
    BY <1>2 DEF Sending
  <2>2. ASSUME prog.st = "run" PROVE Supplied(Flow(up), cl, end, prog, inst.st)
    <3>1. Input + 0 + 0 + 0 + 0 + 0 = Input
      BY ExecAssumption
    <3> QED
      BY <1>2, <1>16, <2>1, <2>2, <3>1, ShortSeqs DEF Supplied
  <2> QED
    BY <2>2 DEF InputOK
<1>19. Chain(down) = net
  <2> HIDE DEF Signals
  <2>1. net \in Seq(Signals)
    BY <1>6, <1>10, ChainOf
  <2>2. <<>> \o net = net
    BY <2>1, ConcatEmptySeq
  <2> QED
    BY <1>10, <2>2, ShortSeqs DEF Chain
<1>20. StatusOK
  BY <1>2 DEF StatusOK
<1> QED
  BY <1>9, <1>13, <1>14, <1>15, <1>17, <1>18, <1>19, <1>20 DEF RunIInv

\* RunInit keeps the invariant (make_exec_end).
LEMMA RunInitOK == ASSUME RunInit PROVE RunIInv
<1> DEFINE Z == Streams \cup {"ok", "exit", "fin"}
           none == [s \in Streams |-> 0]
<1>1. pty \in BOOLEAN /\ cl = NewClient /\ orphan = NoOrphan
  BY DEF RunInit
<1>2. cl.got = 0 /\ cl.st = "await"
  BY <1>1 DEF NewClient
<1>3. none \in [Streams -> Nat] /\ \A s \in Streams : none[s] = 0
  OBVIOUS
<1>4. <<>> \in Seq({"data", "veof"})
  BY EmptySeq
<1>5. CASE NotStarted
  <2> DEFINE net == <<"ok", "err", "exit">>
  <2>1. /\ prog = [st |-> "none", owed |-> 0, stdin |-> FALSE, pin |-> <<>>, pipe |-> none,
                   writers |-> {}, read |-> 0, wrote |-> 1]
        /\ end = [open |-> TRUE, in |-> FALSE, real |-> 0, synth |-> 0, eof |-> FALSE,
                  fds |-> {}, reaped |-> TRUE, shut |-> TRUE]
        /\ down = [net |-> net, wnd |-> Window, q |-> <<>>, sock |-> <<>>, pre |-> 0]
    BY <1>5 DEF NotStarted
  <2> HIDE DEF none
  <2>2. /\ prog \in Programs /\ prog.st = "none" /\ prog.pin = <<>> /\ prog.pipe = none
        /\ prog.wrote = 1
    BY <1>3, <1>4, <2>1 DEF Programs
  <2>3. /\ end \in ExecEnds /\ end.open /\ end.real = 0 /\ end.synth = 0 /\ ~end.eof
        /\ end.fds = {} /\ end.reaped
    BY <2>1 DEF ExecEnds
  <2>4. /\ net \in Seq(Z) /\ Len(net) = 3 /\ net[1] = "ok" /\ net[2] = "err" /\ net[3] = "exit"
        /\ \A i \in 1 .. 3 : i = 1 \/ i = 2 \/ i = 3
    BY DEF Streams
  <2> HIDE DEF net
  <2>5. \A i \in 1 .. Len(net) : net[i] = "ok" => i = 1
    BY <2>4
  <2>6. ProgOK
    BY <1>3, <2>2, <2>3 DEF ProgOK
  <2>7. CountIn(net, Streams) = 1
    <3>1. {i \in 1 .. Len(net) : net[i] \in Streams} = {2}
      BY <2>4 DEF Streams
    <3> QED
      BY <3>1, FS_Singleton DEF CountIn
  <2>8. OnlyFinAfter(net, "exit") /\ ~Has(net, "fin")
    BY <2>4 DEF OnlyFinAfter, Has
  <2>9. Delivery(net, cl, end, prog)
    <3>1. \A i \in 1 .. Len(net) : net[i] # "ready"
      BY <2>4
    <3>2. cl.got + CountIn(net, Streams) = prog.wrote
      BY <1>2, <2>2, <2>7
    <3> QED
      BY <2>3, <2>8, <3>1, <3>2 DEF Delivery
  <2>10. net \in Seq(Streams \cup {"ok", "exit", "fin"})
    BY <2>4
  <2> HIDE DEF Z
  <2> QED
    BY <2>1, <2>2, <2>3, <2>5, <2>6, <2>9, <2>10, StartOf
<1>6. CASE \E owed \in 0 .. MaxStart : Started(owed)
  <2> DEFINE net == <<"ok">>
  <2>1. PICK owed \in 0 .. MaxStart : Started(owed)
    BY <1>6
  <2>2. /\ prog = [st |-> "run", owed |-> owed, stdin |-> TRUE, pin |-> <<>>, pipe |-> none,
                   writers |-> Fds(pty), read |-> 0, wrote |-> 0]
        /\ end = [open |-> TRUE, in |-> TRUE, real |-> 0, synth |-> 0, eof |-> FALSE,
                  fds |-> Fds(pty), reaped |-> FALSE, shut |-> FALSE]
        /\ down = [net |-> net, wnd |-> Window, q |-> <<>>, sock |-> <<>>, pre |-> 0]
    BY <2>1 DEF Started
  <2> HIDE DEF none
  <2>3. Fds(pty) \in SUBSET Streams /\ "out" \in Fds(pty) /\ (pty => Fds(pty) = {"out"})
    BY <1>1 DEF Fds, Streams
  <2>4. /\ prog \in Programs /\ prog.st = "run" /\ prog.pin = <<>> /\ prog.pipe = none
        /\ prog.wrote = 0 /\ prog.read = 0 /\ prog.writers = Fds(pty)
    BY <1>3, <1>4, <2>2, <2>3 DEF Programs
  <2>5. /\ end \in ExecEnds /\ end.open /\ end.in /\ end.real = 0 /\ end.synth = 0 /\ ~end.eof
        /\ end.fds = Fds(pty) /\ ~end.reaped
    BY <2>2, <2>3 DEF ExecEnds
  <2>6. /\ net \in Seq(Z) /\ Len(net) = 1 /\ net[1] = "ok" /\ \A i \in 1 .. 1 : i = 1
    OBVIOUS
  <2> HIDE DEF net
  <2>7. ProgOK
    BY <1>3, <2>3, <2>4, <2>5 DEF ProgOK
  <2>8. CountIn(net, Streams) = 0
    <3>1. \A i \in 1 .. Len(net) : net[i] \notin Streams
      BY <2>6 DEF Streams
    <3> QED
      BY <3>1, CountNone
  <2>9. OnlyFinAfter(net, "exit") /\ ~Has(net, "fin") /\ ~Has(net, "exit")
    BY <2>6 DEF OnlyFinAfter, Has
  <2>10. Delivery(net, cl, end, prog)
    <3>1. \A i \in 1 .. Len(net) : net[i] # "ready"
      BY <2>6
    <3>2. prog.pipe["out"] = 0 /\ prog.pipe["err"] = 0
      BY <1>3, <2>4 DEF Streams
    <3>3. cl.got + CountIn(net, Streams) + prog.pipe["out"] + prog.pipe["err"] = prog.wrote
      BY <1>2, <2>4, <2>8, <3>2
    <3> QED
      BY <2>5, <2>9, <3>1, <3>3 DEF Delivery
  <2>11. net \in Seq(Streams \cup {"ok", "exit", "fin"})
    BY <2>6
  <2>12. \A i \in 1 .. Len(net) : net[i] = "ok" => i = 1
    BY <2>6
  <2> HIDE DEF Z
  <2> QED
    BY <2>2, <2>4, <2>5, <2>7, <2>10, <2>11, <2>12, StartOf
<1> QED
  BY <1>5, <1>6 DEF RunInit

\* A step that changes nothing.
LEMMA RunIdle == ASSUME RunIInv, UNCHANGED runVars PROVE RunIInv'
<1> USE DEF runVars
<1>1. RunTypeOK' /\ Bounded' /\ InstOK'
  BY DEF RunIInv, RunTypeOK, Bounded, InstOK
<1>2. UpWindow(end, up.wnd)' /\ DownWindow(down, inst.st)' /\ ProgOK' /\ StatusOK'
  BY DEF RunIInv, UpWindow, DownWindow, ProgOK, StatusOK
<1>3. EofOK' /\ InputOK'
  BY InputKept DEF RunIInv
<1>4. Delivery(Chain(down), cl, end, prog)'
  BY DeliveryMoved DEF RunIInv
<1> QED
  BY <1>1, <1>2, <1>3, <1>4 DEF RunIInv

\* No step of a run breaks the invariant.
LEMMA RunStep == ASSUME RunIInv, [RunNext]_runVars PROVE RunIInv'
<1>1. CASE Client
  BY <1>1, ClientReadOK, ClientLostOK, ReadStdinOK, SentOK DEF Client
<1>2. CASE Daemons
  <2>1. CASE \E n \in 0 .. Len(down.net) - 1 : OpenOk(n)
    BY <2>1, OpenOkOK
  <2>2. CASE RecvOutput \/ FlushClient \/ RecvFin \/ ClientTooSlow \/ CfdReady \/ Resume
    BY <2>2, RecvOutputOK, FlushClientOK, RecvFinOK, ClientTooSlowOK, CfdReadyOK, ResumeOK
  <2>3. CASE RecvInput \/ InReady \/ EndTick \/ CloseEnd \/ RecvHangup \/ Discard \/ ReapOrphans
    BY <2>3, RecvInputOK, InReadyOK, EndTickOK, CloseEndOK, RecvHangupOK, DiscardOK, ReapOrphansOK
  <2>4. CASE \E f \in Streams : OutReady(f) \/ OutEof(f)
    BY <2>4, OutReadyOK, OutEofOK
  <2> QED
    BY <1>2, <2>1, <2>2, <2>3, <2>4 DEF Daemons
<1>3. CASE Filter
  BY <1>3, ProgReadOK, ProgWriteOK, ProgDoneOK, ChildEndsOK DEF Filter
<1>4. CASE \/ StdoutGone \/ ProgQuit \/ ProgCloseStdin \/ ProgCloseOutput \/ Break \/ StopDaemon
  BY <1>4, StdoutGoneOK, ProgQuitOK, ProgCloseStdinOK, ProgCloseOutputOK, BreakOK, StopDaemonOK
<1>5. CASE Finished \/ UNCHANGED runVars
  BY <1>5, RunIdle DEF Finished
<1> QED
  BY <1>1, <1>2, <1>3, <1>4, <1>5 DEF RunNext

\* The invariant holds in every state of a run.
LEMMA RunInvariant == RunSpec => []RunIInv
<1>1. RunInit => RunIInv
  BY RunInitOK
<1>2. RunIInv /\ [RunNext]_runVars => RunIInv'
  BY RunStep
<1> QED
  BY <1>1, <1>2, PTL DEF RunSpec

\* At the end of its input a program has read all of it.
LEMMA EofIsLast == ASSUME RunIInv PROVE EofAfterInput
<1> SUFFICES ASSUME prog.st = "run", prog.stdin, end.open, AtEof PROVE prog.read = Input
  BY DEF EofAfterInput
<1> DEFINE a == prog.pin
           D == {"data"}
           fl == Flow(up)
<1>1. /\ cl \in Clients /\ end \in ExecEnds /\ prog \in Programs
      /\ a \in Seq({"data", "veof"}) /\ fl \in Seq({"data", "eof", "fin"})
  BY Fields DEF RunIInv
<1>2. /\ Upstream(fl, cl, end.eof) /\ Keystroke(end, a)
      /\ (~end.in => end.eof) /\ Supplied(fl, cl, end, prog, inst.st)
  BY DEF RunIInv, EofOK, InputOK
<1>3. end.eof /\ end.real = 0 /\ CountIn(a, D) = 0
  <2>1. CASE a = <<>> /\ ~end.in
    BY <1>2, <2>1, CountEmpty DEF Keystroke
  <2>2. CASE a # <<>> /\ Head(a) = "veof"
    <3> HIDE DEF a
    <3>1. Head(a) = a[1] /\ Len(a) \in Nat \ {0}
      BY <1>1, <2>2, HeadAndTail
    <3>2. 1 \in 1 .. Len(a) /\ a[1] = "veof"
      BY <2>2, <3>1
    <3>3. 1 = Len(a) /\ end.eof /\ end.real = 0
      BY <1>2, <3>2 DEF Keystroke
    <3>4. \A i \in 1 .. Len(a) : a[i] \notin D
      <4>1. 1 .. Len(a) = {1}
        <5>1. 1 .. 1 = {1} /\ Len(a) = 1
          BY <3>3
        <5> QED
          BY <5>1
      <4> QED
        BY <3>2, <4>1
    <3>5. CountIn(a, D) = 0
      <4> HIDE DEF D
      <4> QED
        BY <3>4, CountNone
    <3> QED
      BY <3>3, <3>5
  <2> QED
    BY <2>1, <2>2 DEF AtEof
<1>4. CountIn(fl, D) = 0
  <2>1. \A i \in 1 .. Len(fl) : fl[i] = "fin"
    BY <1>2, <1>3 DEF Upstream
  <2>2. \A i \in 1 .. Len(fl) : fl[i] \notin D
    BY <2>1
  <2> HIDE DEF D
  <2> QED
    BY <2>2, CountNone
<1>5. cl.left = 0 /\ Sending(cl) = 0
  BY <1>2, <1>3 DEF Upstream, Sending
<1>6. cl.left + Sending(cl) + CountIn(fl, D) + end.real + CountIn(a, D) + prog.read = Input
  BY <1>2, <1>3 DEF Supplied
<1>7. prog.read \in Nat
  BY <1>1 DEF Programs
<1> QED
  BY <1>3, <1>4, <1>5, <1>6, <1>7

\* Every state of a run keeps the windows exact, gives the program all its input before the
\* end of it, and forgets no program whose connection is gone (ExecEnd, client_write and
\* account in daemon.cpp and exec.cpp), whatever the sizes of the buffers and windows.
THEOREM RunCorrect == RunSpec => []RunInv
<1>1. RunIInv => RunInv
  <2> SUFFICES ASSUME RunIInv PROVE RunInv
    OBVIOUS
  <2>1. RunTypeOK
    BY DEF RunIInv
  <2>2. WindowsExact
    BY DEF RunIInv, UpWindow, DownWindow, WindowsExact
  <2>3. EofAfterInput
    BY EofIsLast
  <2>4. NoneForgotten
    BY DEF RunIInv, ProgOK, NoneForgotten
  <2> QED
    BY <2>1, <2>2, <2>3, <2>4 DEF RunInv
<1> QED
  BY <1>1, RunInvariant, PTL

\* A client that got EXIT has got every frame the program wrote, on both streams.
THEOREM ExitComesLast == RunSpec => []ExitIsLast
<1>1. RunIInv => ExitIsLast
  BY DEF RunIInv, StatusOK, ExitIsLast
<1> QED
  BY <1>1, RunInvariant, PTL
=============================================================================
