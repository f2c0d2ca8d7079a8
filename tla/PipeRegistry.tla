---------------------------- MODULE PipeRegistry ----------------------------
(***************************************************************************)
(* The pipes one daemon session offers its peer (peer/daemon.cpp): the      *)
(* registration table, the inbound instances it spawns, the owner sockets   *)
(* of PIPE registrations and the files that make the others durable.        *)
(*                                                                          *)
(* The daemon is one event loop, so one action is one callback (a tunnel    *)
(* event, a readable owner socket, a control command, a tick) run to its    *)
(* end.  The peer, the owner processes, the users of the control socket and *)
(* a crash come in any order between two callbacks.  Descriptor numbers are *)
(* reused as the kernel reuses them; ids and serials are not.               *)
(***************************************************************************)
EXTENDS Integers, FiniteSets

CONSTANTS
  Names,      \* pipe names a user may register or a peer may ask for
  Sanitize,   \* the file name the store keeps a name under
  Fds,        \* descriptor numbers of owner sockets
  None,       \* no name, no descriptor
  MaxLimit,   \* largest LIMIT a user gives
  MaxInst,    \* bound: connections accepted by one daemon process
  MaxSerial   \* bound: registrations made by one daemon process

ASSUME NameAssumption ==
  /\ IsFiniteSet(Names)
  /\ None \notin Names \cup Fds
  /\ Sanitize \in [Names -> Names]
  /\ \A n \in Names : Sanitize[Sanitize[n]] = Sanitize[n]

ASSUME BoundAssumption ==
  /\ MaxLimit \in Nat
  /\ MaxInst \in Nat
  /\ MaxSerial \in Nat
  /\ Cardinality(Names) <= MaxSerial

VARIABLES
  running,      \* a daemon process serves this session
  disk,         \* <config>/pipes/<peer>/: the limit in each file, or NoFile
  regs,         \* Session::regs
  insts,        \* Session::insts, the inbound ones
  next_id,      \* Session::next_id
  next_serial,  \* Session::next_reg_serial
  want_close,   \* Session::want_close
  want_retire,  \* Session::want_retire
  sock,         \* each descriptor number: free, open, or closing behind its queue
  watch,        \* the owner callback installed on it, or kept in paused_owners_
  owner,        \* the client process at the other end
  data,         \* bytes it wrote that the daemon has not read
  served        \* history: instances started since the name was registered

vars == <<running, disk, regs, insts, next_id, next_serial, want_close,
          want_retire, sock, watch, owner, data, served>>
clientVars == <<owner, data>>
queueVars == <<want_close, want_retire>>

Ids == 0 .. MaxInst - 1
Serials == 1 .. MaxSerial
Limits == 0 .. MaxLimit          \* 0 is unlimited

NoFile == -1

\* A registration; serial 0 is "no registration" (daemon.cpp:212).  Exactly
\* the daemon-owned ones (owner_fd = None) are persisted.
Reg == [serial : 0 .. MaxSerial, limit : Limits, started : Nat, active : Nat,
        finished : Nat, owner_fd : Fds \cup {None}]
NoReg == [serial |-> 0, limit |-> 0, started |-> 0, active |-> 0,
          finished |-> 0, owner_fd |-> None]

\* An inbound instance.  full: its tunnel connection has no room for a chunk.
Inst == [state : {"none", "handshake", "open"}, name : Names \cup {None},
         serial : 0 .. MaxSerial, cfd : Fds \cup {None}, full : BOOLEAN]
NoInst == [state |-> "none", name |-> None, serial |-> 0, cfd |-> None,
           full |-> FALSE]
Handshaking == [state |-> "handshake", name |-> None, serial |-> 0,
                cfd |-> None, full |-> FALSE]

Watch == [mode : {"off", "polled", "paused"}, name : Names \cup {None},
          serial : 0 .. MaxSerial]
NoWatch == [mode |-> "off", name |-> None, serial |-> 0]

TypeOK ==
  /\ running \in BOOLEAN
  /\ disk \in [Names -> Limits \cup {NoFile}]
  /\ regs \in [Names -> Reg]
  /\ insts \in [Ids -> Inst]
  /\ next_id \in 0 .. MaxInst
  /\ next_serial \in 1 .. MaxSerial + 1
  /\ want_close \in SUBSET Ids
  /\ want_retire \in SUBSET Serials
  /\ sock \in [Fds -> {"free", "open", "closing"}]
  /\ watch \in [Fds -> Watch]
  /\ owner \in [Fds -> {"alive", "gone"}]
  /\ data \in [Fds -> BOOLEAN]
  /\ served \in [Names -> Nat]

(***************************************************************************)
(* Reading the table                                                        *)
(***************************************************************************)

Offered(n) == regs[n].serial # 0

\* Mutant: one instance more than the limit.
SpentLate(r) == r.limit # 0 /\ r.started > r.limit

\* The N-shot quota is used up.
Spent(r) == r.limit # 0 /\ r.started >= r.limit

\* The instances a registration has running.
Of(I, s) == {i \in Ids : I[i].serial = s}

\* The instances that share an owner socket.
Users(I, f) == {i \in Ids : I[i].cfd = f}

\* Mutant: only a registration keeps the owner socket open.
InUseByOffer(R, I, f) == \E n \in Names : R[n].owner_fd = f

\* release_owner_fd keeps a descriptor that a registration or an instance uses.
InUse(R, I, f) == \/ \E n \in Names : R[n].owner_fd = f
                  \/ \E i \in Ids : I[i].cfd = f

\* Someone takes the owner's bytes and everyone who does has room for a chunk.
Room(f) == Users(insts, f) # {} /\ \A i \in Users(insts, f) : ~ insts[i].full

(***************************************************************************)
(* Changing the table                                                       *)
(***************************************************************************)

\* close_instance, for a set of instances: the counters move only for the
\* registration whose serial the instance carries.
ClosedInsts(K) == [i \in Ids |-> IF i \in K THEN NoInst ELSE insts[i]]

\* Mutant: the instances are counted by name alone.
CountClosedByName(K, n) == Cardinality({i \in K : insts[i].name = n})

CountClosed(K, n) ==
  Cardinality({i \in K : insts[i].name = n /\ insts[i].serial = regs[n].serial})

\* The table after unregister of the names in D and close_instance of K.
Remaining(D, K) ==
  [n \in Names |->
     IF n \in D \/ ~ Offered(n) THEN NoReg
     ELSE [serial |-> regs[n].serial, limit |-> regs[n].limit,
           started |-> regs[n].started,
           active |-> regs[n].active - CountClosed(K, n),
           finished |-> regs[n].finished + CountClosed(K, n),
           owner_fd |-> regs[n].owner_fd]]

\* Mutant: the file stays.
KeepFiles(D) == disk

\* unregister deletes the file of a persisted registration.
WipedFiles(D) ==
  [n \in Names |-> IF \E m \in D : regs[m].owner_fd = None /\ Sanitize[m] = n
                   THEN NoFile ELSE disk[n]]

\* Mutant: the last instance does not release the socket.
ReleasedByOffer(D, K) == {f \in Fds : \E n \in D : regs[n].owner_fd = f}

\* The owner sockets release_owner_fd is called for.
Released(D, K) == {f \in Fds : \/ \E n \in D : regs[n].owner_fd = f
                               \/ \E i \in K : insts[i].cfd = f}

\* Mutant: a closed socket keeps its callback.
TeardownKeepsWatch(D, K, W) ==
  LET unused == {f \in Released(D, K) : ~ InUse(Remaining(D, K), ClosedInsts(K), f)}
  IN  /\ regs' = Remaining(D, K)
      /\ insts' = ClosedInsts(K)
      /\ disk' = WipedFiles(D)
      /\ watch' = W
      /\ sock' = [f \in Fds |-> IF f \in unused THEN "free" ELSE sock[f]]

\* Unregister D and close K.  An owner socket that nothing uses any more is
\* closed by close_client: at once, or after the output queued for the client.
Teardown(D, K, W) ==
  LET unused == {f \in Released(D, K) : ~ InUse(Remaining(D, K), ClosedInsts(K), f)}
  IN  /\ regs' = Remaining(D, K)
      /\ insts' = ClosedInsts(K)
      /\ disk' = WipedFiles(D)
      /\ watch' = [f \in Fds |-> IF f \in unused THEN NoWatch ELSE W[f]]
      /\ \E queued \in SUBSET unused :
           sock' = [f \in Fds |-> IF f \in queued THEN "closing"
                                  ELSE IF f \in unused THEN "free" ELSE sock[f]]

\* Mutant: the serial is not used up.
AddRegSameSerial(n, limit, f) ==
  /\ next_serial <= MaxSerial
  /\ regs' = [regs EXCEPT ![n] =
                [serial |-> next_serial, limit |-> limit, started |-> 0,
                 active |-> 0, finished |-> 0, owner_fd |-> f]]
  /\ next_serial' = next_serial
  /\ served' = [served EXCEPT ![n] = 0]

\* add_reg: the next serial, whatever was under the name before.
AddReg(n, limit, f) ==
  /\ next_serial <= MaxSerial
  /\ regs' = [regs EXCEPT ![n] =
                [serial |-> next_serial, limit |-> limit, started |-> 0,
                 active |-> 0, finished |-> 0, owner_fd |-> f]]
  /\ next_serial' = next_serial + 1
  /\ served' = [served EXCEPT ![n] = 0]

\* The process ends: its memory goes and the kernel closes its sockets.
ProcessGone ==
  /\ running' = FALSE
  /\ regs' = [n \in Names |-> NoReg]
  /\ insts' = [i \in Ids |-> NoInst]
  /\ next_id' = 0
  /\ next_serial' = 1
  /\ want_close' = {}
  /\ want_retire' = {}
  /\ sock' = [f \in Fds |-> "free"]
  /\ watch' = [f \in Fds |-> NoWatch]
  /\ owner' = [f \in Fds |-> "gone"]
  /\ data' = [f \in Fds |-> FALSE]

(***************************************************************************)
(* Tunnel events                                                            *)
(***************************************************************************)

\* accept_inbound
AcceptInbound ==
  /\ running
  /\ next_id < MaxInst
  /\ insts' = [insts EXCEPT ![next_id] = Handshaking]
  /\ next_id' = next_id + 1
  /\ UNCHANGED <<running, disk, regs, next_serial, queueVars, sock, watch,
                 clientVars, served>>

\* on_tunnel_data, the line names an offer with quota left: it is counted,
\* bound to the owner's socket if it is a PIPE, and the offer is to be
\* retired when this was its last instance.
Resolve(i, n) ==
  LET r == regs[n]
  IN  /\ running
      /\ insts[i].state = "handshake"
      /\ Offered(n)
      /\ ~ Spent(r)
      /\ regs' = [regs EXCEPT ![n] =
                    [serial |-> r.serial, limit |-> r.limit,
                     started |-> r.started + 1, active |-> r.active + 1,
                     finished |-> r.finished, owner_fd |-> r.owner_fd]]
      /\ insts' = [insts EXCEPT ![i] =
                    [state |-> "open", name |-> n, serial |-> r.serial,
                     cfd |-> r.owner_fd, full |-> FALSE]]
      /\ want_retire' = IF r.limit # 0 /\ r.started + 1 >= r.limit
                        THEN want_retire \cup {r.serial} ELSE want_retire
      /\ served' = [served EXCEPT ![n] =
                      IF r.limit = 0 \/ @ > r.limit THEN @ ELSE @ + 1]
      /\ UNCHANGED <<running, disk, next_id, next_serial, want_close, sock,
                     watch, clientVars>>

\* on_tunnel_data, any other first line: __PING__ or __LIST__ is answered, an
\* unknown or spent name gets UNKNOWN, and more than 256 bytes without a line
\* are garbage; each time the instance is closed.
Reject(i) ==
  /\ running
  /\ insts[i].state = "handshake"
  /\ Teardown({}, {i}, watch)
  /\ UNCHANGED <<running, next_id, next_serial, queueVars, clientVars, served>>

\* on_tunnel_gone: the connection is closed or reset, at any stage.
TunnelGone(i) ==
  /\ running
  /\ insts[i].state # "none"
  /\ Teardown({}, {i}, watch)
  /\ UNCHANGED <<running, next_id, next_serial, queueVars, clientVars, served>>

\* A local end calls shutdown from inside one of its own methods.
LocalShutdown(i) ==
  /\ running
  /\ insts[i].state = "open"
  /\ insts[i].cfd = None
  /\ want_close' = want_close \cup {i}
  /\ UNCHANGED <<running, disk, regs, insts, next_id, next_serial, want_retire,
                 sock, watch, clientVars, served>>

\* The peer acknowledges: the connection has room for a chunk again.
TunnelDrained(i) ==
  /\ running
  /\ insts[i].full
  /\ insts' = [insts EXCEPT ![i].full = FALSE]
  /\ UNCHANGED <<running, disk, regs, next_id, next_serial, queueVars, sock,
                 watch, clientVars, served>>

(***************************************************************************)
(* Owner sockets                                                            *)
(***************************************************************************)

\* on_owner_readable with bytes and room: every instance on the socket gets
\* them.  More may be left behind, and a connection may be full afterwards.
OwnerForward(f) ==
  /\ running
  /\ watch[f].mode = "polled"
  /\ data[f]
  /\ Room(f)
  /\ \E more \in BOOLEAN : data' = [data EXCEPT ![f] = more]
  /\ \E K \in SUBSET Users(insts, f) :
       insts' = [i \in Ids |->
                   IF i \in K THEN [insts[i] EXCEPT !.full = TRUE] ELSE insts[i]]
  /\ UNCHANGED <<running, disk, regs, next_id, next_serial, queueVars, sock,
                 watch, owner, served>>

\* on_owner_readable with bytes nobody can take: the socket is not polled
\* until resume_owners finds someone with room.
OwnerPause(f) ==
  /\ running
  /\ watch[f].mode = "polled"
  /\ data[f]
  /\ ~ Room(f)
  /\ watch' = [watch EXCEPT ![f].mode = "paused"]
  /\ UNCHANGED <<running, disk, regs, insts, next_id, next_serial, queueVars,
                 sock, clientVars, served>>

\* Mutant: the end of the owner closes its instances and keeps its offer.
OwnerEofKeepsOffer(f) ==
  /\ running
  /\ watch[f].mode = "polled"
  /\ ~ data[f]
  /\ owner[f] = "gone"
  /\ Teardown({}, Users(insts, f), watch)
  /\ UNCHANGED <<running, next_id, next_serial, queueVars, clientVars, served>>

\* on_owner_readable at end of file: unregister the offer the callback was
\* installed for, if it is still the one under that name, and close every
\* instance on the socket.
OwnerEof(f) ==
  LET D == {n \in Names : /\ n = watch[f].name
                          /\ regs[n].serial = watch[f].serial
                          /\ regs[n].serial # 0}
      K == Users(insts, f)
  IN  /\ running
      /\ watch[f].mode = "polled"
      /\ ~ data[f]
      /\ owner[f] = "gone"
      /\ Teardown(D, K, watch)
      /\ UNCHANGED <<running, next_id, next_serial, queueVars, clientVars, served>>

\* flush_client empties a closing client's queue or finds the client dead, or
\* tick gives up on it after 30 s.
ClientFlushed(f) ==
  /\ sock[f] = "closing"
  /\ sock' = [sock EXCEPT ![f] = "free"]
  /\ UNCHANGED <<running, disk, regs, insts, next_id, next_serial, queueVars,
                 watch, clientVars, served>>

\* The owner process writes to its socket, or ends.
OwnerWrite(f) ==
  /\ sock[f] = "open"
  /\ owner[f] = "alive"
  /\ data' = [data EXCEPT ![f] = TRUE]
  /\ UNCHANGED <<running, disk, regs, insts, next_id, next_serial, queueVars,
                 sock, watch, owner, served>>

OwnerExit(f) ==
  /\ sock[f] = "open"
  /\ owner[f] = "alive"
  /\ owner' = [owner EXCEPT ![f] = "gone"]
  /\ UNCHANGED <<running, disk, regs, insts, next_id, next_serial, queueVars,
                 sock, watch, data, served>>

(***************************************************************************)
(* Control commands                                                         *)
(***************************************************************************)

\* REGISTER of a daemon-owned type: the file is written before the table.
RegisterOwned(n, limit) ==
  /\ running
  /\ ~ Offered(n)
  /\ AddReg(n, limit, None)
  /\ disk' = [disk EXCEPT ![Sanitize[n]] = limit]
  /\ UNCHANGED <<running, insts, next_id, queueVars, sock, watch, clientVars>>

\* The daemon dies in save_pipe, which empties the file before it writes it
\* (load_pipe skips an empty one), or between save_pipe and add_reg.
RegisterCrash(n, limit) ==
  /\ running
  /\ ~ Offered(n)
  /\ \E saved \in {NoFile, limit} : disk' = [disk EXCEPT ![Sanitize[n]] = saved]
  /\ served' = [served EXCEPT ![n] = 0]
  /\ ProcessGone

\* REGISTER of a PIPE: the control connection becomes the owner socket.
RegisterPipe(n, limit, f) ==
  /\ running
  /\ sock[f] = "free"
  /\ ~ Offered(n)
  /\ AddReg(n, limit, f)
  /\ sock' = [sock EXCEPT ![f] = "open"]
  /\ watch' = [watch EXCEPT ![f] = [mode |-> "polled", name |-> n,
                                    serial |-> next_serial]]
  /\ owner' = [owner EXCEPT ![f] = "alive"]
  /\ data' = [data EXCEPT ![f] = FALSE]
  /\ UNCHANGED <<running, disk, insts, next_id, queueVars>>

\* UNREGISTER: the instances keep running.
Unregister(n) ==
  /\ running
  /\ Offered(n)
  /\ Teardown({n}, {}, watch)
  /\ UNCHANGED <<running, next_id, next_serial, queueVars, clientVars, served>>

\* RESET: unregister everything, then close the instances that unregister
\* named: the ones of a registration that was still in the table.
Reset ==
  LET D == {n \in Names : Offered(n)}
      K == {i \in Ids : insts[i].serial \in {regs[n].serial : n \in D}}
  IN  /\ running
      /\ Teardown(D, K, watch)
      /\ UNCHANGED <<running, next_id, next_serial, queueVars, clientVars, served>>

\* The daemon dies after the files of some of the names are gone.
ResetCrash(D) ==
  /\ running
  /\ disk' = WipedFiles(D)
  /\ ProcessGone
  /\ UNCHANGED served

\* CLOSE
CloseCmd(i) ==
  /\ running
  /\ insts[i].state # "none"
  /\ Teardown({}, {i}, watch)
  /\ UNCHANGED <<running, next_id, next_serial, queueVars, clientVars, served>>

(***************************************************************************)
(* The tick, and the life of the process                                    *)
(***************************************************************************)

\* resume_owners: a paused owner is polled again when all its instances have room.
ResumeOwners ==
  [f \in Fds |-> IF watch[f].mode = "paused" /\ Room(f)
                 THEN [watch[f] EXCEPT !.mode = "polled"] ELSE watch[f]]

\* tick: resume_owners, then the ends that asked to close, then the
\* registrations to retire.
Tick ==
  LET D == {n \in Names : regs[n].serial \in want_retire}
  IN  /\ running
      /\ Teardown(D, want_close, ResumeOwners)
      /\ want_close' = {}
      /\ want_retire' = {}
      /\ UNCHANGED <<running, next_id, next_serial, clientVars, served>>

\* STOP, the idle auto-stop, or a crash: nothing on disk changes.
Stop ==
  /\ running
  /\ ProcessGone
  /\ UNCHANGED <<disk, served>>

\* start_session: the table is what list_pipes finds, under the file names, in
\* the order of the names (order is a numbering of them).
Start(order) ==
  LET found == {n \in Names : disk[n] # NoFile}
  IN  /\ ~ running
      /\ running' = TRUE
      /\ regs' = [n \in Names |->
                    IF n \in found
                    THEN [serial |-> order[n], limit |-> disk[n], started |-> 0,
                          active |-> 0, finished |-> 0, owner_fd |-> None]
                    ELSE NoReg]
      /\ next_serial' = Cardinality(found) + 1
      /\ UNCHANGED <<disk, insts, next_id, queueVars, sock, watch, clientVars,
                     served>>

\* A numbering of the stored names from 1, as the sorted directory gives one.
Numbering(order) ==
  LET found == {n \in Names : disk[n] # NoFile}
  IN  /\ \A n \in found : order[n] \in 1 .. Cardinality(found)
      /\ \A n, m \in found : order[n] = order[m] => n = m
      /\ \A n \in Names \ found : order[n] = 0

Init ==
  /\ running = TRUE
  /\ disk = [n \in Names |-> NoFile]
  /\ regs = [n \in Names |-> NoReg]
  /\ insts = [i \in Ids |-> NoInst]
  /\ next_id = 0
  /\ next_serial = 1
  /\ want_close = {}
  /\ want_retire = {}
  /\ sock = [f \in Fds |-> "free"]
  /\ watch = [f \in Fds |-> NoWatch]
  /\ owner = [f \in Fds |-> "gone"]
  /\ data = [f \in Fds |-> FALSE]
  /\ served = [n \in Names |-> 0]

PeerNext == \/ AcceptInbound
            \/ \E i \in Ids : \/ \E n \in Names : Resolve(i, n)
                              \/ Reject(i)
                              \/ TunnelGone(i)
                              \/ TunnelDrained(i)
                              \/ LocalShutdown(i)

OwnerNext == \E f \in Fds : \/ OwnerForward(f)
                            \/ OwnerPause(f)
                            \/ OwnerEof(f)
                            \/ ClientFlushed(f)
                            \/ OwnerWrite(f)
                            \/ OwnerExit(f)

CommandNext == \/ \E n \in Names, l \in Limits :
                    \/ RegisterOwned(n, l)
                    \/ RegisterCrash(n, l)
                    \/ \E f \in Fds : RegisterPipe(n, l, f)
               \/ \E n \in Names : Unregister(n)
               \/ Reset
               \/ \E i \in Ids : CloseCmd(i)

ProcessNext == \/ Tick
               \/ Stop
               \/ \E D \in SUBSET {n \in Names : Offered(n)} : ResetCrash(D)
               \/ \E order \in [Names -> 0 .. Cardinality(Names)] :
                    Numbering(order) /\ Start(order)

Next == PeerNext \/ OwnerNext \/ CommandNext \/ ProcessNext

Spec == Init /\ [][Next]_vars

\* The event loop keeps serving what is ready: a polled owner socket and the
\* tick.  Nothing is assumed of the peer, of the users or of the processes.
Fairness == WF_vars(Tick) /\ \A f \in Fds : /\ WF_vars(OwnerForward(f))
                                            /\ WF_vars(OwnerPause(f))
                                            /\ WF_vars(OwnerEof(f))
                                            /\ WF_vars(ClientFlushed(f))

FairSpec == Spec /\ Fairness

-----------------------------------------------------------------------------

\* The counters of a registration are its instances (daemon.cpp:197-199): it
\* has active of them running, and every one it started runs or has finished.
\* Closing an instance of an earlier registration of the name moves neither.
CountersExact ==
  \A n \in Names : Offered(n) =>
    /\ regs[n].active = Cardinality(Of(insts, regs[n].serial))
    /\ regs[n].started = regs[n].active + regs[n].finished

\* One daemon process starts at most LIMIT instances of a registration, and a
\* registration whose quota is spent is queued to be retired.
LimitHeld ==
  \A n \in Names : Offered(n) /\ regs[n].limit # 0 =>
    /\ regs[n].started <= regs[n].limit
    /\ Spent(regs[n]) => regs[n].serial \in want_retire

\* release_owner_fd (daemon.cpp:906-913): an owner socket is open exactly as
\* long as a registration or an instance uses it.  It is never closed under a
\* conversation, and never kept once nobody is left, which is what ends a
\* chat host process.
OwnerSocketUsed ==
  \A f \in Fds : sock[f] = "open" <=> InUse(regs, insts, f)

\* The callback on a reused descriptor number speaks for the registration that
\* owns it now, and a paused socket still holds the bytes it was paused for.
OwnerCallbackFresh ==
  \A f \in Fds :
    /\ sock[f] = "open" <=> watch[f].mode # "off"
    /\ watch[f].mode = "paused" => data[f]
    /\ \A n \in Names : regs[n].owner_fd = f =>
         watch[f].name = n /\ watch[f].serial = regs[n].serial

\* Instances on one owner socket all come from the registration that was made
\* with it, even after a new one took the name.
OneStream ==
  \A f \in Fds : \A i \in Users(insts, f) :
    insts[i].serial = watch[f].serial /\ insts[i].name = watch[f].name

\* A name no other name shares a file with.
OwnFile(n) == Sanitize[n] = n /\ \A m \in Names : Sanitize[m] = n => m = n

\* "the table is authoritative (REGISTER/UNREGISTER keep it and the disk in
\* sync)" (daemon.cpp:372-373), for a name with a file of its own.
DiskInSync ==
  running => \A n \in Names : OwnFile(n) =>
    disk[n] = IF Offered(n) /\ regs[n].owner_fd = None THEN regs[n].limit ELSE NoFile

\* The tick retires a registration only when its own quota is spent: a serial
\* queued for an earlier registration of the name never takes the new one.
RetiresOnlySpent ==
  [][Tick => \A n \in Names : Offered(n) /\ regs'[n].serial = 0 => Spent(regs[n])]_vars

\* An owner that ends with nothing unread takes its registration, its
\* instances and its descriptor with it.
QuietOwnerNoticed ==
  \A f \in Fds : (sock[f] = "open" /\ owner[f] = "gone" /\ ~ data[f]) ~> sock[f] # "open"

-----------------------------------------------------------------------------
(***************************************************************************)
(* The inductive invariant                                                  *)
(***************************************************************************)

\* Serials tell registrations apart and are never given out twice.
SerialFacts ==
  /\ \A n \in Names : regs[n].serial < next_serial
  /\ \A n, m \in Names : Offered(n) /\ regs[n].serial = regs[m].serial => n = m
  /\ \A s \in want_retire : s < next_serial
  /\ \A n \in Names : ~ Offered(n) => regs[n] = NoReg

\* An instance carries the name and the serial of the offer that served it.
InstFacts ==
  /\ \A i \in Ids : insts[i].serial < next_serial
  /\ \A i \in Ids : insts[i].state # "open" => insts[i].serial = 0 /\ insts[i].cfd = None
  /\ \A i \in Ids : insts[i].state = "open" => insts[i].serial # 0
  /\ \A i \in Ids, n \in Names :
       insts[i].state = "open" /\ insts[i].serial = regs[n].serial => insts[i].name = n
  /\ \A i \in Ids : i >= next_id => insts[i].state = "none"

\* A serial is queued for retirement only when its quota is spent.
RetireFacts ==
  \A n \in Names : regs[n].serial \in want_retire => Spent(regs[n])

\* A process that is not running holds nothing.
StoppedFacts ==
  ~ running => /\ \A n \in Names : regs[n] = NoReg
               /\ \A i \in Ids : insts[i] = NoInst
               /\ \A f \in Fds : sock[f] = "free" /\ watch[f] = NoWatch
               /\ want_retire = {}

IInv == /\ TypeOK /\ CountersExact /\ LimitHeld /\ OwnerSocketUsed
        /\ OwnerCallbackFresh /\ OneStream /\ DiskInSync
        /\ SerialFacts /\ InstFacts /\ RetireFacts /\ StoppedFacts

-----------------------------------------------------------------------------
(***************************************************************************)
(* What the documentation says and the code does not do                     *)
(***************************************************************************)

\* docs/PIPES.md:75-76: a LIMIT registration "serves at most n instances over
\* its lifetime".
LimitOverLifetime ==
  \A n \in Names : Offered(n) /\ regs[n].limit # 0 => served[n] <= regs[n].limit
=============================================================================
