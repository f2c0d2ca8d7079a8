# A TLA+ model of splice

splice (`spl`) connects two paired machines by named pipes over WireGuard. A
daemon on each machine offers pipes to its peers and opens theirs; a public
server lets two machines find each other for pairing and relays the datagrams
that have no direct path. This directory models the parts of it that run
concurrently, fail or keep promises over many steps, checks them with TLC on
small instances and proves the most important invariants with TLAPS for all
instances. File names below are relative to `src/src/` of the repository.

## 1. The system

| Component | State | Operations | Interacts with | Module |
|---|---|---|---|---|
| Pairing server (`server/pairing_server.*`) | `sessions_`, `alloc_`, one `Pending` per leader, `active_sessions_` | one thread per connection: `handle_leader`, `handle_follower`, `bridge`, `cleanup` | pairing clients over TLS; threads meet under `mu_` and `Pending::m` | PairingServer, Rendezvous |
| Code allocator (`server/code_alloc.*`) | `active_`, `cooldown_`, `max_` | `allocate`, `expire`, `release` | called under `mu_` | CodeAllocator |
| Relay (`server/relay_*`, `rate_limit.*`) | peer table, token buckets | `on_packet`, `evict_expired`, `allow`, `evict_idle` | datagrams of all peers | Relay |
| Pairing client (`peer/pairing.*`) | keys, counters, record | leader, follower, local pairing, `run_pairing` | pairing server, store | PairingExchange |
| Daemon, registrations (`peer/daemon.cpp`) | `Session::regs`, inbound `insts`, `want_close`, `want_retire`, `paused_owners_`, pipe files | REGISTER, UNREGISTER, RESET, CLOSE, connections of the peer, owner sockets, `tick` | control clients, tunnel, store | PipeRegistry |
| Daemon, requests (`peer/daemon.cpp`) | outbound `insts` | OPEN, LIST, REACH, `dial`, answers, deadlines, client sockets | control clients, netstack, the peer's daemon | OutboundOpen |
| Daemon, client output | `client_out_`, receive windows | `client_write`, `flush_client`, `close_client`, `account` | client sockets, tunnel | ExecRun |
| Daemon, session table | `sessions_` | `start_session`, `session_for`, `reload`, `drop_session` | store, command line | SessionTable |
| Store (`peer/store.*`) | `.conn`, `.seen`, `.lanport`, `pipes/` | save, load, rename, remove | daemon, command line | SessionTable, PipeRegistry |
| Command line (`peer/peer_cmd.cpp`, `serve_get.cpp`, ...) | none of its own | set, address, rename, remove, drop, run, get | store, daemon | SessionTable, ExecRun |
| Path manager (`peer/pathman.*`) | candidates, probes, chosen path, timers | `process`, `tick`, `send_wg` | relay, direct UDP, WireGuard | PathManager, Relay |
| LAN discovery | learned ports, hints | `on_lan_discovery`, `refresh_hints`, the port ask | path manager, store | PortAsk, PathManager |
| Netstack (`peer/netstack.*`) | lwIP connections | connect, accept, send, close, callbacks | daemon, path manager | what the others see of it |
| File transfer (`peer/pipes.*`) | offsets, `.part` and `.part.meta` | SHARE_FILE and GET_FILE ends | daemon, file system | FileTransfer |
| Programs (`peer/exec.*`, `shell.cpp`) | child processes, frames, orphans | EXEC and SHELL ends | daemon, kernel | ExecRun |
| Chat, help, completion, codecs, crypto, wrappers | little or none | parsing, formatting, byte layouts | all | none |

What is hard about it: threads of the pairing server whose hand-over races a
timeout; codes, names and descriptor numbers that are reused; registrations that
are replaced while their instances live on; commands that change files in several
steps while the daemon reads them; work that callbacks queue for the next tick; a
daemon that stops or dies between a file and its table; transfers that break
anywhere and resume; bounded buffers in both directions between a client and a
program; connects that never return; callbacks that outlive what they were
installed for; and datagrams that are lost, late, repeated or out of order. The
`hazards` of `PROJECT.json` list these at their lines, with the property that
looks at each.

## 2. The modules

```
CodeAllocator   Rendezvous                PipeRegistry          OutboundOpen   ExecRun
      \             | (refined by)         /        \                     \     /
       PairingServer            MCPipeRegistry  PipeRegistryProofs   OutboundOpenProofs
        |          \
 MCPairingServer  PairingServerProofs     PathManager   PortAsk          Relay
                                                  \     /               /    \
   FileTransfer            PairingExchange    PathManagerProofs     MCRelay RelayProofs
      |      \                    |
MCFileTransfer FileTransferProofs |            SessionTable - MCSessionTable
                         PairingExchangeProofs       |
                                             SessionTableProofs
```

**CodeAllocator** keeps an allocator as a record and its methods as operators,
because each method runs inside a critical section of its caller. Absolute
times become the ticks that remain until them, so that the model is finite
although time is not. `Grant` and `Exhaust` are the two outcomes of `allocate`,
the growth of the pool included.

**PairingServer** has one action per critical section or atomic operation of a
thread. A leader goes `connected -> admitted -> coded -> waiting -> bridging ->
broken -> leaving -> done`, with exits for a refused gate, no code, a failed
write and an expired wait; a follower goes `connected -> claimed -> handed ->
paired -> closed`. The counter is raised (`Enter`) before it is compared, and a
refused thread lowers it in a step of its own, as the two atomic operations of
the code do. `Pending` is `taken` (under `mu_`) and `delivered` (under its own
mutex), and its end with the last reference is part of `Leave` and `Handoff`. A
bridge passes frames on in turn (`Forward`) until a side closes, fails or is silent
for too long (`BridgeEnd`); nothing in the code limits how many frames pass. A
thread may be arbitrarily late: nothing makes `wait_for` return at its time.
`PromptSpec` is the same system on an idle machine, where no thread lets time
pass while it has something to do; it shows that the late cleanup of section 4
does not need a slow thread.

**Rendezvous** is what the server promises: a leader offers a code, at most one
follower claims it, the two talk, and nobody claims a leader that withdrew.
`PairingServer` instantiates it with the phases of its leader threads.

**PairingExchange** is the other half of pairing: what the two processes say to
each other once they have met, by the server or on the LAN. Secrets are symbolic:
a process stands for its SPAKE2 message and its key pair, and the key two sides
derive is equal where password and transcript are. A follower meets a leader by
the id half of the code (`Join`); whether the password half agrees comes out at
key confirmation. Then come the sealed offers and replies with their counters
(`sealed` is `n_l2f` and `n_f2l` as each side counts them), a rejected network and
the renewed offer, up to `MaxAttempts`, the user's decision (`Accept`, `Decline`)
and the record. The connection may break at every step, with what was underway
lost, and a process may run into its timeout; when one side ends first, the other
still reads what had been sent, unless it has to answer.

**PipeRegistry** models one session of one daemon and the files behind it. The
daemon is a single event loop, so an action is a callback run to its end, with
everything it calls: `Teardown(D, K, W)` is `unregister` of the names in D,
`close_instance` of the instances in K and `release_owner_fd` for the sockets
these let go. Descriptor numbers are reused (`Fds`), ids and serials are not.
`Stop`, `RegisterCrash` and `ResetCrash` end the process at the points where
table and files differ, and `Start` reads the files. `Sanitize` is the function
of `store.cpp` from names to file names, a parameter: the run gives every name a
file of its own, the proofs hold for any idempotent function, also one that maps
two names to one file. `served` is a history variable.

**SessionTable** is the level above: which peers have a session, under which name.
A peer is a uid; its record, its stored offers and what the daemon remembers about
it (`notes`: the `.seen` and `.lanport` files, taken together) are filed under a
name. A command is the list of steps it has still to do (`cmd[p].todo`): saving a
record, unlinking one, moving or wiping what goes with it, and RELOAD at the end;
each step is one system call or a group nobody can tell apart. RELOAD itself lists
the directory (`ReloadList`) and then reads the files (`Reload`), as `load_all`
does, and matches sessions by uid: kept, renamed, dropped or started. In between
the daemon goes on: REGISTER, UNREGISTER, OPEN (`SessionFor` starts a session on
demand), `remember_paths`, and it may restart. An offer is the uid it was made to
and a note the uid it is about, so that one that ends up with another peer shows.
A second session of a peer, made on demand under the new name in the middle of a
rename, makes the insert of RELOAD fail: the session of the node is destroyed without
`drop_session`, and `dangling` says that its poller callback, its queued output and its
owners' sockets point to nothing from then on (`Destroys`). A socket that cannot be
bound leaves a record without a session (`Without`), until the next load that can;
`bound` says whether the last one could.

`calm` is a history variable, for what the code keeps only while nobody gets in
between. It asks that
* commands follow one another, and nobody is paired under a name in use;
* REGISTER, UNREGISTER, the tick's `remember_paths` and a session made on demand do not
  come under a name whose record is not its peer's any more (after the unlink of a
  rename or a remove, before its RELOAD), under the new name of a rename that still has
  files to move, or for a peer that has a session under another name;
* the daemon does not restart while a rename still has files to move.

All else may happen at any step of a command: traffic and OPEN on the sessions there
are, REGISTER, UNREGISTER and the tick under a name that is still the peer's, a restart.

**OutboundOpen** models the requests a daemon makes: OPEN PIPE, OPEN FOLLOW, a
plain OPEN, and LIST and REACH (`meta`, which have no handshake). It keeps the
connects lwIP has not answered apart from the instance's own `dialing` flag,
and the connections an instance has let go apart from the one it holds: after a
FIN the pcb stays (`halfclosed`), and after a stale callback an established
connection does (`orphans`). An OK that finds no connection ends the process
(`AnswerOkNoConn`), because `bind_end` dereferences the null pointer.

**ExecRun** is one run of a program from `spl run` or `spl shell` to the program
and back: standard input, client socket, send buffer, `inbuf_`, the program's pipe
or terminal; and its two output streams, frames, `client_out_`, client socket and
standard output. Every buffer is bounded and a frame is one unit of each. The
client is blocked while it sends (`Sent`), the daemons' two loops are their
callbacks and ticks (`CfdReady`, `Resume`, `FlushClient`, `OutReady`, ...). The
receive windows are explicit (`wnd`, with `preacked` and the EOF keystroke, which
no window paid for). A program is a filter that owes output for what it read, may
quit, close its input or its output and run on, ignore SIGHUP, or leave a child behind that keeps its
streams open. `EndGone` is the destructor of `ExecEnd`: SIGHUP, and an entry in
`orphans()` that `ReapOrphans` kills after its time. Children that outlive the program
when the instance is gone are not followed any further; the daemon does not either.

**FileTransfer** has the sender (`ShareFileEnd`), the tunnel, the receiver
(`GetFileEnd`) and the receiver's file system, with inodes, because an open
`.part` file stays the same file when it is renamed or replaced. Content is a
sequence of units named by the version of the source they were read from, and a
checksum is the content it was computed from, so a mixture of two versions is
visible and collisions of crc32 are not considered. A receiver answers an offer
with the length of a `.part` whose `.part.meta` matches; the sender goes on from
there. Each attempt has a target (`Attempt`): a directory, which takes every file under
its own name, or any other path, which is then the destination of every file of the share
(`DestOf`). A connection breaks, the `.part` file cannot be opened or written, `.meta`
cannot be written, and the receiving daemon dies at any point, with what stdio had not
written lost: also between the two files of a header, between closing a complete `.part`
file and renaming it (the next attempt then finds nothing left to receive), and between
that and removing its `.meta`, whether the last unit or a header led there. (A `rename`
that fails leaves the files as the death before it does, and is not a fault of its own.) The sources
change at any time, and the user tries again.

**PathManager** is one side of a session's path choice. A candidate is an
endpoint in `known`, with the age of its last packet (`last_rx`), its smoothed
round trip (`srtt`) and the age of the last hint at it (`learned`). The actions
are the datagrams that change candidates (`CallMe`, `Here`, `OnLanDiscovery`,
`WgData`, `Pong`), a remembered address (`AddCandidate`), the FORCE_RELAY
command and `Tick`, which is `set_active` and then all of `PathManager::tick`
that touches this state: pruning when its timer is due, the ping, the choice and
the send path. What is abstract: the vector is a set, so which of several junk
candidates is dropped and who wins a tie is left open; times are ages that stop
counting when no comparison can tell them apart; the token of a ping is the set
`pongs` of addresses the *latest* ping went to, which is all that an answer is
compared with; an answer comes from the address that was pinged. Who sends
CALLME, HERE and queries, and when, is left to the environment, which may do so
at any time with any address. `rearmed` is `t_ping_.last = 0`, the value that makes
`now - t_ping_.last` the time since boot (`Uptime`).

**Relay** composes the other half of two path managers with the relay between
them: the lookup of the relay's address, registration, whereami and its answer,
CALLME, the timers of the three, dormancy, the relay setting; and the relay's
receive loop with its table, its token buckets and its maintenance. A whereami
and its answer carry whether their token is still the one the side waits for
(`cur`). Datagrams are lost, delayed (`held`) and out of order, a NAT gives a side
another address, the relay restarts and forgets. `ref` is what each IP's bucket
would hold if none were ever evicted (history).

**PortAsk** has both ends of one exchange: the asker's schedule (`fresh`, `tries`,
`t_port`) and pending asks with their ages, the peer's own port and the nonces it
has answered, and the datagrams between them, which are lost, repeated, delayed
and reordered. Either daemon may restart; the asker keeps the stored port, the
peer may come back with another one. A nonce is used again once nothing refers
to it, which keeps random values finite and distinct. `had`, the time since the
peer last had each port, is a history variable.

Definitions that begin with `Mutant:` are changed versions of the definition
that follows them. They are no part of the specification; each shows that a
property notices a bug of that kind.

## 3. What the runs check

| Run | Result | States | Shows |
|---|---|---|---|
| `pairing_safety` | pass | 194 930 | session gate, live sessions, cooldown; a claimed connection is closed only for a reason |
| `pairing_live` | pass | 93 940 | every claim is resolved, every leader leaves unless its bridge is kept busy for ever, `Rendezvous` is implemented (one follower to one leader) |
| `exchange` | pass | 654 336 | stored records fit, only users of one code are paired, both sides count alike, every process ends |
| `registry` | pass | 152 972 | counters, quotas, owner sockets, callbacks, streams, files, retirement; quiet owners are noticed |
| `sessions` | pass | about 1 600 000 | sessions follow the files by uid and keep their connections through a rename; while `calm`, nothing is inherited or left dangling |
| `outbound` | pass | 4 467 | one dial at a time, one verdict, no stale poll callback; requests settle although connects hang |
| `outbound_stale_conn` | violation | | an old connection's error drops the new one |
| `exec` | pass | 336 073 | windows count what is held, EXIT is last, runs end, no program is left behind |
| `transfer` | pass | 1 045 916 | no mixture is ever published, both ends count alike, trying again with a directory delivers |
| `path` | pass | 774 056 | direct packets go where the peer was heard, no flapping, a path is found and a dead one left |
| `relay` | pass | 390 426 | the peers come to know each other's address, eviction of buckets is invisible |
| `port` | pass | 516 096 | only a recent port is stored, a peer that moves is followed |

Several invariants of one module are checked as one conjunction of named parts:
`RequestInv` (`OneDial`, `OneVerdict`, `WatchedWhenSpliced`), `TransferInv`
(`StreamAligned`, `DoneIsComplete`), `ExchangeInv` (`SealsOpen`, `NetworksDiffer`,
`SameOutcome`), `RunInv` (`WindowsExact`, `EofAfterInput`, `NoneForgotten`),
`TableInv` (`SessionsMatch`, `OffersInSync`, `NothingDangles`) and `RelayInv` (`LimiterExact`), each
with the module's type invariant.

**Bounds.** Pairing server: three leaders and two slots make the gate refuse and
overshoot; two codes with `InitialMax = 1` make the pool grow and run out; a
time to live of 2 and a cooldown of 1 let a code be freed, cooled and reused
inside one behaviour. The liveness run has two leaders and two slots, so
that threads compete for codes and the refused path is left to the safety run.
Exchange: one leader and two followers that may share the id, the password, both
or neither; three networks and two attempts let an offer be rejected, renewed,
accepted and the attempts run out; one fault falls on any step.
Registry: with one descriptor number every second PIPE
reuses it; two serials over two names let a name be registered and replaced
while an instance of the old one lives, and every restart begins the serials
again; a limit of 2 separates "spent" from "one"; two connections can
share an owner or sit on an old and a new registration. Sessions: two commands at
once on two names and two peers are what swapping, reusing and racing for a name
take; behaviours are not bounded otherwise, so that names and uids are reused
without end. Outbound: one
request, because requests share nothing and the tick treats each by itself; a
deadline of 3 against a retry of 1 and a pause of 2 puts the deadline before, at
and after a retry; a stale callback needs two connections of a request, and
three let it happen twice. Exec: three frames of input and their EOF
fill client socket, send buffer, window and pipe, one frame each, at once, so that
every hop is made to wait for the next; a program that writes nothing or as much as
it reads, with a frame of output at the start; one fault. Transfer: two
files, a short and a long version, a directory and a single path as targets, one change
of the sources and one fault, which may fall between any two steps. A first attempt
finds nothing, an older file, or the complete `.part` of a daemon that died before the
rename (`Found`), of the version that is offered or of another one, so that the crash of
the run can also fall on the resume from it. The single path is tried on what a
directory's attempt left there, and the other way round. A source that changes and
changes back is left to the theorems. Four inodes are what two
destinations and two `.part` files take. Path: three addresses for two places make
the table overflow, with the address in use, a heard one or a junk one in it; every
time is one tick, so that each comparison has a value on either side and at the
border; one address answers, the others may never. Relay: one side with two
addresses on one IP, and one that stays; two faults, of any kinds; timers of one
or two units of time against a time to live of two, as the code's registration
interval is less than its entries' time to live; a burst of four and a rate of
three, so that the limiter does refuse. Port: two asks are enough for answers out
of order, and with `AnswerTime` 1 an ask can be fresh, at its limit and stale.
`MaxInst`, `MaxSerial`, `MaxUnread`, `MaxPcbs`, `MaxFaults` and `MaxChanges` cap
what is unbounded in the code; they appear only in guards.

**Symmetry.** Threads of one role are interchangeable in `pairing_safety`; peers,
names and commands are in `sessions`, which also has a `VIEW`: once `calm` is
false, states that differ only in the notes are one, because no property asks
about the notes any more and nothing else ever depends on them. How many states
TLC counts then depends on the order in which it meets them. Runs with liveness
properties use neither.

**Fairness.** Pairing: the server's own steps and the clock are weakly fair; nothing is
assumed of a bridge, so that `LeadersEnd` excepts the leader whose two clients keep one
busy for ever. Exchange: a process reads what arrives, users answer, codes and searches
expire. Registry: the tick and the callbacks of polled descriptors. Sessions:
nothing, all is safety. Outbound: the tick, the clock, polled clients, and that a
connected peer answers or its connection ends, which the peer's daemon (every line
is answered) and the keepalive of netstack provide. Exec: both event loops, the
client's loop with its input at hand, and a program that reads its input, writes
what it owes and ends with its input (`FilterSpec`); nothing is assumed of one that
quits, breaks off or ignores SIGHUP. Transfer: both ends run, and a user who tries
again with `-f` and a directory whenever the last try has ended (strong fairness), with
tries without `-f` or to another target in between; `Delivered` is about users who keep to
the directory in the end. Path: the tick,
the clock, and that an answering address which is pinged again and again gets an
answer through in time now and then (strong fairness: a lossy link, not a broken
one); it means something only if `MinRtt` lets an answer come before the next ping.
Relay: time goes by, which it does only after the loops have run and the datagrams
that are neither lost nor held have arrived (they tick every few milliseconds
against timers of seconds), and a lookup ends. Port: the clock, the tick
that asks, datagrams for a stale ask that disappear in the end, and again that
asks and answers sent over and over get through in time now and then. Nothing is
assumed of other users, peers, owners, clients or of a connect.

## 4. What the code does not keep

One disagreement has a run that must fail, `outbound_stale_conn`: *"pcb is gone"
after a FIN* (`daemon.cpp:606`). It is not gone; it stays in CLOSE_WAIT until the
keepalive finds the peer gone, with callbacks under the request's id. For an open
instance this only costs a connection for some minutes, since the id is never
reused. For one that is still dialling, the late error drops the connection made
since, and an answer on that one finds none.

For the following there is a configuration to run by hand, which ends with a
counterexample (`tlc -config X.cfg M`):

1. *A late cleanup* (`PairingCodeLost.cfg`, `pairing_server.cpp:119`). A bridge can
   outlive the time to live of its code. The code is then given to a second leader,
   and the first one's `cleanup(code)` erases the second one's session, which cannot
   be claimed any more although its wait goes on (`pairing_server.h:23` says of
   `code_ttl_ms` "how long a code waits for a follower").
2. *LIMIT is not durable* (`PipeLimitRestart.cfg`, `daemon.cpp:376`): the instances
   started are not in the file, so a restart begins again, also when the daemon dies
   between the last instance and the tick (`docs/PIPES.md:75`: "over its lifetime").
3. *Slow links stay on the relay* (`PathSlow.cfg`, `pathman.cpp:392`). While no direct
   path is up the token changes every 300 ms, and only the latest one counts: an
   address with a longer round trip is never confirmed (`docs/DESIGN.md:116`).
4. *A round trip measured from zero* (`PathSample.cfg`, `pathman.cpp:395`). Rearming
   the ping timer sets its last time to 0; an answer before the next tick is sampled
   as the time since boot, and the average carries it for many rounds.
5. *A delayed answer rolls the port back* (`PortRollback.cfg`, `pathman.cpp:373`).
   Every ask of the last 30 s is pending; the answer to an earlier one, given before
   the peer restarted on another port, is still accepted after the newer answer. The
   next ask puts it right, which is what `Converges` shows (`docs/DESIGN.md:247`: "a
   recorded or delayed answer can't roll it back").
6. *Two transfers to one destination share its `.part` file* (`TransferTwo.cfg` with
   `MCFileTransfer`, `pipes.cpp:327`): a file made of both can be renamed into place,
   because each receiver checks the bytes it was sent and not those in the file
   (`docs/PIPES.md:213`: "corruption is caught").
7. *Pairing under a name in use* (`SessionsClean.cfg`, `pairing.cpp:352`) replaces the
   record and leaves the stored offers, which the new peer then gets; `store.cpp:283`
   says "a later peer reusing the name starts clean", which holds after a remove.
8. *A renamed session is destroyed in use* (`SessionsDangle.cfg` with `MCSessionTable`,
   `daemon.cpp:990`). An OPEN under the new name, between `Store::rename` and its RELOAD,
   makes a second session of the peer. RELOAD extracts the first one, its insert under the
   new name fails, and the node is destroyed without `drop_session`: the poller, the queued
   output and the owners' sockets still name it (`daemon.cpp:981`: "Extraction keeps the
   Session object in place (callbacks hold it)").
9. *A single target for a share of several files* (`TransferSingle.cfg` with
   `MCFileTransfer`, `pipes.cpp:322`). A target that is no directory is the destination of
   every file; with `-f` each replaces the one before, and the receiver reports that all
   were received.

Seen while modelling, without a property of its own:

* registry: an owner that exits with unread bytes and no instance to take them stays
  registered (`daemon.cpp:868`); RESET leaves instances whose registration was removed
  before (`daemon.cpp:1336`); `sanitize` may give two names one file (`store.cpp:39`);
  `save_pipe` tests the stream before it is flushed (`store.cpp:305`) and a
  `remove_pipe` that fails is not noticed (`daemon.cpp:927`); the client of an OPEN
  WAIT PIPE is not watched until the pipe opens (`daemon.cpp:1448`).
* sessions: a REGISTER between `Store::remove` and its RELOAD leaves files under
  `pipes/<name>`, and a tick then leaves a note there, which the next peer of that name
  gets; so does a tick under the old name between `Store::rename` and RELOAD; a daemon
  that restarts while a rename has files to move runs without the peer's
  offers until the next restart; a `set` that had loaded the record before another
  command removed it brings it back. With items 7 and 8 these are the behaviours `calm`
  excludes from `NothingInherited`, `OffersInSync` and `NothingDangles`; but for `set`
  and another command at once they take no second command, only the daemon's own work
  in the middle of one.
* a session whose socket cannot be bound is left out until the next load
  (`daemon.cpp:350`, `:1003`).
* pairing server: a bridge ends only by its clients (`pairing_server.cpp:150` has a timeout
  for each read and no limit of frames or time): two that keep talking hold a slot and a code.
* two clients that find no daemon may both start one, and a daemon that exits unlinks
  the socket of its successor (`daemon.cpp:1680`, `:1719`).
* exec: a client blocked in `send_frame` (`shell.cpp:147`) does not read: a program that
  writes more than it reads can stop everybody for good with a large input; and a
  client whose standard output is gone while the program reads nothing is not noticed
  (`shell.cpp:126`). A program that has ended is not entered in `orphans()`
  (`exec.cpp:152`), so children of it that ignore SIGHUP are never killed (`:408`). The
  descriptor of a FOLLOW client is blocking, and one that is stopped with a full socket
  holds up the daemon's loop (`daemon.cpp:1220`).
* transfer: `fclose` is not checked (`pipes.cpp:375`); a file that is appended to after it was
  listed arrives as its prefix of the listed size, whose checksum agrees
  (`pipes.cpp:209`).
* pairing: when the store cannot be opened the exchange ends as paired without a record.

## 5. What is proved

`PairingServerProofs`, for any sets of threads, any pool, any times and limits:

* `TypeCorrect`, `LimitTheorem` (`SessionLimit`), `AliveTheorem` (`SessionsAlive`),
  `CooldownTheorem` (`QuietAfterRelease`), `PairingTheorem` (`OnePairing`) and
  `HandoffTheorem` (`HandoffNotLost`). The inductive invariant
  `IInv` adds that a thread past the allocation has a code (`ThreadFacts`), what
  a follower's progress says of its leader (`ClaimFacts`: without it the
  hand-over could come from a follower that claimed nobody), that a connection in a
  `Pending` is the one its leader will find (`ParkedFacts`), when no time is left to wait
  (`WaitFacts`), and that the
  cooldown release() began still runs in the allocator (`CooldownFacts`: without
  it expire() could free the code early). `HandoffNotLost` is an action property, of the
  step that closes a claimed connection: the two facts say which threads can take it.
* `ServerImplementsRendezvous`: the refinement, step by step.

`PipeRegistryProofs`, for any names, files, descriptors and limits:

* `TypeCorrect`, `CountersTheorem` (`CountersExact`), `QuotaTheorem` (`LimitHeld`),
  `OwnerSocketTheorem` (`OwnerSocketUsed`), `OwnerCallbackTheorem`
  (`OwnerCallbackFresh`), `OneStreamTheorem` (`OneStream`) and `DiskTheorem`
  (`DiskInSync`). `IInv` adds that serials are unique and never given out twice
  (`SerialFacts`), that an
  instance carries the name and serial of its offer (`InstFacts`), that only
  spent serials are queued (`RetireFacts`) and that a stopped daemon holds nothing
  (`StoppedFacts`). The lemma `TeardownStep` proves once what all closing
  handlers share; each handler is then an instance of it.
* `RetirementExact`: the action property `RetiresOnlySpent`.

`PathManagerProofs`, for any finite set of addresses, any table size and times:

* `TypeCorrect`; `ChosenStaysKnown` (`ChosenKnown`), which is inductive together
  with the type invariant; `PacketsLeaveOnHeardPath` (`RouteHeard`), for which
  `IInv` adds `ChosenHeard`: between two ticks the chosen address is at most one
  tick older than when it was chosen, which is what `ticked` records; and
  `NoFlapping` (`SwitchImproves`), which follows from the type invariant and the
  hysteresis of `ChooseDirect`.

The second part of `PathManagerProofs`, about `PortAsk`, for any nonces, ports and times:

* `PortTypeCorrect`; `AnswersStayRecent` (`AnswersRecent`), inductive once `PortIInv` also
  says that the port the peer has counts as just had (else an answer sent now
  could already be out of date); and `AcceptsOnlyRecent` (`AcceptsRecent`), which
  follows from it and the age check of the asker.

`RelayProofs`, for any addresses, timers, rates and bursts:

* `RelayCorrect` (`RelayInv`). `LimiterExact` is inductive with the types of the
  buckets (`BucketInv`): refilling once after a long time is refilling step by step
  (`RefillSteps`), and a bucket older than `IdleAfter` is full (`IdleIsFull`), so that
  dropping it loses nothing. This rests on `RateAssumption`,
  `IdleAfter * IpRate >= IpBurst`, which the code's values meet by far (300 s at 500
  packets a second against a burst of 1000). `RestTyped` is the rest of the types.

`OutboundOpenProofs`, for any requests, times and bounds:

* `RequestsCorrect` (`RequestInv`). `IInv` has the three parts of the property for one
  request at a time (`DialOf`, `VerdictOf`, `WatchOf`) and adds what they need of it
  (`Facts`): only a live request has a connection, one that nobody asked for yet is a
  blank entry, a live one still has its client's socket (else a second verdict could
  follow the first), the bound on pcbs counts all of them, and after the crash of
  section 4 nothing is left alive. A handler changes one request, so each action is
  proved for that request and the rest is framed.

The second part of `OutboundOpenProofs`, about `ExecRun`, for any input, any behaviour
of the program and any sizes of its pipes, the sockets and the windows:

* `RunCorrect` (`RunInv`) and `ExitComesLast` (`ExitIsLast`). Both are about what has
  left one end and not come to the other, so `RunIInv` counts it. `Supplied`: the frames
  the client has still to send, those in the socket and the tunnel (`Flow`), those in
  `inbuf_` and in the program's pipe and those it has read are the whole input; once the
  end of the input is in the pipe nothing can be in front of it (`Upstream`,
  `Keystroke`), so all of it was read (`EofIsLast`). `Delivery`: the frames the client
  has got, those on their way to it (`Chain`: its socket, `client_out_`, the tunnel) and
  those in the program's pipes are all the program wrote; EXIT is sent with the pipes
  empty and only FIN comes behind it, so a client that reads it has got everything.
  `UpWindow` and `DownWindow` are the windows, with what is queued for a client whose
  instance is gone and with `preacked`, which never exceeds what is queued; `InstOK` and
  `ProgOK` are the order in which instance, end and program can go.
* Frames are counted by `CountIn`, the size of a set of positions, which can be reasoned
  about without induction over a sequence: the lemmas about it (`CountConcat`,
  `CountTail` and others) come from the size of a finite set and of its shifted copy.

`PairingExchangeProofs`, for any leaders and followers, also ones that share a
rendezvous id, any codes and networks and any number of attempts:

* `PairsOnlySameCode` (`OnlySameCode`), `StoredRecordsFit` (`RecordsFit`) and
  `ExchangeCorrect` (`ExchangeInv`). The argument is that the two ends of a connection
  take turns: `Mail` says that at most one message is underway on it, and that which
  one it is fixes what both ends do (`MailToFollower`, `MailToLeader`). From the turn
  follow the counters (a sealed message carries the number its reader waits for), what
  each end knows of the other (`LeaderEnd`, `FollowerEnd`: the follower's record
  before the leader's) and, when nothing was lost, that both come to the same end
  (`Faultless`). `Own` is what a process knows by itself.

`FileTransferProofs`, for any files, versions, lengths, room, faults and changes:

* `TransfersInStep` (`TransferInv`), for any number of transfers to one daemon. `IInv`
  says for every transfer how sender, tunnel and receiver fit together (`Link`): a
  header is underway only behind the last units of the file before (`Fits`), an offset
  only while the tunnel is empty, and while units are underway the receiver will be at
  the sender's position when they have arrived (`At`). `StreamAligned` alone is not
  inductive, because it says nothing of the moments before and after the stream.
  `ReceiverOK` adds that the files counted as done are in place, each where `DestOf` puts
  it: for a directory that is every file, for another target the one path they share
  (item 9 of section 4).
* `OneNeverMixes` (`NeverMixed`), under `OneAtATime`: only one transfer writes to the
  destination (section 4 shows that two can mix). `MixInv` adds that names do not share
  inodes and that destinations are pure (`Sound`), that the open file is the `.part`
  file and holds exactly what the running checksum was computed from (`Open`; after a
  resume too, since the checksum begins with what the file holds), and that a header
  underway has the checksum of one version (`Offered`).
* `InodesAssumption`: the model's file system has inodes for all names and open files,
  so that `FreeInode` always has a value. A full disk is a fault (`WriteFails`,
  `OpenFails`, `MetaFails`).

`SessionTableProofs`, for any peers, names, offers and commands:

* `TableCorrect` (`TableInv`). However commands overlap (`Base`), the table differs
  from the files only where somebody is going to reload: `Pending` are the commands
  that will, `Follows` says that one of them covers every difference, also a record
  that was saved behind the back of a RELOAD that had already listed the directory, or
  that the last load could not bind a socket (`bound`). Nothing is said of a daemon that
  is `dangling`, and `NextDangles` shows that it takes leaving `calm` to become so: while
  calm no two sessions have one uid (`Filed`).
  A remove that finds no record ends without a RELOAD and is not counted among them;
  it changed nothing. When all is quiet nobody is pending, so there is no difference.
* `NothingIsInherited` (`NothingInherited`) and the part of `TableInv` about offers,
  while `calm`, with all that section 2 says it excludes; `IInv` is `Base` and, while calm,
  `Calm` and `~dangling`. `Stage` and `Renaming` say how far the
  one command underway has come, `Owned` that offers and notes are of the peer whose
  record it is or of the one a command is just taking away (`Leaving`), `Filed` the
  same of the sessions, and that a peer has one. A daemon that restarts in the middle of
  a command finds the files as they are (`RestartCalm`); one that had listed the directory
  before a rename began makes one session although the peer has two records by then
  (`BootCalm`).
* `RenameKeepsSession`: the action property `RenamedInPlace`, of the only session of a
  peer in a daemon that is not `dangling`, with no condition on how the commands overlap. It needs `Base`, for a daemon that lists the directory for
  itself has no session yet.

TLC checked the inductive invariants of `PairingExchangeProofs`, `FileTransferProofs`,
`SessionTableProofs` and of the part about `ExecRun` on the run's instance before they
were proved, and three of them also on an instance of another shape: two leaders and two
followers with three attempts; three peers and names with one command; wider buffers and
windows.

The assumptions are those of the modules: finite sets of leaders and names,
"none" values that are no member of the sets they stand beside, natural numbers as
bounds, an idempotent `Sanitize`, for the path manager a dead time no longer than the
stale time and ping intervals within the ages that are told apart, the relay's
`RateAssumption`, for transfers `InodesAssumption`, and for programs buffers and windows
that hold at least one frame (`ExecAssumption`). TLC evaluates them in every run.

Only model-checked: all liveness properties, `Delivered` of `FileTransfer` and `RunEnds`
and `StraysEnd` of `ExecRun` among them (fairness and ENABLED are outside the prover), and
the disagreements of section 4. Every invariant and every safety property of a step that
a passing run checks is also stated by a theorem.

## 6. What is not modelled, and the plan

Next, in this order:

1. `ensure_daemon` and the daemon's life cycle: two starts at once, the automatic stop
   against a client that is just connecting.
2. The schedule of LAN queries, their nonces and the hints.
3. A composition of two daemons, `PipeRegistry` of one with `OutboundOpen` of the
   other, for chat; an expanding program in `ExecRun`.

Left out for good: the TCP of lwIP, WireGuard and TLS (libraries), the byte
layouts of the codecs, terminal handling and window sizes, status output, chat's
screen, help and completion.
