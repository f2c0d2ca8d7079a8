------------------------------- MODULE Relay -------------------------------
(***************************************************************************)
(* The relay (server/relay_server.cpp with its address table and its rate  *)
(* limiter) between the two sides of a session, which register with it,    *)
(* ask it for their external address and advertise that address to each    *)
(* other (peer/pathman.cpp, driven by Daemon::tick).  Datagrams are lost,  *)
(* reordered and late, a side moves to another address, goes dormant or    *)
(* turns the relay off, and the relay restarts.                            *)
(*                                                                         *)
(* Times are ages in units of the model's clock, and stop counting where   *)
(* no condition tells them apart.  What is forwarded without an effect on  *)
(* the receiver here (registrations, WireGuard packets) is not followed    *)
(* beyond the relay.                                                       *)
(***************************************************************************)
EXTENDS Naturals

CONSTANTS
  Addrs,            \* external addresses
  Ips,
  Ip,               \* the IP of an address
  Home,             \* the addresses each side may have
  Start,            \* the one it has first
  Unsteady,         \* bound: the sides that start without the relay's address, sleep, send data
                    \* and change their settings
  None,
  Register,         \* kRegisterMs
  Whereami,         \* kWhereamiMs
  WhereamiRefresh,  \* kWhereamiRefreshMs
  Callme,           \* kCallmeMs
  CallmeDirect,     \* kCallmeDirectMs
  Ttl,              \* entry_ttl_ms
  IpRate, IpBurst,  \* per_ip_rate, per_ip_burst
  GlobalRate, GlobalBurst,
  IdleAfter,        \* the idle_ms of evict_idle
  MaxFaults         \* bound: a late lookup, losses, delays, moves, restarts, settings, data

Sides == {0, 1}      \* the low bit of the uid
Other(s) == 1 - s    \* peer_uid

ASSUME AddressAssumption ==
  /\ None \notin Addrs
  /\ Ip \in [Addrs -> Ips]
  /\ Home \in [Sides -> SUBSET Addrs] /\ Home[0] \cap Home[1] = {}
  /\ Start \in [Sides -> Addrs] /\ \A s \in Sides : Start[s] \in Home[s]
  /\ Unsteady \in SUBSET Sides

ASSUME TimerAssumption ==
  /\ Register \in Nat /\ Ttl \in Nat /\ Register < Ttl
  /\ Whereami \in Nat /\ WhereamiRefresh \in Nat /\ Whereami <= WhereamiRefresh
  /\ Callme \in Nat /\ CallmeDirect \in Nat /\ Callme <= CallmeDirect

\* A bucket that has been idle long enough to be evicted is full again.
ASSUME RateAssumption ==
  /\ IpRate \in Nat /\ IpBurst \in Nat
  /\ GlobalRate \in Nat /\ GlobalBurst \in Nat
  /\ IdleAfter \in Nat /\ IdleAfter * IpRate >= IpBurst

ASSUME BoundAssumption == MaxFaults \in Nat \ {0}

VARIABLES
  side,      \* the path manager of each side
  net,       \* datagrams underway
  table,     \* RelayTable: where a uid was last seen, and how long ago
  tracked,   \* the IPs that have a bucket
  tokens,    \* TokenBucket::tokens, by IP
  idle,      \* the age of TokenBucket::last, by IP
  global,    \* the tokens of global_, which is never evicted, refilled as time goes by
  ref,       \* the tokens each IP would have if no bucket were ever evicted (history)
  faults     \* how much more may go wrong

vars == <<side, net, table, tracked, tokens, idle, global, ref, faults>>
buckets == <<tracked, tokens, idle, ref>>
limiter == <<buckets, global>>

Kinds == {"register", "callme", "data", "whereami", "told", "here"}

\* A datagram from or to the socket of a side at an address.  For whereami and its answer, cur
\* says whether its token is still the one the side waits for.  One that is held takes longer
\* than a unit of time.
Packet ==
  [kind: Kinds, side: Sides, at: Addrs, ext: Addrs \cup {None}, cur: BOOLEAN, held: BOOLEAN]

Side ==
  [addr: Addrs,                            \* where its datagrams come from now
   warm: BOOLEAN,                          \* what the daemon will pass to set_active
   active: BOOLEAN, relay_on: BOOLEAN,
   server: {"unknown", "found", "known"},  \* cfg_.server; found by the lookup, not yet adopted
   external: Addrs \cup {None},
   register: 0 .. Register, whereami: 0 .. WhereamiRefresh, callme: 0 .. CallmeDirect,
   told: Addrs \cup {None}]                \* the last external address the peer advertised

TypeOK ==
  /\ side \in [Sides -> Side]
  /\ net \in SUBSET Packet
  /\ table \in [Sides -> [ep: Addrs \cup {None}, age: 0 .. Ttl + 1]]
  /\ tracked \in SUBSET Ips
  /\ tokens \in [Ips -> 0 .. IpBurst]
  /\ idle \in [Ips -> 0 .. IdleAfter + 1]
  /\ global \in 0 .. GlobalBurst
  /\ ref \in [Ips -> 0 .. IpBurst]
  /\ faults \in 0 .. MaxFaults

AtMost(m, n) == IF m <= n THEN m ELSE n

NoEntry == [ep |-> None, age |-> 0]

NoEntries == [s \in Sides |-> NoEntry]
AllFull == [i \in Ips |-> IpBurst]
AllUsed == [i \in Ips |-> 0]

\* The constructor; the lookup of the relay's address may have ended in time or not.
Init ==
  /\ \E late \in SUBSET Unsteady :
       /\ side = [s \in Sides |->
            [addr |-> Start[s], warm |-> TRUE, active |-> FALSE, relay_on |-> TRUE,
             server |-> IF s \in late THEN "unknown" ELSE "known", external |-> None,
             register |-> Register, whereami |-> WhereamiRefresh, callme |-> CallmeDirect,
             told |-> None]]
       /\ faults = IF late = {} THEN MaxFaults ELSE MaxFaults - 1
  /\ net = {}
  /\ table = NoEntries
  /\ tracked = {} /\ tokens = AllFull /\ idle = AllUsed /\ ref = AllFull
  /\ global = GlobalBurst

-----------------------------------------------------------------------------
(* A side *)

RelayOk(m) == m.relay_on /\ m.server = "known"

\* Timer::rearm for some of the timers: last = 0.
RearmAsk(m) == [m EXCEPT !.register = Register, !.whereami = WhereamiRefresh]
RearmAll(m) == [RearmAsk(m) EXCEPT !.callme = CallmeDirect]

\* adopt_server and set_server.
Adopted(m) == IF m.server = "found" THEN [RearmAsk(m) EXCEPT !.server = "known"] ELSE m

\* set_active.
Activated(m) ==
  [(IF m.warm /\ ~m.active THEN RearmAll(m) ELSE m) EXCEPT !.active = m.warm]

RegisterDue(m) == m.active /\ m.register >= Register

\* Mutant: no refresh once the external address is known.
WhereamiDueOnce(m) ==
  m.active /\ RelayOk(m) /\ m.external = None /\ m.whereami >= Whereami

WhereamiDue(m) ==
  /\ m.active /\ RelayOk(m)
  /\ m.whereami >= IF m.external = None THEN Whereami ELSE WhereamiRefresh

\* A direct path, which slows CALLME down, is up or not.
CallmeDue(m, direct) ==
  /\ m.active /\ RelayOk(m) /\ m.external # None
  /\ m.callme >= IF direct THEN CallmeDirect ELSE Callme

Sent(s, kind, ext, cur) ==
  [kind |-> kind, side |-> s, at |-> side[s].addr, ext |-> ext, cur |-> cur, held |-> FALSE]

\* A new token: what is underway with the old one no longer counts.
Outdated(s) ==
  {IF p.side = s /\ p.kind \in {"whereami", "here"} THEN [p EXCEPT !.cur = FALSE] ELSE p : p \in net}

\* What the daemon's tick does first.
Ready(s) == Activated(Adopted(side[s]))

\* Daemon::tick for one session, and PathManager::tick.  t_register_ is stamped even when the
\* relay is not to be used, the two others are not.
Tick(s, direct) ==
  LET m == Ready(s)
      reg == RegisterDue(m)
      ask == WhereamiDue(m)
      call == CallmeDue(m, direct)
  IN /\ m # side[s] \/ reg \/ ask \/ call
     /\ side' = [side EXCEPT ![s] =
          [m EXCEPT !.register = IF reg THEN 0 ELSE @, !.whereami = IF ask THEN 0 ELSE @,
                    !.callme = IF call THEN 0 ELSE @]]
     /\ net' = (IF ask THEN Outdated(s) \cup {Sent(s, "whereami", None, TRUE)} ELSE net)
                 \cup (IF reg /\ RelayOk(m) THEN {Sent(s, "register", None, FALSE)} ELSE {})
                 \cup (IF call THEN {Sent(s, "callme", m.external, FALSE)} ELSE {})
     /\ UNCHANGED <<table, limiter, faults>>

\* The lookup thread gets an answer.
LookupEnds(s) ==
  /\ side[s].server = "unknown"
  /\ side' = [side EXCEPT ![s].server = "found"]
  /\ UNCHANGED <<net, table, limiter, faults>>

\* A whereami answer: a new external address is advertised at once.
Learned(m, ext) ==
  [m EXCEPT !.external = ext, !.callme = IF m.external = ext THEN @ ELSE CallmeDirect]

\* PathManager::process for a datagram from the relay; at an address the side has left,
\* nobody receives it.
Receive(p) ==
  LET m == side[p.side]
      here == m.addr = p.at /\ m.relay_on
  IN /\ p \in net /\ ~p.held /\ p.kind \in {"here", "told"}
     /\ net' = net \ {p}
     /\ side' = [side EXCEPT ![p.side] =
          IF here /\ p.kind = "here" /\ p.cur THEN Learned(m, p.ext)
          ELSE IF here /\ p.kind = "told" THEN [m EXCEPT !.told = p.ext]
          ELSE m]
     /\ UNCHANGED <<table, limiter, faults>>

-----------------------------------------------------------------------------
(* The relay *)

\* TokenBucket::allow, before the cost is taken: a bucket is refilled when it is used.
Refilled(n, age) == AtMost(n + age * IpRate, IpBurst)

\* What the bucket of an IP holds; a new one starts full.
Held(i) == IF i \in tracked THEN Refilled(tokens[i], idle[i]) ELSE IpBurst

Charged(n) == IF n >= 1 THEN n - 1 ELSE n

\* RateLimiter::allow: the bucket of the IP first, and the global one only if that allowed it.
Allowed(i) == Held(i) >= 1 /\ global >= 1

Charge(i) ==
  /\ tracked' = tracked \cup {i}
  /\ tokens' = [tokens EXCEPT ![i] = Charged(Held(i))]
  /\ idle' = [idle EXCEPT ![i] = 0]
  /\ global' = IF Held(i) >= 1 THEN Charged(global) ELSE global
  /\ ref' = [ref EXCEPT ![i] = Charged(@)]

Fresh(e) == e.ep # None /\ e.age <= Ttl

\* RelayTable::on_packet records the source...
OnPacket(s, at) == [table EXCEPT ![s] = [ep |-> at, age |-> 0]]

\* ...and forwards to where the other uid was seen, if that is not stale.
Forward(p) ==
  LET e == table[Other(p.side)]
  IN IF p.kind = "callme" /\ Fresh(e)
     THEN {[p EXCEPT !.kind = "told", !.side = Other(p.side), !.at = e.ep]}
     ELSE {}

\* One datagram of RelayServer::run.
Serve(p) ==
  LET i == Ip[p.at]
  IN /\ p \in net /\ ~p.held /\ p.kind \notin {"here", "told"}
     /\ Charge(i)
     /\ table' = IF Allowed(i) /\ p.kind # "whereami" THEN OnPacket(p.side, p.at) ELSE table
     /\ net' = (net \ {p}) \cup
          (IF ~Allowed(i) THEN {}
           ELSE IF p.kind = "whereami" THEN {[p EXCEPT !.kind = "here", !.ext = p.at]}
           ELSE Forward(p))
     /\ UNCHANGED <<side, faults>>

\* Mutant: a bucket is dropped as soon as it is not used.
IdleIpsSoon == {i \in tracked : idle[i] > 0}

\* evict_idle.
IdleIps == {i \in tracked : idle[i] > IdleAfter}

Expired == {s \in Sides : table[s].ep # None /\ table[s].age > Ttl}

\* The maintenance of RelayServer::run.
Maintain ==
  /\ Expired # {} \/ IdleIps # {}
  /\ table' = [s \in Sides |-> IF s \in Expired THEN NoEntry ELSE table[s]]
  /\ tracked' = tracked \ IdleIps
  /\ tokens' = [i \in Ips |-> IF i \in IdleIps THEN IpBurst ELSE tokens[i]]
  /\ idle' = [i \in Ips |-> IF i \in IdleIps THEN 0 ELSE idle[i]]
  /\ UNCHANGED <<side, net, global, ref, faults>>

-----------------------------------------------------------------------------
(* The environment *)

\* Nothing waits for a tick.
Ticked(s) ==
  LET m == Ready(s)
  IN m = side[s] /\ ~RegisterDue(m) /\ ~WhereamiDue(m) /\ ~CallmeDue(m, TRUE)

\* Time goes by.  The loops tick several times in a unit of time, and few datagrams take a
\* whole one.
Elapse ==
  /\ \A s \in Sides : Ticked(s)
  /\ \A p \in net : p.held
  /\ side' = [s \in Sides |->
       [side[s] EXCEPT !.register = AtMost(@ + 1, Register),
                       !.whereami = AtMost(@ + 1, WhereamiRefresh),
                       !.callme = AtMost(@ + 1, CallmeDirect)]]
  /\ net' = {[p EXCEPT !.held = FALSE] : p \in net}
  /\ table' = [s \in Sides |->
       IF table[s].ep = None THEN table[s] ELSE [table[s] EXCEPT !.age = AtMost(@ + 1, Ttl + 1)]]
  /\ idle' = [i \in Ips |-> IF i \in tracked THEN AtMost(idle[i] + 1, IdleAfter + 1) ELSE idle[i]]
  /\ global' = AtMost(global + GlobalRate, GlobalBurst)
  /\ ref' = [i \in Ips |-> AtMost(ref[i] + IpRate, IpBurst)]
  /\ UNCHANGED <<tracked, tokens, faults>>

Fault == faults > 0 /\ faults' = faults - 1

Lose(p) ==
  /\ p \in net /\ Fault
  /\ net' = net \ {p}
  /\ UNCHANGED <<side, table, limiter>>

Delay(p) ==
  /\ p \in net /\ ~p.held /\ Fault
  /\ net' = (net \ {p}) \cup {[p EXCEPT !.held = TRUE]}
  /\ UNCHANGED <<side, table, limiter>>

\* A NAT rebind or another network.
Rebind(s, a) ==
  /\ a \in Home[s] \ {side[s].addr} /\ Fault
  /\ side' = [side EXCEPT ![s].addr = a]
  /\ UNCHANGED <<net, table, limiter>>

RestartRelay ==
  /\ Fault
  /\ table' = NoEntries
  /\ tracked' = {} /\ tokens' = AllFull /\ idle' = AllUsed /\ ref' = AllFull
  /\ global' = GlobalBurst
  /\ UNCHANGED <<side, net>>

\* The last pipe goes and the warm window lapses, or the first one comes.
SetWarm(s) ==
  /\ s \in Unsteady /\ Fault
  /\ side' = [side EXCEPT ![s].warm = ~@]
  /\ UNCHANGED <<net, table, limiter>>

\* set_relay_enabled, by a RELOAD.
SetRelayEnabled(s) ==
  /\ s \in Unsteady /\ Fault
  /\ side' = [side EXCEPT ![s] =
       [(IF @.relay_on THEN @ ELSE RearmAll(@)) EXCEPT !.relay_on = ~side[s].relay_on]]
  /\ UNCHANGED <<net, table, limiter>>

\* send_wg over the relay.
Data(s) ==
  /\ s \in Unsteady /\ RelayOk(side[s]) /\ side[s].active /\ Fault
  /\ net' = net \cup {Sent(s, "data", None, FALSE)}
  /\ UNCHANGED <<side, table, limiter>>

Next ==
  \/ \E s \in Sides : \/ \E direct \in BOOLEAN : Tick(s, direct)
                      \/ LookupEnds(s) \/ SetWarm(s) \/ SetRelayEnabled(s) \/ Data(s)
                      \/ \E a \in Addrs : Rebind(s, a)
  \/ \E p \in net : Serve(p) \/ Receive(p) \/ Lose(p) \/ Delay(p)
  \/ Maintain
  \/ RestartRelay
  \/ Elapse

Spec == Init /\ [][Next]_vars

\* Time goes by, which it does only when the loops have run and the datagrams that are neither
\* lost nor held have arrived; the lookup ends.
Progress ==
  \/ Elapse
  \/ \E s \in Sides, direct \in BOOLEAN : Tick(s, direct)
  \/ \E p \in net : Serve(p) \/ Receive(p)

FairSpec ==
  /\ Spec
  /\ WF_vars(Progress)
  /\ WF_vars(\E s \in Sides : LookupEnds(s))

-----------------------------------------------------------------------------
(* Properties *)

\* RateLimiter::evict_idle is invisible: a bucket that is refilled only when it is used, and
\* forgotten when it is idle, holds at any moment what one that is kept for ever would hold.
LimiterExact == \A i \in Ips : Held(i) = ref[i]

\* In every state the variables have their types and the limiter's buckets hold exactly what
\* the reference accounting gives each address (LimiterExact).
RelayInv == TypeOK /\ LimiterExact

\* When both sides stay active with the relay on, each comes to know the other's external
\* address and goes on knowing it, whatever was lost, late or refused by the limiter, whoever
\* moved, slept or switched the relay off before, and though the relay forgot everything.
Introduced ==
  <>[](\A s \in Sides : side[s].warm /\ side[s].relay_on) =>
    <>[](\A s \in Sides : side[s].told = side[Other(s)].addr)
=============================================================================
