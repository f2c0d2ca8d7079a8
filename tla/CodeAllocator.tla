--------------------------- MODULE CodeAllocator ---------------------------
(***************************************************************************)
(* The allocator of pairing codes (server/code_alloc.cpp): the smallest     *)
(* free integer first, each code with a time to live, a freed code held in  *)
(* a cooldown before it is handed out again, and a pool that grows tenfold  *)
(* when it is exhausted.                                                    *)
(*                                                                          *)
(* The state of one allocator is a record, and its methods are operators on *)
(* that record, because every method runs under PairingServer::mu_.  The    *)
(* absolute times of the code (active_, cooldown_) are kept as the ticks    *)
(* that remain until them: "time <= now" is "0 ticks remain".  A model      *)
(* over countdowns has finitely many states although time never ends.       *)
(***************************************************************************)
EXTENDS Integers, FiniteSetsExt

CONSTANTS
  InitialMax,   \* Config::initial_max, the size of the first pool
  HardMax,      \* Config::hard_max, the size of the last pool
  Cooldown      \* Config::cooldown_ms, in ticks

ASSUME PoolAssumption ==
  /\ InitialMax \in Nat \ {0}
  /\ HardMax \in Nat
  /\ InitialMax <= HardMax
  /\ HardMax <= InitialMax * 1000000

ASSUME CooldownAssumption == Cooldown \in Nat

Codes == 0 .. HardMax - 1

\* A code that is not a key of the map.
Absent == -1

\* What is left of a countdown one tick later; it stops at 0.
Countdown(t) == IF t > 0 THEN t - 1 ELSE t

\* The sizes max_ can take: tenfold growth, clipped to hard_max.
PoolSizes ==
  {HardMax} \cup {p \in {InitialMax, InitialMax * 10, InitialMax * 100,
                         InitialMax * 1000, InitialMax * 10000,
                         InitialMax * 100000} : p < HardMax}

\* The allocators whose codes live at most ttl ticks.
Allocators(ttl) ==
  [max      : PoolSizes \cup {InitialMax},
   active   : [Codes -> {Absent} \cup 0 .. ttl],
   cooldown : [Codes -> {Absent} \cup 0 .. Cooldown]]

EmptyAllocator ==
  [max      |-> InitialMax,
   active   |-> [c \in Codes |-> Absent],
   cooldown |-> [c \in Codes |-> Absent]]

\* expire(): stale actives enter the cooldown, then finished cooldowns leave
\* it; a zero cooldown frees a stale active in the same call.
Expire(a) ==
  [max      |-> a.max,
   active   |-> [c \in Codes |-> IF a.active[c] = 0 THEN Absent ELSE a.active[c]],
   cooldown |-> [c \in Codes |->
                   LET cool == IF a.active[c] = 0 THEN Cooldown ELSE a.cooldown[c]
                   IN  IF cool = 0 THEN Absent ELSE cool]]

FreeCodes(a) ==
  {c \in Codes : a.active[c] = Absent /\ a.cooldown[c] = Absent}

\* allocate() when some code is free: the smallest one, the pool having grown
\* just far enough to contain it.
Grant(a, c, ttl) ==
  [max      |-> IF c < a.max THEN a.max ELSE Min({p \in PoolSizes : p > c}),
   active   |-> [a.active EXCEPT ![c] = ttl],
   cooldown |-> a.cooldown]

\* allocate() when every code up to the hard cap is taken: the pool has grown
\* to the cap before it gives up.
Exhaust(a) == [max |-> HardMax, active |-> a.active, cooldown |-> a.cooldown]

\* Mutant: a code that is given back is free at once.
ReleaseAtOnce(a, c) ==
  [max      |-> a.max,
   active   |-> [a.active EXCEPT ![c] = Absent],
   cooldown |-> a.cooldown]

Release(a, c) ==
  [max      |-> a.max,
   active   |-> [a.active EXCEPT ![c] = Absent],
   cooldown |-> [a.cooldown EXCEPT ![c] = Cooldown]]

\* One tick of the clock as the stored times see it.
Age(a) ==
  [max      |-> a.max,
   active   |-> [c \in Codes |-> Countdown(a.active[c])],
   cooldown |-> [c \in Codes |-> Countdown(a.cooldown[c])]]
=============================================================================
