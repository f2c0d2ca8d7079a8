--------------------------- MODULE PairingServer ---------------------------
(***************************************************************************)
(* The rendezvous server of pairing (server/pairing_server.cpp).  Every     *)
(* accepted connection is a detached thread.  A leader thread takes a code, *)
(* waits for a follower, relays their frames in turns and gives the code    *)
(* back; a follower thread claims a code and hands its connection to the    *)
(* leader thread that waits for it.  The threads meet in sessions_ and      *)
(* alloc_ (both under mu_), in the Pending record of a leader (taken under  *)
(* mu_, follower under its own mutex) and in the atomic active_sessions_.   *)
(*                                                                          *)
(* One action is one critical section or one atomic operation together with *)
(* the thread-local work that follows it.                                   *)
(***************************************************************************)
EXTENDS CodeAllocator, FiniteSets

CONSTANTS
  Leaders,      \* leader threads: connections whose first frame is Init
  Followers,    \* follower threads: connections whose first frame is Join
  None,         \* no thread
  CodeTtl,      \* PairingConfig::code_ttl_ms, in ticks
  MaxSessions   \* PairingConfig::max_sessions

ASSUME ThreadAssumption ==
  /\ IsFiniteSet(Leaders)
  /\ None \notin Leaders \cup Followers
  /\ Leaders \cap Followers = {}

ASSUME ConfigAssumption == CodeTtl \in Nat \ {0} /\ MaxSessions \in Nat

VARIABLES
  alloc,            \* alloc_
  sessions,         \* sessions_: code -> the leader whose Pending it holds
  active_sessions,  \* active_sessions_
  pc,               \* where each leader thread is
  code,             \* the code a leader thread was given
  wait,             \* ticks left of a leader's wait_for
  taken,            \* Pending::taken of each leader
  delivered,        \* Pending::follower of each leader
  turn,             \* whose frame a bridge reads next
  fpc,              \* where each follower connection is
  claim,            \* the leader whose Pending a follower claimed
  joined,           \* the code a follower presented
  freed             \* history: ticks left since a leader gave the code back

vars == <<alloc, sessions, active_sessions, pc, code, wait, taken, delivered,
          turn, fpc, claim, joined, freed>>
leaderVars == <<pc, code, wait, turn>>
followerVars == <<fpc, claim, joined>>
pendingVars == <<taken, delivered>>
tableVars == <<alloc, sessions, freed>>

LeaderPc == {"connected", "refused", "admitted", "coded", "waiting",
             "bridging", "expired", "broken", "leaving", "done"}

\* "paired": the follower was sent Paired and its frames are relayed;
\* "closed": its connection is gone; "told": it got an Error frame.
FollowerPc == {"connected", "claimed", "handed", "paired", "closed", "told"}

TypeOK ==
  /\ alloc \in Allocators(CodeTtl)
  /\ sessions \in [Codes -> Leaders \cup {None}]
  /\ active_sessions \in Nat
  /\ pc \in [Leaders -> LeaderPc]
  /\ code \in [Leaders -> Codes \cup {Absent}]
  /\ wait \in [Leaders -> 0 .. CodeTtl]
  /\ taken \in [Leaders -> BOOLEAN]
  /\ delivered \in [Leaders -> Followers \cup {None}]
  /\ turn \in [Leaders -> {"leader", "follower"}]
  /\ fpc \in [Followers -> FollowerPc]
  /\ claim \in [Followers -> Leaders \cup {None}]
  /\ joined \in [Followers -> Codes \cup {Absent}]
  /\ freed \in [Codes -> 0 .. Cooldown]

Init ==
  /\ alloc = EmptyAllocator
  /\ sessions = [c \in Codes |-> None]
  /\ active_sessions = 0
  /\ pc = [l \in Leaders |-> "connected"]
  /\ code = [l \in Leaders |-> Absent]
  /\ wait = [l \in Leaders |-> 0]
  /\ taken = [l \in Leaders |-> FALSE]
  /\ delivered = [l \in Leaders |-> None]
  /\ turn = [l \in Leaders |-> "leader"]
  /\ fpc = [f \in Followers |-> "connected"]
  /\ claim = [f \in Followers |-> None]
  /\ joined = [f \in Followers |-> Absent]
  /\ freed = [c \in Codes |-> 0]

(***************************************************************************)
(* handle_leader                                                            *)
(***************************************************************************)

\* Mutant: the old value is compared with the limit.
EnterOneMore(l) ==
  /\ pc[l] = "connected"
  /\ active_sessions' = active_sessions + 1
  /\ pc' = [pc EXCEPT ![l] = IF active_sessions > MaxSessions
                             THEN "refused" ELSE "admitted"]
  /\ UNCHANGED <<tableVars, code, wait, turn, pendingVars, followerVars>>

\* fetch_add(1) + 1 > max_sessions: the counter goes up before the limit is
\* looked at, and a refused thread takes it down again in a later step.
Enter(l) ==
  /\ pc[l] = "connected"
  /\ active_sessions' = active_sessions + 1
  /\ pc' = [pc EXCEPT ![l] = IF active_sessions + 1 > MaxSessions
                             THEN "refused" ELSE "admitted"]
  /\ UNCHANGED <<tableVars, code, wait, turn, pendingVars, followerVars>>

\* fetch_sub(1), then Error 3 "server busy".
Refuse(l) ==
  /\ pc[l] = "refused"
  /\ active_sessions' = active_sessions - 1
  /\ pc' = [pc EXCEPT ![l] = "done"]
  /\ UNCHANGED <<tableVars, code, wait, turn, pendingVars, followerVars>>

\* The critical section that takes a code and publishes the Pending; with no
\* code left the thread leaves with Error 4.
AllocateCode(l) ==
  LET a == Expire(alloc)
      c == Min(FreeCodes(a))
  IN  /\ pc[l] = "admitted"
      /\ \/ /\ FreeCodes(a) # {}
            /\ alloc' = Grant(a, c, CodeTtl)
            /\ sessions' = [sessions EXCEPT ![c] = l]
            /\ code' = [code EXCEPT ![l] = c]
            /\ pc' = [pc EXCEPT ![l] = "coded"]
            /\ UNCHANGED active_sessions
         \/ /\ FreeCodes(a) = {}
            /\ alloc' = Exhaust(a)
            /\ active_sessions' = active_sessions - 1
            /\ pc' = [pc EXCEPT ![l] = "done"]
            /\ UNCHANGED <<sessions, code>>
      /\ UNCHANGED <<freed, wait, turn, pendingVars, followerVars>>

\* The Code frame reaches the leader and its wait starts, or the write fails
\* and the thread goes straight to the cleanup.
SendCode(l) ==
  /\ pc[l] = "coded"
  /\ \/ /\ pc' = [pc EXCEPT ![l] = "waiting"]
        /\ wait' = [wait EXCEPT ![l] = CodeTtl]
     \/ /\ pc' = [pc EXCEPT ![l] = "broken"]
        /\ UNCHANGED wait
  /\ UNCHANGED <<tableVars, active_sessions, code, turn, pendingVars, followerVars>>

\* wait_for returns with the predicate true: the leader thread takes the
\* follower's connection over and sends Paired to both, leader first.  The
\* bridge starts only when both writes succeed.
WaitWake(l) ==
  LET f == delivered[l]
  IN  /\ pc[l] = "waiting"
      /\ f # None
      /\ \/ /\ pc' = [pc EXCEPT ![l] = "bridging"]
            /\ fpc' = [fpc EXCEPT ![f] = "paired"]
         \/ /\ pc' = [pc EXCEPT ![l] = "broken"]
            /\ fpc' = [fpc EXCEPT ![f] = "closed"]
      /\ UNCHANGED <<tableVars, active_sessions, code, wait, turn, pendingVars,
                     claim, joined>>

\* Mutant: a wait without a timeout.
WaitForever(l) == pc[l] = "waiting" /\ FALSE /\ UNCHANGED vars

\* Mutant: a wait without a predicate, which any wake-up ends.
WaitSpurious(l) ==
  /\ pc[l] = "waiting"
  /\ delivered[l] = None
  /\ pc' = [pc EXCEPT ![l] = "expired"]
  /\ UNCHANGED <<tableVars, active_sessions, code, wait, turn, pendingVars, followerVars>>

\* wait_for times out with no follower: Error 5 "pairing code expired".
WaitExpire(l) ==
  /\ pc[l] = "waiting"
  /\ wait[l] = 0
  /\ delivered[l] = None
  /\ pc' = [pc EXCEPT ![l] = "expired"]
  /\ UNCHANGED <<tableVars, active_sessions, code, wait, turn, pendingVars, followerVars>>

\* bridge(): one frame goes from the side whose turn it is to the other side.
Forward(l) ==
  /\ pc[l] = "bridging"
  /\ turn' = [turn EXCEPT ![l] = IF @ = "leader" THEN "follower" ELSE "leader"]
  /\ UNCHANGED <<tableVars, active_sessions, pc, code, wait, pendingVars, followerVars>>

\* bridge() ends: the side whose turn it is closes, fails or stays silent for
\* bridge_timeout_ms, or the other side can no longer be written.
BridgeEnd(l) ==
  /\ pc[l] = "bridging"
  /\ pc' = [pc EXCEPT ![l] = "broken"]
  /\ fpc' = [fpc EXCEPT ![delivered[l]] = "closed"]
  /\ UNCHANGED <<tableVars, active_sessions, code, wait, turn, pendingVars, claim, joined>>

\* Mutant: the session stays in sessions_.
CleanupKeepsSession(l) ==
  /\ pc[l] \in {"expired", "broken"}
  /\ alloc' = Release(alloc, code[l])
  /\ freed' = [freed EXCEPT ![code[l]] = Cooldown]
  /\ pc' = [pc EXCEPT ![l] = "leaving"]
  /\ UNCHANGED <<sessions, active_sessions, code, wait, turn, pendingVars, followerVars>>

\* cleanup(code): whatever sessions_ and active_ hold under the code goes.
Cleanup(l) ==
  /\ pc[l] \in {"expired", "broken"}
  /\ sessions' = [sessions EXCEPT ![code[l]] = None]
  /\ alloc' = Release(alloc, code[l])
  /\ freed' = [freed EXCEPT ![code[l]] = Cooldown]
  /\ pc' = [pc EXCEPT ![l] = "leaving"]
  /\ UNCHANGED <<active_sessions, code, wait, turn, pendingVars, followerVars>>

\* fetch_sub(1) and return: the thread's reference to the Pending goes, and
\* with it a connection delivered too late.
Leave(l) ==
  /\ pc[l] = "leaving"
  /\ active_sessions' = active_sessions - 1
  /\ pc' = [pc EXCEPT ![l] = "done"]
  /\ fpc' = [f \in Followers |-> IF delivered[l] = f THEN "closed" ELSE fpc[f]]
  /\ UNCHANGED <<tableVars, code, wait, turn, pendingVars, claim, joined>>

\* handle(): the TLS handshake or the first frame fails, or does not decode.
LeaderHandleFails(l) ==
  /\ pc[l] = "connected"
  /\ pc' = [pc EXCEPT ![l] = "done"]
  /\ UNCHANGED <<tableVars, active_sessions, code, wait, turn, pendingVars, followerVars>>

(***************************************************************************)
(* handle_follower                                                          *)
(***************************************************************************)

\* Mutant: taken is set and never looked at.
ClaimTwice(f, c) ==
  LET l == sessions[c]
  IN  /\ fpc[f] = "connected"
      /\ joined' = [joined EXCEPT ![f] = c]
      /\ \/ /\ l # None
            /\ taken' = [taken EXCEPT ![l] = TRUE]
            /\ claim' = [claim EXCEPT ![f] = l]
            /\ fpc' = [fpc EXCEPT ![f] = "claimed"]
         \/ /\ l = None
            /\ fpc' = [fpc EXCEPT ![f] = "told"]
            /\ UNCHANGED <<taken, claim>>
      /\ UNCHANGED <<tableVars, active_sessions, leaderVars, delivered>>

\* The critical section that claims a code, for any code a user may type.
Claim(f, c) ==
  LET l == sessions[c]
  IN  /\ fpc[f] = "connected"
      /\ joined' = [joined EXCEPT ![f] = c]
      /\ \/ /\ l # None
            /\ ~ taken[l]
            /\ taken' = [taken EXCEPT ![l] = TRUE]
            /\ claim' = [claim EXCEPT ![f] = l]
            /\ fpc' = [fpc EXCEPT ![f] = "claimed"]
         \/ /\ IF l = None THEN TRUE ELSE taken[l]
            /\ fpc' = [fpc EXCEPT ![f] = "told"]
            /\ UNCHANGED <<taken, claim>>
      /\ UNCHANGED <<tableVars, active_sessions, leaderVars, delivered>>

\* Mutant: the connection is moved away but not into the Pending.
HandoffMisses(f) ==
  /\ fpc[f] = "claimed"
  /\ fpc' = [fpc EXCEPT ![f] = "handed"]
  /\ UNCHANGED <<tableVars, active_sessions, leaderVars, pendingVars, claim, joined>>

\* The connection moves into the Pending and the leader is notified.  When
\* the leader thread has returned, this was the last reference to the Pending
\* and the connection closes with it.
Handoff(f) ==
  LET l == claim[f]
  IN  /\ fpc[f] = "claimed"
      /\ delivered' = [delivered EXCEPT ![l] = f]
      /\ fpc' = [fpc EXCEPT ![f] = IF pc[l] = "done" THEN "closed" ELSE "handed"]
      /\ UNCHANGED <<tableVars, active_sessions, leaderVars, taken, claim, joined>>

FollowerHandleFails(f) ==
  /\ fpc[f] = "connected"
  /\ fpc' = [fpc EXCEPT ![f] = "closed"]
  /\ UNCHANGED <<tableVars, active_sessions, leaderVars, pendingVars, claim, joined>>

\* Time passes for every timer at once; a thread may be late to notice.
Tick ==
  /\ alloc' = Age(alloc)
  /\ wait' = [l \in Leaders |-> Countdown(wait[l])]
  /\ freed' = [c \in Codes |-> Countdown(freed[c])]
  /\ UNCHANGED <<sessions, active_sessions, pc, code, turn, pendingVars, followerVars>>

LeaderStep(l) ==
  \/ Enter(l) \/ Refuse(l) \/ AllocateCode(l) \/ SendCode(l)
  \/ WaitWake(l) \/ WaitExpire(l) \/ Forward(l) \/ BridgeEnd(l)
  \/ Cleanup(l) \/ Leave(l) \/ LeaderHandleFails(l)

FollowerStep(f) ==
  \/ \E c \in Codes : Claim(f, c)
  \/ Handoff(f)
  \/ FollowerHandleFails(f)

Next ==
  \/ \E l \in Leaders : LeaderStep(l)
  \/ \E f \in Followers : FollowerStep(f)
  \/ Tick

Spec == Init /\ [][Next]_vars

(***************************************************************************)
(* Fairness.  The server's threads run whenever they can and time passes.   *)
(* Nothing is assumed of Forward and BridgeEnd: which of the two comes, and *)
(* how often, is up to the clients.                                         *)
(***************************************************************************)
Fairness ==
  /\ WF_vars(Tick)
  /\ \A l \in Leaders :
       /\ WF_vars(Refuse(l)) /\ WF_vars(AllocateCode(l)) /\ WF_vars(SendCode(l))
       /\ WF_vars(WaitWake(l)) /\ WF_vars(WaitExpire(l))
       /\ WF_vars(Cleanup(l)) /\ WF_vars(Leave(l))
  /\ \A f \in Followers : WF_vars(Handoff(f))

FairSpec == Spec /\ Fairness

(***************************************************************************)
(* The same server on an idle machine: no thread lets a tick pass while it  *)
(* has something to do, so only a wait and a bridge take time.  Every       *)
(* behaviour of PromptSpec is one of Spec.                                  *)
(***************************************************************************)
Busy ==
  \/ \E l \in Leaders :
       \/ pc[l] \in {"refused", "admitted", "coded", "expired", "broken", "leaving"}
       \/ pc[l] = "waiting" /\ (delivered[l] # None \/ wait[l] = 0)
  \/ \E f \in Followers : fpc[f] = "claimed"

PromptNext ==
  \/ \E l \in Leaders : LeaderStep(l)
  \/ \E f \in Followers : FollowerStep(f)
  \/ ~ Busy /\ Tick

PromptSpec == Init /\ [][PromptNext]_vars

(***************************************************************************)
(* Properties                                                               *)
(***************************************************************************)

Admitted == {l \in Leaders : pc[l] \in {"admitted", "coded", "waiting", "bridging",
                                        "expired", "broken", "leaving"}}

\* Never more than max_sessions leader threads are past the gate of
\* handle_leader, although the counter itself overshoots: every thread raises
\* it before it looks at it.
SessionLimit ==
  /\ Cardinality(Admitted) <= MaxSessions
  /\ active_sessions = Cardinality(Admitted \cup {l \in Leaders : pc[l] = "refused"})

\* A session a follower can still find belongs to a leader thread that was
\* given this very code and has not run its cleanup: handle_follower never
\* claims the Pending of a leader that is gone.
SessionsAlive ==
  \A c \in Codes : sessions[c] # None =>
    /\ code[sessions[c]] = c
    /\ pc[sessions[c]] \in {"coded", "waiting", "bridging", "expired", "broken"}

\* For cooldown_ms after a leader gave a code back, nobody can be found under
\* it: a late follower cannot land on a recycled code.  expire() must not
\* shorten the cooldown that release() started.
QuietAfterRelease ==
  \A c \in Codes : freed[c] > 0 => sessions[c] = None

\* A leader serves the one follower that claimed it, no follower is handed to
\* two leaders, and the two agreed on the code.
OnePairing ==
  /\ \A l \in Leaders : delivered[l] # None =>
        /\ claim[delivered[l]] = l
        /\ joined[delivered[l]] = code[l]
  /\ \A f, g \in Followers : claim[f] = claim[g] /\ claim[f] # None => f = g

\* Once a follower has claimed a code, its connection is closed without the
\* Paired frame only when the leader that took it over could not write Paired,
\* or when the leader's thread is on its way out after a wait that timed out or
\* never began because the Code frame could not be written: no step of the two
\* threads closes it while the leader still waits for it.
HandoffNotLost ==
  [][\A f \in Followers :
       fpc[f] \in {"claimed", "handed"} /\ fpc'[f] = "closed" =>
         LET l == claim[f]
         IN  \/ pc[l] = "waiting" /\ delivered[l] = f /\ pc'[l] = "broken"
             \/ pc[l] \in {"leaving", "done"} /\ wait[l] = 0]_vars

\* A follower that claimed a code is eventually paired or disconnected: the
\* connection parked in a Pending never outlives the leader thread.
ClaimResolved ==
  \A f \in Followers : fpc[f] = "claimed" ~> fpc[f] \in {"paired", "closed"}

\* An admitted leader thread ends, so that its slot and its code come back,
\* unless its two clients keep the bridge busy for ever: bridge() limits the
\* time of a read and not the number of frames.
LeadersEnd ==
  \A l \in Leaders :
    pc[l] = "admitted" ~> (pc[l] = "done" \/ [](pc[l] = "bridging"))

\* PairingConfig says code_ttl_ms is "how long a code waits for a follower":
\* a leader that waits and was not claimed can be found under its code.
CodeStaysClaimable ==
  \A l \in Leaders :
    pc[l] = "waiting" /\ wait[l] > 0 /\ ~ taken[l] => sessions[code[l]] = l

(***************************************************************************)
(* The inductive invariant the proofs rest on.                              *)
(***************************************************************************)

\* A thread past the allocation holds a code.
ThreadFacts ==
  \A l \in Leaders :
    pc[l] \in {"coded", "waiting", "bridging", "expired", "broken", "leaving"} =>
      code[l] \in Codes

\* What the life of a follower thread says about the leader it claimed.
ClaimFacts ==
  /\ \A f \in Followers :
       /\ fpc[f] = "connected" => claim[f] = None
       /\ fpc[f] \in {"claimed", "handed", "paired"} => claim[f] # None
       /\ claim[f] # None =>
            /\ taken[claim[f]]
            /\ joined[f] = code[claim[f]]
            /\ code[claim[f]] \in Codes
            /\ pc[claim[f]] \in {"coded", "waiting", "bridging", "expired",
                                 "broken", "leaving", "done"}
       /\ fpc[f] = "claimed" => delivered[claim[f]] = None
  /\ \A l \in Leaders : pc[l] = "bridging" =>
       delivered[l] # None /\ fpc[delivered[l]] = "paired"

\* A connection in a Pending is the one its leader will find.
ParkedFacts ==
  \A f \in Followers : fpc[f] = "handed" =>
    /\ delivered[claim[f]] = f
    /\ pc[claim[f]] \in {"coded", "waiting", "expired", "broken", "leaving"}

\* No time is left to wait before the wait starts, and none when the leader has
\* gone on without the follower that claimed it or may still claim it.
WaitFacts ==
  /\ \A l \in Leaders :
       /\ pc[l] \in {"connected", "refused", "admitted", "coded", "expired"} => wait[l] = 0
       /\ pc[l] = "broken" /\ ~ taken[l] => wait[l] = 0
  /\ \A f \in Followers :
       fpc[f] \in {"claimed", "handed"} /\ pc[claim[f]] \in {"broken", "leaving", "done"} =>
         wait[claim[f]] = 0

\* The cooldown that release() started is still running in the allocator.
CooldownFacts ==
  \A c \in Codes : freed[c] > 0 => alloc.cooldown[c] >= freed[c]

IInv ==
  /\ TypeOK /\ SessionLimit /\ SessionsAlive /\ QuietAfterRelease
  /\ OnePairing /\ ParkedFacts
  /\ ThreadFacts /\ ClaimFacts /\ WaitFacts /\ CooldownFacts

(***************************************************************************)
(* The promise: each leader meets at most one follower.                     *)
(***************************************************************************)
PhaseOf(p) ==
  IF p \in {"connected", "refused", "admitted"} THEN "idle"
  ELSE IF p \in {"coded", "waiting"} THEN "offering"
  ELSE IF p = "bridging" THEN "talking"
  ELSE IF p \in {"expired", "broken"} THEN "closing"
  ELSE "over"

Phase == [l \in Leaders |-> PhaseOf(pc[l])]

R == INSTANCE Rendezvous WITH NoCode <- Absent, phase <- Phase, offered <- code,
                              partner <- claim

\* The server implements the rendezvous: claims and pairings of its threads
\* are steps of Rendezvous, everything else stutters.
RendezvousSpec == R!Spec
=============================================================================
