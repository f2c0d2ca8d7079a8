------------------------ MODULE PairingServerProofs ------------------------
(***************************************************************************)
(* Proofs about the pairing server, for any number of threads, any pool of  *)
(* codes and any timer values: its invariants, and that it implements the   *)
(* rendezvous.                                                              *)
(***************************************************************************)
EXTENDS PairingServer, FiniteSetTheorems, WellFoundedInduction, TLAPS

\* A nonempty set of naturals has a least element, so Min names one.
LEMMA MinOfNaturals ==
  ASSUME NEW S \in SUBSET Nat, S # {}
  PROVE  Min(S) \in S /\ \A n \in S : Min(S) <= n
<1>1. PICK m \in S : \A n \in S : ~ (<<n, m>> \in OpToRel(<, Nat))
  BY NatLessThanWellFounded, WFMin, Zenon
<1>2. \A n \in S : m <= n
  <2>1. SUFFICES ASSUME NEW n \in S PROVE m <= n
    OBVIOUS
  <2>2. ~ (<<n, m>> \in {ss \in Nat \X Nat : ss[1] < ss[2]})
    BY <1>1 DEF OpToRel
  <2>3. ~ (n < m)
    BY <2>2
  <2>4. QED
    BY <2>3
<1>3. QED
  BY <1>1, <1>2 DEF Min

(***************************************************************************)
(* The allocator                                                            *)
(***************************************************************************)

\* Every pool size the allocator can reach is within the pool bounds.
LEMMA PoolSizesNat == PoolSizes \in SUBSET Nat /\ HardMax \in PoolSizes
BY PoolAssumption DEF PoolSizes

\* expire(), release() and the clock keep the shape of the allocator.
LEMMA AllocatorType ==
  ASSUME NEW a \in Allocators(CodeTtl), NEW c \in Codes
  PROVE  /\ Expire(a) \in Allocators(CodeTtl)
         /\ Release(a, c) \in Allocators(CodeTtl)
         /\ Age(a) \in Allocators(CodeTtl)
         /\ Exhaust(a) \in Allocators(CodeTtl)
         /\ Grant(a, c, CodeTtl) \in Allocators(CodeTtl)
<1> USE CooldownAssumption, ConfigAssumption
<1>1. Expire(a) \in Allocators(CodeTtl)
  BY DEF Expire, Allocators, Absent
<1>2. Release(a, c) \in Allocators(CodeTtl)
  BY DEF Release, Allocators, Absent
<1>3. Age(a) \in Allocators(CodeTtl)
  BY DEF Age, Allocators, Absent, Countdown
<1>4. Exhaust(a) \in Allocators(CodeTtl)
  BY PoolSizesNat DEF Exhaust, Allocators
<1>5. Grant(a, c, CodeTtl) \in Allocators(CodeTtl)
  <2>1. HardMax \in {p \in PoolSizes : p > c}
    BY PoolSizesNat, PoolAssumption DEF Codes
  <2>2. Min({p \in PoolSizes : p > c}) \in PoolSizes
    BY <2>1, PoolSizesNat, MinOfNaturals
  <2>3. QED
    BY <2>2 DEF Grant, Allocators
<1>6. QED
  BY <1>1, <1>2, <1>3, <1>4, <1>5

\* A free code exists exactly when allocate() returns one of the pool.
LEMMA FreeCode ==
  ASSUME NEW a \in Allocators(CodeTtl), FreeCodes(a) # {}
  PROVE  Min(FreeCodes(a)) \in FreeCodes(a) /\ Min(FreeCodes(a)) \in Codes
<1>1. FreeCodes(a) \in SUBSET Nat
  BY PoolAssumption DEF FreeCodes, Codes
<1>2. QED
  BY <1>1, MinOfNaturals DEF FreeCodes

\* A running cooldown survives expire(), which never shortens it; the code
\* therefore is not free.
LEMMA ExpireKeepsCooldown ==
  ASSUME NEW a \in Allocators(CodeTtl), NEW c \in Codes, NEW t \in 1 .. Cooldown,
         a.cooldown[c] >= t
  PROVE  Expire(a).cooldown[c] >= t /\ c \notin FreeCodes(Expire(a))
BY CooldownAssumption DEF Allocators, Expire, FreeCodes, Absent

(***************************************************************************)
(* The inductive invariant                                                  *)
(***************************************************************************)

\* The invariant holds before the first connection.
LEMMA InitIInv == Init => IInv
<1> SUFFICES ASSUME Init PROVE IInv
  OBVIOUS
<1> USE DEF Init
<1>1. TypeOK
  BY PoolAssumption, CooldownAssumption, ConfigAssumption
     DEF TypeOK, EmptyAllocator, Allocators, LeaderPc, FollowerPc
<1>2. SessionLimit
  <2>1. Admitted = {} /\ {l \in Leaders : pc[l] = "refused"} = {}
    BY DEF Admitted
  <2>2. QED
    BY <2>1, FS_EmptySet, ConfigAssumption DEF SessionLimit
<1>3. SessionsAlive /\ QuietAfterRelease /\ OnePairing /\ ParkedFacts
  BY DEF SessionsAlive, QuietAfterRelease, OnePairing, ParkedFacts
<1>4. ThreadFacts /\ ClaimFacts /\ WaitFacts /\ CooldownFacts
  BY DEF ThreadFacts, ClaimFacts, WaitFacts, CooldownFacts
<1>5. QED
  BY <1>1, <1>2, <1>3, <1>4 DEF IInv

\* The threads that have raised the counter of handle_leader and not yet
\* lowered it.
InFlight == Admitted \cup {l \in Leaders : pc[l] = "refused"}

\* The counter counts them, so a thread among them can lower it.
LEMMA CounterPositive ==
  ASSUME IInv, NEW l \in InFlight
  PROVE  /\ IsFiniteSet(InFlight)
         /\ active_sessions = Cardinality(InFlight)
         /\ active_sessions - 1 \in Nat
<1>1. InFlight \in SUBSET Leaders
  BY DEF InFlight, Admitted
<1>2. IsFiniteSet(InFlight)
  BY <1>1, ThreadAssumption, FS_Subset
<1>3. active_sessions = Cardinality(InFlight)
  BY DEF IInv, SessionLimit, InFlight
<1>4. Cardinality(InFlight) \in Nat /\ Cardinality(InFlight) # 0
  BY <1>2, FS_CardinalityType, FS_EmptySet
<1>5. QED
  BY <1>2, <1>3, <1>4

\* What the critical section of handle_leader does to the allocator.
LEMMA AllocateFacts ==
  ASSUME IInv, NEW l \in Leaders, AllocateCode(l)
  PROVE  /\ alloc' \in Allocators(CodeTtl)
         /\ alloc'.cooldown = Expire(alloc).cooldown
         /\ \/ \E c \in FreeCodes(Expire(alloc)) :
                 /\ c \in Codes
                 /\ code' = [code EXCEPT ![l] = c]
                 /\ sessions' = [sessions EXCEPT ![c] = l]
                 /\ pc' = [pc EXCEPT ![l] = "coded"]
                 /\ active_sessions' = active_sessions
            \/ /\ active_sessions' = active_sessions - 1
               /\ pc' = [pc EXCEPT ![l] = "done"]
               /\ UNCHANGED <<sessions, code>>
<1>1. alloc \in Allocators(CodeTtl)
  BY DEF IInv, TypeOK
<1>2. Expire(alloc) \in Allocators(CodeTtl)
  BY <1>1, CooldownAssumption DEF Expire, Allocators, Absent
<1>3. CASE FreeCodes(Expire(alloc)) # {}
  <2>1. /\ Min(FreeCodes(Expire(alloc))) \in FreeCodes(Expire(alloc))
        /\ Min(FreeCodes(Expire(alloc))) \in Codes
    BY <1>2, <1>3, FreeCode
  <2>2. alloc' = Grant(Expire(alloc), Min(FreeCodes(Expire(alloc))), CodeTtl)
    BY <1>3 DEF AllocateCode
  <2>3. alloc' \in Allocators(CodeTtl)
    BY <1>2, <2>1, <2>2, AllocatorType
  <2>4. alloc'.cooldown = Expire(alloc).cooldown
    BY <2>2 DEF Grant
  <2>5. QED
    BY <1>3, <2>1, <2>3, <2>4 DEF AllocateCode
<1>4. CASE FreeCodes(Expire(alloc)) = {}
  <2>1. alloc' = Exhaust(Expire(alloc))
    BY <1>4 DEF AllocateCode
  <2>2. alloc' \in Allocators(CodeTtl) /\ alloc'.cooldown = Expire(alloc).cooldown
    BY <1>2, <2>1, PoolSizesNat DEF Exhaust, Allocators
  <2>3. QED
    BY <1>4, <2>2 DEF AllocateCode
<1>5. QED
  BY <1>3, <1>4

\* Every step keeps the types; the counter of sessions never goes below zero.
LEMMA TypeStep == IInv /\ [Next]_vars => TypeOK'
<1> SUFFICES ASSUME IInv, [Next]_vars PROVE TypeOK'
  OBVIOUS
<1> USE ThreadAssumption, ConfigAssumption, CooldownAssumption DEF IInv, TypeOK, LeaderPc, FollowerPc, vars,
         tableVars, leaderVars, followerVars, pendingVars
<1>1. ASSUME NEW l \in Leaders, Enter(l) PROVE TypeOK'
  BY <1>1 DEF Enter
<1>2. ASSUME NEW l \in Leaders, Refuse(l) PROVE TypeOK'
  <2>1. l \in InFlight
    BY <1>2 DEF Refuse, InFlight
  <2>2. active_sessions' \in Nat
    BY <1>2, <2>1, CounterPositive DEF Refuse
  <2>3. QED
    BY <1>2, <2>2 DEF Refuse
<1>3. ASSUME NEW l \in Leaders, AllocateCode(l) PROVE TypeOK'
  <2>1. l \in InFlight
    BY <1>3 DEF AllocateCode, InFlight, Admitted
  <2>2. active_sessions' \in Nat
    BY <1>3, <2>1, CounterPositive DEF AllocateCode
  <2>3. QED
    BY <1>3, <2>2, AllocateFacts DEF AllocateCode
<1>4. ASSUME NEW l \in Leaders, SendCode(l) PROVE TypeOK'
  BY <1>4 DEF SendCode
<1>5. ASSUME NEW l \in Leaders, WaitWake(l) PROVE TypeOK'
  BY <1>5 DEF WaitWake
<1>6. ASSUME NEW l \in Leaders, WaitExpire(l) PROVE TypeOK'
  BY <1>6 DEF WaitExpire
<1>7. ASSUME NEW l \in Leaders, Forward(l) PROVE TypeOK'
  BY <1>7 DEF Forward
<1>8. ASSUME NEW l \in Leaders, BridgeEnd(l) PROVE TypeOK'
  BY <1>8 DEF BridgeEnd
<1>9. ASSUME NEW l \in Leaders, Cleanup(l) PROVE TypeOK'
  <2>1. code[l] \in Codes
    BY <1>9 DEF Cleanup, ThreadFacts
  <2>2. alloc' \in Allocators(CodeTtl)
    BY <1>9, <2>1, AllocatorType DEF Cleanup
  <2>3. QED
    BY <1>9, <2>1, <2>2 DEF Cleanup
<1>10. ASSUME NEW l \in Leaders, Leave(l) PROVE TypeOK'
  <2>1. l \in InFlight
    BY <1>10 DEF Leave, InFlight, Admitted
  <2>2. active_sessions' \in Nat
    BY <1>10, <2>1, CounterPositive DEF Leave
  <2>3. QED
    BY <1>10, <2>2 DEF Leave
<1>11. ASSUME NEW l \in Leaders, LeaderHandleFails(l) PROVE TypeOK'
  BY <1>11 DEF LeaderHandleFails
<1>12. ASSUME NEW f \in Followers, NEW c \in Codes, Claim(f, c) PROVE TypeOK'
  <2>1. joined' \in [Followers -> Codes \cup {Absent}]
    BY <1>12 DEF Claim
  <2>2. fpc' \in [Followers -> FollowerPc]
    BY <1>12 DEF Claim
  <2>3. /\ taken' \in [Leaders -> BOOLEAN]
        /\ claim' \in [Followers -> Leaders \cup {None}]
    <3>1. CASE UNCHANGED <<taken, claim>>
      BY <3>1
    <3>2. CASE /\ sessions[c] # None
               /\ taken' = [taken EXCEPT ![sessions[c]] = TRUE]
               /\ claim' = [claim EXCEPT ![f] = sessions[c]]
      <4>1. sessions[c] \in Leaders
        BY <3>2
      <4> QED
        BY <3>2, <4>1
    <3> QED
      BY <1>12, <3>1, <3>2 DEF Claim
  <2> QED
    BY <1>12, <2>1, <2>2, <2>3 DEF Claim
<1>13. ASSUME NEW f \in Followers, Handoff(f) PROVE TypeOK'
  BY <1>13 DEF Handoff
<1>14. ASSUME NEW f \in Followers, FollowerHandleFails(f) PROVE TypeOK'
  BY <1>14 DEF FollowerHandleFails
<1>15. CASE Tick
  <2>1. alloc' \in Allocators(CodeTtl)
    BY <1>15 DEF Tick, Age, Allocators, Absent, Countdown
  <2>2. QED
    BY <1>15, <2>1 DEF Tick, Countdown
<1>16. CASE UNCHANGED vars
  BY <1>16
<1>17. QED
  BY <1>1, <1>2, <1>3, <1>4, <1>5, <1>6, <1>7, <1>8, <1>9, <1>10, <1>11, <1>12, <1>13, <1>14, <1>15, <1>16
     DEF Next, LeaderStep, FollowerStep

\* Every step keeps the sessions that can be found alive.
LEMMA AliveStep == IInv /\ [Next]_vars => SessionsAlive'
<1> SUFFICES ASSUME IInv, [Next]_vars PROVE SessionsAlive'
  OBVIOUS
<1> USE ThreadAssumption DEF IInv, TypeOK, SessionsAlive, ThreadFacts, vars,
         tableVars, leaderVars, followerVars, pendingVars
<1>1. ASSUME NEW l \in Leaders, Enter(l) PROVE SessionsAlive'
  BY <1>1 DEF Enter
<1>2. ASSUME NEW l \in Leaders, Refuse(l) PROVE SessionsAlive'
  BY <1>2 DEF Refuse
<1>3. ASSUME NEW l \in Leaders, AllocateCode(l) PROVE SessionsAlive'
  BY <1>3 DEF AllocateCode
<1>4. ASSUME NEW l \in Leaders, SendCode(l) PROVE SessionsAlive'
  BY <1>4 DEF SendCode
<1>5. ASSUME NEW l \in Leaders, WaitWake(l) PROVE SessionsAlive'
  BY <1>5 DEF WaitWake
<1>6. ASSUME NEW l \in Leaders, WaitExpire(l) PROVE SessionsAlive'
  BY <1>6 DEF WaitExpire
<1>7. ASSUME NEW l \in Leaders, Forward(l) PROVE SessionsAlive'
  BY <1>7 DEF Forward
<1>8. ASSUME NEW l \in Leaders, BridgeEnd(l) PROVE SessionsAlive'
  BY <1>8 DEF BridgeEnd
<1>9. ASSUME NEW l \in Leaders, Cleanup(l) PROVE SessionsAlive'
  BY <1>9 DEF Cleanup
<1>10. ASSUME NEW l \in Leaders, Leave(l) PROVE SessionsAlive'
  BY <1>10 DEF Leave
<1>11. ASSUME NEW l \in Leaders, LeaderHandleFails(l) PROVE SessionsAlive'
  BY <1>11 DEF LeaderHandleFails
<1>12. ASSUME NEW f \in Followers, NEW c \in Codes, Claim(f, c) PROVE SessionsAlive'
  BY <1>12 DEF Claim
<1>13. ASSUME NEW f \in Followers, Handoff(f) PROVE SessionsAlive'
  BY <1>13 DEF Handoff
<1>14. ASSUME NEW f \in Followers, FollowerHandleFails(f) PROVE SessionsAlive'
  BY <1>14 DEF FollowerHandleFails
<1>15. CASE Tick
  BY <1>15 DEF Tick
<1>16. CASE UNCHANGED vars
  BY <1>16
<1>17. QED
  BY <1>1, <1>2, <1>3, <1>4, <1>5, <1>6, <1>7, <1>8, <1>9, <1>10, <1>11, <1>12, <1>13, <1>14, <1>15, <1>16
     DEF Next, LeaderStep, FollowerStep

\* Every step keeps the codes of the leader threads.
LEMMA ThreadStep == IInv /\ [Next]_vars => ThreadFacts'
<1> SUFFICES ASSUME IInv, [Next]_vars PROVE ThreadFacts'
  OBVIOUS
<1> USE ThreadAssumption DEF IInv, TypeOK, ThreadFacts, vars,
         tableVars, leaderVars, followerVars, pendingVars
<1>1. ASSUME NEW l \in Leaders, Enter(l) PROVE ThreadFacts'
  BY <1>1 DEF Enter
<1>2. ASSUME NEW l \in Leaders, Refuse(l) PROVE ThreadFacts'
  BY <1>2 DEF Refuse
<1>3. ASSUME NEW l \in Leaders, AllocateCode(l) PROVE ThreadFacts'
  BY <1>3, AllocateFacts
<1>4. ASSUME NEW l \in Leaders, SendCode(l) PROVE ThreadFacts'
  BY <1>4 DEF SendCode
<1>5. ASSUME NEW l \in Leaders, WaitWake(l) PROVE ThreadFacts'
  BY <1>5 DEF WaitWake
<1>6. ASSUME NEW l \in Leaders, WaitExpire(l) PROVE ThreadFacts'
  BY <1>6 DEF WaitExpire
<1>7. ASSUME NEW l \in Leaders, Forward(l) PROVE ThreadFacts'
  BY <1>7 DEF Forward
<1>8. ASSUME NEW l \in Leaders, BridgeEnd(l) PROVE ThreadFacts'
  BY <1>8 DEF BridgeEnd
<1>9. ASSUME NEW l \in Leaders, Cleanup(l) PROVE ThreadFacts'
  BY <1>9 DEF Cleanup
<1>10. ASSUME NEW l \in Leaders, Leave(l) PROVE ThreadFacts'
  BY <1>10 DEF Leave
<1>11. ASSUME NEW l \in Leaders, LeaderHandleFails(l) PROVE ThreadFacts'
  BY <1>11 DEF LeaderHandleFails
<1>12. ASSUME NEW f \in Followers, NEW c \in Codes, Claim(f, c) PROVE ThreadFacts'
  BY <1>12 DEF Claim
<1>13. ASSUME NEW f \in Followers, Handoff(f) PROVE ThreadFacts'
  BY <1>13 DEF Handoff
<1>14. ASSUME NEW f \in Followers, FollowerHandleFails(f) PROVE ThreadFacts'
  BY <1>14 DEF FollowerHandleFails
<1>15. CASE Tick
  BY <1>15 DEF Tick
<1>16. CASE UNCHANGED vars
  BY <1>16
<1>17. QED
  BY <1>1, <1>2, <1>3, <1>4, <1>5, <1>6, <1>7, <1>8, <1>9, <1>10, <1>11, <1>12, <1>13, <1>14, <1>15, <1>16
     DEF Next, LeaderStep, FollowerStep

\* Every step keeps what a follower knows of its leader.
LEMMA ClaimStep == IInv /\ [Next]_vars => ClaimFacts'
<1> SUFFICES ASSUME IInv, [Next]_vars PROVE ClaimFacts'
  OBVIOUS
<1> USE ThreadAssumption DEF IInv, TypeOK, ClaimFacts, SessionsAlive, OnePairing, ParkedFacts, vars,
         tableVars, leaderVars, followerVars, pendingVars
<1>1. ASSUME NEW l \in Leaders, Enter(l) PROVE ClaimFacts'
  BY <1>1 DEF Enter
<1>2. ASSUME NEW l \in Leaders, Refuse(l) PROVE ClaimFacts'
  BY <1>2 DEF Refuse
<1>3. ASSUME NEW l \in Leaders, AllocateCode(l) PROVE ClaimFacts'
  BY <1>3 DEF AllocateCode
<1>4. ASSUME NEW l \in Leaders, SendCode(l) PROVE ClaimFacts'
  BY <1>4 DEF SendCode
<1>5. ASSUME NEW l \in Leaders, WaitWake(l) PROVE ClaimFacts'
  BY <1>5 DEF WaitWake
<1>6. ASSUME NEW l \in Leaders, WaitExpire(l) PROVE ClaimFacts'
  BY <1>6 DEF WaitExpire
<1>7. ASSUME NEW l \in Leaders, Forward(l) PROVE ClaimFacts'
  BY <1>7 DEF Forward
<1>8. ASSUME NEW l \in Leaders, BridgeEnd(l) PROVE ClaimFacts'
  BY <1>8 DEF BridgeEnd
<1>9. ASSUME NEW l \in Leaders, Cleanup(l) PROVE ClaimFacts'
  BY <1>9 DEF Cleanup
<1>10. ASSUME NEW l \in Leaders, Leave(l) PROVE ClaimFacts'
  BY <1>10 DEF Leave
<1>11. ASSUME NEW l \in Leaders, LeaderHandleFails(l) PROVE ClaimFacts'
  BY <1>11 DEF LeaderHandleFails
<1>12. ASSUME NEW f \in Followers, NEW c \in Codes, Claim(f, c) PROVE ClaimFacts'
  BY <1>12 DEF Claim
<1>13. ASSUME NEW f \in Followers, Handoff(f) PROVE ClaimFacts'
  BY <1>13 DEF Handoff
<1>14. ASSUME NEW f \in Followers, FollowerHandleFails(f) PROVE ClaimFacts'
  BY <1>14 DEF FollowerHandleFails
<1>15. CASE Tick
  BY <1>15 DEF Tick
<1>16. CASE UNCHANGED vars
  BY <1>16
<1>17. QED
  BY <1>1, <1>2, <1>3, <1>4, <1>5, <1>6, <1>7, <1>8, <1>9, <1>10, <1>11, <1>12, <1>13, <1>14, <1>15, <1>16
     DEF Next, LeaderStep, FollowerStep

\* Every step keeps leaders and followers paired one to one.
LEMMA PairingStep == IInv /\ [Next]_vars => OnePairing'
<1> SUFFICES ASSUME IInv, [Next]_vars PROVE OnePairing'
  OBVIOUS
<1> USE ThreadAssumption DEF IInv, TypeOK, OnePairing, ClaimFacts, ParkedFacts, SessionsAlive, vars,
         tableVars, leaderVars, followerVars, pendingVars
<1>1. ASSUME NEW l \in Leaders, Enter(l) PROVE OnePairing'
  BY <1>1 DEF Enter
<1>2. ASSUME NEW l \in Leaders, Refuse(l) PROVE OnePairing'
  BY <1>2 DEF Refuse
<1>3. ASSUME NEW l \in Leaders, AllocateCode(l) PROVE OnePairing'
  BY <1>3 DEF AllocateCode
<1>4. ASSUME NEW l \in Leaders, SendCode(l) PROVE OnePairing'
  BY <1>4 DEF SendCode
<1>5. ASSUME NEW l \in Leaders, WaitWake(l) PROVE OnePairing'
  BY <1>5 DEF WaitWake
<1>6. ASSUME NEW l \in Leaders, WaitExpire(l) PROVE OnePairing'
  BY <1>6 DEF WaitExpire
<1>7. ASSUME NEW l \in Leaders, Forward(l) PROVE OnePairing'
  BY <1>7 DEF Forward
<1>8. ASSUME NEW l \in Leaders, BridgeEnd(l) PROVE OnePairing'
  BY <1>8 DEF BridgeEnd
<1>9. ASSUME NEW l \in Leaders, Cleanup(l) PROVE OnePairing'
  BY <1>9 DEF Cleanup
<1>10. ASSUME NEW l \in Leaders, Leave(l) PROVE OnePairing'
  BY <1>10 DEF Leave
<1>11. ASSUME NEW l \in Leaders, LeaderHandleFails(l) PROVE OnePairing'
  BY <1>11 DEF LeaderHandleFails
<1>12. ASSUME NEW f \in Followers, NEW c \in Codes, Claim(f, c) PROVE OnePairing'
  BY <1>12 DEF Claim
<1>13. ASSUME NEW f \in Followers, Handoff(f) PROVE OnePairing'
  BY <1>13 DEF Handoff
<1>14. ASSUME NEW f \in Followers, FollowerHandleFails(f) PROVE OnePairing'
  BY <1>14 DEF FollowerHandleFails
<1>15. CASE Tick
  BY <1>15 DEF Tick
<1>16. CASE UNCHANGED vars
  BY <1>16
<1>17. QED
  BY <1>1, <1>2, <1>3, <1>4, <1>5, <1>6, <1>7, <1>8, <1>9, <1>10, <1>11, <1>12, <1>13, <1>14, <1>15, <1>16
     DEF Next, LeaderStep, FollowerStep

\* Every step keeps a handed-over connection with its leader.
LEMMA ParkedStep == IInv /\ [Next]_vars => ParkedFacts'
<1> SUFFICES ASSUME IInv, [Next]_vars PROVE ParkedFacts'
  OBVIOUS
<1> USE ThreadAssumption DEF IInv, TypeOK, ParkedFacts, ClaimFacts, OnePairing, SessionsAlive, vars,
         tableVars, leaderVars, followerVars, pendingVars
<1>1. ASSUME NEW l \in Leaders, Enter(l) PROVE ParkedFacts'
  BY <1>1 DEF Enter
<1>2. ASSUME NEW l \in Leaders, Refuse(l) PROVE ParkedFacts'
  BY <1>2 DEF Refuse
<1>3. ASSUME NEW l \in Leaders, AllocateCode(l) PROVE ParkedFacts'
  BY <1>3 DEF AllocateCode
<1>4. ASSUME NEW l \in Leaders, SendCode(l) PROVE ParkedFacts'
  BY <1>4 DEF SendCode
<1>5. ASSUME NEW l \in Leaders, WaitWake(l) PROVE ParkedFacts'
  BY <1>5 DEF WaitWake
<1>6. ASSUME NEW l \in Leaders, WaitExpire(l) PROVE ParkedFacts'
  BY <1>6 DEF WaitExpire
<1>7. ASSUME NEW l \in Leaders, Forward(l) PROVE ParkedFacts'
  BY <1>7 DEF Forward
<1>8. ASSUME NEW l \in Leaders, BridgeEnd(l) PROVE ParkedFacts'
  BY <1>8 DEF BridgeEnd
<1>9. ASSUME NEW l \in Leaders, Cleanup(l) PROVE ParkedFacts'
  BY <1>9 DEF Cleanup
<1>10. ASSUME NEW l \in Leaders, Leave(l) PROVE ParkedFacts'
  BY <1>10 DEF Leave
<1>11. ASSUME NEW l \in Leaders, LeaderHandleFails(l) PROVE ParkedFacts'
  BY <1>11 DEF LeaderHandleFails
<1>12. ASSUME NEW f \in Followers, NEW c \in Codes, Claim(f, c) PROVE ParkedFacts'
  BY <1>12 DEF Claim
<1>13. ASSUME NEW f \in Followers, Handoff(f) PROVE ParkedFacts'
  BY <1>13 DEF Handoff
<1>14. ASSUME NEW f \in Followers, FollowerHandleFails(f) PROVE ParkedFacts'
  BY <1>14 DEF FollowerHandleFails
<1>15. CASE Tick
  BY <1>15 DEF Tick
<1>16. CASE UNCHANGED vars
  BY <1>16
<1>17. QED
  BY <1>1, <1>2, <1>3, <1>4, <1>5, <1>6, <1>7, <1>8, <1>9, <1>10, <1>11, <1>12, <1>13, <1>14, <1>15, <1>16
     DEF Next, LeaderStep, FollowerStep

\* Every step keeps the time of a leader that went on without its follower at zero.
LEMMA WaitStep == IInv /\ [Next]_vars => WaitFacts'
<1> SUFFICES ASSUME IInv, [Next]_vars PROVE WaitFacts'
  OBVIOUS
<1> USE ThreadAssumption DEF IInv, TypeOK, WaitFacts, ClaimFacts, OnePairing, SessionsAlive, ParkedFacts, vars,
         tableVars, leaderVars, followerVars, pendingVars
<1>1. ASSUME NEW l \in Leaders, Enter(l) PROVE WaitFacts'
  BY <1>1 DEF Enter
<1>2. ASSUME NEW l \in Leaders, Refuse(l) PROVE WaitFacts'
  BY <1>2 DEF Refuse
<1>3. ASSUME NEW l \in Leaders, AllocateCode(l) PROVE WaitFacts'
  BY <1>3 DEF AllocateCode
<1>4. ASSUME NEW l \in Leaders, SendCode(l) PROVE WaitFacts'
  BY <1>4 DEF SendCode
<1>5. ASSUME NEW l \in Leaders, WaitWake(l) PROVE WaitFacts'
  BY <1>5 DEF WaitWake
<1>6. ASSUME NEW l \in Leaders, WaitExpire(l) PROVE WaitFacts'
  BY <1>6 DEF WaitExpire
<1>7. ASSUME NEW l \in Leaders, Forward(l) PROVE WaitFacts'
  BY <1>7 DEF Forward
<1>8. ASSUME NEW l \in Leaders, BridgeEnd(l) PROVE WaitFacts'
  BY <1>8 DEF BridgeEnd
<1>9. ASSUME NEW l \in Leaders, Cleanup(l) PROVE WaitFacts'
  BY <1>9 DEF Cleanup
<1>10. ASSUME NEW l \in Leaders, Leave(l) PROVE WaitFacts'
  BY <1>10 DEF Leave
<1>11. ASSUME NEW l \in Leaders, LeaderHandleFails(l) PROVE WaitFacts'
  BY <1>11 DEF LeaderHandleFails
<1>12. ASSUME NEW f \in Followers, NEW c \in Codes, Claim(f, c) PROVE WaitFacts'
  BY <1>12 DEF Claim
<1>13. ASSUME NEW f \in Followers, Handoff(f) PROVE WaitFacts'
  BY <1>13 DEF Handoff
<1>14. ASSUME NEW f \in Followers, FollowerHandleFails(f) PROVE WaitFacts'
  BY <1>14 DEF FollowerHandleFails
<1>15. CASE Tick
  BY <1>15 DEF Tick, Countdown
<1>16. CASE UNCHANGED vars
  BY <1>16
<1>17. QED
  BY <1>1, <1>2, <1>3, <1>4, <1>5, <1>6, <1>7, <1>8, <1>9, <1>10, <1>11, <1>12, <1>13, <1>14, <1>15, <1>16
     DEF Next, LeaderStep, FollowerStep

\* Every step keeps a started cooldown running in the allocator.
LEMMA CooldownStep == IInv /\ [Next]_vars => CooldownFacts'
<1> SUFFICES ASSUME IInv, [Next]_vars PROVE CooldownFacts'
  OBVIOUS
<1> USE CooldownAssumption, ConfigAssumption DEF IInv, TypeOK, CooldownFacts, vars,
         tableVars, leaderVars, followerVars, pendingVars
<1>1. ASSUME NEW l \in Leaders, Enter(l) PROVE CooldownFacts'
  BY <1>1 DEF Enter
<1>2. ASSUME NEW l \in Leaders, Refuse(l) PROVE CooldownFacts'
  BY <1>2 DEF Refuse
<1>3. ASSUME NEW l \in Leaders, AllocateCode(l) PROVE CooldownFacts'
  <2> SUFFICES ASSUME NEW c \in Codes, freed[c] > 0
               PROVE  alloc'.cooldown[c] >= freed[c]
    BY <1>3 DEF AllocateCode
  <2>1. freed[c] \in 1 .. Cooldown /\ alloc.cooldown[c] >= freed[c]
    OBVIOUS
  <2>2. Expire(alloc).cooldown[c] >= freed[c]
    BY <2>1, ExpireKeepsCooldown
  <2>3. QED
    BY <1>3, <2>2, AllocateFacts
<1>4. ASSUME NEW l \in Leaders, SendCode(l) PROVE CooldownFacts'
  BY <1>4 DEF SendCode
<1>5. ASSUME NEW l \in Leaders, WaitWake(l) PROVE CooldownFacts'
  BY <1>5 DEF WaitWake
<1>6. ASSUME NEW l \in Leaders, WaitExpire(l) PROVE CooldownFacts'
  BY <1>6 DEF WaitExpire
<1>7. ASSUME NEW l \in Leaders, Forward(l) PROVE CooldownFacts'
  BY <1>7 DEF Forward
<1>8. ASSUME NEW l \in Leaders, BridgeEnd(l) PROVE CooldownFacts'
  BY <1>8 DEF BridgeEnd
<1>9. ASSUME NEW l \in Leaders, Cleanup(l) PROVE CooldownFacts'
  <2>1. alloc' = Release(alloc, code[l]) /\ code[l] \in Codes
    BY <1>9 DEF Cleanup, ThreadFacts
  <2>2. QED
    BY <1>9, <2>1 DEF Cleanup, Release, Allocators
<1>10. ASSUME NEW l \in Leaders, Leave(l) PROVE CooldownFacts'
  BY <1>10 DEF Leave
<1>11. ASSUME NEW l \in Leaders, LeaderHandleFails(l) PROVE CooldownFacts'
  BY <1>11 DEF LeaderHandleFails
<1>12. ASSUME NEW f \in Followers, NEW c \in Codes, Claim(f, c) PROVE CooldownFacts'
  BY <1>12 DEF Claim
<1>13. ASSUME NEW f \in Followers, Handoff(f) PROVE CooldownFacts'
  BY <1>13 DEF Handoff
<1>14. ASSUME NEW f \in Followers, FollowerHandleFails(f) PROVE CooldownFacts'
  BY <1>14 DEF FollowerHandleFails
<1>15. CASE Tick
  <2>1. alloc'.cooldown = [c \in Codes |-> Countdown(alloc.cooldown[c])]
    BY <1>15 DEF Tick, Age
  <2>2. QED
    BY <1>15, <2>1 DEF Tick, Countdown, Allocators, Absent
<1>16. CASE UNCHANGED vars
  BY <1>16
<1>17. QED
  BY <1>1, <1>2, <1>3, <1>4, <1>5, <1>6, <1>7, <1>8, <1>9, <1>10, <1>11, <1>12, <1>13, <1>14, <1>15, <1>16
     DEF Next, LeaderStep, FollowerStep

\* Every step keeps a released code out of the sessions for its cooldown.
LEMMA QuietStep == IInv /\ [Next]_vars => QuietAfterRelease'
<1> SUFFICES ASSUME IInv, [Next]_vars PROVE QuietAfterRelease'
  OBVIOUS
<1> USE CooldownAssumption, ThreadAssumption DEF IInv, TypeOK, QuietAfterRelease, CooldownFacts, vars,
         tableVars, leaderVars, followerVars, pendingVars
<1>1. ASSUME NEW l \in Leaders, Enter(l) PROVE QuietAfterRelease'
  BY <1>1 DEF Enter
<1>2. ASSUME NEW l \in Leaders, Refuse(l) PROVE QuietAfterRelease'
  BY <1>2 DEF Refuse
<1>3. ASSUME NEW l \in Leaders, AllocateCode(l) PROVE QuietAfterRelease'
  <2> SUFFICES ASSUME NEW c \in Codes, freed[c] > 0
               PROVE  sessions'[c] = None
    BY <1>3 DEF AllocateCode
  <2>1. freed[c] \in 1 .. Cooldown /\ alloc.cooldown[c] >= freed[c]
    OBVIOUS
  <2>2. c \notin FreeCodes(Expire(alloc))
    BY <2>1, ExpireKeepsCooldown
  <2>3. QED
    BY <1>3, <2>2, AllocateFacts
<1>4. ASSUME NEW l \in Leaders, SendCode(l) PROVE QuietAfterRelease'
  BY <1>4 DEF SendCode
<1>5. ASSUME NEW l \in Leaders, WaitWake(l) PROVE QuietAfterRelease'
  BY <1>5 DEF WaitWake
<1>6. ASSUME NEW l \in Leaders, WaitExpire(l) PROVE QuietAfterRelease'
  BY <1>6 DEF WaitExpire
<1>7. ASSUME NEW l \in Leaders, Forward(l) PROVE QuietAfterRelease'
  BY <1>7 DEF Forward
<1>8. ASSUME NEW l \in Leaders, BridgeEnd(l) PROVE QuietAfterRelease'
  BY <1>8 DEF BridgeEnd
<1>9. ASSUME NEW l \in Leaders, Cleanup(l) PROVE QuietAfterRelease'
  BY <1>9 DEF Cleanup
<1>10. ASSUME NEW l \in Leaders, Leave(l) PROVE QuietAfterRelease'
  BY <1>10 DEF Leave
<1>11. ASSUME NEW l \in Leaders, LeaderHandleFails(l) PROVE QuietAfterRelease'
  BY <1>11 DEF LeaderHandleFails
<1>12. ASSUME NEW f \in Followers, NEW c \in Codes, Claim(f, c) PROVE QuietAfterRelease'
  BY <1>12 DEF Claim
<1>13. ASSUME NEW f \in Followers, Handoff(f) PROVE QuietAfterRelease'
  BY <1>13 DEF Handoff
<1>14. ASSUME NEW f \in Followers, FollowerHandleFails(f) PROVE QuietAfterRelease'
  BY <1>14 DEF FollowerHandleFails
<1>15. CASE Tick
  BY <1>15 DEF Tick, Countdown
<1>16. CASE UNCHANGED vars
  BY <1>16
<1>17. QED
  BY <1>1, <1>2, <1>3, <1>4, <1>5, <1>6, <1>7, <1>8, <1>9, <1>10, <1>11, <1>12, <1>13, <1>14, <1>15, <1>16
     DEF Next, LeaderStep, FollowerStep

\* A thread that leaves lowers the counter and leaves the two sets together.
LEMMA LeavingKeepsLimit ==
  ASSUME IInv, NEW l \in InFlight,
         InFlight' = InFlight \ {l}, Admitted' = Admitted \ {l},
         active_sessions' = active_sessions - 1
  PROVE  SessionLimit'
<1>1. /\ IsFiniteSet(InFlight) /\ active_sessions = Cardinality(InFlight)
      /\ active_sessions - 1 \in Nat
  BY CounterPositive
<1>2. Cardinality(InFlight') = active_sessions'
  BY <1>1, FS_RemoveElement
<1>3. Admitted \in SUBSET InFlight /\ Cardinality(Admitted) <= MaxSessions
  BY DEF InFlight, IInv, SessionLimit
<1>4. IsFiniteSet(Admitted)
  BY <1>1, <1>3, FS_Subset
<1>5. Cardinality(Admitted') <= Cardinality(Admitted)
  BY <1>4, FS_Subset
<1>6. Cardinality(Admitted) \in Nat /\ Cardinality(Admitted') \in Nat
  BY <1>4, FS_CardinalityType, FS_Subset
<1>7. QED
  BY <1>2, <1>3, <1>5, <1>6, ConfigAssumption DEF SessionLimit, InFlight

\* Every step keeps the number of admitted threads within max_sessions.
LEMMA LimitStep == IInv /\ [Next]_vars => SessionLimit'
<1> SUFFICES ASSUME IInv, [Next]_vars PROVE SessionLimit'
  OBVIOUS
<1> USE DEF vars, tableVars, leaderVars, followerVars, pendingVars
<1>0. pc \in [Leaders -> LeaderPc] /\ SessionLimit
  BY DEF IInv, TypeOK
<1>1. ASSUME Admitted' = Admitted, InFlight' = InFlight,
             active_sessions' = active_sessions
      PROVE  SessionLimit'
  BY <1>0, <1>1 DEF SessionLimit, InFlight
<1>2. ASSUME NEW l \in Leaders, Enter(l) PROVE SessionLimit'
  <2>1. l \notin InFlight /\ InFlight' = InFlight \cup {l} /\ Admitted' \in SUBSET InFlight'
    BY <1>0, <1>2 DEF Enter, InFlight, Admitted
  <2>2. InFlight \in SUBSET Leaders /\ Admitted \in SUBSET Leaders
    BY DEF InFlight, Admitted
  <2>3. IsFiniteSet(InFlight) /\ active_sessions = Cardinality(InFlight)
    BY <1>0, <2>2, ThreadAssumption, FS_Subset DEF SessionLimit, InFlight
  <2>4. IsFiniteSet(InFlight') /\ Cardinality(InFlight') = active_sessions + 1
    BY <2>1, <2>3, FS_AddElement
  <2>5. CASE active_sessions + 1 > MaxSessions
    <3>1. Admitted' = Admitted
      BY <1>0, <1>2, <2>5 DEF Enter, Admitted
    <3>2. QED
      BY <1>0, <1>2, <2>4, <3>1 DEF Enter, SessionLimit, InFlight
  <2>6. CASE ~ (active_sessions + 1 > MaxSessions)
    <3>1. Cardinality(Admitted') <= Cardinality(InFlight')
      BY <2>1, <2>4, FS_Subset
    <3>2. Cardinality(Admitted') \in Nat /\ active_sessions \in Nat
      BY <2>1, <2>4, FS_Subset, FS_CardinalityType DEF IInv, TypeOK
    <3>3. QED
      BY <1>2, <2>4, <2>6, <3>1, <3>2, ConfigAssumption DEF Enter, SessionLimit, InFlight
  <2>7. QED
    BY <2>5, <2>6
<1>3. ASSUME NEW l \in Leaders, Refuse(l) PROVE SessionLimit'
  <2>1. l \in InFlight /\ InFlight' = InFlight \ {l} /\ Admitted' = Admitted \ {l}
    BY <1>0, <1>3 DEF Refuse, InFlight, Admitted
  <2>2. QED
    BY <1>3, <2>1, LeavingKeepsLimit DEF Refuse
<1>4. ASSUME NEW l \in Leaders, AllocateCode(l) PROVE SessionLimit'
  <2>1. CASE pc' = [pc EXCEPT ![l] = "coded"] /\ active_sessions' = active_sessions
    <3>1. Admitted' = Admitted /\ InFlight' = InFlight
      BY <1>0, <1>4, <2>1 DEF AllocateCode, InFlight, Admitted
    <3>2. QED
      BY <1>1, <2>1, <3>1
  <2>2. CASE pc' = [pc EXCEPT ![l] = "done"] /\ active_sessions' = active_sessions - 1
    <3>1. l \in InFlight /\ InFlight' = InFlight \ {l} /\ Admitted' = Admitted \ {l}
      BY <1>0, <1>4, <2>2 DEF AllocateCode, InFlight, Admitted
    <3>2. QED
      BY <2>2, <3>1, LeavingKeepsLimit
  <2>3. QED
    BY <1>4, <2>1, <2>2 DEF AllocateCode
<1>5. ASSUME NEW l \in Leaders, Leave(l) PROVE SessionLimit'
  <2>1. l \in InFlight /\ InFlight' = InFlight \ {l} /\ Admitted' = Admitted \ {l}
    BY <1>0, <1>5 DEF Leave, InFlight, Admitted
  <2>2. QED
    BY <1>5, <2>1, LeavingKeepsLimit DEF Leave
<1>6. ASSUME NEW l \in Leaders,
             \/ SendCode(l) \/ WaitWake(l) \/ WaitExpire(l) \/ Forward(l)
             \/ BridgeEnd(l) \/ Cleanup(l) \/ LeaderHandleFails(l)
      PROVE  SessionLimit'
  <2>1. Admitted' = Admitted /\ InFlight' = InFlight
    BY <1>0, <1>6 DEF SendCode, WaitWake, WaitExpire, Forward, BridgeEnd, Cleanup,
                      LeaderHandleFails, InFlight, Admitted
  <2>2. active_sessions' = active_sessions
    BY <1>6 DEF SendCode, WaitWake, WaitExpire, Forward, BridgeEnd, Cleanup,
                LeaderHandleFails
  <2>3. QED
    BY <1>1, <2>1, <2>2
<1>7. ASSUME NEW f \in Followers, FollowerStep(f) PROVE SessionLimit'
  <2>1. pc' = pc /\ active_sessions' = active_sessions
    BY <1>7 DEF FollowerStep, Claim, Handoff, FollowerHandleFails
  <2>2. QED
    BY <1>1, <2>1 DEF Admitted, InFlight
<1>8. CASE Tick \/ UNCHANGED vars
  <2>1. pc' = pc /\ active_sessions' = active_sessions
    BY <1>8 DEF Tick
  <2>2. QED
    BY <1>1, <2>1 DEF Admitted, InFlight
<1>9. QED
  BY <1>2, <1>3, <1>4, <1>5, <1>6, <1>7, <1>8 DEF Next, LeaderStep

\* The conjunction of the parts is inductive.
LEMMA IInvStep == IInv /\ [Next]_vars => IInv'
BY TypeStep, LimitStep, AliveStep, ThreadStep, ClaimStep, PairingStep, ParkedStep,
   WaitStep, CooldownStep, QuietStep DEF IInv

\* The invariant holds throughout every behaviour.
LEMMA IInvAlways == Spec => []IInv
  BY InitIInv, IInvStep, PTL DEF Spec

\* Type correctness of the pairing server: no counter goes below zero.
THEOREM TypeCorrect == Spec => []TypeOK
<1>1. IInv => TypeOK
  BY DEF IInv
<1> QED
  BY <1>1, IInvAlways, PTL

\* The gate of handle_leader: for any number of threads, never more than max_sessions are past
\* it, whatever a burst does to the counter, which counts them and those being turned away.
THEOREM LimitTheorem == Spec => []SessionLimit
<1>1. IInv => SessionLimit
  BY DEF IInv
<1> QED
  BY <1>1, IInvAlways, PTL

\* A session a follower can find is that of a leader thread which holds this code and has not
\* run its cleanup.
THEOREM AliveTheorem == Spec => []SessionsAlive
<1>1. IInv => SessionsAlive
  BY DEF IInv
<1> QED
  BY <1>1, IInvAlways, PTL

\* For cooldown_ms after a code was given back nobody can be found under it, whatever order
\* expire() and release() come in.
THEOREM CooldownTheorem == Spec => []QuietAfterRelease
<1>1. IInv => QuietAfterRelease
  BY DEF IInv
<1> QED
  BY <1>1, IInvAlways, PTL

\* A leader serves the one follower that claimed it, and both have the same code.
THEOREM PairingTheorem == Spec => []OnePairing
<1>1. IInv => OnePairing
  BY DEF IInv
<1> QED
  BY <1>1, IInvAlways, PTL

\* A claim is answered without a pairing only if the leader's wait was over or one of its
\* writes had failed, although claim, hand-over and timeout meet in any order.
THEOREM HandoffTheorem == Spec => HandoffNotLost
<1> DEFINE Lost(f) == fpc[f] \in {"claimed", "handed"} /\ fpc'[f] = "closed"
           Reason(f) == \/ pc[claim[f]] = "waiting" /\ delivered[claim[f]] = f
                           /\ pc'[claim[f]] = "broken"
                        \/ pc[claim[f]] \in {"leaving", "done"} /\ wait[claim[f]] = 0
<1>1. ASSUME IInv, [Next]_vars, NEW f \in Followers, Lost(f) PROVE Reason(f)
  <2> USE <1>1 DEF IInv, TypeOK
  <2> SUFFICES ASSUME ~ UNCHANGED fpc PROVE Reason(f)
    OBVIOUS
  <2>1. ASSUME NEW l \in Leaders, WaitWake(l) PROVE Reason(f)
    BY <2>1 DEF WaitWake, OnePairing
  <2>2. ASSUME NEW l \in Leaders, BridgeEnd(l) PROVE Reason(f)
    BY <2>2 DEF BridgeEnd, ClaimFacts
  <2>3. ASSUME NEW l \in Leaders, Leave(l) PROVE Reason(f)
    <3>1. delivered[l] = f /\ pc[l] = "leaving"
      BY <2>3 DEF Leave
    <3>2. claim[f] = l
      BY <3>1, ThreadAssumption DEF OnePairing
    <3> QED
      BY <3>1, <3>2 DEF WaitFacts
  <2>4. ASSUME NEW g \in Followers, NEW c \in Codes, Claim(g, c) PROVE Reason(f)
    BY <2>4 DEF Claim
  <2>5. ASSUME NEW g \in Followers, Handoff(g) PROVE Reason(f)
    BY <2>5 DEF Handoff, WaitFacts
  <2>6. ASSUME NEW g \in Followers, FollowerHandleFails(g) PROVE Reason(f)
    BY <2>6 DEF FollowerHandleFails
  <2>7. ASSUME NEW l \in Leaders, LeaderStep(l) PROVE Reason(f)
    <3>1. ASSUME Enter(l) \/ Refuse(l) \/ AllocateCode(l) PROVE FALSE
      BY <3>1 DEF Enter, Refuse, AllocateCode, followerVars
    <3>2. ASSUME SendCode(l) \/ WaitExpire(l) \/ Forward(l) PROVE FALSE
      BY <3>2 DEF SendCode, WaitExpire, Forward, followerVars
    <3>3. ASSUME Cleanup(l) \/ LeaderHandleFails(l) PROVE FALSE
      BY <3>3 DEF Cleanup, LeaderHandleFails, followerVars
    <3> QED
      BY <2>1, <2>2, <2>3, <2>7, <3>1, <3>2, <3>3 DEF LeaderStep
  <2> QED
    BY <2>4, <2>5, <2>6, <2>7 DEF Next, FollowerStep, Tick, vars, followerVars
<1>2. IInv /\ [Next]_vars => [\A f \in Followers : Lost(f) => Reason(f)]_vars
  BY <1>1
<1> QED
  BY <1>2, IInvAlways, PTL DEF Spec, HandoffNotLost

(***************************************************************************)
(* Refinement                                                               *)
(***************************************************************************)

\* The initial state of the server is one of the rendezvous.
LEMMA RefineInit == Init => R!Init
BY DEF Init, R!Init, Phase, PhaseOf

\* A leader thread that moves on moves its leader on, and no other.
LEMMA PhaseStep ==
  ASSUME pc \in [Leaders -> LeaderPc], NEW l \in Leaders, NEW to, pc' = [pc EXCEPT ![l] = to]
  PROVE  /\ Phase[l] = PhaseOf(pc[l])
         /\ Phase' = [Phase EXCEPT ![l] = PhaseOf(to)]
BY DEF Phase

\* Every step of the server is a step of the rendezvous or leaves it alone.
LEMMA RefineNext == IInv /\ [Next]_vars => [R!Next]_(R!rvars)
<1> SUFFICES ASSUME IInv, [Next]_vars PROVE [R!Next]_(R!rvars)
  OBVIOUS
<1> USE DEF vars, tableVars, leaderVars, followerVars, pendingVars
<1>0. /\ pc \in [Leaders -> LeaderPc] /\ fpc \in [Followers -> FollowerPc]
      /\ claim \in [Followers -> Leaders \cup {None}]
      /\ delivered \in [Leaders -> Followers \cup {None}]
  BY DEF IInv, TypeOK
<1>1. ASSUME NEW l \in Leaders,
             Enter(l) \/ Forward(l)
      PROVE  UNCHANGED R!rvars
  BY <1>0, <1>1 DEF Enter, Forward, Phase, PhaseOf, R!rvars
<1>2. ASSUME NEW l \in Leaders, Refuse(l) \/ LeaderHandleFails(l)
      PROVE  R!Withdraw(l)
  BY <1>0, <1>2 DEF Refuse, LeaderHandleFails, Phase, PhaseOf, R!Withdraw
<1>3. ASSUME NEW l \in Leaders, AllocateCode(l)
      PROVE  (\E c \in Codes : R!Offer(l, c)) \/ R!Withdraw(l)
  <2>1. pc[l] = "admitted" /\ claim' = claim
    BY <1>3 DEF AllocateCode
  <2>2. CASE \E c \in Codes : /\ code' = [code EXCEPT ![l] = c]
                              /\ pc' = [pc EXCEPT ![l] = "coded"]
    <3>1. PICK c \in Codes : /\ code' = [code EXCEPT ![l] = c]
                             /\ pc' = [pc EXCEPT ![l] = "coded"]
      BY <2>2
    <3>2. Phase[l] = "idle" /\ Phase' = [Phase EXCEPT ![l] = "offering"]
      BY <1>0, <2>1, <3>1 DEF Phase, PhaseOf
    <3>3. R!Offer(l, c)
      BY <2>1, <3>1, <3>2 DEF R!Offer
    <3>4. QED
      BY <3>3
  <2>3. CASE pc' = [pc EXCEPT ![l] = "done"] /\ code' = code
    BY <1>0, <2>1, <2>3 DEF Phase, PhaseOf, R!Withdraw
  <2>4. QED
    BY <1>3, <2>2, <2>3, AllocateFacts
<1>4. ASSUME NEW l \in Leaders, SendCode(l)
      PROVE  R!Close(l) \/ UNCHANGED R!rvars
  <2>1. PICK to \in {"waiting", "broken"} : pc' = [pc EXCEPT ![l] = to]
    BY <1>4 DEF SendCode
  <2>2. pc[l] = "coded" /\ code' = code /\ claim' = claim
    BY <1>4 DEF SendCode
  <2>3. Phase[l] = "offering" /\ Phase' = [Phase EXCEPT ![l] = PhaseOf(to)]
    BY <1>0, <2>1, <2>2, PhaseStep DEF PhaseOf
  <2>4. CASE to = "waiting"
    <3>1. Phase' = Phase
      BY <2>3, <2>4 DEF PhaseOf, Phase
    <3> QED
      BY <2>2, <3>1 DEF R!rvars
  <2>5. CASE to = "broken"
    BY <2>2, <2>3, <2>5 DEF PhaseOf, R!Close
  <2> QED
    BY <2>4, <2>5
<1>5. ASSUME NEW l \in Leaders, WaitWake(l)
      PROVE  R!Talk(l) \/ R!Close(l)
  <2>1. delivered[l] \in Followers /\ claim[delivered[l]] = l
    BY <1>0, <1>5 DEF WaitWake, IInv, OnePairing
  <2>2. pc[l] = "waiting" /\ code' = code /\ claim' = claim
    BY <1>5 DEF WaitWake
  <2>3. PICK to \in {"bridging", "broken"} : pc' = [pc EXCEPT ![l] = to]
    BY <1>5 DEF WaitWake
  <2>4. Phase[l] = "offering" /\ Phase' = [Phase EXCEPT ![l] = PhaseOf(to)]
    BY <1>0, <2>2, <2>3, PhaseStep DEF PhaseOf
  <2>5. CASE to = "bridging"
    BY <2>1, <2>2, <2>4, <2>5 DEF PhaseOf, R!Talk, R!Claimed
  <2>6. CASE to = "broken"
    BY <2>2, <2>4, <2>6 DEF PhaseOf, R!Close
  <2> QED
    BY <2>3, <2>5, <2>6
<1>6. ASSUME NEW l \in Leaders, WaitExpire(l) \/ BridgeEnd(l)
      PROVE  R!Close(l)
  <2>1. PICK to \in {"expired", "broken"} : pc' = [pc EXCEPT ![l] = to]
    BY <1>6 DEF WaitExpire, BridgeEnd
  <2>2. pc[l] \in {"waiting", "bridging"} /\ code' = code /\ claim' = claim
    BY <1>6 DEF WaitExpire, BridgeEnd
  <2>3. /\ Phase[l] \in {"offering", "talking"}
        /\ Phase' = [Phase EXCEPT ![l] = "closing"]
    BY <1>0, <2>1, <2>2, PhaseStep DEF PhaseOf
  <2> QED
    BY <2>2, <2>3 DEF R!Close
<1>7. ASSUME NEW l \in Leaders, Cleanup(l)
      PROVE  R!Withdraw(l)
  BY <1>0, <1>7 DEF Cleanup, Phase, PhaseOf, R!Withdraw
<1>8. ASSUME NEW l \in Leaders, Leave(l)
      PROVE  UNCHANGED R!rvars
  BY <1>0, <1>8 DEF Leave, Phase, PhaseOf, R!rvars
<1>9. ASSUME NEW f \in Followers, NEW c \in Codes, Claim(f, c)
      PROVE  (\E l \in Leaders : R!Match(l, f)) \/ UNCHANGED R!rvars
  <2>1. CASE sessions[c] # None /\ ~ taken[sessions[c]]
    <3>1. /\ sessions[c] \in Leaders
          /\ pc[sessions[c]] \in {"coded", "waiting", "bridging", "expired", "broken"}
      BY <2>1 DEF IInv, TypeOK, SessionsAlive
    <3>2. \A g \in Followers : claim[g] # sessions[c]
      BY <2>1 DEF IInv, ClaimFacts
    <3>3. pc[sessions[c]] # "bridging"
      BY <1>0, <3>1, <3>2 DEF IInv, ClaimFacts, OnePairing
    <3>4. claim[f] = None /\ claim' = [claim EXCEPT ![f] = sessions[c]]
      BY <1>9, <2>1 DEF Claim, IInv, ClaimFacts
    <3>5. R!Match(sessions[c], f)
      BY <1>0, <1>9, <3>1, <3>2, <3>3, <3>4 DEF Claim, Phase, PhaseOf, R!Match, R!Claimed
    <3>6. QED
      BY <3>1, <3>5
  <2>2. CASE ~ (sessions[c] # None /\ ~ taken[sessions[c]])
    BY <1>9, <2>2 DEF Claim, Phase, PhaseOf, R!rvars
  <2>3. QED
    BY <2>1, <2>2
<1>10. ASSUME NEW f \in Followers, Handoff(f) \/ FollowerHandleFails(f)
      PROVE  UNCHANGED R!rvars
  BY <1>10 DEF Handoff, FollowerHandleFails, Phase, PhaseOf, R!rvars
<1>11. CASE Tick \/ UNCHANGED vars
  BY <1>11 DEF Tick, Phase, PhaseOf, R!rvars
<1>12. QED
  BY <1>1, <1>2, <1>3, <1>4, <1>5, <1>6, <1>7, <1>8, <1>9, <1>10, <1>11
     DEF Next, LeaderStep, FollowerStep, R!Next

\* The pairing server implements the rendezvous: a leader is matched with at
\* most one follower, only while it can be found, and talks only to it.
THEOREM ServerImplementsRendezvous == Spec => RendezvousSpec
<1>1. QED
  BY InitIInv, IInvStep, RefineInit, RefineNext, PTL DEF Spec, RendezvousSpec, R!Spec
=============================================================================
