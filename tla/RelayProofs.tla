---------------------------- MODULE RelayProofs ----------------------------
(***************************************************************************)
(* The rate limiter of the relay, for every rate, burst and idle time such *)
(* that a bucket is full again when it is evicted.                         *)
(***************************************************************************)
EXTENDS Relay, TLAPS

\* The buckets have their types and hold what the reference holds.
BucketInv ==
  /\ tokens \in [Ips -> 0 .. IpBurst]
  /\ idle \in [Ips -> 0 .. IdleAfter + 1]
  /\ ref \in [Ips -> 0 .. IpBurst]
  /\ LimiterExact

\* Refilling after one more unit of time, or later and one unit at a time, is the same.
LEMMA RefillSteps ==
  ASSUME NEW n \in 0 .. IpBurst, NEW age \in Nat
  PROVE  Refilled(n, age + 1) = AtMost(Refilled(n, age) + IpRate, IpBurst)
<1>1. (age + 1) * IpRate = age * IpRate + IpRate
  BY RateAssumption, SMT
<1>2. age * IpRate \in Nat
  BY RateAssumption, SMT
<1> DEFINE m == age * IpRate
<1>3. (age + 1) * IpRate = m + IpRate /\ m \in Nat
  BY <1>1, <1>2
<1> HIDE DEF m
<1>4. age * IpRate = m
  BY DEF m
<1> QED
  BY <1>3, <1>4, RateAssumption DEF Refilled, AtMost

\* A bucket that was not used for longer than IdleAfter is full.
LEMMA IdleIsFull ==
  ASSUME NEW n \in 0 .. IpBurst, NEW age \in Nat, age >= IdleAfter
  PROVE  Refilled(n, age) = IpBurst
<1>1. age * IpRate >= IdleAfter * IpRate
  <2>1. PICK k \in Nat : age = IdleAfter + k
    <3>1. age - IdleAfter \in Nat /\ age = IdleAfter + (age - IdleAfter)
      BY RateAssumption, SMT
    <3> QED
      BY <3>1
  <2>2. age * IpRate = IdleAfter * IpRate + k * IpRate /\ k * IpRate >= 0
    BY <2>1, RateAssumption, SMT
  <2> QED
    BY <2>2, RateAssumption, SMT
<1>2. age * IpRate \in Nat /\ IdleAfter * IpRate \in Nat
  BY RateAssumption, SMT
<1>3. age * IpRate >= IpBurst
  BY <1>1, <1>2, RateAssumption, SMT
<1> DEFINE m == age * IpRate
<1>4. m \in Nat /\ m >= IpBurst
  BY <1>2, <1>3
<1> HIDE DEF m
<1>5. age * IpRate = m
  BY DEF m
<1> QED
  BY <1>4, <1>5, RateAssumption DEF Refilled, AtMost

\* What an IP holds is a number of tokens.
LEMMA HeldType ==
  ASSUME BucketInv, NEW i \in Ips
  PROVE  Held(i) \in 0 .. IpBurst
  BY DEF BucketInv, LimiterExact

LEMMA LimiterInit == Init => BucketInv
  BY RateAssumption DEF Init, BucketInv, LimiterExact, Held, AllFull, AllUsed

LEMMA ChargeKeeps ==
  ASSUME BucketInv, NEW j, Charge(j)
  PROVE  BucketInv'
<1>1. ASSUME j \in Ips PROVE Held(j) \in 0 .. IpBurst /\ Charged(Held(j)) \in 0 .. IpBurst
  BY <1>1, HeldType, RateAssumption DEF Charged
<1>2. tokens' \in [Ips -> 0 .. IpBurst]
  BY <1>1 DEF BucketInv, Charge
<1>3. idle' \in [Ips -> 0 .. IdleAfter + 1]
  <2>1. 0 \in 0 .. IdleAfter + 1
    BY RateAssumption
  <2> QED
    BY <2>1 DEF BucketInv, Charge
<1>4. ref' \in [Ips -> 0 .. IpBurst]
  <2>1. ASSUME j \in Ips PROVE Charged(ref[j]) \in 0 .. IpBurst
    BY <2>1, RateAssumption DEF BucketInv, Charged
  <2> QED
    BY <2>1 DEF BucketInv, Charge
<1>5. ASSUME NEW i \in Ips PROVE Held(i)' = ref'[i]
  <2>1. CASE i = j
    <3>1. tokens'[i] = Charged(Held(i)) /\ idle'[i] = 0 /\ i \in tracked'
      BY <2>1 DEF BucketInv, Charge
    <3>2. ref'[i] = Charged(ref[i])
      BY <2>1 DEF BucketInv, Charge
    <3>3. Held(i)' = AtMost(tokens'[i] + 0 * IpRate, IpBurst)
      BY <3>1 DEF Held, Refilled
    <3>4. Held(i)' = Charged(Held(i))
      BY <3>1, <3>3, <2>1, <1>1, RateAssumption DEF AtMost
    <3>5. Held(i) = ref[i]
      BY DEF BucketInv, LimiterExact
    <3> QED
      BY <3>2, <3>4, <3>5
  <2>2. CASE i # j
    <3>1. tokens'[i] = tokens[i] /\ idle'[i] = idle[i] /\ ref'[i] = ref[i]
      BY <2>2 DEF BucketInv, Charge
    <3>2. i \in tracked' <=> i \in tracked
      BY <2>2 DEF Charge
    <3>3. Held(i)' = Held(i)
      BY <3>1, <3>2 DEF Held, Refilled, AtMost
    <3> QED
      BY <3>1, <3>3 DEF BucketInv, LimiterExact
  <2> QED
    BY <2>1, <2>2
<1> QED
  BY <1>2, <1>3, <1>4, <1>5 DEF BucketInv, LimiterExact

LEMMA MaintainKeeps ==
  ASSUME BucketInv, Maintain
  PROVE  BucketInv'
<1>1. tokens' \in [Ips -> 0 .. IpBurst] /\ idle' \in [Ips -> 0 .. IdleAfter + 1]
  BY RateAssumption DEF BucketInv, Maintain
<1>2. ref' \in [Ips -> 0 .. IpBurst]
  BY DEF BucketInv, Maintain
<1>3. ASSUME NEW i \in Ips PROVE Held(i)' = ref'[i]
  <2>0. Held(i) = ref[i] /\ ref'[i] = ref[i]
    BY DEF BucketInv, LimiterExact, Maintain
  <2>1. CASE i \in IdleIps
    <3>1. i \in tracked /\ idle[i] >= IdleAfter /\ idle[i] \in Nat /\ tokens[i] \in 0 .. IpBurst
      BY <2>1, RateAssumption DEF IdleIps, BucketInv
    <3>2. Held(i) = IpBurst
      BY <3>1, IdleIsFull DEF Held
    <3>3. Held(i)' = IpBurst
      BY <2>1 DEF Maintain, Held
    <3> QED
      BY <2>0, <3>2, <3>3
  <2>2. CASE i \notin IdleIps
    <3>1. tokens'[i] = tokens[i] /\ idle'[i] = idle[i] /\ (i \in tracked' <=> i \in tracked)
      BY <2>2 DEF Maintain
    <3> QED
      BY <2>0, <3>1 DEF Held, Refilled, AtMost
  <2> QED
    BY <2>1, <2>2
<1> QED
  BY <1>1, <1>2, <1>3 DEF BucketInv, LimiterExact

LEMMA ElapseKeeps ==
  ASSUME BucketInv, Elapse
  PROVE  BucketInv'
<1>1. tokens' \in [Ips -> 0 .. IpBurst]
  BY DEF BucketInv, Elapse
<1>2. idle' \in [Ips -> 0 .. IdleAfter + 1]
  <2>1. ASSUME NEW n \in 0 .. IdleAfter + 1 PROVE AtMost(n + 1, IdleAfter + 1) \in 0 .. IdleAfter + 1
    BY RateAssumption DEF AtMost
  <2> QED
    BY <2>1 DEF BucketInv, Elapse
<1>3. ref' \in [Ips -> 0 .. IpBurst]
  <2>1. ASSUME NEW n \in 0 .. IpBurst PROVE AtMost(n + IpRate, IpBurst) \in 0 .. IpBurst
    BY RateAssumption DEF AtMost
  <2> QED
    BY <2>1 DEF BucketInv, Elapse
<1>4. ASSUME NEW i \in Ips PROVE Held(i)' = ref'[i]
  <2>0. /\ Held(i) = ref[i]
        /\ ref'[i] = AtMost(ref[i] + IpRate, IpBurst)
        /\ tokens'[i] = tokens[i] /\ (i \in tracked' <=> i \in tracked)
        /\ tokens[i] \in 0 .. IpBurst /\ idle[i] \in 0 .. IdleAfter + 1
    BY DEF BucketInv, LimiterExact, Elapse
  <2>1. CASE i \notin tracked
    <3>1. Held(i)' = IpBurst /\ ref[i] = IpBurst
      BY <2>0, <2>1 DEF Held
    <3> QED
      BY <2>0, <3>1, RateAssumption DEF AtMost
  <2>2. CASE i \in tracked
    <3>0. idle'[i] = AtMost(idle[i] + 1, IdleAfter + 1)
      BY <2>2 DEF Elapse
    <3>1. Held(i) = Refilled(tokens[i], idle[i]) /\ Held(i)' = Refilled(tokens[i], idle'[i])
      BY <2>0, <2>2 DEF Held, Refilled
    <3>2. CASE idle[i] <= IdleAfter
      <4>1. idle'[i] = idle[i] + 1 /\ idle[i] \in Nat
        BY <3>0, <3>2, <2>0, RateAssumption DEF AtMost
      <4>2. Refilled(tokens[i], idle[i] + 1) = AtMost(Refilled(tokens[i], idle[i]) + IpRate, IpBurst)
        BY <4>1, <2>0, RefillSteps
      <4> QED
        BY <2>0, <3>1, <4>1, <4>2
    <3>3. CASE ~(idle[i] <= IdleAfter)
      <4>1. idle'[i] = IdleAfter + 1 /\ idle[i] = IdleAfter + 1
        BY <3>0, <3>3, <2>0, RateAssumption DEF AtMost
      <4>2. IdleAfter + 1 \in Nat /\ IdleAfter + 1 >= IdleAfter
        BY RateAssumption
      <4>3. Refilled(tokens[i], IdleAfter + 1) = IpBurst
        BY <4>2, <2>0, IdleIsFull
      <4>4. Held(i) = IpBurst /\ Held(i)' = IpBurst
        BY <4>1, <4>3, <3>1
      <4> QED
        BY <2>0, <4>4, RateAssumption DEF AtMost
    <3> QED
      BY <3>2, <3>3
  <2> QED
    BY <2>1, <2>2
<1> QED
  BY <1>1, <1>2, <1>3, <1>4 DEF BucketInv, LimiterExact

LEMMA SameBuckets ==
  ASSUME BucketInv, UNCHANGED buckets
  PROVE  BucketInv'
  BY DEF BucketInv, buckets, LimiterExact, Held, Refilled, AtMost

LEMMA LimiterStep == BucketInv /\ [Next]_vars => BucketInv'
<1> SUFFICES ASSUME BucketInv, [Next]_vars PROVE BucketInv'
  OBVIOUS
<1>1. ASSUME NEW s \in Sides, NEW direct \in BOOLEAN, Tick(s, direct) PROVE BucketInv'
  <2>1. UNCHANGED limiter
    BY <1>1, Zenon DEF Tick
  <2> QED
    BY <2>1, SameBuckets DEF limiter, buckets
<1>2. ASSUME NEW s \in Sides, LookupEnds(s) \/ SetWarm(s) \/ SetRelayEnabled(s) \/ Data(s)
      PROVE BucketInv'
  <2>1. UNCHANGED limiter
    BY <1>2, Zenon DEF LookupEnds, SetWarm, SetRelayEnabled, Data
  <2> QED
    BY <2>1, SameBuckets DEF limiter, buckets
<1>3. ASSUME NEW s \in Sides, NEW a \in Addrs, Rebind(s, a) PROVE BucketInv'
  <2>1. UNCHANGED limiter
    BY <1>3, Zenon DEF Rebind
  <2> QED
    BY <2>1, SameBuckets DEF limiter, buckets
<1>4. ASSUME NEW p \in net, Receive(p) \/ Lose(p) \/ Delay(p) PROVE BucketInv'
  <2>1. UNCHANGED limiter
    BY <1>4, Zenon DEF Receive, Lose, Delay
  <2> QED
    BY <2>1, SameBuckets DEF limiter, buckets
<1>5. ASSUME NEW p \in net, Serve(p) PROVE BucketInv'
  <2>1. Charge(Ip[p.at])
    BY <1>5, Zenon DEF Serve
  <2> QED
    BY <2>1, ChargeKeeps
<1>6. CASE Maintain
  BY <1>6, MaintainKeeps
<1>7. CASE RestartRelay
  BY <1>7, RateAssumption DEF RestartRelay, BucketInv, LimiterExact, Held, AllFull, AllUsed
<1>8. CASE Elapse
  BY <1>8, ElapseKeeps
<1>9. CASE UNCHANGED vars
  BY <1>9, SameBuckets DEF vars, buckets
<1> QED
  BY <1>1, <1>2, <1>3, <1>4, <1>5, <1>6, <1>7, <1>8, <1>9, Zenon DEF Next

(***************************************************************************)
(* Types of the rest                                                       *)
(***************************************************************************)

\* What the buckets do not say.
RestTyped ==
  /\ side \in [Sides -> Side]
  /\ net \in SUBSET Packet
  /\ table \in [Sides -> [ep: Addrs \cup {None}, age: 0 .. Ttl + 1]]
  /\ tracked \in SUBSET Ips
  /\ global \in 0 .. GlobalBurst
  /\ faults \in 0 .. MaxFaults

\* A timer that has just run, and one that is rearmed.
LEMMA TimerRange ==
  /\ 0 \in 0 .. Register /\ 0 \in 0 .. WhereamiRefresh /\ 0 \in 0 .. CallmeDirect
  /\ Register \in 0 .. Register
  /\ WhereamiRefresh \in 0 .. WhereamiRefresh /\ CallmeDirect \in 0 .. CallmeDirect
  BY TimerAssumption

\* Rearming timers, adopting the relay's address and waking up keep a side's type.
LEMMA ReadyTyped ==
  ASSUME NEW m \in Side
  PROVE  RearmAll(m) \in Side /\ Activated(Adopted(m)) \in Side
<1>1. ASSUME NEW n \in Side PROVE RearmAsk(n) \in Side
  BY TimerRange DEF Side, RearmAsk
<1>2. ASSUME NEW n \in Side PROVE RearmAll(n) \in Side
  <2>1. RearmAsk(n) \in Side
    BY <1>1
  <2> QED
    BY <2>1, TimerRange DEF Side, RearmAll
<1>3. Adopted(m) \in Side
  <2>1. RearmAsk(m) \in Side
    BY <1>1
  <2> QED
    BY <2>1 DEF Side, Adopted
<1>4. ASSUME NEW n \in Side PROVE Activated(n) \in Side
  <2>1. RearmAll(n) \in Side /\ n.warm \in BOOLEAN
    BY <1>2 DEF Side
  <2>2. PICK k \in Side : Activated(n) = [k EXCEPT !.active = n.warm]
    BY <2>1 DEF Activated
  <2> QED
    BY <2>1, <2>2 DEF Side
<1> QED
  BY <1>2, <1>3, <1>4

LEMMA SentTyped ==
  ASSUME RestTyped, NEW s \in Sides, NEW kind \in Kinds, NEW ext \in Addrs \cup {None},
         NEW cur \in BOOLEAN
  PROVE  Sent(s, kind, ext, cur) \in Packet
<1>1. side[s].addr \in Addrs
  BY DEF RestTyped, Side
<1> QED
  BY <1>1 DEF Sent, Packet

LEMMA TickTyped ==
  ASSUME RestTyped, NEW s \in Sides, NEW direct \in BOOLEAN, Tick(s, direct)
  PROVE  RestTyped'
<1> DEFINE m == Ready(s)
           done == [m EXCEPT !.register = IF RegisterDue(m) THEN 0 ELSE @,
                             !.whereami = IF WhereamiDue(m) THEN 0 ELSE @,
                             !.callme = IF CallmeDue(m, direct) THEN 0 ELSE @]
<1>1. m \in Side
  BY ReadyTyped DEF RestTyped, Ready
<1>2. side' = [side EXCEPT ![s] = done]
  BY DEF Tick
<1>3. done \in Side
  <2> HIDE DEF m
  <2> QED
    BY <1>1, TimerRange DEF Side
<1>4. side' \in [Sides -> Side]
  <2> HIDE DEF done
  <2> QED
    BY <1>2, <1>3 DEF RestTyped
<1>5. net' \in SUBSET Packet
  <2>1. Outdated(s) \in SUBSET Packet
    <3>1. ASSUME NEW p \in Packet PROVE [p EXCEPT !.cur = FALSE] \in Packet
      BY DEF Packet
    <3> QED
      BY <3>1 DEF RestTyped, Outdated
  <2>2. Sent(s, "whereami", None, TRUE) \in Packet /\ Sent(s, "register", None, FALSE) \in Packet
    BY SentTyped DEF Kinds
  <2>3. Sent(s, "callme", m.external, FALSE) \in Packet
    <3>1. m.external \in Addrs \cup {None}
      <4> HIDE DEF m
      <4> QED
        BY <1>1 DEF Side
    <3> QED
      BY <3>1, SentTyped DEF Kinds
  <2>4. net' \subseteq Outdated(s) \cup net
                         \cup {Sent(s, "whereami", None, TRUE), Sent(s, "register", None, FALSE),
                               Sent(s, "callme", m.external, FALSE)}
    BY DEF Tick
  <2> HIDE DEF m
  <2> QED
    BY <2>1, <2>2, <2>3, <2>4 DEF RestTyped
<1>6. UNCHANGED <<table, tracked, global, faults>>
  BY DEF Tick, limiter, buckets
<1> QED
  BY <1>4, <1>5, <1>6 DEF RestTyped

LEMMA SideStepTyped ==
  ASSUME RestTyped, NEW s \in Sides,
         LookupEnds(s) \/ SetWarm(s) \/ SetRelayEnabled(s) \/ Data(s) \/ \E a \in Addrs : Rebind(s, a)
  PROVE  RestTyped'
<1>0. side[s] \in Side /\ faults \in 0 .. MaxFaults /\ MaxFaults \in Nat
  BY BoundAssumption DEF RestTyped
<1>1. CASE LookupEnds(s)
  <2>1. [side[s] EXCEPT !.server = "found"] \in Side
    BY <1>0 DEF Side
  <2> QED
    BY <1>1, <2>1 DEF RestTyped, LookupEnds, limiter, buckets
<1>2. CASE SetWarm(s)
  <2>1. [side[s] EXCEPT !.warm = ~@] \in Side
    BY <1>0 DEF Side
  <2>2. side' = [side EXCEPT ![s] = [side[s] EXCEPT !.warm = ~@]]
    BY <1>2 DEF SetWarm, RestTyped
  <2>3. faults' \in 0 .. MaxFaults /\ UNCHANGED <<net, table, tracked, global>>
    BY <1>0, <1>2 DEF SetWarm, Fault, limiter, buckets
  <2> QED
    BY <2>1, <2>2, <2>3 DEF RestTyped
<1>3. CASE SetRelayEnabled(s)
  <2>1. RearmAll(side[s]) \in Side
    BY <1>0, ReadyTyped
  <2>2. PICK k \in Side : side' = [side EXCEPT ![s] = [k EXCEPT !.relay_on = ~side[s].relay_on]]
    BY <1>0, <1>3, <2>1 DEF SetRelayEnabled, RestTyped
  <2>3. [k EXCEPT !.relay_on = ~side[s].relay_on] \in Side
    BY <1>0 DEF Side
  <2>4. faults' \in 0 .. MaxFaults /\ UNCHANGED <<net, table, tracked, global>>
    BY <1>0, <1>3 DEF SetRelayEnabled, Fault, limiter, buckets
  <2> QED
    BY <2>2, <2>3, <2>4 DEF RestTyped
<1>4. CASE Data(s)
  <2>1. Sent(s, "data", None, FALSE) \in Packet
    BY SentTyped DEF Kinds
  <2>2. faults' \in 0 .. MaxFaults /\ UNCHANGED <<side, table, tracked, global>>
    BY <1>0, <1>4 DEF Data, Fault, limiter, buckets
  <2>3. net' = net \cup {Sent(s, "data", None, FALSE)}
    BY <1>4 DEF Data
  <2> QED
    BY <2>1, <2>2, <2>3 DEF RestTyped
<1>5. ASSUME NEW a \in Addrs, Rebind(s, a) PROVE RestTyped'
  <2>1. [side[s] EXCEPT !.addr = a] \in Side
    BY <1>0 DEF Side
  <2>2. faults' \in 0 .. MaxFaults /\ UNCHANGED <<net, table, tracked, global>>
    BY <1>0, <1>5 DEF Rebind, Fault, limiter, buckets
  <2>3. side' = [side EXCEPT ![s] = [side[s] EXCEPT !.addr = a]]
    BY <1>5 DEF Rebind, RestTyped
  <2> QED
    BY <2>1, <2>2, <2>3 DEF RestTyped
<1> QED
  BY <1>1, <1>2, <1>3, <1>4, <1>5

LEMMA NetStepTyped ==
  ASSUME RestTyped, NEW p \in net, Receive(p) \/ Lose(p) \/ Delay(p)
  PROVE  RestTyped'
<1>0. p \in Packet /\ p.side \in Sides /\ side[p.side] \in Side
  BY DEF RestTyped, Packet
<1>1. CASE Receive(p)
  <2> DEFINE m == side[p.side]
  <2>1. ASSUME p.kind = "here" \/ p.kind = "told", p.ext \in Addrs \cup {None}
        PROVE  Learned(m, p.ext) \in Side /\ [m EXCEPT !.told = p.ext] \in Side
    BY <1>0, <2>1, TimerRange DEF Side, Learned
  <2>2. p.ext \in Addrs \cup {None} /\ (p.kind = "here" \/ p.kind = "told")
    BY <1>0, <1>1 DEF Packet, Receive
  <2>3. PICK k \in Side : side' = [side EXCEPT ![p.side] = k]
    BY <1>0, <1>1, <2>1, <2>2 DEF Receive
  <2>4. net' \in SUBSET Packet /\ UNCHANGED <<table, tracked, global, faults>>
    BY <1>1 DEF RestTyped, Receive, limiter, buckets
  <2> QED
    BY <2>3, <2>4, <1>0 DEF RestTyped
<1>2. CASE Lose(p)
  BY <1>2, BoundAssumption DEF RestTyped, Lose, Fault, limiter, buckets
<1>3. CASE Delay(p)
  <2>1. [p EXCEPT !.held = TRUE] \in Packet
    BY <1>0 DEF Packet
  <2>2. faults' \in 0 .. MaxFaults
    BY <1>3, BoundAssumption DEF RestTyped, Delay, Fault
  <2> QED
    BY <1>3, <2>1, <2>2 DEF RestTyped, Delay, limiter, buckets
<1> QED
  BY <1>1, <1>2, <1>3

LEMMA ServeTyped ==
  ASSUME RestTyped, NEW p \in net, Serve(p)
  PROVE  RestTyped'
<1>0. /\ p \in Packet /\ p.side \in Sides /\ p.at \in Addrs
      /\ Other(p.side) \in Sides /\ Ip[p.at] \in Ips
  BY AddressAssumption DEF RestTyped, Packet, Sides, Other
<1>1. table' \in [Sides -> [ep: Addrs \cup {None}, age: 0 .. Ttl + 1]]
  <2>1. [ep |-> p.at, age |-> 0] \in [ep: Addrs \cup {None}, age: 0 .. Ttl + 1]
    BY <1>0, TimerAssumption
  <2>2. table' = table \/ table' = OnPacket(p.side, p.at)
    BY DEF Serve
  <2> QED
    BY <2>1, <2>2 DEF RestTyped, OnPacket
<1>2. net' \in SUBSET Packet
  <2>1. [p EXCEPT !.kind = "here", !.ext = p.at] \in Packet
    BY <1>0 DEF Packet, Kinds
  <2>2. Forward(p) \in SUBSET Packet
    <3>1. CASE Fresh(table[Other(p.side)])
      <4>1. table[Other(p.side)].ep \in Addrs
        BY <1>0, <3>1 DEF RestTyped, Fresh
      <4>2. [p EXCEPT !.kind = "told", !.side = Other(p.side), !.at = table[Other(p.side)].ep] \in Packet
        BY <1>0, <4>1 DEF Packet, Kinds
      <4> QED
        BY <4>2 DEF Forward
    <3>2. CASE ~Fresh(table[Other(p.side)])
      BY <3>2 DEF Forward
    <3> QED
      BY <3>1, <3>2
  <2>3. net' \subseteq net \cup {[p EXCEPT !.kind = "here", !.ext = p.at]} \cup Forward(p)
    BY DEF Serve
  <2> QED
    BY <2>1, <2>2, <2>3 DEF RestTyped
<1>3. Charge(Ip[p.at]) /\ UNCHANGED <<side, faults>>
  BY Zenon DEF Serve
<1>4. tracked' \in SUBSET Ips
  BY <1>0, <1>3 DEF RestTyped, Charge
<1>5. global' \in 0 .. GlobalBurst
  BY <1>3, RateAssumption DEF RestTyped, Charge, Charged
<1> QED
  BY <1>1, <1>2, <1>3, <1>4, <1>5 DEF RestTyped

\* No entry is one of the table's values.
LEMMA NoEntryTyped == NoEntry \in [ep: Addrs \cup {None}, age: 0 .. Ttl + 1]
  BY TimerAssumption DEF NoEntry

LEMMA MaintainTyped ==
  ASSUME RestTyped, Maintain
  PROVE  RestTyped'
  BY NoEntryTyped DEF RestTyped, Maintain

LEMMA RestartTyped ==
  ASSUME RestTyped, RestartRelay
  PROVE  RestTyped'
<1>1. table' \in [Sides -> [ep: Addrs \cup {None}, age: 0 .. Ttl + 1]]
  BY NoEntryTyped DEF RestartRelay, NoEntries
<1>2. faults' \in 0 .. MaxFaults
  BY BoundAssumption DEF RestTyped, RestartRelay, Fault
<1>3. global' \in 0 .. GlobalBurst
  BY RateAssumption DEF RestartRelay
<1> QED
  BY <1>1, <1>2, <1>3 DEF RestTyped, RestartRelay

LEMMA ElapseTyped ==
  ASSUME RestTyped, Elapse
  PROVE  RestTyped'
<1>0. ASSUME NEW k \in Nat, NEW n \in 0 .. k PROVE AtMost(n + 1, k) \in 0 .. k
  BY <1>0 DEF AtMost
<1>1. side' \in [Sides -> Side]
  <2>1. ASSUME NEW m \in Side
        PROVE  [m EXCEPT !.register = AtMost(@ + 1, Register),
                         !.whereami = AtMost(@ + 1, WhereamiRefresh),
                         !.callme = AtMost(@ + 1, CallmeDirect)] \in Side
    <3>1. /\ AtMost(m.register + 1, Register) \in 0 .. Register
          /\ AtMost(m.whereami + 1, WhereamiRefresh) \in 0 .. WhereamiRefresh
          /\ AtMost(m.callme + 1, CallmeDirect) \in 0 .. CallmeDirect
      BY <1>0, TimerAssumption DEF Side
    <3> QED
      BY <3>1 DEF Side
  <2> QED
    BY <2>1 DEF RestTyped, Elapse
<1>2. net' \in SUBSET Packet
  <2>1. ASSUME NEW p \in Packet PROVE [p EXCEPT !.held = FALSE] \in Packet
    BY DEF Packet
  <2>2. net' = {[p EXCEPT !.held = FALSE] : p \in net}
    BY DEF Elapse
  <2> QED
    BY <2>1, <2>2 DEF RestTyped
<1>3. table' \in [Sides -> [ep: Addrs \cup {None}, age: 0 .. Ttl + 1]]
  <2>1. ASSUME NEW e \in [ep: Addrs \cup {None}, age: 0 .. Ttl + 1]
        PROVE  [e EXCEPT !.age = AtMost(@ + 1, Ttl + 1)] \in [ep: Addrs \cup {None}, age: 0 .. Ttl + 1]
    <3>1. e.age \in 0 .. Ttl + 1 /\ Ttl + 1 \in Nat
      BY TimerAssumption
    <3>2. AtMost(e.age + 1, Ttl + 1) \in 0 .. Ttl + 1
      BY <3>1, <1>0
    <3> QED
      BY <3>2
  <2> QED
    BY <2>1 DEF RestTyped, Elapse
<1>4. global' \in 0 .. GlobalBurst
  <2>1. global' = AtMost(global + GlobalRate, GlobalBurst) /\ global \in 0 .. GlobalBurst
    BY DEF RestTyped, Elapse
  <2> QED
    BY <2>1, RateAssumption DEF AtMost
<1> QED
  BY <1>1, <1>2, <1>3, <1>4 DEF RestTyped, Elapse

LEMMA RestInit == Init => RestTyped
<1> SUFFICES ASSUME Init PROVE RestTyped
  OBVIOUS
<1>1. PICK late \in SUBSET Unsteady :
        /\ side = [s \in Sides |->
             [addr |-> Start[s], warm |-> TRUE, active |-> FALSE, relay_on |-> TRUE,
              server |-> IF s \in late THEN "unknown" ELSE "known", external |-> None,
              register |-> Register, whereami |-> WhereamiRefresh, callme |-> CallmeDirect,
              told |-> None]]
        /\ faults = IF late = {} THEN MaxFaults ELSE MaxFaults - 1
  BY DEF Init
<1>2. side \in [Sides -> Side]
  BY <1>1, TimerRange, AddressAssumption DEF Side
<1>3. faults \in 0 .. MaxFaults
  BY <1>1, BoundAssumption
<1>4. global \in 0 .. GlobalBurst
  BY RateAssumption DEF Init
<1> QED
  BY <1>2, <1>3, <1>4, NoEntryTyped DEF Init, RestTyped, NoEntries

LEMMA RestStep == RestTyped /\ [Next]_vars => RestTyped'
<1> SUFFICES ASSUME RestTyped, [Next]_vars PROVE RestTyped'
  OBVIOUS
<1>1. CASE UNCHANGED vars
  BY <1>1 DEF RestTyped, vars
<1> QED
  BY <1>1, TickTyped, SideStepTyped, NetStepTyped, ServeTyped, MaintainTyped, RestartTyped,
     ElapseTyped, Zenon DEF Next

\* RateLimiter::evict_idle never gives an IP more than its share, nor less: for every rate,
\* burst and idle time with idle * rate >= burst, buckets that are refilled when they are used
\* and evicted when they are idle hold what buckets that are kept for ever would hold.
THEOREM RelayCorrect == Spec => []RelayInv
<1>1. Init => BucketInv /\ RestTyped
  BY LimiterInit, RestInit
<1>2. BucketInv /\ RestTyped /\ [Next]_vars => BucketInv' /\ RestTyped'
  BY LimiterStep, RestStep
<1>3. BucketInv /\ RestTyped => RelayInv
  BY DEF BucketInv, RestTyped, RelayInv, TypeOK
<1> QED
  BY <1>1, <1>2, <1>3, PTL DEF Spec
=============================================================================
