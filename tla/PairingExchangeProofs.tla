----------------------- MODULE PairingExchangeProofs -----------------------
(***************************************************************************)
(* The exchange of `spl pair` proved for any number of leaders and         *)
(* followers, any codes, networks and number of rounds: whom a process     *)
(* pairs with, what both store, and that the sealed counters never part.   *)
(*                                                                         *)
(* The argument is about one connection at a time.  The two ends take      *)
(* turns, so at most one message is underway on it, and which one it is    *)
(* fixes what both ends are doing (MailToFollower, MailToLeader).          *)
(***************************************************************************)
EXTENDS PairingExchange, TLAPS, SequenceTheorems

\* The key an end of the connection derives, whatever its user's code is.
KeyOf(p, l, f) == Derived(code[p].pw, l, f)

\* A process that has met nobody has done nothing.
Fresh(p) ==
  /\ st[p] \in {"waiting", "failed"}
  /\ chan[p] = <<>>
  /\ sealed[p] = [l2f |-> 0, f2l |-> 0]
  /\ attempt[p] = 0
  /\ rec[p] = NoRecord
  /\ store[p] = NoRecord

\* What holds of each process: only an end that was not paired lacks a record, and a closed
\* connection without a fault is one its process has left.
Own(p) ==
  /\ store[p] # NoRecord => st[p] = "paired" /\ store[p] = rec[p]
  /\ Ended(p) => ~up[p]
  /\ faults = MaxFaults /\ ~up[p] => Ended(p)
  /\ partner[p] = None => Fresh(p)

\* The leader's end: a key once it has both messages, counters that follow its rounds.
LeaderEnd(l, f) ==
  /\ st[l] \in {"spake", "confirm", "neg", "prompt", "paired", "failed"}
  /\ st[l] \in {"confirm", "neg", "prompt", "paired"} => key[l] = KeyOf(l, l, f)
  /\ st[l] \in {"spake", "confirm"} => attempt[l] = 0 /\ sealed[l] = [l2f |-> 0, f2l |-> 0]
  /\ st[l] = "neg" => /\ sealed[l] = [l2f |-> attempt[l] + 1, f2l |-> attempt[l]]
                      /\ attempt[l] < MaxAttempts
                      /\ rec[l].ula \in Ulas \ existing[l]
  /\ st[l] \in {"neg", "prompt", "paired"} => code[l] = code[f]
  /\ st[l] \in {"prompt", "paired"} =>
       /\ rec[l] = [uid |-> l, side |-> 0, ula |-> rec[f].ula, own |-> l, peer |-> f]
       /\ rec[l].ula \in Ulas \ existing[l]
       /\ rec[f] # NoRecord

\* The follower's end: what it agreed to is what the leader still offers.
FollowerEnd(l, f) ==
  /\ st[f] \in {"joined", "confirm", "neg", "prompt", "paired", "failed"}
  /\ st[f] \in {"confirm", "neg", "prompt", "paired"} => key[f] = KeyOf(f, l, f)
  /\ st[f] \in {"joined", "confirm"} => attempt[f] = 0 /\ sealed[f] = [l2f |-> 0, f2l |-> 0]
  /\ st[f] = "neg" => /\ sealed[f] = [l2f |-> attempt[f], f2l |-> attempt[f]]
                      /\ attempt[f] < MaxAttempts
  /\ st[f] \in {"neg", "prompt", "paired"} => code[f] = code[l]
  /\ st[f] \in {"joined", "confirm", "neg"} => rec[f] = NoRecord
  /\ st[f] \in {"prompt", "paired"} => rec[f] # NoRecord
  /\ rec[f] # NoRecord =>
       /\ rec[f] = [uid |-> l, side |-> 1, ula |-> rec[l].ula, own |-> f, peer |-> l]
       /\ rec[l].ula \in Ulas \ existing[f]

\* The messages of the exchange.
Spake(p) == [type |-> "spake", from |-> p]
Confirm(side, k) == [type |-> "confirm", side |-> side, key |-> k]
Sealed(side, k, n, body) ==
  [type |-> "sealed", side |-> side, key |-> k, nonce |-> n, body |-> body]
Offer(l, ula) == [kind |-> "offer", ula |-> ula, uid |-> l, pub |-> l]
Acceptance(f) == [kind |-> "accept", pub |-> f]
Rejection(u) == [kind |-> "reject", counter |-> u]

\* The message underway to the follower, and what both ends do meanwhile.
MailToFollower(l, f) ==
  \/ /\ st[f] = "joined" /\ st[l] \in {"spake", "failed"}
     /\ chan[f] = <<Spake(l)>>
  \/ /\ st[f] = "confirm" /\ st[l] \in {"confirm", "failed"}
     /\ chan[f] = <<Confirm(0, KeyOf(l, l, f))>>
  \/ /\ st[f] = "neg" /\ st[l] \in {"neg", "failed"}
     /\ attempt[l] = attempt[f]
     /\ rec[l].ula \in Ulas \ existing[l]
     /\ chan[f] = <<Sealed(0, KeyOf(l, l, f), attempt[f], Offer(l, rec[l].ula))>>

\* The message underway to the leader.
MailToLeader(l, f) ==
  \/ /\ st[l] = "spake" /\ st[f] \in {"confirm", "failed"} /\ rec[f] = NoRecord
     /\ chan[l] = <<Spake(f)>>
  \/ /\ st[l] = "confirm" /\ st[f] \in {"neg", "failed"} /\ rec[f] = NoRecord
     /\ attempt[f] = 0
     /\ chan[l] = <<Confirm(1, KeyOf(f, l, f))>>
  \/ /\ st[l] = "neg" /\ attempt[f] = attempt[l] + 1
     /\ st[f] \in {"neg", "failed"} /\ rec[f] = NoRecord
     /\ \E u \in Ulas : chan[l] = <<Sealed(1, KeyOf(f, l, f), attempt[l], Rejection(u))>>
  \/ /\ st[l] = "neg" /\ attempt[f] = attempt[l] + 1
     /\ st[f] \in {"prompt", "paired", "failed"} /\ rec[f] # NoRecord
     /\ chan[l] = <<Sealed(1, KeyOf(f, l, f), attempt[l], Acceptance(f))>>

Mail(l, f) ==
  /\ chan[f] = <<>> \/ (chan[l] = <<>> /\ MailToFollower(l, f))
  /\ chan[l] = <<>> \/ (chan[f] = <<>> /\ MailToLeader(l, f))

\* While nothing has broken or timed out, a leader waits for what its follower reads, and a
\* follower that agreed has its acceptance underway or taken.
Faultless(l, f) ==
  faults = MaxFaults =>
    /\ chan[f] # <<>> => ~Ended(l)
    /\ rec[f] # NoRecord => chan[l] # <<>> \/ rec[l].peer = f

Connection(l, f) ==
  /\ f \in Followers /\ partner[f] = l /\ code[f].id = code[l].id
  /\ LeaderEnd(l, f) /\ FollowerEnd(l, f)
  /\ Mail(l, f)
  /\ Faultless(l, f)

IInv ==
  /\ TypeOK
  /\ \A p \in Procs : Own(p)
  /\ \A f \in Followers : partner[f] # None => partner[f] \in Leaders /\ partner[partner[f]] = f
  /\ \A l \in Leaders : partner[l] # None => Connection(l, partner[l])

-----------------------------------------------------------------------------
(* What the invariant gives *)

LEMMA Disjoint == \A p \in Procs : /\ p # None
                                   /\ p \in Leaders => p \notin Followers
                                   /\ p \notin Leaders => p \in Followers
  BY PairingAssumption DEF Procs

\* A process that is past the rendezvous has a peer, and the two share a connection.
LEMMA LeaderLinked ==
  ASSUME IInv, NEW l \in Leaders, partner[l] # None \/ st[l] \notin {"waiting", "failed"}
  PROVE  partner[l] \in Followers /\ Connection(l, partner[l]) /\ partner[partner[l]] = l
<1>1. l \in Procs /\ Own(l)
  BY DEF IInv, Procs
<1>2. partner[l] # None
  BY <1>1 DEF Own, Fresh
<1> QED
  BY <1>2 DEF IInv, Connection

LEMMA FollowerLinked ==
  ASSUME IInv, NEW f \in Followers, partner[f] # None \/ st[f] \notin {"waiting", "failed"}
  PROVE  partner[f] \in Leaders /\ Connection(partner[f], f) /\ partner[partner[f]] = f
<1>1. f \in Procs /\ Own(f)
  BY DEF IInv, Procs
<1>2. partner[f] # None
  BY <1>1 DEF Own, Fresh
<1>3. partner[f] \in Leaders /\ partner[partner[f]] = f
  BY <1>2 DEF IInv
<1>4. partner[partner[f]] # None
  BY <1>1, <1>3, Disjoint
<1> QED
  BY <1>3, <1>4 DEF IInv

\* A stored record is the one a paired process agreed to with the other end.
LEMMA LeaderStored ==
  ASSUME IInv, NEW l \in Leaders, store[l] # NoRecord
  PROVE  /\ partner[l] \in Followers /\ partner[partner[l]] = l
         /\ store[l].uid = l /\ store[l].side = 0 /\ store[l].peer = partner[l]
         /\ store[l].ula = rec[l].ula /\ store[l].ula \notin existing[l]
         /\ rec[partner[l]].uid = l /\ rec[partner[l]].side = 1 /\ rec[partner[l]].peer = l
         /\ rec[partner[l]].ula = rec[l].ula
         /\ code[partner[l]] = code[l]
<1>1. l \in Procs /\ st[l] = "paired" /\ store[l] = rec[l]
  BY DEF IInv, Own, Procs
<1>2. /\ partner[l] \in Followers /\ partner[partner[l]] = l
      /\ LeaderEnd(l, partner[l]) /\ FollowerEnd(l, partner[l])
  BY <1>1, LeaderLinked DEF Connection
<1>3. /\ rec[partner[l]] # NoRecord /\ code[partner[l]] = code[l]
      /\ rec[l] = [uid |-> l, side |-> 0, ula |-> rec[partner[l]].ula, own |-> l,
                   peer |-> partner[l]]
      /\ rec[l].ula \notin existing[l]
  BY <1>1, <1>2 DEF LeaderEnd
<1>4. rec[partner[l]] = [uid |-> l, side |-> 1, ula |-> rec[l].ula, own |-> partner[l],
                         peer |-> l]
  BY <1>2, <1>3 DEF FollowerEnd
<1>5. rec[l].uid = l /\ rec[l].side = 0 /\ rec[l].peer = partner[l]
  BY <1>3
<1>6. /\ rec[partner[l]].uid = l /\ rec[partner[l]].side = 1 /\ rec[partner[l]].peer = l
      /\ rec[partner[l]].ula = rec[l].ula
  BY <1>4
<1> QED
  BY <1>1, <1>2, <1>3, <1>5, <1>6

LEMMA FollowerStored ==
  ASSUME IInv, NEW f \in Followers, store[f] # NoRecord
  PROVE  /\ partner[f] \in Leaders /\ partner[partner[f]] = f
         /\ store[f] = rec[f] /\ store[f].peer = partner[f]
         /\ store[f].uid = partner[f] /\ store[f].side = 1
         /\ store[f].ula = rec[partner[f]].ula /\ store[f].ula \notin existing[f]
         /\ code[partner[f]] = code[f]
<1>1. f \in Procs /\ st[f] = "paired" /\ store[f] = rec[f]
  BY DEF IInv, Own, Procs
<1>2. /\ partner[f] \in Leaders /\ partner[partner[f]] = f
      /\ FollowerEnd(partner[f], f)
  BY <1>1, FollowerLinked DEF Connection
<1>3. rec[f] # NoRecord /\ code[partner[f]] = code[f]
  BY <1>1, <1>2 DEF FollowerEnd
<1>4. /\ rec[f] = [uid |-> partner[f], side |-> 1, ula |-> rec[partner[f]].ula,
                   own |-> f, peer |-> partner[f]]
      /\ rec[partner[f]].ula \notin existing[f]
  BY <1>2, <1>3 DEF FollowerEnd
<1>5. /\ rec[f].peer = partner[f] /\ rec[f].uid = partner[f] /\ rec[f].side = 1
      /\ rec[f].ula = rec[partner[f]].ula
  BY <1>4
<1> QED
  BY <1>1, <1>2, <1>3, <1>4, <1>5

LEMMA IInvOnlySameCode == IInv => OnlySameCode
<1> SUFFICES ASSUME IInv, NEW p \in Procs, store[p] # NoRecord
             PROVE  code[store[p].peer] = code[p]
  BY DEF OnlySameCode
<1>1. CASE p \in Leaders
  BY <1>1, LeaderStored
<1>2. CASE p \in Followers
  BY <1>2, FollowerStored
<1> QED
  BY <1>1, <1>2, Disjoint

LEMMA IInvRecordsFit == IInv => RecordsFit
<1> SUFFICES ASSUME IInv PROVE RecordsFit
  OBVIOUS
<1>1. LeaderStoresAgreed
  BY LeaderStored DEF LeaderStoresAgreed
<1>2. ASSUME NEW p \in Procs, NEW q \in Procs, store[p].peer = q, store[q] # NoRecord
      PROVE  /\ store[q].peer = p
             /\ store[q].uid = store[p].uid /\ store[q].ula = store[p].ula
             /\ store[q].side = 1 - store[p].side
  <2>1. store[p] # NoRecord
    BY <1>2, Disjoint DEF NoRecord
  <2>2. CASE p \in Leaders
    <3>1. /\ partner[p] \in Followers /\ partner[partner[p]] = p
          /\ store[p].uid = p /\ store[p].side = 0 /\ store[p].peer = partner[p]
          /\ store[p].ula = rec[p].ula
      BY <2>1, <2>2, LeaderStored
    <3>2. /\ store[q].peer = p /\ store[q].uid = p /\ store[q].side = 1
          /\ store[q].ula = rec[p].ula
      BY <1>2, <3>1, FollowerStored
    <3> QED
      BY <3>1, <3>2
  <2>3. CASE p \in Followers
    <3>1. /\ partner[p] \in Leaders /\ partner[partner[p]] = p
          /\ store[p].uid = partner[p] /\ store[p].side = 1 /\ store[p].peer = partner[p]
          /\ store[p].ula = rec[partner[p]].ula
      BY <2>1, <2>3, FollowerStored
    <3>2. /\ store[q].peer = p /\ store[q].uid = q /\ store[q].side = 0
          /\ store[q].ula = rec[q].ula
      BY <1>2, <3>1, LeaderStored
    <3> QED
      BY <1>2, <3>1, <3>2
  <2> QED
    BY <2>2, <2>3, Disjoint
<1> QED
  BY <1>1, <1>2 DEF RecordsFit

\* The head of a channel with one message.
LEMMA OneMessage == ASSUME NEW m PROVE Head(<<m>>) = m /\ Tail(<<m>>) = <<>> /\ <<m>> # <<>>
  OBVIOUS

LEMMA IInvExchange == IInv => ExchangeInv
<1> SUFFICES ASSUME IInv PROVE ExchangeInv
  OBVIOUS
<1>1. NetworksDiffer
  BY LeaderStored, FollowerStored, Disjoint DEF NetworksDiffer
<1>2. SealsOpen
  <2> SUFFICES ASSUME NEW p \in Procs, chan[p] # <<>>, Head(chan[p]).type = "sealed",
                      Head(chan[p]).key = key[p]
               PROVE  Opens(p, Head(chan[p]))
    BY DEF SealsOpen
  <2>1. partner[p] # None
    BY DEF IInv, Own, Fresh
  <2>2. CASE p \in Leaders
    <3>1. MailToLeader(p, partner[p]) /\ LeaderEnd(p, partner[p])
      BY <2>1, <2>2, LeaderLinked DEF Connection, Mail
    <3>2. \E body : chan[p] = <<Sealed(1, KeyOf(partner[p], p, partner[p]), attempt[p], body)>>
                    /\ st[p] = "neg"
      BY <3>1, OneMessage DEF MailToLeader, Spake, Confirm
    <3> QED
      BY <2>2, <3>1, <3>2, OneMessage DEF Opens, Side, Sealed, LeaderEnd
  <2>3. CASE p \in Followers
    <3>1. MailToFollower(partner[p], p) /\ FollowerEnd(partner[p], p)
      BY <2>1, <2>3, FollowerLinked DEF Connection, Mail
    <3>2. \E body : /\ chan[p] = <<Sealed(0, KeyOf(partner[p], partner[p], p), attempt[p], body)>>
                    /\ st[p] = "neg"
      BY <3>1, OneMessage DEF MailToFollower, Spake, Confirm
    <3> QED
      BY <2>3, <3>1, <3>2, OneMessage, Disjoint DEF Opens, Side, Sealed, FollowerEnd
  <2> QED
    BY <2>2, <2>3, Disjoint
<1>3. SameOutcome
  <2> SUFFICES ASSUME NEW f \in Followers, st[f] \in {"prompt", "paired"}, faults = MaxFaults,
                      st[rec[f].peer] = "failed"
               PROVE  rec[rec[f].peer].peer = f
    BY DEF SameOutcome
  <2>1. Connection(partner[f], f)
    BY FollowerLinked
  <2>2. rec[f] # NoRecord /\ rec[f].peer = partner[f]
    BY <2>1 DEF Connection, FollowerEnd
  <2>3. chan[partner[f]] = <<>>
    BY <2>1, <2>2 DEF Connection, Mail, MailToLeader
  <2> QED
    BY <2>1, <2>2, <2>3 DEF Connection, Faultless
<1> QED
  BY <1>1, <1>2, <1>3 DEF ExchangeInv, IInv

-----------------------------------------------------------------------------
(* A step is about one connection *)

\* What one process holds, unchanged.
Same(q) ==
  /\ st'[q] = st[q] /\ up'[q] = up[q] /\ chan'[q] = chan[q] /\ key'[q] = key[q]
  /\ sealed'[q] = sealed[q] /\ attempt'[q] = attempt[q]
  /\ rec'[q] = rec[q] /\ store'[q] = store[q]

\* The step leaves everybody but the two ends of a connection alone.
Only(l, f) ==
  /\ code' = code /\ existing' = existing /\ partner' = partner
  /\ faults' = MaxFaults => faults = MaxFaults
  /\ \A q \in Procs : q # l /\ q # f => Same(q)

LEMMA SameOwn ==
  ASSUME NEW p \in Procs, Own(p), Same(p), partner' = partner,
         faults' = MaxFaults => faults = MaxFaults
  PROVE  Own(p)'
  BY DEF Same, Own, Fresh, Ended, NoRecord

LEMMA SameConnection ==
  ASSUME NEW l \in Leaders, NEW f \in Followers, Connection(l, f), Same(l), Same(f),
         code' = code, existing' = existing, partner'[f] = partner[f],
         faults' = MaxFaults => faults = MaxFaults
  PROVE  Connection(l, f)'
<1> USE DEF Same, KeyOf, Derived
<1>1. LeaderEnd(l, f)' /\ FollowerEnd(l, f)'
  BY DEF Connection, LeaderEnd, FollowerEnd, NoRecord
<1>2. Mail(l, f)'
  <2>1. MailToFollower(l, f) => MailToFollower(l, f)'
    BY DEF MailToFollower, Spake, Confirm, Sealed, Offer
  <2>2. MailToLeader(l, f) => MailToLeader(l, f)'
    BY DEF MailToLeader, NoRecord, Spake, Confirm, Sealed, Acceptance, Rejection
  <2>3. Mail(l, f) /\ chan'[l] = chan[l] /\ chan'[f] = chan[f]
    BY DEF Connection
  <2> QED
    BY <2>1, <2>2, <2>3 DEF Mail
<1>3. Faultless(l, f)'
  BY DEF Connection, Faultless, Ended, NoRecord
<1> QED
  BY <1>1, <1>2, <1>3 DEF Connection

\* So the invariant need only be shown for that connection.
LEMMA Frame ==
  ASSUME IInv, NEW l \in Leaders, NEW f \in Followers, partner[l] = f, Only(l, f), TypeOK',
         Own(l)', Own(f)', LeaderEnd(l, f)', FollowerEnd(l, f)', Mail(l, f)', Faultless(l, f)'
  PROVE  IInv'
<1>1. ASSUME NEW p \in Procs PROVE Own(p)'
  <2>1. CASE p = l \/ p = f
    BY <2>1
  <2>2. CASE p # l /\ p # f
    BY <2>2, SameOwn DEF Only, IInv
  <2> QED
    BY <2>1, <2>2
<1>2. l \in Procs /\ f \in Procs /\ f # None /\ partner' = partner
  BY Disjoint DEF Only, Procs
<1>3. Connection(l, f)
  BY <1>2, LeaderLinked
<1>4. Connection(l, f)'
  BY <1>3 DEF Connection, Only
<1>5. ASSUME NEW k \in Leaders, partner[k] # None PROVE Connection(k, partner[k])'
  <2>1. CASE k = l
    BY <1>4, <2>1 DEF Only
  <2>2. CASE k # l
    <3>1. partner[k] \in Followers /\ partner[partner[k]] = k /\ Connection(k, partner[k])
      BY <1>5, LeaderLinked
    <3>2. partner[k] # f /\ partner[f] = l
      BY <1>3, <2>2, <3>1 DEF Connection
    <3>3. k # f /\ partner[k] # l /\ k \in Procs /\ partner[k] \in Procs
      BY <1>2, <3>1, Disjoint DEF Procs
    <3>4. Same(k) /\ Same(partner[k])
      BY <2>2, <3>2, <3>3 DEF Only
    <3>5. \A g \in Followers : g = partner[k] => Connection(k, g)'
      BY <3>1, <3>4, SameConnection DEF Only
    <3> QED
      BY <1>2, <3>1, <3>5
  <2> QED
    BY <2>1, <2>2
<1>6. \A g \in Followers : partner'[g] # None => partner'[g] \in Leaders /\ partner'[partner'[g]] = g
  BY <1>2 DEF IInv
<1> QED
  BY <1>1, <1>2, <1>5, <1>6 DEF IInv

-----------------------------------------------------------------------------
(* The ends of an exchange *)

LEMMA InitHolds == Init => IInv
<1> SUFFICES ASSUME Init PROVE IInv
  OBVIOUS
<1>1. TypeOK
  <2>1. chan \in [Procs -> Seq(Messages)]
    BY EmptySeq DEF Init
  <2>2. NoRecord \in Records
    BY DEF NoRecord, Records
  <2> QED
    BY <2>1, <2>2, PairingAssumption DEF Init, TypeOK
<1>2. \A p \in Procs : Own(p) /\ partner[p] = None
  BY DEF Init, Own, Fresh, Ended
<1> QED
  BY <1>1, <1>2, Disjoint DEF IInv, Procs

\* The process at p ends in failure; of its own it may still have counted a round.
FailAt(p) ==
  /\ Fail(p) /\ st[p] # "paired"
  /\ UNCHANGED <<code, existing, partner, key, rec, store>>
  /\ \A q \in Procs : q # p => sealed'[q] = sealed[q] /\ attempt'[q] = attempt[q]
  /\ TypeOK'
  /\ faults' = MaxFaults => faults = MaxFaults

LEMMA FailFacts ==
  ASSUME TypeOK, NEW p \in Procs, FailAt(p)
  PROVE  /\ st'[p] = "failed" /\ ~ up'[p] /\ chan'[p] = <<>> /\ key' = key /\ rec' = rec
         /\ store' = store /\ code' = code /\ existing' = existing /\ partner' = partner
         /\ \A q \in Procs : q # p => Same(q)
  BY DEF FailAt, Fail, TypeOK, Same

LEMMA FailOwn == ASSUME IInv, NEW p \in Procs, FailAt(p), partner[p] # None PROVE Own(p)'
<1>1. Own(p) /\ store[p] = NoRecord
  BY DEF IInv, Own, FailAt
<1> QED
  BY <1>1, FailFacts DEF IInv, Own, Ended, NoRecord

\* A leader may fail where its follower has read everything, and has not agreed to anything
\* the leader did not take.  (After a fault it may fail anywhere.)
LEMMA LeaderFails ==
  ASSUME IInv, NEW l \in Leaders, NEW f \in Followers, partner[l] = f, FailAt(l),
         chan[f] = <<>> \/ attempt' = attempt,
         faults' = MaxFaults => /\ chan[f] = <<>>
                                /\ rec[f] # NoRecord => rec[l].peer = f
  PROVE  IInv'
<1>1. f # None /\ l \in Procs /\ f \in Procs /\ l # f
  BY Disjoint DEF Procs
<1>0. Connection(l, f)
  BY <1>1, LeaderLinked
<1>2. /\ st'[l] = "failed" /\ ~ up'[l] /\ chan'[l] = <<>> /\ rec' = rec /\ store' = store
      /\ code' = code /\ existing' = existing /\ partner' = partner /\ key' = key /\ Same(f)
      /\ Only(l, f)
  BY <1>1, FailFacts DEF IInv, Only, FailAt
<1>3. Own(l)' /\ Own(f)'
  BY <1>0, <1>1, <1>2, FailOwn, SameOwn DEF IInv, Only, Connection
<1>4. LeaderEnd(l, f)' /\ FollowerEnd(l, f)'
  BY <1>0, <1>2 DEF Connection, LeaderEnd, FollowerEnd, Same, KeyOf, Derived, NoRecord
<1>5. Mail(l, f)'
  <2>1. CASE chan[f] = <<>>
    BY <1>2, <2>1 DEF Mail, Same
  <2>2. CASE chan[f] # <<>>
    <3>1. MailToFollower(l, f) /\ attempt' = attempt
      BY <1>0, <2>2 DEF Connection, Mail
    <3>2. MailToFollower(l, f)'
      BY <1>2, <3>1 DEF MailToFollower, Same, Spake, Confirm, Sealed, Offer, KeyOf, Derived
    <3> QED
      BY <1>2, <3>2 DEF Mail, Same
  <2> QED
    BY <2>1, <2>2
<1>6. Faultless(l, f)'
  BY <1>2 DEF Faultless, Same, NoRecord
<1>7. TypeOK'
  BY DEF FailAt
<1> QED
  BY <1>1, <1>2, <1>3, <1>4, <1>5, <1>6, <1>7, Frame

\* A follower may fail anywhere: what it agreed to is still underway or taken.
LEMMA FollowerFails ==
  ASSUME IInv, NEW l \in Leaders, NEW f \in Followers, partner[l] = f, FailAt(f),
         attempt' = attempt
  PROVE  IInv'
<1>1. f # None /\ l # None /\ l \in Procs /\ f \in Procs /\ l # f
  BY Disjoint DEF Procs
<1>0. Connection(l, f)
  BY <1>1, LeaderLinked
<1>2. /\ st'[f] = "failed" /\ ~ up'[f] /\ chan'[f] = <<>> /\ rec' = rec /\ store' = store
      /\ code' = code /\ existing' = existing /\ partner' = partner /\ key' = key /\ Same(l)
      /\ Only(l, f)
  BY <1>1, FailFacts DEF IInv, Only, FailAt
<1>3. Own(l)' /\ Own(f)'
  BY <1>0, <1>1, <1>2, FailOwn, SameOwn DEF IInv, Only, Connection
<1>4. LeaderEnd(l, f)' /\ FollowerEnd(l, f)'
  BY <1>0, <1>2 DEF Connection, LeaderEnd, FollowerEnd, Same, KeyOf, Derived, NoRecord
<1>5. Mail(l, f)'
  <2>1. CASE chan[l] = <<>>
    BY <1>2, <2>1 DEF Mail, Same
  <2>2. CASE chan[l] # <<>>
    <3>1. MailToLeader(l, f)
      BY <1>0, <2>2 DEF Connection, Mail
    <3>2. MailToLeader(l, f)'
      BY <1>2, <3>1 DEF MailToLeader, Same, Spake, Confirm, Sealed, Acceptance, Rejection,
                        KeyOf, Derived, NoRecord
    <3> QED
      BY <1>2, <3>2 DEF Mail, Same
  <2> QED
    BY <2>1, <2>2
<1>6. Faultless(l, f)'
  BY <1>0, <1>2 DEF Connection, Faultless, Only, Same, NoRecord
<1>7. TypeOK'
  BY DEF FailAt
<1> QED
  BY <1>1, <1>2, <1>3, <1>4, <1>5, <1>6, <1>7, Frame

\* A process whose own fields do not change ends: FailAt holds.
LEMMA FailType ==
  ASSUME TypeOK, NEW p \in Procs, Fail(p), st[p] # "paired",
         UNCHANGED <<code, existing, partner, key, sealed, attempt, rec, store>>,
         faults' \in 0 .. MaxFaults, faults' = MaxFaults => faults = MaxFaults
  PROVE  FailAt(p)
<1>1. /\ st' \in [Procs -> {"waiting", "joined", "spake", "confirm", "neg", "prompt",
                            "paired", "failed"}]
      /\ up' \in [Procs -> BOOLEAN]
  BY DEF Fail, TypeOK
<1>2. chan' \in [Procs -> Seq(Messages)]
  BY EmptySeq DEF Fail, TypeOK
<1>3. TypeOK'
  BY <1>1, <1>2 DEF TypeOK
<1> QED
  BY <1>3 DEF FailAt

\* A process alone gives up: nobody has met it.
LEMMA GiveUpStep == ASSUME IInv, NEW p \in Procs, GiveUp(p) PROVE IInv'
<1>1. st[p] = "waiting" /\ FailAt(p)
  <2>1. faults \in 0 .. MaxFaults /\ faults' = faults
    BY DEF IInv, TypeOK, GiveUp
  <2> QED
    BY <2>1, FailType DEF GiveUp, IInv
<1>2. /\ st'[p] = "failed" /\ ~ up'[p] /\ chan'[p] = <<>> /\ rec' = rec /\ store' = store
      /\ code' = code /\ existing' = existing /\ partner' = partner /\ faults' = faults
      /\ sealed' = sealed /\ attempt' = attempt
      /\ \A q \in Procs : q # p => Same(q)
  BY <1>1, FailFacts DEF GiveUp, IInv
<1>3. partner[p] = None
  <2>1. CASE p \in Leaders
    BY <1>1, <2>1, LeaderLinked DEF Connection, LeaderEnd
  <2>2. CASE p \in Followers
    BY <1>1, <2>2, FollowerLinked DEF Connection, FollowerEnd
  <2> QED
    BY <2>1, <2>2, Disjoint
<1>4. ASSUME NEW q \in Procs PROVE Own(q)'
  <2>1. CASE q = p
    BY <1>1, <1>2, <1>3, <2>1 DEF IInv, Own, Fresh, Ended, NoRecord
  <2>2. CASE q # p
    BY <1>2, <2>2, SameOwn DEF IInv
  <2> QED
    BY <2>1, <2>2
<1>5. ASSUME NEW l \in Leaders, partner[l] # None PROVE Connection(l, partner[l])'
  <2>1. /\ partner[l] \in Followers /\ partner[partner[l]] = l /\ Connection(l, partner[l])
        /\ l \in Procs /\ partner[l] \in Procs
    BY <1>5, LeaderLinked DEF Procs
  <2>2. l # None
    BY <2>1, Disjoint
  <2>3. Same(l) /\ Same(partner[l])
    BY <1>2, <1>3, <1>5, <2>1, <2>2
  <2>4. \A f \in Followers : f = partner[l] => Connection(l, f)'
    BY <1>2, <2>1, <2>3, SameConnection
  <2> QED
    BY <1>2, <2>1, <2>4
<1>6. TypeOK' /\ \A f \in Followers :
                   partner'[f] # None => partner'[f] \in Leaders /\ partner'[partner'[f]] = f
  BY <1>1, <1>2 DEF FailAt, IInv
<1> QED
  BY <1>2, <1>4, <1>5, <1>6 DEF IInv

\* The rendezvous: the follower has the leader's message, and their ids are the same.
LEMMA JoinStep == ASSUME IInv, NEW f \in Followers, NEW l \in Leaders, Join(f, l) PROVE IInv'
<1>1. l \in Procs /\ f \in Procs /\ l # f /\ l # None /\ f # None
  BY Disjoint DEF Procs
<1>2. partner[l] = None /\ partner[f] = None
  <2>1. st[l] = "waiting" /\ st[f] = "waiting"
    BY DEF Join
  <2>2. partner[l] = None
    BY <2>1, LeaderLinked DEF Connection, LeaderEnd
  <2>3. partner[f] = None
    BY <2>1, FollowerLinked DEF Connection, FollowerEnd
  <2> QED
    BY <2>2, <2>3
<1>3. Fresh(l) /\ Fresh(f) /\ Own(l) /\ Own(f)
  BY <1>1, <1>2 DEF IInv, Own
<1>4. /\ st'[f] = "joined" /\ st'[l] = "spake" /\ partner'[f] = l /\ partner'[l] = f
      /\ st[f] = "waiting" /\ st[l] = "waiting" /\ code[f].id = code[l].id
      /\ code' = code /\ existing' = existing /\ up' = up /\ key' = key /\ sealed' = sealed
      /\ attempt' = attempt /\ rec' = rec /\ store' = store /\ faults' = faults
      /\ \A q \in Procs : q # l /\ q # f => st'[q] = st[q] /\ partner'[q] = partner[q]
  BY <1>1 DEF Join, Meets, IInv, TypeOK
<1>5. /\ chan'[f] = <<Spake(l)>> /\ chan'[l] = <<>>
      /\ \A q \in Procs : q # l /\ q # f => chan'[q] = chan[q]
  BY <1>1, <1>3 DEF Join, IInv, TypeOK, Fresh, Spake
<1>6. TypeOK'
  <2>1. Spake(l) \in Messages
    BY <1>1 DEF Spake, Messages
  <2>2. <<Spake(l)>> \in Seq(Messages)
    BY <2>1
  <2>3. chan' \in [Procs -> Seq(Messages)]
    BY <2>2 DEF Join, IInv, TypeOK, Spake
  <2>4. /\ st' \in [Procs -> {"waiting", "joined", "spake", "confirm", "neg", "prompt",
                              "paired", "failed"}]
        /\ partner' \in [Procs -> Procs \cup {None}]
    BY <1>1 DEF Join, IInv, TypeOK
  <2> QED
    BY <1>4, <2>3, <2>4 DEF IInv, TypeOK
<1>7. Connection(l, f)'
  <2>1. LeaderEnd(l, f)' /\ FollowerEnd(l, f)'
    BY <1>3, <1>4 DEF LeaderEnd, FollowerEnd, Fresh, NoRecord
  <2>2. Mail(l, f)'
    BY <1>4, <1>5 DEF Mail, MailToFollower, Spake
  <2>3. Faultless(l, f)'
    BY <1>3, <1>4 DEF Faultless, Ended, Fresh, NoRecord
  <2> QED
    BY <1>4, <2>1, <2>2, <2>3 DEF Connection
<1>8. ASSUME NEW q \in Procs PROVE Own(q)'
  <2>1. CASE q = l \/ q = f
    BY <1>1, <1>3, <1>4, <2>1 DEF Own, Fresh, Ended, NoRecord
  <2>2. CASE q # l /\ q # f
    BY <1>4, <1>5, <2>2 DEF IInv, Own, Fresh, Ended, NoRecord
  <2> QED
    BY <2>1, <2>2
<1>9. ASSUME NEW k \in Leaders, partner'[k] # None PROVE Connection(k, partner[k])'
  <2>1. CASE k = l
    BY <1>4, <1>7, <2>1
  <2>2. CASE k # l
    <3>1. k \in Procs /\ k # f /\ partner'[k] = partner[k]
      BY <1>1, <1>4, <2>2, Disjoint DEF Procs
    <3>2. partner[k] \in Followers /\ partner[partner[k]] = k /\ Connection(k, partner[k])
      BY <1>9, <3>1, LeaderLinked
    <3>3. partner[k] # f /\ partner[k] # l /\ partner[k] \in Procs
      BY <1>1, <1>2, <3>1, <3>2, Disjoint DEF Procs
    <3>4. Same(k) /\ Same(partner[k]) /\ partner'[partner[k]] = k
      BY <1>4, <1>5, <2>2, <3>1, <3>2, <3>3 DEF Same
    <3>5. \A g \in Followers : g = partner[k] => Connection(k, g)'
      BY <1>4, <3>2, <3>4, SameConnection
    <3> QED
      BY <3>1, <3>2, <3>5
  <2> QED
    BY <2>1, <2>2
<1>10. ASSUME NEW g \in Followers, partner'[g] # None
       PROVE  partner'[g] \in Leaders /\ partner'[partner'[g]] = g
  <2>1. CASE g = f
    BY <1>4, <2>1
  <2>2. CASE g # f
    <3>1. g \in Procs /\ g # l /\ partner'[g] = partner[g]
      BY <1>1, <1>4, <2>2, Disjoint DEF Procs
    <3>2. partner[g] \in Leaders /\ partner[partner[g]] = g
      BY <1>10, <3>1, FollowerLinked
    <3>3. partner[g] # l /\ partner[g] # f /\ partner[g] \in Procs
      BY <1>1, <1>2, <3>1, <3>2, Disjoint DEF Procs
    <3> QED
      BY <1>4, <3>1, <3>2, <3>3
  <2> QED
    BY <2>1, <2>2
<1> QED
  BY <1>6, <1>8, <1>9, <1>10 DEF IInv

\* The user says no.
LEMMA DeclineStep == ASSUME IInv, NEW p \in Procs, Decline(p) PROVE IInv'
<1>1. FailAt(p) /\ attempt' = attempt /\ faults' = faults /\ st[p] = "prompt"
  <2>1. faults \in 0 .. MaxFaults /\ faults' = faults
    BY DEF IInv, TypeOK, Decline
  <2> QED
    BY <2>1, FailType DEF Decline, IInv
<1>2. CASE p \in Leaders
  <2>1. partner[p] \in Followers /\ Connection(p, partner[p])
    BY <1>1, <1>2, LeaderLinked
  <2>2. chan[partner[p]] = <<>> /\ rec[p].peer = partner[p]
    BY <1>1, <2>1 DEF Connection, Mail, MailToFollower, LeaderEnd
  <2> QED
    BY <1>1, <1>2, <2>1, <2>2, LeaderFails
<1>3. CASE p \in Followers
  BY <1>1, <1>3, FollowerLinked, FollowerFails
<1> QED
  BY <1>2, <1>3, Disjoint

\* A receive times out: a fault, after which the two ends may come to different ends.
LEMMA TimeoutStep == ASSUME IInv, NEW p \in Procs, Timeout(p) PROVE IInv'
<1>1. /\ FailAt(p) /\ attempt' = attempt /\ faults' # MaxFaults
      /\ st[p] \notin {"waiting", "failed"}
  <2>1. faults' \in 0 .. MaxFaults /\ faults' # MaxFaults
    BY PairingAssumption DEF IInv, TypeOK, Timeout
  <2> QED
    BY <2>1, FailType DEF Timeout, IInv
<1>2. CASE p \in Leaders
  BY <1>1, <1>2, LeaderLinked, LeaderFails
<1>3. CASE p \in Followers
  BY <1>1, <1>3, FollowerLinked, FollowerFails
<1> QED
  BY <1>2, <1>3, Disjoint

\* A leader is never cut off from an acceptance, nor by a follower that has yet to read.
LEMMA NoCutOff ==
  ASSUME IInv, NEW l \in Leaders, NEW f \in Followers, partner[l] = f,
         st[l] \in {"spake", "confirm", "neg"}, CutOff(l), faults = MaxFaults
  PROVE  chan[f] = <<>> /\ (rec[f] # NoRecord => rec[l].peer = f)
<1>1. f # None /\ l \in Procs /\ f \in Procs
  BY Disjoint DEF Procs
<1>2. Connection(l, f) /\ Own(l) /\ Own(f)
  BY <1>1, LeaderLinked DEF IInv
<1>3. ASSUME chan[f] # <<>> PROVE FALSE
  <2>1. chan[l] = <<>> /\ st[f] \in {"joined", "confirm", "neg"}
    BY <1>2, <1>3 DEF Connection, Mail, MailToFollower
  <2>2. ~ up[l] \/ ~ up[f]
    BY <2>1 DEF CutOff
  <2> QED
    BY <1>2, <2>1, <2>2 DEF Own, Ended
<1>4. ASSUME rec[f] # NoRecord, chan[l] # <<>> PROVE FALSE
  <2>1. /\ st[l] = "neg" /\ chan[l] = <<Sealed(1, KeyOf(f, l, f), attempt[l], Acceptance(f))>>
    BY <1>2, <1>4 DEF Connection, Mail, MailToLeader
  <2>2. Head(chan[l]) = Sealed(1, KeyOf(f, l, f), attempt[l], Acceptance(f))
    BY <2>1, OneMessage
  <2>3. /\ Head(chan[l]).type = "sealed" /\ Head(chan[l]).body.kind = "accept"
        /\ Head(chan[l]).key = KeyOf(f, l, f)
    BY <2>2 DEF Sealed, Acceptance
  <2>4. key[l] = KeyOf(f, l, f)
    BY <1>2, <2>1 DEF Connection, LeaderEnd, KeyOf
  <2>5. Opens(l, Head(chan[l]))
    BY <1>1, <1>4, <2>1, <2>3, <2>4, IInvExchange DEF ExchangeInv, SealsOpen, Ended
  <2> QED
    BY <1>4, <2>3, <2>5 DEF CutOff
<1> QED
  BY <1>2, <1>3, <1>4 DEF Connection, Faultless

\* The connection is closed under a process that reads.
LEMMA RecvFailsStep == ASSUME IInv, NEW p \in Procs, RecvFails(p) PROVE IInv'
<1>1. /\ FailAt(p) /\ attempt' = attempt /\ faults' = faults
      /\ st[p] \in {"joined", "spake", "confirm", "neg"} /\ CutOff(p)
  <2>1. faults \in 0 .. MaxFaults /\ faults' = faults
    BY DEF IInv, TypeOK, RecvFails
  <2> QED
    BY <2>1, FailType DEF RecvFails, IInv
<1>2. CASE p \in Leaders
  <2>1. partner[p] \in Followers /\ Connection(p, partner[p])
    BY <1>1, <1>2, LeaderLinked
  <2>2. st[p] # "joined"
    BY <2>1 DEF Connection, LeaderEnd
  <2>3. faults' = MaxFaults => /\ chan[partner[p]] = <<>>
                               /\ rec[partner[p]] # NoRecord => rec[p].peer = partner[p]
    BY <1>1, <1>2, <2>1, <2>2, NoCutOff
  <2> QED
    BY <1>1, <1>2, <2>1, <2>3, LeaderFails
<1>3. CASE p \in Followers
  BY <1>1, <1>3, FollowerLinked, FollowerFails
<1> QED
  BY <1>2, <1>3, Disjoint

\* The user says yes: what is stored is what the negotiation left.
LEMMA AcceptStep == ASSUME IInv, NEW p \in Procs, Accept(p) PROVE IInv'
<1>1. /\ st[p] = "prompt" /\ st'[p] = "paired" /\ ~ up'[p] /\ chan'[p] = <<>>
      /\ store'[p] = rec[p] /\ key' = key /\ rec' = rec /\ code' = code
      /\ existing' = existing /\ partner' = partner /\ sealed' = sealed /\ attempt' = attempt
      /\ faults' = faults /\ \A q \in Procs : q # p => Same(q)
  BY DEF Accept, IInv, TypeOK, Same
<1>2. TypeOK'
  <2>1. /\ st' \in [Procs -> {"waiting", "joined", "spake", "confirm", "neg", "prompt",
                              "paired", "failed"}]
        /\ up' \in [Procs -> BOOLEAN] /\ store' \in [Procs -> Records]
    BY DEF Accept, IInv, TypeOK
  <2>2. chan' \in [Procs -> Seq(Messages)]
    BY EmptySeq DEF Accept, IInv, TypeOK
  <2> QED
    BY <1>1, <2>1, <2>2 DEF IInv, TypeOK
<1>3. ASSUME NEW l \in Leaders, NEW f \in Followers, partner[l] = f, p = l \/ p = f PROVE IInv'
  <2>1. f # None /\ l # None /\ l \in Procs /\ f \in Procs /\ l # f
    BY Disjoint DEF Procs
  <2>2. Connection(l, f) /\ Own(l) /\ Own(f)
    BY <1>3, <2>1, LeaderLinked DEF IInv
  <2>3. Only(l, f)
    BY <1>1, <1>3 DEF Only
  <2>4. LeaderEnd(l, f)' /\ FollowerEnd(l, f)'
    BY <1>1, <1>3, <2>1, <2>2
       DEF Connection, LeaderEnd, FollowerEnd, Same, KeyOf, Derived, NoRecord
  <2>5. Own(l)' /\ Own(f)'
    BY <1>1, <1>3, <2>1, <2>2 DEF Own, Ended, Same, NoRecord, Connection
  <2>6. p = l => chan[f] = <<>> /\ chan[l] = <<>>
    BY <1>1, <2>2 DEF Connection, Mail, MailToFollower, MailToLeader
  <2>7. p = f => chan[f] = <<>> /\ st[f] = "prompt" /\ st'[f] = "paired" /\ Same(l)
    BY <1>1, <2>1, <2>2 DEF Connection, Mail, MailToFollower
  <2>8. Mail(l, f)'
    <3>1. CASE p = l
      BY <1>1, <2>1, <2>6, <3>1 DEF Mail, Same
    <3>2. CASE p = f /\ chan[l] # <<>>
      <4>1. MailToLeader(l, f)
        BY <2>2, <3>2 DEF Connection, Mail
      <4>2. MailToLeader(l, f)'
        BY <1>1, <2>7, <3>2, <4>1 DEF MailToLeader, Same, Sealed, Acceptance, KeyOf, Derived,
                                      NoRecord
      <4> QED
        BY <1>1, <3>2, <4>2 DEF Mail
    <3>3. CASE p = f /\ chan[l] = <<>>
      BY <1>1, <2>7, <3>3 DEF Mail, Same
    <3> QED
      BY <1>3, <3>1, <3>2, <3>3
  <2>9. Faultless(l, f)'
    <3>1. chan'[f] = <<>> /\ chan'[l] = chan[l] /\ rec' = rec /\ faults' = faults
      BY <1>1, <1>3, <2>1, <2>6, <2>7 DEF Same
    <3> QED
      BY <2>2, <3>1 DEF Connection, Faultless, NoRecord
  <2> QED
    BY <1>2, <1>3, <2>3, <2>4, <2>5, <2>8, <2>9, Frame
<1>4. CASE p \in Leaders
  BY <1>1, <1>3, <1>4, LeaderLinked
<1>5. CASE p \in Followers
  BY <1>1, <1>3, <1>5, FollowerLinked
<1> QED
  BY <1>4, <1>5, Disjoint

\* The connection breaks: both ends stay where they are, with nothing underway.
LEMMA BreakStep == ASSUME IInv, NEW p \in Procs, Break(p) PROVE IInv'
<1>1. ASSUME NEW l \in Leaders, NEW f \in Followers, partner[l] = f, partner[f] = l,
             p = l \/ p = f
      PROVE  IInv'
  <2>1. f # None /\ l # None /\ l \in Procs /\ f \in Procs /\ l # f
    BY Disjoint DEF Procs
  <2>2. Connection(l, f) /\ Own(l) /\ Own(f)
    BY <1>1, <2>1, LeaderLinked DEF IInv
  <2>3. /\ chan'[l] = <<>> /\ chan'[f] = <<>> /\ ~ up'[l] /\ ~ up'[f]
        /\ st' = st /\ key' = key /\ rec' = rec /\ code' = code /\ store' = store
        /\ existing' = existing /\ partner' = partner /\ sealed' = sealed /\ attempt' = attempt
        /\ \A q \in Procs : q # l /\ q # f => Same(q)
    BY <1>1, <2>1 DEF Break, IInv, TypeOK, Same
  <2>4. faults' \in 0 .. MaxFaults /\ faults' # MaxFaults
    BY PairingAssumption DEF Break, IInv, TypeOK
  <2>5. TypeOK'
    <3>1. up' \in [Procs -> BOOLEAN]
      BY DEF Break, IInv, TypeOK
    <3>2. chan' \in [Procs -> Seq(Messages)]
      BY EmptySeq DEF Break, IInv, TypeOK
    <3> QED
      BY <2>3, <2>4, <3>1, <3>2 DEF IInv, TypeOK
  <2>6. LeaderEnd(l, f)' /\ FollowerEnd(l, f)'
    BY <2>2, <2>3 DEF Connection, LeaderEnd, FollowerEnd, KeyOf, Derived, NoRecord
  <2>7. Own(l)' /\ Own(f)'
    BY <1>1, <2>1, <2>2, <2>3, <2>4 DEF Own, Ended, NoRecord
  <2>8. Mail(l, f)' /\ Faultless(l, f)' /\ Only(l, f)
    BY <2>3, <2>4 DEF Mail, Faultless, Only
  <2> QED
    BY <1>1, <2>5, <2>6, <2>7, <2>8, Frame
<1>2. partner[p] # None
  BY DEF Break
<1>3. CASE p \in Leaders
  BY <1>1, <1>2, <1>3, LeaderLinked
<1>4. CASE p \in Followers
  BY <1>1, <1>2, <1>4, FollowerLinked
<1> QED
  BY <1>3, <1>4, Disjoint

-----------------------------------------------------------------------------
(* The messages of the exchange *)

\* What a turn does to the channels: the message read is gone, the one sent is the only one,
\* if the other end is there to get it.
Turn(p, q, m) ==
  /\ chan'[p] = <<>>
  /\ chan'[q] = <<>> \/ (up[q] /\ chan'[q] = <<m>>)
  /\ up[q] => chan'[q] = <<m>>
  /\ \A r \in Procs : r # p /\ r # q => chan'[r] = chan[r]

LEMMA SentIsTurn ==
  ASSUME TypeOK, NEW p \in Procs, NEW q \in Procs, partner[p] = q, p # q,
         NEW x, chan[p] = <<x>>, chan[q] = <<>>,
         NEW m \in Messages, chan' = Sent(p, m)
  PROVE  Turn(p, q, m) /\ chan' \in [Procs -> Seq(Messages)]
<1>1. Tail(chan[p]) = <<>> /\ Append(chan[q], m) = <<m>>
  BY OneMessage
<1>2. <<m>> \in Seq(Messages) /\ <<>> \in Seq(Messages)
  BY EmptySeq
<1>3. CASE up[q]
  <2>1. chan' = [chan EXCEPT ![p] = <<>>, ![q] = <<m>>]
    BY <1>1, <1>3 DEF Sent, TypeOK
  <2>2. chan' \in [Procs -> Seq(Messages)]
    <3>1. chan \in [Procs -> Seq(Messages)]
      BY DEF TypeOK
    <3> QED
      BY <1>2, <2>1, <3>1
  <2>3. Turn(p, q, m)
    BY <1>3, <2>1 DEF Turn, TypeOK
  <2> QED
    BY <2>2, <2>3
<1>4. CASE ~ up[q]
  <2>1. chan' = [chan EXCEPT ![p] = <<>>]
    BY <1>1, <1>4 DEF Sent, TypeOK
  <2> QED
    BY <1>2, <1>4, <2>1 DEF Turn, TypeOK
<1> QED
  BY <1>3, <1>4

\* The two ends of a connection.
Ends(l, f) ==
  /\ partner[l] = f /\ partner[f] = l
  /\ l \in Procs /\ f \in Procs /\ l # f /\ l # None /\ f # None
  /\ Own(l) /\ Own(f)
  /\ LeaderEnd(l, f) /\ FollowerEnd(l, f) /\ Faultless(l, f)
  /\ code[f].id = code[l].id

\* Both are there when a message waits for the follower, or for the leader.
LEMMA FollowerReads ==
  ASSUME IInv, NEW f \in Followers, chan[f] # <<>>
  PROVE  \E l \in Leaders : Ends(l, f) /\ chan[l] = <<>> /\ MailToFollower(l, f)
<1>1. f \in Procs
  BY DEF Procs
<1>2. partner[f] # None
  BY <1>1 DEF IInv, Own, Fresh
<1>3. /\ partner[f] \in Leaders /\ Connection(partner[f], f) /\ partner[partner[f]] = f
      /\ partner[f] \in Procs
  BY <1>2, FollowerLinked DEF Procs
<1>4. partner[f] # f /\ f # None
  BY <1>1, <1>3, Disjoint
<1>5. Ends(partner[f], f)
  BY <1>1, <1>2, <1>3, <1>4 DEF Ends, Connection, IInv
<1> QED
  BY <1>3, <1>5 DEF Connection, Mail

LEMMA LeaderReads ==
  ASSUME IInv, NEW l \in Leaders, chan[l] # <<>>
  PROVE  \E f \in Followers : Ends(l, f) /\ chan[f] = <<>> /\ MailToLeader(l, f)
<1>1. l \in Procs
  BY DEF Procs
<1>2. partner[l] # None
  BY <1>1 DEF IInv, Own, Fresh
<1>3. /\ partner[l] \in Followers /\ Connection(l, partner[l]) /\ partner[partner[l]] = l
      /\ partner[l] \in Procs
  BY <1>2, LeaderLinked DEF Procs
<1>4. partner[l] # l /\ l # None
  BY <1>1, <1>3, Disjoint
<1>5. Ends(l, partner[l])
  BY <1>1, <1>2, <1>3, <1>4 DEF Ends, Connection, IInv
<1> QED
  BY <1>3, <1>5 DEF Connection, Mail

\* The keys and messages of the two ends are of their types.
LEMMA MessageTypes ==
  ASSUME TypeOK, NEW l \in Leaders, NEW f \in Followers, NEW p \in Procs
  PROVE  /\ KeyOf(p, l, f) \in Keys
         /\ Spake(p) \in Messages
         /\ \A side \in {0, 1} : Confirm(side, KeyOf(p, l, f)) \in Messages
         /\ \A side \in {0, 1}, n \in Nat, body \in Bodies :
              Sealed(side, KeyOf(p, l, f), n, body) \in Messages
<1>1. KeyOf(p, l, f) \in Keys
  BY DEF KeyOf, Derived, Keys, TypeOK, Codes
<1> QED
  BY <1>1 DEF Spake, Confirm, Sealed, Messages

\* Who derives the same key has the same password.
LEMMA SameKeySameCode ==
  ASSUME TypeOK, NEW l \in Procs, NEW f \in Procs, code[f].id = code[l].id,
         KeyOf(l, l, f) = KeyOf(f, l, f)
  PROVE  code[f] = code[l]
<1>1. code[l] \in Codes /\ code[f] \in Codes
  BY DEF TypeOK
<1>2. code[l].pw = code[f].pw
  BY DEF KeyOf, Derived
<1>3. \A c \in Codes : c = [id |-> c.id, pw |-> c.pw]
  BY DEF Codes
<1> QED
  BY <1>1, <1>2, <1>3

\* The states of a process, as TypeOK has them.
Standing == {"waiting", "joined", "spake", "confirm", "neg", "prompt", "paired", "failed"}

\* The follower has both SPAKE2 messages.
LEMMA SpakeFollowerStep == ASSUME IInv, NEW f \in Followers, SpakeFollower(f) PROVE IInv'
<1>1. st[f] = "joined" /\ chan[f] # <<>>
  BY DEF SpakeFollower
<1>2. PICK l \in Leaders : Ends(l, f) /\ chan[l] = <<>> /\ MailToFollower(l, f)
  BY <1>1, FollowerReads
<1> USE <1>2 DEF Ends
<1>3. chan[f] = <<Spake(l)>> /\ st[l] \in {"spake", "failed"} /\ rec[f] = NoRecord
  BY <1>1 DEF MailToFollower, FollowerEnd
<1>4. Head(chan[f]).from = l
  BY <1>3, OneMessage DEF Spake
<1>5. /\ key' = [key EXCEPT ![f] = KeyOf(f, l, f)]
      /\ st' = [st EXCEPT ![f] = "confirm"]
      /\ chan' = Sent(f, Spake(f))
      /\ code' = code /\ existing' = existing /\ partner' = partner /\ up' = up
      /\ sealed' = sealed /\ attempt' = attempt /\ rec' = rec /\ store' = store
      /\ faults' = faults
  BY <1>4 DEF SpakeFollower, KeyOf, Spake
<1>6. Turn(f, l, Spake(f)) /\ chan' \in [Procs -> Seq(Messages)]
  BY <1>3, <1>5, MessageTypes, SentIsTurn DEF IInv
<1>7. TypeOK'
  <2>1. st' \in [Procs -> Standing] /\ key' \in [Procs -> Keys \cup {None}]
    BY <1>5, MessageTypes DEF IInv, TypeOK, Standing
  <2> QED
    BY <1>5, <1>6, <2>1 DEF IInv, TypeOK, Standing
<1>8. /\ key'[f] = KeyOf(f, l, f) /\ key'[l] = key[l] /\ st'[f] = "confirm" /\ st'[l] = st[l]
      /\ Only(l, f)
  BY <1>5, <1>6 DEF Only, Same, Turn, IInv, TypeOK
<1>9. LeaderEnd(l, f)' /\ FollowerEnd(l, f)'
  BY <1>1, <1>5, <1>8 DEF LeaderEnd, FollowerEnd, KeyOf, Derived, NoRecord
<1>10. Own(l)' /\ Own(f)'
  BY <1>1, <1>5, <1>8 DEF Own, Ended, NoRecord
<1>11. Mail(l, f)'
  <2>1. CASE chan'[l] = <<>>
    BY <1>6, <2>1 DEF Mail, Turn
  <2>2. CASE up[l] /\ chan'[l] = <<Spake(f)>>
    <3>1. st'[l] = "spake"
      BY <1>3, <1>8, <2>2 DEF Own, Ended
    <3>2. MailToLeader(l, f)'
      BY <1>3, <1>5, <1>8, <2>2, <3>1 DEF MailToLeader, Spake, NoRecord
    <3> QED
      BY <1>6, <3>2 DEF Mail, Turn
  <2> QED
    BY <1>6, <2>1, <2>2 DEF Turn
<1>12. Faultless(l, f)'
  BY <1>3, <1>5, <1>6 DEF Faultless, Turn, NoRecord
<1> QED
  BY <1>7, <1>8, <1>9, <1>10, <1>11, <1>12, Frame

\* The leader has both, and proves that it has the key.
LEMMA SpakeLeaderStep == ASSUME IInv, NEW l \in Leaders, SpakeLeader(l) PROVE IInv'
<1>1. st[l] = "spake" /\ chan[l] # <<>>
  BY DEF SpakeLeader
<1>2. PICK f \in Followers : Ends(l, f) /\ chan[f] = <<>> /\ MailToLeader(l, f)
  BY <1>1, LeaderReads
<1> USE <1>2 DEF Ends
<1>3. chan[l] = <<Spake(f)>> /\ st[f] \in {"confirm", "failed"} /\ rec[f] = NoRecord
  BY <1>1 DEF MailToLeader
<1>4. Head(chan[l]).from = f
  BY <1>3, OneMessage DEF Spake
<1>5. /\ key' = [key EXCEPT ![l] = KeyOf(l, l, f)]
      /\ st' = [st EXCEPT ![l] = "confirm"]
      /\ chan' = Sent(l, Confirm(0, KeyOf(l, l, f)))
      /\ code' = code /\ existing' = existing /\ partner' = partner /\ up' = up
      /\ sealed' = sealed /\ attempt' = attempt /\ rec' = rec /\ store' = store
      /\ faults' = faults
  BY <1>4 DEF SpakeLeader, KeyOf, Confirm
<1>6. Turn(l, f, Confirm(0, KeyOf(l, l, f))) /\ chan' \in [Procs -> Seq(Messages)]
  BY <1>3, <1>5, MessageTypes, SentIsTurn DEF IInv
<1>7. TypeOK'
  <2>1. st' \in [Procs -> Standing] /\ key' \in [Procs -> Keys \cup {None}]
    BY <1>5, MessageTypes DEF IInv, TypeOK, Standing
  <2> QED
    BY <1>5, <1>6, <2>1 DEF IInv, TypeOK, Standing
<1>8. /\ key'[l] = KeyOf(l, l, f) /\ key'[f] = key[f] /\ st'[l] = "confirm" /\ st'[f] = st[f]
      /\ Only(l, f)
  BY <1>5, <1>6 DEF Only, Same, Turn, IInv, TypeOK
<1>9. LeaderEnd(l, f)' /\ FollowerEnd(l, f)'
  BY <1>1, <1>5, <1>8 DEF LeaderEnd, FollowerEnd, KeyOf, Derived, NoRecord
<1>10. Own(l)' /\ Own(f)'
  BY <1>1, <1>5, <1>8 DEF Own, Ended, NoRecord
<1>11. Mail(l, f)'
  <2>1. CASE chan'[f] = <<>>
    BY <1>6, <2>1 DEF Mail, Turn
  <2>2. CASE up[f] /\ chan'[f] = <<Confirm(0, KeyOf(l, l, f))>>
    <3>1. st'[f] = "confirm"
      BY <1>3, <1>8, <2>2 DEF Own, Ended
    <3>2. MailToFollower(l, f)'
      BY <1>5, <1>8, <2>2, <3>1 DEF MailToFollower, Confirm, KeyOf, Derived
    <3> QED
      BY <1>6, <3>2 DEF Mail, Turn
  <2> QED
    BY <1>6, <2>1, <2>2 DEF Turn
<1>12. Faultless(l, f)'
  BY <1>3, <1>5, <1>8 DEF Faultless, NoRecord, Ended
<1> QED
  BY <1>7, <1>8, <1>9, <1>10, <1>11, <1>12, Frame

\* The follower checks the leader's confirmation: their passwords are the same, or it leaves.
LEMMA ConfirmFollowerStep == ASSUME IInv, NEW f \in Followers, ConfirmFollower(f) PROVE IInv'
<1>1. st[f] = "confirm" /\ chan[f] # <<>>
  BY DEF ConfirmFollower
<1>2. PICK l \in Leaders : Ends(l, f) /\ chan[l] = <<>> /\ MailToFollower(l, f)
  BY <1>1, FollowerReads
<1> USE <1>2 DEF Ends
<1>3. /\ chan[f] = <<Confirm(0, KeyOf(l, l, f))>> /\ st[l] \in {"confirm", "failed"}
      /\ rec[f] = NoRecord /\ attempt[f] = 0 /\ sealed[f] = [l2f |-> 0, f2l |-> 0]
      /\ key[f] = KeyOf(f, l, f)
  BY <1>1 DEF MailToFollower, FollowerEnd
<1>4. CASE Fail(f)
  <2>1. FailAt(f) /\ attempt' = attempt
    <3>1. faults \in 0 .. MaxFaults /\ faults' = faults
      BY DEF IInv, TypeOK, ConfirmFollower
    <3> QED
      BY <1>1, <1>4, <3>1, FailType DEF ConfirmFollower, IInv
  <2> QED
    BY <2>1, FollowerFails
<1>5. CASE /\ Confirmed(f, Head(chan[f]))
           /\ chan' = Sent(f, [type |-> "confirm", side |-> 1, key |-> key[f]])
           /\ st' = [st EXCEPT ![f] = "neg"]
           /\ UNCHANGED up
  <2>1. KeyOf(l, l, f) = KeyOf(f, l, f)
    BY <1>3, <1>5, OneMessage DEF Confirmed, Confirm
  <2>2. code[f] = code[l]
    BY <2>1, SameKeySameCode DEF IInv
  <2>3. /\ chan' = Sent(f, Confirm(1, KeyOf(f, l, f)))
        /\ code' = code /\ existing' = existing /\ partner' = partner /\ up' = up /\ key' = key
        /\ sealed' = sealed /\ attempt' = attempt /\ rec' = rec /\ store' = store
        /\ faults' = faults
    BY <1>3, <1>5 DEF ConfirmFollower, Confirm
  <2>4. Turn(f, l, Confirm(1, KeyOf(f, l, f))) /\ chan' \in [Procs -> Seq(Messages)]
    BY <1>3, <2>3, MessageTypes, SentIsTurn DEF IInv
  <2>5. st' \in [Procs -> Standing] /\ st'[f] = "neg" /\ st'[l] = st[l] /\ Only(l, f)
    BY <1>5, <2>3, <2>4 DEF Only, Same, Turn, IInv, TypeOK, Standing
  <2>6. TypeOK'
    BY <2>3, <2>4, <2>5 DEF IInv, TypeOK, Standing
  <2>7. FollowerEnd(l, f)'
    BY <1>3, <2>2, <2>3, <2>5, PairingAssumption DEF FollowerEnd, KeyOf, Derived, NoRecord
  <2>8. LeaderEnd(l, f)'
    BY <2>3, <2>5 DEF LeaderEnd, KeyOf, Derived, NoRecord
  <2>9. Own(l)' /\ Own(f)'
    BY <1>1, <2>3, <2>5 DEF Own, Ended, NoRecord
  <2>10. Mail(l, f)'
    <3>1. CASE chan'[l] = <<>>
      BY <2>4, <3>1 DEF Mail, Turn
    <3>2. CASE up[l] /\ chan'[l] = <<Confirm(1, KeyOf(f, l, f))>>
      <4>1. st'[l] = "confirm"
        BY <1>3, <2>5, <3>2 DEF Own, Ended
      <4>2. MailToLeader(l, f)'
        BY <1>3, <2>3, <2>5, <3>2, <4>1 DEF MailToLeader, Confirm, KeyOf, Derived, NoRecord
      <4> QED
        BY <2>4, <4>2 DEF Mail, Turn
    <3> QED
      BY <2>4, <3>1, <3>2 DEF Turn
  <2>11. Faultless(l, f)'
    BY <1>3, <2>3, <2>4 DEF Faultless, Turn, NoRecord
  <2> QED
    BY <2>5, <2>6, <2>7, <2>8, <2>9, <2>10, <2>11, Frame
<1> QED
  BY <1>4, <1>5 DEF ConfirmFollower

\* The leader's first offer, or any later one: the counters of both ends agree, and the
\* follower has agreed to nothing yet.
LEMMA OfferStep ==
  ASSUME IInv, NEW l \in Leaders, NEW f \in Followers, Ends(l, f), NEW x, chan[l] = <<x>>,
         chan[f] = <<>>, st[f] \in {"neg", "failed"}, rec[f] = NoRecord, code[l] = code[f],
         st[l] \in {"confirm", "neg"}, key[l] = KeyOf(l, l, f),
         NEW n \in Nat, attempt[f] = n, n < MaxAttempts, sealed[l].l2f = n,
         NEW u \in Ulas \ existing[l], chan' = Sent(l, Offered(l, u)),
         rec' = [rec EXCEPT ![l].ula = u], st' = [st EXCEPT ![l] = "neg"],
         sealed' = [sealed EXCEPT ![l] = [l2f |-> n + 1, f2l |-> n]],
         attempt' = [attempt EXCEPT ![l] = n],
         UNCHANGED <<code, existing, partner, up, key, store, faults>>
  PROVE  IInv'
<1> USE DEF Ends
<1> DEFINE m == Sealed(0, KeyOf(l, l, f), n, Offer(l, u))
<1>1. Offered(l, u) = m /\ m \in Messages
  <2>1. Offer(l, u) \in Bodies
    BY DEF Offer, Bodies
  <2>2. m \in Messages
    BY <2>1, MessageTypes DEF IInv
  <2> QED
    BY <2>2 DEF Offered, Sealed, Offer
<1> HIDE DEF m
<1>2. Turn(l, f, m) /\ chan' \in [Procs -> Seq(Messages)]
  BY <1>1, SentIsTurn DEF IInv
<1>3. /\ st'[l] = "neg" /\ st'[f] = st[f] /\ sealed'[l] = [l2f |-> n + 1, f2l |-> n]
      /\ sealed'[f] = sealed[f] /\ attempt'[l] = n /\ attempt'[f] = n
      /\ rec'[l].ula = u /\ rec'[f] = NoRecord
  BY DEF IInv, TypeOK, Records
<1>4. TypeOK'
  <2>1. st' \in [Procs -> Standing] /\ attempt' \in [Procs -> 0 .. MaxAttempts]
    BY PairingAssumption DEF IInv, TypeOK, Standing
  <2>2. [l2f |-> n + 1, f2l |-> n] \in [l2f: 0 .. MaxAttempts, f2l: 0 .. MaxAttempts]
    BY PairingAssumption
  <2>3. sealed' \in [Procs -> [l2f: 0 .. MaxAttempts, f2l: 0 .. MaxAttempts]]
    BY <2>2 DEF IInv, TypeOK
  <2>4. rec' \in [Procs -> Records]
    <3>1. rec[l] \in Records /\ u \in Ulas
      BY DEF IInv, TypeOK
    <3>2. [rec[l] EXCEPT !.ula = u] \in Records
      BY <3>1 DEF Records
    <3>3. rec' = [rec EXCEPT ![l] = [rec[l] EXCEPT !.ula = u]]
      OBVIOUS
    <3> QED
      BY <3>2, <3>3 DEF IInv, TypeOK
  <2> QED
    BY <1>2, <2>1, <2>3, <2>4 DEF IInv, TypeOK, Standing
<1>5. Only(l, f)
  BY <1>2 DEF Only, Same, Turn, IInv, TypeOK
<1>6. LeaderEnd(l, f)'
  BY <1>3 DEF LeaderEnd, KeyOf, Derived, NoRecord
<1>7. FollowerEnd(l, f)'
  BY <1>3 DEF FollowerEnd, KeyOf, Derived, NoRecord
<1>8. Own(l)' /\ Own(f)'
  BY <1>3 DEF Own, Ended, NoRecord
<1>9. Mail(l, f)'
  <2>1. CASE chan'[f] = <<>>
    BY <1>2, <2>1 DEF Mail, Turn
  <2>2. CASE up[f] /\ chan'[f] = <<m>>
    <3>1. st'[f] = "neg"
      BY <1>3, <2>2 DEF Own, Ended
    <3>2. MailToFollower(l, f)'
      BY <1>3, <2>2, <3>1 DEF MailToFollower, m, Sealed, Offer, KeyOf, Derived
    <3> QED
      BY <1>2, <3>2 DEF Mail, Turn
  <2> QED
    BY <1>2, <2>1, <2>2 DEF Turn
<1>10. Faultless(l, f)'
  BY <1>3 DEF Faultless, NoRecord, Ended
<1> QED
  BY <1>4, <1>5, <1>6, <1>7, <1>8, <1>9, <1>10, Frame

\* The leader checks the follower's confirmation, and makes its first offer.
LEMMA ConfirmLeaderStep == ASSUME IInv, NEW l \in Leaders, ConfirmLeader(l) PROVE IInv'
<1>1. st[l] = "confirm" /\ chan[l] # <<>>
  BY DEF ConfirmLeader
<1>2. PICK f \in Followers : Ends(l, f) /\ chan[f] = <<>> /\ MailToLeader(l, f)
  BY <1>1, LeaderReads
<1>3. /\ chan[l] = <<Confirm(1, KeyOf(f, l, f))>> /\ st[f] \in {"neg", "failed"}
      /\ rec[f] = NoRecord /\ attempt[f] = 0
  BY <1>1, <1>2 DEF MailToLeader
<1>4. attempt[l] = 0 /\ sealed[l] = [l2f |-> 0, f2l |-> 0] /\ key[l] = KeyOf(l, l, f)
  BY <1>1, <1>2 DEF Ends, LeaderEnd
<1>5. CASE Fail(l) /\ UNCHANGED <<sealed, rec>>
  <2>1. FailAt(l) /\ attempt' = attempt
    <3>1. faults \in 0 .. MaxFaults /\ faults' = faults
      BY DEF IInv, TypeOK, ConfirmLeader
    <3> QED
      BY <1>1, <1>2, <1>5, <3>1, FailType DEF ConfirmLeader, IInv, Ends
  <2> QED
    BY <1>2, <1>3, <2>1, LeaderFails DEF Ends
<1>6. ASSUME Confirmed(l, Head(chan[l])), NEW u \in Ulas \ existing[l],
             chan' = Sent(l, Offered(l, u)), rec' = [rec EXCEPT ![l].ula = u],
             sealed' = [sealed EXCEPT ![l].l2f = @ + 1], st' = [st EXCEPT ![l] = "neg"],
             UNCHANGED up
      PROVE  IInv'
  <2>1. KeyOf(l, l, f) = KeyOf(f, l, f)
    BY <1>3, <1>4, <1>6, OneMessage DEF Confirmed, Confirm
  <2>2. code[l] = code[f]
    BY <1>2, <2>1, SameKeySameCode DEF IInv, Ends
  <2>3. sealed' = [sealed EXCEPT ![l] = [l2f |-> 0 + 1, f2l |-> 0]]
    <3>1. sealed' = [sealed EXCEPT ![l] = [sealed[l] EXCEPT !.l2f = @ + 1]]
      BY <1>6
    <3>2. [sealed[l] EXCEPT !.l2f = @ + 1] = [l2f |-> 0 + 1, f2l |-> 0]
      BY <1>4
    <3> QED
      BY <3>1, <3>2
  <2>4. attempt' = [attempt EXCEPT ![l] = 0]
    BY <1>2, <1>4 DEF ConfirmLeader, IInv, TypeOK, Ends
  <2>5. UNCHANGED <<code, existing, partner, up, key, store, faults>>
    BY <1>6 DEF ConfirmLeader
  <2>6. 0 \in Nat /\ 0 < MaxAttempts /\ sealed[l].l2f = 0 /\ attempt[f] = 0
    BY <1>3, <1>4, PairingAssumption
  <2>7. PICK x : chan[l] = <<x>>
    BY <1>3, <1>4
  <2>8. Ends(l, f) /\ chan[f] = <<>> /\ st[f] \in {"neg", "failed"} /\ rec[f] = NoRecord
        /\ st[l] \in {"confirm", "neg"} /\ key[l] = KeyOf(l, l, f)
    BY <1>1, <1>2, <1>3, <1>4
  <2> QED
    BY <1>6, <2>2, <2>3, <2>4, <2>5, <2>6, <2>7, <2>8, OfferStep
<1> QED
  BY <1>5, <1>6 DEF ConfirmLeader

\* The follower's answer to an offer.
LEMMA AnswerOfferStep == ASSUME IInv, NEW f \in Followers, AnswerOffer(f) PROVE IInv'
<1>1. st[f] = "neg" /\ chan[f] # <<>>
  BY DEF AnswerOffer
<1>2. PICK l \in Leaders : Ends(l, f) /\ chan[l] = <<>> /\ MailToFollower(l, f)
  BY <1>1, FollowerReads
<1> USE DEF Ends
<1> DEFINE n == attempt[f]
           offer == Offer(l, rec[l].ula)
<1>3. /\ chan[f] = <<Sealed(0, KeyOf(l, l, f), n, offer)>>
      /\ st[l] \in {"neg", "failed"} /\ attempt[l] = n
      /\ rec[l].ula \in Ulas \ existing[l]
  BY <1>1, <1>2 DEF MailToFollower
<1>4. /\ n \in Nat /\ n < MaxAttempts /\ sealed[f] = [l2f |-> n, f2l |-> n] /\ rec[f] = NoRecord
      /\ code[f] = code[l] /\ key[f] = KeyOf(f, l, f)
  BY <1>1, <1>2 DEF FollowerEnd, IInv, TypeOK
<1>5. Head(chan[f]).body = offer
  BY <1>3, OneMessage DEF Sealed
<1>6. /\ attempt' = [attempt EXCEPT ![f] = n + 1]
      /\ code' = code /\ existing' = existing /\ partner' = partner /\ key' = key
      /\ store' = store /\ faults' = faults
  BY DEF AnswerOffer
<1>7. ASSUME NEW body \in Bodies, chan' = Sent(f, Replied(f, body)),
             sealed' = [sealed EXCEPT ![f] = Counted(f, body)]
      PROVE  /\ Turn(f, l, Sealed(1, KeyOf(f, l, f), n, body))
             /\ chan' \in [Procs -> Seq(Messages)]
             /\ sealed'[f] = [l2f |-> n + 1, f2l |-> n + 1] /\ sealed'[l] = sealed[l]
             /\ attempt'[f] = n + 1 /\ attempt'[l] = n
             /\ sealed' \in [Procs -> [l2f: 0 .. MaxAttempts, f2l: 0 .. MaxAttempts]]
             /\ attempt' \in [Procs -> 0 .. MaxAttempts]
             /\ \A q \in Procs : q # f => sealed'[q] = sealed[q] /\ attempt'[q] = attempt[q]
  <2>1. Replied(f, body) = Sealed(1, KeyOf(f, l, f), n, body)
    BY <1>4 DEF Replied, Sealed
  <2>2. Sealed(1, KeyOf(f, l, f), n, body) \in Messages
    BY <1>2, <1>4, MessageTypes DEF IInv
  <2>3. /\ Turn(f, l, Sealed(1, KeyOf(f, l, f), n, body))
        /\ chan' \in [Procs -> Seq(Messages)]
    BY <1>2, <1>3, <1>7, <2>1, <2>2, SentIsTurn DEF IInv
  <2>4. Counted(f, body) = [l2f |-> n + 1, f2l |-> n + 1]
    BY <1>4 DEF Counted
  <2>5. n + 1 \in 0 .. MaxAttempts
    BY <1>4, PairingAssumption
  <2> HIDE DEF n
  <2>6. [l2f |-> n + 1, f2l |-> n + 1] \in [l2f: 0 .. MaxAttempts, f2l: 0 .. MaxAttempts]
    BY <2>5
  <2>7. /\ sealed' \in [Procs -> [l2f: 0 .. MaxAttempts, f2l: 0 .. MaxAttempts]]
        /\ sealed'[f] = [l2f |-> n + 1, f2l |-> n + 1]
        /\ \A q \in Procs : q # f => sealed'[q] = sealed[q]
    BY <1>2, <1>7, <2>4, <2>6 DEF IInv, TypeOK
  <2>8. /\ attempt' \in [Procs -> 0 .. MaxAttempts] /\ attempt'[f] = n + 1
        /\ \A q \in Procs : q # f => attempt'[q] = attempt[q]
    BY <1>2, <1>6, <2>5 DEF IInv, TypeOK
  <2> QED
    BY <1>2, <1>3, <2>3, <2>7, <2>8
<1>8. ASSUME NEW u \in Ulas, chan' = Sent(f, Replied(f, Rejection(u))),
             sealed' = [sealed EXCEPT ![f] = Counted(f, Rejection(u))],
             st' = [st EXCEPT ![f] = IF MoreOffers(f) THEN "neg" ELSE "failed"],
             up' = [up EXCEPT ![f] = MoreOffers(f)],
             rec' = rec
      PROVE  IInv'
  <2>1. Rejection(u) \in Bodies
    BY DEF Rejection, Bodies
  <2>2. /\ Turn(f, l, Sealed(1, KeyOf(f, l, f), n, Rejection(u)))
        /\ chan' \in [Procs -> Seq(Messages)]
        /\ sealed'[f] = [l2f |-> n + 1, f2l |-> n + 1] /\ sealed'[l] = sealed[l]
        /\ attempt'[f] = n + 1 /\ attempt'[l] = n
        /\ sealed' \in [Procs -> [l2f: 0 .. MaxAttempts, f2l: 0 .. MaxAttempts]]
        /\ attempt' \in [Procs -> 0 .. MaxAttempts]
        /\ \A q \in Procs : q # f => sealed'[q] = sealed[q] /\ attempt'[q] = attempt[q]
    BY <1>7, <1>8, <2>1
  <2>3. /\ MoreOffers(f) \in BOOLEAN
        /\ MoreOffers(f) => n + 1 < MaxAttempts
    BY DEF MoreOffers
  <2> HIDE DEF n
  <2>4. st' \in [Procs -> Standing] /\ up' \in [Procs -> BOOLEAN]
    BY <1>8, <2>3 DEF IInv, TypeOK, Standing
  <2>5. TypeOK'
    BY <1>6, <1>8, <2>2, <2>4 DEF IInv, TypeOK, Standing
  <2>6. /\ st'[f] = IF MoreOffers(f) THEN "neg" ELSE "failed"
        /\ up'[f] = MoreOffers(f) /\ st'[l] = st[l] /\ up'[l] = up[l]
        /\ \A q \in Procs : q # f => st'[q] = st[q] /\ up'[q] = up[q]
    BY <1>2, <1>8 DEF IInv, TypeOK
  <2>7. Only(l, f)
    BY <1>6, <1>8, <2>2, <2>6 DEF Only, Same, Turn
  <2>8. LeaderEnd(l, f)'
    BY <1>2, <1>3, <1>4, <1>6, <1>8, <2>2, <2>6 DEF LeaderEnd, KeyOf, Derived, NoRecord
  <2>9. FollowerEnd(l, f)'
    BY <1>4, <1>6, <1>8, <2>2, <2>3, <2>6 DEF FollowerEnd, KeyOf, Derived, NoRecord
  <2>10. Own(l)' /\ Own(f)'
    BY <1>1, <1>2, <1>6, <1>8, <2>6 DEF Own, Ended, NoRecord
  <2>11. Mail(l, f)'
    <3>1. CASE chan'[l] = <<>>
      BY <2>2, <3>1 DEF Mail, Turn
    <3>2. CASE up[l] /\ chan'[l] = <<Sealed(1, KeyOf(f, l, f), n, Rejection(u))>>
      <4>1. st'[l] = "neg" /\ st'[f] \in {"neg", "failed"}
        BY <1>2, <1>3, <2>6, <3>2 DEF Own, Ended
      <4>2. MailToLeader(l, f)'
        <5>1. rec'[f] = NoRecord /\ attempt'[f] = attempt'[l] + 1 /\ attempt'[l] = n
          BY <1>4, <1>8, <2>2
        <5>2. KeyOf(f, l, f)' = KeyOf(f, l, f)
          BY <1>6 DEF KeyOf, Derived
        <5>3. chan'[l] = <<Sealed(1, KeyOf(f, l, f)', attempt'[l], Rejection(u))>>
          BY <3>2, <5>1, <5>2
        <5>4. \E v \in Ulas : chan'[l] = <<Sealed(1, KeyOf(f, l, f)', attempt'[l], Rejection(v))>>
          BY <1>8, <5>3
        <5> QED
          BY <4>1, <5>1, <5>4 DEF MailToLeader, Sealed, Rejection, NoRecord
      <4> QED
        BY <2>2, <4>2 DEF Mail, Turn
    <3> QED
      BY <2>2, <3>1, <3>2 DEF Turn
  <2>12. Faultless(l, f)'
    BY <1>4, <1>8, <2>2 DEF Faultless, Turn, NoRecord
  <2> QED
    BY <1>2, <2>5, <2>7, <2>8, <2>9, <2>10, <2>11, <2>12, Frame
<1>9. ASSUME ~ Collides(f, rec[l].ula), chan' = Sent(f, Replied(f, Acceptance(f))),
             sealed' = [sealed EXCEPT ![f] = Counted(f, Acceptance(f))],
             st' = [st EXCEPT ![f] = "prompt"], up' = up,
             rec' = [rec EXCEPT ![f] = Agreed(f, offer)]
      PROVE  IInv'
  <2>1. Acceptance(f) \in Bodies
    BY DEF Acceptance, Bodies
  <2>2. /\ Turn(f, l, Sealed(1, KeyOf(f, l, f), n, Acceptance(f)))
        /\ chan' \in [Procs -> Seq(Messages)]
        /\ sealed'[f] = [l2f |-> n + 1, f2l |-> n + 1] /\ sealed'[l] = sealed[l]
        /\ attempt'[f] = n + 1 /\ attempt'[l] = n
        /\ sealed' \in [Procs -> [l2f: 0 .. MaxAttempts, f2l: 0 .. MaxAttempts]]
        /\ attempt' \in [Procs -> 0 .. MaxAttempts]
        /\ \A q \in Procs : q # f => sealed'[q] = sealed[q] /\ attempt'[q] = attempt[q]
    BY <1>7, <1>9, <2>1
  <2> HIDE DEF n
  <2>3. /\ Agreed(f, offer) = [uid |-> l, side |-> 1, ula |-> rec[l].ula, own |-> f, peer |-> l]
        /\ rec[l].ula \in Ulas \ existing[f]
    BY <1>3, <1>9 DEF Agreed, Offer, Collides
  <2>4. Agreed(f, offer) \in Records
    BY <1>2, <2>3 DEF Records
  <2>5. Agreed(f, offer) # NoRecord
    <3>1. Agreed(f, offer).side = 1 /\ NoRecord.side = 0
      BY <2>3 DEF NoRecord
    <3> QED
      BY <3>1
  <2>6. /\ st' \in [Procs -> Standing] /\ rec' \in [Procs -> Records]
        /\ st'[f] = "prompt" /\ st'[l] = st[l]
        /\ rec'[f] = Agreed(f, offer) /\ rec'[l] = rec[l]
        /\ \A q \in Procs : q # f => st'[q] = st[q] /\ rec'[q] = rec[q]
    BY <1>2, <1>9, <2>4 DEF IInv, TypeOK, Standing
  <2>7. TypeOK'
    BY <1>6, <1>9, <2>2, <2>6 DEF IInv, TypeOK, Standing
  <2>8. Only(l, f)
    BY <1>6, <1>9, <2>2, <2>6 DEF Only, Same, Turn
  <2>9. LeaderEnd(l, f)'
    BY <1>2, <1>3, <1>4, <1>6, <2>2, <2>6 DEF LeaderEnd, KeyOf, Derived
  <2>10. FollowerEnd(l, f)'
    <3>1. rec'[f] # NoRecord'
      BY <2>5, <2>6 DEF NoRecord
    <3>2. rec'[f] = [uid |-> l, side |-> 1, ula |-> rec'[l].ula, own |-> f, peer |-> l]
      BY <2>3, <2>6
    <3> QED
      BY <1>4, <1>6, <2>3, <2>6, <3>1, <3>2 DEF FollowerEnd, KeyOf, Derived
  <2>11. Own(l)' /\ Own(f)'
    BY <1>1, <1>2, <1>6, <1>9, <2>6 DEF Own, Ended, NoRecord
  <2>12. Mail(l, f)'
    <3>1. CASE chan'[l] = <<>>
      BY <2>2, <3>1 DEF Mail, Turn
    <3>2. CASE up[l] /\ chan'[l] = <<Sealed(1, KeyOf(f, l, f), n, Acceptance(f))>>
      <4>1. st'[l] = "neg"
        BY <1>2, <1>3, <2>6, <3>2 DEF Own, Ended
      <4>2. MailToLeader(l, f)'
        BY <1>4, <1>6, <2>2, <2>5, <2>6, <3>2, <4>1
           DEF MailToLeader, Sealed, Acceptance, KeyOf, Derived, NoRecord
      <4> QED
        BY <2>2, <4>2 DEF Mail, Turn
    <3> QED
      BY <2>2, <3>1, <3>2 DEF Turn
  <2>13. Faultless(l, f)'
    <3> SUFFICES ASSUME faults = MaxFaults PROVE chan'[l] # <<>>
      BY <1>6, <2>2 DEF Faultless, Turn
    <3>1. up[l]
      BY <1>1, <1>2, <1>3 DEF Faultless, Own
    <3> QED
      BY <2>2, <3>1, OneMessage DEF Turn
  <2> QED
    BY <1>2, <2>7, <2>8, <2>9, <2>10, <2>11, <2>12, <2>13, Frame
<1>10. offer.ula = rec[l].ula
  BY DEF Offer
<1> HIDE DEF n, offer
<1> QED
  BY <1>5, <1>8, <1>9, <1>10 DEF AnswerOffer, Rejection, Acceptance

\* The leader's turn: it takes an acceptance, makes another offer, or has no round left.
LEMMA TakeReplyStep == ASSUME IInv, NEW l \in Leaders, TakeReply(l) PROVE IInv'
<1>1. st[l] = "neg" /\ chan[l] # <<>>
  BY DEF TakeReply
<1>2. PICK f \in Followers : Ends(l, f) /\ chan[f] = <<>> /\ MailToLeader(l, f)
  BY <1>1, LeaderReads
<1> USE DEF Ends
<1> DEFINE n == attempt[l]
           m == Head(chan[l])
<1>3. /\ n \in Nat /\ n < MaxAttempts /\ sealed[l] = [l2f |-> n + 1, f2l |-> n]
      /\ rec[l].ula \in Ulas \ existing[l] /\ code[l] = code[f] /\ key[l] = KeyOf(l, l, f)
      /\ attempt[f] = n + 1
  BY <1>1, <1>2 DEF LeaderEnd, MailToLeader, IInv, TypeOK
<1>4. /\ n + 1 \in 0 .. MaxAttempts
      /\ attempt' = [attempt EXCEPT ![l] = n + 1]
      /\ attempt' \in [Procs -> 0 .. MaxAttempts] /\ attempt'[l] = n + 1
      /\ \A q \in Procs : q # l => attempt'[q] = attempt[q]
  <2>1. n + 1 \in 0 .. MaxAttempts /\ attempt' = [attempt EXCEPT ![l] = n + 1]
    BY <1>3, PairingAssumption DEF TakeReply
  <2> HIDE DEF n
  <2> QED
    BY <1>2, <2>1 DEF IInv, TypeOK
<1>5. /\ code' = code /\ existing' = existing /\ partner' = partner /\ key' = key
      /\ store' = store /\ faults' = faults
  BY DEF TakeReply
<1>6. \/ /\ st[f] \in {"neg", "failed"} /\ rec[f] = NoRecord /\ m.body.kind = "reject"
         /\ \E x : chan[l] = <<x>>
      \/ /\ st[f] \in {"prompt", "paired", "failed"} /\ rec[f] # NoRecord
         /\ m.body.kind = "accept" /\ m.body.pub = f /\ \E x : chan[l] = <<x>>
  <2>1. CASE /\ st[f] \in {"neg", "failed"} /\ rec[f] = NoRecord
             /\ \E u \in Ulas : chan[l] = <<Sealed(1, KeyOf(f, l, f), n, Rejection(u))>>
    <3>1. PICK u \in Ulas : chan[l] = <<Sealed(1, KeyOf(f, l, f), n, Rejection(u))>>
      BY <2>1
    <3>2. m.body.kind = "reject"
      BY <3>1, OneMessage DEF Sealed, Rejection
    <3> QED
      BY <2>1, <3>1, <3>2
  <2>2. CASE /\ st[f] \in {"prompt", "paired", "failed"} /\ rec[f] # NoRecord
             /\ chan[l] = <<Sealed(1, KeyOf(f, l, f), n, Acceptance(f))>>
    <3>1. m.body.kind = "accept" /\ m.body.pub = f
      BY <2>2, OneMessage DEF Sealed, Acceptance
    <3> QED
      BY <2>2, <3>1
  <2> QED
    BY <1>1, <1>2, <2>1, <2>2 DEF MailToLeader
<1>7. CASE /\ m.body.kind = "accept"
           /\ rec' = [rec EXCEPT ![l] = [uid |-> l, side |-> 0, ula |-> @.ula, own |-> l,
                                         peer |-> m.body.pub]]
           /\ chan' = [chan EXCEPT ![l] = Tail(@)]
           /\ sealed' = [sealed EXCEPT ![l].f2l = @ + 1]
           /\ st' = [st EXCEPT ![l] = "prompt"]
           /\ UNCHANGED up
  <2> DEFINE r == [uid |-> l, side |-> 0, ula |-> rec[l].ula, own |-> l, peer |-> f]
  <2>1. /\ st[f] \in {"prompt", "paired", "failed"} /\ rec[f] # NoRecord /\ m.body.pub = f
        /\ Tail(chan[l]) = <<>>
    BY <1>6, <1>7, OneMessage
  <2>2. rec[f] = [uid |-> l, side |-> 1, ula |-> rec[l].ula, own |-> f, peer |-> l]
    BY <1>2, <2>1 DEF FollowerEnd
  <2>3. rec' = [rec EXCEPT ![l] = r] /\ r \in Records
    BY <1>2, <1>3, <1>7, <2>1 DEF Records
  <2>4. r.ula = rec[l].ula /\ rec[f].ula = rec[l].ula /\ r.peer = f
    BY <2>2
  <2> HIDE DEF r
  <2>5. /\ rec' \in [Procs -> Records] /\ rec'[l] = r /\ rec'[f] = rec[f]
        /\ \A q \in Procs : q # l => rec'[q] = rec[q]
    BY <1>2, <2>3 DEF IInv, TypeOK
  <2>6. /\ st' \in [Procs -> Standing] /\ st'[l] = "prompt" /\ st'[f] = st[f]
        /\ \A q \in Procs : q # l => st'[q] = st[q]
    BY <1>2, <1>7 DEF IInv, TypeOK, Standing
  <2>7. /\ chan' \in [Procs -> Seq(Messages)] /\ chan'[l] = <<>> /\ chan'[f] = <<>>
        /\ \A q \in Procs : q # l => chan'[q] = chan[q]
    <3>1. chan' = [chan EXCEPT ![l] = <<>>]
      BY <1>7, <2>1
    <3>2. chan \in [Procs -> Seq(Messages)] /\ l \in Procs /\ f \in Procs /\ l # f /\ chan[f] = <<>>
      BY <1>2 DEF IInv, TypeOK
    <3>3. <<>> \in Seq(Messages)
      BY EmptySeq
    <3> QED
      BY <3>1, <3>2, <3>3
  <2>8. /\ sealed' \in [Procs -> [l2f: 0 .. MaxAttempts, f2l: 0 .. MaxAttempts]]
        /\ \A q \in Procs : q # l => sealed'[q] = sealed[q]
    <3>1. sealed' = [sealed EXCEPT ![l] = [sealed[l] EXCEPT !.f2l = @ + 1]]
      BY <1>7
    <3>2. [sealed[l] EXCEPT !.f2l = @ + 1] = [l2f |-> n + 1, f2l |-> n + 1]
      BY <1>3
    <3> HIDE DEF n
    <3>3. [l2f |-> n + 1, f2l |-> n + 1] \in [l2f: 0 .. MaxAttempts, f2l: 0 .. MaxAttempts]
      BY <1>4
    <3> QED
      BY <1>2, <3>1, <3>2, <3>3 DEF IInv, TypeOK
  <2>9. TypeOK'
    BY <1>4, <1>5, <1>7, <2>5, <2>6, <2>7, <2>8 DEF IInv, TypeOK, Standing
  <2>10. Only(l, f)
    BY <1>4, <1>5, <1>7, <2>5, <2>6, <2>7, <2>8 DEF Only, Same
  <2>11. LeaderEnd(l, f)'
    <3>1. rec'[l] = [uid |-> l, side |-> 0, ula |-> rec'[f].ula, own |-> l, peer |-> f]
      BY <2>4, <2>5 DEF r
    <3>2. rec'[l].ula \in Ulas \ existing[l] /\ rec'[f] # NoRecord
      BY <1>3, <2>1, <2>4, <2>5
    <3> QED
      BY <1>3, <1>5, <2>6, <3>1, <3>2 DEF LeaderEnd, KeyOf, Derived, NoRecord
  <2>12. FollowerEnd(l, f)'
    <3>1. /\ rec'[f] = rec[f] /\ rec'[l].ula = rec[l].ula /\ attempt'[f] = attempt[f]
          /\ sealed'[f] = sealed[f] /\ st'[f] = st[f] /\ key'[f] = key[f]
      BY <1>2, <1>4, <1>5, <2>4, <2>5, <2>6, <2>8
    <3> QED
      BY <1>2, <1>5, <3>1 DEF FollowerEnd, KeyOf, Derived, NoRecord
  <2>13. Own(l)' /\ Own(f)'
    BY <1>1, <1>2, <1>5, <1>7, <2>5, <2>6 DEF Own, Ended, NoRecord
  <2>14. Mail(l, f)'
    BY <2>7 DEF Mail
  <2>15. Faultless(l, f)'
    BY <2>4, <2>5, <2>7 DEF Faultless
  <2> QED
    BY <1>2, <2>9, <2>10, <2>11, <2>12, <2>13, <2>14, <2>15, Frame
<1>8. ASSUME m.body.kind = "reject", MoreOffers(l),
             NEW u \in Ulas \ (existing[l] \cup {m.body.counter}),
             chan' = Sent(l, Offered(l, u)), rec' = Renewed(l, u),
             sealed' = [sealed EXCEPT ![l] = [l2f |-> @.l2f + 1, f2l |-> @.f2l + 1]],
             UNCHANGED <<st, up>>
      PROVE  IInv'
  <2>1. st[f] \in {"neg", "failed"} /\ rec[f] = NoRecord
    BY <1>6, <1>8
  <2>2. PICK x : chan[l] = <<x>>
    BY <1>6
  <2>3. PICK k \in Nat : k = n + 1
    BY <1>3
  <2>4. /\ k < MaxAttempts /\ sealed[l].l2f = k /\ attempt[f] = k
        /\ attempt' = [attempt EXCEPT ![l] = k]
        /\ sealed' = [sealed EXCEPT ![l] = [l2f |-> k + 1, f2l |-> k]]
    BY <1>3, <1>4, <1>8, <2>3 DEF MoreOffers
  <2>5. st' = [st EXCEPT ![l] = "neg"]
    BY <1>1, <1>2, <1>8 DEF IInv, TypeOK
  <2>6. /\ rec' = [rec EXCEPT ![l].ula = u] /\ u \in Ulas \ existing[l]
        /\ UNCHANGED <<code, existing, partner, up, key, store, faults>>
    BY <1>5, <1>8 DEF Renewed
  <2> HIDE DEF n, m, Ends
  <2> QED
    BY <1>1, <1>2, <1>3, <1>8, <2>1, <2>2, <2>4, <2>5, <2>6, OfferStep
<1>9. CASE /\ m.body.kind = "reject" /\ ~ MoreOffers(l)
           /\ sealed' = [sealed EXCEPT ![l].f2l = @ + 1]
           /\ Fail(l)
           /\ UNCHANGED rec
  <2>1. rec[f] = NoRecord
    BY <1>6, <1>9
  <2>2. /\ sealed' \in [Procs -> [l2f: 0 .. MaxAttempts, f2l: 0 .. MaxAttempts]]
        /\ \A q \in Procs : q # l => sealed'[q] = sealed[q]
    <3>1. sealed' = [sealed EXCEPT ![l] = [sealed[l] EXCEPT !.f2l = @ + 1]]
      BY <1>9
    <3>2. [sealed[l] EXCEPT !.f2l = @ + 1] = [l2f |-> n + 1, f2l |-> n + 1]
      BY <1>3
    <3> HIDE DEF n
    <3>3. [l2f |-> n + 1, f2l |-> n + 1] \in [l2f: 0 .. MaxAttempts, f2l: 0 .. MaxAttempts]
      BY <1>4
    <3> QED
      BY <1>2, <3>1, <3>2, <3>3 DEF IInv, TypeOK
  <2>3. /\ st' \in [Procs -> Standing] /\ up' \in [Procs -> BOOLEAN]
        /\ chan' \in [Procs -> Seq(Messages)]
    BY <1>9, EmptySeq DEF Fail, IInv, TypeOK, Standing
  <2>4. TypeOK'
    BY <1>4, <1>5, <1>9, <2>2, <2>3 DEF IInv, TypeOK, Standing
  <2>5. FailAt(l)
    BY <1>1, <1>4, <1>5, <1>9, <2>2, <2>4 DEF FailAt
  <2> QED
    BY <1>2, <2>1, <2>5, LeaderFails
<1> HIDE DEF n, m
<1> QED
  BY <1>7, <1>8, <1>9 DEF TakeReply, m

-----------------------------------------------------------------------------
LEMMA NextHolds == IInv /\ [Next]_vars => IInv'
<1> SUFFICES ASSUME IInv, [Next]_vars PROVE IInv'
  OBVIOUS
<1>1. CASE UNCHANGED vars
  <2>1. \A p \in Procs : Same(p) /\ Own(p)
    BY <1>1 DEF vars, Same, IInv
  <2>2. /\ code' = code /\ existing' = existing /\ partner' = partner
        /\ faults' = faults
    BY <1>1 DEF vars
  <2>3. \A p \in Procs : Own(p)'
    BY <2>1, <2>2, SameOwn
  <2>4. ASSUME NEW l \in Leaders, partner[l] # None PROVE Connection(l, partner[l])'
    <3>1. partner[l] \in Followers /\ Connection(l, partner[l])
      BY <2>4, LeaderLinked
    <3>2. \A f \in Followers : f = partner[l] => Connection(l, f)'
      BY <2>1, <2>2, <3>1, SameConnection DEF Procs
    <3> QED
      BY <2>2, <3>1, <3>2
  <2>5. TypeOK'
    BY <1>1 DEF vars, IInv, TypeOK
  <2> QED
    BY <2>2, <2>3, <2>4, <2>5 DEF IInv
<1>2. ASSUME NEW f \in Followers, NEW l \in Leaders, Join(f, l) PROVE IInv'
  BY <1>2, JoinStep
<1>3. ASSUME NEW p \in Procs, GiveUp(p) PROVE IInv'
  BY <1>3, GiveUpStep
<1>4. ASSUME NEW p \in Procs, Exchange(p) PROVE IInv'
  BY <1>4, SpakeFollowerStep, ConfirmFollowerStep, AnswerOfferStep, SpakeLeaderStep,
     ConfirmLeaderStep, TakeReplyStep, AcceptStep, DeclineStep, RecvFailsStep DEF Exchange
<1>5. ASSUME NEW p \in Procs, Timeout(p) PROVE IInv'
  BY <1>5, TimeoutStep
<1>6. ASSUME NEW p \in Procs, Break(p) PROVE IInv'
  BY <1>6, BreakStep
<1> QED
  BY <1>1, <1>2, <1>3, <1>4, <1>5, <1>6 DEF Next, AllEnded

\* The exchange as a whole never leaves the invariant above, for any number of leaders and
\* followers that share rendezvous ids, any codes and any number of rounds.
LEMMA Invariant == Spec => []IInv
  BY InitHolds, NextHolds, PTL DEF Spec

\* Key confirmation (mac_eq on the transcripts) keeps apart all whose codes differ: a record
\* is stored only for a peer whose user had the same code, id and password.
THEOREM PairsOnlySameCode == Spec => []OnlySameCode
<1>1. Spec => []IInv
  BY Invariant
<1> QED
  BY <1>1, IInvOnlySameCode, PTL

\* The two records of a pairing fit, and a leader stores only what its follower agreed to,
\* although offers are rejected and made again and either end may leave at any point.
THEOREM StoredRecordsFit == Spec => []RecordsFit
<1>1. Spec => []IInv
  BY Invariant
<1> QED
  BY <1>1, IInvRecordsFit, PTL

\* The negotiation is sound: its types hold, no sealed message meets another counter than its
\* own, the network is free in both stores, and without a fault both ends agree on the outcome.
THEOREM ExchangeCorrect == Spec => []ExchangeInv
<1>1. Spec => []IInv
  BY Invariant
<1> QED
  BY <1>1, IInvExchange, PTL
=============================================================================
