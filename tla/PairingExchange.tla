-------------------------- MODULE PairingExchange --------------------------
(***************************************************************************)
(* `spl pair` (peer/pairing.cpp): the rendezvous of a leader with a        *)
(* follower, by the server or on the LAN, and the exchange that follows on *)
(* the connection: SPAKE2 messages, key confirmation, the sealed offer and *)
(* reply until both agree on an address, the user's decision, the record.  *)
(*                                                                         *)
(* Secrets are symbolic.  A process stands for its SPAKE2 message, its key *)
(* pair and, a leader, its uid; the key two sides derive is the password   *)
(* and the transcript, so it is equal where both are.                      *)
(***************************************************************************)
EXTENDS Naturals, Sequences, FiniteSets

CONSTANTS
  Leaders, Followers,   \* processes, each with a store of its own
  Ids, Passwords,       \* the two halves of a code
  Ulas,                 \* networks an address may be taken from
  None,
  MaxAttempts,          \* offers of one exchange (10 in the code)
  MaxFaults             \* broken connections and timeouts

Procs == Leaders \cup Followers

ASSUME PairingAssumption ==
  /\ Leaders \cap Followers = {}
  /\ None \notin Procs \cup Ulas
  /\ MaxAttempts \in Nat \ {0}
  /\ MaxFaults \in Nat

VARIABLES
  code,       \* what a leader shows and a follower's user types
  existing,   \* the networks in each store when the exchange starts
  st,         \* what a process does
  partner,    \* the other end of its connection
  up,         \* is its end of the connection usable
  chan,       \* messages underway to a process
  key,        \* [pw, transcript] once it has both SPAKE2 messages
  sealed,     \* n_l2f and n_f2l as this process counts them
  attempt,    \* offers it has sent or answered
  rec,        \* what it agreed to
  store,      \* the record it saved
  faults

vars == <<code, existing, st, partner, up, chan, key, sealed, attempt, rec, store, faults>>

\* What pair generates or the user types.
Codes == [id: Ids, pw: Passwords]
NoRecord == [uid |-> None, side |-> 0, ula |-> None, own |-> None, peer |-> None]
Keys == [pw: Passwords, leader: Leaders, follower: Followers]
Bodies == [kind: {"offer"}, ula: Ulas, uid: Leaders, pub: Leaders]
          \cup [kind: {"accept"}, pub: Followers]
          \cup [kind: {"reject"}, counter: Ulas]
Messages == [type: {"spake"}, from: Procs]
            \cup [type: {"confirm"}, side: {0, 1}, key: Keys]
            \cup [type: {"sealed"}, side: {0, 1}, key: Keys, nonce: Nat, body: Bodies]
Records == [uid: Leaders \cup {None}, side: {0, 1}, ula: Ulas \cup {None},
            own: Procs \cup {None}, peer: Procs \cup {None}]

TypeOK ==
  /\ code \in [Procs -> Codes]
  /\ existing \in [Procs -> SUBSET Ulas]
  /\ st \in [Procs -> {"waiting", "joined", "spake", "confirm", "neg", "prompt", "paired", "failed"}]
  /\ partner \in [Procs -> Procs \cup {None}]
  /\ up \in [Procs -> BOOLEAN]
  /\ chan \in [Procs -> Seq(Messages)]
  /\ key \in [Procs -> Keys \cup {None}]
  /\ sealed \in [Procs -> [l2f: 0 .. MaxAttempts, f2l: 0 .. MaxAttempts]]
  /\ attempt \in [Procs -> 0 .. MaxAttempts]
  /\ rec \in [Procs -> Records]
  /\ store \in [Procs -> Records]
  /\ faults \in 0 .. MaxFaults

Side(p) == IF p \in Leaders THEN 0 ELSE 1
Ended(p) == st[p] \in {"paired", "failed"}

\* A message reaches the other end unless the connection is gone.
Sent(p, m) == IF up[partner[p]] THEN [chan EXCEPT ![p] = Tail(@), ![partner[p]] = Append(@, m)]
              ELSE [chan EXCEPT ![p] = Tail(@)]

\* The process ends and closes its connection; what it sent still arrives.
Fail(p) ==
  /\ st' = [st EXCEPT ![p] = "failed"]
  /\ up' = [up EXCEPT ![p] = FALSE]
  /\ chan' = [chan EXCEPT ![p] = <<>>]

-----------------------------------------------------------------------------
Init ==
  /\ code \in [Procs -> Codes]
  /\ existing \in [Procs -> {s \in SUBSET Ulas : Cardinality(s) < 2}]
  /\ st = [p \in Procs |-> "waiting"]
  /\ partner = [p \in Procs |-> None]
  /\ up = [p \in Procs |-> TRUE]
  /\ chan = [p \in Procs |-> <<>>]
  /\ key = [p \in Procs |-> None]
  /\ sealed = [p \in Procs |-> [l2f |-> 0, f2l |-> 0]]
  /\ attempt = [p \in Procs |-> 0]
  /\ rec = [p \in Procs |-> NoRecord]
  /\ store = [p \in Procs |-> NoRecord]
  /\ faults = MaxFaults

(* The rendezvous *)

\* The server, or a leader that hears the query on the LAN, compares the id alone.
Meets(f, l) == code[f].id = code[l].id

\* The code names a leader that waits: both get PAIRED, and the leader's exchange starts with
\* its SPAKE2 message.
Join(f, l) ==
  /\ st[f] = "waiting" /\ st[l] = "waiting"
  /\ Meets(f, l)
  /\ st' = [st EXCEPT ![f] = "joined", ![l] = "spake"]
  /\ partner' = [partner EXCEPT ![f] = l, ![l] = f]
  /\ chan' = [chan EXCEPT ![f] = <<[type |-> "spake", from |-> l]>>]
  /\ UNCHANGED <<code, existing, up, key, sealed, attempt, rec, store, faults>>

\* Mutant: a leader waits for ever.
GiveUpFollower(p) ==
  /\ p \in Followers
  /\ st[p] = "waiting"
  /\ Fail(p)
  /\ UNCHANGED <<code, existing, partner, key, sealed, attempt, rec, store, faults>>

\* No leader has this id, or nobody answers in time: the follower gives up.  A leader's code
\* expires likewise.
GiveUp(p) ==
  /\ st[p] = "waiting"
  /\ Fail(p)
  /\ UNCHANGED <<code, existing, partner, key, sealed, attempt, rec, store, faults>>

(* SPAKE2 *)

\* Mutant: the password is not an input of the key.
DerivedFromMessages(pw, l, f) ==
  [pw |-> CHOOSE w \in Passwords : TRUE, leader |-> l, follower |-> f]

\* The key is derived from the password and both messages.
Derived(pw, l, f) == [pw |-> pw, leader |-> l, follower |-> f]

\* The follower answers the leader's message.
SpakeFollower(f) ==
  LET m == Head(chan[f])
  IN /\ st[f] = "joined" /\ chan[f] # <<>> /\ m.type = "spake"
     /\ key' = [key EXCEPT ![f] = Derived(code[f].pw, m.from, f)]
     /\ chan' = Sent(f, [type |-> "spake", from |-> f])
     /\ st' = [st EXCEPT ![f] = "confirm"]
     /\ UNCHANGED <<code, existing, partner, up, sealed, attempt, rec, store, faults>>

SpakeLeader(l) ==
  LET m == Head(chan[l])
      k == Derived(code[l].pw, l, m.from)
  IN /\ st[l] = "spake" /\ chan[l] # <<>> /\ m.type = "spake"
     /\ key' = [key EXCEPT ![l] = k]
     /\ chan' = Sent(l, [type |-> "confirm", side |-> 0, key |-> k])
     /\ st' = [st EXCEPT ![l] = "confirm"]
     /\ UNCHANGED <<code, existing, partner, up, sealed, attempt, rec, store, faults>>

(* Key confirmation *)

\* The other side's MAC over the transcript.
Confirmed(p, m) == m.side = 1 - Side(p) /\ m.key = key[p]

ConfirmFollower(f) ==
  LET m == Head(chan[f])
  IN /\ st[f] = "confirm" /\ chan[f] # <<>> /\ m.type = "confirm"
     /\ \/ /\ ~Confirmed(f, m)
           /\ Fail(f)
        \/ /\ Confirmed(f, m)
           /\ chan' = Sent(f, [type |-> "confirm", side |-> 1, key |-> key[f]])
           /\ st' = [st EXCEPT ![f] = "neg"]
           /\ UNCHANGED up
     /\ UNCHANGED <<code, existing, partner, key, sealed, attempt, rec, store, faults>>

\* seal_l2f of an offer with this network.
Offered(l, ula) ==
  [type |-> "sealed", side |-> 0, key |-> key[l], nonce |-> sealed[l].l2f,
   body |-> [kind |-> "offer", ula |-> ula, uid |-> l, pub |-> l]]

\* The leader's check, and its first offer with a network it does not use yet.
ConfirmLeader(l) ==
  LET m == Head(chan[l])
  IN /\ st[l] = "confirm" /\ chan[l] # <<>> /\ m.type = "confirm"
     /\ \/ /\ ~Confirmed(l, m)
           /\ Fail(l)
           /\ UNCHANGED <<sealed, rec>>
        \/ /\ Confirmed(l, m)
           /\ \E ula \in Ulas \ existing[l] :
                /\ chan' = Sent(l, Offered(l, ula))
                /\ rec' = [rec EXCEPT ![l].ula = ula]
           /\ sealed' = [sealed EXCEPT ![l].l2f = @ + 1]
           /\ st' = [st EXCEPT ![l] = "neg"]
           /\ UNCHANGED up
     /\ UNCHANGED <<code, existing, partner, key, attempt, store, faults>>

(* Negotiation *)

\* aead_open with the key and the counter of this direction.
Opens(p, m) ==
  /\ m.side = 1 - Side(p)
  /\ m.key = key[p]
  /\ m.nonce = IF p \in Leaders THEN sealed[p].f2l ELSE sealed[p].l2f

\* seal_f2l of a reply.
Replied(f, body) ==
  [type |-> "sealed", side |-> 1, key |-> key[f], nonce |-> sealed[f].f2l, body |-> body]

\* The loop of at most ten rounds goes on.
MoreOffers(p) == attempt[p] + 1 < MaxAttempts

\* Mutant: a rejection is not sealed with a counter of its own.
CountedOnAccept(f, body) ==
  [l2f |-> sealed[f].l2f + 1, f2l |-> sealed[f].f2l + IF body.kind = "accept" THEN 1 ELSE 0]

\* One message opened, one sealed.
Counted(f, body) == [l2f |-> sealed[f].l2f + 1, f2l |-> sealed[f].f2l + 1]

\* Mutant: the follower stores the leader's side.
AgreedSameSide(f, body) ==
  [uid |-> body.uid, side |-> 0, ula |-> body.ula, own |-> f, peer |-> body.pub]

\* What the follower agrees to by accepting an offer; its own side is the uid's side bit.
Agreed(f, body) ==
  [uid |-> body.uid, side |-> 1, ula |-> body.ula, own |-> f, peer |-> body.pub]

\* The network the leader offers now is the one it stores later.
Renewed(l, ula) == [rec EXCEPT ![l].ula = ula]

\* ula_collides.
Collides(p, ula) == ula \in existing[p]

\* The follower's round: it refuses a network it uses already, else it accepts.
AnswerOffer(f) ==
  LET m == Head(chan[f])
  IN /\ st[f] = "neg" /\ chan[f] # <<>> /\ m.type = "sealed" /\ Opens(f, m)
     /\ attempt' = [attempt EXCEPT ![f] = @ + 1]
     /\ \/ /\ Collides(f, m.body.ula)
           /\ \E u \in Ulas :
                LET body == [kind |-> "reject", counter |-> u]
                IN /\ chan' = Sent(f, Replied(f, body))
                   /\ sealed' = [sealed EXCEPT ![f] = Counted(f, body)]
           /\ st' = [st EXCEPT ![f] = IF MoreOffers(f) THEN "neg" ELSE "failed"]
           /\ up' = [up EXCEPT ![f] = MoreOffers(f)]
           /\ UNCHANGED rec
        \/ /\ ~Collides(f, m.body.ula)
           /\ LET body == [kind |-> "accept", pub |-> f]
              IN /\ chan' = Sent(f, Replied(f, body))
                 /\ sealed' = [sealed EXCEPT ![f] = Counted(f, body)]
           /\ rec' = [rec EXCEPT ![f] = Agreed(f, m.body)]
           /\ st' = [st EXCEPT ![f] = "prompt"]
           /\ UNCHANGED up
     /\ UNCHANGED <<code, existing, partner, key, store, faults>>

\* The leader's round: an acceptance settles it, a rejection is answered with another network
\* while the rounds last.
TakeReply(l) ==
  LET m == Head(chan[l])
  IN /\ st[l] = "neg" /\ chan[l] # <<>> /\ m.type = "sealed" /\ Opens(l, m)
     /\ attempt' = [attempt EXCEPT ![l] = @ + 1]
     /\ \/ /\ m.body.kind = "accept"
           /\ rec' = [rec EXCEPT ![l] = [uid |-> l, side |-> 0, ula |-> @.ula, own |-> l,
                                         peer |-> m.body.pub]]
           /\ chan' = [chan EXCEPT ![l] = Tail(@)]
           /\ sealed' = [sealed EXCEPT ![l].f2l = @ + 1]
           /\ st' = [st EXCEPT ![l] = "prompt"]
           /\ UNCHANGED up
        \/ /\ m.body.kind = "reject" /\ MoreOffers(l)
           /\ \E ula \in Ulas \ (existing[l] \cup {m.body.counter}) :
                /\ chan' = Sent(l, Offered(l, ula))
                /\ rec' = Renewed(l, ula)
           /\ sealed' = [sealed EXCEPT ![l] = [l2f |-> @.l2f + 1, f2l |-> @.f2l + 1]]
           /\ UNCHANGED <<st, up>>
        \/ /\ m.body.kind = "reject" /\ ~MoreOffers(l)
           /\ sealed' = [sealed EXCEPT ![l].f2l = @ + 1]
           /\ Fail(l)
           /\ UNCHANGED rec
     /\ UNCHANGED <<code, existing, partner, key, store, faults>>

(* The decision *)

\* The user accepts (or gave --name), and the record is saved.
Accept(p) ==
  /\ st[p] = "prompt"
  /\ store' = [store EXCEPT ![p] = rec[p]]
  /\ st' = [st EXCEPT ![p] = "paired"]
  /\ up' = [up EXCEPT ![p] = FALSE]
  /\ chan' = [chan EXCEPT ![p] = <<>>]
  /\ UNCHANGED <<code, existing, partner, key, sealed, attempt, rec, faults>>

\* The user declines, verifies a key that does not match, or the record cannot be saved.
Decline(p) ==
  /\ st[p] = "prompt"
  /\ Fail(p)
  /\ UNCHANGED <<code, existing, partner, key, sealed, attempt, rec, store, faults>>

(* The connection *)

\* recv finds the connection closed and nothing left to read, the answer to what it reads
\* cannot be sent, or a sealed message does not open.
CutOff(p) ==
  LET m == Head(chan[p])
      closed == ~up[p] \/ ~up[partner[p]]
  IN \/ chan[p] = <<>> /\ closed
     \/ chan[p] # <<>> /\ closed /\ ~(m.type = "sealed" /\ m.body.kind = "accept")
     \/ chan[p] # <<>> /\ m.type = "sealed" /\ ~Opens(p, m)

RecvFails(p) ==
  /\ st[p] \in {"joined", "spake", "confirm", "neg"}
  /\ CutOff(p)
  /\ Fail(p)
  /\ UNCHANGED <<code, existing, partner, key, sealed, attempt, rec, store, faults>>

\* A process waits longer than the receive timeout for a message that is still underway.
Timeout(p) ==
  /\ faults > 0 /\ st[p] \in {"joined", "spake", "confirm", "neg"}
  /\ faults' = faults - 1
  /\ Fail(p)
  /\ UNCHANGED <<code, existing, partner, key, sealed, attempt, rec, store>>

\* The connection breaks: what was underway is lost.
Break(p) ==
  /\ faults > 0 /\ partner[p] # None
  /\ up[p] /\ up[partner[p]]
  /\ faults' = faults - 1
  /\ up' = [up EXCEPT ![p] = FALSE, ![partner[p]] = FALSE]
  /\ chan' = [chan EXCEPT ![p] = <<>>, ![partner[p]] = <<>>]
  /\ UNCHANGED <<code, existing, st, partner, key, sealed, attempt, rec, store>>

Exchange(p) ==
  \/ p \in Followers /\ (SpakeFollower(p) \/ ConfirmFollower(p) \/ AnswerOffer(p))
  \/ p \in Leaders /\ (SpakeLeader(p) \/ ConfirmLeader(p) \/ TakeReply(p))
  \/ Accept(p) \/ Decline(p) \/ RecvFails(p)

AllEnded == (\A p \in Procs : Ended(p)) /\ UNCHANGED vars

Next ==
  \/ \E f \in Followers, l \in Leaders : Join(f, l)
  \/ \E p \in Procs : GiveUp(p) \/ Exchange(p) \/ Timeout(p) \/ Break(p)
  \/ AllEnded

Spec == Init /\ [][Next]_vars

\* A process reads what arrives, users answer, and codes and searches expire.
FairSpec == Spec /\ \A p \in Procs : WF_vars(Exchange(p)) /\ WF_vars(GiveUp(p))

-----------------------------------------------------------------------------
(* Properties *)

\* A leader stores only what its follower agreed to, the final network included, although
\* offers are rejected and made again.
LeaderStoresAgreed ==
  \A l \in Leaders : store[l] # NoRecord =>
    LET f == store[l].peer
    IN rec[f].peer = l /\ rec[f].uid = store[l].uid /\ rec[f].ula = store[l].ula

\* Two stored records of one pairing fit together: each names the other's key, the uid and the
\* network are the same, the sides are opposite (rec.side, the addresses ::1 and ::2); and a
\* leader that stored one stored what its follower agreed to.
RecordsFit ==
  /\ LeaderStoresAgreed
  /\ \A p, q \in Procs : store[p].peer = q /\ store[q] # NoRecord =>
       /\ store[q].peer = p
       /\ store[q].uid = store[p].uid /\ store[q].ula = store[p].ula
       /\ store[q].side = 1 - store[p].side

\* Nobody stores a peer whose user had another code, whichever of several leaders and
\* followers with one rendezvous id met: key confirmation ends that exchange on both sides.
OnlySameCode ==
  \A p \in Procs : store[p] # NoRecord => code[store[p].peer] = code[p]

\* A message sealed under the reader's key is always the one its counter waits for, so no
\* sound message is refused and no nonce is used twice, through any number of rejections.
SealsOpen ==
  \A p \in Procs : chan[p] # <<>> /\ ~Ended(p) =>
    LET m == Head(chan[p])
    IN m.type = "sealed" /\ m.key = key[p] => Opens(p, m)

\* The network of a stored peer is none that the store held when the exchange began.
NetworksDiffer ==
  \A p \in Procs : store[p] # NoRecord => store[p].ula \notin existing[p]

\* Without a broken connection or a timeout the two sides come to the same end of the
\* negotiation: a follower that agreed is never left by a leader that ran out of rounds.
SameOutcome ==
  \A f \in Followers : st[f] \in {"prompt", "paired"} /\ faults = MaxFaults =>
    LET l == rec[f].peer IN st[l] = "failed" => rec[l].peer = f

\* The negotiation itself: its counters agree (SealsOpen), the network is free on both sides
\* (NetworksDiffer) and both sides come to the same end (SameOutcome), through rejections.
ExchangeInv == TypeOK /\ SealsOpen /\ NetworksDiffer /\ SameOutcome

\* Every process comes to an end, paired or not, whatever is lost.
ExchangeEnds == \A p \in Procs : <>Ended(p)
=============================================================================
