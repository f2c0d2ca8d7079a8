------------------------------ MODULE PortAsk ------------------------------
(***************************************************************************)
(* How one peer follows the LAN port of the other (peer/pathman.cpp, PORTQ  *)
(* and PORTA; the daemon stores what is learned).  One side asks, the other *)
(* answers; each is a daemon that may restart, and the network loses,       *)
(* delays, reorders and repeats datagrams.                                  *)
(*                                                                          *)
(* A nonce stands for the 16 random bytes of one ask.  It is used again     *)
(* when nothing refers to it any more, which is how the model tells two     *)
(* random values apart.  Times are ages in ticks.                           *)
(***************************************************************************)
EXTENDS Integers

CONSTANTS
  Nonces,      \* nonces (bound: asks that anything still refers to)
  Ports,       \* LAN ports
  AskFast,     \* kPortAskFastMs
  FastTries,   \* kPortAskFastTries
  AskSlow,     \* kPortAskSlowMs
  AnswerTime   \* kPortAnswerMs

ASSUME PortAssumption ==
  /\ AskFast \in Nat
  /\ FastTries \in Nat
  /\ AskSlow \in Nat /\ AskFast <= AskSlow
  /\ AnswerTime \in Nat

Stale == AnswerTime + 1   \* the age of an ask that is too old for an answer
NotAsked == AnswerTime + 2

VARIABLES
  port,        \* the asker: cfg_.lan_port and the port the daemon stored
  asker_active, \* active_
  asked,       \* port_asked_: the age of each pending ask, or NotAsked
  fresh,       \* port_fresh_
  tries,       \* port_tries_, up to the number that is compared
  t_port,      \* age of t_port_.last
  own,         \* the peer: own_lan_port
  peer_active, \* the peer's active_
  seen,        \* the peer's port_seen_
  queries,     \* PORTQ datagrams underway
  answers,     \* PORTA datagrams underway: nonce and port
  had          \* history: the time since the peer last had each port

portVars == <<port, asker_active, asked, fresh, tries, t_port, own, peer_active, seen,
              queries, answers, had>>
askVars == <<fresh, tries, t_port>>
peerVars == <<own, peer_active, seen, had>>
netVars == <<queries, answers>>

PortTypeOK ==
  /\ port \in Ports
  /\ asker_active \in BOOLEAN
  /\ asked \in [Nonces -> 0 .. NotAsked]
  /\ fresh \in BOOLEAN
  /\ tries \in 0 .. FastTries
  /\ t_port \in 0 .. AskSlow
  /\ own \in Ports
  /\ peer_active \in BOOLEAN
  /\ seen \in SUBSET Nonces
  /\ queries \in SUBSET Nonces
  /\ answers \in SUBSET (Nonces \X Ports)
  /\ had \in [Ports -> 0 .. Stale]

\* The pairing told each side the port of the other, which may have moved.
PortInit ==
  /\ port \in Ports
  /\ asker_active = FALSE
  /\ asked = [n \in Nonces |-> NotAsked]
  /\ fresh = FALSE
  /\ tries = 0
  /\ t_port = AskSlow
  /\ own \in Ports
  /\ peer_active = FALSE
  /\ seen = {}
  /\ queries = {}
  /\ answers = {}
  /\ had = [p \in Ports |-> IF p = own THEN 0 ELSE Stale]

-----------------------------------------------------------------------------
(***************************************************************************)
(* The asker                                                                *)
(***************************************************************************)

\* restart_port_ask
RestartAsk ==
  /\ fresh' = FALSE
  /\ tries' = 0
  /\ t_port' = AskSlow

\* set_active: an activation asks again at once.
SetActive(a) ==
  /\ a # asker_active
  /\ asker_active' = a
  /\ IF a THEN RestartAsk ELSE UNCHANGED askVars
  /\ UNCHANGED <<port, asked, peerVars, netVars>>

\* update_tx_path finds the direct path lost, or at another address.
PathMoved ==
  /\ asker_active
  /\ RestartAsk
  /\ UNCHANGED <<port, asker_active, asked, peerVars, netVars>>

\* Mutant: an answer ends the asking.
DueUnanswered == ~ fresh /\ t_port >= AskFast

Due == t_port >= IF ~ fresh /\ tries < FastTries THEN AskFast ELSE AskSlow

\* A nonce nobody has seen.
Unused(n) == /\ n \notin queries
             /\ \A p \in Ports : <<n, p>> \notin answers
             /\ asked[n] > AnswerTime

\* send_port_query: asks that are too old are dropped, a new one is sent.
Ask(n) ==
  /\ asker_active
  /\ Due
  /\ Unused(n)
  /\ asked' = [m \in Nonces |-> IF m = n THEN 0
                                ELSE IF asked[m] = Stale THEN NotAsked ELSE asked[m]]
  /\ tries' = IF tries < FastTries THEN tries + 1 ELSE tries
  /\ t_port' = 0
  /\ queries' = queries \cup {n}
  /\ seen' = seen \ {n}
  /\ UNCHANGED <<port, asker_active, fresh, own, peer_active, had, answers>>

\* Mutant: the age of the ask is not looked at.
AskPendingEver(n) == asked[n] # NotAsked

\* The ask an answer is accepted for.
AskPending(n) == asked[n] <= AnswerTime

\* A PORTA arrives; its datagram may come again.  The ask is used up, and
\* on_peer_lan_port stores the port and moves the search there.
Answered(n, p) ==
  /\ <<n, p>> \in answers
  /\ answers' \in {answers, answers \ {<<n, p>>}}
  /\ IF AskPending(n)
     THEN /\ asked' = [asked EXCEPT ![n] = NotAsked]
          /\ fresh' = TRUE
          /\ port' = p
     ELSE UNCHANGED <<asked, fresh, port>>
  /\ UNCHANGED <<asker_active, tries, t_port, peerVars, queries>>

\* The asker's daemon restarts: the port is on disk, the rest is not.
AskerRestart ==
  /\ asker_active' = FALSE
  /\ asked' = [n \in Nonces |-> NotAsked]
  /\ RestartAsk
  /\ UNCHANGED <<port, peerVars, netVars>>

(***************************************************************************)
(* The peer                                                                 *)
(***************************************************************************)

PeerSetActive(a) ==
  /\ a # peer_active
  /\ peer_active' = a
  /\ UNCHANGED <<port, asker_active, asked, askVars, own, seen, had, netVars>>

\* A PORTQ arrives: each nonce is answered once, by an active session.
Answer(n) ==
  /\ n \in queries
  /\ queries' \in {queries, queries \ {n}}
  /\ IF peer_active /\ n \notin seen
     THEN /\ seen' = seen \cup {n}
          /\ answers' = answers \cup {<<n, own>>}
     ELSE UNCHANGED <<seen, answers>>
  /\ UNCHANGED <<port, asker_active, asked, askVars, own, peer_active, had>>

\* The peer's daemon restarts, perhaps with another port in its config.
PeerRestart(p) ==
  /\ own' = p
  /\ peer_active' = FALSE
  /\ seen' = {}
  /\ had' = [had EXCEPT ![p] = 0]
  /\ UNCHANGED <<port, asker_active, asked, askVars, netVars>>

(***************************************************************************)
(* The network and the clock                                                *)
(***************************************************************************)

LoseQuery(n) ==
  /\ n \in queries
  /\ queries' = queries \ {n}
  /\ UNCHANGED <<port, asker_active, asked, askVars, peerVars, answers>>

LoseAnswer(n, p) ==
  /\ <<n, p>> \in answers
  /\ answers' = answers \ {<<n, p>>}
  /\ UNCHANGED <<port, asker_active, asked, askVars, peerVars, queries>>

PortElapse ==
  /\ asked' = [n \in Nonces |-> IF asked[n] <= AnswerTime THEN asked[n] + 1 ELSE asked[n]]
  /\ t_port' = IF t_port < AskSlow THEN t_port + 1 ELSE t_port
  /\ had' = [p \in Ports |-> IF p = own THEN 0
                             ELSE IF had[p] < Stale THEN had[p] + 1 ELSE had[p]]
  /\ UNCHANGED <<port, asker_active, fresh, tries, own, peer_active, seen, netVars>>

PortNext ==
  \/ \E a \in BOOLEAN : SetActive(a) \/ PeerSetActive(a)
  \/ PathMoved
  \/ AskerRestart
  \/ \E n \in Nonces : Ask(n) \/ Answer(n) \/ LoseQuery(n)
  \/ \E n \in Nonces, p \in Ports : Answered(n, p) \/ LoseAnswer(n, p)
  \/ \E p \in Ports : PeerRestart(p)
  \/ PortElapse

PortSpec == PortInit /\ [][PortNext]_portVars

\* The loop asks when it is time, an old datagram does not live for ever, and
\* what is sent again and again is answered in time now and then.
PortFairness ==
  /\ WF_portVars(PortElapse)
  /\ WF_portVars(\E n \in Nonces : Ask(n))
  /\ WF_portVars(\E n \in Nonces : /\ ~ AskPending(n)
                                   /\ LoseQuery(n) \/ \E p \in Ports : LoseAnswer(n, p))
  /\ SF_portVars(\E n \in Nonces : AskPending(n) /\ peer_active /\ n \notin seen /\ Answer(n))
  /\ SF_portVars(\E n \in Nonces, p \in Ports : AskPending(n) /\ Answered(n, p))

PortFairSpec == PortSpec /\ PortFairness

-----------------------------------------------------------------------------

\* docs/DESIGN.md:246-249: only the peer changes what is stored, and only to a
\* port it had within the answer time, however datagrams are delayed or repeated
\* and whichever of the two restarts.
AcceptsRecent == [][port' # port => had[port'] <= AnswerTime]_portVars

\* An ask that is still pending belongs to this life of the asker, and what is
\* underway for it carries a port the peer has had since it was sent.
AnswersRecent ==
  \A n \in Nonces, p \in Ports :
    <<n, p>> \in answers /\ AskPending(n) => had[p] <= asked[n]

\* A peer that moves its port is followed in the end, when both stay active.
Converges ==
  \A p \in Ports : <>[](asker_active /\ peer_active /\ own = p) => <>[](port = p)

-----------------------------------------------------------------------------
(***************************************************************************)
(* What the documentation says and the code does not do                     *)
(***************************************************************************)

\* docs/DESIGN.md:248-249: "a recorded or delayed answer can't roll it back".
NoRollback == [][port = own /\ own' = own => port' = own]_portVars
=============================================================================
