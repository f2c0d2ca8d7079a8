---------------------------- MODULE PathManager ----------------------------
(***************************************************************************)
(* How one side of a session picks the path its WireGuard packets take      *)
(* (peer/pathman.cpp, driven by Daemon::tick): the candidates it has been   *)
(* told of, the pings it sends them, the answers, the choice of a direct    *)
(* path and the way back to the relay.                                      *)
(*                                                                          *)
(* The vector of candidates is a set: its order, which decides only between *)
(* equals (the junk to drop, the winner of a tie), is left open.  Times are *)
(* ages, in ticks of the model's clock, and stop counting when no condition *)
(* can tell them apart any more.                                            *)
(***************************************************************************)
EXTENDS Integers, FiniteSets

CONSTANTS
  Endpoints,   \* addresses
  None,        \* no address, or one that is not valid
  MaxCands,    \* kMaxCands
  Probe,       \* kPingProbeMs
  Keepalive,   \* kPingKeepaliveMs
  DirectDead,  \* kDirectDeadMs
  CandStale,   \* kCandStaleMs
  Unmeasured,  \* the score of a candidate without a round-trip time
  Uptime,      \* bound: the value of the clock itself, for "now - 0"
  MinRtt,      \* the least time between a ping and its answer
  Answering,   \* the addresses that answer pings, if not every one
  MaxRtt       \* bound: ages of a ping that are told apart

ASSUME PathAssumption ==
  /\ None \notin Endpoints
  /\ MaxCands \in Nat
  /\ Probe \in Nat
  /\ Keepalive \in Nat
  /\ DirectDead \in Nat
  /\ CandStale \in Nat /\ DirectDead <= CandStale
  /\ Unmeasured \in Nat
  /\ Uptime \in Nat /\ MaxRtt < Uptime
  /\ MinRtt \in Nat
  /\ MaxRtt \in Nat \ {0} /\ Probe <= MaxRtt /\ Keepalive <= MaxRtt

ASSUME EndpointsFinite == IsFiniteSet(Endpoints) /\ Answering \subseteq Endpoints

Never == CandStale + 2   \* last_rx = 0
Ages == 0 .. CandStale + 1
Relay == "relay"
Direct == "direct"

VARIABLES
  known,      \* the endpoints in cands_
  last_rx,    \* age of the last datagram from each, or Never
  srtt,       \* DirectCand::srtt, 0 when not measured
  learned,    \* age of DirectCand::learned
  chosen,     \* chosen_
  tx_path,    \* tx_path_
  active,     \* active_
  force,      \* force_relay_
  rearmed,    \* t_ping_.last = 0
  ping_age,   \* age of the last ping sent
  pongs,      \* endpoints the last ping was sent to and may be answered from
  ticked      \* the loop has run since the clock last moved

vars == <<known, last_rx, srtt, learned, chosen, tx_path, active, force, rearmed,
          ping_age, pongs, ticked>>
candVars == <<known, last_rx, srtt, learned>>
choiceVars == <<chosen, tx_path>>
switchVars == <<active, force>>
pingVars == <<ping_age, pongs>>

TypeOK ==
  /\ known \in SUBSET Endpoints
  /\ last_rx \in [Endpoints -> Ages \cup {Never}]
  /\ srtt \in [Endpoints -> 0 .. Uptime]
  /\ learned \in [Endpoints -> Ages]
  /\ chosen \in Endpoints \cup {None}
  /\ tx_path \in {Relay, Direct}
  /\ active \in BOOLEAN
  /\ force \in BOOLEAN
  /\ rearmed \in BOOLEAN
  /\ ping_age \in 0 .. MaxRtt
  /\ pongs \in SUBSET Endpoints
  /\ ticked \in BOOLEAN

Init ==
  /\ known = {}
  /\ last_rx = [e \in Endpoints |-> Never]
  /\ srtt = [e \in Endpoints |-> 0]
  /\ learned = [e \in Endpoints |-> 0]
  /\ chosen = None
  /\ tx_path = Relay
  /\ active = FALSE
  /\ force = FALSE
  /\ rearmed = TRUE
  /\ ping_age = 0
  /\ pongs = {}
  /\ ticked = TRUE

(***************************************************************************)
(* Candidates                                                               *)
(***************************************************************************)

\* cands_ with these endpoints, each as new unless it was known.
Keep(K) ==
  /\ known' = K
  /\ last_rx' = [e \in Endpoints |-> IF e \in K \cap known THEN last_rx[e] ELSE Never]
  /\ srtt' = [e \in Endpoints |-> IF e \in K \cap known THEN srtt[e] ELSE 0]

\* The candidates of K that may make room: never heard, and not in use.
Junk(K) == {e \in K : (e \notin known \/ last_rx[e] = Never) /\ e # chosen}

\* The sets add_cand may make of K for an endpoint.
AddCand(K, e) ==
  IF e = None \/ e \in K THEN {K}
  ELSE IF Cardinality(K) < MaxCands THEN {K \cup {e}}
  ELSE IF Junk(K) = {} THEN {K}
  ELSE {(K \ {j}) \cup {e} : j \in Junk(K)}

\* add_cand of one endpoint and then of another.
Learn(ext, lan) ==
  \E K1 \in AddCand(known, ext) : \E K2 \in AddCand(K1, lan) :
    /\ Keep(K2)
    /\ learned' = [e \in Endpoints |-> IF e \in K2 \cap {ext, lan} \/ e \notin K2 THEN 0
                                       ELSE learned[e]]

\* CALLME, accepted over the relay only: the peer's external address and its
\* interface addresses (bound: one of them).
CallMe(ext, lan) ==
  /\ Learn(ext, lan)
  /\ UNCHANGED <<choiceVars, switchVars, rearmed, pingVars, ticked>>

\* refresh_hints, on its own timer, offers a remembered address.
AddCandidate(e) ==
  /\ Learn(e, None)
  /\ UNCHANGED <<choiceVars, switchVars, rearmed, pingVars, ticked>>

\* The peer answers a query, or asks one of its own and is answered: where it
\* came from is a candidate, probed at once.
Here(e) ==
  /\ ~ force
  /\ Learn(e, None)
  /\ rearmed' = TRUE
  /\ UNCHANGED <<choiceVars, switchVars, pingVars, ticked>>

AnswerLanQuery(e) ==
  /\ ~ force
  /\ Learn(e, None)
  /\ rearmed' = TRUE
  /\ UNCHANGED <<choiceVars, switchVars, pingVars, ticked>>

\* on_lan_discovery: only an active session answers.
OnLanDiscovery(e) == active /\ AnswerLanQuery(e)

\* touch_cand: a full table takes no new address.
TouchCand(e) ==
  /\ e \in known \/ Cardinality(known) < MaxCands
  /\ known' = known \cup {e}
  /\ last_rx' = [last_rx EXCEPT ![e] = 0]
  /\ learned' = [learned EXCEPT ![e] = IF e \in known THEN @ ELSE 0]

\* pump_wg: decrypted data that came direct.
WgData(e) ==
  /\ ~ force
  /\ TouchCand(e)
  /\ UNCHANGED <<srtt, choiceVars, switchVars, rearmed, pingVars, ticked>>

\* now - t_ping_.last, at least 1.
Rtt == IF rearmed THEN Uptime ELSE IF ping_age < 1 THEN 1 ELSE ping_age

\* A PONG that echoes the latest token: the endpoint is alive, and its round
\* trip is averaged in.  The datagram may come twice.
Pong(e) ==
  /\ ~ force
  /\ e \in pongs
  /\ ping_age >= MinRtt
  /\ last_rx' = [last_rx EXCEPT ![e] = IF e \in known THEN 0 ELSE @]
  /\ srtt' = [srtt EXCEPT ![e] = IF e \notin known THEN @
                                 ELSE IF @ = 0 THEN Rtt
                                 ELSE (@ * 3 + Rtt) \div 4]
  /\ pongs' \in {pongs, pongs \ {e}}
  /\ UNCHANGED <<known, learned, choiceVars, switchVars, rearmed, ping_age,
                 ticked>>

(***************************************************************************)
(* The choice                                                               *)
(***************************************************************************)

\* Mutant: a candidate that was ever heard is alive.
AliveEver(K) == {e \in K : last_rx[e] # Never}

Alive(K) == {e \in K : last_rx[e] < DirectDead}

Score(e) == IF srtt[e] = 0 THEN Unmeasured ELSE srtt[e]

Best(K) == {e \in Alive(K) : \A f \in Alive(K) : Score(e) <= Score(f)}

\* Mutant: the scores are not compared.
ChooseAlive(K) == IF Alive(K) = {} THEN {None} ELSE Alive(K)

\* choose_direct: the best of those alive, or the one in use while it is alive
\* and no more than a quarter slower.
ChooseDirect(K) ==
  IF Alive(K) = {} THEN {None}
  ELSE LET best == Best(K)
           near(e) == \E b \in best : Score(e) <= Score(b) + Score(b) \div 4
       IN  IF chosen \in Alive(K) /\ near(chosen) THEN {chosen} ELSE best

\* What prune_cands keeps.
Fresh == {e \in known : e = chosen \/ last_rx[e] <= CandStale \/ learned[e] <= CandStale}

\* Mutant: only a timer that was rearmed is due.
PingOnce == rearmed

\* t_ping_.due, at the rate for a path that is up or not.
PingDue == rearmed \/ ping_age >= (IF chosen = None THEN Probe ELSE Keepalive)

\* Mutant: the path is left as it was.
RouteKept(c) == tx_path' = IF c = None THEN tx_path ELSE Direct

\* update_tx_path, once chosen_ is c.
UpdateTxPath(c) == tx_path' = IF ~ force /\ c # None THEN Direct ELSE Relay

\* Daemon::tick for this session: set_active, and tick when it is warm.  The
\* housekeeping timer and the timer of the LAN query may be due or not.
\* direct_confirmed_ says that chosen_ is set.
Tick(warm) ==
  /\ active' = warm
  /\ ticked' = TRUE
  /\ IF warm
     THEN \E K \in {known, Fresh} :
            LET due == ~ force /\ K # {} /\ (PingDue \/ ~ active)
            IN  /\ Keep(K)
                /\ learned' = [e \in Endpoints |-> IF e \in K THEN learned[e] ELSE 0]
                /\ rearmed' = ((rearmed \/ ~ active) /\ ~ due)
                /\ ping_age' = IF due THEN 0 ELSE ping_age
                /\ pongs' = IF due THEN K ELSE pongs
                /\ chosen' \in ChooseDirect(K)
                /\ UpdateTxPath(chosen')
     ELSE UNCHANGED <<candVars, choiceVars, rearmed, pingVars>>
  /\ UNCHANGED force

\* FORCE_RELAY
SetForceRelay(f) ==
  /\ force' = f
  /\ UNCHANGED <<candVars, choiceVars, active, rearmed, pingVars,
                 ticked>>

Older(a) == IF a > CandStale THEN a ELSE a + 1

\* Time passes; the loop runs at least once in every tick of the clock.
Elapse ==
  /\ ticked
  /\ ticked' = FALSE
  /\ last_rx' = [e \in Endpoints |-> Older(last_rx[e])]
  /\ learned' = [e \in Endpoints |-> IF e \in known THEN Older(learned[e]) ELSE 0]
  /\ ping_age' = IF ping_age = MaxRtt THEN MaxRtt ELSE ping_age + 1
  /\ UNCHANGED <<known, srtt, choiceVars, switchVars, rearmed, pongs>>

Next ==
  \/ \E e \in Endpoints, l \in Endpoints \cup {None} : CallMe(e, l)
  \/ \E e \in Endpoints : \/ AddCandidate(e)
                          \/ Here(e)
                          \/ OnLanDiscovery(e)
                          \/ WgData(e)
                          \/ Pong(e)
  \/ \E b \in BOOLEAN : Tick(b) \/ SetForceRelay(b)
  \/ Elapse

Spec == Init /\ [][Next]_vars

\* The loop ticks and time passes; what is sent again and again is answered in
\* time now and then, if the ping can get there and back between two pings.
Fairness == /\ WF_vars(\E b \in BOOLEAN : Tick(b))
            /\ WF_vars(Elapse)
            /\ \A e \in Answering : SF_vars(Pong(e) /\ e \in known)

FairSpec == Spec /\ Fairness

-----------------------------------------------------------------------------

\* send_wg: where a packet goes.
Route == IF ~ force /\ tx_path = Direct /\ chosen # None THEN chosen ELSE None

\* The address in use stays in the table, whatever is learned, dropped to make
\* room or pruned meanwhile; the table keeps to its limit.
ChosenKnown == /\ chosen # None => chosen \in known
               /\ Cardinality(known) <= MaxCands

\* docs/DESIGN.md:117: packets leave direct only on a path that was heard within
\* the dead time (and one round of the loop), through every activation, eviction,
\* pruning and forced relay.
RouteHeard == active /\ Route # None => Route \in known /\ last_rx[Route] <= DirectDead

\* No flapping: a path that is still alive is left only for one with a smaller
\* score (docs/DESIGN.md:155-156).
SwitchImproves ==
  [][(chosen # chosen' /\ chosen # None /\ chosen \in Alive(known))
       => chosen' # None /\ Score(chosen') < Score(chosen)]_vars

\* docs/DESIGN.md:116: a session that stays active and goes on knowing an address
\* that answers pings has a direct path confirmed time and again.
Upgrades ==
  \A e \in Answering : <>[](active /\ ~ force /\ e \in known) => []<>(chosen # None)

\* docs/DESIGN.md:117: a session that stays active and hears nothing direct any
\* more goes back to the relay for good.
FallsBack ==
  <>[](active /\ \A e \in Endpoints : last_rx[e] # 0) => <>[](tx_path = Relay)

-----------------------------------------------------------------------------
(***************************************************************************)
(* What the documentation says and the code does not do                     *)
(***************************************************************************)

\* pathman.cpp, at the sample of a round trip: "this token went out at the last
\* ping".  Then no round trip is longer than the time since a ping.
SamplesReal == \A e \in Endpoints : srtt[e] <= MaxRtt
=============================================================================
