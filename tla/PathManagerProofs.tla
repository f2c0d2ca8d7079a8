------------------------- MODULE PathManagerProofs -------------------------
(***************************************************************************)
(* Proofs about peer/pathman.cpp.                                           *)
(*                                                                          *)
(* PathManager, for any addresses, any size of the table and any intervals: *)
(* the path in use stays in the table, packets leave direct only on a path  *)
(* that was heard, and a live path is left only for a faster one.           *)
(*                                                                          *)
(* PortAsk, for any number of asks underway, any ports and any intervals:   *)
(* what is stored is a port the peer had within the answer time.            *)
(***************************************************************************)
EXTENDS PathManager, PortAsk, TLAPS, FiniteSetTheorems

\* While the session is active, the path in use was alive at the last round of
\* the loop, and has aged at most one tick since.
ChosenHeard ==
  active /\ chosen # None => IF ticked THEN last_rx[chosen] < DirectDead
                                       ELSE last_rx[chosen] <= DirectDead

\* The inductive invariant.  RouteHeard speaks of the present age only; the
\* stricter bound right after a tick is what the next tick of the clock needs.
IInv == TypeOK /\ ChosenKnown /\ ChosenHeard

\* Init: an empty table and the relay.
LEMMA InitHolds == Init => IInv
<1> SUFFICES ASSUME Init PROVE IInv
  OBVIOUS
<1> USE PathAssumption DEF Ages, Never
<1>1. /\ known \in SUBSET Endpoints
      /\ last_rx \in [Endpoints -> Ages \cup {Never}]
      /\ srtt \in [Endpoints -> 0 .. Uptime]
      /\ learned \in [Endpoints -> Ages]
      /\ ping_age \in 0 .. MaxRtt
      /\ pongs \in SUBSET Endpoints
  BY DEF Init
<1>2. /\ chosen \in Endpoints \cup {None}
      /\ tx_path \in {Relay, Direct}
      /\ active \in BOOLEAN
      /\ force \in BOOLEAN
      /\ rearmed \in BOOLEAN
      /\ ticked \in BOOLEAN
  BY Zenon DEF Init
<1>3. ChosenKnown
  BY FS_EmptySet DEF Init, ChosenKnown
<1>4. ChosenHeard
  BY DEF Init, ChosenHeard
<1> QED
  BY <1>1, <1>2, <1>3, <1>4, Zenon DEF IInv, TypeOK

-----------------------------------------------------------------------------

\* add_cand: the table stays within its limit and keeps the address in use.
LEMMA AddCandKeeps ==
  ASSUME NEW K \in SUBSET Endpoints, Cardinality(K) <= MaxCands,
         chosen # None => chosen \in K,
         NEW e \in Endpoints \cup {None}, NEW L \in AddCand(K, e)
  PROVE  /\ L \in SUBSET Endpoints
         /\ Cardinality(L) <= MaxCands
         /\ chosen # None => chosen \in L
<1> USE PathAssumption
<1>0. IsFiniteSet(K) /\ Cardinality(K) \in Nat
  BY EndpointsFinite, FS_Subset, FS_CardinalityType
<1>1. CASE L = K
  BY <1>1
<1>2. CASE e # None /\ e \notin K /\ Cardinality(K) < MaxCands /\ L = K \cup {e}
  <2>1. Cardinality(L) = Cardinality(K) + 1
    BY <1>0, <1>2, FS_AddElement
  <2> QED
    BY <1>0, <1>2, <2>1
<1>3. ASSUME e # None, e \notin K, NEW j \in Junk(K), L = (K \ {j}) \cup {e}
      PROVE  /\ L \in SUBSET Endpoints
             /\ Cardinality(L) <= MaxCands
             /\ chosen # None => chosen \in L
  <2>1. j \in K /\ j # chosen
    BY DEF Junk
  <2>2. IsFiniteSet(K \ {j}) /\ Cardinality(K \ {j}) = Cardinality(K) - 1
    BY <1>0, <2>1, FS_RemoveElement
  <2>3. Cardinality(L) = Cardinality(K \ {j}) + 1
    BY <1>3, <2>2, FS_AddElement
  <2> QED
    BY <1>0, <1>3, <2>1, <2>2, <2>3
<1> QED
  BY <1>1, <1>2, <1>3 DEF AddCand

\* The table is replaced by another that keeps what was heard of those it keeps.
LEMMA KeepStep ==
  ASSUME TypeOK, NEW K \in SUBSET Endpoints, Keep(K)
  PROVE  /\ known' = K
         /\ last_rx' \in [Endpoints -> Ages \cup {Never}]
         /\ srtt' \in [Endpoints -> 0 .. Uptime]
         /\ \A e \in K \cap known : last_rx'[e] = last_rx[e]
BY PathAssumption DEF TypeOK, Keep, Ages, Never

\* What an address learned from CALLME, a hint or LAN discovery changes.
LEMMA LearnStep ==
  ASSUME IInv, NEW ext \in Endpoints \cup {None}, NEW lan \in Endpoints \cup {None},
         Learn(ext, lan), UNCHANGED <<chosen, tx_path, active, force, ping_age, pongs, ticked>>,
         rearmed' \in BOOLEAN
  PROVE  IInv'
<1> USE PathAssumption DEF IInv
<1>1. PICK K1 \in AddCand(known, ext) : \E K2 \in AddCand(K1, lan) :
        /\ Keep(K2)
        /\ learned' = [e \in Endpoints |-> IF e \in K2 \cap {ext, lan} \/ e \notin K2 THEN 0
                                           ELSE learned[e]]
  BY DEF Learn
<1>2. PICK K2 \in AddCand(K1, lan) :
        /\ Keep(K2)
        /\ learned' = [e \in Endpoints |-> IF e \in K2 \cap {ext, lan} \/ e \notin K2 THEN 0
                                           ELSE learned[e]]
  BY <1>1
<1>3. K1 \in SUBSET Endpoints /\ Cardinality(K1) <= MaxCands /\ (chosen # None => chosen \in K1)
  BY AddCandKeeps DEF TypeOK, ChosenKnown
<1>4. K2 \in SUBSET Endpoints /\ Cardinality(K2) <= MaxCands /\ (chosen # None => chosen \in K2)
  BY <1>3, AddCandKeeps
<1>5. /\ known' = K2
      /\ last_rx' \in [Endpoints -> Ages \cup {Never}]
      /\ srtt' \in [Endpoints -> 0 .. Uptime]
      /\ \A e \in K2 \cap known : last_rx'[e] = last_rx[e]
  BY <1>2, <1>4, KeepStep
<1>6. learned' \in [Endpoints -> Ages]
  BY <1>2 DEF TypeOK, Ages
<1>7. TypeOK'
  BY <1>4, <1>5, <1>6 DEF TypeOK
<1>8. ChosenKnown'
  BY <1>4, <1>5 DEF ChosenKnown
<1>9. ChosenHeard'
  <2>1. chosen # None => last_rx'[chosen] = last_rx[chosen]
    BY <1>4, <1>5 DEF ChosenKnown
  <2> QED
    BY <2>1 DEF ChosenHeard
<1> QED
  BY <1>7, <1>8, <1>9

\* touch_cand: the address is heard, and added while there is room.
LEMMA WgDataStep == ASSUME IInv, NEW e \in Endpoints, WgData(e) PROVE IInv'
<1> USE PathAssumption DEF IInv
<1>1. TypeOK'
  BY DEF WgData, TouchCand, TypeOK, choiceVars, switchVars, pingVars, Ages, Never
<1>2. ChosenKnown'
  <2>1. IsFiniteSet(known) /\ Cardinality(known) \in Nat
    BY EndpointsFinite, FS_Subset, FS_CardinalityType DEF TypeOK
  <2>2. CASE e \in known
    <3>1. known' = known
      BY <2>2 DEF WgData, TouchCand
    <3> QED
      BY <3>1 DEF ChosenKnown, WgData, TouchCand, choiceVars
  <2>3. CASE e \notin known
    <3>1. Cardinality(known') = Cardinality(known) + 1
      BY <2>1, <2>3, FS_AddElement DEF WgData, TouchCand
    <3>2. Cardinality(known) < MaxCands
      BY <2>3 DEF WgData, TouchCand
    <3> QED
      BY <2>1, <3>1, <3>2 DEF ChosenKnown, WgData, TouchCand, choiceVars
  <2> QED
    BY <2>2, <2>3
<1>3. ChosenHeard'
  <2>1. chosen # None => last_rx'[chosen] = 0 \/ last_rx'[chosen] = last_rx[chosen]
    BY DEF WgData, TouchCand, TypeOK, ChosenKnown
  <2> SUFFICES ASSUME active, chosen # None
               PROVE  IF ticked THEN last_rx'[chosen] < DirectDead
                                ELSE last_rx'[chosen] <= DirectDead
    BY DEF WgData, TouchCand, ChosenHeard, choiceVars, switchVars
  <2>2. last_rx[chosen] \in Nat
    BY DEF TypeOK, ChosenKnown, Ages, Never
  <2> QED
    BY <2>1, <2>2 DEF ChosenHeard
<1> QED
  BY <1>1, <1>2, <1>3

\* A PONG: the average of two round trips within the bound is within it.
LEMMA PongStep == ASSUME IInv, NEW e \in Endpoints, Pong(e) PROVE IInv'
<1> USE PathAssumption DEF IInv
<1>1. Rtt \in 0 .. Uptime
  BY DEF Rtt, TypeOK
<1>2. srtt' \in [Endpoints -> 0 .. Uptime]
  <2>1. srtt[e] \in 0 .. Uptime
    BY DEF TypeOK
  <2>2. (srtt[e] * 3 + Rtt) \div 4 \in 0 .. Uptime
    BY <1>1, <2>1
  <2> QED
    BY <1>1, <2>1, <2>2 DEF Pong, TypeOK
<1>3. last_rx' \in [Endpoints -> Ages \cup {Never}]
  BY DEF Pong, TypeOK, Ages, Never
<1>4. pongs' \in SUBSET Endpoints
  BY DEF Pong, TypeOK
<1>5. UNCHANGED <<known, learned, chosen, tx_path, active, force, rearmed, ping_age, ticked>>
  BY DEF Pong, choiceVars, switchVars
<1>6. TypeOK'
  BY <1>2, <1>3, <1>4, <1>5 DEF TypeOK
<1>7. ChosenKnown'
  BY <1>5 DEF ChosenKnown
<1>8. ChosenHeard'
  <2>1. chosen # None => last_rx'[chosen] = 0 \/ last_rx'[chosen] = last_rx[chosen]
    BY DEF Pong, TypeOK, ChosenKnown
  <2> SUFFICES ASSUME active, chosen # None
               PROVE  IF ticked THEN last_rx'[chosen] < DirectDead
                                ELSE last_rx'[chosen] <= DirectDead
    BY <1>5 DEF ChosenHeard
  <2>2. last_rx[chosen] \in Nat
    BY DEF TypeOK, ChosenKnown, Ages, Never
  <2> QED
    BY <2>1, <2>2 DEF ChosenHeard
<1> QED
  BY <1>6, <1>7, <1>8

-----------------------------------------------------------------------------

\* choose_direct returns a candidate that is alive, or none when there is none.
LEMMA ChosenIsAlive ==
  ASSUME NEW K, NEW c \in ChooseDirect(K)
  PROVE  c \in Alive(K) \/ (c = None /\ Alive(K) = {})
BY DEF ChooseDirect, Best

\* The tick of a warm session.
LEMMA WarmTickStep == ASSUME IInv, Tick(TRUE) PROVE IInv'
<1> USE PathAssumption DEF IInv
<1>1. PICK K \in {known, Fresh} :
        LET due == ~ force /\ K # {} /\ (PingDue \/ ~ active)
        IN  /\ Keep(K)
            /\ learned' = [e \in Endpoints |-> IF e \in K THEN learned[e] ELSE 0]
            /\ rearmed' = ((rearmed \/ ~ active) /\ ~ due)
            /\ ping_age' = IF due THEN 0 ELSE ping_age
            /\ pongs' = IF due THEN K ELSE pongs
            /\ chosen' \in ChooseDirect(K)
            /\ UpdateTxPath(chosen')
  BY DEF Tick
<1>2. K \subseteq known /\ K \in SUBSET Endpoints
  BY DEF Fresh, TypeOK
<1>3. /\ known' = K
      /\ last_rx' \in [Endpoints -> Ages \cup {Never}]
      /\ srtt' \in [Endpoints -> 0 .. Uptime]
      /\ \A e \in K \cap known : last_rx'[e] = last_rx[e]
  BY <1>1, <1>2, KeepStep
<1>4. chosen' \in Alive(K) \/ chosen' = None
  BY <1>1, ChosenIsAlive
<1>5. TypeOK'
  <2>1. learned' \in [Endpoints -> Ages]
    BY <1>1 DEF TypeOK, Ages
  <2>2. rearmed' \in BOOLEAN
    BY <1>1
  <2>3. ping_age' \in 0 .. MaxRtt /\ pongs' \in SUBSET Endpoints
    BY <1>1, <1>2 DEF TypeOK
  <2>4. chosen' \in Endpoints \cup {None}
    BY <1>2, <1>4 DEF Alive
  <2>5. tx_path' \in {Relay, Direct}
    BY <1>1 DEF UpdateTxPath
  <2>6. active' \in BOOLEAN /\ ticked' \in BOOLEAN /\ force' \in BOOLEAN
    BY DEF Tick, TypeOK
  <2> QED
    BY <1>2, <1>3, <2>1, <2>2, <2>3, <2>4, <2>5, <2>6 DEF TypeOK
<1>6. ChosenKnown'
  <2>1. IsFiniteSet(known) /\ Cardinality(known) \in Nat
    BY EndpointsFinite, FS_Subset, FS_CardinalityType DEF TypeOK
  <2>2. Cardinality(K) <= Cardinality(known) /\ Cardinality(K) \in Nat
    BY <1>2, <2>1, FS_Subset, FS_CardinalityType
  <2>3. Cardinality(known') <= MaxCands
    BY <1>3, <2>1, <2>2 DEF ChosenKnown
  <2>4. chosen' # None => chosen' \in known'
    BY <1>3, <1>4 DEF Alive
  <2> QED
    BY <2>3, <2>4 DEF ChosenKnown
<1>7. ChosenHeard'
  <2>1. chosen' # None => last_rx'[chosen'] < DirectDead
    BY <1>2, <1>3, <1>4 DEF Alive
  <2>2. ticked'
    BY DEF Tick
  <2> QED
    BY <2>1, <2>2 DEF ChosenHeard
<1> QED
  BY <1>5, <1>6, <1>7

\* The tick of a dormant session changes nothing but its being active.
LEMMA DormantTickStep == ASSUME IInv, Tick(FALSE) PROVE IInv'
<1>1. ~ active' /\ ticked' /\ UNCHANGED <<candVars, choiceVars, rearmed, pingVars, force>>
  BY DEF Tick
<1>2. active' \in BOOLEAN /\ ticked' \in BOOLEAN
  BY Zenon DEF Tick
<1>3. TypeOK'
  BY <1>1, <1>2 DEF IInv, TypeOK, candVars, choiceVars, pingVars
<1>4. ChosenKnown' /\ ChosenHeard'
  BY <1>1 DEF IInv, ChosenKnown, ChosenHeard, candVars, choiceVars
<1> QED
  BY <1>3, <1>4 DEF IInv

\* Time passes, at most one tick of it since the loop ran.
LEMMA ElapseStep == ASSUME IInv, Elapse PROVE IInv'
<1> USE PathAssumption DEF IInv
<1>1. TypeOK'
  <2>1. last_rx' \in [Endpoints -> Ages \cup {Never}]
    BY DEF Elapse, TypeOK, Older, Ages, Never
  <2>2. learned' \in [Endpoints -> Ages]
    BY DEF Elapse, TypeOK, Older, Ages
  <2>3. ping_age' \in 0 .. MaxRtt
    BY DEF Elapse, TypeOK
  <2>4. ticked' \in BOOLEAN
    BY Zenon DEF Elapse
  <2> QED
    BY <2>1, <2>2, <2>3, <2>4 DEF Elapse, TypeOK, choiceVars, switchVars
<1>2. ChosenKnown'
  BY DEF Elapse, ChosenKnown, choiceVars
<1>3. ChosenHeard'
  <2> SUFFICES ASSUME active, chosen # None PROVE last_rx'[chosen] <= DirectDead
    BY DEF Elapse, ChosenHeard, choiceVars, switchVars
  <2>1. chosen \in Endpoints /\ last_rx[chosen] \in Nat
    BY DEF TypeOK, ChosenKnown, Ages, Never
  <2>2. last_rx[chosen] < DirectDead
    BY DEF Elapse, ChosenHeard
  <2>3. last_rx'[chosen] = last_rx[chosen] + 1
    BY <2>1, <2>2 DEF Elapse, Older
  <2> QED
    BY <2>1, <2>2, <2>3
<1> QED
  BY <1>1, <1>2, <1>3

\* Every step keeps the invariant.
LEMMA NextHolds == IInv /\ [Next]_vars => IInv'
<1> SUFFICES ASSUME IInv, [Next]_vars PROVE IInv'
  OBVIOUS
<1>1. ASSUME NEW e \in Endpoints, NEW l \in Endpoints \cup {None}, CallMe(e, l) PROVE IInv'
  <2>1. rearmed' \in BOOLEAN
    BY <1>1 DEF CallMe, IInv, TypeOK
  <2> QED
    BY <1>1, <2>1, LearnStep DEF CallMe, choiceVars, switchVars, pingVars
<1>2. ASSUME NEW e \in Endpoints, AddCandidate(e) PROVE IInv'
  <2>1. rearmed' \in BOOLEAN
    BY <1>2 DEF AddCandidate, IInv, TypeOK
  <2> QED
    BY <1>2, <2>1, LearnStep DEF AddCandidate, choiceVars, switchVars, pingVars
<1>3. ASSUME NEW e \in Endpoints, Here(e) PROVE IInv'
  <2>1. rearmed' \in BOOLEAN
    BY <1>3 DEF Here
  <2> QED
    BY <1>3, <2>1, LearnStep DEF Here, choiceVars, switchVars, pingVars
<1>4. ASSUME NEW e \in Endpoints, OnLanDiscovery(e) PROVE IInv'
  <2>1. rearmed' \in BOOLEAN
    BY <1>4 DEF OnLanDiscovery, AnswerLanQuery
  <2> QED
    BY <1>4, <2>1, LearnStep DEF OnLanDiscovery, AnswerLanQuery, choiceVars, switchVars, pingVars
<1>5. ASSUME NEW b \in BOOLEAN, Tick(b) PROVE IInv'
  <2>1. b = TRUE \/ b = FALSE
    OBVIOUS
  <2> QED
    BY <1>5, <2>1, WarmTickStep, DormantTickStep
<1>6. ASSUME NEW b \in BOOLEAN, SetForceRelay(b) PROVE IInv'
  <2>1. force' \in BOOLEAN
    BY <1>6 DEF SetForceRelay
  <2> QED
    BY <1>6, <2>1 DEF SetForceRelay, IInv, TypeOK, ChosenKnown, ChosenHeard, candVars,
       choiceVars, pingVars
<1>7. CASE UNCHANGED vars
  BY <1>7 DEF vars, IInv, TypeOK, ChosenKnown, ChosenHeard
<1> QED
  BY <1>1, <1>2, <1>3, <1>4, <1>5, <1>6, <1>7, WgDataStep, PongStep, ElapseStep DEF Next

-----------------------------------------------------------------------------

\* The path manager's state stays well-typed; no average leaves its bounds.
THEOREM TypeCorrect == Spec => []TypeOK
<1>1. IInv => TypeOK
  BY DEF IInv
<1> QED
  BY InitHolds, NextHolds, <1>1, PTL DEF Spec

\* add_cand, prune_cands and touch_cand never lose the address in use.
THEOREM ChosenStaysKnown == Spec => []ChosenKnown
<1>1. IInv => ChosenKnown
  BY DEF IInv
<1> QED
  BY InitHolds, NextHolds, <1>1, PTL DEF Spec

\* send_wg: a packet leaves direct only on a path heard within the dead time.
THEOREM PacketsLeaveOnHeardPath == Spec => []RouteHeard
<1>1. IInv => RouteHeard
  <2> SUFFICES ASSUME IInv, active, Route # None
               PROVE  Route \in known /\ last_rx[Route] <= DirectDead
    BY DEF RouteHeard
  <2>1. Route = chosen /\ chosen # None
    BY DEF Route
  <2>2. chosen \in known /\ last_rx[chosen] \in Nat
    BY <2>1, PathAssumption DEF IInv, ChosenKnown, TypeOK, Ages, Never
  <2>3. last_rx[chosen] <= DirectDead
    BY <2>1, <2>2, PathAssumption DEF IInv, ChosenHeard
  <2> QED
    BY <2>1, <2>2, <2>3
<1> QED
  BY InitHolds, NextHolds, <1>1, PTL DEF Spec

\* chosen_ changes only in the tick of a warm session.
LEMMA OnlyTickChooses ==
  ASSUME [Next]_vars, chosen' # chosen
  PROVE  \E K \in {known, Fresh} : chosen' \in ChooseDirect(K)
<1>1. \E b \in BOOLEAN : Tick(b)
  BY DEF Next, vars, CallMe, AddCandidate, Here, OnLanDiscovery, AnswerLanQuery, WgData, Pong, SetForceRelay,
     Elapse, choiceVars
<1> QED
  BY <1>1 DEF Tick, choiceVars

\* choose_direct: a path that is alive is left only for one with a smaller score.
THEOREM NoFlapping == Spec => SwitchImproves
<1>1. IInv /\ [Next]_vars =>
        [(chosen # chosen' /\ chosen # None /\ chosen \in Alive(known))
           => chosen' # None /\ Score(chosen') < Score(chosen)]_vars
  <2> SUFFICES ASSUME IInv, [Next]_vars, chosen # chosen', chosen # None,
                      chosen \in Alive(known)
               PROVE  chosen' # None /\ Score(chosen') < Score(chosen)
    OBVIOUS
  <2>1. PICK K \in {known, Fresh} : chosen' \in ChooseDirect(K)
    BY OnlyTickChooses
  <2>2. chosen \in Alive(K) /\ K \subseteq Endpoints
    BY <2>1 DEF Alive, Fresh, IInv, TypeOK
  <2>3. chosen' \in Best(K)
        /\ ~ (\E b \in Best(K) : Score(chosen) <= Score(b) + Score(b) \div 4)
    BY <2>1, <2>2 DEF ChooseDirect
  <2>4. chosen' \in Endpoints /\ chosen \in Endpoints
    BY <2>2, <2>3 DEF Best, Alive
  <2>5. Score(chosen') \in Nat /\ Score(chosen) \in Nat
    BY <2>4, PathAssumption DEF Score, IInv, TypeOK
  <2>6. ~ (Score(chosen) <= Score(chosen') + Score(chosen') \div 4)
    BY <2>3
  <2>7. Score(chosen') \div 4 \in Nat
    BY <2>5
  <2> QED
    BY <2>4, <2>5, <2>6, <2>7, PathAssumption
<1> QED
  BY InitHolds, NextHolds, <1>1, PTL DEF Spec, SwitchImproves

-----------------------------------------------------------------------------
(* PortAsk: what is stored of the peer's port *)

\* The inductive invariant: an answer to a pending ask carries a port the peer
\* has had since the ask, and the port it has now counts as just had.  Without
\* the second part an answer sent now could already be out of date.
PortIInv == PortTypeOK /\ AnswersRecent /\ had[own] = 0

\* Init: nothing is underway, and the peer has the port it has.
LEMMA PortInitHolds == PortInit => PortIInv
<1> SUFFICES ASSUME PortInit PROVE PortIInv
  OBVIOUS
<1> USE PortAssumption DEF Stale, NotAsked
<1>1. asked \in [Nonces -> 0 .. NotAsked] /\ had \in [Ports -> 0 .. Stale]
  BY DEF PortInit
<1>2. asker_active \in BOOLEAN /\ fresh \in BOOLEAN /\ peer_active \in BOOLEAN
  BY Zenon DEF PortInit
<1>3. port \in Ports /\ own \in Ports /\ tries \in 0 .. FastTries /\ t_port \in 0 .. AskSlow
  BY DEF PortInit
<1>4. seen \in SUBSET Nonces /\ queries \in SUBSET Nonces
      /\ answers \in SUBSET (Nonces \X Ports)
  BY DEF PortInit
<1>5. AnswersRecent /\ had[own] = 0
  BY <1>3 DEF PortInit, AnswersRecent
<1> QED
  BY <1>1, <1>2, <1>3, <1>4, <1>5, Zenon DEF PortIInv, PortTypeOK

\* restart_port_ask leaves well-typed fields.
LEMMA RestartTyped == RestartAsk => fresh' \in BOOLEAN /\ tries' \in 0 .. FastTries
                                    /\ t_port' \in 0 .. AskSlow
<1>1. RestartAsk => fresh' \in BOOLEAN
  BY Zenon DEF RestartAsk
<1>2. RestartAsk => tries' \in 0 .. FastTries /\ t_port' \in 0 .. AskSlow
  BY PortAssumption DEF RestartAsk
<1> QED
  BY <1>1, <1>2

\* send_port_query: the nonce has no answer underway, so the new ask starts
\* with none; other asks keep their age or stop pending.
LEMMA AskStep == ASSUME PortIInv, NEW n \in Nonces, Ask(n) PROVE PortIInv'
<1> USE PortAssumption DEF Stale, NotAsked
<1>1. PortTypeOK'
  BY DEF Ask, PortIInv, PortTypeOK
<1>2. ASSUME NEW m \in Nonces, NEW p \in Ports, <<m, p>> \in answers', AskPending(m)'
      PROVE  had'[p] <= asked'[m]
  <2>1. <<m, p>> \in answers /\ m # n
    BY <1>2 DEF Ask, Unused
  <2>2. asked'[m] = asked[m] /\ asked[m] <= AnswerTime
    BY <1>2, <2>1 DEF Ask, AskPending, PortIInv, PortTypeOK
  <2> QED
    BY <2>1, <2>2 DEF Ask, PortIInv, AnswersRecent, AskPending
<1>3. (had[own] = 0)'
  BY DEF Ask, PortIInv
<1> QED
  BY <1>1, <1>2, <1>3 DEF PortIInv, AnswersRecent

\* An answer arrives: its ask is used up, and nothing else moves.
LEMMA AnsweredStep ==
  ASSUME PortIInv, NEW n \in Nonces, NEW p \in Ports, Answered(n, p) PROVE PortIInv'
<1> USE PortAssumption DEF Stale, NotAsked
<1>1. PortTypeOK'
  <2>1. answers' \in SUBSET (Nonces \X Ports) /\ port' \in Ports
    BY DEF Answered, PortIInv, PortTypeOK
  <2>2. asked' \in [Nonces -> 0 .. NotAsked]
    BY DEF Answered, PortIInv, PortTypeOK
  <2>3. fresh' \in BOOLEAN
    BY Zenon DEF Answered, PortIInv, PortTypeOK
  <2>4. UNCHANGED <<asker_active, tries, t_port, own, peer_active, seen, queries, had>>
    BY DEF Answered, peerVars
  <2> QED
    BY <2>1, <2>2, <2>3, <2>4 DEF PortIInv, PortTypeOK
<1>2. ASSUME NEW m \in Nonces, NEW q \in Ports, <<m, q>> \in answers', AskPending(m)'
      PROVE  had'[q] <= asked'[m]
  <2>1. <<m, q>> \in answers /\ had' = had
    BY <1>2 DEF Answered, peerVars
  <2>2. asked'[m] = asked[m] /\ asked[m] <= AnswerTime
    BY <1>2 DEF Answered, AskPending, PortIInv, PortTypeOK
  <2> QED
    BY <2>1, <2>2 DEF PortIInv, AnswersRecent, AskPending
<1>3. (had[own] = 0)'
  BY DEF Answered, PortIInv, peerVars
<1> QED
  BY <1>1, <1>2, <1>3 DEF PortIInv, AnswersRecent

\* A query arrives: what is answered is the port the peer has now.
LEMMA AnswerStep == ASSUME PortIInv, NEW n \in Nonces, Answer(n) PROVE PortIInv'
<1> USE PortAssumption DEF Stale, NotAsked
<1>1. PortTypeOK'
  BY DEF Answer, PortIInv, PortTypeOK, askVars
<1>2. ASSUME NEW m \in Nonces, NEW q \in Ports, <<m, q>> \in answers', AskPending(m)'
      PROVE  had'[q] <= asked'[m]
  <2>1. had' = had /\ asked' = asked /\ asked[m] \in Nat
    BY DEF Answer, PortIInv, PortTypeOK
  <2>2. CASE <<m, q>> \in answers
    BY <1>2, <2>1, <2>2 DEF PortIInv, AnswersRecent, AskPending
  <2>3. CASE <<m, q>> \notin answers
    <3>1. q = own
      BY <1>2, <2>3 DEF Answer
    <3> QED
      BY <3>1, <2>1 DEF PortIInv
  <2> QED
    BY <2>2, <2>3
<1>3. (had[own] = 0)'
  BY DEF Answer, PortIInv
<1> QED
  BY <1>1, <1>2, <1>3 DEF PortIInv, AnswersRecent

\* The peer restarts: ports it had before keep their age, the new one is 0.
LEMMA PeerRestartStep == ASSUME PortIInv, NEW p \in Ports, PeerRestart(p) PROVE PortIInv'
<1> USE PortAssumption DEF Stale, NotAsked
<1>1. PortTypeOK'
  BY DEF PeerRestart, PortIInv, PortTypeOK, askVars, netVars
<1>2. ASSUME NEW m \in Nonces, NEW q \in Ports, <<m, q>> \in answers', AskPending(m)'
      PROVE  had'[q] <= asked'[m]
  <2>1. asked' = asked /\ answers' = answers /\ asked[m] \in Nat
    BY DEF PeerRestart, netVars, PortIInv, PortTypeOK
  <2>2. had'[q] = IF q = p THEN 0 ELSE had[q]
    BY DEF PeerRestart, PortIInv, PortTypeOK
  <2> QED
    BY <1>2, <2>1, <2>2 DEF PortIInv, AnswersRecent, AskPending
<1>3. (had[own] = 0)'
  BY DEF PeerRestart, PortIInv, PortTypeOK
<1> QED
  BY <1>1, <1>2, <1>3 DEF PortIInv, AnswersRecent

\* Time passes: the age of a pending ask grows with the age of every port.
LEMMA PortElapseStep == ASSUME PortIInv, PortElapse PROVE PortIInv'
<1> USE PortAssumption DEF Stale, NotAsked
<1>1. PortTypeOK'
  BY DEF PortElapse, PortIInv, PortTypeOK, netVars
<1>2. ASSUME NEW m \in Nonces, NEW q \in Ports, <<m, q>> \in answers', AskPending(m)'
      PROVE  had'[q] <= asked'[m]
  <2>1. answers' = answers /\ asked[m] \in Nat /\ had[q] \in Nat
    BY DEF PortElapse, netVars, PortIInv, PortTypeOK
  <2>2. asked[m] <= AnswerTime /\ asked'[m] = asked[m] + 1
    BY <1>2, <2>1 DEF PortElapse, AskPending, PortIInv, PortTypeOK
  <2>3. had'[q] <= had[q] + 1
    BY <2>1 DEF PortElapse, PortIInv, PortTypeOK
  <2>4. had[q] <= asked[m]
    BY <1>2, <2>1, <2>2 DEF PortIInv, AnswersRecent, AskPending
  <2>5. had'[q] \in Nat
    BY <1>1 DEF PortTypeOK
  <2> QED
    BY <2>1, <2>2, <2>3, <2>4, <2>5
<1>3. (had[own] = 0)'
  BY DEF PortElapse, PortIInv, PortTypeOK
<1> QED
  BY <1>1, <1>2, <1>3 DEF PortIInv, AnswersRecent

\* The steps that touch neither a pending ask nor a port: activation, a moved
\* path, a restart of the asker, a lost datagram.
LEMMA QuietStep ==
  ASSUME PortIInv,
         \/ \E a \in BOOLEAN : SetActive(a) \/ PeerSetActive(a)
         \/ PathMoved
         \/ AskerRestart
         \/ \E n \in Nonces : LoseQuery(n)
         \/ \E n \in Nonces, p \in Ports : LoseAnswer(n, p)
         \/ UNCHANGED portVars
  PROVE  PortIInv'
<1> USE PortAssumption DEF Stale, NotAsked
<1>1. PortTypeOK'
  <2>1. CASE \E a \in BOOLEAN : SetActive(a)
    <3>1. PICK a \in BOOLEAN : SetActive(a)
      BY <2>1
    <3>2. asker_active' \in BOOLEAN
      BY <3>1, Zenon DEF SetActive
    <3>3. fresh' \in BOOLEAN /\ tries' \in 0 .. FastTries /\ t_port' \in 0 .. AskSlow
      BY <3>1, RestartTyped DEF SetActive, askVars, PortIInv, PortTypeOK
    <3> QED
      BY <3>1, <3>2, <3>3 DEF SetActive, PortIInv, PortTypeOK, peerVars, netVars
  <2>2. CASE \E a \in BOOLEAN : PeerSetActive(a)
    <3>1. peer_active' \in BOOLEAN
      BY <2>2, Zenon DEF PeerSetActive
    <3> QED
      BY <2>2, <3>1 DEF PeerSetActive, PortIInv, PortTypeOK, askVars, netVars
  <2>3. CASE PathMoved
    BY <2>3, RestartTyped DEF PathMoved, PortIInv, PortTypeOK, peerVars, netVars
  <2>4. CASE AskerRestart
    <3>1. asker_active' \in BOOLEAN
      BY <2>4, Zenon DEF AskerRestart
    <3>2. asked' \in [Nonces -> 0 .. NotAsked]
      BY <2>4 DEF AskerRestart
    <3> QED
      BY <2>4, <3>1, <3>2, RestartTyped DEF AskerRestart, PortIInv, PortTypeOK, peerVars, netVars
  <2>5. CASE \E n \in Nonces : LoseQuery(n)
    BY <2>5 DEF LoseQuery, PortIInv, PortTypeOK, askVars, peerVars
  <2>6. CASE \E n \in Nonces, p \in Ports : LoseAnswer(n, p)
    BY <2>6 DEF LoseAnswer, PortIInv, PortTypeOK, askVars, peerVars
  <2>7. CASE UNCHANGED portVars
    BY <2>7 DEF portVars, PortIInv, PortTypeOK
  <2> QED
    BY <2>1, <2>2, <2>3, <2>4, <2>5, <2>6, <2>7
<1>2. answers' \subseteq answers /\ had' = had /\ own' = own
  BY DEF SetActive, PeerSetActive, PathMoved, AskerRestart, LoseQuery, LoseAnswer, portVars,
     askVars, peerVars, netVars
<1>3. \A m \in Nonces : asked'[m] = asked[m] \/ asked'[m] = NotAsked
  BY DEF SetActive, PeerSetActive, PathMoved, AskerRestart, LoseQuery, LoseAnswer, portVars,
     askVars, peerVars, netVars, PortIInv, PortTypeOK
<1>4. ASSUME NEW m \in Nonces, NEW q \in Ports, <<m, q>> \in answers', AskPending(m)'
      PROVE  had'[q] <= asked'[m]
  <2>1. asked'[m] = asked[m] /\ AskPending(m)
    BY <1>3, <1>4 DEF AskPending
  <2> QED
    BY <1>2, <1>4, <2>1 DEF PortIInv, AnswersRecent
<1> QED
  BY <1>1, <1>2, <1>4 DEF PortIInv, AnswersRecent

\* Every step keeps the invariant.
LEMMA PortNextHolds == PortIInv /\ [PortNext]_portVars => PortIInv'
BY AskStep, AnsweredStep, AnswerStep, PeerRestartStep, PortElapseStep, QuietStep DEF PortNext

\* The state of both sides stays well-typed, with any number of asks underway.
THEOREM PortTypeCorrect == PortSpec => []PortTypeOK
<1>1. PortIInv => PortTypeOK
  BY DEF PortIInv
<1> QED
  BY PortInitHolds, PortNextHolds, <1>1, PTL DEF PortSpec

\* What is underway for a pending ask is a port the peer has had since then.
THEOREM AnswersStayRecent == PortSpec => []AnswersRecent
<1>1. PortIInv => AnswersRecent
  BY DEF PortIInv
<1> QED
  BY PortInitHolds, PortNextHolds, <1>1, PTL DEF PortSpec

\* The port that is stored changes only in Answered, for an ask that is pending.
LEMMA OnlyAnsweredStores ==
  ASSUME PortIInv, [PortNext]_portVars, port' # port
  PROVE  \E n \in Nonces, p \in Ports : Answered(n, p) /\ AskPending(n) /\ port' = p
BY DEF PortNext, portVars, SetActive, PeerSetActive, PathMoved, AskerRestart, Ask, Answered, Answer,
   LoseQuery, LoseAnswer, PeerRestart, PortElapse

\* PORTA handling: whatever is lost, delayed, repeated or restarted, the port
\* that is stored is one the peer had within the answer time.
THEOREM AcceptsOnlyRecent == PortSpec => AcceptsRecent
<1>1. PortIInv /\ [PortNext]_portVars => [port' # port => had[port'] <= AnswerTime]_portVars
  <2> SUFFICES ASSUME PortIInv, [PortNext]_portVars, port' # port
               PROVE  had[port'] <= AnswerTime
    OBVIOUS
  <2>1. PICK n \in Nonces, p \in Ports : Answered(n, p) /\ AskPending(n) /\ port' = p
    BY OnlyAnsweredStores
  <2>2. had[p] <= asked[n] /\ asked[n] <= AnswerTime
    BY <2>1 DEF PortIInv, AnswersRecent, Answered, AskPending
  <2>3. had[p] \in Int /\ asked[n] \in Int /\ AnswerTime \in Int
    BY PortAssumption DEF PortIInv, PortTypeOK, Stale, NotAsked
  <2> QED
    BY <2>1, <2>2, <2>3
<1> QED
  BY PortInitHolds, PortNextHolds, <1>1, PTL DEF PortSpec, AcceptsRecent
=============================================================================
