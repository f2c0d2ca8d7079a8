----------------------------- MODULE Rendezvous -----------------------------
(***************************************************************************)
(* What the pairing server promises, without threads, timers or a table of  *)
(* codes: a leader offers one code, is claimed by at most one follower that *)
(* asked for this code, talks only after it was claimed, and cannot be      *)
(* claimed once it has withdrawn.                                           *)
(***************************************************************************)
CONSTANTS Leaders, Followers, Codes, None, NoCode

VARIABLES
  phase,    \* what each leader is doing
  offered,  \* the code a leader offers
  partner   \* the leader a follower has claimed

rvars == <<phase, offered, partner>>

Init ==
  /\ phase = [l \in Leaders |-> "idle"]
  /\ offered = [l \in Leaders |-> NoCode]
  /\ partner = [f \in Followers |-> None]

Claimed(l) == \E f \in Followers : partner[f] = l

Offer(l, c) ==
  /\ phase[l] = "idle"
  /\ phase' = [phase EXCEPT ![l] = "offering"]
  /\ offered' = [offered EXCEPT ![l] = c]
  /\ UNCHANGED partner

\* A leader that has just given up is still found until it withdraws.
Match(l, f) ==
  /\ phase[l] \in {"offering", "closing"}
  /\ ~ Claimed(l)
  /\ partner[f] = None
  /\ partner' = [partner EXCEPT ![f] = l]
  /\ UNCHANGED <<phase, offered>>

Talk(l) ==
  /\ phase[l] = "offering"
  /\ Claimed(l)
  /\ phase' = [phase EXCEPT ![l] = "talking"]
  /\ UNCHANGED <<offered, partner>>

\* The wait times out, a write fails, or the conversation ends.
Close(l) ==
  /\ phase[l] \in {"offering", "talking"}
  /\ phase' = [phase EXCEPT ![l] = "closing"]
  /\ UNCHANGED <<offered, partner>>

Withdraw(l) ==
  /\ phase[l] \in {"idle", "closing"}
  /\ phase' = [phase EXCEPT ![l] = "over"]
  /\ UNCHANGED <<offered, partner>>

Next ==
  \E l \in Leaders :
    \/ \E c \in Codes : Offer(l, c)
    \/ \E f \in Followers : Match(l, f)
    \/ Talk(l)
    \/ Close(l)
    \/ Withdraw(l)

Spec == Init /\ [][Next]_rvars
=============================================================================
