------------------------- MODULE PipeRegistryProofs -------------------------
(***************************************************************************)
(* The safety of the registration table, for every set of names and         *)
(* descriptors and every bound.                                             *)
(***************************************************************************)
EXTENDS PipeRegistry, FiniteSetTheorems, TLAPS

Facts == /\ CountersExact /\ LimitHeld /\ OwnerSocketUsed /\ OwnerCallbackFresh
         /\ OneStream /\ DiskInSync

\* The instances are finitely many, and so are those of one registration.
LEMMA IdsFinite ==
  /\ IsFiniteSet(Ids)
  /\ \A I, s : IsFiniteSet(Of(I, s)) /\ Cardinality(Of(I, s)) \in Nat
<1>1. IsFiniteSet(Ids)
  BY FS_Interval, BoundAssumption DEF Ids
<1>2. ASSUME NEW I, NEW s PROVE IsFiniteSet(Of(I, s)) /\ Cardinality(Of(I, s)) \in Nat
  <2>1. Of(I, s) \subseteq Ids
    BY DEF Of
  <2> QED BY <1>1, <2>1, FS_Subset, FS_CardinalityType
<1> QED BY <1>1, <1>2

\* Closing K takes from a registration exactly its instances in K.
LEMMA ClosedCount ==
  ASSUME TypeOK, SerialFacts, InstFacts, NEW K \in SUBSET Ids, NEW n \in Names, Offered(n)
  PROVE  /\ CountClosed(K, n) \in Nat
         /\ CountClosed(K, n) <= Cardinality(Of(insts, regs[n].serial))
         /\ Cardinality(Of(ClosedInsts(K), regs[n].serial))
              = Cardinality(Of(insts, regs[n].serial)) - CountClosed(K, n)
<1> DEFINE A == Of(insts, regs[n].serial)
<1>1. {i \in K : insts[i].name = n /\ insts[i].serial = regs[n].serial} = A \cap K
  BY DEF Of, TypeOK, InstFacts, Offered, Inst, Reg, Ids
<1>2. Of(ClosedInsts(K), regs[n].serial) = A \ K
  BY DEF Of, ClosedInsts, NoInst, Offered
<1>3. IsFiniteSet(A) /\ Cardinality(A) \in Nat
  BY IdsFinite
<1>4. /\ IsFiniteSet(A \cap K)
      /\ Cardinality(A \cap K) \in Nat
      /\ Cardinality(A \cap K) <= Cardinality(A)
  BY <1>3, FS_Subset, FS_CardinalityType
<1>5. Cardinality(A \ K) = Cardinality(A) - Cardinality(A \cap K)
  BY <1>3, FS_Difference
<1> QED BY <1>1, <1>2, <1>4, <1>5 DEF CountClosed

-----------------------------------------------------------------------------

\* The invariant holds when the first daemon starts with no files.
LEMMA InitIInv == Init => IInv
<1> SUFFICES ASSUME Init PROVE IInv
  OBVIOUS
<1> USE BoundAssumption, NameAssumption
<1>1. TypeOK
  BY DEF Init, TypeOK, Reg, NoReg, Inst, NoInst, Watch, NoWatch, Limits, NoFile, Ids
<1>2. Facts
  BY DEF Init, Facts, CountersExact, LimitHeld, OwnerSocketUsed, OwnerCallbackFresh,
         OneStream, DiskInSync, Offered, Spent, InUse, Users, OwnFile, NoReg, NoInst,
         NoWatch, NoFile
<1>3. SerialFacts /\ InstFacts /\ RetireFacts /\ StoppedFacts
  BY DEF Init, SerialFacts, InstFacts, RetireFacts, StoppedFacts, Offered, Spent, NoReg,
         NoInst, NoWatch
<1> QED BY <1>1, <1>2, <1>3 DEF IInv, Facts

\* Every callback that closes instances and drops registrations is a Teardown
\* that leaves the rest of the session alone.
Quiet == /\ running /\ running' = running
         /\ UNCHANGED <<next_id, next_serial, clientVars, served>>

\* The owner callbacks a teardown keeps: only a pause may have ended.
Resumed(W) ==
  /\ W \in [Fds -> Watch]
  /\ \A f \in Fds : /\ W[f].name = watch[f].name /\ W[f].serial = watch[f].serial
                    /\ W[f].mode = "off" <=> watch[f].mode = "off"
                    /\ W[f].mode = "paused" => watch[f].mode = "paused"

\* The retirements that stay queued are the ones of the table that is left.
StillQueued(D) ==
  /\ want_close' \in SUBSET Ids
  /\ want_retire' \subseteq want_retire
  /\ \A n \in Names \ D : regs[n].serial \in want_retire => regs[n].serial \in want_retire'

\* Tearing down any registrations and instances keeps the invariant.
LEMMA TeardownStep ==
  ASSUME IInv, NEW D \in SUBSET Names, \A n \in D : Offered(n),
         NEW K \in SUBSET Ids, NEW W, Resumed(W), Quiet, StillQueued(D),
         Teardown(D, K, W)
  PROVE  IInv'
<1> USE BoundAssumption, NameAssumption
<1> DEFINE U == {f \in Released(D, K) : ~ InUse(Remaining(D, K), ClosedInsts(K), f)}
<1>0. PICK queued \in SUBSET U :
        sock' = [f \in Fds |-> IF f \in queued THEN "closing"
                               ELSE IF f \in U THEN "free" ELSE sock[f]]
  BY DEF Teardown
<1>1. /\ regs' = Remaining(D, K)
      /\ insts' = ClosedInsts(K)
      /\ disk' = WipedFiles(D)
      /\ watch' = [f \in Fds |-> IF f \in U THEN NoWatch ELSE W[f]]
  BY DEF Teardown
<1>2. \A n \in Names : Offered(n) =>
        /\ CountClosed(K, n) \in Nat
        /\ CountClosed(K, n) <= Cardinality(Of(insts, regs[n].serial))
        /\ Cardinality(Of(insts', regs[n].serial))
             = Cardinality(Of(insts, regs[n].serial)) - CountClosed(K, n)
  BY <1>1, ClosedCount DEF IInv
<1>3. \A n \in Names : Offered(n) =>
        regs[n].active \in Nat /\ regs[n].active = Cardinality(Of(insts, regs[n].serial))
  BY DEF IInv, TypeOK, Reg, CountersExact
<1>4. \A n \in Names \ D : Offered(n) =>
        /\ regs'[n].serial = regs[n].serial /\ regs'[n].limit = regs[n].limit
        /\ regs'[n].started = regs[n].started /\ regs'[n].owner_fd = regs[n].owner_fd
        /\ regs'[n].active = regs[n].active - CountClosed(K, n)
        /\ regs'[n].finished = regs[n].finished + CountClosed(K, n)
  BY <1>1 DEF Remaining
<1>5. \A n \in Names : n \in D \/ ~ Offered(n) => regs'[n] = NoReg
  BY <1>1 DEF Remaining
<1>6. \A i \in Ids : IF i \in K THEN insts'[i] = NoInst ELSE insts'[i] = insts[i]
  BY <1>1 DEF ClosedInsts
<1>7. regs' \in [Names -> Reg]
  <2> SUFFICES ASSUME NEW n \in Names PROVE Remaining(D, K)[n] \in Reg
    BY <1>1 DEF Remaining
  <2>1. CASE n \in D \/ ~ Offered(n)
    BY <2>1 DEF Remaining, NoReg, Reg, Limits
  <2>2. CASE n \notin D /\ Offered(n)
    <3>1. regs[n] \in Reg
      BY DEF IInv, TypeOK
    <3> QED BY <2>2, <3>1, <1>2, <1>3 DEF Remaining, Reg
  <2> QED BY <2>1, <2>2
<1>8. TypeOK'
  <2>1. insts' \in [Ids -> Inst]
    BY <1>1 DEF ClosedInsts, IInv, TypeOK, Inst, NoInst
  <2>2. disk' \in [Names -> Limits \cup {NoFile}]
    BY <1>1 DEF WipedFiles, IInv, TypeOK
  <2>3. watch' \in [Fds -> Watch]
    BY <1>1 DEF Resumed, Watch, NoWatch
  <2>4. sock' \in [Fds -> {"free", "open", "closing"}]
    BY <1>0 DEF IInv, TypeOK
  <2> QED BY <1>7, <2>1, <2>2, <2>3, <2>4 DEF IInv, TypeOK, Quiet, StillQueued, clientVars
<1>9. CountersExact'
  BY <1>2, <1>3, <1>4, <1>5, <1>7 DEF CountersExact, Offered, NoReg, IInv, TypeOK, Reg
<1>10. LimitHeld'
  BY <1>4, <1>5 DEF LimitHeld, Offered, NoReg, Spent, StillQueued, IInv
<1>11. \A f \in Fds : InUse(regs', insts', f) =>
         InUse(regs, insts, f) /\ f \notin U
  BY <1>1, <1>4, <1>5, <1>6 DEF InUse, NoReg, NoInst, Offered
<1>12. \A f \in Fds : InUse(regs, insts, f) /\ f \notin U => InUse(regs', insts', f)
  <2> SUFFICES ASSUME NEW f \in Fds, InUse(regs, insts, f), f \notin U,
                      ~ InUse(regs', insts', f)
               PROVE  FALSE
    OBVIOUS
  <2>1. f \notin Released(D, K)
    BY <1>1
  <2>2. CASE \E n \in Names : regs[n].owner_fd = f
    BY <2>1, <2>2, <1>4 DEF Released, InUse, SerialFacts, IInv, Offered, NoReg
  <2>3. CASE \E i \in Ids : insts[i].cfd = f
    BY <2>1, <2>3, <1>6 DEF Released, InUse
  <2> QED BY <2>2, <2>3 DEF InUse
<1>13. OwnerSocketUsed'
  <2> SUFFICES ASSUME NEW f \in Fds PROVE sock'[f] = "open" <=> InUse(regs', insts', f)
    BY DEF OwnerSocketUsed
  <2>1. f \in U => sock'[f] # "open"
    BY <1>0
  <2>2. f \notin U => sock'[f] = sock[f]
    BY <1>0
  <2> QED BY <2>1, <2>2, <1>11, <1>12 DEF IInv, OwnerSocketUsed
<1>14. \A f \in Fds : IF f \in U THEN watch'[f] = NoWatch ELSE watch'[f] = W[f]
  BY <1>1
<1>15. OwnerCallbackFresh'
  <2> SUFFICES ASSUME NEW f \in Fds
               PROVE  /\ sock'[f] = "open" <=> watch'[f].mode # "off"
                      /\ watch'[f].mode = "paused" => data'[f]
                      /\ \A n \in Names : regs'[n].owner_fd = f =>
                           watch'[f].name = n /\ watch'[f].serial = regs'[n].serial
    BY DEF OwnerCallbackFresh
  <2>1. CASE f \in U
    <3>1. ~ InUse(regs', insts', f)
      BY <2>1, <1>1
    <3>2. sock'[f] # "open"
      BY <2>1, <1>0
    <3> QED BY <3>1, <3>2, <2>1, <1>14 DEF InUse, NoWatch
  <2>2. CASE f \notin U
    <3>1. sock'[f] = sock[f] /\ watch'[f] = W[f] /\ data' = data
      BY <2>2, <1>0, <1>14 DEF Quiet, clientVars
    <3>2. \A n \in Names : regs'[n].owner_fd = f =>
            regs[n].owner_fd = f /\ regs'[n].serial = regs[n].serial
      BY <1>4, <1>5 DEF NoReg
    <3> QED BY <3>1, <3>2 DEF Resumed, IInv, OwnerCallbackFresh
  <2> QED BY <2>1, <2>2
<1>16. OneStream'
  <2> SUFFICES ASSUME NEW f \in Fds, NEW i \in Ids, insts'[i].cfd = f
               PROVE  insts'[i].serial = watch'[f].serial /\ insts'[i].name = watch'[f].name
    BY DEF OneStream, Users
  <2>1. i \notin K /\ insts'[i] = insts[i]
    BY <1>6 DEF NoInst
  <2>2. f \notin U
    BY <1>11 DEF InUse
  <2> QED BY <2>1, <2>2, <1>14 DEF Resumed, IInv, OneStream, Users
<1>17. DiskInSync'
  <2> SUFFICES ASSUME NEW n \in Names, OwnFile(n)
               PROVE  disk'[n] = IF regs'[n].serial # 0 /\ regs'[n].owner_fd = None
                                 THEN regs'[n].limit ELSE NoFile
    BY DEF DiskInSync, Offered, OwnFile
  <2>0. disk[n] = IF Offered(n) /\ regs[n].owner_fd = None THEN regs[n].limit ELSE NoFile
    BY DEF IInv, DiskInSync, Quiet
  <2>1. CASE n \in D /\ regs[n].owner_fd = None
    BY <2>1, <1>1, <1>5 DEF WipedFiles, OwnFile, NoReg
  <2>2. CASE ~ (n \in D /\ regs[n].owner_fd = None)
    <3>1. disk'[n] = disk[n]
      BY <2>2, <1>1 DEF WipedFiles, OwnFile
    <3> QED BY <3>1, <2>0, <2>2, <1>4, <1>5 DEF Offered, NoReg
  <2> QED BY <2>1, <2>2
<1>18. SerialFacts'
  <2>1. SerialFacts /\ next_serial' = next_serial /\ next_serial > 0
    BY DEF IInv, TypeOK, Quiet, Serials
  <2>2. \A n \in Names : /\ regs'[n].serial = regs[n].serial /\ Offered(n) /\ n \notin D
                         \/ regs'[n] = NoReg
    BY <1>4, <1>5
  <2>3. \A n \in Names : regs'[n] = NoReg => regs'[n].serial = 0
    BY DEF NoReg
  <2>4. \A n \in Names : regs'[n].serial < next_serial'
    BY <2>1, <2>2, <2>3 DEF SerialFacts
  <2>5. \A n, m \in Names : regs'[n].serial # 0 /\ regs'[n].serial = regs'[m].serial => n = m
    BY <2>1, <2>2, <2>3 DEF SerialFacts
  <2>6. \A s \in want_retire' : s < next_serial'
    BY <2>1 DEF SerialFacts, StillQueued
  <2>7. \A n \in Names : regs'[n].serial = 0 => regs'[n] = NoReg
    BY <2>2 DEF Offered
  <2> QED
    BY <2>4, <2>5, <2>6, <2>7 DEF SerialFacts, Offered
<1>19. InstFacts'
  <2>1. /\ InstFacts /\ next_serial' = next_serial /\ next_id' = next_id
        /\ next_serial > 0 /\ next_serial \in Int
    BY DEF IInv, TypeOK, Quiet, Serials
  <2> SUFFICES ASSUME NEW i \in Ids
               PROVE  /\ insts'[i].serial < next_serial
                      /\ insts'[i].state # "open" => insts'[i].serial = 0 /\ insts'[i].cfd = None
                      /\ insts'[i].state = "open" => insts'[i].serial # 0
                      /\ \A n \in Names : insts'[i].state = "open" /\ insts'[i].serial = regs'[n].serial
                                          => insts'[i].name = n
                      /\ i >= next_id => insts'[i].state = "none"
    BY <2>1 DEF InstFacts
  <2>2. CASE i \in K
    BY <1>6, <2>1, <2>2 DEF NoInst
  <2>3. CASE i \notin K
    <3>1. insts'[i] = insts[i]
      BY <1>6, <2>3
    <3>2. \A n \in Names : regs'[n].serial # 0 => regs'[n].serial = regs[n].serial
      BY <1>4, <1>5 DEF NoReg
    <3> QED
      BY <2>1, <3>1, <3>2 DEF InstFacts
  <2> QED
    BY <2>2, <2>3
<1>20. RetireFacts'
  <2> SUFFICES ASSUME NEW n \in Names, regs'[n].serial \in want_retire'
               PROVE  Spent(regs'[n])
    BY DEF RetireFacts
  <2>1. 0 \notin want_retire'
    BY DEF StillQueued, IInv, TypeOK, Serials
  <2>2. n \notin D /\ Offered(n)
    BY <2>1, <1>5 DEF NoReg
  <2>3. Spent(regs[n])
    BY <2>2, <1>4 DEF StillQueued, IInv, RetireFacts
  <2> QED BY <2>2, <2>3, <1>4 DEF Spent
<1>21. StoppedFacts'
  BY DEF StoppedFacts, Quiet
<1> QED BY <1>8, <1>9, <1>10, <1>13, <1>15, <1>16, <1>17, <1>18, <1>19, <1>20, <1>21 DEF IInv

-----------------------------------------------------------------------------

\* A callback that installs no registration and closes nothing.
LEMMA AcceptStep == IInv /\ AcceptInbound => IInv'
<1> SUFFICES ASSUME IInv, AcceptInbound PROVE IInv'
  OBVIOUS
<1> USE BoundAssumption, NameAssumption
<1>1. next_id \in Ids /\ insts[next_id].state = "none" /\ insts[next_id].serial = 0
      /\ insts[next_id].cfd = None
  <2>1. next_id \in Ids
    BY DEF IInv, TypeOK, AcceptInbound, Ids
  <2>2. next_id >= next_id
    BY DEF IInv, TypeOK
  <2> QED BY <2>1, <2>2 DEF IInv, InstFacts
<1>2. \A i \in Ids : insts'[i].serial = insts[i].serial /\ insts'[i].cfd = insts[i].cfd
  <2>1. insts \in [Ids -> Inst]
    BY DEF IInv, TypeOK
  <2>2. insts' = [insts EXCEPT ![next_id] = Handshaking]
    BY DEF AcceptInbound
  <2> QED BY <1>1, <2>1, <2>2 DEF Handshaking
<1>3. TypeOK'
  <2>1. insts' \in [Ids -> Inst]
    <3>1. Handshaking \in Inst
      BY DEF Handshaking, Inst
    <3>2. insts \in [Ids -> Inst] /\ insts' = [insts EXCEPT ![next_id] = Handshaking]
      BY DEF IInv, TypeOK, AcceptInbound
    <3> QED BY <3>1, <3>2
  <2>2. next_id' \in 0 .. MaxInst
    BY DEF IInv, TypeOK, AcceptInbound
  <2> QED BY <2>1, <2>2 DEF IInv, TypeOK, AcceptInbound, queueVars, clientVars
<1>4. \A s : Of(insts', s) = Of(insts, s)
  BY <1>2 DEF Of
<1>5. \A f : InUse(regs', insts', f) = InUse(regs, insts, f)
  BY <1>2 DEF InUse, AcceptInbound
<1>6. \A i \in Ids, f \in Fds : insts'[i].cfd = f => insts'[i] = insts[i]
  <2>1. insts \in [Ids -> Inst] /\ insts' = [insts EXCEPT ![next_id] = Handshaking]
    BY DEF IInv, TypeOK, AcceptInbound
  <2> QED BY <2>1, <1>1, <1>2
<1>7. Facts'
  <2>1. CountersExact'
    <3>1. CountersExact /\ regs' = regs
      BY DEF IInv, AcceptInbound
    <3> QED BY <1>4, <3>1 DEF CountersExact, Offered
  <2>2. LimitHeld' /\ OwnerCallbackFresh' /\ DiskInSync'
    BY DEF IInv, AcceptInbound, LimitHeld, OwnerCallbackFresh, DiskInSync, Offered, Spent,
       OwnFile, queueVars, clientVars
  <2>3. OwnerSocketUsed'
    BY <1>5 DEF IInv, AcceptInbound, OwnerSocketUsed
  <2>4. OneStream'
    BY <1>6 DEF IInv, AcceptInbound, OneStream, Users
  <2> QED BY <2>1, <2>2, <2>3, <2>4 DEF Facts
<1>8. SerialFacts' /\ RetireFacts' /\ StoppedFacts'
  BY DEF IInv, SerialFacts, RetireFacts, StoppedFacts, AcceptInbound, Offered, Spent,
     queueVars, clientVars
<1>9. InstFacts'
  BY <1>1, <1>3 DEF IInv, TypeOK, InstFacts, AcceptInbound, Handshaking, Ids
<1> QED BY <1>3, <1>7, <1>8, <1>9 DEF IInv, Facts

\* An instance that starts is counted once, on the offer it was resolved to.
LEMMA ResolveStep ==
  ASSUME IInv, NEW i \in Ids, NEW n \in Names, Resolve(i, n) PROVE IInv'
<1> USE BoundAssumption, NameAssumption
<1> DEFINE r == regs[n]
<1>1. /\ r \in Reg /\ r.serial # 0 /\ r.serial < next_serial
      /\ insts[i].serial = 0 /\ insts[i].cfd = None /\ insts[i].state = "handshake"
  BY DEF IInv, TypeOK, InstFacts, SerialFacts, Resolve, Offered
<1>2. /\ regs'[n] = [serial |-> r.serial, limit |-> r.limit, started |-> r.started + 1,
                     active |-> r.active + 1, finished |-> r.finished,
                     owner_fd |-> r.owner_fd]
      /\ \A m \in Names : m # n => regs'[m] = regs[m]
      /\ insts'[i] = [state |-> "open", name |-> n, serial |-> r.serial,
                      cfd |-> r.owner_fd, full |-> FALSE]
      /\ \A j \in Ids : j # i => insts'[j] = insts[j]
  BY DEF IInv, TypeOK, Resolve
<1>3. TypeOK'
  <2>1. regs' \in [Names -> Reg]
    BY <1>1, <1>2 DEF IInv, TypeOK, Resolve, Reg
  <2>2. insts' \in [Ids -> Inst]
    BY <1>1, <1>2 DEF IInv, TypeOK, Resolve, Inst, Reg
  <2>3. want_retire' \in SUBSET Serials
    <3>1. want_retire \in SUBSET Serials /\ r.serial \in Serials
      BY <1>1 DEF IInv, TypeOK, Reg, Serials
    <3>2. want_retire' \in {want_retire, want_retire \cup {r.serial}}
      BY DEF Resolve
    <3> QED BY <3>1, <3>2
  <2>4. served' \in [Names -> Nat]
    <3>1. served \in [Names -> Nat]
      BY DEF IInv, TypeOK
    <3>2. served' = [served EXCEPT ![n] = IF r.limit = 0 \/ served[n] > r.limit
                                          THEN served[n] ELSE served[n] + 1]
      BY DEF Resolve
    <3> QED BY <3>1, <3>2
  <2> QED BY <2>1, <2>2, <2>3, <2>4 DEF IInv, TypeOK, Resolve, clientVars
<1>4. CountersExact'
  <2> SUFFICES ASSUME NEW m \in Names, regs'[m].serial # 0
               PROVE  /\ regs'[m].active = Cardinality(Of(insts', regs'[m].serial))
                      /\ regs'[m].started = regs'[m].active + regs'[m].finished
    BY DEF CountersExact, Offered
  <2>1. CASE m = n
    <3>1. Of(insts', r.serial) = Of(insts, r.serial) \cup {i} /\ i \notin Of(insts, r.serial)
      BY <1>1, <1>2 DEF Of
    <3>2. Cardinality(Of(insts', r.serial)) = Cardinality(Of(insts, r.serial)) + 1
      BY <3>1, IdsFinite, FS_AddElement
    <3> QED BY <2>1, <3>2, <1>1, <1>2 DEF IInv, CountersExact, Offered, Reg
  <2>2. CASE m # n
    <3>1. regs'[m] = regs[m] /\ regs[m].serial # r.serial
      BY <2>2, <1>1, <1>2 DEF IInv, SerialFacts, Offered
    <3>2. Of(insts', regs[m].serial) = Of(insts, regs[m].serial)
      BY <3>1, <1>1, <1>2 DEF Of
    <3> QED BY <3>1, <3>2 DEF IInv, CountersExact, Offered
  <2> QED BY <2>1, <2>2
<1>5. LimitHeld'
  BY <1>1, <1>2 DEF IInv, LimitHeld, Resolve, Offered, Spent, Reg, Limits
<1>6. \A f : InUse(regs', insts', f) = InUse(regs, insts, f) \/ f = None
  BY <1>1, <1>2 DEF InUse
<1>7. OwnerSocketUsed'
  BY <1>6 DEF IInv, OwnerSocketUsed, Resolve
<1>8. \A m \in Names : /\ regs'[m].serial = regs[m].serial
                       /\ regs'[m].limit = regs[m].limit
                       /\ regs'[m].owner_fd = regs[m].owner_fd
  BY <1>2
<1>9. OwnerCallbackFresh'
  BY <1>8 DEF IInv, OwnerCallbackFresh, Resolve, clientVars
<1>10. OneStream'
  BY <1>2 DEF IInv, OneStream, OwnerCallbackFresh, Users, Resolve
<1>11. DiskInSync'
  BY <1>8 DEF IInv, DiskInSync, Resolve, Offered, OwnFile
<1>12. SerialFacts'
  BY <1>1, <1>2, <1>8 DEF IInv, SerialFacts, Resolve, Offered
<1>13. InstFacts'
  <2>1. i < next_id
    BY <1>1 DEF IInv, TypeOK, InstFacts, Ids
  <2> QED BY <2>1, <1>1, <1>2, <1>8 DEF IInv, TypeOK, InstFacts, SerialFacts, Resolve,
          Offered, Ids
<1>14. RetireFacts'
  BY <1>1, <1>2 DEF IInv, RetireFacts, SerialFacts, Resolve, Spent, Reg, Limits, Offered
<1>15. StoppedFacts'
  BY DEF StoppedFacts, Resolve
<1> QED BY <1>3, <1>4, <1>5, <1>7, <1>9, <1>10, <1>11, <1>12, <1>13, <1>14, <1>15 DEF IInv

\* The table, the instances' serials and names and the sockets do not move.
Still ==
  /\ regs' = regs /\ disk' = disk /\ sock' = sock
  /\ next_id' = next_id /\ next_serial' = next_serial
  /\ running' = running /\ running
  /\ want_retire' = want_retire
  /\ \A i \in Ids : /\ insts'[i].serial = insts[i].serial
                    /\ insts'[i].name = insts[i].name
                    /\ insts'[i].cfd = insts[i].cfd
                    /\ insts'[i].state = insts[i].state
  /\ \A f \in Fds : /\ watch'[f].name = watch[f].name
                    /\ watch'[f].serial = watch[f].serial
                    /\ watch'[f].mode = "off" <=> watch[f].mode = "off"
                    /\ watch'[f].mode = "paused" => data'[f]

\* A step that moves no registration and no instance keeps the invariant.
LEMMA StillStep == ASSUME IInv, Still, TypeOK' PROVE IInv'
<1>1. \A s : Of(insts', s) = Of(insts, s)
  BY DEF Still, Of
<1>2. CountersExact'
  <2>1. CountersExact /\ regs' = regs
    BY DEF IInv, Still
  <2> QED BY <1>1, <2>1 DEF CountersExact, Offered
<1>7. LimitHeld'
  BY DEF IInv, Still, LimitHeld, Offered, Spent
<1>8. \A f : InUse(regs', insts', f) <=> InUse(regs, insts, f)
  BY DEF Still, InUse
<1>9. OwnerSocketUsed'
  BY <1>8 DEF IInv, Still, OwnerSocketUsed
<1>3. OneStream'
  BY DEF IInv, Still, OneStream, Users
<1>4. OwnerCallbackFresh'
  BY DEF IInv, Still, OwnerCallbackFresh
<1>5. DiskInSync' /\ SerialFacts' /\ RetireFacts' /\ StoppedFacts'
  BY DEF IInv, Still, DiskInSync, SerialFacts, RetireFacts, StoppedFacts, Offered, Spent,
     OwnFile
<1>6. InstFacts'
  BY DEF IInv, Still, InstFacts
<1> QED BY <1>2, <1>3, <1>4, <1>5, <1>6, <1>7, <1>9 DEF IInv

\* A callback that only asks to close, or only moves bytes, leaves the table
\* alone.
LEMMA InstanceBytesStep ==
  ASSUME IInv, NEW i \in Ids, LocalShutdown(i) \/ TunnelDrained(i) PROVE IInv'
<1> USE DEF clientVars, queueVars
<1>1. CASE LocalShutdown(i)
  <2>1. Still
    BY <1>1 DEF LocalShutdown, Still, IInv, OwnerCallbackFresh
  <2>2. TypeOK'
    BY <1>1 DEF LocalShutdown, IInv, TypeOK
  <2> QED BY <2>1, <2>2, StillStep
<1>2. CASE TunnelDrained(i)
  <2>1. \A j \in Ids : insts'[j] = IF j = i THEN [insts[i] EXCEPT !.full = FALSE] ELSE insts[j]
    BY <1>2 DEF TunnelDrained, IInv, TypeOK
  <2>2. insts' \in [Ids -> Inst]
    <3>1. insts \in [Ids -> Inst] /\ insts' = [insts EXCEPT ![i].full = FALSE]
      BY <1>2 DEF TunnelDrained, IInv, TypeOK
    <3>2. [insts[i] EXCEPT !.full = FALSE] \in Inst
      BY <3>1 DEF Inst
    <3> QED BY <3>1, <3>2
  <2>3. TypeOK'
    BY <1>2, <2>2 DEF TunnelDrained, IInv, TypeOK
  <2>4. \A j \in Ids : /\ insts'[j].serial = insts[j].serial /\ insts'[j].name = insts[j].name
                       /\ insts'[j].cfd = insts[j].cfd /\ insts'[j].state = insts[j].state
    BY <2>1 DEF IInv, TypeOK, Inst
  <2>5. Still
    BY <1>2, <2>4 DEF TunnelDrained, Still, IInv, OwnerCallbackFresh
  <2> QED BY <2>3, <2>5, StillStep
<1> QED BY <1>1, <1>2

\* Nor do the bytes and the end of an owner process touch the table.
LEMMA OwnerBytesStep ==
  ASSUME IInv, NEW f \in Fds,
         OwnerForward(f) \/ OwnerPause(f) \/ OwnerWrite(f) \/ OwnerExit(f)
  PROVE  IInv'
<1> USE DEF clientVars, queueVars
<1>3. CASE OwnerForward(f)
  <2>0. PICK K \in SUBSET Users(insts, f) :
          insts' = [j \in Ids |->
                      IF j \in K THEN [insts[j] EXCEPT !.full = TRUE] ELSE insts[j]]
    BY <1>3 DEF OwnerForward
  <2>1. insts' \in [Ids -> Inst]
    <3>1. ASSUME NEW r \in Inst PROVE [r EXCEPT !.full = TRUE] \in Inst
      BY DEF Inst
    <3>2. insts \in [Ids -> Inst]
      BY DEF IInv, TypeOK
    <3> QED BY <2>0, <3>1, <3>2
  <2>2. data' \in [Fds -> BOOLEAN] /\ \A g \in Fds : g # f => data'[g] = data[g]
    BY <1>3 DEF OwnerForward, IInv, TypeOK
  <2>3. TypeOK'
    BY <1>3, <2>1, <2>2 DEF OwnerForward, IInv, TypeOK
  <2>4. \A j \in Ids : /\ insts'[j].serial = insts[j].serial /\ insts'[j].name = insts[j].name
                       /\ insts'[j].cfd = insts[j].cfd /\ insts'[j].state = insts[j].state
    BY <2>0 DEF IInv, TypeOK, Inst
  <2>5. Still
    BY <1>3, <2>2, <2>4 DEF OwnerForward, Still, IInv, OwnerCallbackFresh
  <2> QED BY <2>3, <2>5, StillStep
<1>4. CASE OwnerPause(f)
  <2>1. watch' \in [Fds -> Watch]
    <3>1. watch \in [Fds -> Watch] /\ watch' = [watch EXCEPT ![f] = [watch[f] EXCEPT !.mode = "paused"]]
      BY <1>4 DEF OwnerPause, IInv, TypeOK
    <3>2. ASSUME NEW w \in Watch PROVE [w EXCEPT !.mode = "paused"] \in Watch
      BY DEF Watch
    <3> QED BY <3>1, <3>2
  <2>2. TypeOK'
    BY <1>4, <2>1 DEF OwnerPause, IInv, TypeOK
  <2>3. \A g \in Fds : /\ watch'[g].name = watch[g].name
                       /\ watch'[g].serial = watch[g].serial
                       /\ watch'[g].mode = "off" <=> watch[g].mode = "off"
                       /\ watch'[g].mode = "paused" => data'[g]
    BY <1>4 DEF OwnerPause, IInv, TypeOK, Watch, OwnerCallbackFresh
  <2>4. Still
    BY <1>4, <2>3 DEF OwnerPause, Still
  <2> QED BY <2>2, <2>4, StillStep
<1>5. CASE OwnerWrite(f)
  <2>1. running
    BY <1>5 DEF OwnerWrite, IInv, StoppedFacts
  <2>2. TypeOK'
    BY <1>5 DEF OwnerWrite, IInv, TypeOK
  <2>3. \A g \in Fds : data[g] => data'[g]
    BY <1>5 DEF OwnerWrite, IInv, TypeOK
  <2>4. Still
    BY <1>5, <2>1, <2>3 DEF OwnerWrite, Still, IInv, OwnerCallbackFresh
  <2> QED BY <2>2, <2>4, StillStep
<1>6. CASE OwnerExit(f)
  <2>1. running
    BY <1>6 DEF OwnerExit, IInv, StoppedFacts
  <2>2. TypeOK'
    BY <1>6 DEF OwnerExit, IInv, TypeOK
  <2>3. Still
    BY <1>6, <2>1 DEF OwnerExit, Still, IInv, OwnerCallbackFresh
  <2> QED BY <2>2, <2>3, StillStep
<1> QED BY <1>3, <1>4, <1>5, <1>6

\* A closing socket belongs to nobody: its number may go back to the kernel.
LEMMA FlushStep == ASSUME IInv, NEW f \in Fds, ClientFlushed(f) PROVE IInv'
<1> USE DEF clientVars, queueVars
<1>1. TypeOK'
  BY DEF ClientFlushed, IInv, TypeOK
<1>2. \A g \in Fds : /\ sock'[g] = "open" <=> sock[g] = "open"
                     /\ sock[g] = "free" => sock'[g] = "free"
  BY DEF ClientFlushed, IInv, TypeOK
<1>3. CountersExact' /\ LimitHeld' /\ OneStream' /\ DiskInSync'
  BY DEF ClientFlushed, IInv, CountersExact, LimitHeld, OneStream, DiskInSync, Offered,
     Spent, Users, OwnFile, Of
<1>4. OwnerSocketUsed' /\ OwnerCallbackFresh'
  BY <1>2 DEF ClientFlushed, IInv, OwnerSocketUsed, OwnerCallbackFresh, InUse
<1>5. SerialFacts' /\ InstFacts' /\ RetireFacts' /\ StoppedFacts'
  BY <1>2 DEF ClientFlushed, IInv, SerialFacts, InstFacts, RetireFacts, StoppedFacts,
     Offered, Spent
<1> QED BY <1>1, <1>3, <1>4, <1>5 DEF IInv

\* A process that ends leaves only the files.
LEMMA GoneStep ==
  ASSUME ProcessGone, disk' \in [Names -> Limits \cup {NoFile}], served' \in [Names -> Nat]
  PROVE  IInv'
<1> USE BoundAssumption, NameAssumption
<1>1. TypeOK'
  <2>1. NoReg \in Reg /\ NoInst \in Inst /\ NoWatch \in Watch
    BY DEF Reg, NoReg, Inst, NoInst, Watch, NoWatch, Limits
  <2>2. 0 \in 0 .. MaxInst /\ 1 \in 1 .. MaxSerial + 1
    OBVIOUS
  <2> QED BY <2>1, <2>2 DEF ProcessGone, TypeOK
<1>2. Facts'
  BY DEF ProcessGone, Facts, CountersExact, LimitHeld, OwnerSocketUsed, OwnerCallbackFresh,
         OneStream, DiskInSync, Offered, Spent, InUse, Users, NoReg, NoInst, NoWatch
<1>3. SerialFacts' /\ InstFacts' /\ RetireFacts' /\ StoppedFacts'
  BY DEF ProcessGone, SerialFacts, InstFacts, RetireFacts, StoppedFacts, Offered, Spent,
         NoReg, NoInst, NoWatch
<1> QED BY <1>1, <1>2, <1>3 DEF IInv, Facts

\* A registration takes a name that is free and a serial nobody has.
LEMMA RegisterStep ==
  ASSUME IInv, NEW n \in Names, NEW l \in Limits, NEW g \in Fds \cup {None},
         AddReg(n, l, g), ~ Offered(n), running, running' = running,
         UNCHANGED <<insts, next_id, queueVars>>,
         TypeOK', OwnerSocketUsed', OwnerCallbackFresh', OneStream', DiskInSync'
  PROVE  IInv'
<1> USE BoundAssumption, NameAssumption DEF queueVars
<1>1. /\ regs'[n] = [serial |-> next_serial, limit |-> l, started |-> 0, active |-> 0,
                     finished |-> 0, owner_fd |-> g]
      /\ \A m \in Names : m # n => regs'[m] = regs[m]
      /\ next_serial' = next_serial + 1 /\ next_serial \in Nat /\ next_serial # 0
  BY DEF AddReg, IInv, TypeOK
<1>2. CountersExact'
  <2> SUFFICES ASSUME NEW m \in Names, regs'[m].serial # 0
               PROVE  /\ regs'[m].active = Cardinality(Of(insts', regs'[m].serial))
                      /\ regs'[m].started = regs'[m].active + regs'[m].finished
    BY DEF CountersExact, Offered
  <2>1. CASE m = n
    <3>1. Of(insts', next_serial) = {}
      BY DEF Of, IInv, TypeOK, Inst, InstFacts
    <3>2. Cardinality(Of(insts', next_serial)) = 0
      BY <3>1, FS_EmptySet
    <3> QED BY <2>1, <3>2, <1>1
  <2>2. CASE m # n
    <3>1. CountersExact /\ regs'[m] = regs[m] /\ insts' = insts
      BY <2>2, <1>1 DEF IInv
    <3> QED BY <3>1 DEF CountersExact, Offered
  <2> QED BY <2>1, <2>2
<1>3. LimitHeld'
  BY <1>1 DEF IInv, LimitHeld, Offered, Spent, Limits
<1>4. SerialFacts'
  <2>1. /\ \A m \in Names : regs[m].serial \in Nat /\ regs[m].serial < next_serial
        /\ regs'[n].serial = next_serial
        /\ \A s \in want_retire : s \in Nat /\ s < next_serial
    BY <1>1 DEF IInv, TypeOK, Reg, SerialFacts, Serials
  <2>2. \A m \in Names : regs'[m].serial < next_serial'
    BY <1>1, <2>1
  <2>3. \A m, k \in Names : regs'[m].serial # 0 /\ regs'[m].serial = regs'[k].serial => m = k
    <3> SUFFICES ASSUME NEW m \in Names, NEW k \in Names, regs'[m].serial # 0,
                        regs'[m].serial = regs'[k].serial, m # k
                 PROVE  FALSE
      OBVIOUS
    <3>1. CASE m = n \/ k = n
      BY <3>1, <1>1, <2>1
    <3>2. CASE m # n /\ k # n
      BY <3>2, <1>1 DEF IInv, SerialFacts, Offered
    <3> QED BY <3>1, <3>2
  <2>4. \A m \in Names : regs'[m].serial = 0 => regs'[m] = NoReg
    BY <1>1 DEF IInv, SerialFacts, Offered
  <2> QED BY <1>1, <2>1, <2>2, <2>3, <2>4 DEF SerialFacts, Offered
<1>5. InstFacts'
  BY <1>1 DEF IInv, TypeOK, Inst, InstFacts
<1>6. RetireFacts'
  BY <1>1 DEF IInv, TypeOK, RetireFacts, SerialFacts, Serials, Spent
<1>7. StoppedFacts'
  BY DEF StoppedFacts
<1> QED BY <1>2, <1>3, <1>4, <1>5, <1>6, <1>7 DEF IInv

\* add_reg keeps the types of the table and of the serials.
LEMMA AddRegType ==
  ASSUME TypeOK, NEW n \in Names, NEW l \in Limits, NEW g \in Fds \cup {None}, AddReg(n, l, g)
  PROVE  /\ regs' \in [Names -> Reg] /\ next_serial' \in 1 .. MaxSerial + 1
         /\ served' \in [Names -> Nat]
<1>1. [serial |-> next_serial, limit |-> l, started |-> 0, active |-> 0,
       finished |-> 0, owner_fd |-> g] \in Reg
  BY BoundAssumption DEF AddReg, TypeOK, Reg
<1> QED BY <1>1, BoundAssumption DEF AddReg, TypeOK

\* REGISTER of a daemon-owned pipe is such a registration.
LEMMA RegisterOwnedStep ==
  ASSUME IInv, NEW n \in Names, NEW l \in Limits, RegisterOwned(n, l) PROVE IInv'
<1> USE BoundAssumption, NameAssumption DEF queueVars, clientVars
<1>1. AddReg(n, l, None) /\ disk' = [disk EXCEPT ![Sanitize[n]] = l]
  BY DEF RegisterOwned
<1>2. regs'[n].owner_fd = None /\ regs'[n].limit = l /\ regs'[n].serial # 0
      /\ \A m \in Names : m # n => regs'[m] = regs[m]
  BY <1>1 DEF AddReg, IInv, TypeOK
<1>3. regs[n].owner_fd = None
  BY DEF RegisterOwned, IInv, SerialFacts, NoReg
<1>4. TypeOK'
  <2>1. disk' \in [Names -> Limits \cup {NoFile}]
    BY <1>1 DEF IInv, TypeOK
  <2>2. TypeOK
    BY DEF IInv
  <2>3. regs' \in [Names -> Reg] /\ next_serial' \in 1 .. MaxSerial + 1
        /\ served' \in [Names -> Nat]
    BY <1>1, <2>2, AddRegType
  <2> QED BY <2>1, <2>3 DEF RegisterOwned, IInv, TypeOK
<1>5. \A f \in Fds : InUse(regs', insts', f) <=> InUse(regs, insts, f)
  BY <1>2, <1>3 DEF InUse, RegisterOwned
<1>6. OwnerSocketUsed'
  BY <1>5 DEF IInv, OwnerSocketUsed, RegisterOwned
<1>7. OwnerCallbackFresh' /\ OneStream'
  BY <1>2 DEF IInv, OwnerCallbackFresh, OneStream, Users, RegisterOwned
<1>8. DiskInSync'
  <2> SUFFICES ASSUME NEW m \in Names, OwnFile(m)
               PROVE  disk'[m] = IF regs'[m].serial # 0 /\ regs'[m].owner_fd = None
                                 THEN regs'[m].limit ELSE NoFile
    BY DEF DiskInSync, Offered, OwnFile
  <2>1. CASE m = n
    BY <2>1, <1>1, <1>2 DEF OwnFile, IInv, TypeOK
  <2>2. CASE m # n
    <3>1. disk'[m] = disk[m] /\ regs'[m] = regs[m]
      BY <2>2, <1>1, <1>2 DEF OwnFile, IInv, TypeOK
    <3> QED BY <3>1 DEF IInv, DiskInSync, RegisterOwned, Offered
  <2> QED BY <2>1, <2>2
<1> QED BY <1>1, <1>4, <1>6, <1>7, <1>8, RegisterStep DEF RegisterOwned

\* So is REGISTER of a PIPE, on a descriptor nobody uses.
LEMMA RegisterPipeStep ==
  ASSUME IInv, NEW n \in Names, NEW l \in Limits, NEW f \in Fds, RegisterPipe(n, l, f)
  PROVE  IInv'
<1> USE BoundAssumption, NameAssumption DEF queueVars, clientVars
<1>1. AddReg(n, l, f) /\ ~ InUse(regs, insts, f)
  BY DEF RegisterPipe, IInv, OwnerSocketUsed
<1>2. regs'[n].owner_fd = f /\ regs'[n].serial = next_serial
      /\ \A m \in Names : m # n => regs'[m] = regs[m]
  BY <1>1 DEF AddReg, IInv, TypeOK
<1>3. regs[n] = NoReg
  BY DEF RegisterPipe, IInv, SerialFacts
<1>4. /\ sock'[f] = "open" /\ watch'[f] = [mode |-> "polled", name |-> n, serial |-> next_serial]
      /\ \A h \in Fds : h # f => /\ sock'[h] = sock[h] /\ watch'[h] = watch[h]
                                 /\ data'[h] = data[h]
  BY DEF RegisterPipe, IInv, TypeOK
<1>5. TypeOK'
  <2>1. TypeOK /\ next_serial <= MaxSerial
    BY <1>1 DEF IInv, AddReg
  <2>2. regs' \in [Names -> Reg] /\ next_serial' \in 1 .. MaxSerial + 1
        /\ served' \in [Names -> Nat]
    BY <1>1, <2>1, AddRegType
  <2>3. watch' \in [Fds -> Watch]
    <3>1. [mode |-> "polled", name |-> n, serial |-> next_serial] \in Watch
      BY <2>1 DEF Watch, TypeOK
    <3> QED BY <3>1, <2>1 DEF RegisterPipe, TypeOK
  <2> QED BY <2>1, <2>2, <2>3 DEF RegisterPipe, TypeOK
<1>6. OwnerSocketUsed'
  <2> SUFFICES ASSUME NEW h \in Fds PROVE sock'[h] = "open" <=> InUse(regs', insts', h)
    BY DEF OwnerSocketUsed
  <2>1. CASE h = f
    BY <2>1, <1>2, <1>4 DEF InUse
  <2>2. CASE h # f
    <3>1. InUse(regs', insts', h) <=> InUse(regs, insts, h)
      BY <2>2, <1>2, <1>3 DEF InUse, RegisterPipe, NoReg
    <3> QED BY <3>1, <2>2, <1>4 DEF IInv, OwnerSocketUsed
  <2> QED BY <2>1, <2>2
<1>7. OwnerCallbackFresh'
  <2> SUFFICES ASSUME NEW h \in Fds
               PROVE  /\ sock'[h] = "open" <=> watch'[h].mode # "off"
                      /\ watch'[h].mode = "paused" => data'[h]
                      /\ \A m \in Names : regs'[m].owner_fd = h =>
                           watch'[h].name = m /\ watch'[h].serial = regs'[m].serial
    BY DEF OwnerCallbackFresh
  <2>1. CASE h = f
    BY <2>1, <1>1, <1>2, <1>4 DEF InUse
  <2>2. CASE h # f
    BY <2>2, <1>2, <1>4 DEF IInv, OwnerCallbackFresh
  <2> QED BY <2>1, <2>2
<1>8. OneStream'
  BY <1>1, <1>4 DEF IInv, OneStream, Users, InUse, RegisterPipe
<1>9. DiskInSync'
  BY <1>2, <1>3 DEF IInv, DiskInSync, RegisterPipe, Offered, OwnFile, NoReg
<1> QED BY <1>1, <1>5, <1>6, <1>7, <1>8, <1>9, RegisterStep DEF RegisterPipe

\* A restarted daemon numbers what it finds on disk and has no instances.
LEMMA StartStep ==
  ASSUME IInv, NEW order \in [Names -> 0 .. Cardinality(Names)], Numbering(order), Start(order)
  PROVE  IInv'
<1> USE BoundAssumption, NameAssumption DEF queueVars, clientVars
<1> DEFINE found == {n \in Names : disk[n] # NoFile}
<1>1. /\ \A n \in Names : insts' = insts /\ regs[n] = NoReg
      /\ \A i \in Ids : insts[i] = NoInst
      /\ \A f \in Fds : sock[f] = "free" /\ watch[f] = NoWatch
      /\ want_retire = {} /\ insts' = insts
  BY DEF Start, IInv, StoppedFacts
<1>2. IsFiniteSet(found) /\ Cardinality(found) \in Nat /\ Cardinality(found) <= MaxSerial
      /\ Cardinality(Names) \in Nat
  BY FS_Subset, FS_CardinalityType
<1>3. /\ \A n \in found : /\ regs'[n].serial = order[n] /\ regs'[n].limit = disk[n]
                           /\ regs'[n].started = 0 /\ regs'[n].active = 0
                           /\ regs'[n].finished = 0 /\ regs'[n].owner_fd = None
      /\ \A n \in Names \ found : regs'[n] = NoReg
  BY DEF Start
<1>4. /\ \A n \in found : order[n] \in 1 .. Cardinality(found)
      /\ \A n, m \in found : order[n] = order[m] => n = m
  BY DEF Numbering
<1>5. \A n \in Names : /\ n \in found => disk[n] \in Limits
                       /\ n \notin found => disk[n] = NoFile
  BY DEF IInv, TypeOK
<1>6. TypeOK'
  <2>1. ASSUME NEW n \in Names PROVE regs'[n] \in Reg
    <3>1. CASE n \in found
      <4>1. order[n] \in 0 .. MaxSerial /\ disk[n] \in Limits
        BY <3>1, <1>2, <1>4, <1>5
      <4>2. regs'[n] = [serial |-> order[n], limit |-> disk[n], started |-> 0,
                        active |-> 0, finished |-> 0, owner_fd |-> None]
        BY <3>1 DEF Start
      <4> QED BY <4>1, <4>2 DEF Reg
    <3>2. CASE n \notin found
      BY <3>2, <1>3 DEF Reg, NoReg, Limits
    <3> QED BY <3>1, <3>2
  <2>2. regs' \in [Names -> Reg]
    BY <2>1 DEF Start
  <2>3. next_serial' \in 1 .. MaxSerial + 1
    BY <1>2 DEF Start
  <2> QED BY <2>2, <2>3 DEF Start, IInv, TypeOK
<1>7. \A n \in Names : regs'[n].owner_fd = None /\ regs'[n].started = 0
                       /\ regs'[n].active = 0 /\ regs'[n].finished = 0
  <2> HIDE DEF found
  <2>1. found \subseteq Names
    BY DEF found
  <2> QED BY <1>3, <2>1 DEF NoReg
<1>8. CountersExact'
  <2> SUFFICES ASSUME NEW n \in Names, regs'[n].serial # 0
               PROVE  /\ regs'[n].active = Cardinality(Of(insts', regs'[n].serial))
                      /\ regs'[n].started = regs'[n].active + regs'[n].finished
    BY DEF CountersExact, Offered
  <2>1. Of(insts', regs'[n].serial) = {}
    BY <1>1 DEF Of, NoInst
  <2> QED BY <2>1, <1>7, FS_EmptySet
<1>9. LimitHeld'
  BY <1>6, <1>7 DEF LimitHeld, Spent, TypeOK, Reg, Limits
<1>10. OwnerSocketUsed' /\ OwnerCallbackFresh' /\ OneStream'
  BY <1>1, <1>7 DEF Start, OwnerSocketUsed, OwnerCallbackFresh, OneStream, InUse, Users,
     NoInst, NoWatch
<1>11. DiskInSync'
  BY <1>3, <1>4, <1>5, <1>2 DEF Start, DiskInSync, Offered, OwnFile, NoReg
<1>12. SerialFacts'
  <2>1. next_serial' = Cardinality(found) + 1
    BY DEF Start
  <2>2. want_retire' = {}
    BY <1>1 DEF Start
  <2>3. found \subseteq Names
    OBVIOUS
  <2> HIDE DEF found
  <2> QED BY <2>1, <2>2, <2>3, <1>2, <1>3, <1>4 DEF SerialFacts, Offered, NoReg
<1>13. InstFacts'
  <2>1. next_serial' \in Nat /\ next_serial' > 0
    BY <1>2 DEF Start
  <2>2. \A i \in Ids : insts'[i] = NoInst
    BY <1>1
  <2> QED BY <2>1, <2>2 DEF InstFacts, NoInst
<1>14. RetireFacts' /\ StoppedFacts'
  BY <1>1 DEF Start, RetireFacts, StoppedFacts
<1> QED BY <1>6, <1>8, <1>9, <1>10, <1>11, <1>12, <1>13, <1>14 DEF IInv

-----------------------------------------------------------------------------

\* A step that leaves want_retire alone forgets no retirement.
LEMMA SameQueues ==
  ASSUME IInv, UNCHANGED queueVars
  PROVE  Resumed(watch) /\ \A D : StillQueued(D)
BY DEF Resumed, StillQueued, IInv, TypeOK, queueVars

\* The callbacks that close one instance.
LEMMA CloseStep ==
  ASSUME IInv, NEW i \in Ids, Reject(i) \/ TunnelGone(i) \/ CloseCmd(i) PROVE IInv'
<1>1. Teardown({}, {i}, watch) /\ Quiet /\ UNCHANGED queueVars
  BY DEF Reject, TunnelGone, CloseCmd, Quiet
<1>2. Resumed(watch) /\ StillQueued({})
  BY <1>1, SameQueues
<1> QED BY <1>1, <1>2, TeardownStep

\* The end of an owner is a teardown of its offer and its instances.
LEMMA OwnerEofStep == ASSUME IInv, NEW f \in Fds, OwnerEof(f) PROVE IInv'
<1> DEFINE D == {n \in Names : /\ n = watch[f].name
                               /\ regs[n].serial = watch[f].serial
                               /\ regs[n].serial # 0}
           K == Users(insts, f)
<1>1. Teardown(D, K, watch) /\ Quiet /\ UNCHANGED queueVars
  BY DEF OwnerEof, Quiet
<1>2. D \in SUBSET Names /\ K \in SUBSET Ids /\ \A n \in D : Offered(n)
  BY DEF Users, Offered
<1> HIDE DEF D, K
<1>3. Resumed(watch) /\ StillQueued(D)
  BY <1>1, SameQueues
<1> QED BY <1>1, <1>2, <1>3, TeardownStep

\* UNREGISTER is a teardown of one registration.
LEMMA UnregisterStep == ASSUME IInv, NEW n \in Names, Unregister(n) PROVE IInv'
<1>1. Teardown({n}, {}, watch) /\ Quiet /\ UNCHANGED queueVars /\ Offered(n)
  BY DEF Unregister, Quiet
<1>2. Resumed(watch) /\ StillQueued({n})
  BY <1>1, SameQueues
<1> QED BY <1>1, <1>2, TeardownStep

\* RESET is a teardown of all registrations and the instances they have.
LEMMA ResetStep == ASSUME IInv, Reset PROVE IInv'
<1> DEFINE D == {n \in Names : Offered(n)}
           K == {i \in Ids : insts[i].serial \in {regs[n].serial : n \in D}}
<1>1. Teardown(D, K, watch) /\ Quiet /\ UNCHANGED queueVars
  BY DEF Reset, Quiet
<1>2. D \in SUBSET Names /\ K \in SUBSET Ids /\ \A n \in D : Offered(n)
  OBVIOUS
<1> HIDE DEF D, K
<1>3. Resumed(watch) /\ StillQueued(D)
  BY <1>1, SameQueues
<1> QED BY <1>1, <1>2, <1>3, TeardownStep

\* The tick is a teardown of what was queued for it.
LEMMA TickStep == ASSUME IInv, Tick PROVE IInv'
<1> DEFINE D == {n \in Names : regs[n].serial \in want_retire}
<1>1. Teardown(D, want_close, ResumeOwners) /\ Quiet
  BY DEF Tick, Quiet
<1>2. D \in SUBSET Names /\ want_close \in SUBSET Ids /\ \A n \in D : Offered(n)
  BY DEF IInv, TypeOK, Serials, Offered
<1>3. StillQueued(D)
  BY DEF Tick, StillQueued
<1>4. Resumed(ResumeOwners)
  BY DEF ResumeOwners, Resumed, IInv, TypeOK, Watch
<1> HIDE DEF D
<1> QED BY <1>1, <1>2, <1>3, <1>4, TeardownStep

\* A crash in the middle of a command may leave a file behind or take some
\* away, and nothing else is left.
LEMMA StopStep == ASSUME IInv, Stop PROVE IInv'
<1>1. disk' \in [Names -> Limits \cup {NoFile}] /\ served' \in [Names -> Nat] /\ ProcessGone
  BY DEF IInv, TypeOK, Stop
<1> QED BY <1>1, GoneStep

\* REGISTER may be cut short before or after the file is written.
LEMMA RegisterCrashStep ==
  ASSUME IInv, NEW n \in Names, NEW l \in Limits, RegisterCrash(n, l) PROVE IInv'
<1>1. PICK saved \in {NoFile, l} : disk' = [disk EXCEPT ![Sanitize[n]] = saved]
  BY DEF RegisterCrash
<1>2. disk' \in [Names -> Limits \cup {NoFile}]
  BY <1>1, NameAssumption DEF IInv, TypeOK
<1>3. served' \in [Names -> Nat] /\ ProcessGone
  BY DEF IInv, TypeOK, RegisterCrash
<1> QED BY <1>2, <1>3, GoneStep

\* RESET may be cut short after some of the files.
LEMMA ResetCrashStep == ASSUME IInv, NEW D \in SUBSET Names, ResetCrash(D) PROVE IInv'
<1>1. disk' \in [Names -> Limits \cup {NoFile}] /\ served' \in [Names -> Nat] /\ ProcessGone
  BY DEF IInv, TypeOK, ResetCrash, WipedFiles
<1> QED BY <1>1, GoneStep

\* A step that changes nothing keeps the invariant.
LEMMA StutterStep == IInv /\ UNCHANGED vars => IInv'
<1> SUFFICES ASSUME IInv, UNCHANGED vars PROVE IInv'
  OBVIOUS
<1>1. TypeOK' /\ CountersExact' /\ LimitHeld'
  BY DEF IInv, vars, TypeOK, CountersExact, LimitHeld, Offered, Spent, Of
<1>2. OwnerSocketUsed' /\ OwnerCallbackFresh' /\ OneStream' /\ DiskInSync'
  BY DEF IInv, vars, OwnerSocketUsed, OwnerCallbackFresh, OneStream, DiskInSync, InUse,
     Users, OwnFile, Offered
<1>3. SerialFacts' /\ InstFacts' /\ RetireFacts' /\ StoppedFacts'
  BY DEF IInv, vars, SerialFacts, InstFacts, RetireFacts, StoppedFacts, Offered, Spent
<1> QED BY <1>1, <1>2, <1>3 DEF IInv

\* One step of the daemon, of its peer or of its users keeps the invariant.
LEMMA IInvStep == IInv /\ [Next]_vars => IInv'
<1> SUFFICES ASSUME IInv, [Next]_vars PROVE IInv'
  OBVIOUS
<1>1. CASE PeerNext
  <2>1. ASSUME NEW i \in Ids,
               \/ \E n \in Names : Resolve(i, n)
               \/ Reject(i) \/ TunnelGone(i) \/ TunnelDrained(i) \/ LocalShutdown(i)
        PROVE  IInv'
    BY <2>1, ResolveStep, CloseStep, InstanceBytesStep
  <2> QED BY <1>1, <2>1, AcceptStep DEF PeerNext
<1>2. CASE OwnerNext
  BY <1>2, OwnerBytesStep, OwnerEofStep, FlushStep DEF OwnerNext
<1>3. CASE CommandNext
  BY <1>3, RegisterOwnedStep, RegisterCrashStep, RegisterPipeStep, UnregisterStep,
     ResetStep, CloseStep DEF CommandNext
<1>4. CASE ProcessNext
  <2>1. ASSUME NEW D \in SUBSET {n \in Names : Offered(n)}, ResetCrash(D) PROVE IInv'
    BY <2>1, ResetCrashStep
  <2> QED BY <1>4, <2>1, TickStep, StopStep, StartStep DEF ProcessNext
<1>5. CASE UNCHANGED vars
  BY <1>5, StutterStep
<1> QED BY <1>1, <1>2, <1>3, <1>4, <1>5 DEF Next

\* The invariant holds throughout every behaviour.
LEMMA IInvAlways == Spec => []IInv
<1>1. Init => IInv
  BY InitIInv
<1>2. IInv /\ [Next]_vars => IInv'
  BY IInvStep
<1> QED BY <1>1, <1>2, PTL DEF Spec

\* Every variable of the session keeps its type: in particular no counter of a
\* registration ever goes below zero.
THEOREM TypeCorrect == Spec => []TypeOK
<1>1. IInv => TypeOK
  BY DEF IInv
<1> QED BY <1>1, IInvAlways, PTL

\* The counters of a registration count its own instances, also when an earlier registration
\* of the name still has some (close_instance).
THEOREM CountersTheorem == Spec => []CountersExact
<1>1. IInv => CountersExact
  BY DEF IInv
<1> QED BY <1>1, IInvAlways, PTL

\* One daemon process starts at most LIMIT instances of a registration and queues it for
\* retirement when they are spent, for any limit.
THEOREM QuotaTheorem == Spec => []LimitHeld
<1>1. IInv => LimitHeld
  BY DEF IInv
<1> QED BY <1>1, IInvAlways, PTL

\* An owner socket stays open exactly as long as a registration or an instance uses it
\* (release_owner_fd).
THEOREM OwnerSocketTheorem == Spec => []OwnerSocketUsed
<1>1. IInv => OwnerSocketUsed
  BY DEF IInv
<1> QED BY <1>1, IInvAlways, PTL

\* A poller callback under a descriptor speaks for the registration that owns the descriptor
\* now, although numbers are reused, and one that is paused has bytes to read.
THEOREM OwnerCallbackTheorem == Spec => []OwnerCallbackFresh
<1>1. IInv => OwnerCallbackFresh
  BY DEF IInv
<1> QED BY <1>1, IInvAlways, PTL

\* The instances on an owner socket all come from the registration that was made with it.
THEOREM OneStreamTheorem == Spec => []OneStream
<1>1. IInv => OneStream
  BY DEF IInv
<1> QED BY <1>1, IInvAlways, PTL

\* While the daemon runs, table and pipe files agree for every name that shares its file with
\* no other, for any sanitize and through crashes at every step.
THEOREM DiskTheorem == Spec => []DiskInSync
<1>1. IInv => DiskInSync
  BY DEF IInv
<1> QED BY <1>1, IInvAlways, PTL

\* The tick never retires a registration in the place of an earlier one.
THEOREM RetirementExact == Spec => RetiresOnlySpent
<1>1. IInv /\ Tick =>
        \A n \in Names : Offered(n) /\ regs'[n].serial = 0 => Spent(regs[n])
  <2> SUFFICES ASSUME IInv, Tick, NEW n \in Names, Offered(n), regs'[n].serial = 0
               PROVE  Spent(regs[n])
    OBVIOUS
  <2> DEFINE D == {m \in Names : regs[m].serial \in want_retire}
  <2>1. regs' = Remaining(D, want_close)
    BY DEF Tick, Teardown
  <2>2. n \in D
    BY <2>1 DEF Remaining, Offered
  <2> QED BY <2>2 DEF IInv, RetireFacts
<1>2. IInv /\ [Next]_vars =>
        [Tick => \A n \in Names : Offered(n) /\ regs'[n].serial = 0 => Spent(regs[n])]_vars
  BY <1>1
<1> QED BY <1>2, IInvAlways, PTL DEF Spec, RetiresOnlySpent
=============================================================================
