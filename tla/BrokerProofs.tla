---------------------------- MODULE BrokerProofs ----------------------------
(***************************************************************************)
(* Proofs about Broker, for every set of workers and grants and every      *)
(* value of the time constants: type correctness, the discipline of the    *)
(* locks, the inductive invariant behind the revocation cut, and from it   *)
(* what a decision to serve may never do: the bounds on the cut, and which *)
(* refused tokens a server clock stepped back may revive.                  *)
(***************************************************************************)
EXTENDS Broker, TLAPS

\* LeaseConfig::with_server_values yields naturals within the compiled budget.
LEMMA ServerValuesFacts ==
  ASSUME NEW a \in Int, NEW b \in Int
  PROVE  /\ ServerValues(<<a, b>>)[1] \in Nat /\ ServerValues(<<a, b>>)[2] \in Nat
         /\ ServerValues(<<a, b>>)[1] + ServerValues(<<a, b>>)[2] <= Budget
  BY TimeAssumption, ClampAssumption DEF ServerValues, Clamp, MaxOf, Budget

\* The initial states are well typed.
LEMMA InitTypeOK == Init => TypeOK
<1> SUFFICES ASSUME Init PROVE TypeOK
  BY Zenon
<1>1. Lease \in Nat /\ Grace \in Nat
  BY TimeAssumption, Zenon
<1>2. slaLease \in [Grants -> Nat] /\ slaGrace \in [Grants -> Nat]
  BY <1>1, Zenon DEF Init
<1>3. /\ confirmTime \in [Grants -> Nat] /\ confirmAt \in [Grants -> Nat] /\ floor \in [Grants -> Nat]
      /\ reqExp \in [Workers -> Nat] /\ attempt \in [Workers -> 0 .. 2]
      /\ attemptAt \in [Workers -> Nat] /\ answerTime \in [Workers -> Nat]
      /\ answerLease \in [Workers -> Int] /\ answerGrace \in [Workers -> Int]
      /\ notLiveSince \in [Grants -> Nat \cup {Live}] /\ now \in Nat /\ serverClock \in Nat
      /\ refusedExp \in [Grants -> Nat \cup {NoExp}]
  BY DEF Init, NoExp, Live
<1>4. /\ leaseHolder \in [Grants -> Workers \cup {NoWorker}] /\ seHolder \in Workers \cup {NoWorker}
      /\ reqGrant \in [Workers -> Grants]
  BY Zenon DEF Init
<1>5. /\ phase \in [Workers -> Phases]
      /\ answer \in [Workers -> {"none", "live", "revoked", "unreachable"}]
  BY Zenon DEF Init, Phases
<1>6. /\ confirmed \in [Grants -> BOOLEAN] /\ answerHasSla \in [Workers -> BOOLEAN]
      /\ outage \in [Grants -> BOOLEAN] /\ steppedBack \in Nat
      /\ shutdown \in BOOLEAN
  BY Zenon DEF Init
<1> QED
  BY <1>2, <1>3, <1>4, <1>5, <1>6, Zenon DEF TypeOK

\* Every step keeps the types.
LEMMA NextTypeOK ==
  TypeOK /\ [Next]_vars => TypeOK'
<1> SUFFICES ASSUME TypeOK, [Next]_vars PROVE TypeOK'
  BY Zenon
<1> USE DEF TypeOK, Phases, Live, NoExp
<1>1. CASE Tick
  BY <1>1 DEF Tick, clockVars, leaseVars, answerVars, historyVars
<1>2. CASE ServerClockStep
  BY <1>2 DEF ServerClockStep, clockVars, leaseVars, answerVars, historyVars
<1>3. CASE Shutdown
  BY <1>3, Zenon DEF Shutdown, clockVars, leaseVars, answerVars, historyVars
<1>4. CASE Restart
  <2>1. Lease \in Nat /\ Grace \in Nat
    BY TimeAssumption, Zenon
  <2>2. slaLease' \in [Grants -> Nat] /\ slaGrace' \in [Grants -> Nat]
    BY <2>1, <1>4, Zenon DEF Restart
  <2>3. /\ confirmTime' \in [Grants -> Nat] /\ confirmAt' \in [Grants -> Nat] /\ floor' \in [Grants -> Nat]
        /\ reqExp' \in [Workers -> Nat] /\ attempt' \in [Workers -> 0 .. 2]
        /\ attemptAt' \in [Workers -> Nat] /\ answerTime' \in [Workers -> Nat]
        /\ answerLease' \in [Workers -> Int] /\ answerGrace' \in [Workers -> Int]
        /\ refusedExp' \in [Grants -> Nat \cup {NoExp}]
        /\ UNCHANGED <<now, serverClock, notLiveSince, reqGrant, outage>>
    BY <1>4 DEF Restart
  <2>4. leaseHolder' \in [Grants -> Workers \cup {NoWorker}] /\ seHolder' \in Workers \cup {NoWorker}
    BY <1>4, Zenon DEF Restart
  <2>5. /\ phase' \in [Workers -> Phases]
        /\ answer' \in [Workers -> {"none", "live", "revoked", "unreachable"}]
    BY <1>4, Zenon DEF Restart
  <2>6. /\ confirmed' \in [Grants -> BOOLEAN] /\ answerHasSla' \in [Workers -> BOOLEAN]
        /\ steppedBack' \in Nat /\ shutdown' \in BOOLEAN
    BY <1>4, Zenon DEF Restart
  <2> QED
    BY <2>2, <2>3, <2>4, <2>5, <2>6, Zenon DEF clockVars
<1>5. CASE UNCHANGED vars
  BY <1>5, Zenon DEF vars, clockVars, leaseVars, answerVars, historyVars
<1>6. ASSUME NEW g \in Grants, Confirm(g) PROVE TypeOK'
  BY <1>6, Zenon DEF Confirm, clockVars, leaseVars, answerVars, historyVars
<1>7. ASSUME NEW g \in Grants, Revoke(g) PROVE TypeOK'
  BY <1>7, Zenon DEF Revoke, clockVars, leaseVars, answerVars, historyVars
<1>8. ASSUME NEW w \in Workers, Accept(w) \/ WorkerStep(w) PROVE TypeOK'
  <2>1. CASE Accept(w)
    BY <2>1, ExpiryAssumption DEF Accept, clockVars, leaseVars, answerVars, historyVars
  <2>2. CASE DecideLeased(w)
    <3>1. phase' \in [Workers -> Phases] /\ refusedExp' \in [Grants -> Nat \cup {NoExp}]
      BY <2>2, Zenon DEF DecideLeased, ExpDecision, MaxOf
    <3> QED
      BY <2>2, <3>1, Zenon DEF DecideLeased, Unlock, clockVars, leaseVars, answerVars
  <2>3. CASE DecideReconfirm(w)
    BY <2>3 DEF DecideReconfirm, clockVars, leaseVars, answerVars, historyVars
  <2>4. CASE ServerAffirms(w)
    BY <2>4, Zenon DEF ServerAffirms, AffirmedAt, clockVars, leaseVars, answerVars, historyVars
  <2>5. CASE ServerAffirmsWithSla(w)
    BY <2>5, SlaAssumption, Zenon DEF ServerAffirmsWithSla, AffirmedAt, clockVars, leaseVars, historyVars
  <2>6. CASE ServerDenies(w)
    BY <2>6, Zenon DEF ServerDenies, clockVars, leaseVars, answerVars, historyVars
  <2>7. CASE AttemptFails(w)
    BY <2>7 DEF AttemptFails, clockVars, leaseVars, answerVars, historyVars
  <2>8. CASE QueryUnreachable(w)
    BY <2>8, Zenon DEF QueryUnreachable, clockVars, leaseVars, answerVars, historyVars
  <2>9. CASE OnLive(w)
    <3> DEFINE g == reqGrant[w]
               values == ServerValues(<<answerLease[w], answerGrace[w]>>)
    <3>1. g \in Grants /\ answerLease[w] \in Int /\ answerGrace[w] \in Int
      BY Zenon
    <3>2. values[1] \in Nat /\ values[2] \in Nat
      BY <3>1, ServerValuesFacts, Zenon
    <3> HIDE DEF values
    <3>3. slaLease' \in [Grants -> Nat] /\ slaGrace' \in [Grants -> Nat]
      BY <2>9, <3>1, <3>2, Zenon DEF OnLive, values
    <3>4. /\ floor' \in [Grants -> Nat] /\ confirmTime' \in [Grants -> Nat]
          /\ confirmAt' \in [Grants -> Nat] /\ confirmed' \in [Grants -> BOOLEAN]
      BY <2>9, Zenon DEF OnLive, Anchor, MaxOf
    <3>5. phase' \in [Workers -> Phases] /\ refusedExp' \in [Grants -> Nat \cup {NoExp}]
      BY <2>9, Zenon DEF OnLive, ExpDecision, MaxOf
    <3>6. /\ leaseHolder' \in [Grants -> Workers \cup {NoWorker}]
          /\ UNCHANGED <<clockVars, notLiveSince, seHolder, reqGrant, reqExp, attempt,
                         attemptAt, answerVars, shutdown, outage>>
      BY <2>9, Zenon DEF OnLive, Unlock
    <3> QED
      BY <3>3, <3>4, <3>5, <3>6, Zenon DEF clockVars, answerVars
  <2>10. CASE OnRevoked(w)
    BY <2>10, Zenon DEF OnRevoked, Unlock, clockVars, leaseVars, answerVars, historyVars
  <2>11. CASE OnUnreachableGraced(w)
    <3>1. phase' \in [Workers -> Phases] /\ refusedExp' \in [Grants -> Nat \cup {NoExp}]
      BY <2>11, Zenon DEF OnUnreachableGraced, ExpDecision, MaxOf
    <3> QED
      BY <2>11, <3>1, Zenon DEF OnUnreachableGraced, Unlock, clockVars, leaseVars, answerVars
  <2>12. CASE OnUnreachableRefused(w)
    BY <2>12, Zenon DEF OnUnreachableRefused, Unlock, clockVars, leaseVars, answerVars, historyVars
  <2>13. CASE SeLock(w)
    BY <2>13, Zenon DEF SeLock, clockVars, leaseVars, answerVars, historyVars
  <2>14. CASE SeOp(w)
    BY <2>14, Zenon DEF SeOp, clockVars, leaseVars, answerVars, historyVars
  <2>15. CASE Reply(w)
    BY <2>15 DEF Reply, clockVars, leaseVars, answerVars, historyVars
  <2>16. CASE WorkerStops(w)
    BY <2>16, Zenon DEF WorkerStops, clockVars, leaseVars, answerVars, historyVars
  <2> HIDE DEF TypeOK, Phases, Live, NoExp
  <2> QED
    BY <1>8, <2>1, <2>2, <2>3, <2>4, <2>5, <2>6, <2>7, <2>8, <2>9, <2>10, <2>11, <2>12,
       <2>13, <2>14, <2>15, <2>16, Zenon DEF WorkerStep, QueryStep
<1> HIDE DEF TypeOK, Phases, Live, NoExp
<1> QED
  BY <1>1, <1>2, <1>3, <1>4, <1>5, <1>6, <1>7, <1>8, Zenon DEF Next

\* Every step keeps the locks with their users.
LEMMA NextLocks ==
  TypeOK /\ LocksHeld /\ [Next]_vars => LocksHeld'
<1> SUFFICES ASSUME TypeOK, LocksHeld, [Next]_vars PROVE LocksHeld'
  BY Zenon
<1> USE DEF LocksHeld
<1>0. /\ leaseHolder \in [Grants -> Workers \cup {NoWorker}]
      /\ phase \in [Workers -> Phases] /\ reqGrant \in [Workers -> Grants]
      /\ NoWorker \notin Workers
  BY NamesAssumption, Zenon DEF TypeOK
<1>1. CASE Tick
  BY <1>1, <1>0, Zenon DEF Tick, clockVars, leaseVars, answerVars, historyVars
<1>2. CASE ServerClockStep
  BY <1>2, <1>0, Zenon DEF ServerClockStep, clockVars, leaseVars, answerVars, historyVars
<1>3. CASE Shutdown
  BY <1>3, <1>0, Zenon DEF Shutdown, clockVars, leaseVars, answerVars, historyVars
<1>4. CASE Restart
  BY <1>4, <1>0 DEF Restart, clockVars, leaseVars, answerVars, historyVars
<1>5. CASE UNCHANGED vars
  BY <1>5, <1>0, Zenon DEF vars, clockVars, leaseVars, answerVars, historyVars
<1>6. ASSUME NEW g \in Grants, Confirm(g) PROVE LocksHeld'
  BY <1>6, <1>0, Zenon DEF Confirm, clockVars, leaseVars, answerVars, historyVars
<1>7. ASSUME NEW g \in Grants, Revoke(g) PROVE LocksHeld'
  BY <1>7, <1>0, Zenon DEF Revoke, clockVars, leaseVars, answerVars, historyVars
<1>8. ASSUME NEW w \in Workers, Accept(w) \/ WorkerStep(w) PROVE LocksHeld'
  <2>1. CASE Accept(w)
    BY <2>1, <1>0 DEF Accept, clockVars, leaseVars, answerVars, historyVars
  <2>2. CASE DecideLeased(w)
    BY <2>2, <1>0 DEF DecideLeased, ExpDecision, clockVars, leaseVars, answerVars, historyVars
  <2>3. CASE DecideReconfirm(w)
    BY <2>3, <1>0 DEF DecideReconfirm, clockVars, leaseVars, answerVars, historyVars
  <2>4. CASE ServerAffirms(w)
    BY <2>4, <1>0 DEF ServerAffirms, AffirmedAt, clockVars, leaseVars, answerVars, historyVars
  <2>5. CASE ServerAffirmsWithSla(w)
    BY <2>5, <1>0 DEF ServerAffirmsWithSla, AffirmedAt, clockVars, leaseVars, answerVars, historyVars
  <2>6. CASE ServerDenies(w)
    BY <2>6, <1>0 DEF ServerDenies, clockVars, leaseVars, answerVars, historyVars
  <2>7. CASE AttemptFails(w)
    BY <2>7, <1>0 DEF AttemptFails, clockVars, leaseVars, answerVars, historyVars
  <2>8. CASE QueryUnreachable(w)
    BY <2>8, <1>0 DEF QueryUnreachable, clockVars, leaseVars, answerVars, historyVars
  <2>9. CASE OnLive(w)
    BY <2>9, <1>0 DEF OnLive, Unlock, ExpDecision, Anchor, clockVars, leaseVars, answerVars, historyVars
  <2>10. CASE OnRevoked(w)
    BY <2>10, <1>0 DEF OnRevoked, Unlock, clockVars, leaseVars, answerVars, historyVars
  <2>11. CASE OnUnreachableGraced(w)
    BY <2>11, <1>0 DEF OnUnreachableGraced, Unlock, ExpDecision, clockVars, leaseVars, answerVars, historyVars
  <2>12. CASE OnUnreachableRefused(w)
    BY <2>12, <1>0 DEF OnUnreachableRefused, Unlock, clockVars, leaseVars, answerVars, historyVars
  <2>13. CASE SeLock(w)
    BY <2>13, <1>0 DEF SeLock, clockVars, leaseVars, answerVars, historyVars
  <2>14. CASE SeOp(w)
    BY <2>14, <1>0 DEF SeOp, clockVars, leaseVars, answerVars, historyVars
  <2>15. CASE Reply(w)
    BY <2>15, <1>0 DEF Reply, clockVars, leaseVars, answerVars, historyVars
  <2>16. CASE WorkerStops(w)
    BY <2>16, <1>0 DEF WorkerStops, clockVars, leaseVars, answerVars, historyVars
  <2> HIDE DEF LocksHeld
  <2> QED
    BY <1>8, <2>1, <2>2, <2>3, <2>4, <2>5, <2>6, <2>7, <2>8, <2>9, <2>10, <2>11, <2>12,
       <2>13, <2>14, <2>15, <2>16, Zenon DEF WorkerStep, QueryStep
<1> HIDE DEF LocksHeld
<1> QED
  BY <1>1, <1>2, <1>3, <1>4, <1>5, <1>6, <1>7, <1>8, Zenon DEF Next

\* Every step keeps confirms in the past, attempts within their timeout and the SLA
\* within the budget.
LEMMA NextTime ==
  TypeOK /\ TimeInv /\ [Next]_vars => TimeInv'
<1> SUFFICES ASSUME TypeOK, TimeInv, [Next]_vars PROVE TimeInv'
  BY Zenon
<1> USE DEF TimeInv
<1>0. /\ now \in Nat /\ confirmAt \in [Grants -> Nat] /\ attemptAt \in [Workers -> Nat]
      /\ slaLease \in [Grants -> Nat] /\ slaGrace \in [Grants -> Nat]
      /\ phase \in [Workers -> Phases] /\ reqGrant \in [Workers -> Grants]
      /\ confirmed \in [Grants -> BOOLEAN] /\ QueryTimeout \in Nat
  BY TimeAssumption, Zenon DEF TypeOK
<1>1. CASE Tick
  BY <1>1, <1>0 DEF Tick, clockVars, leaseVars, answerVars, historyVars, Phases
<1>2. CASE ServerClockStep
  BY <1>2, <1>0, Zenon DEF ServerClockStep, clockVars, leaseVars, answerVars, historyVars, Phases
<1>3. CASE Shutdown
  BY <1>3, <1>0, Zenon DEF Shutdown, clockVars, leaseVars, answerVars, historyVars, Phases
<1>4. CASE Restart
  BY <1>4, <1>0, TimeAssumption DEF Restart, clockVars, Budget
<1>5. CASE UNCHANGED vars
  BY <1>5, <1>0, Zenon DEF vars, clockVars, leaseVars, answerVars, historyVars, Phases
<1>6. ASSUME NEW g \in Grants, Confirm(g) PROVE TimeInv'
  BY <1>6, <1>0, Zenon DEF Confirm, clockVars, leaseVars, answerVars, historyVars, Phases
<1>7. ASSUME NEW g \in Grants, Revoke(g) PROVE TimeInv'
  BY <1>7, <1>0, Zenon DEF Revoke, clockVars, leaseVars, answerVars, historyVars, Phases
<1>8. ASSUME NEW w \in Workers, Accept(w) \/ WorkerStep(w) PROVE TimeInv'
  <2>1. CASE Accept(w)
    BY <2>1, <1>0, Zenon DEF Accept, clockVars, leaseVars, answerVars, historyVars, Phases
  <2>2. CASE DecideLeased(w)
    BY <2>2, <1>0, Zenon DEF DecideLeased, ExpDecision, clockVars, leaseVars, answerVars, historyVars, Phases
  <2>3. CASE DecideReconfirm(w)
    BY <2>3, <1>0 DEF DecideReconfirm, clockVars, leaseVars, answerVars, historyVars, Phases
  <2>4. CASE ServerAffirms(w)
    BY <2>4, <1>0, Zenon DEF ServerAffirms, AffirmedAt, clockVars, leaseVars, answerVars, historyVars, Phases
  <2>5. CASE ServerAffirmsWithSla(w)
    BY <2>5, <1>0, Zenon DEF ServerAffirmsWithSla, AffirmedAt, clockVars, leaseVars, answerVars, historyVars, Phases
  <2>6. CASE ServerDenies(w)
    BY <2>6, <1>0, Zenon DEF ServerDenies, clockVars, leaseVars, answerVars, historyVars, Phases
  <2>7. CASE AttemptFails(w)
    BY <2>7, <1>0 DEF AttemptFails, clockVars, leaseVars, answerVars, historyVars, Phases
  <2>8. CASE QueryUnreachable(w)
    BY <2>8, <1>0, Zenon DEF QueryUnreachable, clockVars, leaseVars, answerVars, historyVars, Phases
  <2>9. CASE OnLive(w)
    <3> DEFINE values == ServerValues(<<answerLease[w], answerGrace[w]>>)
    <3>1. reqGrant[w] \in Grants /\ answerLease[w] \in Int /\ answerGrace[w] \in Int
      BY Zenon DEF TypeOK
    <3>2. values[1] \in Nat /\ values[2] \in Nat /\ values[1] + values[2] <= Budget
      BY <3>1, ServerValuesFacts, Zenon
    <3> HIDE DEF values
    <3>3. \A g \in Grants : slaLease'[g] + slaGrace'[g] <= Budget
      BY <2>9, <1>0, <3>1, <3>2, Zenon DEF OnLive, values
    <3>4. \A g \in Grants : confirmed'[g] => confirmAt'[g] <= now
      BY <2>9, <1>0 DEF OnLive
    <3>5. \A v \in Workers : phase'[v] \in {"query", "answered"} => phase'[v] = phase[v]
      BY Zenon, <2>9, <1>0 DEF OnLive, ExpDecision
    <3>6. UNCHANGED <<now, attemptAt>>
      BY <2>9, Zenon DEF OnLive, Unlock, clockVars
    <3> QED
      BY <3>3, <3>4, <3>5, <3>6, Zenon
  <2>10. CASE OnRevoked(w)
    BY <2>10, <1>0, Zenon DEF OnRevoked, Unlock, clockVars, leaseVars, answerVars, historyVars, Phases
  <2>11. CASE OnUnreachableGraced(w)
    BY <2>11, <1>0, Zenon DEF OnUnreachableGraced, Unlock, ExpDecision, clockVars, leaseVars, answerVars, historyVars, Phases
  <2>12. CASE OnUnreachableRefused(w)
    BY <2>12, <1>0, Zenon DEF OnUnreachableRefused, Unlock, clockVars, leaseVars, answerVars, historyVars, Phases
  <2>13. CASE SeLock(w)
    BY <2>13, <1>0, Zenon DEF SeLock, clockVars, leaseVars, answerVars, historyVars, Phases
  <2>14. CASE SeOp(w)
    BY <2>14, <1>0, Zenon DEF SeOp, clockVars, leaseVars, answerVars, historyVars, Phases
  <2>15. CASE Reply(w)
    BY <2>15, <1>0, Zenon DEF Reply, clockVars, leaseVars, answerVars, historyVars, Phases
  <2>16. CASE WorkerStops(w)
    BY <2>16, <1>0, Zenon DEF WorkerStops, clockVars, leaseVars, answerVars, historyVars, Phases
  <2> HIDE DEF TimeInv
  <2> QED
    BY <1>8, <2>1, <2>2, <2>3, <2>4, <2>5, <2>6, <2>7, <2>8, <2>9, <2>10, <2>11, <2>12,
       <2>13, <2>14, <2>15, <2>16, Zenon DEF WorkerStep, QueryStep
<1> HIDE DEF TimeInv
<1> QED
  BY <1>1, <1>2, <1>3, <1>4, <1>5, <1>6, <1>7, <1>8, Zenon DEF Next

\* Every step keeps confirms and affirmatives close to a moment the grant was live.
LEMMA NextCut ==
  TypeOK /\ TimeInv /\ CutInv /\ [Next]_vars => CutInv'
<1> SUFFICES ASSUME TypeOK, TimeInv, CutInv, [Next]_vars PROVE CutInv'
  BY Zenon
<1> USE DEF TimeInv, CutInv, HoldsAffirmative
<1>0. /\ now \in Nat /\ confirmAt \in [Grants -> Nat] /\ attemptAt \in [Workers -> Nat]
      /\ notLiveSince \in [Grants -> Nat \cup {Live}] /\ Live = -1
      /\ answer \in [Workers -> {"none", "live", "revoked", "unreachable"}]
      /\ phase \in [Workers -> Phases] /\ reqGrant \in [Workers -> Grants]
      /\ confirmed \in [Grants -> BOOLEAN] /\ QueryTimeout \in Nat
  BY TimeAssumption, Zenon DEF TypeOK, Live
<1>1. CASE Tick
  BY <1>1, <1>0, Zenon DEF Tick, clockVars, leaseVars, answerVars, historyVars
<1>2. CASE ServerClockStep
  BY <1>2, <1>0, Zenon DEF ServerClockStep, clockVars, leaseVars, answerVars, historyVars
<1>3. CASE Shutdown
  BY <1>3, <1>0, Zenon DEF Shutdown, clockVars, leaseVars, answerVars, historyVars
<1>4. CASE Restart
  BY <1>4, <1>0, Zenon DEF Restart, clockVars, leaseVars, answerVars, historyVars
<1>5. CASE UNCHANGED vars
  BY <1>5, <1>0, Zenon DEF vars, clockVars, leaseVars, answerVars, historyVars
<1>6. ASSUME NEW g \in Grants, Confirm(g) PROVE CutInv'
  BY <1>6, <1>0, Zenon DEF Confirm, clockVars, leaseVars, answerVars, historyVars
<1>7. ASSUME NEW g \in Grants, Revoke(g) PROVE CutInv'
  BY <1>7, <1>0 DEF Revoke, clockVars, leaseVars, answerVars, historyVars
<1>8. ASSUME NEW w \in Workers, Accept(w) \/ WorkerStep(w) PROVE CutInv'
  <2>1. CASE Accept(w)
    BY <2>1, <1>0, Zenon DEF Accept, clockVars, leaseVars, answerVars, historyVars
  <2>2. CASE DecideLeased(w)
    BY <2>2, <1>0, Zenon DEF DecideLeased, ExpDecision, clockVars, leaseVars, answerVars, historyVars
  <2>3. CASE DecideReconfirm(w)
    BY <2>3, <1>0, Zenon DEF DecideReconfirm, clockVars, leaseVars, answerVars, historyVars
  <2>4. CASE ServerAffirms(w)
    BY <2>4, <1>0, Zenon DEF ServerAffirms, AffirmedAt, clockVars, leaseVars, answerVars, historyVars
  <2>5. CASE ServerAffirmsWithSla(w)
    BY <2>5, <1>0, Zenon DEF ServerAffirmsWithSla, AffirmedAt, clockVars, leaseVars, answerVars, historyVars
  <2>6. CASE ServerDenies(w)
    BY <2>6, <1>0, Zenon DEF ServerDenies, clockVars, leaseVars, answerVars, historyVars
  <2>7. CASE AttemptFails(w)
    BY <2>7, <1>0, Zenon DEF AttemptFails, clockVars, leaseVars, answerVars, historyVars
  <2>8. CASE QueryUnreachable(w)
    BY <2>8, <1>0, Zenon DEF QueryUnreachable, clockVars, leaseVars, answerVars, historyVars
  <2>9. CASE OnLive(w)
    <3>1. /\ confirmed'[reqGrant[w]] /\ confirmAt'[reqGrant[w]] = now
          /\ \A g \in Grants \ {reqGrant[w]} :
               confirmed'[g] = confirmed[g] /\ confirmAt'[g] = confirmAt[g]
      BY Zenon, <2>9, <1>0 DEF OnLive
    <3>2. /\ phase'[w] # "answered"
          /\ \A v \in Workers \ {w} : phase'[v] = phase[v]
          /\ UNCHANGED <<notLiveSince, reqGrant, attemptAt, answer>>
      BY Zenon, <2>9, <1>0 DEF OnLive, ExpDecision, Unlock, answerVars
    <3>3. \/ notLiveSince[reqGrant[w]] = Live
          \/ notLiveSince[reqGrant[w]] # 0
               /\ now <= notLiveSince[reqGrant[w]] + QueryTimeout
      <4>1. HoldsAffirmative(w) /\ phase[w] \in {"query", "answered"}
        BY Zenon, <2>9 DEF OnLive, HoldsAffirmative
      <4>2. /\ now <= attemptAt[w] + QueryTimeout
            /\ \/ notLiveSince[reqGrant[w]] = Live
               \/ notLiveSince[reqGrant[w]] # 0 /\ attemptAt[w] <= notLiveSince[reqGrant[w]]
        BY Zenon, <4>1
      <4> QED
        BY <4>2, <1>0
    <3> QED
      BY <1>0, <3>1, <3>2, <3>3, Zenon
  <2>10. CASE OnRevoked(w)
    BY <2>10, <1>0, Zenon DEF OnRevoked, Unlock, clockVars, leaseVars, answerVars, historyVars
  <2>11. CASE OnUnreachableGraced(w)
    BY Zenon, <2>11, <1>0 DEF OnUnreachableGraced, Unlock, ExpDecision, clockVars, leaseVars, answerVars, historyVars
  <2>12. CASE OnUnreachableRefused(w)
    BY <2>12, <1>0, Zenon DEF OnUnreachableRefused, Unlock, clockVars, leaseVars, answerVars, historyVars
  <2>13. CASE SeLock(w)
    BY <2>13, <1>0, Zenon DEF SeLock, clockVars, leaseVars, answerVars, historyVars
  <2>14. CASE SeOp(w)
    BY <2>14, <1>0, Zenon DEF SeOp, clockVars, leaseVars, answerVars, historyVars
  <2>15. CASE Reply(w)
    BY <2>15, <1>0, Zenon DEF Reply, clockVars, leaseVars, answerVars, historyVars
  <2>16. CASE WorkerStops(w)
    BY <2>16, <1>0, Zenon DEF WorkerStops, clockVars, leaseVars, answerVars, historyVars
  <2> HIDE DEF TimeInv, CutInv, HoldsAffirmative
  <2> QED
    BY <1>8, <2>1, <2>2, <2>3, <2>4, <2>5, <2>6, <2>7, <2>8, <2>9, <2>10, <2>11, <2>12,
       <2>13, <2>14, <2>15, <2>16, Zenon DEF WorkerStep, QueryStep
<1> HIDE DEF TimeInv, CutInv, HoldsAffirmative
<1> QED
  BY <1>1, <1>2, <1>3, <1>4, <1>5, <1>6, <1>7, <1>8, Zenon DEF Next

\* The inductive invariant.
IInv == TypeOK /\ LocksHeld /\ TimeInv /\ CutInv

\* The invariant holds at the start.
LEMMA InitIInv == Init => IInv
<1> SUFFICES ASSUME Init PROVE IInv
  BY Zenon
<1>1. TypeOK
  BY InitTypeOK, Zenon
<1>2. LocksHeld
  BY NamesAssumption, Zenon DEF Init, LocksHeld
<1>3. TimeInv
  BY TimeAssumption DEF Init, TimeInv, Budget
<1>4. CutInv
  BY Zenon DEF Init, CutInv, HoldsAffirmative
<1> QED
  BY <1>1, <1>2, <1>3, <1>4, Zenon DEF IInv

\* The invariant is inductive, so it holds in every reachable state.
THEOREM Invariance == Spec => []IInv
<1>1. IInv /\ [Next]_vars => IInv'
  BY NextTypeOK, NextLocks, NextTime, NextCut, Zenon DEF IInv
<1> QED
  BY <1>1, InitIInv, PTL DEF Spec

\* Type correctness of the broker, for every pool and every set of grants.
THEOREM TypeCorrect == Spec => []TypeOK
  BY Invariance, PTL DEF IInv

\* A held lease lock always has the query behind it that will release it, and the
\* enclave lock the operation that holds it.
THEOREM Locks == Spec => []LocksHeld
  BY Invariance, PTL DEF IInv

-----------------------------------------------------------------------------
(* What a decision to serve may never do. *)

\* A confirm younger than its window, taken at most a timeout after the revocation.
LEMMA WithinWindow ==
  ASSUME NEW time \in Nat, NEW at \in Nat, NEW since \in Nat, NEW window \in Nat,
         NEW timeout \in Nat, time - at < window, at <= since + timeout
  PROVE  time <= since + window + timeout
  OBVIOUS

\* The actions that can decide to serve.
Decides(w) == DecideLeased(w) \/ OnLive(w) \/ OnUnreachableGraced(w)

\* Only a decision under the lease lock sends a worker on to the enclave.
LEMMA ServingSteps ==
  TypeOK /\ [Next]_vars => (\A v \in Workers : Serves(v) => Decides(v))
<1> SUFFICES ASSUME TypeOK, [Next]_vars PROVE (\A v \in Workers : Serves(v) => Decides(v))
  BY Zenon
<1> USE DEF Serves
<1>0. phase \in [Workers -> Phases]
  BY Zenon DEF TypeOK
<1>1. CASE Tick
  BY <1>1, <1>0, Zenon DEF Tick, clockVars, leaseVars, answerVars, historyVars
<1>2. CASE ServerClockStep
  BY <1>2, <1>0, Zenon DEF ServerClockStep, clockVars, leaseVars, answerVars, historyVars
<1>3. CASE Shutdown
  BY <1>3, <1>0, Zenon DEF Shutdown, clockVars, leaseVars, answerVars, historyVars
<1>4. CASE Restart
  BY <1>4, <1>0, Zenon DEF Restart, clockVars, leaseVars, answerVars, historyVars
<1>5. CASE UNCHANGED vars
  BY <1>5, <1>0, Zenon DEF vars, clockVars, leaseVars, answerVars, historyVars
<1>6. ASSUME NEW g \in Grants, Confirm(g) PROVE (\A v \in Workers : Serves(v) => Decides(v))
  BY <1>6, <1>0, Zenon DEF Confirm, clockVars, leaseVars, answerVars, historyVars
<1>7. ASSUME NEW g \in Grants, Revoke(g) PROVE (\A v \in Workers : Serves(v) => Decides(v))
  BY <1>7, <1>0, Zenon DEF Revoke, clockVars, leaseVars, answerVars, historyVars
<1>8. ASSUME NEW w \in Workers, Accept(w) \/ WorkerStep(w) PROVE (\A v \in Workers : Serves(v) => Decides(v))
  <2>1. CASE Accept(w)
    BY <2>1, <1>0, Zenon DEF Accept, clockVars, leaseVars, answerVars, historyVars
  <2>2. CASE DecideLeased(w)
    <3>1. \A v \in Workers \ {w} : phase'[v] = phase[v]
      BY <2>2, <1>0, Zenon DEF DecideLeased, ExpDecision
    <3> QED
      BY <2>2, <3>1, Zenon DEF Decides
  <2>3. CASE DecideReconfirm(w)
    BY <2>3, <1>0, Zenon DEF DecideReconfirm, clockVars, leaseVars, answerVars, historyVars
  <2>4. CASE ServerAffirms(w)
    BY <2>4, <1>0, Zenon DEF ServerAffirms, AffirmedAt, clockVars, leaseVars, answerVars, historyVars
  <2>5. CASE ServerAffirmsWithSla(w)
    BY <2>5, <1>0, Zenon DEF ServerAffirmsWithSla, AffirmedAt, clockVars, leaseVars, answerVars, historyVars
  <2>6. CASE ServerDenies(w)
    BY <2>6, <1>0, Zenon DEF ServerDenies, clockVars, leaseVars, answerVars, historyVars
  <2>7. CASE AttemptFails(w)
    BY <2>7, <1>0, Zenon DEF AttemptFails, clockVars, leaseVars, answerVars, historyVars
  <2>8. CASE QueryUnreachable(w)
    BY <2>8, <1>0, Zenon DEF QueryUnreachable, clockVars, leaseVars, answerVars, historyVars
  <2>9. CASE OnLive(w)
    <3>1. \A v \in Workers \ {w} : phase'[v] = phase[v]
      BY <2>9, <1>0, Zenon DEF OnLive, Unlock, ExpDecision
    <3> QED
      BY <2>9, <3>1, Zenon DEF Decides
  <2>10. CASE OnRevoked(w)
    BY <2>10, <1>0, Zenon DEF OnRevoked, Unlock, clockVars, leaseVars, answerVars, historyVars
  <2>11. CASE OnUnreachableGraced(w)
    <3>1. \A v \in Workers \ {w} : phase'[v] = phase[v]
      BY <2>11, <1>0, Zenon DEF OnUnreachableGraced, ExpDecision
    <3> QED
      BY <2>11, <3>1, Zenon DEF Decides
  <2>12. CASE OnUnreachableRefused(w)
    BY <2>12, <1>0, Zenon DEF OnUnreachableRefused, Unlock, clockVars, leaseVars, answerVars, historyVars
  <2>13. CASE SeLock(w)
    BY <2>13, <1>0, Zenon DEF SeLock, clockVars, leaseVars, answerVars, historyVars
  <2>14. CASE SeOp(w)
    BY <2>14, <1>0, Zenon DEF SeOp, clockVars, leaseVars, answerVars, historyVars
  <2>15. CASE Reply(w)
    BY <2>15, <1>0, Zenon DEF Reply, clockVars, leaseVars, answerVars, historyVars
  <2>16. CASE WorkerStops(w)
    BY <2>16, <1>0, Zenon DEF WorkerStops, clockVars, leaseVars, answerVars, historyVars
  <2> HIDE DEF Serves
  <2> QED
    BY <1>8, <2>1, <2>2, <2>3, <2>4, <2>5, <2>6, <2>7, <2>8, <2>9, <2>10, <2>11, <2>12,
       <2>13, <2>14, <2>15, <2>16, Zenon DEF WorkerStep, QueryStep
<1> HIDE DEF Serves
<1> QED
  BY <1>1, <1>2, <1>3, <1>4, <1>5, <1>6, <1>7, <1>8, Zenon DEF Next

\* What the invariant says of a decision to serve.
LEMMA DecisionBounds ==
  ASSUME NEW w \in Workers, IInv, Decides(w)
  PROVE  LET since == notLiveSince[reqGrant[w]] IN
         \/ since = Live
         \/ /\ since # 0 /\ now <= since + Budget + QueryTimeout
            /\ ~OnUnreachableGraced(w) =>
                 now <= since + slaLease'[reqGrant[w]] + QueryTimeout
<1> DEFINE g == reqGrant[w]
           since == notLiveSince[g]
<1>0. /\ g \in Grants /\ now \in Nat /\ since \in Nat \cup {Live} /\ Live = -1
      /\ confirmAt[g] \in Nat /\ attemptAt[w] \in Nat
      /\ slaLease[g] \in Nat /\ slaGrace[g] \in Nat /\ slaLease[g] + slaGrace[g] <= Budget
      /\ QueryTimeout \in Nat /\ Budget \in Nat
  BY TimeAssumption DEF IInv, TypeOK, TimeInv, Live, Budget
<1>1. CASE DecideLeased(w)
  <2>1. confirmed[g] /\ now - confirmAt[g] < slaLease[g] /\ slaLease' = slaLease
    BY <1>1, Zenon DEF DecideLeased, Leased, leaseVars
  <2>2. since = Live \/ (since # 0 /\ confirmAt[g] <= since + QueryTimeout)
    BY <1>0, <2>1, Zenon DEF IInv, CutInv
  <2> QED
    BY <1>0, <2>1, <2>2
<1>2. CASE OnLive(w)
  <2>1. HoldsAffirmative(w) /\ now <= attemptAt[w] + QueryTimeout
    BY <1>2, Zenon DEF OnLive, HoldsAffirmative, IInv, TimeInv
  <2>2. since = Live \/ (since # 0 /\ attemptAt[w] <= since)
    BY <2>1, Zenon DEF IInv, CutInv
  <2>3. slaLease' \in [Grants -> Nat]
    BY <1>2, NextTypeOK, Zenon DEF Next, WorkerStep, IInv, TypeOK
  <2> QED
    BY <1>0, <2>1, <2>2, <2>3
<1>3. CASE OnUnreachableGraced(w)
  <2>1. confirmed[g] /\ now - confirmAt[g] < Budget
    <3>1. confirmed[g] /\ now - confirmAt[g] < slaLease[g] + slaGrace[g]
      BY <1>3, Zenon DEF OnUnreachableGraced, WithinGrace
    <3> QED
      BY <1>0, <3>1
  <2>2. since = Live \/ (since # 0 /\ confirmAt[g] <= since + QueryTimeout)
    BY <1>0, <2>1, Zenon DEF IInv, CutInv
  <2>3. since # Live => now <= since + Budget + QueryTimeout
    BY <1>0, <2>1, <2>2, WithinWindow, Zenon
  <2> QED
    BY Zenon, <1>3, <2>2, <2>3
<1> QED
  BY <1>1, <1>2, <1>3, Zenon DEF Decides

\* For every pool, every set of grants, every SLA the server sends and every pair of
\* compiled lease and grace, a grant that is no longer live is refused once lease +
\* grace and one attempt's timeout have passed, and a grant never confirmed always.
THEOREM Cut == Spec => RevocationCut
<1> DEFINE Bounded == \A w \in Workers :
             Serves(w) => LET since == notLiveSince[reqGrant[w]] IN
                          since = Live \/ (since # 0 /\ now <= since + Budget + QueryTimeout)
<1>1. IInv /\ [Next]_vars => [Bounded]_vars
  BY ServingSteps, DecisionBounds, Zenon DEF IInv
<1> QED
  BY <1>1, Invariance, PTL DEF Spec, RevocationCut

\* Without an outage since the revocation, the lease in force alone bounds the cut.
THEOREM Reachable == Spec => ReachableCut
<1> DEFINE Bounded == \A w \in Workers :
             Serves(w) /\ ~outage'[reqGrant[w]] =>
               LET since == notLiveSince[reqGrant[w]] IN
               since = Live \/ now <= since + slaLease'[reqGrant[w]] + QueryTimeout
<1>1. IInv /\ [Next]_vars => [Bounded]_vars
  <2>1. ASSUME IInv, NEW w \in Workers, OnUnreachableGraced(w) PROVE outage'[reqGrant[w]]
    BY <2>1, Zenon DEF OnUnreachableGraced, IInv, TypeOK
  <2> QED
    BY <2>1, ServingSteps, DecisionBounds, Zenon DEF IInv
<1> QED
  BY <1>1, Invariance, PTL DEF Spec, ReachableCut

\* With the floor at or below the confirm, trusted time is the confirm plus its age.
LEMMA TrustedFromConfirm ==
  ASSUME NEW g, now \in Nat, confirmTime[g] \in Nat, confirmAt[g] \in Nat,
         floor[g] \in Nat, floor[g] <= confirmTime[g], confirmAt[g] <= now
  PROVE  /\ TrustedNow(g, now - confirmAt[g]) = confirmTime[g] + (now - confirmAt[g])
         /\ confirmTime[g] + (now - confirmAt[g]) \in Int
  BY DEF TrustedNow, MaxOf

\* A restarted broker remembers no refusal.
LEMMA RestartToken == Restart => TokenInv'
<1> SUFFICES ASSUME Restart PROVE TokenInv'
  BY Zenon
<1> QED
  BY Zenon DEF Restart, TokenInv, HoldsAffirmative, NoExp

\* Every step keeps refused tokens behind trusted time, but for the steps back of the
\* server's clock.
LEMMA NextToken ==
  TypeOK /\ LocksHeld /\ TimeInv /\ TokenInv /\ [Next]_vars => TokenInv'
<1> SUFFICES ASSUME TypeOK, LocksHeld, TimeInv, TokenInv, [Next]_vars PROVE TokenInv'
  BY Zenon
<1> USE DEF TokenInv, HoldsAffirmative, TimeInv, Unstepped
<1>0. /\ now \in Nat /\ serverClock \in Nat /\ steppedBack \in Nat
      /\ confirmAt \in [Grants -> Nat] /\ confirmTime \in [Grants -> Nat]
      /\ floor \in [Grants -> Nat] /\ reqExp \in [Workers -> Nat]
      /\ answerTime \in [Workers -> Nat]
      /\ refusedExp \in [Grants -> Nat \cup {NoExp}] /\ NoExp = -1
      /\ answer \in [Workers -> {"none", "live", "revoked", "unreachable"}]
      /\ phase \in [Workers -> Phases] /\ reqGrant \in [Workers -> Grants]
      /\ confirmed \in [Grants -> BOOLEAN] /\ Skew \in Nat
  BY TimeAssumption, Zenon DEF TypeOK, NoExp
<1>h. \A v \in Workers, u \in Workers :
        /\ HoldsAffirmative(v) /\ phase[u] \in {"query", "answered"}
        /\ reqGrant[v] = reqGrant[u]
        => u = v
  BY <1>0, SMTT(60) DEF LocksHeld, HoldsAffirmative
<1>k. \A v \in Workers : HoldsAffirmative(v) => leaseHolder[reqGrant[v]] = v
  BY <1>0, SMTT(60) DEF LocksHeld, HoldsAffirmative
<1>1. CASE Tick
  BY <1>1, <1>0 DEF Tick, clockVars, leaseVars, answerVars, historyVars
<1>2. CASE ServerClockStep
  <2>1. /\ Unstepped' = Unstepped /\ steppedBack' \in Nat /\ steppedBack <= steppedBack'
    BY <1>2, <1>0 DEF ServerClockStep
  <2>2. UNCHANGED <<now, confirmed, confirmAt, confirmTime, floor, refusedExp, phase, answer,
                    answerTime, reqGrant>>
    BY <1>2, Zenon DEF ServerClockStep, leaseVars, answerVars, historyVars
  <2> HIDE DEF Unstepped
  <2> QED
    BY <1>0, <2>1, <2>2
<1>3. CASE Shutdown
  BY <1>3, <1>0, Zenon DEF Shutdown, clockVars, leaseVars, answerVars, historyVars
<1>4. CASE Restart
  BY <1>4, RestartToken, Zenon
<1>5. CASE UNCHANGED vars
  BY <1>5, <1>0, Zenon DEF vars, clockVars, leaseVars, answerVars, historyVars
<1>6. ASSUME NEW g \in Grants, Confirm(g) PROVE TokenInv'
  BY <1>6, <1>0, Zenon DEF Confirm, clockVars, leaseVars, answerVars, historyVars
<1>7. ASSUME NEW g \in Grants, Revoke(g) PROVE TokenInv'
  BY <1>7, <1>0, Zenon DEF Revoke, clockVars, leaseVars, answerVars, historyVars
<1>8. ASSUME NEW w \in Workers, Accept(w) \/ WorkerStep(w) PROVE TokenInv'
  <2>1. CASE Accept(w)
    BY ZenonT(60), <2>1, <1>0 DEF Accept, clockVars, leaseVars, answerVars, historyVars
  <2>2. CASE DecideLeased(w)
    <3> DEFINE g == reqGrant[w]
               trusted == confirmTime[g] + (now - confirmAt[g])
    <3>1. /\ g \in Grants /\ confirmed[g] /\ trusted \in Int /\ trusted <= Unstepped
          /\ TrustedNow(g, now - confirmAt[g]) = trusted
      <4>1. g \in Grants /\ confirmed[g]
        BY Zenon, <2>2, <1>0 DEF DecideLeased, Leased
      <4>2. /\ confirmTime[g] \in Nat /\ confirmAt[g] \in Nat /\ floor[g] \in Nat
            /\ floor[g] <= confirmTime[g] /\ confirmAt[g] <= now
        BY <1>0, <4>1, Zenon
      <4>3. TrustedNow(g, now - confirmAt[g]) = trusted /\ trusted \in Int
        BY <1>0, <4>2, TrustedFromConfirm, Zenon
      <4>4. trusted <= Unstepped
        BY <4>1, Zenon
      <4> QED
        BY Zenon, <4>1, <4>3, <4>4
    <3>2. /\ UNCHANGED <<now, serverClock, steppedBack, confirmed, confirmTime, confirmAt, floor,
                         reqGrant, answer, answerTime>>
          /\ \A h \in Grants \ {g} : refusedExp'[h] = refusedExp[h]
      BY Zenon, <2>2, <1>0 DEF DecideLeased, ExpDecision, clockVars, leaseVars, answerVars
    <3>3. refusedExp'[g] # NoExp =>
            refusedExp'[g] + Skew < trusted + steppedBack /\ refusedExp'[g] + Skew < Unstepped
      <4> HIDE DEF trusted
      <4>1. refusedExp[g] # NoExp =>
              refusedExp[g] + Skew < trusted + steppedBack /\ refusedExp[g] + Skew < Unstepped
        BY <3>1, Zenon DEF trusted
      <4>2. CASE Expired(w, trusted)
        <5>1. reqExp[w] + Skew < trusted /\ refusedExp'[g] = MaxOf(refusedExp[g], reqExp[w])
          BY Zenon, <2>2, <1>0, <3>1, <4>2 DEF DecideLeased, ExpDecision, Expired, trusted
        <5>2. refusedExp'[g] = refusedExp[g] \/ refusedExp'[g] = reqExp[w]
          BY <5>1, ZenonT(60) DEF MaxOf
        <5> HIDE DEF TokenInv, HoldsAffirmative, TimeInv
        <5> QED
          BY <1>0, <3>1, <4>1, <5>1, <5>2, SMTT(60)
      <4>3. CASE ~Expired(w, trusted)
        BY <2>2, <3>1, <4>1, <4>3, Zenon DEF DecideLeased, ExpDecision, trusted
      <4> QED
        BY <4>2, <4>3, Zenon
    <3>4. \A v \in Workers : (HoldsAffirmative(v))' => HoldsAffirmative(v)
      BY Zenon, <2>2, <1>0, <3>2 DEF DecideLeased, ExpDecision
    <3>5. \A v \in Workers : HoldsAffirmative(v) => reqGrant[v] # g
      BY ZenonT(60), <2>2, <1>0, <1>k, NamesAssumption DEF DecideLeased
    <3> QED
      BY <1>0, <3>1, <3>2, <3>3, <3>4, <3>5, Zenon
  <2>3. CASE DecideReconfirm(w)
    BY Zenon, <2>3, <1>0 DEF DecideReconfirm, clockVars, leaseVars, answerVars, historyVars
  <2>4. CASE ServerAffirms(w)
    BY <2>4, <1>0, SMTT(60) DEF ServerAffirms, AffirmedAt, clockVars, leaseVars, answerVars, historyVars
  <2>5. CASE ServerAffirmsWithSla(w)
    BY <2>5, <1>0 DEF ServerAffirmsWithSla, AffirmedAt, clockVars, leaseVars, answerVars, historyVars
  <2>6. CASE ServerDenies(w)
    BY <2>6, <1>0, Zenon DEF ServerDenies, clockVars, leaseVars, answerVars, historyVars
  <2>7. CASE AttemptFails(w)
    BY <2>7, <1>0, Zenon DEF AttemptFails, clockVars, leaseVars, answerVars, historyVars
  <2>8. CASE QueryUnreachable(w)
    BY <2>8, <1>0, Zenon DEF QueryUnreachable, clockVars, leaseVars, answerVars, historyVars
  <2>9. CASE OnLive(w)
    <3> DEFINE g == reqGrant[w]
               anchored == Anchor(g, answerTime[w])
    <3>1. g \in Grants /\ HoldsAffirmative(w)
      BY <2>9, <1>0, Zenon DEF OnLive
    <3>2. /\ anchored \in Nat /\ answerTime[w] <= anchored /\ anchored <= Unstepped
      BY <1>0, <3>1 DEF Anchor, MaxOf
    <3>3. /\ confirmed'[g] /\ confirmAt'[g] = now /\ confirmTime'[g] = anchored
          /\ floor'[g] = anchored
          /\ \A h \in Grants \ {g} :
               /\ confirmed'[h] = confirmed[h] /\ confirmAt'[h] = confirmAt[h]
               /\ confirmTime'[h] = confirmTime[h] /\ floor'[h] = floor[h]
               /\ refusedExp'[h] = refusedExp[h]
      BY Zenon, <2>9, <1>0 DEF OnLive, ExpDecision
    <3>4. UNCHANGED <<now, serverClock, steppedBack, reqGrant, answer, answerTime>>
      BY <2>9, Zenon DEF OnLive, Unlock, clockVars, answerVars
    <3>5. refusedExp'[g] # NoExp =>
            refusedExp'[g] + Skew < anchored + steppedBack /\ refusedExp'[g] + Skew < Unstepped
      <4> HIDE DEF anchored
      <4>1. refusedExp[g] # NoExp =>
              refusedExp[g] + Skew < anchored + steppedBack /\ refusedExp[g] + Skew < Unstepped
        BY <1>0, <3>1, <3>2
      <4>2. CASE Expired(w, anchored)
        <5>1. reqExp[w] + Skew < anchored /\ refusedExp'[g] = MaxOf(refusedExp[g], reqExp[w])
          BY Zenon, <2>9, <1>0, <3>1, <4>2 DEF OnLive, ExpDecision, Expired, anchored
        <5>2. refusedExp'[g] = refusedExp[g] \/ refusedExp'[g] = reqExp[w]
          BY <5>1, ZenonT(60) DEF MaxOf
        <5> HIDE DEF TokenInv, HoldsAffirmative, TimeInv
        <5> QED
          BY <1>0, <3>1, <3>2, <4>1, <5>1, <5>2, SMTT(60)
      <4>3. CASE ~Expired(w, anchored)
        BY Zenon, <2>9, <3>1, <4>1, <4>3 DEF OnLive, ExpDecision, anchored
      <4> QED
        BY <4>2, <4>3, SMTT(60)
    <3>6. \A v \in Workers : (HoldsAffirmative(v))' => HoldsAffirmative(v) /\ v # w
      BY Zenon, <2>9, <1>0, <3>4 DEF OnLive, ExpDecision
    <3>7. \A v \in Workers : HoldsAffirmative(v) /\ v # w => reqGrant[v] # g
      BY Zenon, <1>0, <1>h, <3>1
    <3> HIDE DEF anchored
    <3> QED
      BY <1>0, <3>1, <3>2, <3>3, <3>4, <3>5, <3>6, <3>7
  <2>10. CASE OnRevoked(w)
    BY Zenon, <2>10, <1>0 DEF OnRevoked, Unlock, clockVars, leaseVars, answerVars, historyVars
  <2>11. CASE OnUnreachableGraced(w)
    <3> DEFINE g == reqGrant[w]
               trusted == confirmTime[g] + (now - confirmAt[g])
    <3>1. /\ g \in Grants /\ confirmed[g] /\ trusted \in Int /\ trusted <= Unstepped
          /\ TrustedNow(g, now - confirmAt[g]) = trusted
      <4>1. g \in Grants /\ confirmed[g]
        BY Zenon, <2>11, <1>0 DEF OnUnreachableGraced
      <4>2. /\ confirmTime[g] \in Nat /\ confirmAt[g] \in Nat /\ floor[g] \in Nat
            /\ floor[g] <= confirmTime[g] /\ confirmAt[g] <= now
        BY <1>0, <4>1, Zenon
      <4>3. TrustedNow(g, now - confirmAt[g]) = trusted /\ trusted \in Int
        BY <1>0, <4>2, TrustedFromConfirm, Zenon
      <4>4. trusted <= Unstepped
        BY <4>1, Zenon
      <4> QED
        BY Zenon, <4>1, <4>3, <4>4
    <3>2. /\ UNCHANGED <<now, serverClock, steppedBack, confirmed, confirmTime, confirmAt, floor,
                         reqGrant, answer, answerTime>>
          /\ \A h \in Grants \ {g} : refusedExp'[h] = refusedExp[h]
      BY Zenon, <2>11, <1>0 DEF OnUnreachableGraced, ExpDecision, Unlock, clockVars, leaseVars, answerVars
    <3>3. refusedExp'[g] # NoExp =>
            refusedExp'[g] + Skew < trusted + steppedBack /\ refusedExp'[g] + Skew < Unstepped
      <4> HIDE DEF trusted
      <4>1. refusedExp[g] # NoExp =>
              refusedExp[g] + Skew < trusted + steppedBack /\ refusedExp[g] + Skew < Unstepped
        BY <3>1, Zenon DEF trusted
      <4>2. CASE Expired(w, trusted)
        <5>1. reqExp[w] + Skew < trusted /\ refusedExp'[g] = MaxOf(refusedExp[g], reqExp[w])
          BY Zenon, <2>11, <1>0, <3>1, <4>2 DEF OnUnreachableGraced, ExpDecision, Expired, trusted
        <5>2. refusedExp'[g] = refusedExp[g] \/ refusedExp'[g] = reqExp[w]
          BY <5>1, ZenonT(60) DEF MaxOf
        <5> HIDE DEF TokenInv, HoldsAffirmative, TimeInv
        <5> QED
          BY <1>0, <3>1, <4>1, <5>1, <5>2, SMTT(60)
      <4>3. CASE ~Expired(w, trusted)
        BY Zenon, <2>11, <3>1, <4>1, <4>3 DEF OnUnreachableGraced, ExpDecision, trusted
      <4> QED
        BY <4>2, <4>3, Zenon
    <3>4. \A v \in Workers : (HoldsAffirmative(v))' => HoldsAffirmative(v)
      BY Zenon, <2>11, <1>0, <3>2 DEF OnUnreachableGraced, ExpDecision
    <3>5. \A v \in Workers : HoldsAffirmative(v) => reqGrant[v] # g
      BY Zenon, <2>11, <1>0, <1>h DEF OnUnreachableGraced
    <3> QED
      BY <1>0, <3>1, <3>2, <3>3, <3>4, <3>5, Zenon
  <2>12. CASE OnUnreachableRefused(w)
    BY Zenon, <2>12, <1>0 DEF OnUnreachableRefused, Unlock, clockVars, leaseVars, answerVars, historyVars
  <2>13. CASE SeLock(w)
    BY <2>13, <1>0, Zenon DEF SeLock, clockVars, leaseVars, answerVars, historyVars
  <2>14. CASE SeOp(w)
    BY <2>14, <1>0, Zenon DEF SeOp, clockVars, leaseVars, answerVars, historyVars
  <2>15. CASE Reply(w)
    BY <2>15, <1>0, Zenon DEF Reply, clockVars, leaseVars, answerVars, historyVars
  <2>16. CASE WorkerStops(w)
    BY <2>16, <1>0, Zenon DEF WorkerStops, clockVars, leaseVars, answerVars, historyVars
  <2> HIDE DEF TokenInv, HoldsAffirmative, TimeInv, Unstepped
  <2> QED
    BY <1>8, <2>1, <2>2, <2>3, <2>4, <2>5, <2>6, <2>7, <2>8, <2>9, <2>10, <2>11, <2>12,
       <2>13, <2>14, <2>15, <2>16, Zenon DEF WorkerStep, QueryStep
<1> HIDE DEF TokenInv, HoldsAffirmative, TimeInv, Unstepped
<1> QED
  BY <1>1, <1>2, <1>3, <1>4, <1>5, <1>6, <1>7, <1>8, Zenon DEF Next

\* Whatever the server's clock does, a token that had expired at an earlier confirm is
\* never served in the same life of the broker, and one refused as expired is served
\* later only within what that clock was stepped back.
THEOREM NoRevival == Spec => TokenNeverRevived
<1> DEFINE Fresh == \A w \in Workers :
                      Serves(w) => /\ reqExp[w] + Skew >= floor[reqGrant[w]]
                                   /\ reqExp[w] + steppedBack > refusedExp[reqGrant[w]]
<1>1. Init => TokenInv
  BY DEF Init, TokenInv, HoldsAffirmative, NoExp
<1>2. IInv /\ TokenInv /\ [Next]_vars => TokenInv'
  BY NextToken, Zenon DEF IInv
<1>3. IInv /\ TokenInv /\ [Next]_vars => [Fresh]_vars
  <2> SUFFICES ASSUME IInv, TokenInv, [Next]_vars, NEW w \in Workers, Serves(w)
               PROVE  /\ reqExp[w] + Skew >= floor[reqGrant[w]]
                      /\ reqExp[w] + steppedBack > refusedExp[reqGrant[w]]
    BY Zenon
  <2> DEFINE g == reqGrant[w]
             trusted == confirmTime[g] + (now - confirmAt[g])
             anchored == Anchor(g, answerTime[w])
  <2>0. /\ g \in Grants /\ now \in Nat /\ confirmTime[g] \in Nat /\ confirmAt[g] \in Nat
        /\ floor[g] \in Nat /\ reqExp[w] \in Nat /\ refusedExp[g] \in Nat \cup {NoExp}
        /\ answerTime[w] \in Nat /\ Skew \in Nat /\ NoExp = -1 /\ steppedBack \in Nat
        /\ phase \in [Workers -> Phases]
    BY TimeAssumption, Zenon DEF IInv, TypeOK, NoExp
  <2>1. Decides(w)
    BY ServingSteps, Zenon DEF IInv
  <2>2. ASSUME confirmed[g], ExpDecision(w, TrustedNow(g, now - confirmAt[g]))
        PROVE  reqExp[w] + Skew >= floor[g] /\ reqExp[w] + steppedBack > refusedExp[g]
    <3>1. floor[g] <= confirmTime[g] /\ confirmAt[g] <= now
      BY Zenon, <2>0, <2>2 DEF IInv, TimeInv, TokenInv
    <3>2. TrustedNow(g, now - confirmAt[g]) = trusted
      BY Zenon, <2>0, <3>1, TrustedFromConfirm
    <3>3. ~(reqExp[w] + Skew < trusted)
      BY Zenon, <2>0, <2>2, <3>2 DEF ExpDecision, Expired, Serves
    <3>4. refusedExp[g] # NoExp => refusedExp[g] + Skew < trusted + steppedBack
      BY <2>0, Zenon DEF TokenInv
    <3> QED
      BY <2>0, <3>1, <3>3, <3>4
  <2>3. CASE DecideLeased(w)
    BY <2>2, <2>3, Zenon DEF DecideLeased, Leased
  <2>4. CASE OnUnreachableGraced(w)
    BY <2>2, <2>4, Zenon DEF OnUnreachableGraced
  <2>5. CASE OnLive(w)
    <3>1. HoldsAffirmative(w) /\ ExpDecision(w, anchored)
      BY Zenon, <2>5 DEF OnLive, HoldsAffirmative
    <3>2. anchored \in Nat /\ answerTime[w] <= anchored /\ floor[g] <= anchored
      BY <2>0 DEF Anchor, MaxOf
    <3>3. ~(reqExp[w] + Skew < anchored)
      BY Zenon, <2>0, <3>1 DEF ExpDecision, Expired, Serves
    <3>4. refusedExp[g] # NoExp => refusedExp[g] + Skew < answerTime[w] + steppedBack
      BY <3>1, Zenon DEF TokenInv
    <3> QED
      BY <2>0, <3>2, <3>3, <3>4
  <2> QED
    BY <2>1, <2>3, <2>4, <2>5, Zenon DEF Decides
<1> QED
  BY <1>1, <1>2, <1>3, Invariance, PTL DEF Spec, TokenNeverRevived
=============================================================================
