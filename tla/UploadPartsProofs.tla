------------------------- MODULE UploadPartsProofs -------------------------
(***************************************************************************)
(* Proofs about UploadParts, for any number of parts, workers, attempts    *)
(* and any seal-ahead: its types, that each part is delivered exactly      *)
(* once, that success means every part, and the bound on memory.           *)
(***************************************************************************)
EXTENDS UploadParts, FiniteSetTheorems, TLAPS

USE SizeAssumption DEF ProducerError, NoItem, NoRate, None

\* `observe_part` keeps a credible estimate credible.
LEMMA ObserveCredible ==
  ASSUME NEW o \in Rates, NEW r \in Nat, r >= MinCredibleRate
  PROVE  /\ (2 * o + 3 * r) \div 5 \in Nat
         /\ (2 * o + 3 * r) \div 5 >= MinCredibleRate
  BY RatesAssumption

\* Init establishes the types.
LEMMA InitTypeOK == Init => TypeOK
<1> SUFFICES ASSUME Init PROVE TypeOK
  BY Zenon
<1>1. rateEst \in {r \in Nat : r >= MinCredibleRate} \cup {NoRate}
  BY RatesAssumption, Zenon DEF Init
<1>2. chan \in Seq(Items) /\ parts \in Seq(1 .. PartCount)
  BY DEF Init
<1>3. /\ cursor \in 1 .. PartCount + 1
      /\ tries \in [Workers -> 0 .. Attempts] /\ stamp \in [Workers -> Nat]
      /\ item \in [Workers -> Items \cup {NoItem}]
  BY DEF Init, Items
<1> QED
  BY Zenon, <1>1, <1>2, <1>3 DEF Init, TypeOK, Codes, WorkerStates

\* Taking from the channel and delivering a part keep the types of the sequences.
LEMMA SequencesTyped ==
  /\ \A s \in Seq(Items) : s # <<>> => Head(s) \in Items /\ Tail(s) \in Seq(Items)
  /\ \A s \in Seq(Items), i \in Items : Append(s, i) \in Seq(Items)
  /\ \A s \in Seq(1 .. PartCount), i \in 1 .. PartCount : Append(s, i) \in Seq(1 .. PartCount)
  OBVIOUS

\* Counting a try, and an epoch of the estimate.
LEMMA CountsTyped ==
  /\ \A n \in 0 .. Attempts : n < Attempts => n + 1 \in 0 .. Attempts
  /\ \A n \in Nat : n + 1 \in Nat
  /\ 1 \in 0 .. Attempts
  OBVIOUS

\* What is neither an error nor nothing is a part, and a number is positive or not.
LEMMA ItemSigns ==
  /\ \A i \in Items \cup {NoItem} : i # NoItem /\ i # ProducerError => i \in 1 .. PartCount
  /\ \A i \in Int : (i > 0 \/ i <= 0) /\ ~(i > 0 /\ i <= 0)
  /\ ProducerError \in Items
  BY DEF Items

\* The cursor moves past the part that is sealed.
LEMMA NextPart ==
  \A c \in 1 .. PartCount + 1 :
    c <= PartCount => c + 1 \in 1 .. PartCount + 1 /\ {c, ProducerError} \subseteq Items
  BY DEF Items

\* Taking from the channel leaves it within its capacity.
LEMMA TailLen ==
  ASSUME NEW s \in Seq(Items), s # <<>>, Len(s) <= Capacity
  PROVE  Len(Tail(s)) <= Capacity
  BY DEF Capacity

\* A halved estimate is credible, or none (`penalize_stall`).
LEMMA HalvedTyped ==
  \A r \in {r \in Nat : r >= MinCredibleRate} :
    (IF r \div 2 >= MinCredibleRate THEN r \div 2 ELSE NoRate)
      \in {q \in Nat : q >= MinCredibleRate} \cup {NoRate}
  BY RatesAssumption

\* Every step keeps the types (the control invariant bounds the cursor).
LEMMA NextTypeOK == TypeOK /\ ControlInv /\ [Next]_vars => TypeOK'
<1> SUFFICES ASSUME TypeOK, ControlInv, [Next]_vars PROVE TypeOK'
  BY Zenon
<1> USE DEF TypeOK, Items, Codes, WorkerStates
<1>0. CASE PlanMalformed
  BY <1>0, Zenon DEF PlanMalformed, producerVars, workerVars, governorVars
<1>1. CASE Spawn
  BY <1>1, Zenon DEF Spawn, governorVars, resultVars
<1>2. CASE ProducerOpen
  <2>1. hand' \in Items \cup {NoItem} /\ producer' \in {"check", "send"}
    BY <1>2, ItemSigns, Zenon DEF ProducerOpen
  <2> QED
    BY <1>2, <2>1, ZenonT(60) DEF ProducerOpen, workerVars, governorVars, resultVars
<1>3. CASE ProducerCheck
  BY <1>3, ZenonT(60) DEF ProducerCheck, workerVars, governorVars, resultVars
<1>4. CASE ProducerSeal
  <2>1. cursor' \in 1 .. PartCount + 1 /\ hand' \in Items \cup {NoItem}
    BY <1>4, NextPart, Zenon DEF ProducerSeal, ControlInv
  <2> QED
    BY <1>4, <2>1, ZenonT(60) DEF ProducerSeal, workerVars, governorVars, resultVars
<1>5. CASE ProducerSend
  <2>1. chan' \in Seq(Items)
    BY <1>5, SequencesTyped, Zenon DEF ProducerSend, ControlInv
  <2> QED
    BY <1>5, <2>1, ZenonT(60) DEF ProducerSend, HandedOver, workerVars, governorVars, resultVars
<1>6. CASE Finish
  BY <1>6, Zenon DEF Finish, producerVars, workerVars, governorVars
<1>7. CASE UNCHANGED vars
  BY <1>7, ZenonT(60) DEF vars, producerVars, workerVars, governorVars, resultVars
<1>8. ASSUME NEW w \in Workers, WorkerStep(w) PROVE TypeOK'
  <2>1. CASE WorkerLock(w)
    BY <2>1 DEF WorkerLock, producerVars, governorVars, resultVars
  <2>2. CASE WorkerRecv(w)
    <3>1. Head(chan) \in Items /\ Tail(chan) \in Seq(Items)
      BY <2>2, SequencesTyped, ZenonT(60) DEF WorkerRecv
    <3> QED
      BY <2>2, <3>1, ZenonT(60) DEF WorkerRecv, Take, producerVars, governorVars, resultVars
  <2>13. CASE WorkerRendezvous(w)
    BY <2>13, Zenon DEF WorkerRendezvous, Take, HandedOver, ControlInv, governorVars, resultVars
  <2>3. CASE WorkerClosed(w)
    BY <2>3, Zenon DEF WorkerClosed, producerVars, governorVars, resultVars
  <2>4. CASE WorkerDrain(w)
    BY <2>4, ZenonT(60) DEF WorkerDrain, producerVars, governorVars, resultVars
  <2>14. CASE WorkerBegin(w)
    <3>1. /\ worker' \in [Workers -> WorkerStates] /\ tries' \in [Workers -> 0 .. Attempts]
          /\ stamp' \in [Workers -> Nat]
      BY <2>14, CountsTyped, ZenonT(60) DEF WorkerBegin, BeginPut
    <3>2. stale' \subseteq Workers
      BY <2>14, ZenonT(60) DEF WorkerBegin, BeginPut
    <3> QED
      BY <2>14, <3>1, <3>2, ZenonT(60) DEF WorkerBegin, BeginPut, producerVars, resultVars
  <2>15. CASE WorkerProducerFailed(w)
    BY <2>15, ZenonT(60) DEF WorkerProducerFailed, producerVars, governorVars, resultVars
  <2>5. CASE PutRetry(w)
    <3>1. tries[w] + 1 \in 0 .. Attempts
      BY <2>5, CountsTyped, ZenonT(60) DEF PutRetry
    <3>2. tries' \in [Workers -> 0 .. Attempts]
      BY <2>5, <3>1, ZenonT(60) DEF PutRetry
    <3> QED
      BY <2>5, <3>2, ZenonT(60) DEF PutRetry, producerVars, resultVars
  <2>6. CASE PutFails(w)
    BY <2>6 DEF PutFails, producerVars, governorVars, resultVars
  <2>7. CASE PutSucceeds(w)
    <3>1. item[w] \in 1 .. PartCount
      BY <2>7, ItemSigns, ZenonT(60) DEF PutSucceeds, ControlInv
    <3>2. rateEst' \in {r \in Nat : r >= MinCredibleRate} \cup {NoRate}
      BY <2>7, ObserveCredible, RatesAssumption DEF PutSucceeds, ObservePart
    <3>3. UNCHANGED <<generation, stale>>
      BY <2>7, Zenon DEF PutSucceeds, ObservePart
    <3>4. parts' \in Seq(1 .. PartCount)
      BY <2>7, <3>1, SequencesTyped, ZenonT(60) DEF PutSucceeds
    <3> QED
      BY <2>7, <3>2, <3>3, <3>4, ZenonT(60) DEF PutSucceeds, producerVars
  <2>8. CASE Penalize(w)
    <3>1. rateEst' \in {r \in Nat : r >= MinCredibleRate} \cup {NoRate}
      <4>1. CASE UNCHANGED governorVars
        BY <4>1, ZenonT(60) DEF governorVars
      <4>2. CASE /\ rateEst # NoRate
                 /\ rateEst' = IF rateEst \div 2 >= MinCredibleRate THEN rateEst \div 2 ELSE NoRate
        BY <4>2, HalvedTyped, ZenonT(60)
      <4> QED
        BY <2>8, <4>1, <4>2, ZenonT(60) DEF Penalize, PenalizeStall
    <3>2. generation' \in Nat /\ stale' \subseteq Workers
      BY <2>8, CountsTyped, ZenonT(60) DEF Penalize, PenalizeStall, InFlightParts, governorVars
    <3> QED
      BY <2>8, <3>1, <3>2, ZenonT(60) DEF Penalize, producerVars, resultVars
  <2>9. CASE RecordError(w)
    <3>1. failure[w] \in Codes
      BY <2>9, Zenon DEF RecordError, ControlInv
    <3>2. firstError' \in Codes \cup {None} /\ abort' \in BOOLEAN
      BY <2>9, <3>1, Zenon DEF RecordError
    <3>3. worker' \in [Workers -> WorkerStates] /\ failure' \in [Workers -> Codes \cup {None}]
      BY Zenon, <2>9 DEF RecordError
    <3>4. UNCHANGED <<producerVars, chan, rxHolder, item, tries, stamp, governorVars,
                      parts, outcome>>
      BY <2>9, Zenon DEF RecordError
    <3> QED
      BY <3>2, <3>3, <3>4, ZenonT(60) DEF producerVars, governorVars
  <2> QED
    BY <1>8, <2>1, <2>2, <2>3, <2>4, <2>5, <2>6, <2>7, <2>8, <2>9,
       <2>13, <2>14, <2>15, Zenon
       DEF WorkerStep
<1> QED
  BY Zenon, <1>0, <1>1, <1>2, <1>3, <1>4, <1>5, <1>6, <1>7, <1>8 DEF Next, ProducerStep, Returned

\* Elements of a sequence after Append and after taking its head.
LEMMA AppendFacts ==
  ASSUME NEW S, NEW s \in Seq(S), NEW x \in S
  PROVE  /\ DOMAIN Append(s, x) = 1 .. Len(s) + 1 /\ DOMAIN s = 1 .. Len(s)
         /\ Len(s) \in Nat /\ Len(Append(s, x)) = Len(s) + 1
         /\ \A i \in 1 .. Len(s) : Append(s, x)[i] = s[i]
         /\ Append(s, x)[Len(s) + 1] = x
  OBVIOUS

\* Elements of a sequence after its head is taken.
LEMMA TailFacts ==
  ASSUME NEW S, NEW s \in Seq(S), s # <<>>
  PROVE  /\ DOMAIN s = 1 .. Len(s) /\ DOMAIN Tail(s) = 1 .. Len(s) - 1
         /\ Len(s) \in Nat /\ Len(s) > 0 /\ Len(Tail(s)) = Len(s) - 1
         /\ Head(s) = s[1]
         /\ \A i \in 1 .. Len(s) - 1 : Tail(s)[i] = s[i + 1]
  OBVIOUS

\* Every step keeps items and thread positions in agreement.
LEMMA NextControlInv ==
  TypeOK /\ ControlInv /\ [Next]_vars => ControlInv'
<1> SUFFICES ASSUME TypeOK, ControlInv, [Next]_vars PROVE ControlInv'
  BY Zenon
<1> USE DEF TypeOK, ControlInv, Items, Codes, WorkerStates
<1>1. CASE PlanMalformed
  BY <1>1, Zenon DEF PlanMalformed, producerVars, workerVars
<1>2. CASE Spawn
  BY Zenon, <1>2 DEF Spawn, resultVars
<1>3. CASE ProducerOpen
  BY <1>3 DEF ProducerOpen, workerVars, resultVars
<1>4. CASE ProducerCheck
  BY <1>4 DEF ProducerCheck, workerVars, resultVars
<1>5. CASE ProducerSeal
  BY <1>5 DEF ProducerSeal, workerVars, resultVars
<1>6. CASE ProducerSend
  <2>1. Len(chan') = Len(chan) + 1
    BY <1>6, AppendFacts DEF ProducerSend
  <2>2. Capacity \in Nat /\ Len(chan) \in Nat
    BY DEF Capacity
  <2> QED
    BY <1>6, <2>1, <2>2 DEF ProducerSend, HandedOver, workerVars, resultVars
<1>7. CASE Finish
  BY <1>7, Zenon DEF Finish, producerVars, workerVars
<1>8. CASE UNCHANGED vars
  BY <1>8, Zenon DEF vars, producerVars, workerVars, resultVars
<1>9. ASSUME NEW w \in Workers, WorkerStep(w) PROVE ControlInv'
  <2>1. CASE WorkerLock(w)
    BY <2>1, Zenon DEF WorkerLock, producerVars, governorVars, resultVars
  <2>2. CASE WorkerRecv(w)
    <3>1. Len(chan') <= Capacity
      BY <2>2, TailLen, ZenonT(60) DEF WorkerRecv, TypeOK
    <3> QED
      BY <2>2, <3>1 DEF WorkerRecv, Take, producerVars, governorVars, resultVars
  <2>3. CASE WorkerRendezvous(w)
    BY <2>3, Zenon DEF WorkerRendezvous, Take, HandedOver, governorVars, resultVars
  <2>4. CASE WorkerClosed(w)
    BY <2>4, Zenon DEF WorkerClosed, producerVars, governorVars, resultVars
  <2>5. CASE WorkerDrain(w)
    BY <2>5, Zenon DEF WorkerDrain, producerVars, governorVars, resultVars
  <2>6. CASE WorkerBegin(w)
    BY <2>6, Zenon DEF WorkerBegin, BeginPut, producerVars, resultVars
  <2>7. CASE WorkerProducerFailed(w)
    BY <2>7, ZenonT(60) DEF WorkerProducerFailed, producerVars, governorVars, resultVars
  <2>8. CASE PutRetry(w)
    BY <2>8, Zenon DEF PutRetry, producerVars, resultVars
  <2>9. CASE PutFails(w)
    BY <2>9 DEF PutFails, producerVars, governorVars, resultVars
  <2>10. CASE PutSucceeds(w)
    BY <2>10, Zenon DEF PutSucceeds, producerVars
  <2>11. CASE Penalize(w)
    BY <2>11, Zenon DEF Penalize, producerVars, resultVars
  <2>12. CASE RecordError(w)
    BY <2>12, Zenon DEF RecordError, producerVars, governorVars
  <2> QED
    BY ZenonT(60), <1>9, <2>1, <2>2, <2>3, <2>4, <2>5, <2>6, <2>7, <2>8,
       <2>9, <2>10, <2>11, <2>12
       DEF WorkerStep
<1> QED
  BY <1>1, <1>2, <1>3, <1>4, <1>5, <1>6, <1>7, <1>8, <1>9, Zenon DEF Next, ProducerStep, Returned

\* The numeric content of the types.
LEMMA NumericTypes ==
  ASSUME TypeOK
  PROVE  /\ cursor \in Int /\ cursor > 0 /\ hand \in Int
         /\ \A i \in DOMAIN chan : chan[i] \in Int
         /\ \A i \in DOMAIN parts : parts[i] \in Int /\ parts[i] > 0
         /\ \A v \in Workers : item[v] \in Int
  BY DEF TypeOK, Items

\* A step that delivers, buffers and seals nothing new, and at most lets go of
\* items, keeps each part in one place.
LEMMA LettingGo ==
  ASSUME TypeOK, CustodyInv, PartsExactlyOnce, cursor' = cursor \/ cursor' = cursor + 1,
         UNCHANGED <<chan, parts>>, hand' = hand \/ hand' \in {NoItem, ProducerError},
         \A v \in Workers : item'[v] = item[v] \/ item'[v] = NoItem
  PROVE  CustodyInv' /\ PartsExactlyOnce'
<1>1. /\ cursor \in Int /\ cursor > 0 /\ hand \in Int
      /\ \A i \in DOMAIN chan : chan[i] \in Int
      /\ \A i \in DOMAIN parts : parts[i] \in Int /\ parts[i] > 0
      /\ \A v \in Workers : item[v] \in Int
  BY NumericTypes, Zenon
<1>2. /\ hand' < cursor'
      /\ \A i \in DOMAIN chan : chan[i] < cursor'
      /\ \A w \in Workers : item'[w] < cursor'
      /\ \A i \in DOMAIN parts : parts[i] < cursor'
  BY <1>1 DEF CustodyInv
<1>3. \A i \in DOMAIN chan, w \in Workers : chan[i] = item'[w] => chan[i] <= 0
  BY <1>1 DEF CustodyInv
<1>4. hand' > 0 => /\ \A i \in DOMAIN chan : chan[i] # hand'
                   /\ \A w \in Workers : item'[w] # hand'
  BY <1>1 DEF CustodyInv
<1>5. CustodyInv'
  BY <1>2, <1>3, <1>4, Zenon DEF CustodyInv
<1>6. PartsExactlyOnce'
  BY <1>1 DEF PartsExactlyOnce
<1> QED
  BY <1>5, <1>6, Zenon

\* Every step keeps each part in one place.
LEMMA NextCustody ==
  TypeOK /\ ControlInv /\ CustodyInv /\ PartsExactlyOnce /\ [Next]_vars => (CustodyInv /\ PartsExactlyOnce)'
<1> SUFFICES ASSUME TypeOK, ControlInv, CustodyInv, PartsExactlyOnce, [Next]_vars PROVE (CustodyInv /\ PartsExactlyOnce)'
  BY Zenon
<1>0. /\ cursor \in Int /\ cursor > 0 /\ hand \in Int
      /\ \A i \in DOMAIN chan : chan[i] \in Int
      /\ \A i \in DOMAIN parts : parts[i] \in Int /\ parts[i] > 0
      /\ \A v \in Workers : item[v] \in Int
  BY NumericTypes, Zenon
<1>1. CASE PlanMalformed
  BY <1>1, LettingGo, Zenon DEF TypeOK, PlanMalformed, producerVars, workerVars
<1>2. CASE Spawn
  BY <1>2, LettingGo, Zenon DEF TypeOK, Spawn, resultVars
<1>3. CASE ProducerOpen
  BY <1>3, LettingGo, Zenon DEF TypeOK, ProducerOpen, workerVars, resultVars
<1>4. CASE ProducerCheck
  BY <1>4, LettingGo, Zenon DEF TypeOK, ProducerCheck, workerVars, resultVars
<1>5. CASE ProducerSeal
  <2>1. CASE hand' = ProducerError
    BY <1>5, <2>1, LettingGo, Zenon DEF TypeOK, ProducerSeal, workerVars, resultVars
  <2>2. CASE hand' = cursor
    BY <1>5, <2>2, <1>0 DEF ProducerSeal, CustodyInv, PartsExactlyOnce, workerVars, resultVars
  <2> QED
    BY <1>5, <2>1, <2>2, Zenon DEF ProducerSeal
<1>6. CASE ProducerSend
  <2> DEFINE n == Len(chan)
  <2>1. /\ DOMAIN chan = 1 .. n /\ DOMAIN chan' = 1 .. n + 1 /\ n \in Nat
        /\ \A i \in 1 .. n : chan'[i] = chan[i]
        /\ chan'[n + 1] = hand /\ hand' = NoItem
        /\ UNCHANGED <<cursor, parts, item>>
    BY <1>6, AppendFacts DEF ProducerSend, HandedOver, ControlInv, TypeOK, Items, workerVars, resultVars
  <2> HIDE DEF n
  <2>2. \A i \in DOMAIN chan' :
          (i \in DOMAIN chan /\ chan'[i] = chan[i]) \/ (i = n + 1 /\ chan'[i] = hand)
    BY <2>1
  <2>3. /\ ~(hand' > 0) /\ hand' < cursor /\ (hand > 0 \/ hand <= 0)
        /\ \A i \in DOMAIN parts : parts[i] # hand'
    BY <2>1, <1>0
  <2>4. CustodyInv'
    BY <2>1, <2>2, <2>3, ZenonT(60) DEF CustodyInv
  <2>5. PartsExactlyOnce'
    BY <2>1, <2>2, <2>3 DEF PartsExactlyOnce
  <2> QED
    BY <2>4, <2>5, Zenon
<1>7. CASE Finish
  BY <1>7, LettingGo, Zenon DEF TypeOK, Finish, producerVars, workerVars
<1>8. CASE UNCHANGED vars
  BY <1>8, LettingGo, Zenon DEF TypeOK, vars, producerVars, workerVars, resultVars
<1>9. ASSUME NEW w \in Workers, WorkerStep(w) PROVE (CustodyInv /\ PartsExactlyOnce)'
  <2>1. CASE WorkerLock(w)
    BY <2>1, LettingGo, Zenon DEF TypeOK, WorkerLock, producerVars, governorVars, resultVars
  <2>2. CASE WorkerRecv(w)
    <3> DEFINE n == Len(chan)
    <3>1. /\ DOMAIN chan = 1 .. n /\ DOMAIN chan' = 1 .. n - 1 /\ n \in Nat /\ n > 0
          /\ \A i \in 1 .. n - 1 : chan'[i] = chan[i + 1]
          /\ UNCHANGED <<cursor, parts, hand>>
          /\ item'[w] = chan[1] /\ \A v \in Workers \ {w} : item'[v] = item[v]
      BY <2>2, TailFacts, Zenon DEF WorkerRecv, Take, TypeOK, producerVars, resultVars
    <3> HIDE DEF n
    <3>2. \A i \in 1 .. n - 1 : i + 1 \in 1 .. n /\ i + 1 # 1
      BY <3>1
    <3>3. 1 \in 1 .. n
      BY <3>1
    <3>4. \A i \in DOMAIN chan' :
            /\ chan'[i] \in Int /\ chan'[i] < cursor
            /\ chan'[i] = hand => hand <= 0
            /\ chan'[i] = chan[1] => chan'[i] <= 0
            /\ \A v \in Workers : chan'[i] = item[v] => chan'[i] <= 0
            /\ \A j \in DOMAIN parts : parts[j] # chan'[i]
      <4> SUFFICES ASSUME NEW k \in DOMAIN chan'
                   PROVE  /\ chan'[k] \in Int /\ chan'[k] < cursor
                          /\ chan'[k] = hand => hand <= 0
                          /\ chan'[k] = chan[1] => chan'[k] <= 0
                          /\ \A v \in Workers : chan'[k] = item[v] => chan'[k] <= 0
                          /\ \A j \in DOMAIN parts : parts[j] # chan'[k]
        BY Zenon
      <4> DEFINE i == k + 1
      <4>0. i \in DOMAIN chan /\ i # 1 /\ chan'[k] = chan[i]
        BY <3>1, <3>2, Zenon
      <4> HIDE DEF i
      <4>1. chan[i] \in Int /\ 1 \in DOMAIN chan /\ hand \in Int
        BY <3>1, <3>3, <4>0, <1>0, Zenon
      <4>2. chan[i] < cursor /\ \A v \in Workers : chan[i] = item[v] => chan[i] <= 0
        BY <4>0, Zenon DEF CustodyInv
      <4>3. chan[i] = hand => ~(hand > 0)
        BY <4>0, Zenon DEF CustodyInv
      <4>4. chan[i] = chan[1] => ~(chan[i] > 0)
        BY <4>0, <4>1, Zenon DEF CustodyInv
      <4>5. \A j \in DOMAIN parts : parts[j] # chan[i]
        BY <4>0, Zenon DEF PartsExactlyOnce
      <4> QED
        BY <4>0, <4>1, <4>2, <4>3, <4>4, <4>5, ItemSigns, ZenonT(60)
    <3>5. \A i, j \in DOMAIN chan' : chan'[i] = chan'[j] /\ chan'[i] > 0 => i = j
      <4> SUFFICES ASSUME NEW i \in 1 .. n - 1, NEW j \in 1 .. n - 1,
                          chan'[i] = chan'[j], chan'[i] > 0
                   PROVE  i = j
        BY <3>1, Zenon
      <4>1. /\ i + 1 \in DOMAIN chan /\ j + 1 \in DOMAIN chan
            /\ chan[i + 1] = chan[j + 1] /\ chan[i + 1] > 0
        BY <3>1, <3>2, Zenon
      <4>2. i + 1 = j + 1
        BY <4>1, Zenon DEF CustodyInv
      <4> QED
        BY <4>2
    <3>6. /\ chan[1] \in Int /\ chan[1] < cursor /\ (chan[1] = hand => hand <= 0)
          /\ \A v \in Workers : chan[1] = item[v] => chan[1] <= 0
          /\ \A j \in DOMAIN parts : parts[j] # chan[1]
      BY <3>1, <3>3, <1>0 DEF CustodyInv, PartsExactlyOnce
    <3>7. CustodyInv'
      <4>1. \A v \in Workers : item'[v] < cursor /\ (hand > 0 => item'[v] # hand)
        <5>1. item'[w] < cursor /\ (hand > 0 => item'[w] # hand)
          BY <3>1, <3>6, <1>0
        <5>2. \A v \in Workers : item[v] < cursor /\ (hand > 0 => item[v] # hand)
          BY Zenon DEF CustodyInv
        <5> QED
          BY <3>1, <5>1, <5>2, Zenon
      <4>2. \A i \in DOMAIN chan', v \in Workers : chan'[i] = item'[v] => chan'[i] <= 0
        BY Zenon, <3>1, <3>4
      <4>3. hand < cursor /\ \A i \in DOMAIN parts : parts[i] < cursor
        BY Zenon DEF CustodyInv
      <4>4. hand > 0 => \A i \in DOMAIN chan' : chan'[i] # hand
        BY <3>4, <1>0
      <4> QED
        BY <3>1, <3>4, <3>5, <4>1, <4>2, <4>3, <4>4, Zenon DEF CustodyInv
    <3>8. PartsExactlyOnce'
      <4>1. \A v \in Workers : item'[v] = item[v] \/ (v = w /\ item'[v] = chan[1])
        BY <3>1, Zenon
      <4>2. \A u, v \in Workers : item'[u] = item'[v] /\ item'[u] > 0 => u = v
        BY <3>6, <4>1, <1>0, ItemSigns, ZenonT(60) DEF PartsExactlyOnce
      <4>3. \A i \in DOMAIN parts, v \in Workers : parts[i] # item'[v]
        BY <3>6, <4>1, ZenonT(60) DEF PartsExactlyOnce
      <4> QED
        BY <3>1, <3>4, <4>2, <4>3, ZenonT(60) DEF PartsExactlyOnce
    <3> QED
      BY <3>7, <3>8, Zenon
  <2>3. CASE WorkerRendezvous(w)
    <3>1. /\ UNCHANGED <<cursor, parts, chan>> /\ hand' = NoItem
          /\ item'[w] = hand /\ \A v \in Workers \ {w} : item'[v] = item[v]
      BY <2>3, Zenon DEF WorkerRendezvous, Take, HandedOver, TypeOK, resultVars
    <3>2. CustodyInv'
      BY <3>1, <1>0 DEF CustodyInv, PartsExactlyOnce
    <3>3. PartsExactlyOnce'
      BY <3>1, <1>0 DEF CustodyInv, PartsExactlyOnce
    <3> QED
      BY <3>2, <3>3, Zenon
  <2>4. CASE WorkerClosed(w)
    BY <2>4, LettingGo, Zenon DEF TypeOK, WorkerClosed, producerVars, governorVars, resultVars
  <2>5. CASE WorkerDrain(w)
    BY <2>5, LettingGo, Zenon DEF TypeOK, WorkerDrain, producerVars, governorVars, resultVars
  <2>6. CASE WorkerBegin(w)
    BY <2>6, LettingGo, Zenon DEF TypeOK, WorkerBegin, BeginPut, producerVars, resultVars
  <2>7. CASE WorkerProducerFailed(w)
    BY <2>7, LettingGo, Zenon DEF TypeOK, WorkerProducerFailed, producerVars, governorVars, resultVars
  <2>8. CASE PutRetry(w)
    BY <2>8, LettingGo, Zenon DEF TypeOK, PutRetry, producerVars, resultVars
  <2>9. CASE PutFails(w)
    BY <2>9, LettingGo, Zenon DEF TypeOK, PutFails, producerVars, governorVars, resultVars
  <2>10. CASE PutSucceeds(w)
    <3> DEFINE n == Len(parts)
    <3>1. item[w] \in 1 .. PartCount
      BY <2>10 DEF PutSucceeds, ControlInv, TypeOK, Items
    <3>2. /\ DOMAIN parts = 1 .. n /\ DOMAIN parts' = 1 .. n + 1 /\ n \in Nat
          /\ \A i \in 1 .. n : parts'[i] = parts[i]
          /\ parts'[n + 1] = item[w]
          /\ UNCHANGED <<cursor, chan, hand>>
          /\ item'[w] = NoItem /\ \A v \in Workers \ {w} : item'[v] = item[v]
      <4>1. /\ parts' = Append(parts, item[w]) /\ parts \in Seq(1 .. PartCount)
            /\ item \in [Workers -> Items \cup {NoItem}]
            /\ item' = [item EXCEPT ![w] = NoItem] /\ UNCHANGED <<cursor, chan, hand>>
        BY Zenon, <2>10 DEF PutSucceeds, TypeOK, producerVars
      <4>2. item'[w] = NoItem /\ \A v \in Workers \ {w} : item'[v] = item[v]
        BY <4>1, Zenon
      <4> QED
        BY <3>1, <4>1, <4>2, AppendFacts
    <3> HIDE DEF n
    <3>a. /\ item[w] < cursor /\ item[w] > 0 /\ NoItem = -1
          /\ \A v \in Workers : item'[v] = item[v] \/ item'[v] = NoItem
      BY <3>1, <3>2 DEF CustodyInv, NoItem
    <3>b. \A i \in DOMAIN parts' : parts'[i] < cursor
      BY <3>2, <3>a DEF CustodyInv
    <3>c. \A i \in DOMAIN chan, v \in Workers : chan[i] = item'[v] => chan[i] <= 0
      BY <3>a, <1>0 DEF CustodyInv
    <3>d. \A v \in Workers : item'[v] < cursor /\ (hand > 0 => item'[v] # hand)
      BY <3>a, <1>0 DEF CustodyInv
    <3>3. CustodyInv'
      BY <3>2, <3>b, <3>c, <3>d, Zenon DEF CustodyInv
    <3>4. /\ item[w] # hand
          /\ \A j \in DOMAIN chan : item[w] # chan[j]
          /\ \A v \in Workers : item[w] # item'[v]
          /\ \A i \in DOMAIN parts : parts[i] # item[w]
      <4>1. item[w] # hand /\ \A j \in DOMAIN chan : item[w] # chan[j]
        BY <3>a, <1>0 DEF CustodyInv
      <4>2. \A v \in Workers : item[w] # item'[v]
        BY <3>2, <3>a DEF PartsExactlyOnce
      <4>3. \A i \in DOMAIN parts : parts[i] # item[w]
        BY Zenon DEF PartsExactlyOnce
      <4> QED
        BY <4>1, <4>2, <4>3, Zenon
    <3>e. \A i \in DOMAIN parts' :
            (i \in DOMAIN parts /\ parts'[i] = parts[i]) \/ (i = n + 1 /\ parts'[i] = item[w])
      BY <3>2
    <3>f. \A i \in DOMAIN parts : parts[i] # NoItem
      BY <1>0, ItemSigns
    <3>5. \A i, j \in DOMAIN parts' : parts'[i] = parts'[j] => i = j
      BY <3>4, <3>e, ZenonT(60) DEF PartsExactlyOnce
    <3>6. \A i \in DOMAIN parts' :
            /\ parts'[i] # hand
            /\ \A j \in DOMAIN chan : parts'[i] # chan[j]
            /\ \A v \in Workers : parts'[i] # item'[v]
      <4>1. \A i \in DOMAIN parts, v \in Workers : parts[i] # item'[v]
        BY <3>a, <3>f, Zenon DEF PartsExactlyOnce
      <4>2. \A i \in DOMAIN parts : parts[i] # hand /\ \A j \in DOMAIN chan : parts[i] # chan[j]
        BY Zenon DEF PartsExactlyOnce
      <4> QED
        BY <3>4, <3>e, <4>1, <4>2, ZenonT(60)
    <3>7. PartsExactlyOnce'
      BY <3>2, <3>5, <3>6, <1>0 DEF PartsExactlyOnce
    <3> QED
      BY <3>3, <3>7, Zenon
  <2>11. CASE Penalize(w)
    BY <2>11, LettingGo, Zenon DEF TypeOK, Penalize, producerVars, resultVars
  <2>12. CASE RecordError(w)
    BY <2>12, LettingGo, Zenon DEF TypeOK, RecordError, producerVars, governorVars
  <2> QED
    BY <1>9, <2>1, <2>2, <2>3, <2>4, <2>5, <2>6, <2>7, <2>8,
       <2>9, <2>10, <2>11, <2>12, Zenon
       DEF WorkerStep
<1> QED
  BY <1>1, <1>2, <1>3, <1>4, <1>5, <1>6, <1>7, <1>8, <1>9, Zenon DEF Next, ProducerStep, Returned

\* Every step keeps track of every part below the cursor.
LEMMA NextNoneLost ==
  TypeOK /\ ControlInv /\ NoneLost /\ [Next]_vars => NoneLost'
<1> SUFFICES ASSUME TypeOK, ControlInv, NoneLost, [Next]_vars PROVE NoneLost'
  BY Zenon
<1> USE DEF ControlInv, NoneLost, Delivered, OnItsWay, ErrorPending
<1>0. /\ cursor \in Int /\ cursor > 0
      /\ worker \in [Workers -> WorkerStates] /\ DOMAIN item = Workers
  BY DEF TypeOK
<1>1. CASE PlanMalformed
  BY <1>0, <1>1, ZenonT(60) DEF PlanMalformed, producerVars, workerVars
<1>2. CASE Spawn
  BY <1>0, <1>2, ZenonT(60) DEF Spawn, resultVars
<1>3. CASE ProducerOpen
  <2>1. CASE producer' = "send" /\ hand' = ProducerError
    BY <1>0, <1>3, <2>1, ZenonT(60) DEF ProducerOpen, workerVars, resultVars
  <2>2. CASE producer' = "check" /\ UNCHANGED hand
    BY <1>0, <1>3, <2>2, ZenonT(60) DEF ProducerOpen, workerVars, resultVars
  <2> QED
    BY <1>3, <2>1, <2>2, Zenon DEF ProducerOpen
<1>4. CASE ProducerCheck
  <2>1. UNCHANGED <<cursor, hand, chan, worker, item, parts, abort, firstError>>
    BY <1>4, Zenon DEF ProducerCheck, workerVars, resultVars
  <2>2. \A p \in 1 .. cursor' - 1 : (Delivered(p) \/ OnItsWay(p) \/ ErrorPending)'
    BY <2>1, ZenonT(60)
  <2>3. producer' = "done" => abort \/ cursor > PartCount
    BY <1>4, Zenon DEF ProducerCheck
  <2>4. abort => ErrorPending'
    BY <2>1, Zenon
  <2> QED
    BY <2>1, <2>2, <2>3, <2>4, ZenonT(60)
<1>5. CASE ProducerSeal
  <2>1. /\ hand = NoItem /\ cursor' = cursor + 1 /\ producer' = "send"
        /\ UNCHANGED <<chan, worker, item, parts, firstError>>
    BY <1>5, ZenonT(60) DEF ProducerSeal, workerVars, resultVars
  <2>2. CASE hand' = ProducerError
    BY <2>1, <2>2, ZenonT(60)
  <2>3. CASE hand' = cursor
    <3>1. /\ \A p \in 1 .. cursor' - 1 : p = cursor \/ p \in 1 .. cursor - 1
          /\ ProducerError # NoItem /\ \A p \in 1 .. cursor - 1 : p # NoItem
      BY <1>0, <2>1
    <3>2. ErrorPending => ErrorPending'
      BY <2>1, <3>1, ZenonT(60)
    <3>3. \A p \in 1 .. cursor - 1 : Delivered(p) \/ OnItsWay(p) => (Delivered(p) \/ OnItsWay(p))'
      BY <2>1, <3>1, ZenonT(60)
    <3> HIDE DEF Delivered, ErrorPending
    <3> QED
      BY <2>1, <2>3, <3>1, <3>2, <3>3, ZenonT(60)
  <2> QED
    BY <1>5, <2>2, <2>3, Zenon DEF ProducerSeal
<1>6. CASE ProducerSend
  BY <1>0, <1>6 DEF ProducerSend, HandedOver, workerVars, resultVars
<1>7. CASE Finish
  BY <1>0, <1>7, ZenonT(60) DEF Finish, producerVars, workerVars
<1>8. CASE UNCHANGED vars
  BY <1>0, <1>8 DEF vars, producerVars, workerVars, resultVars
<1>9. ASSUME NEW w \in Workers, WorkerStep(w) PROVE NoneLost'
  <2>1. CASE WorkerLock(w)
    BY <1>0, <2>1, Zenon DEF WorkerLock, producerVars, governorVars, resultVars
  <2>2. CASE WorkerRecv(w)
    <3> DEFINE n == Len(chan)
    <3> HIDE DEF ControlInv, NoneLost, Delivered, OnItsWay, ErrorPending
    <3>1. /\ DOMAIN chan = 1 .. n /\ DOMAIN chan' = 1 .. n - 1 /\ n \in Nat /\ n > 0
          /\ \A i \in 1 .. n - 1 : chan'[i] = chan[i + 1]
      <4>1. chan \in Seq(Items) /\ chan # <<>> /\ chan' = Tail(chan)
        BY <2>2, Zenon DEF WorkerRecv, TypeOK
      <4> QED
        BY <4>1, TailFacts, Zenon
    <3>2. /\ UNCHANGED <<cursor, parts, hand, producer, firstError>>
          /\ item'[w] = chan[1] /\ \A v \in Workers \ {w} : item'[v] = item[v]
          /\ \A v \in Workers \ {w} : worker'[v] = worker[v]
          /\ worker[w] = "recv"
      BY <1>0, <2>2 DEF WorkerRecv, Take, producerVars, resultVars
    <3>3. item[w] = NoItem
      BY <3>2, Zenon DEF ControlInv
    <3> HIDE DEF n
    <3>4. ASSUME NEW p, p # NoItem, OnItsWay(p) PROVE OnItsWay(p)'
      <4>1. ASSUME NEW i \in DOMAIN chan, chan[i] = p PROVE OnItsWay(p)'
        <5>1. CASE i = 1
          BY <3>2, <4>1, <5>1, Zenon DEF OnItsWay
        <5>2. CASE i # 1
          <6>1. i - 1 \in DOMAIN chan' /\ chan'[i - 1] = p
            BY <3>1, <4>1, <5>2
          <6> QED
            BY <6>1, Zenon DEF OnItsWay
        <5> QED
          BY <5>1, <5>2, Zenon
      <4>2. ASSUME NEW v \in Workers, item[v] = p PROVE OnItsWay(p)'
        BY <3>2, <3>3, <3>4, <4>2, Zenon DEF OnItsWay
      <4>3. CASE hand = p
        BY <3>2, <4>3, Zenon DEF OnItsWay
      <4> QED
        BY <3>4, <4>1, <4>2, <4>3, Zenon DEF OnItsWay
    <3>5. ErrorPending => ErrorPending'
      <4>1. OnItsWay(ProducerError) => OnItsWay(ProducerError)'
        BY <3>4 DEF ProducerError, NoItem
      <4>2. ASSUME NEW v \in Workers, worker[v] = "record" PROVE worker'[v] = "record"
        BY <3>2, <4>2, Zenon
      <4> QED
        BY <3>2, <4>1, <4>2, Zenon DEF ErrorPending
    <3>6. ASSUME NEW p, Delivered(p) PROVE Delivered(p)'
      BY <3>2, <3>6, Zenon DEF Delivered
    <3>7. ASSUME NEW v \in Workers, worker[v] = "done" PROVE worker'[v] = "done"
      BY <3>2, <3>7, Zenon
    <3>8. \A p \in 1 .. cursor - 1 : p # NoItem
      BY <1>0 DEF NoItem
    <3> QED
      BY <3>2, <3>4, <3>5, <3>6, <3>7, <3>8, Zenon DEF NoneLost
  <2>3. CASE WorkerRendezvous(w)
    BY <1>0, <2>3, Zenon DEF WorkerRendezvous, Take, HandedOver, governorVars, resultVars
  <2>4. CASE WorkerClosed(w)
    BY <1>0, <2>4, Zenon DEF WorkerClosed, producerVars, governorVars, resultVars
  <2>5. CASE WorkerDrain(w)
    BY <1>0, <2>5, Zenon DEF WorkerDrain, producerVars, governorVars, resultVars
  <2>6. CASE WorkerBegin(w)
    BY <1>0, <2>6, Zenon DEF WorkerBegin, BeginPut, producerVars, resultVars
  <2>7. CASE WorkerProducerFailed(w)
    BY <1>0, <2>7, Zenon DEF WorkerProducerFailed, producerVars, governorVars, resultVars
  <2>8. CASE PutRetry(w)
    BY <1>0, <2>8, Zenon DEF PutRetry, producerVars, resultVars
  <2>9. CASE PutFails(w)
    BY <1>0, <2>9, ZenonT(60) DEF PutFails, producerVars, governorVars, resultVars
  <2>10. CASE PutSucceeds(w)
    <3> DEFINE n == Len(parts)
    <3> HIDE DEF ControlInv, NoneLost, Delivered, OnItsWay, ErrorPending
    <3>1. item[w] \in 1 .. PartCount
      BY <2>10 DEF PutSucceeds, TypeOK, Items, ControlInv
    <3>2. /\ DOMAIN parts = 1 .. n /\ DOMAIN parts' = 1 .. n + 1 /\ n \in Nat
          /\ \A i \in 1 .. n : parts'[i] = parts[i]
          /\ parts'[n + 1] = item[w]
      <4>1. parts \in Seq(1 .. PartCount) /\ parts' = Append(parts, item[w])
        BY <2>10, Zenon DEF PutSucceeds, TypeOK
      <4> QED
        BY <3>1, <4>1, AppendFacts
    <3>3. /\ UNCHANGED <<cursor, chan, hand, producer, firstError>>
          /\ \A v \in Workers \ {w} : item'[v] = item[v] /\ worker'[v] = worker[v]
          /\ worker[w] = "put"
      BY <1>0, <2>10, Zenon DEF PutSucceeds, producerVars
    <3> HIDE DEF n
    <3>4. ASSUME NEW p, Delivered(p) PROVE Delivered(p)'
      BY <3>2, <3>4 DEF Delivered
    <3>5. ASSUME NEW p, p = item[w] PROVE Delivered(p)'
      <4>1. n + 1 \in DOMAIN parts' /\ parts'[n + 1] = p
        BY <3>2, <3>5
      <4> QED
        BY <4>1, Zenon DEF Delivered
    <3>6. ASSUME NEW p, OnItsWay(p), p # item[w] PROVE OnItsWay(p)'
      BY <3>3, <3>6, Zenon DEF OnItsWay
    <3>7. ErrorPending => ErrorPending'
      <4>1. OnItsWay(ProducerError) => OnItsWay(ProducerError)'
        BY <3>1, <3>6 DEF ProducerError
      <4>2. ASSUME NEW v \in Workers, worker[v] = "record" PROVE worker'[v] = "record"
        BY <3>3, <4>2, Zenon
      <4> QED
        BY <3>3, <4>1, <4>2, Zenon DEF ErrorPending
    <3>8. ASSUME NEW v \in Workers, worker[v] = "done" PROVE worker'[v] = "done"
      BY <3>3, <3>8, Zenon
    <3> QED
      BY <3>3, <3>4, <3>5, <3>6, <3>7, <3>8, Zenon DEF NoneLost
  <2>11. CASE Penalize(w)
    BY <1>0, <2>11, Zenon DEF Penalize, producerVars, resultVars
  <2>12. CASE RecordError(w)
    BY <1>0, <2>12, Zenon DEF RecordError, producerVars, governorVars
  <2> QED
    BY ZenonT(60), <1>9, <2>1, <2>2, <2>3, <2>4, <2>5, <2>6, <2>7, <2>8,
       <2>9, <2>10, <2>11, <2>12
       DEF WorkerStep
<1> QED
  BY <1>1, <1>2, <1>3, <1>4, <1>5, <1>6, <1>7, <1>8, <1>9, Zenon DEF Next, ProducerStep, Returned

\* A sequence that lists 1 .. n without repetition has length n.
LEMMA OnceEach ==
  ASSUME NEW n \in Nat, NEW s \in Seq(1 .. n),
         \A i, j \in DOMAIN s : s[i] = s[j] => i = j,
         \A p \in 1 .. n : \E i \in DOMAIN s : s[i] = p
  PROVE  Len(s) = n
<1>0. s \in [1 .. Len(s) -> 1 .. n] /\ DOMAIN s = 1 .. Len(s)
  OBVIOUS
<1>1. s \in Bijection(1 .. Len(s), 1 .. n)
  BY Zenon, <1>0 DEF Bijection, Injection, Surjection, IsInjective
<1>2. ExistsBijection(1 .. Len(s), 1 .. n)
  BY <1>1, Zenon DEF ExistsBijection
<1>3. Cardinality(1 .. n) = Len(s)
  BY <1>2, FS_CountingElements
<1>4. Cardinality(1 .. n) = n
  BY FS_Interval
<1> QED
  BY <1>3, <1>4, Zenon

\* Every step keeps the result complete.
LEMMA NextResultComplete ==
  IInv /\ [Next]_vars => ResultComplete'
<1> SUFFICES ASSUME IInv, [Next]_vars PROVE ResultComplete'
  BY Zenon
<1> USE DEF ResultComplete, Delivered
<1>0. ResultComplete
  BY Zenon DEF IInv
<1>1. CASE PlanMalformed
  BY <1>0, <1>1, Zenon DEF PlanMalformed, producerVars, workerVars
<1>2. CASE Spawn
  BY <1>0, <1>2, Zenon DEF Spawn, resultVars
<1>3. CASE ProducerOpen
  BY <1>0, <1>3, Zenon DEF ProducerOpen, workerVars, resultVars
<1>4. CASE ProducerCheck
  BY <1>0, <1>4, Zenon DEF ProducerCheck, workerVars, resultVars
<1>5. CASE ProducerSeal
  BY <1>0, <1>5, Zenon DEF ProducerSeal, workerVars, resultVars
<1>6. CASE ProducerSend
  BY <1>0, <1>6, Zenon DEF ProducerSend, HandedOver, workerVars, resultVars
<1>7. CASE Finish
  <2>1. producer = "done" /\ \A w \in Workers : worker[w] = "done"
    BY <1>7, Zenon DEF Finish, IInv, ControlInv
  <2>2. hand = NoItem /\ chan = <<>> /\ \A w \in Workers : item[w] = NoItem
    BY <2>1, WorkersAssumption, Zenon DEF IInv, ControlInv
  <2>3. ErrorPending => firstError # None
    BY <2>1, <2>2 DEF ErrorPending, OnItsWay
  <2>4. ASSUME firstError = None PROVE \A p \in 1 .. PartCount : Delivered(p)
    <3>1. \A p \in 1 .. PartCount : p \in 1 .. cursor - 1
      BY <2>1, <2>3, <2>4 DEF IInv, NoneLost, TypeOK
    <3>2. \A p \in 1 .. PartCount : ~OnItsWay(p)
      BY <2>2 DEF OnItsWay
    <3> QED
      BY <2>1, <2>3, <2>4, <3>1, <3>2, Zenon DEF IInv, NoneLost
  <2>5. ASSUME firstError = None PROVE Len(parts) = PartCount
    BY Zenon, <2>4, <2>5, OnceEach DEF IInv, TypeOK, PartsExactlyOnce
  <2>6. firstError \in Codes \cup {None}
    BY Zenon DEF IInv, TypeOK
  <2> QED
    BY <1>7, <2>4, <2>5, <2>6, Zenon DEF Finish, Codes
<1>8. CASE UNCHANGED vars
  BY <1>0, <1>8, Zenon DEF vars, producerVars, workerVars, resultVars
<1>9. ASSUME NEW w \in Workers, WorkerStep(w) PROVE ResultComplete'
  <2>1. CASE WorkerLock(w)
    BY <1>0, <2>1, Zenon DEF WorkerLock, producerVars, governorVars, resultVars
  <2>2. CASE WorkerRecv(w)
    BY <1>0, <2>2, Zenon DEF WorkerRecv, Take, producerVars, governorVars, resultVars
  <2>3. CASE WorkerRendezvous(w)
    BY <1>0, <2>3, Zenon DEF WorkerRendezvous, Take, HandedOver, governorVars, resultVars
  <2>4. CASE WorkerClosed(w)
    BY <1>0, <2>4, Zenon DEF WorkerClosed, producerVars, governorVars, resultVars
  <2>5. CASE WorkerDrain(w)
    BY <1>0, <2>5, Zenon DEF WorkerDrain, producerVars, governorVars, resultVars
  <2>6. CASE WorkerBegin(w)
    BY <1>0, <2>6, Zenon DEF WorkerBegin, BeginPut, producerVars, resultVars
  <2>7. CASE WorkerProducerFailed(w)
    BY <1>0, <2>7, Zenon DEF WorkerProducerFailed, producerVars, governorVars, resultVars
  <2>8. CASE PutRetry(w)
    BY <1>0, <2>8, Zenon DEF PutRetry, producerVars, resultVars
  <2>9. CASE PutFails(w)
    BY <1>0, <2>9, Zenon DEF PutFails, producerVars, governorVars, resultVars
  <2>10. CASE PutSucceeds(w)
    <3>1. item[w] \in 1 .. PartCount
      BY <2>10 DEF PutSucceeds, IInv, ControlInv, TypeOK, Items
    <3>2. \A i \in DOMAIN parts : i \in DOMAIN parts' /\ parts'[i] = parts[i]
      <4>1. parts \in Seq(1 .. PartCount) /\ parts' = Append(parts, item[w])
        BY <2>10, Zenon DEF PutSucceeds, IInv, TypeOK
      <4> QED
        BY <3>1, <4>1, AppendFacts
    <3> QED
      BY <1>0, <2>10, <3>2, Zenon DEF PutSucceeds
  <2>11. CASE Penalize(w)
    BY <1>0, <2>11, Zenon DEF Penalize, producerVars, resultVars
  <2>12. CASE RecordError(w)
    <3>1. failure[w] # "ok" /\ failure[w] # "shortfall"
      BY Zenon DEF IInv, TypeOK, Codes
    <3> QED
      BY <1>0, <2>12, <3>1, Zenon DEF RecordError
  <2> QED
    BY <1>9, <2>1, <2>2, <2>3, <2>4, <2>5, <2>6, <2>7, <2>8,
       <2>9, <2>10, <2>11, <2>12, Zenon
       DEF WorkerStep
<1> QED
  BY <1>1, <1>2, <1>3, <1>4, <1>5, <1>6, <1>7, <1>8, <1>9, Zenon DEF Next, ProducerStep, Returned

\* IInv holds initially.
LEMMA InitIInv == Init => IInv
<1> SUFFICES ASSUME Init PROVE IInv
  BY Zenon
<1>1. TypeOK
  BY InitTypeOK, Zenon
<1>2. ControlInv
  BY DEF Init, ControlInv, Capacity
<1>3. CustodyInv /\ PartsExactlyOnce
  BY DEF Init, CustodyInv, PartsExactlyOnce
<1>4. NoneLost /\ ResultComplete
  BY DEF Init, NoneLost, ResultComplete
<1> QED
  BY <1>1, <1>2, <1>3, <1>4, Zenon DEF IInv

\* IInv is inductive.
LEMMA NextIInv == IInv /\ [Next]_vars => IInv'
  BY NextTypeOK, NextControlInv, NextCustody, NextNoneLost, NextResultComplete, Zenon DEF IInv

\* The inductive invariant holds in every reachable state.
THEOREM Invariance == Spec => []IInv
  BY InitIInv, NextIInv, PTL DEF Spec

\* Every variable of the transfer keeps its type.
THEOREM TypeCorrect == Spec => []TypeOK
<1>1. IInv => TypeOK
  BY Zenon DEF IInv
<1> QED
  BY <1>1, Invariance, PTL

\* However the threads of `upload_parts` interleave, no part is delivered twice or
\* is in two places at once.
THEOREM ExactlyOnce == Spec => []PartsExactlyOnce
<1>1. IInv => PartsExactlyOnce
  BY Zenon DEF IInv
<1> QED
  BY <1>1, Invariance, PTL

\* Success means every planned part was delivered; the completeness assertion
\* after the join cannot fire.
THEOREM Complete == Spec => []ResultComplete
<1>1. IInv => ResultComplete
  BY Zenon DEF IInv
<1> QED
  BY <1>1, Invariance, PTL

\* The number of sealed envelopes alive is bounded by the workers and the
\* seal-ahead, whatever the number of parts.
THEOREM Memory == Spec => []MemoryBound
<1>1. ASSUME IInv PROVE MemoryBound
  <2> DEFINE H == {w \in Workers : item[w] > 0}
             B == {i \in DOMAIN chan : chan[i] > 0}
  <2>1. Cardinality(H) <= Cardinality(Workers) /\ IsFiniteSet(H)
    BY WorkersAssumption, FS_Subset, Zenon
  <2>2. IsFiniteSet(1 .. Len(chan)) /\ Cardinality(1 .. Len(chan)) = Len(chan) /\ Len(chan) \in Nat
    <3>1. Len(chan) \in Nat
      BY <1>1 DEF IInv, TypeOK
    <3>2. \A n \in Nat : IsFiniteSet(1 .. n) /\ Cardinality(1 .. n) = n
      BY FS_Interval
    <3> QED
      BY <3>1, <3>2, Zenon
  <2>3. Cardinality(B) <= Len(chan) /\ IsFiniteSet(B)
    BY <1>1, <2>2, FS_Subset DEF IInv, TypeOK
  <2>4. Len(chan) <= Capacity
    BY <1>1, Zenon DEF IInv, ControlInv
  <2>5. /\ Cardinality(H) \in Nat /\ Cardinality(B) \in Nat
        /\ Cardinality(Workers) \in Nat
    BY <2>1, <2>3, WorkersAssumption, FS_CardinalityType, Zenon
  <2>6. InFlightEnvelopes = Cardinality(H) + Cardinality(B) + (IF hand > 0 THEN 1 ELSE 0)
    BY Zenon DEF InFlightEnvelopes
  <2> HIDE DEF H, B
  <2> QED
    BY <2>1, <2>2, <2>3, <2>4, <2>5, <2>6 DEF MemoryBound, Capacity
<1> QED
  BY <1>1, Invariance, PTL

\* A part on the wire was stamped with an epoch of the estimate no later than the present
\* one, and with an earlier one if the estimate was halved while it was in flight.
StampInv ==
  \A w \in Workers : worker[w] \in {"put", "penalize"} =>
    /\ stamp[w] <= generation
    /\ w \in stale => stamp[w] < generation

\* Steps that send nothing and leave the estimate's epoch.
LEMMA StampStays ==
  ASSUME StampInv, UNCHANGED <<stamp, generation>>, stale' \subseteq stale,
         \A w \in Workers : worker'[w] \in {"put", "penalize"} => worker[w] \in {"put", "penalize"}
  PROVE  StampInv'
  BY Zenon DEF StampInv

\* Only WorkerBegin sends a part, and only Penalize moves the epoch.
LEMMA NextStamp ==
  ASSUME TypeOK, StampInv, [Next]_vars
  PROVE  StampInv'
<1>0. /\ worker \in [Workers -> WorkerStates] /\ stamp \in [Workers -> Nat] /\ generation \in Nat
      /\ stale \subseteq Workers
  BY Zenon DEF TypeOK
<1>1. CASE PlanMalformed \/ ProducerStep \/ Finish \/ Returned \/ UNCHANGED vars
  <2>1. UNCHANGED <<worker, stamp, generation>> /\ stale' \subseteq stale
    BY <1>1, Zenon DEF PlanMalformed, ProducerStep, ProducerOpen, ProducerCheck, ProducerSeal, ProducerSend,
                Finish, Returned, vars, workerVars, governorVars
  <2> QED
    BY <2>1, StampStays, Zenon
<1>2. CASE Spawn
  BY <1>2, Zenon DEF Spawn, StampInv
<1>3. ASSUME NEW w \in Workers, WorkerStep(w)
      PROVE  StampInv'
  <2>1. CASE WorkerBegin(w)
    <3>1. /\ stamp' = [stamp EXCEPT ![w] = generation] /\ worker' = [worker EXCEPT ![w] = "put"]
          /\ generation' = generation /\ stale' = stale \ {w}
      BY <2>1, Zenon DEF WorkerBegin, BeginPut
    <3> QED
      BY <1>0, <3>1 DEF StampInv
  <2>2. CASE Penalize(w)
    <3>1. stamp' = stamp /\ worker' = [worker EXCEPT ![w] = "record"]
      BY <2>2, Zenon DEF Penalize
    <3>2. \/ generation' = generation + 1
          \/ generation' = generation /\ stale' = stale
      BY <2>2, Zenon DEF Penalize, PenalizeStall, governorVars
    <3> QED
      BY <1>0, <3>1, <3>2 DEF StampInv
  <2>3. CASE ~WorkerBegin(w) /\ ~Penalize(w)
    <3>1. UNCHANGED <<stamp, generation>> /\ stale' \subseteq stale
      BY <1>3, <2>3, Zenon DEF WorkerStep, WorkerLock, WorkerRecv, WorkerRendezvous, WorkerClosed,
         WorkerDrain, WorkerProducerFailed, PutRetry, PutFails, PutSucceeds, RecordError, Take,
         ObservePart, governorVars
    <3>2. \/ worker' = worker
          \/ \E s : worker' = [worker EXCEPT ![w] = s] /\ s \notin {"put", "penalize"}
          \/ worker[w] = "put" /\ (\E s : worker' = [worker EXCEPT ![w] = s])
      BY <1>3, <2>3, Zenon DEF WorkerStep, WorkerLock, WorkerRecv, WorkerRendezvous, WorkerClosed,
         WorkerDrain, WorkerProducerFailed, PutRetry, PutFails, PutSucceeds, RecordError, Take
    <3>3. \A v \in Workers : worker'[v] \in {"put", "penalize"} => worker[v] \in {"put", "penalize"}
      BY <1>0, <3>2, Zenon
    <3> QED
      BY <3>1, <3>3, StampStays, Zenon
  <2> QED
    BY <2>1, <2>2, <2>3, Zenon
<1> QED
  BY <1>1, <1>2, <1>3, Zenon DEF Next

\* For any number of workers and parts that fail together, one halving: the failure of an
\* attempt in flight when the estimate was halved leaves it alone (penalize_stall).
THEOREM HalvedOnce == Spec => OneHalvingPerEvent
<1> DEFINE Once == \A w \in Workers :
             w \in stale /\ worker[w] = "penalize" /\ worker'[w] = "record"
               => rateEst' = rateEst /\ generation' = generation
<1>1. Init => StampInv
  BY Zenon DEF Init, StampInv
<1>2. TypeOK /\ StampInv /\ [Next]_vars => StampInv'
  BY NextStamp, Zenon
<1>3. TypeOK /\ StampInv /\ [Next]_vars => [Once]_vars
  <2> SUFFICES ASSUME TypeOK, StampInv, Next, NEW w \in Workers,
                      w \in stale, worker[w] = "penalize", worker'[w] = "record"
               PROVE  rateEst' = rateEst /\ generation' = generation
    BY Zenon
  <2>1. worker \in [Workers -> WorkerStates] /\ stamp[w] \in Nat /\ generation \in Nat
    BY Zenon DEF TypeOK
  <2>2. stamp[w] # generation
    BY <2>1 DEF StampInv
  <2>3. CASE Penalize(w)
    BY <2>2, <2>3, Zenon DEF Penalize, PenalizeStall, governorVars
  <2>4. ASSUME NEW v \in Workers, WorkerStep(v), ~Penalize(w)
        PROVE  FALSE
    <3>1. CASE v = w
      BY <2>1, <2>4, <3>1, Zenon DEF WorkerStep, WorkerLock, WorkerRecv, WorkerRendezvous, WorkerClosed,
         WorkerDrain, WorkerBegin, BeginPut, WorkerProducerFailed, PutRetry, PutFails, PutSucceeds, RecordError
    <3>2. CASE v # w
      <4>1. worker' = worker \/ \E s : worker' = [worker EXCEPT ![v] = s]
        BY <2>4, Zenon DEF WorkerStep, WorkerLock, WorkerRecv, WorkerRendezvous, WorkerClosed,
           WorkerDrain, WorkerBegin, BeginPut, WorkerProducerFailed, PutRetry, PutFails, PutSucceeds,
           Penalize, RecordError, Take
      <4> QED
        BY <2>1, <3>2, <4>1, Zenon
    <3> QED
      BY <3>1, <3>2, Zenon
  <2>5. CASE PlanMalformed \/ Spawn \/ ProducerStep \/ Finish \/ Returned
    BY <2>1, <2>5, Zenon DEF PlanMalformed, Spawn, ProducerStep, ProducerOpen, ProducerCheck, ProducerSeal,
       ProducerSend, Finish, Returned, vars, workerVars
  <2> QED
    BY <2>3, <2>4, <2>5, Zenon DEF Next
<1> QED
  BY <1>1, <1>2, <1>3, TypeCorrect, PTL DEF Spec, OneHalvingPerEvent
=============================================================================
