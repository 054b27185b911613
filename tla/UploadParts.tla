---------------------------- MODULE UploadParts ----------------------------
(***************************************************************************)
(* `upload_parts` of cli/src/commands.rs: the transfer of one file's parts *)
(* to storage.  A producer thread reads and seals the parts in plan order  *)
(* and hands them over a bounded channel to the worker threads, which PUT  *)
(* them; the first error stops the producer and turns every worker into a  *)
(* drainer.  All threads share one TransferGovernor, whose rate estimate   *)
(* is halved when a part fails.  (With one worker and no seal-ahead the    *)
(* code runs a serial loop instead: the parts of a run in UploadLifecycle.)*)
(*                                                                         *)
(* A part is its position in the plan; its bytes, URL and ETag play no     *)
(* role.  The duration bound the estimate yields is abstracted to the      *)
(* possibility, at any attempt, of a stall.                                *)
(***************************************************************************)
EXTENDS Integers, Sequences, FiniteSets, TLC

CONSTANTS PartCount,        \* number of parts in the plan (`part_urls`)
          NoWorker,         \* the receiver's mutex is free
          Workers,          \* the sending threads (`concurrency` of them)
          PrepareAhead,     \* the `upload_prepare_ahead` knob
          Attempts,         \* `TransferKnobs::attempts`: tries per part
          Rates,            \* credible rates the link may show
          MinCredibleRate   \* MIN_CREDIBLE_RATE

ASSUME SizeAssumption == PartCount \in Nat /\ PrepareAhead \in Nat /\ Attempts \in Nat \ {0}
ASSUME WorkersAssumption == IsFiniteSet(Workers) /\ Workers # {}
ASSUME RatesAssumption ==
  MinCredibleRate \in Nat \ {0} /\ \A r \in Rates : r \in Nat /\ r >= MinCredibleRate

VARIABLES
  producer,    \* where the producer thread is
  cursor,      \* the next plan position it will seal
  hand,        \* the item it is handing over
  chan,        \* the sync_channel's buffer
  rxHolder,    \* the worker holding the receiver's mutex
  worker,      \* where each worker thread is
  item,        \* the item each worker took
  tries,       \* attempts made for that part
  stamp,       \* the estimate's epoch when the part was taken up
  failure,     \* the code of the error `put_presigned` returned
  abort, firstError,
  parts,       \* the parts delivered, in order of completion
  rateEst, generation,     \* the governor
  stale,       \* history: workers whose attempt was in flight at a halving
  outcome,     \* "ok" or the code of the error `upload_parts` returned
  returned     \* the parts it returned

producerVars == <<producer, cursor, hand>>
workerVars   == <<worker, item, tries, stamp, failure>>
governorVars == <<rateEst, generation, stale>>
resultVars   == <<abort, firstError, parts, outcome, returned>>
vars == <<producerVars, chan, rxHolder, workerVars, governorVars, resultVars>>

-----------------------------------------------------------------------------
\* Items of the channel: a sealed part (its plan position) or the producer's error.
ProducerError == 0
NoItem == -1
NoRate == 0
None == "none"

Codes == {"transfer_stalled", "network_error", "input_read"}

\* `prepare_ahead.saturating_sub(1)`; 0 is a rendezvous channel.
Capacity == IF PrepareAhead = 0 THEN 0 ELSE PrepareAhead - 1

Init ==
  /\ producer = "unspawned" /\ cursor = 1 /\ hand = NoItem
  /\ chan = <<>> /\ rxHolder = NoWorker
  /\ worker = [w \in Workers |-> "unspawned"]
  /\ item = [w \in Workers |-> NoItem]
  /\ tries = [w \in Workers |-> 0]
  /\ stamp = [w \in Workers |-> 0]
  /\ failure = [w \in Workers |-> None]
  /\ abort = FALSE /\ firstError = None /\ parts = <<>> /\ outcome = None /\ returned = <<>>
  /\ rateEst \in Rates \cup {NoRate}      \* `with_warm_start`
  /\ generation = 0 /\ stale = {}

-----------------------------------------------------------------------------
\* The governor.

\* `observe_part`: fold a completed part's rate into the estimate (ALPHA = 0.4).
ObservePart(observed) ==
  /\ rateEst' = IF observed < MinCredibleRate THEN rateEst
                ELSE IF rateEst = NoRate THEN observed
                ELSE (2 * observed + 3 * rateEst) \div 5
  /\ UNCHANGED <<generation, stale>>

InFlightParts == {w \in Workers : worker[w] \in {"put", "penalize"}}

\* Mutant: a halving does not advance the epoch.
PenalizeWithoutAdvance(startGeneration) ==
  IF startGeneration = generation /\ rateEst # NoRate
  THEN /\ rateEst' = IF rateEst \div 2 >= MinCredibleRate THEN rateEst \div 2 ELSE NoRate
       /\ UNCHANGED generation
       /\ stale' = InFlightParts
  ELSE UNCHANGED governorVars

\* `penalize_stall`: halve unless the epoch moved since the part's stamp.
PenalizeStall(startGeneration) ==
  IF startGeneration = generation /\ rateEst # NoRate
  THEN /\ rateEst' = IF rateEst \div 2 >= MinCredibleRate THEN rateEst \div 2 ELSE NoRate
       /\ generation' = generation + 1
       /\ stale' = InFlightParts
  ELSE UNCHANGED governorVars

-----------------------------------------------------------------------------
\* The plan is read before any thread starts; a malformed entry ends the call.
PlanMalformed ==
  /\ producer = "unspawned" /\ outcome = None
  /\ outcome' = "invalid_data"
  /\ UNCHANGED <<producerVars, chan, rxHolder, workerVars, governorVars,
                 abort, firstError, parts, returned>>

Spawn ==
  /\ producer = "unspawned" /\ outcome = None
  /\ producer' = "open"
  /\ worker' = [w \in Workers |-> "lock"]
  /\ UNCHANGED <<cursor, hand, chan, rxHolder, item, tries, stamp, failure,
                 governorVars, resultVars>>

\* The producer opens its own file handle.
ProducerOpen ==
  /\ producer = "open"
  /\ \/ producer' = "check" /\ UNCHANGED hand
     \/ producer' = "send" /\ hand' = ProducerError
  /\ UNCHANGED <<cursor, chan, rxHolder, workerVars, governorVars, resultVars>>

\* Between parts it looks at `abort`; leaving drops `tx` and closes the channel.
ProducerCheck ==
  /\ producer = "check"
  /\ producer' = IF abort \/ cursor > PartCount THEN "done" ELSE "seal"
  /\ UNCHANGED <<cursor, hand, chan, rxHolder, workerVars, governorVars, resultVars>>

\* Seek, read and seal the next part, or fail doing so.
ProducerSeal ==
  /\ producer = "seal"
  /\ hand' \in {cursor, ProducerError}
  /\ cursor' = cursor + 1
  /\ producer' = "send"
  /\ UNCHANGED <<chan, rxHolder, workerVars, governorVars, resultVars>>

HandedOver ==
  /\ producer' = IF hand = ProducerError THEN "done" ELSE "check"
  /\ hand' = NoItem
  /\ UNCHANGED cursor

\* `tx.send` into a free buffer slot; it blocks while the buffer is full.
ProducerSend ==
  /\ producer = "send"
  /\ Len(chan) < Capacity
  /\ chan' = Append(chan, hand)
  /\ HandedOver
  /\ UNCHANGED <<rxHolder, workerVars, governorVars, resultVars>>

-----------------------------------------------------------------------------
\* A worker takes the receiver's mutex and keeps it across the blocking recv.
WorkerLock(w) ==
  /\ worker[w] = "lock" /\ rxHolder = NoWorker
  /\ rxHolder' = w
  /\ worker' = [worker EXCEPT ![w] = "recv"]
  /\ UNCHANGED <<producerVars, chan, item, tries, stamp, failure, governorVars, resultVars>>

Take(w, i) ==
  /\ item' = [item EXCEPT ![w] = i]
  /\ worker' = [worker EXCEPT ![w] = "got"]
  /\ rxHolder' = NoWorker
  /\ UNCHANGED <<tries, stamp, failure, governorVars, resultVars>>

\* recv from the buffer.
WorkerRecv(w) ==
  /\ worker[w] = "recv" /\ chan # <<>>
  /\ Take(w, Head(chan))
  /\ chan' = Tail(chan)
  /\ UNCHANGED producerVars

\* recv straight from a producer in `send`: the only hand-over there is when the
\* channel is a rendezvous.
WorkerRendezvous(w) ==
  /\ worker[w] = "recv" /\ chan = <<>> /\ producer = "send"
  /\ Take(w, hand)
  /\ HandedOver
  /\ UNCHANGED chan

\* The producer is gone and the channel is empty: the worker returns.
WorkerClosed(w) ==
  /\ worker[w] = "recv" /\ chan = <<>> /\ producer = "done"
  /\ rxHolder' = NoWorker
  /\ worker' = [worker EXCEPT ![w] = "done"]
  /\ UNCHANGED <<producerVars, chan, item, tries, stamp, failure, governorVars, resultVars>>

\* `send_one` begins: stamp the estimate's epoch and go on the wire.
BeginPut(w) ==
  /\ worker' = [worker EXCEPT ![w] = "put"]
  /\ tries' = [tries EXCEPT ![w] = 1]
  /\ stamp' = [stamp EXCEPT ![w] = generation]
  /\ stale' = stale \ {w}
  /\ UNCHANGED <<failure, rateEst, generation>>

\* Draining: after an abort the item is dropped, which keeps the producer unblocked.
WorkerDrain(w) ==
  /\ worker[w] = "got" /\ abort
  /\ worker' = [worker EXCEPT ![w] = "lock"]
  /\ item' = [item EXCEPT ![w] = NoItem]
  /\ UNCHANGED <<producerVars, chan, rxHolder, tries, stamp, failure,
                 governorVars, resultVars>>

WorkerBegin(w) ==
  /\ worker[w] = "got" /\ ~abort /\ item[w] # ProducerError
  /\ BeginPut(w)
  /\ UNCHANGED <<producerVars, chan, rxHolder, item, resultVars>>

\* Mutant: the producer's error is skipped like a drained item.
WorkerSkipsProducerError(w) ==
  /\ worker[w] = "got" /\ ~abort /\ item[w] = ProducerError
  /\ worker' = [worker EXCEPT ![w] = "lock"]
  /\ item' = [item EXCEPT ![w] = NoItem]
  /\ UNCHANGED <<producerVars, chan, rxHolder, tries, stamp, failure,
                 governorVars, resultVars>>

\* The item is the producer's error, which goes to `record_error`.
WorkerProducerFailed(w) ==
  /\ worker[w] = "got" /\ ~abort /\ item[w] = ProducerError
  /\ worker' = [worker EXCEPT ![w] = "record"]
  /\ item' = [item EXCEPT ![w] = NoItem]
  /\ failure' = [failure EXCEPT ![w] = "input_read"]
  /\ UNCHANGED <<producerVars, chan, rxHolder, tries, stamp, governorVars, resultVars>>

-----------------------------------------------------------------------------
\* `put_presigned`: up to Attempts tries of one part.

\* Mutant: the attempt counter wraps instead of running out.
PutRetryWraps(w) ==
  /\ worker[w] = "put"
  /\ tries' = [tries EXCEPT ![w] = IF @ = Attempts THEN 1 ELSE @ + 1]
  /\ stale' = stale \ {w}
  /\ UNCHANGED <<producerVars, chan, rxHolder, worker, item, stamp, failure,
                 rateEst, generation, resultVars>>

\* An attempt that stalls, breaks or meets a 5xx is followed by another one, which
\* keeps the part's stamp.
PutRetry(w) ==
  /\ worker[w] = "put" /\ tries[w] < Attempts
  /\ tries' = [tries EXCEPT ![w] = @ + 1]
  /\ stale' = stale \ {w}
  /\ UNCHANGED <<producerVars, chan, rxHolder, worker, item, stamp, failure,
                 rateEst, generation, resultVars>>

\* The last attempt fails, or storage refuses the part for good (a 4xx).
PutFails(w) ==
  /\ worker[w] = "put"
  /\ \E code \in {"transfer_stalled", "network_error"} :
       /\ code = "transfer_stalled" => tries[w] = Attempts
       /\ failure' = [failure EXCEPT ![w] = code]
  /\ worker' = [worker EXCEPT ![w] = "penalize"]
  /\ UNCHANGED <<producerVars, chan, rxHolder, item, tries, stamp, governorVars, resultVars>>

\* The part is stored: observe its rate, push it, and go for the next item.
PutSucceeds(w) ==
  /\ worker[w] = "put"
  /\ \E observed \in Rates \cup {0} : ObservePart(observed)
  /\ parts' = Append(parts, item[w])
  /\ item' = [item EXCEPT ![w] = NoItem]
  /\ worker' = [worker EXCEPT ![w] = "lock"]
  /\ UNCHANGED <<producerVars, chan, rxHolder, tries, stamp, failure,
                 abort, firstError, outcome, returned>>

\* `send_one` penalises the estimate after any error, before the error is recorded.
Penalize(w) ==
  /\ worker[w] = "penalize"
  /\ PenalizeStall(stamp[w])
  /\ item' = [item EXCEPT ![w] = NoItem]
  /\ worker' = [worker EXCEPT ![w] = "record"]
  /\ UNCHANGED <<producerVars, chan, rxHolder, tries, stamp, failure, resultVars>>

\* `record_error`: the first error wins, and `abort` is raised under its lock.
RecordError(w) ==
  /\ worker[w] = "record"
  /\ failure' = [failure EXCEPT ![w] = None]
  /\ firstError' = IF firstError = None THEN failure[w] ELSE firstError
  /\ abort' = TRUE
  /\ worker' = [worker EXCEPT ![w] = "lock"]
  /\ UNCHANGED <<producerVars, chan, rxHolder, item, tries, stamp, governorVars,
                 parts, outcome, returned>>

-----------------------------------------------------------------------------

\* `parts.sort_by_key(|p| p.part_number)`.
SortByPartNumber(s) == SortSeq(s, LAMBDA a, b : a < b)

\* The scope has joined every thread: report the first error, assert that every
\* part was delivered, sort.
Finish ==
  /\ outcome = None
  /\ producer = "done" /\ \A w \in Workers : worker[w] = "done"
  /\ outcome' = IF firstError # None THEN firstError
                ELSE IF Len(parts) # PartCount THEN "shortfall" ELSE "ok"
  /\ returned' = IF outcome' = "ok" THEN SortByPartNumber(parts) ELSE returned
  /\ UNCHANGED <<producerVars, chan, rxHolder, workerVars, governorVars,
                 abort, firstError, parts>>

Returned == outcome # None /\ UNCHANGED vars

ProducerStep == ProducerOpen \/ ProducerCheck \/ ProducerSeal \/ ProducerSend

WorkerStep(w) ==
  \/ WorkerLock(w) \/ WorkerRecv(w) \/ WorkerRendezvous(w) \/ WorkerClosed(w)
  \/ WorkerDrain(w) \/ WorkerBegin(w) \/ WorkerProducerFailed(w)
  \/ PutRetry(w) \/ PutFails(w) \/ PutSucceeds(w) \/ Penalize(w) \/ RecordError(w)

Next ==
  \/ PlanMalformed \/ Spawn \/ ProducerStep \/ Finish \/ Returned
  \/ \E w \in Workers : WorkerStep(w)

\* Every thread keeps running, and an attempt ends: `put_presigned` bounds its
\* tries and the transport bounds each by a no-progress gap.
Fairness ==
  /\ WF_vars(PlanMalformed \/ Spawn) /\ WF_vars(ProducerStep) /\ WF_vars(Finish)
  /\ \A w \in Workers : WF_vars(WorkerStep(w))

Spec == Init /\ [][Next]_vars /\ Fairness

-----------------------------------------------------------------------------
WorkerStates == {"unspawned", "lock", "recv", "got", "put", "penalize", "record",
                 "done"}
Items == 0 .. PartCount

\* Every variable keeps the type the code gives it.
TypeOK ==
  /\ producer \in {"unspawned", "open", "check", "seal", "send", "done"}
  /\ cursor \in 1 .. PartCount + 1
  /\ hand \in Items \cup {NoItem}
  /\ chan \in Seq(Items)
  /\ rxHolder \in Workers \cup {NoWorker}
  /\ worker \in [Workers -> WorkerStates]
  /\ item \in [Workers -> Items \cup {NoItem}]
  /\ tries \in [Workers -> 0 .. Attempts]
  /\ stamp \in [Workers -> Nat]
  /\ failure \in [Workers -> Codes \cup {None}]
  /\ abort \in BOOLEAN
  /\ firstError \in Codes \cup {None}
  /\ parts \in Seq(1 .. PartCount)
  /\ rateEst \in {r \in Nat : r >= MinCredibleRate} \cup {NoRate}
  /\ generation \in Nat
  /\ stale \subseteq Workers
  /\ outcome \in Codes \cup {None, "invalid_data", "shortfall", "ok"}

\* A part is never delivered twice, and a part already delivered is nowhere else
\* on its way: neither in the producer's hand, nor buffered, nor held by a worker;
\* and no two workers hold the same part (commands.rs: the (number, URL, envelope)
\* triple has one assembly point and one consumer).
PartsExactlyOnce ==
  /\ \A i, j \in DOMAIN parts : parts[i] = parts[j] => i = j
  /\ \A i \in DOMAIN parts :
       /\ parts[i] # hand
       /\ \A j \in DOMAIN chan : parts[i] # chan[j]
       /\ \A w \in Workers : parts[i] # item[w]
  /\ \A v, w \in Workers : item[v] = item[w] /\ item[v] > 0 => v = w

\* The places where a part handed out by the plan can be.
Delivered(p) == \E i \in DOMAIN parts : parts[i] = p
OnItsWay(p) ==
  \/ hand = p \/ (\E i \in DOMAIN chan : chan[i] = p) \/ (\E w \in Workers : item[w] = p)

\* An error is recorded or on its way to being recorded.
ErrorPending ==
  \/ firstError # None \/ OnItsWay(ProducerError)
  \/ \E w \in Workers : worker[w] = "record"

\* What ties an item to the place its thread has reached.
ControlInv ==
  /\ abort <=> firstError # None
  /\ producer = "send" <=> hand # NoItem
  /\ producer = "seal" => cursor <= PartCount
  /\ \A w \in Workers :
       /\ item[w] # NoItem <=> worker[w] \in {"got", "put", "penalize"}
       /\ worker[w] \in {"put", "penalize"} => item[w] # ProducerError
       /\ worker[w] \in {"penalize", "record"} => failure[w] # None
       /\ worker[w] = "done" => producer = "done" /\ chan = <<>>
  /\ producer = "unspawned" => \A w \in Workers : worker[w] = "unspawned"
  /\ Len(chan) <= Capacity

\* Every part below the cursor has exactly one place, and none above it has one.
CustodyInv ==
  /\ hand < cursor
  /\ \A i \in DOMAIN chan : chan[i] < cursor
  /\ \A w \in Workers : item[w] < cursor
  /\ \A i \in DOMAIN parts : parts[i] < cursor
  /\ \A i, j \in DOMAIN chan : chan[i] = chan[j] /\ chan[i] > 0 => i = j
  /\ \A i \in DOMAIN chan, w \in Workers : chan[i] = item[w] => chan[i] <= 0
  /\ hand > 0 => /\ \A i \in DOMAIN chan : chan[i] # hand
                 /\ \A w \in Workers : item[w] # hand

\* No part below the cursor is lost unless an error will be reported.
NoneLost ==
  /\ \A p \in 1 .. cursor - 1 :
       Delivered(p) \/ OnItsWay(p) \/ ErrorPending
  /\ producer = "done" => cursor > PartCount \/ ErrorPending

\* The call reports success only once every planned part is delivered, and the
\* completeness assertion after the join never fires ("a shortfall here is a logic
\* bug").
ResultComplete ==
  /\ outcome # "shortfall"
  /\ outcome = "ok" => \A p \in 1 .. PartCount : Delivered(p)

\* The inductive invariant behind PartsExactlyOnce, ResultComplete and MemoryBound.
IInv ==
  TypeOK /\ ControlInv /\ CustodyInv /\ PartsExactlyOnce /\ NoneLost /\ ResultComplete

\* Sealed envelopes alive at once: the producer's, the buffered ones, the workers'.
InFlightEnvelopes ==
  Cardinality({w \in Workers : item[w] > 0})
    + Cardinality({i \in DOMAIN chan : chan[i] > 0})
    + (IF hand > 0 THEN 1 ELSE 0)

\* Memory is bounded whatever the file size: a worker each, the buffer, and the
\* one the producer is sealing, which the producer holds even at prepare_ahead 0.
MemoryBound ==
  InFlightEnvelopes <= Cardinality(Workers) + (IF PrepareAhead = 0 THEN 1 ELSE PrepareAhead)

\* One link event, one halving: the failure of an attempt that was in flight when the
\* estimate was halved leaves the estimate alone, so N parts tripping together
\* cost one halving (transfer_governor.rs, `penalize_stall`).  A retry begun after the
\* halving is not judged: "each retry re-stamps" would have it halve again, while the
\* code stamps once per part.
OneHalvingPerEvent ==
  [][\A w \in Workers :
       w \in stale /\ worker[w] = "penalize" /\ worker'[w] = "record"
         => rateEst' = rateEst /\ generation' = generation]_vars

\* The transfer always returns: no error path leaves the producer parked in `send`
\* or a worker parked in `recv`.
Termination == <>(outcome # None)
=============================================================================
