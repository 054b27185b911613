------------------------------- MODULE Broker -------------------------------
(***************************************************************************)
(* The enclave broker of `src/cli/src/broker.rs` and the leased            *)
(* check-at-use decision of `src/cli/src/garnet_revocation.rs`.            *)
(*                                                                         *)
(* A pool of worker threads serves requests.  A request names a grant and  *)
(* carries a token with an expiry.  The worker decides under the grant's   *)
(* lease lock: within the lease it serves from memory, otherwise it asks   *)
(* the server whether the grant is live (`HttpGrantStatusClient`, one      *)
(* retry) while it holds the lock, and feeds the answer to the lease.  A   *)
(* served request runs its enclave operation under the enclave lock.       *)
(*                                                                         *)
(* Time is discrete.  `now` is the broker's monotonic clock; serverClock   *)
(* is the server's own clock, which may be stepped back.  The grant's      *)
(* state on the server is external and modelled from the answers           *)
(* `map_response` tells apart.                                             *)
(***************************************************************************)
EXTENDS Integers, FiniteSets

CONSTANTS
  Workers, Grants, NoWorker,
  Expiries,        \* the expiries a verified token may carry
  Lease, Grace,    \* LeaseConfig compiled into the broker
  Skew,            \* LeaseConfig::token_skew
  LeaseMin, LeaseMax, GraceMin, GraceMax,   \* the broker's clamp bounds
  Slas,            \* the <<lease, grace>> pairs the server may send
  QueryTimeout,    \* how long one grant-status attempt may take
  ClockStep,       \* how far the server's clock may be stepped back at once
  MaxTime          \* bound on the clock in a model-checked instance

ASSUME TimeAssumption ==
  /\ Lease \in Nat /\ Grace \in Nat /\ Skew \in Nat
  /\ QueryTimeout \in Nat /\ ClockStep \in Nat /\ MaxTime \in Nat
ASSUME ClampAssumption ==
  /\ LeaseMin \in Nat /\ LeaseMax \in Nat /\ GraceMin \in Nat /\ GraceMax \in Nat
  /\ LeaseMin <= LeaseMax /\ GraceMin <= GraceMax
ASSUME SlaAssumption == \A s \in Slas : s[1] \in Int /\ s[2] \in Int
ASSUME ExpiryAssumption == Expiries \subseteq Nat
ASSUME NamesAssumption == NoWorker \notin Workers

VARIABLES
  now, serverClock,
  notLiveSince,    \* external: when the grant stopped being live, or Live
  confirmed, confirmTime, confirmAt,   \* GrantLease::last_confirm
  floor,                               \* GrantLease::trusted_floor
  slaLease, slaGrace,                  \* GrantLease::server_sla, else compiled
  leaseHolder,     \* who holds each grant's lease lock
  seHolder,        \* who holds the enclave lock
  phase,           \* where each worker thread is
  reqGrant, reqExp,
  attempt, attemptAt,                  \* the grant-status attempt in flight
  answer, answerTime, answerHasSla, answerLease, answerGrace,
  shutdown,
  refusedExp,      \* history: highest expiry refused as expired, per grant
  outage,          \* history: an Unreachable was decided on since not live
  steppedBack      \* history: how far the server's clock was stepped back in this life

clockVars == <<now, serverClock, steppedBack>>
leaseVars == <<confirmed, confirmTime, confirmAt, floor, slaLease, slaGrace>>
answerVars == <<answer, answerTime, answerHasSla, answerLease, answerGrace>>
historyVars == <<refusedExp, outage>>
vars == <<clockVars, notLiveSince, leaseVars, leaseHolder, seHolder, phase, reqGrant,
          reqExp, attempt, attemptAt, answerVars, shutdown, historyVars>>

Live == -1
NoExp == -1
Budget == Lease + Grace
Phases == {"idle", "lease", "query", "answered", "se", "op", "reply", "stopped"}

MaxOf(a, b) == IF a > b THEN a ELSE b
Clamp(x, lo, hi) == IF x < lo THEN lo ELSE IF x > hi THEN hi ELSE x

\* A broker that has just started: every lease is cold, every worker idle.
Init ==
  /\ now = 0 /\ serverClock = 0
  /\ notLiveSince = [g \in Grants |-> 0]
  /\ confirmed = [g \in Grants |-> FALSE]
  /\ confirmTime = [g \in Grants |-> 0]
  /\ confirmAt = [g \in Grants |-> 0]
  /\ floor = [g \in Grants |-> 0]
  /\ slaLease = [g \in Grants |-> Lease]
  /\ slaGrace = [g \in Grants |-> Grace]
  /\ leaseHolder = [g \in Grants |-> NoWorker]
  /\ seHolder = NoWorker
  /\ phase = [w \in Workers |-> "idle"]
  /\ reqGrant \in [Workers -> Grants]
  /\ reqExp = [w \in Workers |-> 0]
  /\ attempt = [w \in Workers |-> 0]
  /\ attemptAt = [w \in Workers |-> 0]
  /\ answer = [w \in Workers |-> "none"]
  /\ answerTime = [w \in Workers |-> 0]
  /\ answerHasSla = [w \in Workers |-> FALSE]
  /\ answerLease = [w \in Workers |-> 0]
  /\ answerGrace = [w \in Workers |-> 0]
  /\ shutdown = FALSE
  /\ refusedExp = [g \in Grants |-> NoExp]
  /\ outage = [g \in Grants |-> FALSE]
  /\ steppedBack = 0

-----------------------------------------------------------------------------
(* External: the clocks, the guardian and the server. *)

\* Time passes, but not beyond an attempt's timeout: by then the attempt has
\* ended one way or the other.
Tick ==
  /\ now < MaxTime
  /\ \A w \in Workers :
       phase[w] \in {"query", "answered"} => now < attemptAt[w] + QueryTimeout
  /\ now' = now + 1 /\ serverClock' = serverClock + 1
  /\ UNCHANGED <<steppedBack, notLiveSince, leaseVars, leaseHolder, seHolder, phase, reqGrant, reqExp,
                 attempt, attemptAt, answerVars, shutdown, historyVars>>

\* The server's clock is stepped back.
ServerClockStep ==
  /\ \E d \in 1 .. ClockStep :
       d <= serverClock /\ serverClock' = serverClock - d /\ steppedBack' = steppedBack + d
  /\ UNCHANGED <<now, notLiveSince, leaseVars, leaseHolder, seHolder, phase, reqGrant,
                 reqExp, attempt, attemptAt, answerVars, shutdown, historyVars>>

\* The guardian confirms the enrollment: the grant becomes live, once.
Confirm(g) ==
  /\ notLiveSince[g] = 0
  /\ notLiveSince' = [notLiveSince EXCEPT ![g] = Live]
  /\ outage' = [outage EXCEPT ![g] = FALSE]
  /\ UNCHANGED <<clockVars, leaseVars, leaseHolder, seHolder, phase, reqGrant, reqExp,
                 attempt, attemptAt, answerVars, shutdown, refusedExp>>

\* The guardian revokes the grant, for good.
Revoke(g) ==
  /\ notLiveSince[g] = Live /\ now > 0
  /\ notLiveSince' = [notLiveSince EXCEPT ![g] = now]
  /\ outage' = [outage EXCEPT ![g] = FALSE]
  /\ UNCHANGED <<clockVars, leaseVars, leaseHolder, seHolder, phase, reqGrant, reqExp,
                 attempt, attemptAt, answerVars, shutdown, refusedExp>>

-----------------------------------------------------------------------------
(* The decision core. *)

\* trusted_now of token_exp_decision, for a confirm of the given age.
TrustedNow(g, age) == MaxOf(confirmTime[g] + age, floor[g])

\* The confirm is within its lease.
Leased(g) == confirmed[g] /\ now - confirmAt[g] < slaLease[g]

\* Mutant: the lease is clamped but the allocation is never held to the budget.
ServerValuesUnbudgeted(s) ==
  <<Clamp(MaxOf(s[1], 0), LeaseMin, LeaseMax), Clamp(MaxOf(s[2], 0), GraceMin, GraceMax)>>

\* LeaseConfig::with_server_values: both values are clamped, and an allocation
\* over the compiled budget is refused whole.
ServerValues(s) ==
  LET l == Clamp(MaxOf(s[1], 0), LeaseMin, LeaseMax)
      o == Clamp(MaxOf(s[2], 0), GraceMin, GraceMax)
  IN  IF l + o > Budget THEN <<Lease, Grace>> ELSE <<l, o>>

\* What token_exp_decision means for the worker: it goes on to the enclave, or it
\* replies `token_expired`.
Expired(w, trusted) == reqExp[w] + Skew < trusted
ExpDecision(w, trusted) ==
  LET g == reqGrant[w] IN
  /\ phase' = [phase EXCEPT ![w] = IF Expired(w, trusted) THEN "reply" ELSE "se"]
  /\ refusedExp' = IF Expired(w, trusted)
                   THEN [refusedExp EXCEPT ![g] = MaxOf(@, reqExp[w])]
                   ELSE refusedExp

-----------------------------------------------------------------------------
(* The worker pool. *)

\* A request that passed the handshake and `verify_skipping_time` reaches the
\* lease; its token is bound to the grant, its expiry is not judged yet.
Accept(w) ==
  /\ ~shutdown
  /\ phase[w] = "idle"
  /\ \E g \in Grants, e \in Expiries :
       /\ reqGrant' = [reqGrant EXCEPT ![w] = g]
       /\ reqExp' = [reqExp EXCEPT ![w] = e]
  /\ phase' = [phase EXCEPT ![w] = "lease"]
  /\ UNCHANGED <<clockVars, notLiveSince, leaseVars, leaseHolder, seHolder, attempt,
                 attemptAt, answerVars, shutdown, historyVars>>

\* GrantLease::decide within the lease: the lock is taken and released in one step,
\* since nothing in between waits.
DecideLeased(w) ==
  LET g == reqGrant[w] IN
  /\ phase[w] = "lease" /\ leaseHolder[g] = NoWorker
  /\ Leased(g)
  /\ ExpDecision(w, TrustedNow(g, now - confirmAt[g]))
  /\ UNCHANGED <<clockVars, notLiveSince, leaseVars, leaseHolder, seHolder, reqGrant,
                 reqExp, attempt, attemptAt, answerVars, shutdown, outage>>

\* GrantLease::decide when cold or lapsed: ReconfirmRequired, and the worker starts
\* the query holding the lock.
DecideReconfirm(w) ==
  LET g == reqGrant[w] IN
  /\ phase[w] = "lease" /\ leaseHolder[g] = NoWorker
  /\ ~Leased(g)
  /\ leaseHolder' = [leaseHolder EXCEPT ![g] = w]
  /\ phase' = [phase EXCEPT ![w] = "query"]
  /\ attempt' = [attempt EXCEPT ![w] = 1]
  /\ attemptAt' = [attemptAt EXCEPT ![w] = now]
  /\ UNCHANGED <<clockVars, notLiveSince, leaseVars, seHolder, reqGrant, reqExp,
                 answerVars, shutdown, historyVars>>

\* The server affirms the grant: the answer carries the server's clock, and the SLA
\* when both of its fields are present.
AffirmedAt(w) ==
  /\ phase' = [phase EXCEPT ![w] = "answered"]
  /\ answer' = [answer EXCEPT ![w] = "live"]
  /\ answerTime' = [answerTime EXCEPT ![w] = serverClock]
  /\ UNCHANGED <<clockVars, notLiveSince, leaseVars, leaseHolder, seHolder, reqGrant,
                 reqExp, attempt, attemptAt, shutdown, historyVars>>

ServerAffirms(w) ==
  /\ phase[w] = "query"
  /\ notLiveSince[reqGrant[w]] = Live
  /\ AffirmedAt(w)
  /\ answerHasSla' = [answerHasSla EXCEPT ![w] = FALSE]
  /\ UNCHANGED <<answerLease, answerGrace>>

ServerAffirmsWithSla(w) ==
  /\ phase[w] = "query"
  /\ notLiveSince[reqGrant[w]] = Live
  /\ AffirmedAt(w)
  /\ answerHasSla' = [answerHasSla EXCEPT ![w] = TRUE]
  /\ \E s \in Slas : /\ answerLease' = [answerLease EXCEPT ![w] = s[1]]
                     /\ answerGrace' = [answerGrace EXCEPT ![w] = s[2]]

\* Any answer that is not an affirmative is definitive: revoked, not yet confirmed,
\* or the presented certificate revoked.
ServerDenies(w) ==
  /\ phase[w] = "query"
  /\ notLiveSince[reqGrant[w]] # Live
  /\ phase' = [phase EXCEPT ![w] = "answered"]
  /\ answer' = [answer EXCEPT ![w] = "revoked"]
  /\ UNCHANGED <<clockVars, notLiveSince, leaseVars, leaseHolder, seHolder, reqGrant,
                 reqExp, attempt, attemptAt, answerTime, answerHasSla, answerLease,
                 answerGrace, shutdown, historyVars>>

\* Mutant: the retry never gives up.
AttemptFailsForever(w) ==
  /\ phase[w] = "query"
  /\ attempt' = [attempt EXCEPT ![w] = 3 - @]
  /\ attemptAt' = [attemptAt EXCEPT ![w] = now]
  /\ UNCHANGED <<clockVars, notLiveSince, leaseVars, leaseHolder, seHolder, phase,
                 reqGrant, reqExp, answerVars, shutdown, historyVars>>

\* A transport failure or a timeout of the first attempt is retried once.
AttemptFails(w) ==
  /\ phase[w] = "query" /\ attempt[w] = 1
  /\ attempt' = [attempt EXCEPT ![w] = 2]
  /\ attemptAt' = [attemptAt EXCEPT ![w] = now]
  /\ UNCHANGED <<clockVars, notLiveSince, leaseVars, leaseHolder, seHolder, phase,
                 reqGrant, reqExp, answerVars, shutdown, historyVars>>

\* The second failure, or an answer map_response cannot read, is Unreachable.
QueryUnreachable(w) ==
  /\ phase[w] = "query"
  /\ phase' = [phase EXCEPT ![w] = "answered"]
  /\ answer' = [answer EXCEPT ![w] = "unreachable"]
  /\ UNCHANGED <<clockVars, notLiveSince, leaseVars, leaseHolder, seHolder, reqGrant,
                 reqExp, attempt, attemptAt, answerTime, answerHasSla, answerLease,
                 answerGrace, shutdown, historyVars>>

\* The decision is made and the lease lock released.
Unlock(w) ==
  /\ leaseHolder' = [leaseHolder EXCEPT ![reqGrant[w]] = NoWorker]
  /\ UNCHANGED <<clockVars, notLiveSince, seHolder, reqGrant, reqExp, attempt, attemptAt,
                 answerVars, shutdown>>

Anchor(g, serverTime) == MaxOf(serverTime, floor[g])

\* on_grant_status(Live): adopt the SLA, anchor trusted time at or above the floor,
\* refresh the lease, and judge the token at age zero.
OnLive(w) ==
  LET g == reqGrant[w]
      anchored == Anchor(g, answerTime[w])
      values == ServerValues(<<answerLease[w], answerGrace[w]>>)
  IN
  /\ phase[w] = "answered" /\ answer[w] = "live"
  /\ slaLease' = [slaLease EXCEPT ![g] = IF answerHasSla[w] THEN values[1] ELSE @]
  /\ slaGrace' = [slaGrace EXCEPT ![g] = IF answerHasSla[w] THEN values[2] ELSE @]
  /\ floor' = [floor EXCEPT ![g] = anchored]
  /\ confirmed' = [confirmed EXCEPT ![g] = TRUE]
  /\ confirmTime' = [confirmTime EXCEPT ![g] = anchored]
  /\ confirmAt' = [confirmAt EXCEPT ![g] = now]
  /\ ExpDecision(w, anchored)
  /\ UNCHANGED outage
  /\ Unlock(w)

\* on_grant_status(Revoked): fail closed; the lease itself is left as it was.
OnRevoked(w) ==
  /\ phase[w] = "answered" /\ answer[w] = "revoked"
  /\ phase' = [phase EXCEPT ![w] = "reply"]
  /\ UNCHANGED <<leaseVars, refusedExp, outage>>
  /\ Unlock(w)

\* The last confirm may still be served on while the server cannot be reached.
WithinGrace(g) == now - confirmAt[g] < slaLease[g] + slaGrace[g]

\* on_grant_status(Unreachable): last-known-good within lease + grace, else fail closed.
OnUnreachableGraced(w) ==
  LET g == reqGrant[w] IN
  /\ phase[w] = "answered" /\ answer[w] = "unreachable"
  /\ confirmed[g] /\ WithinGrace(g)
  /\ ExpDecision(w, TrustedNow(g, now - confirmAt[g]))
  /\ outage' = [outage EXCEPT ![g] = TRUE]
  /\ UNCHANGED leaseVars
  /\ Unlock(w)

OnUnreachableRefused(w) ==
  LET g == reqGrant[w] IN
  /\ phase[w] = "answered" /\ answer[w] = "unreachable"
  /\ ~(confirmed[g] /\ WithinGrace(g))
  /\ phase' = [phase EXCEPT ![w] = "reply"]
  /\ UNCHANGED <<leaseVars, historyVars>>
  /\ Unlock(w)

\* The enclave is a serial coprocessor: one operation at a time.
SeLock(w) ==
  /\ phase[w] = "se" /\ seHolder = NoWorker
  /\ seHolder' = w
  /\ phase' = [phase EXCEPT ![w] = "op"]
  /\ UNCHANGED <<clockVars, notLiveSince, leaseVars, leaseHolder, reqGrant, reqExp,
                 attempt, attemptAt, answerVars, shutdown, historyVars>>

SeOp(w) ==
  /\ phase[w] = "op"
  /\ seHolder' = NoWorker
  /\ phase' = [phase EXCEPT ![w] = "reply"]
  /\ UNCHANGED <<clockVars, notLiveSince, leaseVars, leaseHolder, reqGrant, reqExp,
                 attempt, attemptAt, answerVars, shutdown, historyVars>>

\* The response frame is written, or the write fails: the connection ends either way,
\* and with it the request's stack-local state.
Reply(w) ==
  /\ phase[w] = "reply"
  /\ phase' = [phase EXCEPT ![w] = "idle"]
  /\ reqExp' = [reqExp EXCEPT ![w] = 0]
  /\ attempt' = [attempt EXCEPT ![w] = 0]
  /\ attemptAt' = [attemptAt EXCEPT ![w] = 0]
  /\ answer' = [answer EXCEPT ![w] = "none"]
  /\ answerTime' = [answerTime EXCEPT ![w] = 0]
  /\ answerHasSla' = [answerHasSla EXCEPT ![w] = FALSE]
  /\ answerLease' = [answerLease EXCEPT ![w] = 0]
  /\ answerGrace' = [answerGrace EXCEPT ![w] = 0]
  /\ UNCHANGED <<clockVars, notLiveSince, leaseVars, leaseHolder, seHolder, reqGrant,
                 shutdown, historyVars>>

\* The flag is looked at between connections only.
Shutdown ==
  /\ ~shutdown /\ shutdown' = TRUE
  /\ UNCHANGED <<clockVars, notLiveSince, leaseVars, leaseHolder, seHolder, phase,
                 reqGrant, reqExp, attempt, attemptAt, answerVars, historyVars>>

WorkerStops(w) ==
  /\ shutdown /\ phase[w] = "idle"
  /\ phase' = [phase EXCEPT ![w] = "stopped"]
  /\ UNCHANGED <<clockVars, notLiveSince, leaseVars, leaseHolder, seHolder, reqGrant,
                 reqExp, attempt, attemptAt, answerVars, shutdown, historyVars>>

\* The broker dies, or has been shut down, and is started again: nothing it knew is
\* persisted.
Restart ==
  /\ \/ \E w \in Workers : phase[w] \notin {"idle", "stopped"}
     \/ \A w \in Workers : phase[w] = "stopped"
  /\ confirmed' = [g \in Grants |-> FALSE]
  /\ confirmTime' = [g \in Grants |-> 0]
  /\ confirmAt' = [g \in Grants |-> 0]
  /\ floor' = [g \in Grants |-> 0]
  /\ slaLease' = [g \in Grants |-> Lease]
  /\ slaGrace' = [g \in Grants |-> Grace]
  /\ leaseHolder' = [g \in Grants |-> NoWorker]
  /\ seHolder' = NoWorker
  /\ phase' = [w \in Workers |-> "idle"]
  /\ reqExp' = [w \in Workers |-> 0]
  /\ attempt' = [w \in Workers |-> 0]
  /\ attemptAt' = [w \in Workers |-> 0]
  /\ answer' = [w \in Workers |-> "none"]
  /\ answerTime' = [w \in Workers |-> 0]
  /\ answerHasSla' = [w \in Workers |-> FALSE]
  /\ answerLease' = [w \in Workers |-> 0]
  /\ answerGrace' = [w \in Workers |-> 0]
  /\ shutdown' = FALSE
  /\ refusedExp' = [g \in Grants |-> NoExp]
  /\ steppedBack' = 0
  /\ UNCHANGED <<now, serverClock, notLiveSince, reqGrant, outage>>

QueryStep(w) ==
  \/ ServerAffirms(w) \/ ServerAffirmsWithSla(w) \/ ServerDenies(w)
  \/ AttemptFails(w) \/ QueryUnreachable(w)

WorkerStep(w) ==
  \/ DecideLeased(w) \/ DecideReconfirm(w) \/ QueryStep(w)
  \/ OnLive(w) \/ OnRevoked(w) \/ OnUnreachableGraced(w) \/ OnUnreachableRefused(w)
  \/ SeLock(w) \/ SeOp(w) \/ Reply(w) \/ WorkerStops(w)

Next ==
  \/ Tick \/ ServerClockStep \/ Shutdown \/ Restart
  \/ \E g \in Grants : Confirm(g) \/ Revoke(g)
  \/ \E w \in Workers : Accept(w) \/ WorkerStep(w)

\* A thread that can run does, and an attempt ends because it has a timeout.  The
\* locks are not fair: nothing says which waiter gets one.
Fairness == \A w \in Workers : WF_vars(WorkerStep(w))

Spec == Init /\ [][Next]_vars /\ Fairness

-----------------------------------------------------------------------------
\* Every variable keeps the type the code gives it.
TypeOK ==
  /\ now \in Nat /\ serverClock \in Nat
  /\ notLiveSince \in [Grants -> Nat \cup {Live}]
  /\ confirmed \in [Grants -> BOOLEAN]
  /\ confirmTime \in [Grants -> Nat] /\ confirmAt \in [Grants -> Nat]
  /\ floor \in [Grants -> Nat]
  /\ slaLease \in [Grants -> Nat] /\ slaGrace \in [Grants -> Nat]
  /\ leaseHolder \in [Grants -> Workers \cup {NoWorker}]
  /\ seHolder \in Workers \cup {NoWorker}
  /\ phase \in [Workers -> Phases]
  /\ reqGrant \in [Workers -> Grants]
  /\ reqExp \in [Workers -> Nat]
  /\ attempt \in [Workers -> 0 .. 2] /\ attemptAt \in [Workers -> Nat]
  /\ answer \in [Workers -> {"none", "live", "revoked", "unreachable"}]
  /\ answerTime \in [Workers -> Nat]
  /\ answerHasSla \in [Workers -> BOOLEAN]
  /\ answerLease \in [Workers -> Int] /\ answerGrace \in [Workers -> Int]
  /\ shutdown \in BOOLEAN
  /\ refusedExp \in [Grants -> Nat \cup {NoExp}]
  /\ outage \in [Grants -> BOOLEAN]
  /\ steppedBack \in Nat

\* A worker decides to serve in this step.
Serves(w) == phase[w] # "se" /\ phase'[w] = "se"

\* However the server allocates the SLA and whatever the network does, a decision to
\* serve a grant that is no longer live comes within the compiled lease + grace, plus
\* one attempt's timeout, of the revocation ("can only delay the cut to lease + grace,
\* then fail-closed"), and a grant that was never confirmed is never served.
RevocationCut ==
  [][\A w \in Workers :
       Serves(w) => LET since == notLiveSince[reqGrant[w]] IN
                    since = Live \/ (since # 0 /\ now <= since + Budget + QueryTimeout)]_vars

\* While no query has met an outage since the revocation, the cut comes within the
\* lease in force ("a revoke is cut <= lease after the last confirm").
ReachableCut ==
  [][\A w \in Workers :
       Serves(w) /\ ~outage'[reqGrant[w]] =>
         LET since == notLiveSince[reqGrant[w]] IN
         since = Live \/ now <= since + slaLease'[reqGrant[w]] + QueryTimeout]_vars

\* Which expired tokens one life of the broker may still serve, whatever this host's
\* clock does and however the server's clock is stepped.  One that had expired at the
\* time of an earlier confirm is never served: the floor keeps that time.  One refused
\* as expired is served later only if it, or one that expires later, was refused by
\* less than the server's clock was stepped back since: not at all while that clock is
\* not stepped.  "[N]or a server clock step can revive an expired token" says more:
\* the floor forgets the age counted since the confirm, and a step back revives a
\* token that expired within it.
TokenNeverRevived ==
  [][\A w \in Workers :
       Serves(w) => /\ reqExp[w] + Skew >= floor[reqGrant[w]]
                    /\ reqExp[w] + steppedBack > refusedExp[reqGrant[w]]]_vars

\* A worker never holds a lock it is not using, and a lock is held by its user: two
\* queries for one grant never overlap and a held lease lock always has a query
\* behind it that will release it.
LocksHeld ==
  /\ \A g \in Grants, w \in Workers :
       leaseHolder[g] = w <=> phase[w] \in {"query", "answered"} /\ reqGrant[w] = g
  /\ \A w \in Workers : seHolder = w <=> phase[w] = "op"

\* A shutdown drains the pool, unless the broker dies first.
ShutdownDrains == shutdown ~> (~shutdown \/ \A w \in Workers : phase[w] = "stopped")

-----------------------------------------------------------------------------
(* The inductive invariant behind RevocationCut, ReachableCut and TokenNeverRevived. *)

\* The affirmative a worker has in hand, not applied yet.
HoldsAffirmative(w) == phase[w] = "answered" /\ answer[w] = "live"

\* Confirms lie in the past, an attempt in flight is within its timeout, and the SLA in
\* force is within the compiled budget.
TimeInv ==
  /\ \A g \in Grants : confirmed[g] => confirmAt[g] <= now
  /\ \A w \in Workers : phase[w] \in {"query", "answered"} =>
       attemptAt[w] <= now /\ now <= attemptAt[w] + QueryTimeout
  /\ \A g \in Grants : slaLease[g] + slaGrace[g] <= Budget

\* A confirm, or an affirmative in hand, was live when the server spoke.
CutInv ==
  /\ \A g \in Grants : confirmed[g] =>
       \/ notLiveSince[g] = Live
       \/ notLiveSince[g] # 0 /\ confirmAt[g] <= notLiveSince[g] + QueryTimeout
  /\ \A w \in Workers : HoldsAffirmative(w) =>
       \/ notLiveSince[reqGrant[w]] = Live
       \/ notLiveSince[reqGrant[w]] # 0 /\ attemptAt[w] <= notLiveSince[reqGrant[w]]

\* The server's clock, had it not been stepped back in this life.
Unstepped == serverClock + steppedBack

\* Trusted time never runs ahead of the server's unstepped clock, and what was refused
\* as expired is behind trusted time, and behind every affirmative in hand, by all but
\* the steps back.
TokenInv ==
  /\ \A g \in Grants : confirmed[g] =>
       /\ floor[g] <= confirmTime[g]
       /\ confirmTime[g] + (now - confirmAt[g]) <= Unstepped
  /\ \A g \in Grants : ~confirmed[g] => floor[g] = 0
  /\ \A g \in Grants : refusedExp[g] # NoExp =>
       /\ confirmed[g] /\ refusedExp[g] + Skew < Unstepped
       /\ refusedExp[g] + Skew < confirmTime[g] + (now - confirmAt[g]) + steppedBack
  /\ \A w \in Workers : HoldsAffirmative(w) =>
       /\ answerTime[w] <= Unstepped
       /\ refusedExp[reqGrant[w]] # NoExp =>
            refusedExp[reqGrant[w]] + Skew < answerTime[w] + steppedBack
=============================================================================
