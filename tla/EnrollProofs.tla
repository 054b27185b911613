---------------------------- MODULE EnrollProofs ----------------------------
(***************************************************************************)
(* Proofs about Enroll, for every number of processes, enrolments and      *)
(* handles, every machine and every number of mishaps.                     *)
(***************************************************************************)
EXTENDS Enroll, TLAPS

\* The stretch in which a process holds an enrolment, and the part of it in which it may
\* have keys.
Keyed == {"keygen", "submit", "prove", "pop", "attest", "config", "write", "cleanup"}
Holding == {"confirm"} \cup Keyed

\* The key m[1] of birth m[2] is no longer in the store.
Gone(m) == m[1] \notin store.keys \/ birth[m[1]] # m[2]

\* A process knows its enrolment, has keys only once confirmed, and only of its handle;
\* its clean-up has removed the ones it is past.
ProcessInv(p) ==
  LET r == run[p]
  IN  /\ r.pc \in {"join"} \cup Holding => r.code \in Codes
      /\ r.pc \in {"start", "join", "confirm", "deleting"} => r.made = {}
      /\ r.pc \in {"keygen", "cleanup"} => r.n \in 1 .. 4
      /\ \A m \in r.made : m[2] <= birth[m[1]]
      /\ r.pc \in Keyed => \A m \in r.made : m[1] \in EnrollLabels(H(p))
      /\ r.pc = "cleanup" /\ ~r.skipped =>
           \A m \in r.made, i \in 1 .. 4 : i < r.n /\ m[1] = Label(H(p), i) => Gone(m)
      /\ r.pc = "over" /\ r.out \notin {"enrolled", "killed"} /\ ~r.skipped =>
           \A m \in r.made : Gone(m)

FailInv == \A p \in Runs : ProcessInv(p)

-----------------------------------------------------------------------------
(* What the store and the HTTP layer answer. *)

\* A store while it is asked: the screen may be locked.
Asked == [tier : {Tier}, locked : BOOLEAN, pq : {TRUE}, k3 : {{}}, keys : SUBSET Labels]

LEMMA LabelType ==
  ASSUME NEW h \in Handles, NEW i \in 1 .. 4
  PROVE  Label(h, i) \in Labels /\ Label(h, i).handle = h /\ Label(h, i).purpose = Order[i]
  BY DEF Label, Labels, Order, Purposes

LEMMA LabelsDiffer ==
  ASSUME NEW h, NEW g, NEW i \in 1 .. 4, NEW j \in 1 .. 4, Label(h, i) = Label(g, j)
  PROVE  h = g /\ i = j
<1>1. h = g /\ Order[i] = Order[j]
  BY Zenon DEF Label
<1> QED
  BY <1>1 DEF Order

LEMMA LockedType ==
  ASSUME store \in Stores, NEW locked \in BOOLEAN
  PROVE  /\ Locked(locked) \in Asked
         /\ Locked(locked).keys = store.keys
         /\ ~locked => Locked(locked) = store
         /\ [Locked(locked) EXCEPT !.locked = FALSE] = store
  BY Zenon DEF Locked, Asked, Stores

\* keygen mints a key of a label that has none, or leaves the store alone.
LEMMA GenerateAnswers ==
  ASSUME NEW st \in Asked, NEW l \in Labels
  PROVE  LET g == Generate(st, l, DefaultAlg(l.purpose))
         IN  \/ g.res.ok = TRUE /\ l \notin st.keys /\ g.store = [st EXCEPT !.keys = @ \cup {l}]
             \/ g.res.ok = FALSE /\ g.res.val \in Failures /\ g.store = st
  BY Zenon DEF Generate, SwGenerate, SwExists, SeGenerate, SeGeneratePq, Minted, SeFind, PqBlobFind,
         PqBlobStore, Same, Ok, Err, Asked, Failures

\* delete removes a key the store says it has, and an unlocked store knows all it has.
LEMMA DeleteAnswers ==
  ASSUME NEW st \in Asked, NEW l \in Labels
  PROVE  /\ Exist(st, l) => l \in st.keys /\ Delete(st, l).store = [st EXCEPT !.keys = @ \ {l}]
         /\ ~st.locked /\ l \in st.keys => Exist(st, l)
  BY Zenon DEF Exist, Exists, SwExists, SeExists, SeFind, PqBlobFind, Delete, SwDelete, SeDelete,
         PqBlobDelete, Same, Ok, Err, Asked

LEMMA UseAnswers ==
  ASSUME NEW st \in Asked, NEW l \in Labels
  PROVE  /\ ~Sign(st, l).ok => Sign(st, l).val \in Failures
         /\ ~MlDsaSign(st, l).ok => MlDsaSign(st, l).val \in Failures
         /\ ~Ecdh(st, l).ok => Ecdh(st, l).val \in Failures
         /\ ~MlKemDecapsulate(st, l).ok => MlKemDecapsulate(st, l).val \in Failures
         /\ ~Meta(st, l).ok => Meta(st, l).val \in Failures
         /\ ~Exists(st, l).ok => Exists(st, l).val \in Failures
<1> USE DEF Using, SeFind, PqBlobFind, ReadStored, SwUse, Ok, Err, Failures
<1>1. ~Sign(st, l).ok => Sign(st, l).val \in Failures
  BY Zenon DEF Sign, SwSign, SeSign
<1>2. ~MlDsaSign(st, l).ok => MlDsaSign(st, l).val \in Failures
  BY Zenon DEF MlDsaSign, SwMlDsaSign, SeMlDsaSign
<1>3. ~Ecdh(st, l).ok => Ecdh(st, l).val \in Failures
  BY Zenon DEF Ecdh, SwEcdh, SeEcdh
<1>4. ~MlKemDecapsulate(st, l).ok => MlKemDecapsulate(st, l).val \in Failures
  BY Zenon DEF MlKemDecapsulate, SwMlKemDecapsulate, SeMlKemDecapsulate
<1>5. ~Meta(st, l).ok => Meta(st, l).val \in Failures
  BY Zenon DEF Meta, SeMeta, SeMetaPq
<1>6. ~Exists(st, l).ok => Exists(st, l).val \in Failures
  BY Zenon DEF Exists, SeExists, SwExists
<1> HIDE DEF Failures
<1> QED
  BY <1>1, <1>2, <1>3, <1>4, <1>5, <1>6, Zenon

\* An answer comes only from the server, a retry only below the bound.
LEMMA PassAnswers ==
  ASSUME NEW n \in 0 .. MaxRetries, NEW o \in Posts
  PROVE  LET pass == PostText(FALSE, n, o)
         IN  \/ pass.next = "answer" /\ o = "ok"
             \/ pass.next = "again" /\ n < MaxRetries
             \/ pass.next = "fail" /\ pass.err \in Failures
  BY HttpAssumption, Zenon DEF PostText, RefuseWriteIfReadOnly, Attempted, Pass, ApiStatusError, EpochRefusal,
     Posts, Failures

LEMMA GetAnswers ==
  /\ GetText(MaxRetries, "transport").err \in Failures
  /\ \A o \in {"ok", "401"} : \/ SignedCall(FALSE, "GET", 0, o).next = "answer"
                              \/ SignedCall(FALSE, "GET", 0, o).err \in Failures
  BY HttpAssumption DEF GetText, SignedCall, RefuseWriteIfReadOnly, Attempted, Pass, ApiStatusError,
     EpochRefusal, Failures

-----------------------------------------------------------------------------
(* How a process moves on. *)

LEMMA FreshType ==
  Fresh \in Processes
<1>1. 0 \in 0 .. 5 /\ 0 \in 0 .. MaxRetries
  BY HttpAssumption
<1> QED
  BY <1>1, Zenon DEF Fresh, Processes, Outcomes

LEMMA DoneIs ==
  ASSUME NEW r \in Processes, NEW out \in Outcomes
  PROVE  /\ Done(r, out) \in Processes
         /\ Done(r, out).pc = "over" /\ Done(r, out).made = r.made /\ Done(r, out).out = out
         /\ Done(r, out).skipped = r.skipped
<1>1. Fresh \in Processes
  BY FreshType, Zenon
<1>2. /\ r.asserted \in Handles \cup {NoHandle} /\ r.made \in SUBSET (Labels \X Nat)
      /\ r.skipped \in BOOLEAN
  BY Zenon DEF Processes
<1>3. Done(r, out) \in Processes
  BY <1>1, <1>2, ZenonT(60) DEF Done, Processes
<1>4. Done(r, out).pc = "over" /\ Done(r, out).made = r.made /\ Done(r, out).out = out
      /\ Done(r, out).skipped = r.skipped
  BY DEF Done, Fresh
<1> QED
  BY <1>3, <1>4, Zenon

LEMMA FailedIs ==
  ASSUME NEW r \in Processes, NEW err \in Failures
  PROVE  /\ Failed(r, err) \in Processes
         /\ Failed(r, err).made = r.made /\ Failed(r, err).out = err
         /\ Failed(r, err).skipped = r.skipped
         /\ \/ r.pc \in {"start", "join", "confirm"} /\ Failed(r, err).pc = "over"
            \/ /\ r.pc \notin {"start", "join", "confirm"} /\ Failed(r, err).pc = "cleanup"
               /\ Failed(r, err).n = 1 /\ Failed(r, err).code = r.code
<1>1. err \in Outcomes
  BY Zenon DEF Outcomes
<1>2. CASE r.pc \in {"start", "join", "confirm"}
  BY <1>1, <1>2, DoneIs, Zenon DEF Failed
<1>3. CASE r.pc \notin {"start", "join", "confirm"}
  <2>1. Failed(r, err) = [r EXCEPT !.pc = "cleanup", !.n = 1, !.out = err]
    BY <1>3, Zenon DEF Failed
  <2>2. 1 \in 0 .. 5
    OBVIOUS
  <2>3. Failed(r, err) \in Processes
    BY <1>1, <2>1, <2>2, ZenonT(60) DEF Processes
  <2>4. /\ Failed(r, err).made = r.made /\ Failed(r, err).out = err
        /\ Failed(r, err).skipped = r.skipped /\ Failed(r, err).pc = "cleanup"
        /\ Failed(r, err).n = 1 /\ Failed(r, err).code = r.code
    BY <2>1, Zenon DEF Processes
  <2> QED
    BY <1>3, <2>3, <2>4, Zenon
<1> QED
  BY <1>2, <1>3, Zenon

\* A process after a pass of a POST: on, again, or out.
LEMMA AfterIs ==
  ASSUME NEW r \in Processes, NEW o \in Posts, NEW next \in {"confirm", "prove", "attest"}
  PROVE  LET a == After(r, PostText(FALSE, r.tries, o), next)
         IN  /\ a \in Processes
             /\ a.made = r.made /\ a.skipped = r.skipped
             /\ \/ o = "ok" /\ a.pc = next /\ a.code = r.code /\ a.out = r.out
                \/ a.pc = r.pc /\ a.code = r.code /\ a.n = r.n /\ a.out = r.out
                \/ \E err \in Failures : a = Failed(r, err)
<1> DEFINE pass == PostText(FALSE, r.tries, o)
           a == After(r, pass, next)
<1>0. r.tries \in 0 .. MaxRetries
  BY Zenon DEF Processes
<1>1. CASE pass.next = "answer" /\ o = "ok"
  <2>1. a = [r EXCEPT !.pc = next, !.tries = 0]
    BY <1>1, Zenon DEF After
  <2>2. 0 \in 0 .. MaxRetries
    BY HttpAssumption
  <2> QED
    BY <1>1, <2>1, <2>2, ZenonT(60) DEF Processes
<1>2. CASE pass.next = "again" /\ r.tries < MaxRetries
  <2>1. a = [r EXCEPT !.tries = @ + 1]
    BY <1>2, Zenon DEF After
  <2>2. r.tries + 1 \in 0 .. MaxRetries
    BY <1>0, <1>2, HttpAssumption
  <2> QED
    BY <1>2, <2>1, <2>2, ZenonT(60) DEF Processes
<1>3. CASE pass.next = "fail" /\ pass.err \in Failures
  <2>1. a = Failed(r, pass.err)
    BY <1>3, Zenon DEF After
  <2>2. \E err \in Failures : a = Failed(r, err)
    BY <1>3, <2>1, Zenon
  <2>3. a \in Processes /\ a.made = r.made /\ a.skipped = r.skipped
    <3>1. PICK err \in Failures : a = Failed(r, err)
      BY <2>2, Zenon
    <3> HIDE DEF a
    <3> QED
      BY <3>1, FailedIs, Zenon
  <2> QED
    BY <2>2, <2>3, Zenon
<1> QED
  BY <1>0, <1>1, <1>2, <1>3, PassAnswers, Zenon

-----------------------------------------------------------------------------
(* What a step does to the keys. *)

\* Keys go, or one key of a label that has none is born.
StoreStep ==
  /\ store' \in Stores /\ birth' \in [Labels -> Nat]
  /\ \/ store'.keys \subseteq store.keys /\ birth' = birth
     \/ \E l \in Labels : /\ l \notin store.keys /\ store'.keys = store.keys \cup {l}
                          /\ birth' = [birth EXCEPT ![l] = @ + 1]

LEMMA StoreStays ==
  ASSUME TypeOK, UNCHANGED <<store, birth>>
  PROVE  StoreStep
  BY Zenon DEF TypeOK, StoreStep

\* A key that is gone does not come back: a new key of its label is another birth.
LEMMA GoneStays ==
  ASSUME TypeOK, StoreStep, NEW m \in Labels \X Nat, m[2] <= birth[m[1]]
  PROVE  m[2] <= birth'[m[1]] /\ (Gone(m) => Gone(m)')
<1>1. birth \in [Labels -> Nat] /\ m[1] \in Labels /\ m[2] \in Nat
  BY Zenon DEF TypeOK
<1>2. CASE store'.keys \subseteq store.keys /\ birth' = birth
  BY <1>1, <1>2, Zenon DEF Gone
<1>3. ASSUME NEW l \in Labels, l \notin store.keys, store'.keys = store.keys \cup {l},
             birth' = [birth EXCEPT ![l] = @ + 1]
      PROVE  m[2] <= birth'[m[1]] /\ (Gone(m) => Gone(m)')
  BY <1>1, <1>3 DEF Gone
<1> QED
  BY <1>2, <1>3, Zenon DEF StoreStep

\* A process that does not move keeps its invariant, whatever becomes of the store.
LEMMA Bystander ==
  ASSUME TypeOK, StoreStep, NEW q \in Runs, run'[q] = run[q], ProcessInv(q)
  PROVE  ProcessInv(q)'
<1>1. \A m \in run[q].made : m \in Labels \X Nat
  BY Zenon DEF TypeOK, Processes
<1>2. \A m \in run[q].made : m[2] <= birth'[m[1]] /\ (Gone(m) => Gone(m)')
  BY <1>1, GoneStays, Zenon DEF ProcessInv
<1>3. H(q)' = H(q)
  BY Zenon DEF H
<1> QED
  BY <1>2, <1>3, Zenon DEF ProcessInv

\* A process that has no keys and ends leaves none.
LEMMA EndsClean ==
  ASSUME NEW p \in Runs, run'[p].pc = "over", run'[p].made = {}
  PROVE  ProcessInv(p)'
  BY Zenon DEF ProcessInv, Holding, Keyed

\* A failure begins the clean-up, with nothing cleaned up yet.
LEMMA FailsOver ==
  ASSUME TypeOK, StoreStep, NEW p \in Runs, ProcessInv(p), NEW err \in Failures,
         run'[p] = Failed(run[p], err), run[p].pc \in ({"join"} \cup Holding) \ {"cleanup"}
  PROVE  ProcessInv(p)'
<1>0. run[p] \in Processes
  BY Zenon DEF TypeOK
<1>1. CASE run[p].pc \in {"start", "join", "confirm"}
  <2>1. run'[p].pc = "over" /\ run'[p].made = {}
    BY <1>0, <1>1, FailedIs DEF ProcessInv
  <2> QED
    BY <2>1, EndsClean, Zenon
<1>2. CASE run[p].pc \in Keyed \ {"cleanup"}
  <2>1. /\ run'[p].pc = "cleanup" /\ run'[p].n = 1 /\ run'[p].code = run[p].code
        /\ run'[p].made = run[p].made
    BY <1>0, <1>2, FailedIs DEF Keyed
  <2>2. \A m \in run[p].made : m \in Labels \X Nat
    BY <1>0, Zenon DEF Processes
  <2>3. \A m \in run[p].made : m[2] <= birth'[m[1]]
    BY <2>2, GoneStays, Zenon DEF ProcessInv
  <2>4. H(p)' = H(p)
    BY <2>1, Zenon DEF H
  <2>5. run[p].code \in Codes /\ \A m \in run[p].made : m[1] \in EnrollLabels(H(p))
    BY <1>2, Zenon DEF ProcessInv, Holding
  <2> QED
    BY <2>1, <2>3, <2>4, <2>5 DEF ProcessInv, Keyed, Holding
<1> QED
  BY <1>1, <1>2, Zenon DEF Holding

\* One process moves, the rest of its handler being right.
LEMMA Moves ==
  ASSUME TypeOK, FailInv, StoreStep, NEW p \in Runs, NEW r \in Processes, Set(p, r),
         run'[p] = r => ProcessInv(p)',
         enr' \in [Codes -> [status : Live \cup Terminal \cup {"completed"},
                             holder : Runs \cup {Nobody}, keys : KeySets]],
         attested' = attested, config' \in Handles \cup {NoHandle}, mishaps' \in Nat
  PROVE  TypeOK' /\ FailInv'
<1>1. run \in [Runs -> Processes]
  BY Zenon DEF TypeOK
<1>2. run' \in [Runs -> Processes] /\ run'[p] = r /\ \A q \in Runs : q # p => run'[q] = run[q]
  BY <1>1, Zenon DEF Set
<1>3. TypeOK'
  BY <1>2, Zenon DEF TypeOK, StoreStep
<1>4. \A q \in Runs : ProcessInv(q)'
  BY <1>2, Bystander, Zenon DEF FailInv
<1> QED
  BY <1>3, <1>4, Zenon DEF FailInv

LEMMA MishapType ==
  ASSUME TypeOK
  PROVE  /\ Mishap => mishaps' \in Nat
         /\ \A locked \in BOOLEAN : Screen(locked) => mishaps' \in Nat
         /\ UNCHANGED mishaps => mishaps' \in Nat
  BY DEF TypeOK, Mishap, Screen

-----------------------------------------------------------------------------
(* One lemma per step. *)

\* What every handler starts from.
LEMMA Here ==
  ASSUME TypeOK, FailInv, NEW p \in Runs
  PROVE  /\ run[p] \in Processes /\ ProcessInv(p) /\ store \in Stores /\ birth \in [Labels -> Nat]
         /\ run[p].pc \in {"join"} \cup Holding => run[p].code \in Codes /\ H(p) \in Handles
         /\ config \in Handles \cup {NoHandle}
         /\ enr \in [Codes -> [status : Live \cup Terminal \cup {"completed"},
                               holder : Runs \cup {Nobody}, keys : KeySets]]
         /\ \A r : Set(p, r) => run'[p] = r
<1>1. run[p] \in Processes /\ ProcessInv(p)
  BY Zenon DEF TypeOK, FailInv
<1>2. run[p].pc \in {"join"} \cup Holding => run[p].code \in Codes
  BY <1>1, Zenon DEF ProcessInv
<1>3. run[p].code \in Codes => H(p) \in Handles
  BY EnrollAssumption, Zenon DEF H
<1>4. \A r : Set(p, r) => run'[p] = r
  BY Zenon DEF TypeOK, Set
<1> QED
  BY <1>1, <1>2, <1>3, <1>4, Zenon DEF TypeOK

LEMMA StartIs ==
  ASSUME NEW p \in Runs, NEW a, NEW c, NEW locked, Start(p, a, c, locked)
  PROVE  LET r == [run[p] EXCEPT !.code = c]
         IN  \/ \E out \in Failures \cup {"already_enrolled"} : Set(p, Done(r, out))
             \/ c # NoCode /\ Set(p, [r EXCEPT !.pc = "join"])
<1>1. ~OpenNonBroker(Machine).ok => OpenNonBroker(Machine).val \in Failures
  BY Zenon DEF OpenNonBroker, Ok, Err, Failures
<1>2. "invalid_arguments" \in Failures
  BY Zenon DEF Failures
<1> QED
  BY <1>1, <1>2, Zenon DEF Start

LEMMA StartTyped ==
  ASSUME TypeOK, FailInv, NEW p \in Runs, NEW a \in Handles \cup {NoHandle},
         NEW c \in Codes \cup {NoCode}, NEW locked \in BOOLEAN, Start(p, a, c, locked)
  PROVE  TypeOK' /\ FailInv'
<1> DEFINE r == [run[p] EXCEPT !.code = c]
<1>0. run[p] \in Processes /\ run[p].made = {}
  BY Here, Zenon DEF Start, ProcessInv
<1>1. r \in Processes /\ r.made = {} /\ r.code = c
  BY <1>0 DEF Processes
<1>2. UNCHANGED <<store, birth, enr, attested, config>> /\ mishaps' \in Nat
  BY MishapType, Zenon DEF Start, serverVars
<1>3. \/ \E out \in Outcomes : Set(p, Done(r, out))
      \/ c # NoCode /\ Set(p, [r EXCEPT !.pc = "join"])
  <2>1. Failures \cup {"already_enrolled"} \subseteq Outcomes
    BY Zenon DEF Outcomes
  <2> QED
    BY <2>1, StartIs, Zenon
<1>4. ASSUME NEW out \in Outcomes, Set(p, Done(r, out))
      PROVE  TypeOK' /\ FailInv'
  <2>1. Done(r, out) \in Processes /\ Done(r, out).pc = "over" /\ Done(r, out).made = {}
    BY <1>1, DoneIs, Zenon
  <2> QED
    BY <1>2, <1>4, <2>1, Here, EndsClean, StoreStays, Moves, Zenon
<1>5. CASE c # NoCode /\ Set(p, [r EXCEPT !.pc = "join"])
  <2> DEFINE j == [r EXCEPT !.pc = "join"]
  <2>1. j \in Processes /\ j.pc = "join" /\ j.made = {} /\ j.code \in Codes
    BY <1>1, <1>5, ZenonT(60) DEF Processes
  <2>2. run'[p] = j => ProcessInv(p)'
    BY <2>1, Zenon DEF ProcessInv, Holding, Keyed
  <2> HIDE DEF j, r
  <2> QED
    BY <1>2, <1>5, <2>1, <2>2, Here, StoreStays, Moves, Zenon DEF j
<1> QED
  BY <1>3, <1>4, <1>5, Zenon

\* A POST: the process goes on, tries again or fails; the keys stay as they are.
LEMMA PostTyped ==
  ASSUME TypeOK, FailInv, NEW p \in Runs, NEW o \in Posts,
         NEW next \in {"confirm", "prove", "attest"},
         <<run[p].pc, next>> \in {<<"join", "confirm">>, <<"submit", "prove">>, <<"pop", "attest">>},
         Set(p, After(run[p], PostText(FALSE, run[p].tries, o), next)),
         enr' \in [Codes -> [status : Live \cup Terminal \cup {"completed"},
                             holder : Runs \cup {Nobody}, keys : KeySets]],
         UNCHANGED <<store, birth, attested, config>>, mishaps' \in Nat
  PROVE  TypeOK' /\ FailInv'
<1> DEFINE a == After(run[p], PostText(FALSE, run[p].tries, o), next)
<1>1. /\ a \in Processes /\ a.made = run[p].made /\ a.skipped = run[p].skipped
      /\ \/ a.pc = next /\ a.code = run[p].code
         \/ a.pc = run[p].pc /\ a.code = run[p].code /\ a.n = run[p].n
         \/ \E err \in Failures : a = Failed(run[p], err)
  <2>1. run[p] \in Processes
    BY Here, Zenon
  <2> QED
    BY <2>1, AfterIs, ZenonT(60)
<1>2. run'[p] = a /\ StoreStep
  BY Here, StoreStays, Zenon
<1> HIDE DEF a
<1>3. CASE \E err \in Failures : a = Failed(run[p], err)
  <2>1. run[p].pc \in ({"join"} \cup Holding) \ {"cleanup"}
    BY Zenon DEF Holding, Keyed
  <2>2. ProcessInv(p)'
    BY <1>2, <1>3, <2>1, Here, FailsOver, ZenonT(60)
  <2> QED
    BY <1>1, <1>2, <2>2, Here, Moves, Zenon DEF a
<1>4. CASE a.pc \in {run[p].pc, next} /\ a.code = run[p].code
  <2>1. run[p].pc \in {"join"} \cup Holding /\ run[p].pc \in Keyed \cup {"join"}
    BY DEF Holding, Keyed
  <2>2. /\ run[p].code \in Codes /\ \A m \in run[p].made : m[2] <= birth[m[1]]
        /\ \A m \in run[p].made : m[1] \in EnrollLabels(H(p))
        /\ run[p].pc = "join" => run[p].made = {}
    BY <2>1, Here, Zenon DEF ProcessInv
  <2>3. H(p)' = H(p) /\ birth' = birth
    BY <1>2, <1>4, Zenon DEF H
  <2>4. a.pc \in {"join", "confirm"} => run[p].made = {}
    BY <1>4, <2>2, Zenon
  <2>5. ProcessInv(p)'
    BY <1>1, <1>2, <1>4, <2>2, <2>3, <2>4, Zenon DEF ProcessInv, Holding, Keyed
  <2> QED
    BY <1>1, <1>2, <2>5, Here, Moves, Zenon DEF a
<1> QED
  BY <1>1, <1>3, <1>4, Zenon

LEMMA JoinTyped ==
  ASSUME TypeOK, FailInv, NEW p \in Runs, NEW o \in Posts, Join(p, o)
  PROVE  TypeOK' /\ FailInv'
<1>1. run[p].pc = "join" /\ run[p].code \in Codes
  BY Here, Zenon DEF Join
<1>2. enr' \in {enr, [enr EXCEPT ![run[p].code].holder = p]}
  BY Zenon DEF Join
<1>3. enr' \in [Codes -> [status : Live \cup Terminal \cup {"completed"},
                          holder : Runs \cup {Nobody}, keys : KeySets]]
  BY <1>1, <1>2, Here
<1>4. /\ Set(p, After(run[p], PostText(FALSE, run[p].tries, o), "confirm"))
      /\ UNCHANGED <<store, birth, attested, config>> /\ mishaps' \in Nat
  BY MishapType, Zenon DEF Join
<1> QED
  BY <1>1, <1>3, <1>4, PostTyped, Zenon

LEMMA SubmitKeysTyped ==
  ASSUME TypeOK, FailInv, NEW p \in Runs, NEW o \in Posts, SubmitKeys(p, o)
  PROVE  TypeOK' /\ FailInv'
<1>1. run[p].pc = "submit" /\ run[p].code \in Codes /\ H(p) \in Handles
  BY Here, Zenon DEF SubmitKeys, Holding, Keyed
<1>2. enr' \in {enr, [enr EXCEPT ![run[p].code].keys = Births(H(p))]}
  BY Zenon DEF SubmitKeys
<1>3. Births(H(p)) \in KeySets
  BY <1>1, LabelType, Zenon DEF Births, KeySets, TypeOK
<1>4. enr' \in [Codes -> [status : Live \cup Terminal \cup {"completed"},
                          holder : Runs \cup {Nobody}, keys : KeySets]]
  BY <1>1, <1>2, <1>3, Here
<1>5. /\ Set(p, After(run[p], PostText(FALSE, run[p].tries, o), "prove"))
      /\ UNCHANGED <<store, birth, attested, config>> /\ mishaps' \in Nat
  BY MishapType, Zenon DEF SubmitKeys
<1> QED
  BY <1>1, <1>4, <1>5, PostTyped, Zenon

LEMMA SubmitPopTyped ==
  ASSUME TypeOK, FailInv, NEW p \in Runs, NEW o \in Posts, SubmitPop(p, o)
  PROVE  TypeOK' /\ FailInv'
<1>1. run[p].pc = "pop" /\ run[p].code \in Codes
  BY Here, Zenon DEF SubmitPop, Holding, Keyed
<1>2. enr' \in {enr, [enr EXCEPT ![run[p].code].status = "keys_submitted"]}
  BY Zenon DEF SubmitPop
<1>3. enr' \in [Codes -> [status : Live \cup Terminal \cup {"completed"},
                          holder : Runs \cup {Nobody}, keys : KeySets]]
  BY <1>1, <1>2, Here DEF Live
<1>4. /\ Set(p, After(run[p], PostText(FALSE, run[p].tries, o), "attest"))
      /\ UNCHANGED <<store, birth, attested, config>> /\ mishaps' \in Nat
  BY MishapType, Zenon DEF SubmitPop
<1> QED
  BY <1>1, <1>3, <1>4, PostTyped, Zenon

\* A process that fails, the server and the configuration being as they were.
LEMMA FailTyped ==
  ASSUME TypeOK, FailInv, StoreStep, NEW p \in Runs, NEW err \in Failures, Set(p, Failed(run[p], err)),
         run[p].pc \in ({"join"} \cup Holding) \ {"cleanup"},
         UNCHANGED <<enr, attested, config>>, mishaps' \in Nat
  PROVE  TypeOK' /\ FailInv'
<1>1. Failed(run[p], err) \in Processes /\ run'[p] = Failed(run[p], err)
  BY Here, FailedIs, Zenon
<1>2. ProcessInv(p)'
  BY <1>1, Here, FailsOver, Zenon
<1> QED
  BY <1>1, <1>2, Here, Moves, Zenon

LEMMA PollIs ==
  ASSUME TypeOK, NEW p \in Runs, PollConfirmed(p) \/ PollCompleted(p)
  PROVE  /\ UNCHANGED <<store, birth, enr, attested, config>> /\ mishaps' \in Nat
         /\ run[p].pc \in {"confirm", "attest"}
         /\ \/ /\ enr[run[p].code].status = "confirmed" /\ run[p].pc = "confirm"
               /\ Set(p, [run[p] EXCEPT !.pc = "keygen", !.n = 1])
            \/ /\ enr[run[p].code].status = "completed" /\ run[p].pc = "attest"
               /\ Set(p, [run[p] EXCEPT !.pc = "config", !.n = 1])
            \/ \E err \in Failures : Set(p, Failed(run[p], err))
<1>1. "timed_out" \in Failures /\ Terminal \subseteq Failures
  BY Zenon DEF Failures, Terminal
<1>2. CASE PollConfirmed(p)
  BY <1>1, <1>2, MishapType, GetAnswers, Zenon DEF PollConfirmed, PollUntil, serverVars
<1>3. CASE PollCompleted(p)
  BY <1>1, <1>3, MishapType, GetAnswers, Zenon DEF PollCompleted, PollUntil, serverVars
<1> QED
  BY <1>2, <1>3, Zenon

LEMMA PollTyped ==
  ASSUME TypeOK, FailInv, NEW p \in Runs, PollConfirmed(p) \/ PollCompleted(p)
  PROVE  TypeOK' /\ FailInv'
<1>1. /\ UNCHANGED <<store, birth, enr, attested, config>> /\ mishaps' \in Nat
      /\ run[p].pc \in {"confirm", "attest"}
      /\ \/ /\ enr[run[p].code].status = "confirmed" /\ run[p].pc = "confirm"
            /\ Set(p, [run[p] EXCEPT !.pc = "keygen", !.n = 1])
         \/ /\ enr[run[p].code].status = "completed" /\ run[p].pc = "attest"
            /\ Set(p, [run[p] EXCEPT !.pc = "config", !.n = 1])
         \/ \E err \in Failures : Set(p, Failed(run[p], err))
  BY PollIs, Zenon
<1>2. StoreStep
  BY <1>1, StoreStays, Zenon
<1>3. run[p].pc \in Holding /\ run[p].pc # "cleanup" /\ run[p].pc # "join"
  BY <1>1, Zenon DEF Holding, Keyed
<1>4. ASSUME NEW next \in {"keygen", "config"}, Set(p, [run[p] EXCEPT !.pc = next, !.n = 1]),
             next = "config" <=> run[p].pc = "attest"
      PROVE  TypeOK' /\ FailInv'
  <2> DEFINE r == [run[p] EXCEPT !.pc = next, !.n = 1]
  <2>0. 1 \in 0 .. 5 /\ 1 \in 1 .. 4
    OBVIOUS
  <2>1. r \in Processes /\ r.pc = next /\ r.n = 1 /\ r.made = run[p].made /\ r.code = run[p].code
    <3>1. run[p] \in Processes
      BY Here, Zenon
    <3>2. r \in Processes
      BY <2>0, <3>1, ZenonT(60) DEF Processes
    <3>3. r.pc = next /\ r.n = 1 /\ r.made = run[p].made /\ r.code = run[p].code
      BY <3>1, Zenon DEF Processes
    <3> QED
      BY <3>2, <3>3, Zenon
  <2>2. run'[p] = r
    BY <1>4, Here, Zenon
  <2> HIDE DEF r
  <2>3. H(p)' = H(p) /\ birth' = birth
    BY <1>1, <2>1, <2>2, Zenon DEF H
  <2>4. /\ run[p].code \in Codes /\ \A m \in run[p].made : m[2] <= birth[m[1]]
        /\ run[p].pc = "confirm" => run[p].made = {}
        /\ run[p].pc = "attest" => \A m \in run[p].made : m[1] \in EnrollLabels(H(p))
    BY <1>3, Here, Zenon DEF ProcessInv, Keyed
  <2>5. ProcessInv(p)'
    BY <1>1, <2>0, <2>1, <2>2, <2>3, <2>4, Zenon DEF ProcessInv, Holding, Keyed
  <2> QED
    BY <1>1, <1>2, <1>4, <2>1, <2>5, Here, Moves, Zenon DEF r
<1>5. ASSUME NEW err \in Failures, Set(p, Failed(run[p], err))
      PROVE  TypeOK' /\ FailInv'
  BY <1>1, <1>2, <1>3, <1>5, FailTyped, Zenon
<1> QED
  BY <1>1, <1>4, <1>5, Zenon

\* The process goes on to its next step.
LEMMA OnwardTyped ==
  ASSUME TypeOK, FailInv, StoreStep, NEW p \in Runs, NEW next \in {"pop", "write"},
         run[p].pc \in {"prove", "config"}, Set(p, [run[p] EXCEPT !.pc = next]),
         UNCHANGED <<store, birth, enr, attested, config>>, mishaps' \in Nat
  PROVE  TypeOK' /\ FailInv'
<1> DEFINE r == [run[p] EXCEPT !.pc = next]
<1>1. run[p] \in Processes /\ ProcessInv(p) /\ run'[p] = r
  BY Here, Zenon
<1>2. r \in Processes
  BY <1>1, Zenon DEF Processes
<1>3. r.pc = next /\ r.made = run[p].made /\ r.code = run[p].code
  BY <1>1, Zenon DEF Processes
<1> HIDE DEF r
<1>4. H(p)' = H(p) /\ birth' = birth
  BY <1>1, <1>3, Zenon DEF H
<1>5. /\ run[p].code \in Codes /\ \A m \in run[p].made : m[2] <= birth[m[1]]
      /\ \A m \in run[p].made : m[1] \in EnrollLabels(H(p))
  BY <1>1, Zenon DEF ProcessInv, Holding, Keyed
<1>6. ProcessInv(p)'
  BY <1>1, <1>3, <1>4, <1>5, Zenon DEF ProcessInv, Holding, Keyed
<1> QED
  BY <1>1, <1>2, <1>6, Here, Moves, Zenon DEF r

\* An enrolment that succeeded, or a process that was killed, ends with its keys.
LEMMA EndTyped ==
  ASSUME TypeOK, FailInv, StoreStep, NEW p \in Runs, NEW out \in {"enrolled", "killed"},
         Set(p, Done(run[p], out)),
         UNCHANGED <<store, birth, enr, attested>>, config' \in Handles \cup {NoHandle},
         mishaps' \in Nat
  PROVE  TypeOK' /\ FailInv'
<1>1. out \in Outcomes
  BY Zenon DEF Outcomes
<1>2. /\ run[p] \in Processes /\ ProcessInv(p) /\ run'[p] = Done(run[p], out)
      /\ Done(run[p], out) \in Processes /\ Done(run[p], out).pc = "over"
      /\ Done(run[p], out).made = run[p].made /\ Done(run[p], out).out = out
  BY <1>1, Here, DoneIs, Zenon
<1>3. ProcessInv(p)'
  BY <1>2, Zenon DEF ProcessInv, Holding, Keyed
<1> QED
  BY <1>2, <1>3, Here, Moves, Zenon

\* A keygen step makes the key of its label, which had none, or fails.
MadeKey(p, l) == [run[p] EXCEPT !.n = @ + 1, !.made = @ \cup {<<l, birth[l] + 1>>},
                                !.pc = IF run[p].n = 4 THEN "submit" ELSE @]

LEMMA KeygenIs ==
  ASSUME TypeOK, FailInv, NEW p \in Runs, NEW locked \in BOOLEAN, Keygen(p, locked)
  PROVE  LET l == Label(H(p), run[p].n)
         IN  /\ run[p] \in Processes /\ run[p].pc = "keygen" /\ run[p].code \in Codes
             /\ H(p) \in Handles /\ run[p].n \in 1 .. 4 /\ ProcessInv(p)
             /\ run[p].pc \in ({"join"} \cup Holding) \ {"cleanup"}
             /\ l \in Labels /\ UNCHANGED <<enr, attested, config>> /\ mishaps' \in Nat
             /\ \/ /\ l \notin store.keys /\ store' \in Stores /\ store'.keys = store.keys \cup {l}
                   /\ birth' = [birth EXCEPT ![l] = @ + 1] /\ Set(p, MadeKey(p, l))
                \/ UNCHANGED <<store, birth>> /\ \E err \in Failures : Set(p, Failed(run[p], err))
<1> DEFINE l == Label(H(p), run[p].n)
           st == Locked(locked)
           g == Generate(st, l, DefaultAlg(l.purpose))
<1>0. /\ run[p] \in Processes /\ run[p].pc = "keygen" /\ run[p].code \in Codes /\ H(p) \in Handles
      /\ run[p].n \in 1 .. 4 /\ run[p].pc \in ({"join"} \cup Holding) \ {"cleanup"} /\ ProcessInv(p)
  BY Here, Zenon DEF Keygen, ProcessInv, Holding, Keyed
<1>1. l \in Labels /\ st \in Asked /\ store \in Stores /\ birth \in [Labels -> Nat]
  BY <1>0, Here, LabelType, LockedType, Zenon
<1>2. /\ UNCHANGED <<enr, attested, config>> /\ mishaps' \in Nat
      /\ store' = [g.store EXCEPT !.locked = FALSE]
      /\ birth' = [birth EXCEPT ![l] = IF g.res.ok THEN @ + 1 ELSE @]
      /\ Set(p, IF g.res.ok THEN MadeKey(p, l) ELSE Failed(run[p], g.res.val))
  BY MishapType, Zenon DEF Keygen, serverVars, MadeKey
<1>3. \/ g.res.ok = TRUE /\ l \notin st.keys /\ g.store = [st EXCEPT !.keys = @ \cup {l}]
      \/ g.res.ok = FALSE /\ g.res.val \in Failures /\ g.store = st
  BY <1>1, GenerateAnswers, Zenon
<1> HIDE DEF g
<1>4. CASE g.res.ok = FALSE /\ g.res.val \in Failures /\ g.store = st
  <2>1. store' = store /\ birth' = birth
    BY <1>1, <1>2, <1>4, LockedType, Zenon
  <2>2. Set(p, Failed(run[p], g.res.val))
    BY <1>2, <1>4, Zenon
  <2> HIDE DEF l
  <2> QED
    BY <1>0, <1>1, <1>2, <1>4, <2>1, <2>2, Zenon DEF l
<1>5. CASE g.res.ok = TRUE /\ l \notin st.keys /\ g.store = [st EXCEPT !.keys = @ \cup {l}]
  <2>1. l \notin store.keys /\ birth' = [birth EXCEPT ![l] = @ + 1]
    BY <1>1, <1>2, <1>5, LockedType, Zenon
  <2>2. store' \in Stores /\ store'.keys = store.keys \cup {l}
    <3>1. st.keys = store.keys
      BY <1>1, LockedType, Zenon
    <3>2. store' = [[st EXCEPT !.keys = @ \cup {l}] EXCEPT !.locked = FALSE]
      BY <1>2, <1>5, Zenon
    <3> HIDE DEF st, l
    <3> QED
      BY <1>1, <3>1, <3>2, Zenon DEF Asked, Stores
  <2>3. Set(p, MadeKey(p, l))
    BY <1>2, <1>5, Zenon
  <2> HIDE DEF l
  <2> QED
    BY <1>0, <1>1, <1>2, <2>1, <2>2, <2>3, Zenon DEF l
<1> QED
  BY <1>3, <1>4, <1>5, Zenon

LEMMA KeygenTyped ==
  ASSUME TypeOK, FailInv, NEW p \in Runs, NEW locked \in BOOLEAN, Keygen(p, locked)
  PROVE  TypeOK' /\ FailInv'
<1> DEFINE l == Label(H(p), run[p].n)
<1>0. /\ run[p] \in Processes /\ run[p].pc = "keygen" /\ run[p].code \in Codes /\ H(p) \in Handles
      /\ run[p].n \in 1 .. 4 /\ run[p].pc \in ({"join"} \cup Holding) \ {"cleanup"} /\ ProcessInv(p)
  BY KeygenIs, Zenon
<1>1. l \in Labels /\ birth \in [Labels -> Nat]
  BY KeygenIs, Here, Zenon
<1>2. UNCHANGED <<enr, attested, config>> /\ mishaps' \in Nat
  BY KeygenIs, Zenon
<1>3. \/ /\ l \notin store.keys /\ store' \in Stores /\ store'.keys = store.keys \cup {l}
         /\ birth' = [birth EXCEPT ![l] = @ + 1] /\ Set(p, MadeKey(p, l))
      \/ UNCHANGED <<store, birth>> /\ \E err \in Failures : Set(p, Failed(run[p], err))
  BY KeygenIs, Zenon
<1>4. CASE UNCHANGED <<store, birth>> /\ \E err \in Failures : Set(p, Failed(run[p], err))
  BY <1>0, <1>2, <1>4, StoreStays, FailTyped, Zenon
<1>5. CASE /\ l \notin store.keys /\ store' \in Stores /\ store'.keys = store.keys \cup {l}
           /\ birth' = [birth EXCEPT ![l] = @ + 1] /\ Set(p, MadeKey(p, l))
  <2> DEFINE r == [run[p] EXCEPT !.n = @ + 1, !.made = @ \cup {<<l, birth[l] + 1>>},
                    !.pc = IF run[p].n = 4 THEN "submit" ELSE @]
  <2> HIDE DEF l
  <2>3. StoreStep
    <3>1. birth' \in [Labels -> Nat]
      BY <1>1, <1>5
    <3> QED
      BY <1>1, <1>5, <3>1, Zenon DEF StoreStep
  <2>4. Set(p, r)
    BY <1>5, Zenon DEF MadeKey
  <2>5. r \in Processes
    <3>1. run[p].n + 1 \in 0 .. 5 /\ <<l, birth[l] + 1>> \in Labels \X Nat
      BY <1>0, <1>1
    <3>2. run[p].made \cup {<<l, birth[l] + 1>>} \in SUBSET (Labels \X Nat)
      BY <1>0, <3>1, Zenon DEF Processes
    <3>3. ASSUME NEW n \in 0 .. 5, NEW made \in SUBSET (Labels \X Nat), NEW pc \in {"keygen", "submit"}
          PROVE  [run[p] EXCEPT !.n = n, !.made = made, !.pc = pc] \in Processes
      BY <1>0, ZenonT(60) DEF Processes
    <3>4. (IF run[p].n = 4 THEN "submit" ELSE run[p].pc) \in {"keygen", "submit"}
      BY <1>0
    <3> QED
      BY <3>1, <3>2, <3>3, <3>4, Zenon
  <2>6. /\ r.n = run[p].n + 1 /\ r.made = run[p].made \cup {<<l, birth[l] + 1>>}
        /\ r.pc = (IF run[p].n = 4 THEN "submit" ELSE "keygen") /\ r.code = run[p].code
    BY <1>0, Zenon DEF Processes
  <2>7. run'[p] = r
    BY <2>4, Here, Zenon
  <2> HIDE DEF r
  <2>8. H(p)' = H(p)
    BY <2>6, <2>7, Zenon DEF H
  <2>9. \A m \in run[p].made : m \in Labels \X Nat
    BY <1>0, Zenon DEF Processes
  <2>10. \A m \in r.made : m[2] <= birth'[m[1]]
    <3>1. \A m \in run[p].made : m[2] <= birth'[m[1]]
      BY <1>0, <2>3, <2>9, GoneStays, Zenon DEF ProcessInv
    <3> QED
      BY <1>1, <1>5, <2>6, <3>1
  <2>11. \A m \in r.made : m[1] \in EnrollLabels(H(p))
    <3>1. \A m \in run[p].made : m[1] \in EnrollLabels(H(p))
      BY <1>0, Zenon DEF ProcessInv, Keyed
    <3>2. l \in EnrollLabels(H(p))
      BY <1>0, Zenon DEF EnrollLabels, l
    <3> QED
      BY <2>6, <3>1, <3>2
  <2>12. ProcessInv(p)'
    BY <1>0, <2>6, <2>7, <2>8, <2>10, <2>11 DEF ProcessInv, Holding, Keyed
  <2> QED
    BY <1>2, <2>3, <2>4, <2>5, <2>12, Here, Moves, Zenon
<1> QED
  BY <1>3, <1>4, <1>5, Zenon

LEMMA ProveIs ==
  ASSUME TypeOK, FailInv, NEW p \in Runs, NEW locked \in BOOLEAN, Prove(p, locked)
  PROVE  /\ UNCHANGED <<store, birth, enr, attested, config>> /\ mishaps' \in Nat
         /\ \/ Set(p, [run[p] EXCEPT !.pc = "pop"])
            \/ \E err \in Failures : Set(p, Failed(run[p], err))
<1> DEFINE st == Locked(locked)
           bad == {x \in Proof(st, H(p)) : ~x.ok}
           some == CHOOSE x \in bad : TRUE
<1>0. H(p) \in Handles
  BY Here, Zenon DEF Prove, Holding, Keyed
<1>1. st \in Asked
  BY Here, LockedType, Zenon
<1>2. \A x \in bad : x.val \in Failures
  <2> HIDE DEF st
  <2>1. \A i \in 1 .. 4 : Label(H(p), i) \in Labels
    BY <1>0, LabelType, Zenon
  <2>2. /\ Label(H(p), 1) \in Labels /\ Label(H(p), 2) \in Labels
        /\ Label(H(p), 3) \in Labels /\ Label(H(p), 4) \in Labels
    BY <2>1
  <2> QED
    BY <1>1, <2>2, UseAnswers, Zenon DEF Proof, UnwrapKeyHybrid
<1>3. bad # {} => some.val \in Failures
  BY <1>2, Zenon
<1>4. /\ UNCHANGED <<store, birth, enr, attested, config>> /\ mishaps' \in Nat
      /\ Set(p, IF bad = {} THEN [run[p] EXCEPT !.pc = "pop"] ELSE Failed(run[p], some.val))
  BY MishapType, Zenon DEF Prove, serverVars
<1> HIDE DEF bad, some
<1> QED
  BY <1>3, <1>4, Zenon

LEMMA ProveTyped ==
  ASSUME TypeOK, FailInv, NEW p \in Runs, NEW locked \in BOOLEAN, Prove(p, locked)
  PROVE  TypeOK' /\ FailInv'
<1>0. run[p].pc = "prove" /\ run[p].pc \in ({"join"} \cup Holding) \ {"cleanup"}
  BY Zenon DEF Prove, Holding, Keyed
<1>1. /\ UNCHANGED <<store, birth, enr, attested, config>> /\ mishaps' \in Nat /\ StoreStep
      /\ \/ Set(p, [run[p] EXCEPT !.pc = "pop"])
         \/ \E err \in Failures : Set(p, Failed(run[p], err))
  BY ProveIs, StoreStays, Zenon
<1>2. CASE Set(p, [run[p] EXCEPT !.pc = "pop"])
  BY <1>0, <1>1, <1>2, OnwardTyped, Zenon
<1>3. CASE \E err \in Failures : Set(p, Failed(run[p], err))
  BY <1>0, <1>1, <1>3, FailTyped, Zenon
<1> QED
  BY <1>1, <1>2, <1>3, Zenon

LEMMA LoadDefaultTyped ==
  ASSUME TypeOK, FailInv, NEW p \in Runs, LoadDefault(p)
  PROVE  TypeOK' /\ FailInv'
<1>0. /\ run[p] \in Processes /\ run[p].pc = "config" /\ ProcessInv(p)
      /\ UNCHANGED <<store, birth, enr, attested, config>> /\ mishaps' \in Nat /\ StoreStep
      /\ \/ Set(p, [run[p] EXCEPT !.pc = "write"])
         \/ Set(p, Done(run[p], "enrolled"))
  BY Here, MishapType, StoreStays, Zenon DEF LoadDefault, serverVars
<1>1. CASE Set(p, [run[p] EXCEPT !.pc = "write"])
  BY <1>0, <1>1, OnwardTyped, ZenonT(60)
<1>2. CASE Set(p, Done(run[p], "enrolled"))
  BY <1>0, <1>2, Here, EndTyped
<1> QED
  BY <1>0, <1>1, <1>2, Zenon

LEMMA WriteDefaultConfigTyped ==
  ASSUME TypeOK, FailInv, NEW p \in Runs, NEW fails \in BOOLEAN, WriteDefaultConfig(p, fails)
  PROVE  TypeOK' /\ FailInv'
<1>0. /\ run[p].pc = "write" /\ H(p) \in Handles
      /\ run[p].pc \in ({"join"} \cup Holding) \ {"cleanup"}
  BY Here DEF WriteDefaultConfig, Holding, Keyed
<1>1. UNCHANGED <<store, birth, enr, attested>> /\ StoreStep
  BY StoreStays, Zenon DEF WriteDefaultConfig, serverVars
<1>2. CASE fails
  <2>1. "filesystem_error" \in Failures
    BY Zenon DEF Failures
  <2>2. Set(p, Failed(run[p], "filesystem_error")) /\ UNCHANGED config /\ mishaps' \in Nat
    BY <1>2, MishapType, Zenon DEF WriteDefaultConfig
  <2> QED
    BY <1>0, <1>1, <2>1, <2>2, FailTyped, Zenon
<1>3. CASE ~fails
  <2>1. Set(p, Done(run[p], "enrolled")) /\ config' \in Handles \cup {NoHandle} /\ mishaps' \in Nat
    BY <1>0, <1>3, MishapType, Zenon DEF WriteDefaultConfig
  <2> QED
    BY <1>1, <2>1, EndTyped
<1> QED
  BY <1>2, <1>3, Zenon

\* One label of the clean-up: what the enrolment made under it is gone, unless the store was locked.
LEMMA CleanupKeysTyped ==
  ASSUME TypeOK, FailInv, NEW p \in Runs, NEW locked \in BOOLEAN, CleanupKeys(p, locked)
  PROVE  TypeOK' /\ FailInv' /\ StoreStep /\ birth' = birth
         /\ store.keys \ {Label(H(p), run[p].n)} \subseteq store'.keys
<1> DEFINE l == Label(H(p), run[p].n)
           st == Locked(locked)
           r == [run[p] EXCEPT !.skipped = @ \/ locked]
<1>0. /\ run[p] \in Processes /\ run[p].pc = "cleanup" /\ run[p].code \in Codes /\ H(p) \in Handles
      /\ run[p].n \in 1 .. 4 /\ ProcessInv(p)
  BY Here, Zenon DEF CleanupKeys, ProcessInv, Holding, Keyed
<1>1. l \in Labels /\ st \in Asked /\ store \in Stores /\ birth \in [Labels -> Nat]
  BY <1>0, Here, LabelType, LockedType
<1>2. /\ UNCHANGED <<birth, enr, attested, config>> /\ mishaps' \in Nat
      /\ store' = [(IF Exist(st, l) THEN Delete(st, l).store ELSE st) EXCEPT !.locked = FALSE]
      /\ Set(p, IF r.n = 4 THEN Done(r, r.out) ELSE [r EXCEPT !.n = @ + 1])
  BY MishapType, Zenon DEF CleanupKeys, serverVars
<1>3. /\ store' \in Stores /\ store'.keys \subseteq store.keys
      /\ store.keys \ {l} \subseteq store'.keys
      /\ ~locked => l \notin store'.keys
  <2>1. st.keys = store.keys /\ (~locked => ~st.locked)
    BY <1>1, LockedType, Zenon DEF Stores
  <2>2. /\ Exist(st, l) => l \in st.keys /\ Delete(st, l).store = [st EXCEPT !.keys = @ \ {l}]
        /\ ~st.locked /\ l \in st.keys => Exist(st, l)
    BY <1>1, DeleteAnswers, Zenon
  <2> HIDE DEF st, l
  <2>3. CASE Exist(st, l)
    <3>1. store' = [[st EXCEPT !.keys = @ \ {l}] EXCEPT !.locked = FALSE]
      BY <1>2, <2>2, <2>3, Zenon
    <3> QED
      BY <1>1, <2>1, <3>1, Zenon DEF Asked, Stores
  <2>4. CASE ~Exist(st, l)
    BY <1>1, <1>2, <2>1, <2>2, <2>4, ZenonT(60) DEF Asked, Stores
  <2> QED
    BY <2>3, <2>4, Zenon
<1>4. StoreStep
  BY <1>1, <1>2, <1>3, Zenon DEF StoreStep
<1>5. r \in Processes
  BY <1>0 DEF Processes
<1>6. /\ r.made = run[p].made /\ r.code = run[p].code /\ r.out = run[p].out /\ r.n = run[p].n
      /\ r.pc = "cleanup" /\ (~r.skipped => ~run[p].skipped /\ ~locked)
  BY <1>0, Zenon DEF Processes
<1>7. \A m \in run[p].made : m \in Labels \X Nat /\ m[2] <= birth'[m[1]] /\ (Gone(m) => Gone(m)')
  <2>1. \A m \in run[p].made : m \in Labels \X Nat
    BY <1>0, Zenon DEF Processes
  <2> QED
    BY <1>0, <1>4, <2>1, GoneStays, Zenon DEF ProcessInv
<1>8. ~r.skipped => \A m \in run[p].made, i \in 1 .. 4 :
                      i < run[p].n + 1 /\ m[1] = Label(H(p), i) => Gone(m)'
  <2> SUFFICES ASSUME ~r.skipped, NEW m \in run[p].made, NEW i \in 1 .. 4, i < run[p].n + 1,
                      m[1] = Label(H(p), i)
               PROVE  Gone(m)'
    BY Zenon
  <2>1. CASE i < run[p].n
    BY <1>0, <1>6, <1>7, <2>1, Zenon DEF ProcessInv
  <2>2. CASE i = run[p].n
    BY <1>3, <1>6, <2>2, Zenon DEF Gone
  <2> QED
    BY <1>0, <2>1, <2>2
<1> HIDE DEF r, l, st
<1>9. CASE run[p].n = 4
  <2> DEFINE d == Done(r, r.out)
  <2>0. r.out \in Outcomes
    BY <1>5, Zenon DEF Processes
  <2>1. d \in Processes /\ d.pc = "over" /\ d.made = run[p].made /\ d.skipped = r.skipped
    BY <1>5, <1>6, <2>0, DoneIs
  <2>2. Set(p, d)
    BY <1>2, <1>6, <1>9
  <2>3. run'[p] = d
    BY <2>2, Here, Zenon
  <2>4. ~d.skipped => \A m \in run[p].made : Gone(m)'
    <3>1. \A m \in run[p].made : m[1] \in EnrollLabels(H(p))
      BY <1>0, Zenon DEF ProcessInv, Keyed
    <3>2. \A i \in 1 .. 4 : i < run[p].n + 1
      BY <1>9
    <3> QED
      BY <1>8, <2>1, <3>1, <3>2, Zenon DEF EnrollLabels
  <2> HIDE DEF d
  <2>5. ProcessInv(p)'
    BY <1>7, <2>1, <2>3, <2>4 DEF ProcessInv, Holding, Keyed
  <2> QED
    BY <1>2, <1>3, <1>4, <2>1, <2>2, <2>5, Here, Moves, ZenonT(60) DEF l
<1>10. CASE run[p].n # 4
  <2> DEFINE d == [r EXCEPT !.n = @ + 1]
  <2>1. d \in Processes
    <3>1. r.n + 1 \in 0 .. 5
      BY <1>0, <1>6
    <3> QED
      BY <1>5, <3>1 DEF Processes
  <2>2. /\ d.made = run[p].made /\ d.code = run[p].code /\ d.n = run[p].n + 1 /\ d.pc = "cleanup"
        /\ d.skipped = r.skipped
    BY <1>5, <1>6 DEF Processes
  <2>3. Set(p, d)
    BY <1>2, <1>6, <1>10
  <2>4. run'[p] = d
    BY <2>3, Here, Zenon
  <2> HIDE DEF d
  <2>5. H(p)' = H(p) /\ d.n \in 1 .. 4
    BY <1>0, <1>10, <2>2, <2>4 DEF H
  <2>6. \A m \in run[p].made : m[1] \in EnrollLabels(H(p))
    BY <1>0, Zenon DEF ProcessInv, Keyed
  <2>7. ProcessInv(p)'
    BY <1>0, <1>7, <1>8, <2>2, <2>4, <2>5, <2>6 DEF ProcessInv, Holding, Keyed
  <2> QED
    BY <1>2, <1>3, <1>4, <2>1, <2>3, <2>7, Here, Moves, ZenonT(60) DEF l
<1> QED
  BY <1>9, <1>10, Zenon

\* A command that makes no keys of an enrolment and ends.
LEMMA QuitTyped ==
  ASSUME TypeOK, FailInv, StoreStep, NEW p \in Runs, NEW r \in Processes, Set(p, r),
         r.pc = "over", r.made = {}, UNCHANGED <<enr, attested, config>>, mishaps' \in Nat
  PROVE  TypeOK' /\ FailInv'
  BY Here, EndsClean, Moves, Zenon

LEMMA KilledTyped ==
  ASSUME TypeOK, FailInv, NEW p \in Runs, Killed(p)
  PROVE  TypeOK' /\ FailInv'
<1>1. UNCHANGED <<store, birth, enr, attested, config>> /\ mishaps' \in Nat /\ StoreStep
  BY StoreStays, MishapType, Zenon DEF Killed, serverVars
<1>2. CASE run[p].pc = "deleting"
  <2>0. run[p] \in Processes /\ run[p].made = {} /\ "killed_deleting" \in Outcomes
    BY <1>2, Here DEF ProcessInv, Outcomes
  <2>1. Set(p, Done(run[p], "killed_deleting"))
    BY <1>2, Zenon DEF Killed
  <2>2. /\ Done(run[p], "killed_deleting") \in Processes /\ Done(run[p], "killed_deleting").pc = "over"
        /\ Done(run[p], "killed_deleting").made = {}
    BY <2>0, DoneIs, Zenon
  <2> QED
    BY <1>1, <2>1, <2>2, QuitTyped, Zenon
<1>3. CASE run[p].pc # "deleting"
  <2>1. Set(p, Done(run[p], "killed")) /\ config' \in Handles \cup {NoHandle}
    BY <1>1, <1>3, Here, Zenon DEF Killed
  <2> QED
    BY <1>1, <2>1, EndTyped, Zenon
<1> QED
  BY <1>2, <1>3, Zenon

\* What may come of a signature: a label is one of the store's, an error an error.
LEMMA SignatureAnswers ==
  ASSUME NEW st \in Asked, NEW l \in Labels
  PROVE  ~AuthHeaders(st, l).ok => AuthHeaders(st, l).val \in Failures
<1>1. l.handle \in Handles
  BY Zenon DEF Labels
<1>2. Label(l.handle, 3) \in Labels
  BY <1>1, LabelType
<1> QED
  BY <1>2, UseAnswers, Zenon DEF AuthHeaders, RequestSignature

LEMMA SignedCommandIs ==
  ASSUME TypeOK, FailInv, NEW p \in Runs, NEW a \in Handles \cup {NoHandle},
         NEW arg \in Handles \cup {NoHandle}, SignedCommand(p, a, arg)
  PROVE  /\ UNCHANGED <<store, birth, enr, attested, config, mishaps>> /\ run[p].pc = "start"
         /\ \E new \in Processes : /\ Set(p, new) /\ new.pc = "over" /\ new.made = {}
                                   /\ new.out \in Failures \cup {"acted"}
<1> DEFINE l == ResolveLabelFor(a, arg, config, 1)
           s == IF l.ok THEN AuthHeaders(store, l.val) ELSE l
           pass == SignedCall(FALSE, "GET", 0, Verified(l.val))
           r == [run[p] EXCEPT !.asserted = a]
           out == IF pass.next = "answer" THEN "acted" ELSE pass.err
<1>0. config \in Handles \cup {NoHandle} /\ store \in Asked
  BY Here, Zenon DEF Stores, Asked
<1>1. \/ l.ok = TRUE /\ l.val \in Labels
      \/ l.ok = FALSE /\ l.val \in Failures
  <2>1. 1 \in 1 .. 4
    OBVIOUS
  <2>2. \A h \in Handles \cup {NoHandle} : h # NoHandle => Label(h, 1) \in Labels
    BY <2>1, LabelType, Zenon
  <2>3. "invalid_arguments" \in Failures /\ "identity_mismatch" \in Failures
    BY Zenon DEF Failures
  <2> QED
    BY <1>0, <2>2, <2>3, Zenon DEF ResolveLabelFor, Ok, Err
<1>2. /\ UNCHANGED <<store, birth, enr, attested, config, mishaps>> /\ run[p].pc = "start"
      /\ Set(p, IF ~s.ok THEN Done(r, s.val) ELSE [Done(r, out) EXCEPT !.did = l.val])
  BY Zenon DEF SignedCommand, serverVars
<1>3. ~s.ok => s.val \in Failures
  <2> HIDE DEF l
  <2> QED
    BY <1>0, <1>1, SignatureAnswers, Zenon
<1>4. s.ok => l.val \in Labels
  BY <1>1, Zenon
<1>5. out \in Failures \cup {"acted"}
  <2>1. Verified(l.val) \in {"ok", "401"}
    BY Zenon DEF Verified
  <2> HIDE DEF l
  <2>2. pass.next = "answer" \/ pass.err \in Failures
    BY <2>1, GetAnswers, Zenon
  <2> HIDE DEF pass
  <2> QED
    BY <2>2, Zenon
<1>6. run[p] \in Processes /\ run[p].made = {}
  BY <1>2, Here, Zenon DEF ProcessInv
<1>7. r \in Processes
  BY <1>6 DEF Processes
<1>8. r.made = {}
  BY <1>6, Zenon DEF Processes
<1>9. Failures \cup {"acted"} \subseteq Outcomes
  BY Zenon DEF Outcomes
<1> HIDE DEF l, s, pass, out, r
<1>10. ASSUME NEW o \in Failures \cup {"acted"}
       PROVE  /\ Done(r, o) \in Processes /\ Done(r, o).pc = "over" /\ Done(r, o).made = {}
              /\ Done(r, o).out = o
  BY <1>7, <1>8, <1>9, DoneIs, Zenon
<1>11. CASE ~s.ok
  <2>1. Set(p, Done(r, s.val))
    BY <1>2, <1>11
  <2> QED
    BY <1>2, <1>3, <1>10, <1>11, <2>1
<1>12. CASE s.ok
  <2> DEFINE d == [Done(r, out) EXCEPT !.did = l.val]
  <2>1. Set(p, d)
    BY <1>2, <1>12, Zenon
  <2>2. /\ Done(r, out) \in Processes /\ Done(r, out).pc = "over" /\ Done(r, out).made = {}
        /\ Done(r, out).out = out
    BY <1>5, <1>10, Zenon
  <2>3. d \in Processes
    BY <1>4, <1>12, <2>2 DEF Processes
  <2>4. d.pc = "over" /\ d.made = {} /\ d.out = out
    BY <2>2, Zenon DEF Processes
  <2> HIDE DEF d
  <2> QED
    BY <1>2, <1>5, <2>1, <2>3, <2>4, Zenon
<1> QED
  BY <1>11, <1>12, Zenon

LEMMA SignedCommandTyped ==
  ASSUME TypeOK, FailInv, NEW p \in Runs, NEW a \in Handles \cup {NoHandle},
         NEW arg \in Handles \cup {NoHandle}, SignedCommand(p, a, arg)
  PROVE  TypeOK' /\ FailInv'
<1>1. UNCHANGED <<store, birth, enr, attested, config, mishaps>> /\ mishaps' \in Nat /\ StoreStep
  BY SignedCommandIs, StoreStays, MishapType, Zenon
<1> QED
  BY <1>1, SignedCommandIs, QuitTyped, Zenon

LEMMA KeygenCommandIs ==
  ASSUME TypeOK, FailInv, NEW p \in Runs, NEW l \in Labels, KeygenCommand(p, l)
  PROVE  /\ UNCHANGED <<enr, attested, config>> /\ mishaps' \in Nat /\ StoreStep
         /\ \E out \in Failures \cup {"generated"} : Set(p, Done(run[p], out))
         /\ \/ UNCHANGED <<store, birth>>
            \/ \E k \in Labels : /\ k \notin store.keys /\ store'.keys = store.keys \cup {k}
                                 /\ birth' = [birth EXCEPT ![k] = @ + 1]
<1> DEFINE g == Generate(store, l, DefaultAlg(l.purpose))
           out == IF g.res.ok THEN "generated" ELSE g.res.val
<1>0. store \in Asked /\ store \in Stores /\ birth \in [Labels -> Nat]
  BY Here, ZenonT(60) DEF Stores, Asked
<1>1. /\ UNCHANGED <<enr, attested, config>> /\ mishaps' \in Nat /\ store' = g.store
      /\ birth' = [birth EXCEPT ![l] = IF g.res.ok THEN @ + 1 ELSE @]
      /\ Set(p, Done(run[p], out))
  BY MishapType, Zenon DEF KeygenCommand, serverVars
<1>2. \/ g.res.ok = TRUE /\ l \notin store.keys /\ g.store = [store EXCEPT !.keys = @ \cup {l}]
      \/ g.res.ok = FALSE /\ g.res.val \in Failures /\ g.store = store
  BY <1>0, GenerateAnswers, Zenon
<1>3. out \in Failures \cup {"generated"}
  <2> HIDE DEF g
  <2> QED
    BY <1>2, Zenon
<1> HIDE DEF g, out
<1>4. CASE g.res.ok = TRUE
  <2>1. l \notin store.keys /\ store' = [store EXCEPT !.keys = @ \cup {l}]
    BY <1>1, <1>2, <1>4, Zenon
  <2>2. birth' = [birth EXCEPT ![l] = @ + 1]
    BY <1>1, <1>4, Zenon
  <2>3. store' \in Stores /\ store'.keys = store.keys \cup {l}
    BY <1>0, <2>1, Zenon DEF Stores
  <2>4. birth' \in [Labels -> Nat]
    BY <1>0, <2>2
  <2> QED
    BY <1>1, <1>3, <2>1, <2>2, <2>3, <2>4, Zenon DEF StoreStep
<1>5. CASE g.res.ok = FALSE
  <2>1. store' = store /\ birth' = birth
    BY <1>0, <1>1, <1>2, <1>5
  <2> QED
    BY <1>1, <1>3, <2>1, StoreStays, Zenon
<1> QED
  BY <1>2, <1>4, <1>5, Zenon

LEMMA KeygenCommandTyped ==
  ASSUME TypeOK, FailInv, NEW p \in Runs, NEW l \in Labels, KeygenCommand(p, l)
  PROVE  TypeOK' /\ FailInv'
<1>1. run[p] \in Processes /\ run[p].made = {}
  BY Here, Zenon DEF KeygenCommand, ProcessInv
<1>2. PICK out \in Failures \cup {"generated"} : Set(p, Done(run[p], out))
  BY KeygenCommandIs, Zenon
<1>0. out \in Outcomes
  BY Zenon DEF Outcomes
<1>3. Done(run[p], out) \in Processes /\ Done(run[p], out).pc = "over" /\ Done(run[p], out).made = {}
  BY <1>0, <1>1, DoneIs, Zenon
<1> QED
  BY <1>2, <1>3, KeygenCommandIs, QuitTyped, Zenon

\* How many keys `keys delete` names: none in particular, or one (CardOne below).
OneCounted == Cardinality({}) = 0 /\ \A i \in 1 .. 4 : Cardinality({i}) = 1

LEMMA CardOnly ==
  ASSUME OneCounted, NEW only \in {{}} \cup {{i} : i \in 1 .. 4}
  PROVE  /\ Cardinality(only) \in {0, 1}
         /\ Cardinality(only) = 1 => only # {}
<1>1. CASE only = {}
  BY <1>1 DEF OneCounted
<1>2. ASSUME NEW i \in 1 .. 4, only = {i}
      PROVE  Cardinality(only) = 1 /\ only # {}
  BY <1>2, Zenon DEF OneCounted
<1> QED
  BY <1>1, <1>2, Zenon

LEMMA DeleteLess ==
  ASSUME NEW st \in Stores, NEW l, Exist(st, l)
  PROVE  Delete(st, l).store = [st EXCEPT !.keys = @ \ {l}] /\ Delete(st, l).store \in Stores
         /\ Delete(st, l).store.keys \subseteq st.keys
<1>1. Delete(st, l).store = [st EXCEPT !.keys = @ \ {l}]
  BY Zenon DEF Exist, Exists, SwExists, SeExists, SeFind, PqBlobFind, Delete, SwDelete, SeDelete,
         PqBlobDelete, Same, Ok, Err
<1> QED
  BY <1>1, Zenon DEF Stores

LEMMA KeysDeleteTyped ==
  ASSUME OneCounted, TypeOK, FailInv, NEW p \in Runs, NEW h \in Handles,
         NEW only \in {{}} \cup {{i} : i \in 1 .. 4}, NEW force \in BOOLEAN, NEW both \in BOOLEAN,
         KeysDelete(p, h, only, force, both)
  PROVE  TypeOK' /\ FailInv'
<1> DEFINE todo == IF only # {} THEN only ELSE {i \in 1 .. 4 : Exist(store, Label(h, i))}
           r == [run[p] EXCEPT !.handle = h]
           d == [r EXCEPT !.pc = "deleting", !.todo = todo, !.ask = ~force, !.n = Cardinality(only)]
<1>0. run[p] \in Processes /\ run[p].made = {}
  BY Here, Zenon DEF KeysDelete, ProcessInv
<1>1. r \in Processes
  BY <1>0 DEF Processes
<1>2. r.made = {}
  BY <1>0, Zenon DEF Processes
<1>3. /\ UNCHANGED <<store, birth, enr, attested, config>> /\ mishaps' \in Nat /\ StoreStep
      /\ \/ Set(p, Done(r, "key_not_found"))
         \/ Set(p, Done(r, "invalid_arguments"))
         \/ Set(p, d)
  BY StoreStays, MishapType, Zenon DEF KeysDelete, serverVars
<1>4. todo \in SUBSET (1 .. 4) /\ Cardinality(only) \in 0 .. 5
  <2>1. Cardinality(only) \in {0, 1}
    BY CardOnly, Zenon
  <2> QED
    BY <2>1
<1>5. d \in Processes /\ d.pc = "deleting" /\ d.made = {}
  <2> HIDE DEF r, todo
  <2>1. d \in Processes
    BY <1>1, <1>4, ZenonT(60) DEF Processes
  <2>2. d.pc = "deleting" /\ d.made = {}
    BY <1>1, <1>2 DEF Processes
  <2> QED
    BY <2>1, <2>2, Zenon
<1> HIDE DEF d, r, todo
<1>6. CASE Set(p, d)
  <2>1. run'[p] = d
    BY <1>6, Here, Zenon
  <2>2. ProcessInv(p)'
    BY <1>5, <2>1, Zenon DEF ProcessInv, Holding, Keyed
  <2> QED
    BY <1>3, <1>5, <1>6, <2>2, Here, Moves, Zenon
<1>7. ASSUME NEW out \in Outcomes, Set(p, Done(r, out))
      PROVE  TypeOK' /\ FailInv'
  <2>1. Done(r, out) \in Processes /\ Done(r, out).pc = "over" /\ Done(r, out).made = {}
    BY <1>1, <1>2, DoneIs, Zenon
  <2> QED
    BY <1>3, <1>7, <2>1, QuitTyped, Zenon
<1>8. "key_not_found" \in Outcomes /\ "invalid_arguments" \in Outcomes
  BY Zenon DEF Outcomes, Failures
<1> QED
  BY <1>3, <1>6, <1>7, <1>8, Zenon

LEMMA DeleteOneTyped ==
  ASSUME TypeOK, FailInv, NEW p \in Runs, NEW yes \in BOOLEAN, DeleteOne(p, yes)
  PROVE  TypeOK' /\ FailInv' /\ StoreStep /\ birth' = birth
<1> DEFINE i == CHOOSE k \in run[p].todo : \A j \in run[p].todo : k <= j
           l == Label(run[p].handle, i)
           r == [run[p] EXCEPT !.todo = @ \ {i}]
<1>0. /\ run[p] \in Processes /\ run[p].made = {} /\ run[p].pc = "deleting"
      /\ UNCHANGED <<birth, enr, attested, config>> /\ mishaps' \in Nat
  BY Here, MishapType, Zenon DEF DeleteOne, ProcessInv, serverVars
<1>1. r \in Processes
  BY <1>0 DEF Processes
<1>2. r.made = {} /\ r.pc = "deleting"
  BY <1>0, Zenon DEF Processes
<1>3. /\ store' = store \/ (Exist(store, l) /\ store' = Delete(store, l).store)
      /\ \/ Set(p, r)
         \/ Set(p, Done(r, "key_not_found"))
         \/ Set(p, Done(r, "deleted"))
         \/ Set(p, Done(r, "declined"))
  BY Zenon DEF DeleteOne
<1>4. store' \in Stores /\ store'.keys \subseteq store.keys
  <2>1. store \in Stores
    BY Here, Zenon
  <2> HIDE DEF l
  <2> QED
    BY <1>3, <2>1, DeleteLess, ZenonT(60)
<1>5. StoreStep
  BY <1>0, <1>4, Here, Zenon DEF StoreStep
<1> HIDE DEF r, l, i
<1>6. CASE Set(p, r)
  <2>1. run'[p] = r
    BY <1>6, Here, Zenon
  <2>2. ProcessInv(p)'
    BY <1>2, <2>1 DEF ProcessInv, Holding, Keyed
  <2> QED
    BY <1>0, <1>1, <1>5, <1>6, <2>2, Here, Moves, ZenonT(60)
<1>7. ASSUME NEW out \in {"key_not_found", "deleted", "declined"}, Set(p, Done(r, out))
      PROVE  TypeOK' /\ FailInv'
  <2>1. out \in Outcomes
    BY DEF Outcomes, Failures
  <2>2. Done(r, out) \in Processes /\ Done(r, out).pc = "over" /\ Done(r, out).made = {}
    BY <1>1, <1>2, <2>1, DoneIs, Zenon
  <2> QED
    BY <1>0, <1>5, <1>7, <2>2, QuitTyped, Zenon
<1> QED
  BY <1>0, <1>3, <1>5, <1>6, <1>7

LEMMA ServerTyped ==
  ASSUME TypeOK, FailInv, NEW c \in Codes,
         Confirm(c) \/ Attest(c) \/ (\E s \in Terminal : End(c, s))
  PROVE  TypeOK' /\ FailInv'
<1>1. UNCHANGED <<store, birth, config, run, mishaps>> /\ StoreStep
  BY StoreStays, Zenon DEF Confirm, Attest, End
<1>2. \E s \in Live \cup Terminal \cup {"completed"} : enr' = [enr EXCEPT ![c].status = s]
  <2>1. "confirmed" \in Live
    BY Zenon DEF Live
  <2> QED
    BY <2>1, Zenon DEF Confirm, Attest, End
<1>3. enr' \in [Codes -> [status : Live \cup Terminal \cup {"completed"},
                          holder : Runs \cup {Nobody}, keys : KeySets]]
  BY <1>2 DEF TypeOK
<1>4. attested' \in [Handles -> KeySets]
  <2>1. HandleOf[c] \in Handles /\ enr[c].keys \in KeySets /\ attested \in [Handles -> KeySets]
    BY EnrollAssumption, Zenon DEF TypeOK
  <2>2. attested' = attested \/ attested' = [attested EXCEPT ![HandleOf[c]] = enr[c].keys]
    BY Zenon DEF Confirm, Attest, End
  <2> QED
    BY <2>1, <2>2, Zenon
<1>5. TypeOK'
  BY <1>1, <1>3, <1>4, Zenon DEF TypeOK
<1> QED
  BY <1>1, <1>5, Bystander, Zenon DEF FailInv

LEMMA InitTyped ==
  ASSUME Init
  PROVE  TypeOK /\ FailInv
<1>1. store \in Stores
  BY EnrollAssumption DEF Init, Stores
<1>2. birth \in [Labels -> Nat]
  BY Zenon DEF Init
<1>3. enr \in [Codes -> [status : Live \cup Terminal \cup {"completed"},
                         holder : Runs \cup {Nobody}, keys : KeySets]]
  BY Zenon DEF Init, Live, KeySets
<1>4. attested \in [Handles -> KeySets]
  BY Zenon DEF Init, KeySets
<1>5. run \in [Runs -> Processes] /\ \A p \in Runs : run[p] = Fresh
  BY FreshType, Zenon DEF Init
<1>6. TypeOK
  BY <1>1, <1>2, <1>3, <1>4, <1>5, EnrollAssumption, ZenonT(60) DEF Init, TypeOK
<1>7. Fresh.pc = "start" /\ Fresh.made = {}
  BY Zenon DEF Fresh
<1>8. \A p \in Runs : ProcessInv(p)
  BY <1>5, <1>7, Zenon DEF ProcessInv, Holding, Keyed
<1> QED
  BY <1>6, <1>8, Zenon DEF FailInv

LEMMA NextTyped ==
  ASSUME OneCounted, TypeOK, FailInv, [Next]_vars
  PROVE  TypeOK' /\ FailInv'
<1>1. ASSUME NEW p \in Runs, Begin(p)
      PROVE  TypeOK' /\ FailInv'
  BY <1>1, StartTyped, SignedCommandTyped, KeygenCommandTyped, KeysDeleteTyped, Zenon DEF Begin
<1>2. ASSUME NEW p \in Runs, RunStep(p)
      PROVE  TypeOK' /\ FailInv'
  BY <1>2, JoinTyped, SubmitKeysTyped, SubmitPopTyped, PollTyped, LoadDefaultTyped, KeygenTyped,
     ProveTyped, CleanupKeysTyped, WriteDefaultConfigTyped, DeleteOneTyped, ZenonT(60) DEF RunStep
<1>3. ASSUME NEW p \in Runs, Killed(p)
      PROVE  TypeOK' /\ FailInv'
  BY <1>3, KilledTyped, Zenon
<1>4. ASSUME NEW c \in Codes, Confirm(c) \/ Attest(c) \/ (\E s \in Terminal : End(c, s))
      PROVE  TypeOK' /\ FailInv'
  BY <1>4, ServerTyped, Zenon
<1>5. CASE UNCHANGED vars
  <2>1. UNCHANGED <<store, birth, enr, attested, config, run, mishaps>>
    BY <1>5, Zenon DEF vars
  <2>2. TypeOK'
    BY <2>1, Zenon DEF TypeOK
  <2> QED
    BY <2>1, <2>2, StoreStays, Bystander, Zenon DEF FailInv
<1> QED
  BY <1>1, <1>2, <1>3, <1>4, <1>5, Zenon DEF Next

-----------------------------------------------------------------------------
(* An enrolment that succeeds. *)

\* The guardian opens at most one enrolment for a handle.
OneCodePerHandle == \A c, d \in Codes : HandleOf[c] = HandleOf[d] => c = d

\* A process that may have deleted keys with `keys delete`: one that names a single key has
\* deleted none before it says so.
Deletions == {"deleted", "declined", "killed_deleting"}
Mark(r) == (r.pc = "deleting" /\ r.n # 1) \/ r.out \in Deletions
Touched == \E q \in Runs : Mark(run[q])

\* What a process that has come this far can rely on: the submit token, its keys in the store
\* and, once it submitted them, with the server.
ReachInv(p) ==
  LET r == run[p]
  IN  /\ r.out \in Deletions => r.pc = "over"
      /\ r.pc \in Holding => enr[r.code].holder = p
      /\ r.pc \in {"config", "write"} => enr[r.code].status = "completed"
      /\ r.pc = "deleting" /\ r.n = 1 => \E i \in 1 .. 4 : r.todo = {i}
      /\ ~Touched =>
           /\ r.pc = "keygen" => \A i \in 1 .. 4 : i < r.n => Label(H(p), i) \in store.keys
           /\ r.pc \in Keyed \ {"keygen", "cleanup"} => EnrollLabels(H(p)) \subseteq store.keys
           /\ r.pc \in Keyed \ {"keygen", "submit", "cleanup"} => enr[r.code].keys = Births(H(p))

\* An account is attested with the keys of its enrolment.
AttestInv ==
  \A c \in Codes : enr[c].status = "completed" => attested[HandleOf[c]] = enr[c].keys

UseInv == AttestInv /\ \A p \in Runs : ReachInv(p)

\* The step leaves the keys of handle h, and the server's record that q relies on.
KeepsKeys(h) ==
  \A i \in 1 .. 4 : Label(h, i) \in store.keys =>
    Label(h, i) \in store'.keys /\ birth'[Label(h, i)] = birth[Label(h, i)]
KeepsRecord(q) ==
  run[q].pc \in Holding =>
    LET c == run[q].code
    IN  /\ enr'[c].holder = enr[c].holder
        /\ enr[c].status = "completed" => enr'[c].status = "completed"
        /\ run[q].pc # "submit" => enr'[c].keys = enr[c].keys

\* A new key is of a label that had none.
LEMMA BirthKeeps ==
  ASSUME TypeOK, NEW h \in Handles,
         \/ UNCHANGED <<store, birth>>
         \/ \E l \in Labels : /\ l \notin store.keys /\ store'.keys = store.keys \cup {l}
                              /\ birth' = [birth EXCEPT ![l] = @ + 1]
  PROVE  KeepsKeys(h)
<1>1. \A i \in 1 .. 4 : Label(h, i) \in Labels
  BY LabelType, Zenon
<1>2. birth \in [Labels -> Nat]
  BY Zenon DEF TypeOK
<1>3. CASE UNCHANGED <<store, birth>>
  BY <1>3, Zenon DEF KeepsKeys
<1>4. ASSUME NEW l \in Labels, l \notin store.keys, store'.keys = store.keys \cup {l},
             birth' = [birth EXCEPT ![l] = @ + 1]
      PROVE  KeepsKeys(h)
  BY <1>1, <1>2, <1>4 DEF KeepsKeys
<1> QED
  BY <1>3, <1>4, Zenon

\* A process that does not move keeps what it relies on.
LEMMA ReachStays ==
  ASSUME NEW q \in Runs, run'[q] = run[q], ReachInv(q), KeepsRecord(q), Touched => Touched',
         ~Touched' /\ run[q].pc \in Keyed => KeepsKeys(H(q))
  PROVE  ReachInv(q)'
<1> DEFINE r == run[q]
<1>1. H(q)' = H(q)
  BY DEF H
<1>2. ASSUME ~Touched', r.pc = "keygen"
      PROVE  \A i \in 1 .. 4 : i < r.n => Label(H(q), i) \in store'.keys
  BY <1>2, Zenon DEF ReachInv, KeepsKeys, Keyed
<1>3. ASSUME ~Touched', r.pc \in Keyed \ {"keygen", "cleanup"}
      PROVE  EnrollLabels(H(q)) \subseteq store'.keys
  <2>1. EnrollLabels(H(q)) \subseteq store.keys /\ KeepsKeys(H(q))
    BY <1>3, Zenon DEF ReachInv
  <2> QED
    BY <2>1, Zenon DEF EnrollLabels, KeepsKeys
<1>4. ASSUME ~Touched', r.pc \in Keyed \ {"keygen", "submit", "cleanup"}
      PROVE  enr'[r.code].keys = Births(H(q))'
  <2>1. EnrollLabels(H(q)) \subseteq store.keys /\ KeepsKeys(H(q)) /\ enr[r.code].keys = Births(H(q))
    BY <1>4, Zenon DEF ReachInv
  <2>2. \A i \in 1 .. 4 : birth'[Label(H(q), i)] = birth[Label(H(q), i)]
    BY <2>1, Zenon DEF EnrollLabels, KeepsKeys
  <2>3. Births(H(q))' = Births(H(q))
    BY <1>1, <2>2, Zenon DEF Births
  <2>4. enr'[r.code].keys = enr[r.code].keys
    BY <1>4, Zenon DEF KeepsRecord, Holding
  <2> QED
    BY <2>1, <2>3, <2>4, Zenon
<1>5. /\ r.pc \in Holding => enr'[r.code].holder = q
      /\ r.pc \in {"config", "write"} => enr'[r.code].status = "completed"
  BY Zenon DEF ReachInv, KeepsRecord, Holding, Keyed
<1>6. /\ r.out \in Deletions => r.pc = "over"
      /\ r.pc = "deleting" /\ r.n = 1 => \E i \in 1 .. 4 : r.todo = {i}
  BY Zenon DEF ReachInv
<1> QED
  BY <1>1, <1>2, <1>3, <1>4, <1>5, <1>6, ZenonT(60) DEF ReachInv

\* Two processes that hold enrolments hold different ones.
LEMMA OtherCode ==
  ASSUME UseInv, NEW p \in Runs, NEW q \in Runs, p # q, run[p].pc \in Holding, run[q].pc \in Holding
  PROVE  run[p].code # run[q].code
  BY ZenonT(60) DEF UseInv, ReachInv

\* `keys delete` is not undone.
LEMMA TouchedMoves ==
  ASSUME TypeOK, NEW p \in Runs, NEW r, Set(p, r), Mark(run[p]) => Mark(r), Touched
  PROVE  Touched'
<1>1. PICK q \in Runs : Mark(run[q])
  BY Zenon DEF Touched
<1>2. run' = [run EXCEPT ![p] = r] /\ run \in [Runs -> Processes]
  BY Zenon DEF Set, TypeOK
<1>3. CASE q = p
  <2>1. Mark(run'[p])
    BY <1>1, <1>2, <1>3
  <2> QED
    BY <2>1, Zenon DEF Touched
<1>4. CASE q # p
  <2>1. Mark(run'[q])
    BY <1>1, <1>2, <1>4, Zenon
  <2> QED
    BY <2>1, Zenon DEF Touched
<1> QED
  BY <1>3, <1>4, Zenon

LEMMA Unmarked ==
  ASSUME UseInv, NEW p \in Runs, run[p].pc \notin {"deleting", "over"}
  PROVE  ~Mark(run[p])
  BY Zenon DEF UseInv, ReachInv, Mark

\* One process moves, and the others keep what they rely on.
LEMMA UseMoves ==
  ASSUME TypeOK, UseInv, NEW p \in Runs, NEW r, Set(p, r), Mark(run[p]) => Mark(r),
         \A q \in Runs \ {p} : KeepsRecord(q) /\ (~Touched' /\ run[q].pc \in Keyed => KeepsKeys(H(q))),
         ReachInv(p)', AttestInv'
  PROVE  UseInv'
<1>1. \A q \in Runs \ {p} : run'[q] = run[q]
  BY Zenon DEF Set, TypeOK
<1>2. Touched => Touched'
  BY TouchedMoves, Zenon
<1>3. \A q \in Runs \ {p} : ReachInv(q)'
  BY <1>1, <1>2, ReachStays, Zenon DEF UseInv
<1> QED
  BY <1>3, Zenon DEF UseInv

\* A move that leaves the server, and every key there is.
LEMMA QuietMoves ==
  ASSUME TypeOK, FailInv, UseInv, NEW p \in Runs, NEW r, Set(p, r), Mark(run[p]) => Mark(r),
         UNCHANGED <<enr, attested>>, \A h \in Handles : KeepsKeys(h), ReachInv(p)'
  PROVE  UseInv'
<1>1. \A q \in Runs : KeepsRecord(q)
  BY Zenon DEF KeepsRecord
<1>2. \A q \in Runs : run[q].pc \in Keyed => KeepsKeys(H(q))
  BY Here, Zenon DEF Holding
<1>3. AttestInv'
  BY Zenon DEF UseInv, AttestInv
<1> QED
  BY <1>1, <1>2, <1>3, UseMoves, Zenon

LEMMA OverReach ==
  ASSUME NEW p \in Runs, run'[p].pc = "over"
  PROVE  ReachInv(p)'
  BY Zenon DEF ReachInv, Holding, Keyed

\* A failing enrolment still holds its token.
LEMMA FailReach ==
  ASSUME TypeOK, UseInv, NEW p \in Runs, NEW err \in Failures, run'[p] = Failed(run[p], err),
         run[p].pc \in ({"join"} \cup Holding) \ {"cleanup"},
         enr'[run[p].code].holder = enr[run[p].code].holder
  PROVE  ReachInv(p)'
<1>0. run[p] \in Processes
  BY Zenon DEF TypeOK
<1>1. CASE run[p].pc \in {"start", "join", "confirm"}
  <2>1. run'[p].pc = "over"
    BY <1>0, <1>1, FailedIs
  <2> QED
    BY <2>1, OverReach, Zenon
<1>2. CASE run[p].pc \in Keyed \ {"cleanup"}
  <2>1. run'[p].pc = "cleanup" /\ run'[p].code = run[p].code /\ run'[p].out = err
    BY <1>0, <1>2, FailedIs DEF Keyed
  <2>2. enr'[run[p].code].holder = p
    BY <1>2, Zenon DEF UseInv, ReachInv, Holding
  <2>3. err \notin Deletions
    BY Zenon DEF Failures, Deletions
  <2> QED
    BY <2>1, <2>2, <2>3, Zenon DEF ReachInv, Holding, Keyed
<1> QED
  BY <1>1, <1>2, Zenon DEF Holding

\* A process that ends or fails, leaving the server and every key there is.
LEMMA QuietEnd ==
  ASSUME TypeOK, FailInv, UseInv, NEW p \in Runs, NEW r, Set(p, r), r.pc = "over",
         run[p].pc \notin {"deleting", "over"},
         UNCHANGED <<enr, attested>>, \A h \in Handles : KeepsKeys(h)
  PROVE  UseInv'
<1>1. run'[p] = r
  BY Here, Zenon
<1> QED
  BY <1>1, OverReach, Unmarked, QuietMoves, ZenonT(60)

LEMMA QuietFailure ==
  ASSUME TypeOK, FailInv, UseInv, NEW p \in Runs, NEW err \in Failures, Set(p, Failed(run[p], err)),
         run[p].pc \in ({"join"} \cup Holding) \ {"cleanup"}, UNCHANGED <<store, birth, enr, attested>>
  PROVE  UseInv'
<1>1. run'[p] = Failed(run[p], err)
  BY Here, Zenon
<1>2. ReachInv(p)'
  BY <1>1, FailReach, Zenon
<1>3. ~Mark(run[p])
  <2>1. run[p].pc \notin {"deleting", "over"}
    BY DEF Holding, Keyed
  <2> QED
    BY <2>1, Unmarked, Zenon
<1>4. \A h \in Handles : KeepsKeys(h)
  BY BirthKeeps, Zenon
<1> QED
  BY <1>2, <1>3, <1>4, QuietMoves, ZenonT(60)

LEMMA StartReach ==
  ASSUME TypeOK, FailInv, UseInv, NEW p \in Runs, NEW a \in Handles \cup {NoHandle},
         NEW c \in Codes \cup {NoCode}, NEW locked \in BOOLEAN, Start(p, a, c, locked)
  PROVE  UseInv'
<1> DEFINE r == [run[p] EXCEPT !.code = c]
           j == [r EXCEPT !.pc = "join"]
<1>0. run[p] \in Processes /\ run[p].pc = "start" /\ run[p].out \notin Deletions
  BY Here DEF Start, UseInv, ReachInv
<1>1. r \in Processes /\ j.pc = "join" /\ j.out = run[p].out
  BY <1>0 DEF Processes
<1>2. UNCHANGED <<store, birth, enr, attested>> /\ \A h \in Handles : KeepsKeys(h)
  BY BirthKeeps, Zenon DEF Start, serverVars
<1>3. \/ \E out : Set(p, Done(r, out))
      \/ Set(p, j)
  BY Zenon DEF Start
<1>4. CASE Set(p, j)
  <2>1. run'[p] = j
    BY <1>4, Here, Zenon
  <2> HIDE DEF j
  <2>2. ReachInv(p)'
    BY <1>0, <1>1, <2>1 DEF ReachInv, Holding, Keyed
  <2>3. ~Mark(run[p])
    BY <1>0, Zenon DEF Mark
  <2> QED
    BY <1>2, <1>4, <2>2, <2>3, QuietMoves, ZenonT(60)
<1>5. ASSUME NEW out, Set(p, Done(r, out))
      PROVE  UseInv'
  <2>1. Done(r, out).pc = "over"
    BY Zenon DEF Done, Fresh
  <2>2. run[p].pc \notin {"deleting", "over"}
    BY <1>0, Zenon
  <2> HIDE DEF r
  <2> QED
    BY <1>2, <1>5, <2>1, <2>2, QuietEnd, ZenonT(60)
<1> QED
  BY <1>3, <1>4, <1>5, ZenonT(60)

\* What a process relies on after a POST.
LEMMA PostReach ==
  ASSUME TypeOK, FailInv, UseInv, NEW p \in Runs, NEW o \in Posts,
         NEW next \in {"confirm", "prove", "attest"},
         <<run[p].pc, next>> \in {<<"join", "confirm">>, <<"submit", "prove">>, <<"pop", "attest">>},
         Set(p, After(run[p], PostText(FALSE, run[p].tries, o), next)),
         UNCHANGED <<store, birth>>,
         run[p].pc # "join" => enr'[run[p].code].holder = enr[run[p].code].holder,
         run[p].pc = "join" /\ o = "ok" => enr'[run[p].code].holder = p,
         run[p].pc = "submit" /\ o = "ok" => enr'[run[p].code].keys = Births(H(p)),
         run[p].pc = "pop" => enr'[run[p].code].keys = enr[run[p].code].keys
  PROVE  ReachInv(p)' /\ ~Mark(run[p])
<1> DEFINE a == After(run[p], PostText(FALSE, run[p].tries, o), next)
<1>0. run[p] \in Processes /\ run[p].pc \in {"join", "submit", "pop"} /\ run'[p] = a
  BY Here, ZenonT(60)
<1>1. \/ o = "ok" /\ a.pc = next /\ a.code = run[p].code /\ a.out = run[p].out
      \/ a.pc = run[p].pc /\ a.code = run[p].code /\ a.n = run[p].n /\ a.out = run[p].out
      \/ \E err \in Failures : a = Failed(run[p], err)
  BY <1>0, AfterIs, Zenon
<1>2. ~Mark(run[p])
  BY <1>0, Unmarked, Zenon
<1>3. run[p].pc # "join" => run[p].pc \in Keyed \ {"keygen", "cleanup"} /\ run[p].pc \in Holding
  BY <1>0, Zenon DEF Keyed, Holding
<1> HIDE DEF a
<1>4. CASE a.code = run[p].code /\ a.out = run[p].out /\ (a.pc = run[p].pc \/ (o = "ok" /\ a.pc = next))
  <2>1. Touched => Touched'
    BY <1>2, TouchedMoves, Zenon
  <2>2. H(p)' = H(p) /\ Births(H(p))' = Births(H(p))
    BY <1>0, <1>4, Zenon DEF H, Births
  <2>3. run[p].out \notin Deletions
    BY <1>0, Zenon DEF UseInv, ReachInv
  <2>4. /\ run[p].pc # "join" => enr'[run[p].code].holder = p
        /\ ~Touched' /\ run[p].pc # "join" => EnrollLabels(H(p)) \subseteq store'.keys
        /\ ~Touched' /\ run[p].pc = "pop" => enr'[run[p].code].keys = Births(H(p))
    BY <1>0, <1>3, <2>1, Zenon DEF UseInv, ReachInv, Keyed, Holding
  <2>5. a.pc \in {"join", "confirm", "submit", "prove", "pop", "attest"}
    BY <1>0, <1>4, Zenon
  <2>6. /\ a.pc # "join" => enr'[a.code].holder = p
        /\ ~Touched' /\ a.pc \notin {"join", "confirm"} => EnrollLabels(H(p)) \subseteq store'.keys
        /\ ~Touched' /\ a.pc \in {"prove", "pop", "attest"} => enr'[a.code].keys = Births(H(p))
    BY <1>0, <1>4, <2>4, ZenonT(60)
  <2>7. ReachInv(p)'
    BY <1>0, <1>4, <2>2, <2>3, <2>5, <2>6, ZenonT(60) DEF ReachInv, Keyed, Holding
  <2> QED
    BY <1>2, <2>7, Zenon
<1>5. ASSUME NEW err \in Failures, a = Failed(run[p], err)
      PROVE  ReachInv(p)'
  <2>1. CASE run[p].pc = "join"
    <3>1. run'[p].pc = "over"
      BY <1>0, <1>5, <2>1, FailedIs
    <3> QED
      BY <3>1, OverReach, ZenonT(60)
  <2>2. CASE run[p].pc # "join"
    <3>1. run[p].pc \in ({"join"} \cup Holding) \ {"cleanup"}
      BY <1>3, <2>2, Zenon
    <3> QED
      BY <1>0, <1>5, <2>2, <3>1, FailReach, ZenonT(60)
  <2> QED
    BY <2>1, <2>2, Zenon
<1> QED
  BY <1>1, <1>2, <1>4, <1>5, ZenonT(60)

LEMMA JoinReach ==
  ASSUME TypeOK, FailInv, UseInv, NEW p \in Runs, NEW o \in Posts, Join(p, o)
  PROVE  UseInv'
<1> DEFINE c == run[p].code
<1>1. run[p].pc = "join" /\ c \in Codes
  BY Here DEF Join
<1>2. /\ enr' = enr \/ (enr[c].holder = Nobody /\ enr' = [enr EXCEPT ![c].holder = p])
      /\ o = "ok" => enr[c].holder = Nobody /\ enr' = [enr EXCEPT ![c].holder = p]
      /\ UNCHANGED <<store, birth, attested>>
  BY Zenon DEF Join
<1>3. /\ enr' \in [Codes -> [status : Live \cup Terminal \cup {"completed"},
                             holder : Runs \cup {Nobody}, keys : KeySets]]
      /\ enr \in [Codes -> [status : Live \cup Terminal \cup {"completed"},
                             holder : Runs \cup {Nobody}, keys : KeySets]]
  BY JoinTyped, Zenon DEF TypeOK
<1> HIDE DEF c
<1>4. /\ \A d \in Codes : enr'[d].status = enr[d].status /\ enr'[d].keys = enr[d].keys
      /\ \A d \in Codes : enr[d].holder # Nobody => enr'[d].holder = enr[d].holder
      /\ o = "ok" => enr'[c].holder = p
  BY <1>1, <1>2, <1>3
<1>5. \A q \in Runs : KeepsRecord(q)
  <2> SUFFICES ASSUME NEW q \in Runs, run[q].pc \in Holding
               PROVE  KeepsRecord(q)
    BY Zenon DEF KeepsRecord
  <2>1. run[q].code \in Codes /\ enr[run[q].code].holder = q /\ q # Nobody
    BY Here, EnrollAssumption, Zenon DEF UseInv, ReachInv, Nobody
  <2> QED
    BY <1>4, <2>1, Zenon DEF KeepsRecord
<1>6. AttestInv'
  BY <1>2, <1>4, Zenon DEF UseInv, AttestInv
<1>7. \A q \in Runs : run[q].pc \in Keyed => KeepsKeys(H(q))
  BY <1>2, Here, BirthKeeps, Zenon DEF Holding
<1>8. Set(p, After(run[p], PostText(FALSE, run[p].tries, o), "confirm"))
  BY ZenonT(60) DEF Join
<1>9. ReachInv(p)' /\ ~Mark(run[p])
  BY <1>1, <1>2, <1>4, <1>8, PostReach, ZenonT(60) DEF c
<1> QED
  BY <1>5, <1>6, <1>7, <1>8, <1>9, UseMoves, ZenonT(60)

\* A POST of a process that holds its enrolment changes only that enrolment's record.
LEMMA HolderMoves ==
  ASSUME TypeOK, FailInv, UseInv, NEW p \in Runs, NEW r, Set(p, r), ~Mark(run[p]), ReachInv(p)',
         run[p].pc \in Holding, UNCHANGED <<store, birth, attested>>,
         \A d \in Codes \ {run[p].code} : enr'[d] = enr[d],
         enr'[run[p].code] = enr[run[p].code]
           \/ (enr[run[p].code].status # "completed" /\ enr'[run[p].code].status # "completed")
  PROVE  UseInv'
<1>1. \A q \in Runs \ {p} : KeepsRecord(q)
  <2> SUFFICES ASSUME NEW q \in Runs, q # p, run[q].pc \in Holding
               PROVE  KeepsRecord(q)
    BY Zenon DEF KeepsRecord
  <2>1. run[q].code \in Codes \ {run[p].code}
    BY Here, OtherCode, Zenon
  <2> QED
    BY <2>1, Zenon DEF KeepsRecord
<1>2. AttestInv'
  <2> SUFFICES ASSUME NEW d \in Codes, enr'[d].status = "completed"
               PROVE  attested'[HandleOf[d]] = enr'[d].keys
    BY Zenon DEF AttestInv
  <2>1. enr'[d] = enr[d]
    BY Zenon
  <2> QED
    BY <2>1, Zenon DEF UseInv, AttestInv
<1>3. \A q \in Runs : run[q].pc \in Keyed => KeepsKeys(H(q))
  BY Here, BirthKeeps, Zenon DEF Holding
<1> QED
  BY <1>1, <1>2, <1>3, UseMoves, Zenon

LEMMA SubmitKeysReach ==
  ASSUME TypeOK, FailInv, UseInv, NEW p \in Runs, NEW o \in Posts, SubmitKeys(p, o)
  PROVE  UseInv'
<1> DEFINE c == run[p].code
<1>1. run[p].pc = "submit" /\ c \in Codes /\ run[p].pc \in Holding
  BY Here DEF SubmitKeys, Holding, Keyed
<1>2. /\ \/ enr' = enr
         \/ enr[c].status = "confirmed" /\ enr' = [enr EXCEPT ![c].keys = Births(H(p))]
      /\ o = "ok" => enr' = [enr EXCEPT ![c].keys = Births(H(p))]
      /\ UNCHANGED <<store, birth, attested>>
  BY Zenon DEF SubmitKeys
<1>3. enr \in [Codes -> [status : Live \cup Terminal \cup {"completed"},
                         holder : Runs \cup {Nobody}, keys : KeySets]]
  BY Zenon DEF TypeOK
<1> HIDE DEF c
<1>4. /\ \A d \in Codes \ {c} : enr'[d] = enr[d]
      /\ enr'[c] = enr[c] \/ (enr[c].status # "completed" /\ enr'[c].status # "completed")
      /\ enr'[c].holder = enr[c].holder
      /\ o = "ok" => enr'[c].keys = Births(H(p))
  BY <1>1, <1>2, <1>3
<1>5. Set(p, After(run[p], PostText(FALSE, run[p].tries, o), "prove"))
  BY Zenon DEF SubmitKeys
<1>6. ReachInv(p)' /\ ~Mark(run[p])
  BY <1>1, <1>2, <1>4, <1>5, PostReach, ZenonT(60) DEF c
<1> QED
  BY <1>1, <1>2, <1>4, <1>5, <1>6, HolderMoves, ZenonT(60) DEF c

LEMMA SubmitPopReach ==
  ASSUME TypeOK, FailInv, UseInv, NEW p \in Runs, NEW o \in Posts, SubmitPop(p, o)
  PROVE  UseInv'
<1> DEFINE c == run[p].code
<1>1. run[p].pc = "pop" /\ c \in Codes /\ run[p].pc \in Holding
  BY Here DEF SubmitPop, Holding, Keyed
<1>2. /\ \/ enr' = enr
         \/ enr[c].status = "confirmed" /\ enr' = [enr EXCEPT ![c].status = "keys_submitted"]
      /\ UNCHANGED <<store, birth, attested>>
  BY Zenon DEF SubmitPop
<1>3. enr \in [Codes -> [status : Live \cup Terminal \cup {"completed"},
                         holder : Runs \cup {Nobody}, keys : KeySets]]
  BY Zenon DEF TypeOK
<1> HIDE DEF c
<1>4. /\ \A d \in Codes \ {c} : enr'[d] = enr[d]
      /\ enr'[c] = enr[c] \/ (enr[c].status # "completed" /\ enr'[c].status # "completed")
      /\ enr'[c].holder = enr[c].holder /\ enr'[c].keys = enr[c].keys
  BY <1>1, <1>2, <1>3
<1>5. Set(p, After(run[p], PostText(FALSE, run[p].tries, o), "attest"))
  BY ZenonT(60) DEF SubmitPop
<1>6. ReachInv(p)' /\ ~Mark(run[p])
  BY <1>1, <1>2, <1>4, <1>5, PostReach, ZenonT(60) DEF c
<1> QED
  BY <1>1, <1>2, <1>4, <1>5, <1>6, HolderMoves, ZenonT(60) DEF c

\* The process goes on, and relies on no more than it did.
LEMMA OnwardReach ==
  ASSUME TypeOK, FailInv, UseInv, NEW p \in Runs, NEW r, Set(p, r),
         run[p].pc \in Holding, r.code = run[p].code, r.out = run[p].out,
         \/ run[p].pc = "confirm" /\ r.pc = "keygen" /\ r.n = 1
         \/ /\ <<run[p].pc, r.pc>> \in {<<"prove", "pop">>, <<"attest", "config">>, <<"config", "write">>}
            /\ r.pc = "config" => enr[run[p].code].status = "completed",
         UNCHANGED <<store, birth, enr, attested>>
  PROVE  UseInv'
<1>0. run'[p] = r /\ run[p].pc \notin {"deleting", "over"}
  BY Here DEF Holding, Keyed
<1>1. ~Mark(run[p])
  BY <1>0, Unmarked, Zenon
<1>2. Touched => Touched'
  BY <1>1, TouchedMoves, Zenon
<1>3. H(p)' = H(p) /\ Births(H(p))' = Births(H(p))
  BY <1>0, Zenon DEF H, Births
<1>4. run[p].out \notin Deletions /\ enr[run[p].code].holder = p
  BY <1>0, Zenon DEF UseInv, ReachInv
<1>5. CASE run[p].pc = "confirm" /\ r.pc = "keygen" /\ r.n = 1
  <2>1. ReachInv(p)'
    BY <1>0, <1>4, <1>5 DEF ReachInv, Keyed, Holding
  <2> QED
    BY <1>1, <2>1, BirthKeeps, QuietMoves, ZenonT(60)
<1>6. CASE /\ run[p].pc \in {"prove", "attest", "config"} /\ r.pc \in {"pop", "config", "write"}
           /\ r.pc = "write" => run[p].pc = "config"
           /\ r.pc = "config" => enr[run[p].code].status = "completed"
  <2>1. run[p].pc \in Keyed \ {"keygen", "submit", "cleanup"}
    BY <1>6, Zenon DEF Keyed
  <2>2. ~Touched' => EnrollLabels(H(p)) \subseteq store.keys /\ enr[run[p].code].keys = Births(H(p))
    BY <1>2, <2>1, Zenon DEF UseInv, ReachInv
  <2>3. r.pc \in {"config", "write"} => enr[run[p].code].status = "completed"
    BY <1>6, ZenonT(60) DEF UseInv, ReachInv
  <2>4. ReachInv(p)'
    BY <1>0, <1>3, <1>4, <1>6, <2>2, <2>3, ZenonT(60) DEF ReachInv, Keyed, Holding
  <2> QED
    BY <1>1, <2>4, BirthKeeps, QuietMoves, Zenon
<1> QED
  BY <1>5, <1>6, ZenonT(60)

LEMMA PollReach ==
  ASSUME TypeOK, FailInv, UseInv, NEW p \in Runs, PollConfirmed(p) \/ PollCompleted(p)
  PROVE  UseInv'
<1>1. /\ UNCHANGED <<store, birth, enr, attested>> /\ run[p].pc \in {"confirm", "attest"}
      /\ \/ run[p].pc = "confirm" /\ Set(p, [run[p] EXCEPT !.pc = "keygen", !.n = 1])
         \/ /\ enr[run[p].code].status = "completed" /\ run[p].pc = "attest"
            /\ Set(p, [run[p] EXCEPT !.pc = "config", !.n = 1])
         \/ \E err \in Failures : Set(p, Failed(run[p], err))
  BY PollIs, Zenon
<1>2. run[p].pc \in Holding /\ run[p].pc \in ({"join"} \cup Holding) \ {"cleanup"}
  BY <1>1, Zenon DEF Holding, Keyed
<1>3. ASSUME NEW next \in {"keygen", "config"}, Set(p, [run[p] EXCEPT !.pc = next, !.n = 1]),
             <<run[p].pc, next>> \in {<<"confirm", "keygen">>, <<"attest", "config">>},
             next = "config" => enr[run[p].code].status = "completed"
      PROVE  UseInv'
  <2> DEFINE r == [run[p] EXCEPT !.pc = next, !.n = 1]
  <2>0. run[p] \in Processes
    BY Here, Zenon
  <2>1. r.pc = next /\ r.n = 1 /\ r.code = run[p].code /\ r.out = run[p].out
    BY <2>0, Zenon DEF Processes
  <2> HIDE DEF r
  <2> QED
    BY <1>1, <1>2, <1>3, <2>1, OnwardReach, ZenonT(60) DEF r
<1>4. ASSUME NEW err \in Failures, Set(p, Failed(run[p], err))
      PROVE  UseInv'
  BY <1>1, <1>2, <1>4, QuietFailure, ZenonT(60)
<1> QED
  BY <1>1, <1>3, <1>4

LEMMA KeygenReach ==
  ASSUME TypeOK, FailInv, UseInv, NEW p \in Runs, NEW locked \in BOOLEAN, Keygen(p, locked)
  PROVE  UseInv'
<1> DEFINE l == Label(H(p), run[p].n)
<1>0. /\ run[p] \in Processes /\ run[p].pc = "keygen" /\ run[p].n \in 1 .. 4
      /\ run[p].pc \in ({"join"} \cup Holding) \ {"cleanup"} /\ l \in Labels
      /\ UNCHANGED <<enr, attested>>
  BY KeygenIs, Zenon
<1>1. \/ /\ l \notin store.keys /\ store' \in Stores /\ store'.keys = store.keys \cup {l}
         /\ birth' = [birth EXCEPT ![l] = @ + 1] /\ Set(p, MadeKey(p, l))
      \/ UNCHANGED <<store, birth>> /\ \E err \in Failures : Set(p, Failed(run[p], err))
  BY KeygenIs, Zenon
<1>2. CASE UNCHANGED <<store, birth>> /\ \E err \in Failures : Set(p, Failed(run[p], err))
  BY <1>0, <1>2, QuietFailure, ZenonT(60)
<1>3. CASE /\ l \notin store.keys /\ store' \in Stores /\ store'.keys = store.keys \cup {l}
           /\ birth' = [birth EXCEPT ![l] = @ + 1] /\ Set(p, MadeKey(p, l))
  <2> DEFINE r == MadeKey(p, l)
  <2>1. /\ r.n = run[p].n + 1 /\ r.code = run[p].code /\ r.out = run[p].out
        /\ r.pc = IF run[p].n = 4 THEN "submit" ELSE "keygen"
    BY <1>0, ZenonT(60) DEF Processes, MadeKey
  <2>2. run'[p] = r /\ ~Mark(run[p])
    BY <1>0, <1>3, Here, Unmarked, ZenonT(60)
  <2> HIDE DEF r
  <2>3. \A h \in Handles : KeepsKeys(h)
    BY <1>0, <1>3, BirthKeeps, Zenon
  <2>4. Touched => Touched'
    BY <1>3, <2>2, TouchedMoves, ZenonT(60) DEF r
  <2>5. H(p)' = H(p) /\ enr'[r.code].holder = p /\ run[p].out \notin Deletions
    BY <1>0, <2>1, <2>2, ZenonT(60) DEF H, UseInv, ReachInv, Holding
  <2>6. ~Touched' => \A i \in 1 .. 4 : i < run[p].n + 1 => Label(H(p), i) \in store'.keys
    <3> SUFFICES ASSUME ~Touched', NEW i \in 1 .. 4, i < run[p].n + 1
                 PROVE  Label(H(p), i) \in store'.keys
      BY Zenon
    <3>1. CASE i < run[p].n
      BY <1>0, <1>3, <2>4, <3>1, ZenonT(60) DEF UseInv, ReachInv
    <3>2. CASE i = run[p].n
      BY <1>3, <3>2, Zenon
    <3> QED
      BY <1>0, <3>1, <3>2
  <2>7. CASE run[p].n = 4
    <3>1. ~Touched' => EnrollLabels(H(p)) \subseteq store'.keys
      BY <2>6, <2>7 DEF EnrollLabels
    <3>2. ReachInv(p)'
      BY <2>1, <2>2, <2>5, <2>7, <3>1, ZenonT(60) DEF ReachInv, Keyed, Holding
    <3> QED
      BY <1>0, <1>3, <2>2, <2>3, <3>2, QuietMoves, ZenonT(60) DEF r
  <2>8. CASE run[p].n # 4
    <3>1. ReachInv(p)'
      BY <2>1, <2>2, <2>5, <2>6, <2>8, ZenonT(60) DEF ReachInv, Keyed, Holding
    <3> QED
      BY <1>0, <1>3, <2>2, <2>3, <3>1, QuietMoves, Zenon DEF r
  <2> QED
    BY <2>7, <2>8, Zenon
<1> QED
  BY <1>1, <1>2, <1>3, Zenon

LEMMA ProveReach ==
  ASSUME TypeOK, FailInv, UseInv, NEW p \in Runs, NEW locked \in BOOLEAN, Prove(p, locked)
  PROVE  UseInv'
<1>0. /\ run[p] \in Processes /\ run[p].pc = "prove" /\ run[p].pc \in Holding
      /\ run[p].pc \in ({"join"} \cup Holding) \ {"cleanup"}
  BY Here DEF Prove, Holding, Keyed
<1>1. /\ UNCHANGED <<store, birth, enr, attested>>
      /\ \/ Set(p, [run[p] EXCEPT !.pc = "pop"])
         \/ \E err \in Failures : Set(p, Failed(run[p], err))
  BY ProveIs, Zenon
<1>2. CASE Set(p, [run[p] EXCEPT !.pc = "pop"])
  <2> DEFINE r == [run[p] EXCEPT !.pc = "pop"]
  <2>1. r.pc = "pop" /\ r.code = run[p].code /\ r.out = run[p].out
    BY <1>0, Zenon DEF Processes
  <2> HIDE DEF r
  <2> QED
    BY <1>0, <1>1, <1>2, <2>1, OnwardReach, ZenonT(60) DEF r
<1>3. ASSUME NEW err \in Failures, Set(p, Failed(run[p], err))
      PROVE  UseInv'
  BY <1>0, <1>1, <1>3, QuietFailure, Zenon
<1> QED
  BY <1>1, <1>2, <1>3, Zenon

LEMMA LoadDefaultReach ==
  ASSUME TypeOK, FailInv, UseInv, NEW p \in Runs, LoadDefault(p)
  PROVE  UseInv'
<1>0. /\ run[p] \in Processes /\ run[p].pc = "config" /\ run[p].pc \in Holding
      /\ run[p].pc \notin {"deleting", "over"}
  BY Here, Zenon DEF LoadDefault, Holding, Keyed
<1>1. /\ UNCHANGED <<store, birth, enr, attested>>
      /\ \/ Set(p, [run[p] EXCEPT !.pc = "write"])
         \/ Set(p, Done(run[p], "enrolled"))
  BY Zenon DEF LoadDefault, serverVars
<1>2. CASE Set(p, [run[p] EXCEPT !.pc = "write"])
  <2> DEFINE r == [run[p] EXCEPT !.pc = "write"]
  <2>1. r.pc = "write" /\ r.code = run[p].code /\ r.out = run[p].out
    BY <1>0, Zenon DEF Processes
  <2> HIDE DEF r
  <2> QED
    BY <1>0, <1>1, <1>2, <2>1, OnwardReach, ZenonT(60) DEF r
<1>3. CASE Set(p, Done(run[p], "enrolled"))
  <2>1. Done(run[p], "enrolled").pc = "over"
    BY Zenon DEF Done, Fresh
  <2> QED
    BY <1>0, <1>1, <1>3, <2>1, BirthKeeps, QuietEnd, Zenon
<1> QED
  BY <1>1, <1>2, <1>3, Zenon

LEMMA WriteDefaultConfigReach ==
  ASSUME TypeOK, FailInv, UseInv, NEW p \in Runs, NEW fails \in BOOLEAN, WriteDefaultConfig(p, fails)
  PROVE  UseInv'
<1>0. /\ run[p].pc = "write" /\ run[p].pc \notin {"deleting", "over"}
      /\ run[p].pc \in ({"join"} \cup Holding) \ {"cleanup"} /\ "filesystem_error" \in Failures
  BY DEF WriteDefaultConfig, Holding, Keyed, Failures
<1>1. /\ UNCHANGED <<store, birth, enr, attested>>
      /\ \/ Set(p, Failed(run[p], "filesystem_error"))
         \/ Set(p, Done(run[p], "enrolled"))
  BY Zenon DEF WriteDefaultConfig, serverVars
<1>2. Done(run[p], "enrolled").pc = "over"
  BY Zenon DEF Done, Fresh
<1>3. CASE Set(p, Failed(run[p], "filesystem_error"))
  BY <1>0, <1>1, <1>3, QuietFailure, ZenonT(60)
<1>4. CASE Set(p, Done(run[p], "enrolled"))
  BY <1>0, <1>1, <1>2, <1>4, BirthKeeps, QuietEnd, ZenonT(60)
<1> QED
  BY <1>1, <1>3, <1>4, ZenonT(60)

\* The clean-up deletes keys of the enrolment it holds, so nobody else's.
LEMMA CleanupKeysReach ==
  ASSUME OneCodePerHandle, TypeOK, FailInv, UseInv, NEW p \in Runs, NEW locked \in BOOLEAN,
         CleanupKeys(p, locked)
  PROVE  UseInv'
<1> DEFINE r == [run[p] EXCEPT !.skipped = @ \/ locked]
           new == IF r.n = 4 THEN Done(r, r.out) ELSE [r EXCEPT !.n = @ + 1]
<1>0. /\ run[p] \in Processes /\ run[p].pc = "cleanup" /\ run[p].code \in Codes /\ run[p].pc \in Holding
      /\ run[p].n \in 1 .. 4 /\ run[p].pc \notin {"deleting", "over"}
  BY Here DEF CleanupKeys, ProcessInv, Holding, Keyed
<1>1. /\ UNCHANGED <<birth, enr, attested>> /\ Set(p, new)
      /\ store.keys \ {Label(H(p), run[p].n)} \subseteq store'.keys
  BY CleanupKeysTyped, ZenonT(60) DEF CleanupKeys, serverVars
<1>2. ~Mark(run[p]) /\ run[p].out \notin Deletions /\ enr[run[p].code].holder = p
  BY <1>0, Unmarked DEF UseInv, ReachInv
<1>3. new.pc = "over" \/ (new.pc = "cleanup" /\ new.code = run[p].code /\ new.out = run[p].out)
  <2>1. r \in Processes
    BY <1>0 DEF Processes
  <2>2. r.pc = "cleanup" /\ r.code = run[p].code /\ r.out = run[p].out
    BY <1>0, Zenon DEF Processes
  <2> HIDE DEF r
  <2>3. Done(r, r.out).pc = "over"
    BY Zenon DEF Done, Fresh
  <2>4. LET d == [r EXCEPT !.n = @ + 1] IN d.pc = "cleanup" /\ d.code = run[p].code /\ d.out = run[p].out
    BY <2>1, <2>2 DEF Processes
  <2> QED
    BY <2>3, <2>4
<1>4. run'[p] = new
  BY <1>1, Here, ZenonT(60)
<1> HIDE DEF new, r
<1>5. ReachInv(p)'
  BY <1>1, <1>2, <1>3, <1>4 DEF ReachInv, Holding, Keyed
<1>6. \A q \in Runs \ {p} : run[q].pc \in Keyed => KeepsKeys(H(q))
  <2> SUFFICES ASSUME NEW q \in Runs, q # p, run[q].pc \in Keyed
               PROVE  KeepsKeys(H(q))
    BY Zenon
  <2>1. run[q].code \in Codes /\ run[q].code # run[p].code
    BY <1>0, Here, OtherCode, ZenonT(60) DEF Holding
  <2>2. H(q) # H(p)
    BY <1>0, <2>1, Zenon DEF OneCodePerHandle, H
  <2>3. \A i \in 1 .. 4 : Label(H(q), i) # Label(H(p), run[p].n)
    BY <1>0, <2>2, LabelsDiffer, Zenon
  <2> QED
    BY <1>1, <2>3, Zenon DEF KeepsKeys
<1>7. \A q \in Runs : KeepsRecord(q)
  BY <1>1, Zenon DEF KeepsRecord
<1>8. AttestInv'
  BY <1>1, Zenon DEF UseInv, AttestInv
<1> QED
  BY <1>1, <1>2, <1>5, <1>6, <1>7, <1>8, UseMoves, ZenonT(60)

LEMMA KilledReach ==
  ASSUME TypeOK, FailInv, UseInv, NEW p \in Runs, Killed(p)
  PROVE  UseInv'
<1> DEFINE out == IF run[p].pc = "deleting" THEN "killed_deleting" ELSE "killed"
<1>1. Set(p, Done(run[p], out)) /\ UNCHANGED <<store, birth, enr, attested>> /\ run[p].pc # "over"
  BY Zenon DEF Killed, serverVars
<1>2. Done(run[p], out).pc = "over" /\ Done(run[p], out).out = out
  BY DEF Done, Fresh
<1>3. CASE run[p].pc = "deleting"
  <2>1. Mark(Done(run[p], out))
    BY <1>2, <1>3, Zenon DEF Mark, Deletions
  <2>2. ReachInv(p)'
    BY <1>1, <1>2, Here, OverReach, Zenon
  <2> HIDE DEF out
  <2> QED
    BY <1>1, <2>1, <2>2, BirthKeeps, QuietMoves, ZenonT(60)
<1>4. CASE run[p].pc # "deleting"
  <2>1. run[p].pc \notin {"deleting", "over"}
    BY <1>1, <1>4, Zenon
  <2> HIDE DEF out
  <2> QED
    BY <1>1, <1>2, <2>1, BirthKeeps, QuietEnd, ZenonT(60)
<1> QED
  BY <1>3, <1>4, Zenon

LEMMA SignedCommandReach ==
  ASSUME TypeOK, FailInv, UseInv, NEW p \in Runs, NEW a \in Handles \cup {NoHandle},
         NEW arg \in Handles \cup {NoHandle}, SignedCommand(p, a, arg)
  PROVE  UseInv'
<1>1. run[p].pc \notin {"deleting", "over"}
  BY SignedCommandIs
<1> QED
  BY <1>1, SignedCommandIs, BirthKeeps, QuietEnd, ZenonT(60)

LEMMA KeygenCommandReach ==
  ASSUME TypeOK, FailInv, UseInv, NEW p \in Runs, NEW l \in Labels, KeygenCommand(p, l)
  PROVE  UseInv'
<1>0. run[p].pc = "start" /\ run[p].pc \notin {"deleting", "over"}
  BY Zenon DEF KeygenCommand
<1>1. /\ UNCHANGED <<enr, attested>>
      /\ \E out : Set(p, Done(run[p], out))
  BY Zenon DEF KeygenCommand, serverVars
<1>2. \A out : Done(run[p], out).pc = "over"
  BY Zenon DEF Done, Fresh
<1>3. \A h \in Handles : KeepsKeys(h)
  BY KeygenCommandIs, BirthKeeps, Zenon
<1> QED
  BY <1>0, <1>1, <1>2, <1>3, QuietEnd, ZenonT(60)

LEMMA KeysDeleteReach ==
  ASSUME OneCounted, TypeOK, FailInv, UseInv, NEW p \in Runs, NEW h \in Handles,
         NEW only \in {{}} \cup {{i} : i \in 1 .. 4}, NEW force \in BOOLEAN, NEW both \in BOOLEAN,
         KeysDelete(p, h, only, force, both)
  PROVE  UseInv'
<1> DEFINE todo == IF only # {} THEN only ELSE {i \in 1 .. 4 : Exist(store, Label(h, i))}
           r == [run[p] EXCEPT !.handle = h]
           d == [r EXCEPT !.pc = "deleting", !.todo = todo, !.ask = ~force, !.n = Cardinality(only)]
<1>0. /\ run[p] \in Processes /\ run[p].pc = "start" /\ run[p].pc \notin {"deleting", "over"}
      /\ run[p].out \notin Deletions
  BY Here DEF KeysDelete, UseInv, ReachInv
<1>1. /\ UNCHANGED <<store, birth, enr, attested>>
      /\ \/ Set(p, Done(r, "key_not_found"))
         \/ Set(p, Done(r, "invalid_arguments"))
         \/ Set(p, d)
  BY Zenon DEF KeysDelete, serverVars
<1>2. \A x, out : Done(x, out).pc = "over"
  BY Zenon DEF Done, Fresh
<1>3. d.pc = "deleting" /\ d.n = Cardinality(only) /\ d.todo = todo /\ d.out = run[p].out
  <2>1. r \in Processes
    BY <1>0 DEF Processes
  <2>2. r.out = run[p].out
    BY <1>0, Zenon DEF Processes
  <2> HIDE DEF r, todo
  <2> QED
    BY <2>1, <2>2 DEF Processes
<1>4. Cardinality(only) = 1 => \E i \in 1 .. 4 : todo = {i}
  BY CardOnly, Zenon
<1> HIDE DEF d, r, todo
<1>5. CASE Set(p, d)
  <2>1. run'[p] = d
    BY <1>5, Here, ZenonT(60)
  <2>2. ReachInv(p)'
    BY <1>0, <1>3, <1>4, <2>1, ZenonT(60) DEF ReachInv, Holding, Keyed
  <2> QED
    BY <1>0, <1>1, <1>5, <2>2, Unmarked, BirthKeeps, QuietMoves, ZenonT(60)
<1>6. CASE Set(p, Done(r, "key_not_found")) \/ Set(p, Done(r, "invalid_arguments"))
  BY <1>0, <1>1, <1>2, <1>6, BirthKeeps, QuietEnd, ZenonT(60)
<1> QED
  BY <1>1, <1>5, <1>6, ZenonT(60)

\* A step of `keys delete` that removes a key is remembered: it names one key and says
\* that it deleted it, or it names all.
LEMMA DeleteOneReach ==
  ASSUME TypeOK, FailInv, UseInv, NEW p \in Runs, NEW yes \in BOOLEAN, DeleteOne(p, yes)
  PROVE  UseInv'
<1> DEFINE i == CHOOSE k \in run[p].todo : \A j \in run[p].todo : k <= j
           r == [run[p] EXCEPT !.todo = @ \ {i}]
           on == IF r.todo = {} THEN Done(r, "deleted") ELSE r
<1>0. /\ run[p] \in Processes /\ run[p].pc = "deleting" /\ run[p].out \notin Deletions
      /\ UNCHANGED <<birth, enr, attested>>
      /\ run[p].n = 1 => \E k \in 1 .. 4 : run[p].todo = {k}
  BY Here DEF DeleteOne, serverVars, UseInv, ReachInv
<1>1. \/ store' = store /\ run[p].n = 1 /\ Set(p, Done(r, "key_not_found"))
      \/ store' = store /\ run[p].n # 1 /\ Set(p, on)
      \/ store' = store /\ Set(p, Done(r, "declined"))
      \/ Set(p, on)
  BY Zenon DEF DeleteOne
<1>2. \A x, out : Done(x, out).pc = "over" /\ Done(x, out).out = out
  BY Zenon DEF Done, Fresh
<1>3. r.pc = "deleting" /\ r.n = run[p].n /\ r.out = run[p].out /\ r.todo = run[p].todo \ {i}
  BY <1>0, Zenon DEF Processes
<1>4. run[p].n = 1 => r.todo = {}
  <2>1. ASSUME NEW k \in 1 .. 4, run[p].todo = {k}
        PROVE  i = k
    BY <2>1
  <2> HIDE DEF i, r
  <2> QED
    BY <1>0, <1>3, <2>1
<1> HIDE DEF r, i
<1>5. Mark(on) /\ (on.pc = "over" \/ (on = r /\ run[p].n # 1))
  BY <1>2, <1>3, <1>4 DEF Mark, Deletions
<1>6. ASSUME NEW new, Set(p, new), store' = store, new.pc = "over", Mark(run[p]) => Mark(new)
      PROVE  UseInv'
  <2>1. run'[p] = new
    BY <1>6, Here, Zenon
  <2> QED
    BY <1>0, <1>6, <2>1, OverReach, BirthKeeps, QuietMoves, ZenonT(60)
<1>7. CASE Set(p, on)
  <2>1. run'[p] = on
    BY <1>7, Here, ZenonT(60)
  <2> HIDE DEF on
  <2>2. ReachInv(p)'
    BY <1>0, <1>3, <1>5, <2>1, ZenonT(60) DEF ReachInv, Holding, Keyed
  <2>3. Touched'
    BY <1>5, <2>1, Zenon DEF Touched
  <2>4. \A q \in Runs : KeepsRecord(q)
    BY <1>0, Zenon DEF KeepsRecord
  <2>5. AttestInv'
    BY <1>0, Zenon DEF UseInv, AttestInv
  <2> QED
    BY <1>5, <1>7, <2>2, <2>3, <2>4, <2>5, UseMoves, ZenonT(60)
<1>8. CASE store' = store /\ run[p].n = 1 /\ Set(p, Done(r, "key_not_found"))
  <2>1. ~Mark(run[p])
    BY <1>0, <1>8, Zenon DEF Mark
  <2> QED
    BY <1>2, <1>6, <1>8, <2>1, ZenonT(60)
<1>9. CASE store' = store /\ Set(p, Done(r, "declined"))
  <2>1. Mark(Done(r, "declined"))
    BY <1>2 DEF Mark, Deletions
  <2> QED
    BY <1>2, <1>6, <1>9, <2>1, ZenonT(60)
<1> QED
  BY <1>1, <1>7, <1>8, <1>9, ZenonT(60)

LEMMA ServerReach ==
  ASSUME OneCodePerHandle, TypeOK, FailInv, UseInv, NEW c \in Codes,
         Confirm(c) \/ Attest(c) \/ (\E s \in Terminal : End(c, s))
  PROVE  UseInv'
<1>1. UNCHANGED <<store, birth, run>>
  BY Zenon DEF Confirm, Attest, End
<1>2. enr \in [Codes -> [status : Live \cup Terminal \cup {"completed"},
                         holder : Runs \cup {Nobody}, keys : KeySets]]
      /\ attested \in [Handles -> KeySets]
  BY Zenon DEF TypeOK
<1>3. /\ enr[c].status # "completed"
      /\ \E s : enr' = [enr EXCEPT ![c].status = s]
      /\ \/ enr'[c].status # "completed" /\ attested' = attested
         \/ attested' = [attested EXCEPT ![HandleOf[c]] = enr[c].keys]
  <2>1. CASE Confirm(c)
    BY <1>2, <2>1, ZenonT(60) DEF Confirm
  <2>2. CASE Attest(c)
    BY <1>2, <2>2, Zenon DEF Attest
  <2>3. CASE \E s \in Terminal : End(c, s)
    BY <1>2, <2>3, ZenonT(60) DEF End, Terminal, Live
  <2> QED
    BY <2>1, <2>2, <2>3, ZenonT(60)
<1>4. /\ \A d \in Codes : enr'[d].holder = enr[d].holder /\ enr'[d].keys = enr[d].keys
      /\ \A d \in Codes \ {c} : enr'[d].status = enr[d].status
  BY <1>2, <1>3
<1>5. AttestInv'
  <2> SUFFICES ASSUME NEW d \in Codes, enr'[d].status = "completed"
               PROVE  attested'[HandleOf[d]] = enr'[d].keys
    BY Zenon DEF AttestInv
  <2>1. HandleOf[d] \in Handles /\ HandleOf[c] \in Handles
    BY EnrollAssumption, Zenon
  <2>2. CASE d = c
    BY <1>2, <1>3, <1>4, <2>1, <2>2, ZenonT(60)
  <2>3. CASE d # c
    <3>1. HandleOf[d] # HandleOf[c]
      BY <2>3, Zenon DEF OneCodePerHandle
    <3>2. attested'[HandleOf[d]] = attested[HandleOf[d]]
      BY <1>2, <1>3, <2>1, <3>1, ZenonT(60)
    <3> QED
      BY <1>4, <2>3, <3>2, ZenonT(60) DEF UseInv, AttestInv
  <2> QED
    BY <2>2, <2>3, Zenon
<1>6. \A q \in Runs : KeepsRecord(q)
  <2>1. \A q \in Runs : run[q].pc \in Holding => run[q].code \in Codes
    BY Here, Zenon
  <2>2. \A d \in Codes : enr[d].status = "completed" => enr'[d].status = "completed"
    BY <1>3, <1>4, Zenon
  <2> QED
    BY <1>4, <2>1, <2>2, ZenonT(60) DEF KeepsRecord
<1>7. \A q \in Runs : run[q].pc \in Keyed => KeepsKeys(H(q))
  BY <1>1, Here, BirthKeeps, ZenonT(60) DEF Holding
<1>8. Touched => Touched'
  BY <1>1, ZenonT(60) DEF Touched
<1> QED
  BY <1>1, <1>5, <1>6, <1>7, <1>8, ReachStays, ZenonT(60) DEF UseInv

LEMMA NextReach ==
  ASSUME OneCounted, OneCodePerHandle, TypeOK, FailInv, UseInv, [Next]_vars
  PROVE  UseInv'
<1>1. ASSUME NEW p \in Runs, Begin(p)
      PROVE  UseInv'
  BY <1>1, StartReach, SignedCommandReach, KeygenCommandReach, KeysDeleteReach, ZenonT(60) DEF Begin
<1>2. ASSUME NEW p \in Runs, RunStep(p)
      PROVE  UseInv'
  BY <1>2, JoinReach, SubmitKeysReach, SubmitPopReach, PollReach, LoadDefaultReach, KeygenReach,
     ProveReach, CleanupKeysReach, WriteDefaultConfigReach, DeleteOneReach, ZenonT(60) DEF RunStep
<1>3. ASSUME NEW p \in Runs, Killed(p)
      PROVE  UseInv'
  BY <1>3, KilledReach, Zenon
<1>4. ASSUME NEW c \in Codes, Confirm(c) \/ Attest(c) \/ (\E s \in Terminal : End(c, s))
      PROVE  UseInv'
  BY <1>4, ServerReach, Zenon
<1>5. CASE UNCHANGED vars
  <2>1. UNCHANGED <<store, birth, enr, attested, run>>
    BY <1>5, Zenon DEF vars
  <2>2. \A q \in Runs : KeepsRecord(q) /\ (run[q].pc \in Keyed => KeepsKeys(H(q)))
    BY <2>1, Here, BirthKeeps, ZenonT(60) DEF KeepsRecord, Holding
  <2>3. (Touched => Touched') /\ AttestInv'
    BY <2>1, Zenon DEF Touched, UseInv, AttestInv
  <2> QED
    BY <2>1, <2>2, <2>3, ReachStays, ZenonT(60) DEF UseInv
<1> QED
  BY <1>1, <1>2, <1>3, <1>4, <1>5, ZenonT(60) DEF Next

LEMMA InitReach ==
  ASSUME Init
  PROVE  UseInv
<1>1. \A p \in Runs : run[p].pc = "start" /\ run[p].out = "none"
  BY DEF Init, Fresh
<1>2. \A p \in Runs : ReachInv(p)
  BY <1>1, Zenon DEF ReachInv, Holding, Keyed, Deletions
<1>3. AttestInv
  BY Zenon DEF Init, AttestInv
<1> QED
  BY <1>2, <1>3, ZenonT(60) DEF UseInv

\* Success is reported from the configuration step only.
LEMMA SuccessFrom ==
  ASSUME TypeOK, FailInv, NEW p \in Runs, Begin(p) \/ RunStep(p) \/ Killed(p),
         run[p].out # "enrolled", run'[p].out = "enrolled"
  PROVE  run[p].pc \in {"config", "write"}
<1>0. run[p] \in Processes /\ "enrolled" \notin Failures
  BY Here, Zenon DEF Failures
<1>1. \A r, out : Done(r, out).out = out
  BY Zenon DEF Done, Fresh
<1>2. \A err \in Failures : Failed(run[p], err).out # "enrolled"
  BY <1>0, FailedIs
<1>3. \A err \in Failures : ~Set(p, Failed(run[p], err))
  BY <1>2, Here, Zenon
<1>4. ASSUME NEW r, NEW out, Set(p, Done(r, out))
      PROVE  out = "enrolled"
  <2>1. run'[p] = Done(r, out)
    BY <1>4, Here, Zenon
  <2> QED
    BY <1>1, <2>1
<1>5. ASSUME NEW o \in Posts, Join(p, o) \/ SubmitKeys(p, o) \/ SubmitPop(p, o)
      PROVE  FALSE
  <2>1. PICK next \in {"confirm", "prove", "attest"} :
          Set(p, After(run[p], PostText(FALSE, run[p].tries, o), next))
    BY <1>5, Zenon DEF Join, SubmitKeys, SubmitPop
  <2> DEFINE a == After(run[p], PostText(FALSE, run[p].tries, o), next)
  <2>2. a.out = run[p].out \/ \E err \in Failures : a = Failed(run[p], err)
    BY <1>0, AfterIs, Zenon
  <2>3. run'[p] = a
    BY <2>1, Here, Zenon
  <2> QED
    BY <1>2, <2>2, <2>3, ZenonT(60)
<1>6. ASSUME PollConfirmed(p) \/ PollCompleted(p)
      PROVE  FALSE
  <2>1. \E pc : Set(p, [run[p] EXCEPT !.pc = pc, !.n = 1])
    BY <1>3, <1>6, PollIs, ZenonT(60)
  <2>2. \A pc : [run[p] EXCEPT !.pc = pc, !.n = 1].out = run[p].out
    BY <1>0 DEF Processes
  <2> QED
    BY <2>1, <2>2, Here, ZenonT(60)
<1>7. ASSUME NEW locked \in BOOLEAN, Keygen(p, locked)
      PROVE  FALSE
  <2>1. \E l : Set(p, MadeKey(p, l))
    BY <1>3, <1>7, KeygenIs, ZenonT(60)
  <2>2. \A l : MadeKey(p, l).out = run[p].out
    BY <1>0 DEF Processes, MadeKey
  <2> QED
    BY <2>1, <2>2, Here, ZenonT(60)
<1>8. ASSUME NEW locked \in BOOLEAN, Prove(p, locked)
      PROVE  FALSE
  <2>1. Set(p, [run[p] EXCEPT !.pc = "pop"])
    BY <1>3, <1>8, ProveIs, ZenonT(60)
  <2>2. [run[p] EXCEPT !.pc = "pop"].out = run[p].out
    BY <1>0 DEF Processes
  <2> QED
    BY <2>1, <2>2, Here, ZenonT(60)
<1>9. ASSUME NEW locked \in BOOLEAN, CleanupKeys(p, locked)
      PROVE  FALSE
  <2> DEFINE r == [run[p] EXCEPT !.skipped = @ \/ locked]
  <2>1. r \in Processes
    BY <1>0 DEF Processes
  <2>2. r.out = run[p].out
    BY <1>0, Zenon DEF Processes
  <2>3. Set(p, Done(r, r.out)) \/ Set(p, [r EXCEPT !.n = @ + 1])
    BY <1>9, Zenon DEF CleanupKeys
  <2> HIDE DEF r
  <2>4. [r EXCEPT !.n = @ + 1].out = r.out
    BY <2>1, Zenon DEF Processes
  <2> QED
    BY <1>4, <2>2, <2>3, <2>4, Here, ZenonT(60)
<1>10. ASSUME NEW yes \in BOOLEAN, DeleteOne(p, yes)
       PROVE  FALSE
  <2> DEFINE i == CHOOSE k \in run[p].todo : \A j \in run[p].todo : k <= j
             r == [run[p] EXCEPT !.todo = @ \ {i}]
  <2>1. \/ Set(p, r)
        \/ Set(p, Done(r, "key_not_found"))
        \/ Set(p, Done(r, "deleted"))
        \/ Set(p, Done(r, "declined"))
    BY <1>10 DEF DeleteOne
  <2>2. r.out = run[p].out
    BY <1>0, Zenon DEF Processes
  <2> HIDE DEF r
  <2> QED
    BY <1>4, <2>1, <2>2, Here, ZenonT(60)
<1>11. ASSUME Begin(p)
       PROVE  FALSE
  <2>1. ASSUME NEW a \in Handles \cup {NoHandle}, NEW c \in Codes \cup {NoCode},
               NEW locked \in BOOLEAN, Start(p, a, c, locked)
        PROVE  FALSE
    <3> DEFINE r == [run[p] EXCEPT !.code = c]
    <3>1. \/ \E out \in Failures \cup {"already_enrolled"} : Set(p, Done(r, out))
          \/ Set(p, [r EXCEPT !.pc = "join"])
      BY <2>1, StartIs, Zenon
    <3>2. [r EXCEPT !.pc = "join"].out = run[p].out
      BY <1>0, Zenon DEF Processes
    <3> HIDE DEF r
    <3> QED
      BY <1>0, <1>4, <3>1, <3>2, Here, ZenonT(60)
  <2>2. ASSUME NEW a \in Handles \cup {NoHandle}, NEW arg \in Handles \cup {NoHandle},
               SignedCommand(p, a, arg)
        PROVE  FALSE
    BY <1>0, <2>2, SignedCommandIs, Here, ZenonT(60)
  <2>3. ASSUME NEW l \in Labels, KeygenCommand(p, l)
        PROVE  FALSE
    <3>1. PICK out \in Failures \cup {"generated"} : Set(p, Done(run[p], out))
      BY <2>3, KeygenCommandIs, Zenon
    <3> QED
      BY <1>0, <1>4, <3>1, Zenon
  <2>4. ASSUME NEW h \in Handles, NEW only \in {{}} \cup {{i} : i \in 1 .. 4}, NEW force \in BOOLEAN,
               NEW both \in BOOLEAN, KeysDelete(p, h, only, force, both)
        PROVE  FALSE
    <3> DEFINE r == [run[p] EXCEPT !.handle = h]
    <3>1. \/ Set(p, Done(r, "key_not_found"))
          \/ Set(p, Done(r, "invalid_arguments"))
          \/ \E todo, n : Set(p, [r EXCEPT !.pc = "deleting", !.todo = todo, !.ask = ~force, !.n = n])
      BY <2>4, Zenon DEF KeysDelete
    <3>2. r \in Processes /\ r.out = run[p].out
      BY <1>0 DEF Processes
    <3> HIDE DEF r
    <3>3. \A todo, n : [r EXCEPT !.pc = "deleting", !.todo = todo, !.ask = ~force, !.n = n].out = r.out
      BY <3>2, Zenon DEF Processes
    <3>4. ASSUME NEW todo, NEW n
          PROVE  ~Set(p, [r EXCEPT !.pc = "deleting", !.todo = todo, !.ask = ~force, !.n = n])
      <4> DEFINE d == [r EXCEPT !.pc = "deleting", !.todo = todo, !.ask = ~force, !.n = n]
      <4>1. d.out = r.out
        BY <3>3, Zenon
      <4> HIDE DEF d
      <4>2. ~Set(p, d)
        BY <3>2, <4>1, Here, ZenonT(60)
      <4> QED
        BY <4>2, Zenon DEF d
    <3> QED
      BY <1>4, <3>1, <3>4, ZenonT(60)
  <2> QED
    BY <1>11, <2>1, <2>2, <2>3, <2>4, ZenonT(60) DEF Begin
<1>12. ~Killed(p)
  BY <1>4 DEF Killed
<1>13. LoadDefault(p) \/ (\E b \in BOOLEAN : WriteDefaultConfig(p, b))
  BY <1>5, <1>6, <1>7, <1>8, <1>9, <1>10, <1>11, <1>12, ZenonT(60) DEF RunStep
<1> QED
  BY <1>13 DEF LoadDefault, WriteDefaultConfig

-----------------------------------------------------------------------------
(* The theorems. *)

Fin == INSTANCE FiniteSetTheorems

\* The library's facts are about the Cardinality of the FiniteSets module.
LEMMA CardOne == OneCounted
<1>1. \A S : Cardinality(S) = Fin!Cardinality(S)
  BY Zenon DEF Cardinality, Fin!Cardinality
<1>2. Fin!Cardinality({}) = 0 /\ \A x : Fin!Cardinality({x}) = 1
  BY Fin!FS_EmptySet, Fin!FS_Singleton, Zenon
<1> QED
  BY <1>1, <1>2, Zenon DEF OneCounted

LEMMA Invariant == Spec => [](TypeOK /\ FailInv)
<1>1. Init => TypeOK /\ FailInv
  BY InitTyped, Zenon
<1>2. (TypeOK /\ FailInv) /\ [Next]_vars => (TypeOK /\ FailInv)'
  BY NextTyped, CardOne, Zenon
<1> QED
  BY <1>1, <1>2, PTL DEF Spec

\* Types; in particular no request is sent more than 1 + MaxRetries times (http.rs).
THEOREM TypeCorrect == Spec => []TypeOK
  BY Invariant, PTL

\* However many enrolments fail and interleave with kills and `keys delete`, a failed
\* one leaves no key behind unless its clean-up met a locked store (cleanup_keys).
THEOREM CleansUp == Spec => []FailureLeavesNoKey
<1>1. FailInv => FailureLeavesNoKey
  BY Zenon DEF FailInv, ProcessInv, FailureLeavesNoKey, Gone
<1> QED
  BY <1>1, Invariant, PTL

\* With one enrolment per handle, and whatever else runs: success means that the account is
\* attested with the four keys this machine holds, unless `keys delete` ran (complete).
THEOREM Usable ==
  ASSUME OneCodePerHandle
  PROVE  Spec => EnrolledIsUsable
<1> DEFINE Good == \A p \in Runs :
             /\ run[p].out # "enrolled" /\ run'[p].out = "enrolled"
             /\ ~\E q \in Runs : \/ run[q].pc = "deleting"
                                 \/ run[q].out \in {"deleted", "declined", "killed_deleting"}
             =>
               /\ attested[H(p)] = Births(H(p))
               /\ EnrollLabels(H(p)) \subseteq store.keys
<1>1. Init => UseInv
  BY InitReach, Zenon
<1>2. (TypeOK /\ FailInv) /\ UseInv /\ [Next]_vars => UseInv'
  BY NextReach, CardOne, Zenon
<1>3. (TypeOK /\ FailInv) /\ UseInv /\ [Next]_vars => [Good]_vars
  <2> SUFFICES ASSUME TypeOK, FailInv, UseInv, Next, NEW p \in Runs,
                      run[p].out # "enrolled", run'[p].out = "enrolled",
                      ~\E q \in Runs : \/ run[q].pc = "deleting"
                                       \/ run[q].out \in {"deleted", "declined", "killed_deleting"}
               PROVE  /\ attested[H(p)] = Births(H(p))
                      /\ EnrollLabels(H(p)) \subseteq store.keys
    BY Zenon
  <2>1. ~Touched
    BY Zenon DEF Touched, Mark, Deletions
  <2>2. Begin(p) \/ RunStep(p) \/ Killed(p)
    <3>1. \A c \in Codes : Confirm(c) \/ Attest(c) \/ (\E s \in Terminal : End(c, s)) => run' = run
      BY Zenon DEF Confirm, Attest, End
    <3>2. PICK q \in Runs : Begin(q) \/ RunStep(q) \/ Killed(q)
      BY <3>1, ZenonT(60) DEF Next
    <3>3. \E r : Set(q, r)
      <4>1. CASE Begin(q)
        BY <4>1, ZenonT(60) DEF Begin, Start, SignedCommand, KeygenCommand, KeysDelete
      <4>2. CASE Killed(q)
        BY <4>2, ZenonT(60) DEF Killed
      <4>3. CASE \E o \in Posts : Join(q, o) \/ SubmitKeys(q, o) \/ SubmitPop(q, o)
        BY <4>3, ZenonT(60) DEF Join, SubmitKeys, SubmitPop
      <4>4. CASE PollConfirmed(q) \/ PollCompleted(q) \/ LoadDefault(q)
        BY <4>4, ZenonT(60) DEF PollConfirmed, PollCompleted, PollUntil, LoadDefault
      <4>5. CASE \E locked \in BOOLEAN :
                   Keygen(q, locked) \/ Prove(q, locked) \/ CleanupKeys(q, locked)
        BY <4>5, ZenonT(60) DEF Keygen, Prove, CleanupKeys
      <4>6. CASE \E b \in BOOLEAN : WriteDefaultConfig(q, b) \/ DeleteOne(q, b)
        BY <4>6, ZenonT(60) DEF WriteDefaultConfig, DeleteOne
      <4> QED
        BY <3>2, <4>1, <4>2, <4>3, <4>4, <4>5, <4>6, ZenonT(60) DEF RunStep
    <3>4. q # p => run'[p] = run[p]
      BY <3>3, ZenonT(60) DEF Set, TypeOK
    <3> QED
      BY <3>2, <3>4, ZenonT(60)
  <2>3. run[p].pc \in {"config", "write"}
    BY <2>2, SuccessFrom, Zenon
  <2>4. run[p].pc \in Keyed \ {"keygen", "submit", "cleanup"} /\ run[p].code \in Codes
    BY <2>3, Here, Zenon DEF Keyed, Holding
  <2>5. /\ EnrollLabels(H(p)) \subseteq store.keys /\ enr[run[p].code].keys = Births(H(p))
        /\ enr[run[p].code].status = "completed"
    BY <2>1, <2>3, <2>4, Zenon DEF UseInv, ReachInv
  <2> QED
    BY <2>4, <2>5, Zenon DEF UseInv, AttestInv, H
<1> QED
  BY <1>1, <1>2, <1>3, Invariant, PTL DEF Spec, EnrolledIsUsable
=============================================================================
