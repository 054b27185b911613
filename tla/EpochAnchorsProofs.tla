------------------------- MODULE EpochAnchorsProofs -------------------------
(***************************************************************************)
(* Proofs about EpochAnchors, for every number of processes, epochs, and   *)
(* every length of the bounds.                                             *)
(***************************************************************************)
EXTENDS EpochAnchors, TLAPS

FetchAny(p) == \E files \in Readable : Fetch(p, files)
BeginAny(p) == \E k \in Kinds : Begin(p, k)
Verdicts == {"legacy", "v3", "unanchored", "violation"}

\* Times and epochs are numbers, and the markers are not among them.
LEMMA Numbers ==
  /\ Epochs \subseteq Nat /\ Time \subseteq Nat /\ NoEpoch \notin Epochs /\ Never \notin Time
  /\ 1 \in Epochs /\ 0 \in Time /\ NoEpoch \in Nat /\ Never \in Int
  BY NumberAssumption DEF Epochs, Time, NoEpoch, Never

\* The times, Never among them, are integers.
LEMMA TimeInt == \A t \in Time \cup {Never} : t \in Int
  BY Numbers

\* The order of times and epochs, as the proofs use it.
LEMMA Order ==
  /\ \A a \in Int : a <= a
  /\ \A a, b \in Int : a <= b => a <= b + 1
  /\ \A a, b, c, d \in Int : a < b - d /\ b <= c => a < c - d
  /\ \A a \in Nat : a \in Int /\ 0 <= a /\ Never <= a /\ a # Never
  /\ \A k \in Epochs : k # 1 => k > 1
  BY DEF Never, Epochs

\* A time within the bound of an earlier one is within the bound of a later one.
LEMMA WithinBound ==
  \A s, n, t \in Int : s # Never /\ s <= n /\ ~PastBound(s, t) => t - n < Bound
  BY NumberAssumption DEF PastBound

\* The integers are totally ordered.
LEMMA Transitive ==
  /\ \A a, b, c \in Int : a <= b /\ b <= c => a <= c
  /\ \A a, b \in Int : a <= b /\ b <= a => a = b
  /\ \A a, b \in Int : a <= b => ~(b < a)
  /\ \A a \in Nat : a >= a
  OBVIOUS

\* The first epoch is not the second.
LEMMA OneTwo == 1 # 2 /\ 1 <= 2
  OBVIOUS

\* What a tick does to the time since a cut, or an anchoring, began.
LEMMA TickTimes ==
  /\ \A a, b \in Int : a - b < Span => (a + 1) - b <= Span
  /\ \A a, b \in Int : a - b < CutWindow => (a + 1) - b <= CutWindow
  BY NumberAssumption

\* Nothing has passed since now.
LEMMA NowTimes ==
  /\ \A a, b \in Int : a <= b => a - b <= CutWindow
  /\ \A a \in Int : a - a <= Span
  BY NumberAssumption

\* What the files do not know yet ended within their lag; what is past stays past.
LEMMA LagTimes ==
  /\ \A a, c \in Int : ~(a < c - CdnLag) => c - a < CacheAge + CdnLag
  /\ \A n \in Nat : n \in Int
  /\ \A a \in Int, c \in Nat : a <= c => a <= c + 1
  BY NumberAssumption

\* judge_epoch always answers.
LEMMA JudgeType ==
  ASSUME NEW e \in Epochs, NEW files \in FilesT, NEW m \in MemoryT, NEW t \in Time
  PROVE  JudgeEpoch(e, files, m, t) \in Verdicts
<1>1. e \in Nat /\ m.highest \in Nat
  BY Numbers, Zenon DEF MemoryT
<1>2. SoftOrHard(m.sighted[e], t) \in Verdicts
  BY Zenon DEF SoftOrHard, Verdicts
<1>3. files.read \in BOOLEAN
  BY Zenon DEF FilesT
<1> HIDE DEF SoftOrHard
<1> QED
  BY <1>1, <1>2, <1>3 DEF JudgeEpoch, Verdicts

\* An epoch that judge_epoch anchors is not one the files have ended; in epoch 2 and later
\* it is served under the one key they publish.
LEMMA JudgeAnchored ==
  ASSUME NEW e \in Epochs, NEW files \in FilesT, NEW m \in MemoryT, NEW t \in Time,
         Anchored(JudgeEpoch(e, files, m, t))
  PROVE  /\ e >= m.highest
         /\ files.read => e \notin files.ends
         /\ JudgeEpoch(e, files, m, t) = "legacy" => e = 1
         /\ JudgeEpoch(e, files, m, t) = "v3" =>
              files.read /\ e # 1 /\ e \notin MisKeyed /\ e \notin DoubleKeyed
<1>1. e \in Nat /\ m.highest \in Nat /\ e >= 1
  BY Numbers, NumberAssumption DEF MemoryT, Epochs
<1>2. files.read \in BOOLEAN
  BY Zenon DEF FilesT
<1>3. SoftOrHard(m.sighted[e], t) \notin {"legacy", "v3"}
  BY Zenon DEF SoftOrHard
<1>4. e \in files.ends => ShowsLater(files, e)
  BY <1>1 DEF ShowsLater
<1>5. Carries(files, e) /\ e # 1 => e \in files.keys
  BY <1>1 DEF Carries
<1> HIDE DEF SoftOrHard, ShowsLater, Carries
<1>6. e >= m.highest
  BY <1>1 DEF JudgeEpoch, Anchored
<1>7. CASE ~files.read
  BY <1>1, <1>2, <1>6, <1>7 DEF JudgeEpoch, Anchored
<1>8. CASE files.read
  <2>1. ~ShowsLater(files, e)
    BY <1>1, <1>3, <1>6, <1>8, Zenon DEF JudgeEpoch, Anchored
  <2> QED
    BY <1>1, <1>3, <1>4, <1>5, <1>6, <1>8, <2>1, Zenon DEF JudgeEpoch, Anchored
<1> QED
  BY <1>2, <1>7, <1>8, Zenon

\* update_state keeps the cache, and neither lowers the ratchet nor raises it to an epoch
\* that was not anchored.
LEMMA UpdateFacts ==
  ASSUME NEW m \in MemoryT, NEW e \in Epochs, NEW v \in Verdicts, NEW t \in Time
  PROVE  LET u == UpdateState(m, e, v, t)
         IN  /\ u \in MemoryT
             /\ u.cache = m.cache
             /\ u.highest >= m.highest
             /\ u.highest = m.highest \/ (Anchored(v) /\ u.highest = e)
<1>1. e \in Nat /\ m.highest \in Nat
  BY Numbers, Zenon DEF MemoryT
<1>2. CASE Anchored(v)
  <2> DEFINE s == [k \in Epochs |-> IF k > e THEN m.sighted[k] ELSE Never]
             h == IF m.highest > e THEN m.highest ELSE e
  <2>1. UpdateState(m, e, v, t) = [highest |-> h, sighted |-> s, cache |-> m.cache]
    BY <1>2, Zenon DEF UpdateState, Anchored
  <2>2. s \in [Epochs -> Time \cup {Never}]
    BY Zenon DEF MemoryT
  <2>3. h \in Epochs \cup {NoEpoch}
    BY Zenon DEF MemoryT
  <2>4. h >= m.highest /\ (h = m.highest \/ h = e)
    BY <1>1
  <2> HIDE DEF s, h
  <2> QED
    BY <1>2, <2>1, <2>2, <2>3, <2>4 DEF MemoryT
<1>3. CASE v = "unanchored"
  <2> DEFINE s == [m.sighted EXCEPT ![e] = IF @ = Never THEN t ELSE @]
  <2>1. UpdateState(m, e, v, t) = [highest |-> m.highest, sighted |-> s, cache |-> m.cache]
    BY <1>3, Zenon DEF UpdateState, MemoryT, Anchored
  <2>2. s \in [Epochs -> Time \cup {Never}]
    BY Zenon DEF MemoryT
  <2> HIDE DEF s
  <2> QED
    BY <1>1, <2>1, <2>2 DEF MemoryT
<1>4. CASE v = "violation"
  BY <1>1, <1>4 DEF UpdateState, Anchored
<1> QED
  BY <1>2, <1>3, <1>4, Zenon DEF Anchored, Verdicts

\* update_state does not lower the ratchet.
LEMMA UpdateHighest ==
  ASSUME NEW m \in MemoryT, NEW e \in Epochs, NEW v \in Verdicts, NEW t \in Time
  PROVE  /\ UpdateState(m, e, v, t) \in MemoryT
         /\ UpdateState(m, e, v, t).highest >= m.highest
         /\ \/ UpdateState(m, e, v, t).highest = m.highest
            \/ UpdateState(m, e, v, t).highest = e
  BY UpdateFacts

\* Refreshing the cache replaces the cache and nothing else.
LEMMA RefreshedFacts ==
  ASSUME NEW m \in MemoryT, NEW files \in FilesT, NEW g \in Epochs \cup {NoEpoch},
         NEW t \in Time
  PROVE  LET r == Refreshed(m, files, g, t)
         IN  /\ r \in MemoryT
             /\ r.highest = m.highest /\ r.sighted = m.sighted
             /\ ~files.read => r = m
             /\ files.read => /\ r.cache.at = t /\ r.cache.ends = files.ends
                              /\ r.cache.genesis = g
<1> DEFINE c == [at |-> t, ends |-> files.ends, keys |-> files.keys, genesis |-> g]
<1>1. c \in CacheT
  BY Zenon DEF CacheT, FilesT
<1>2. files.read => Refreshed(m, files, g, t)
                      = [highest |-> m.highest, sighted |-> m.sighted, cache |-> c]
  BY Zenon DEF Refreshed, MemoryT
<1>3. ~files.read => Refreshed(m, files, g, t) = m
  BY Zenon DEF Refreshed
<1>4. files.read \in BOOLEAN
  BY Zenon DEF FilesT
<1>5. files.read => c.at = t /\ c.ends = files.ends /\ c.genesis = g
  BY Zenon
<1> HIDE DEF c
<1> QED
  BY <1>1, <1>2, <1>3, <1>4, <1>5 DEF MemoryT

\* The same, field by field.
LEMMA RefreshedIs ==
  ASSUME NEW m \in MemoryT, NEW files \in FilesT, NEW g \in Epochs \cup {NoEpoch},
         NEW t \in Time
  PROVE  /\ Refreshed(m, files, g, t) \in MemoryT
         /\ Refreshed(m, files, g, t).highest = m.highest
  BY RefreshedFacts

\* Files that were read bring the genesis of the verdict with them.
LEMMA RefreshedGenesis ==
  ASSUME NEW m \in MemoryT, NEW files \in FilesT, NEW g \in Epochs \cup {NoEpoch},
         NEW t \in Time, files.read
  PROVE  Refreshed(m, files, g, t).cache.genesis = g
  BY RefreshedFacts

\* Files that were not change nothing.
LEMMA RefreshedNot ==
  ASSUME NEW m \in MemoryT, NEW files \in FilesT, NEW g \in Epochs \cup {NoEpoch},
         NEW t \in Time, ~files.read
  PROVE  Refreshed(m, files, g, t).cache.genesis = m.cache.genesis
  BY RefreshedFacts

\* The memory keeps its epochs and its sightings, whatever files it takes in.
LEMMA RefreshedKeeps ==
  ASSUME NEW m \in MemoryT, NEW files \in FilesT, NEW g \in Epochs \cup {NoEpoch},
         NEW t \in Time
  PROVE  /\ Refreshed(m, files, g, t) \in MemoryT
         /\ Refreshed(m, files, g, t).highest = m.highest
         /\ Refreshed(m, files, g, t).sighted = m.sighted
  BY RefreshedFacts

\* The markers are well typed.
LEMMA Defaults ==
  NoFiles \in FilesT /\ FreshMemory \in MemoryT /\ NoTmp \in [held : BOOLEAN, memory : MemoryT]
  BY Numbers, Zenon DEF NoFiles, FilesT, FreshMemory, MemoryT, NoTmp, NoCache, CacheT

\* The files a cache stands for.
LEMMA CachedType ==
  ASSUME NEW m \in MemoryT
  PROVE  CachedFiles(m) \in FilesT /\ CachedFiles(m).read /\ CachedFiles(m).ends = m.cache.ends
  BY Zenon DEF CachedFiles, FilesT, MemoryT, CacheT

\* What a read of the files returns is well typed.
LEMMA ReadableType ==
  ASSUME NEW files \in Readable
  PROVE  files \in FilesT
<1>1. CASE files = NoFiles
  BY <1>1, Defaults, Zenon
<1>2. CASE files # NoFiles
  <2>1. PICK r, k \in clock - CdnLag .. clock :
          files = [read |-> TRUE, ends |-> Lines(endAt, r), keys |-> Lines(keyAt, k)]
    BY <1>2 DEF Readable
  <2>2. Lines(endAt, r) \subseteq Epochs /\ Lines(keyAt, k) \subseteq Epochs
    BY Zenon DEF Lines
  <2> QED
    BY <2>1, <2>2, Zenon DEF FilesT
<1> QED
  BY <1>1, <1>2, Zenon


\* From reading server-info on, a process has an epoch; a verdict waiting for its genesis
\* is V3, on files that were read; a write or an owner's watch asks only when anchored.
PhaseInv ==
  \A p \in Procs :
    /\ pc[p] \in {"load", "fetch", "genesis", "save", "rename", "use", "ask"} =>
         served[p] \in Epochs
    /\ pc[p] = "genesis" => verdict[p] = "v3" /\ shown[p].read
    /\ pc[p] = "ask" /\ kind[p] \in {"write", "self"} => Anchored(verdict[p])

\* The initial states are well typed.
LEMMA InitTypeOK == Init => TypeOK /\ PhaseInv
<1> SUFFICES ASSUME Init PROVE TypeOK /\ PhaseInv
  BY Zenon
<1>1. 0 \in 0 .. Retries /\ 0 \in Time /\ 1 \in Epochs
  BY NumberAssumption DEF Time, Epochs
<1>2. PhaseInv
  BY Zenon DEF Init, PhaseInv
<1> QED
  BY <1>1, <1>2, Defaults, Zenon DEF Init, TypeOK

\* Every step keeps the types.
LEMMA NextTypeOK ==
  TypeOK /\ PhaseInv /\ [Next]_vars => TypeOK'
<1> SUFFICES ASSUME TypeOK, PhaseInv, [Next]_vars PROVE TypeOK'
  BY Zenon
<1> USE DEF TypeOK
<1>1. CASE Tick
  BY <1>1, NumberAssumption DEF Tick, disk, local, Time
<1>2. CASE PublishEnd
  BY <1>2, Zenon DEF PublishEnd, world, disk, local
<1>3. CASE PublishKey
  BY <1>3, Zenon DEF PublishKey, world, disk, local
<1>4. CASE Serve
  BY <1>4, NumberAssumption DEF Serve, disk, local, Epochs
<1>5. CASE UNCHANGED vars
  BY <1>5, Zenon DEF vars, world, disk, local
<1>6. ASSUME NEW p \in Procs, Step(p) \/ Exit(p) \/ BeginAny(p) PROVE TypeOK'
  <2>1. CASE ReadBundle(p)
    BY <2>1, Zenon DEF ReadBundle, world, disk, local
  <2>2. CASE ReadInfo(p)
    BY <2>2, Zenon DEF ReadInfo, world, disk, local
  <2>3. CASE Load(p)
    <3>0. served[p] \in Epochs /\ clock \in Time /\ file \in MemoryT /\ 0 \in 0 .. Retries
      BY <2>3, NumberAssumption DEF Load, PhaseInv
    <3>1. CASE kind[p] = "write" /\ CacheAnswers(file, served[p], clock)
      <4> DEFINE v == JudgeEpoch(served[p], CachedFiles(file), file, clock)
      <4>1. v \in Verdicts /\ CachedFiles(file) \in FilesT
        BY <3>0, JudgeType, CachedType, Zenon
      <4>2. UpdateState(file, served[p], v, clock) \in MemoryT
        BY <3>0, <4>1, UpdateFacts, Zenon
      <4>3. /\ verdict' = [verdict EXCEPT ![p] = v] /\ shown' = [shown EXCEPT ![p] = CachedFiles(file)]
            /\ st' = [st EXCEPT ![p] = UpdateState(file, served[p], v, clock)]
            /\ pc' = [pc EXCEPT ![p] = "save"]
        BY <2>3, <3>1, Zenon DEF Load
      <4> HIDE DEF v
      <4> QED
        BY <2>3, <3>0, <4>1, <4>2, <4>3, Zenon DEF Load, Verdicts, world, disk
    <3>2. CASE ~(kind[p] = "write" /\ CacheAnswers(file, served[p], clock))
      <4>1. /\ st' = [st EXCEPT ![p] = file] /\ pc' = [pc EXCEPT ![p] = "fetch"]
            /\ UNCHANGED <<verdict, shown>>
        BY <2>3, <3>2, Zenon DEF Load
      <4>2. now' = [now EXCEPT ![p] = clock] /\ tries' = [tries EXCEPT ![p] = 0]
            /\ UNCHANGED <<world, disk, kind, attempt, bundle, served, answers, result, noted>>
        BY <2>3, Zenon DEF Load
      <4> QED
        BY <3>0, <4>1, <4>2, ZenonT(60) DEF world, disk
    <3> QED
      BY <3>1, <3>2, Zenon
  <2>4. CASE FetchAny(p)
    <3>1. PICK files \in Readable : Fetch(p, files)
      BY <2>4, Zenon DEF FetchAny
    <3> DEFINE v == JudgeEpoch(served[p], files, st[p], now[p])
    <3>2. files \in FilesT /\ served[p] \in Epochs /\ v \in Verdicts
      BY <3>1, ReadableType, JudgeType, Zenon DEF Fetch, PhaseInv
    <3>9. st[p] \in MemoryT /\ now[p] \in Time /\ NoEpoch \in Epochs \cup {NoEpoch}
      BY Zenon
    <3>10. Refreshed(st[p], files, NoEpoch, now[p]) \in MemoryT
      BY <3>2, <3>9, RefreshedFacts, Zenon
    <3>3. UpdateState(Refreshed(st[p], files, NoEpoch, now[p]), served[p], v, now[p]) \in MemoryT
      BY <3>2, <3>9, <3>10, UpdateFacts, Zenon
    <3>4. tries[p] < Retries => tries[p] + 1 \in 0 .. Retries
      BY NumberAssumption
    <3>5. st' \in [Procs -> MemoryT]
      BY <3>1, <3>3 DEF Fetch
    <3>6. tries' \in [Procs -> 0 .. Retries]
      BY <3>1, <3>4, Zenon DEF Fetch
    <3>7. verdict' = [verdict EXCEPT ![p] = v] /\ shown' = [shown EXCEPT ![p] = files]
      BY <3>1, Zenon DEF Fetch
    <3>8. pc' \in [Procs -> {"idle", "bundle", "info", "load", "fetch", "genesis", "save",
                         "rename", "use", "ask", "done"}]
      BY <3>1 DEF Fetch
    <3> HIDE DEF v
    <3> QED
      BY <3>1, <3>2, <3>5, <3>6, <3>7, <3>8 DEF Fetch, Verdicts, world, disk
  <2>5. CASE Genesis(p)
    <3> DEFINE good == served[p] \notin BadGenesis
               v == IF good THEN "v3" ELSE "violation"
               g == IF good THEN served[p] ELSE NoEpoch
    <3>1. served[p] \in Epochs /\ v \in Verdicts /\ g \in Epochs \cup {NoEpoch}
      BY <2>5, Zenon DEF Genesis, PhaseInv, Verdicts
    <3>9. st[p] \in MemoryT /\ now[p] \in Time /\ shown[p] \in FilesT
      BY Zenon
    <3>10. Refreshed(st[p], shown[p], g, now[p]) \in MemoryT
      BY <3>1, <3>9, RefreshedFacts, Zenon
    <3>2. UpdateState(Refreshed(st[p], shown[p], g, now[p]), served[p], v, now[p]) \in MemoryT
      BY <3>1, <3>9, <3>10, UpdateFacts, Zenon
    <3>3. /\ verdict' = [verdict EXCEPT ![p] = v] /\ pc' = [pc EXCEPT ![p] = "save"]
          /\ st' = [st EXCEPT ![p] = UpdateState(Refreshed(@, shown[p], g, now[p]), served[p],
                                                 v, now[p])]
      BY <2>5, Zenon DEF Genesis
    <3> HIDE DEF v, g
    <3> QED
      BY <2>5, <3>1, <3>2, <3>3 DEF Genesis, Verdicts, world, disk
  <2>0. ASSUME NEW r, r \in {"ok", "retired", "unanchored", "epoch_changed", "failed", "violation"},
               End(p, r) \/ OnceMore(p, r) \/ (\E e \in Epochs \cup {NoEpoch} : EndOn(p, e, r)),
               UNCHANGED <<world, disk, kind, bundle, served, now, st, shown, tries, verdict, noted>>
        PROVE  TypeOK'
    <3>1. UNCHANGED <<clock, serving, endAt, keyAt, file, tmp>>
      BY <2>0, Zenon DEF world, disk
    <3>2. CASE End(p, r)
      BY <2>0, <3>1, <3>2, ZenonT(60) DEF End, Close
    <3>3. CASE OnceMore(p, r)
      <4>1. attempt' \in [Procs -> {1, 2}]
        <5>1. UNCHANGED attempt \/ attempt' = [attempt EXCEPT ![p] = 2]
          BY <3>3, Zenon DEF OnceMore, End, Close
        <5> QED
          BY <5>1
      <4>6. answers' \in [Procs -> SUBSET (Epochs \cup {NoEpoch})]
        <5>1. UNCHANGED answers \/ answers' = [answers EXCEPT ![p] = {}]
          BY <3>3, Zenon DEF OnceMore, End
        <5> QED
          BY <5>1
      <4>2. PICK x \in {"bundle", "info", "done"} : pc' = [pc EXCEPT ![p] = x]
        BY <3>3, Zenon DEF OnceMore, End, Close, FirstStep
      <4>3. pc' \in [Procs -> {"idle", "bundle", "info", "load", "fetch", "genesis", "save",
                         "rename", "use", "ask", "done"}]
        BY <4>2, Zenon
      <4>4. UNCHANGED result \/ result' = [result EXCEPT ![p] = r]
        BY <3>3, Zenon DEF OnceMore, End, Close
      <4>5. result' \in [Procs -> {"none", "ok", "retired", "unanchored", "epoch_changed",
                           "failed", "violation"}]
        BY <2>0, <4>4, Zenon
      <4> QED
        BY <2>0, <3>1, <4>1, <4>3, <4>5, <4>6, ZenonT(60)
    <3>4. CASE \E e \in Epochs \cup {NoEpoch} : EndOn(p, e, r)
      <4>1. PICK e \in Epochs \cup {NoEpoch} : EndOn(p, e, r)
        BY <3>4, Zenon
      <4>2. answers' \in [Procs -> SUBSET (Epochs \cup {NoEpoch})]
        BY <4>1, ZenonT(60) DEF EndOn, Answer
      <4> QED
        BY <2>0, <3>1, <4>1, <4>2, ZenonT(60) DEF EndOn, Close
    <3> QED
      BY <2>0, <3>2, <3>3, <3>4, Zenon
  <2>6. CASE GenesisUnread(p)
    <3>1. \E r \in {"epoch_changed", "failed"} : End(p, r) \/ OnceMore(p, r)
      BY <2>6, Zenon DEF GenesisUnread
    <3> QED
      BY <2>0, <2>6, <3>1, ZenonT(60) DEF GenesisUnread
  <2>7. CASE WriteTmp(p)
    BY <2>7, Zenon DEF WriteTmp, world, disk, local
  <2>8. CASE Rename(p)
    <3>1. PhaseInv /\ noted' \in [Epochs -> Time \cup {Never}]
      BY <2>8, Zenon DEF Rename
    <3>2. file' \in MemoryT /\ tmp' \in [held : BOOLEAN, memory : MemoryT]
      BY <2>8, Defaults, Zenon DEF Rename
    <3> QED
      BY <2>8, <3>1, <3>2, Zenon DEF Rename, world, local
  <2>9. CASE SaveFails(p)
    BY <2>9, Zenon DEF SaveFails, world, disk, local
  <2>10. CASE Use(p)
    <3>1. UNCHANGED <<world, disk, kind, bundle, served, now, st, shown, tries, verdict, noted>>
      BY <2>10, Zenon DEF Use
    <3>2. CASE pc' = [pc EXCEPT ![p] = "ask"] /\ UNCHANGED <<attempt, answers, result>>
      BY <3>1, <3>2, ZenonT(60) DEF world, disk
    <3>3. CASE \E r \in {"violation", "unanchored"} : End(p, r) \/ OnceMore(p, r)
      BY <2>0, <3>1, <3>3, ZenonT(60)
    <3> QED
      BY <2>10, <3>2, <3>3, Zenon DEF Use
  <2>11. CASE ReceiptRead(p) \/ RangeRead(p) \/ ProofRead(p) \/ AttestationRead(p)
              \/ ResponseRead(p) \/ ReadFails(p)
    <3>1. UNCHANGED <<world, disk, kind, bundle, served, now, st, shown, tries, verdict, noted>>
      BY <2>11, Zenon DEF ReceiptRead, RangeRead, ProofRead, AttestationRead, ResponseRead, ReadFails
    <3>2. CASE Answer(p, serving) /\ UNCHANGED <<pc, attempt, result>>
      <4>1. answers' \in [Procs -> SUBSET (Epochs \cup {NoEpoch})]
        BY <3>2, ZenonT(60) DEF Answer
      <4> QED
        BY <3>1, <3>2, <4>1, ZenonT(60) DEF world, disk
    <3>3. CASE \E r \in {"ok", "retired", "unanchored", "epoch_changed", "failed", "violation"} :
                 End(p, r) \/ OnceMore(p, r) \/ (\E e \in Epochs \cup {NoEpoch} : EndOn(p, e, r))
      <4>1. PICK r \in {"ok", "retired", "unanchored", "epoch_changed", "failed", "violation"} :
                 End(p, r) \/ OnceMore(p, r) \/ (\E e \in Epochs \cup {NoEpoch} : EndOn(p, e, r))
        BY <3>3, Zenon
      <4> HIDE DEF TypeOK
      <4> QED
        BY <2>0, <3>1, <4>1, ZenonT(60)
    <3>4. serving \in Epochs \cup {NoEpoch} /\ NoEpoch \in Epochs \cup {NoEpoch}
      BY Zenon
    <3> HIDE DEF TypeOK
    <3> QED
      BY <2>11, <3>2, <3>3, <3>4, ZenonT(60) DEF ReceiptRead, RangeRead, ProofRead, AttestationRead,
           ResponseRead, ReadFails, AskRefused, Attested
  <2>16. CASE Exit(p)
    <3>1. 0 \in Time /\ 0 \in 0 .. Retries /\ FreshMemory \in MemoryT /\ NoFiles \in FilesT
      BY NumberAssumption, Defaults DEF Time
    <3> QED
      BY <2>16, <3>1, Zenon DEF Exit, world, disk
  <2>17. CASE BeginAny(p)
    BY <2>17 DEF BeginAny, Begin, FirstStep, world, disk, local
  <2> HIDE DEF TypeOK
  <2> QED
    BY <1>6, <2>1, <2>2, <2>3, <2>4, <2>5, <2>6, <2>7, <2>8, <2>9, <2>10, <2>11, <2>16, <2>17, Zenon DEF Step, FetchAny
<1> HIDE DEF TypeOK
<1> QED
  BY <1>1, <1>2, <1>3, <1>4, <1>5, <1>6, Zenon DEF Next, World, BeginAny

\* Every step keeps the phases.
LEMMA NextPhase ==
  TypeOK /\ PhaseInv /\ [Next]_vars => PhaseInv'
<1> SUFFICES ASSUME TypeOK, PhaseInv, [Next]_vars PROVE PhaseInv'
  BY Zenon
<1> USE DEF PhaseInv
<1>1. CASE Tick
  BY <1>1, Zenon DEF Tick, world, disk, local, TypeOK
<1>2. CASE PublishEnd
  BY <1>2, Zenon DEF PublishEnd, world, disk, local, TypeOK
<1>3. CASE PublishKey
  BY <1>3, Zenon DEF PublishKey, world, disk, local, TypeOK
<1>4. CASE Serve
  BY <1>4, Zenon DEF Serve, world, disk, local, TypeOK
<1>5. CASE UNCHANGED vars
  BY <1>5, Zenon DEF vars, world, disk, local, TypeOK
<1>6. ASSUME NEW p \in Procs, Step(p) \/ Exit(p) \/ BeginAny(p) PROVE PhaseInv'
  <2>1. CASE ReadBundle(p)
    BY <2>1, ZenonT(60) DEF ReadBundle, world, disk, local, TypeOK
  <2>2. CASE ReadInfo(p)
    BY <2>2 DEF ReadInfo, world, disk, local, TypeOK
  <2>3. CASE Load(p)
    <3>1. served[p] \in Epochs
      BY <2>3, Zenon DEF Load, PhaseInv
    <3>2. pc' = [pc EXCEPT ![p] = pc'[p]] /\ pc'[p] \in {"save", "fetch"}
      BY <2>3, ZenonT(60) DEF Load, TypeOK
    <3>3. \A q \in Procs : q # p => verdict'[q] = verdict[q] /\ shown'[q] = shown[q]
      BY <2>3 DEF Load, TypeOK
    <3> QED
      BY <2>3, <3>1, <3>2, <3>3 DEF Load, PhaseInv, TypeOK
  <2>4. CASE FetchAny(p)
    <3>1. PICK files \in Readable : Fetch(p, files)
      BY <2>4, Zenon DEF FetchAny
    <3> DEFINE v == JudgeEpoch(served[p], files, st[p], now[p])
    <3>2. files \in FilesT /\ served[p] \in Epochs
      BY <3>1, ReadableType, Zenon DEF Fetch, PhaseInv
    <3>3. v = "v3" => files.read
      BY <3>2, JudgeAnchored DEF TypeOK, Anchored
    <3>4. verdict' = [verdict EXCEPT ![p] = v] /\ shown' = [shown EXCEPT ![p] = files]
      BY <3>1, Zenon DEF Fetch
    <3>5. /\ \A q \in Procs : q # p => pc'[q] = pc[q]
          /\ pc'[p] \in {"fetch", "genesis", "save"} /\ (pc'[p] = "genesis" => v = "v3")
      BY <3>1 DEF Fetch, TypeOK
    <3>6. pc[p] = "fetch" /\ served' = served /\ kind' = kind
      BY <3>1, Zenon DEF Fetch
    <3> HIDE DEF v
    <3> QED
      BY <3>2, <3>3, <3>4, <3>5, <3>6 DEF TypeOK, PhaseInv
  <2>5. CASE Genesis(p)
    <3>1. pc[p] = "genesis" /\ served' = served /\ kind' = kind /\ shown' = shown
          /\ pc' = [pc EXCEPT ![p] = "save"]
      BY <2>5, Zenon DEF Genesis
    <3>2. \A q \in Procs : q # p => verdict'[q] = verdict[q]
      BY <2>5, Zenon DEF Genesis, TypeOK
    <3> QED
      BY <3>1, <3>2 DEF TypeOK, PhaseInv
  <2>6. CASE GenesisUnread(p)
    BY <2>6 DEF GenesisUnread, OnceMore, End, Close, FirstStep, world, disk, local, TypeOK
  <2>7. CASE WriteTmp(p)
    BY <2>7, Zenon DEF WriteTmp, world, disk, local, TypeOK
  <2>8. CASE Rename(p)
    BY <2>8, Zenon DEF Rename, world, disk, local, TypeOK
  <2>9. CASE SaveFails(p)
    BY <2>9, ZenonT(60) DEF SaveFails, world, disk, local, TypeOK
  <2>10. CASE Use(p)
    <3>1. pc[p] = "use" /\ UNCHANGED <<served, kind, shown, verdict>>
      BY <2>10, Zenon DEF Use
    <3>2. CASE Refused(p)
      BY <2>10, <3>1, <3>2 DEF Use, End, Close, TypeOK
    <3>3. CASE ~Refused(p) /\ BundleStale(p)
      <4>1. OnceMore(p, "violation")
        BY <2>10, <3>3, Zenon DEF Use
      <4>2. pc'[p] \in {"bundle", "info", "done"} /\ pc' = [pc EXCEPT ![p] = pc'[p]]
        BY <4>1 DEF OnceMore, End, Close, FirstStep, TypeOK
      <4> QED
        BY <3>1, <4>2 DEF TypeOK
    <3>4. CASE ~Refused(p) /\ ~BundleStale(p)
      <4>1. pc' = [pc EXCEPT ![p] = "ask"]
        BY <2>10, <3>4, Zenon DEF Use
      <4>2. kind[p] \in {"write", "self"} => Anchored(verdict[p])
        BY <3>4, Zenon DEF Refused, Anchored
      <4> QED
        BY <3>1, <4>1, <4>2, ZenonT(60) DEF TypeOK
    <3> QED
      BY <3>2, <3>3, <3>4, Zenon
  <2>11. CASE ReceiptRead(p) \/ RangeRead(p) \/ ProofRead(p) \/ AttestationRead(p)
              \/ ResponseRead(p) \/ ReadFails(p)
    <3>1. UNCHANGED <<served, kind, shown, verdict>>
      BY <2>11, Zenon DEF ReceiptRead, RangeRead, ProofRead, AttestationRead, ResponseRead, ReadFails
    <3>2. CASE UNCHANGED pc
      BY <3>1, <3>2, Zenon
    <3>3. ASSUME NEW r, End(p, r) \/ OnceMore(p, r) \/ (\E e : EndOn(p, e, r)) PROVE PhaseInv'
      <4>1. PICK x \in {"bundle", "info", "done"} : pc' = [pc EXCEPT ![p] = x]
        BY <3>3, Zenon DEF End, OnceMore, EndOn, Close, FirstStep
      <4> QED
        BY <3>1, <4>1, ZenonT(60) DEF TypeOK
    <3> QED
      BY <2>11, <3>2, <3>3, ZenonT(60) DEF ReceiptRead, RangeRead, ProofRead, AttestationRead,
           ResponseRead, ReadFails, AskRefused, Attested
  <2>16. CASE Exit(p)
    BY <2>16 DEF Exit, world, disk, local, TypeOK
  <2>17. CASE BeginAny(p)
    BY <2>17 DEF BeginAny, Begin, FirstStep, world, disk, local, TypeOK
  <2> HIDE DEF PhaseInv
  <2> QED
    BY <1>6, <2>1, <2>2, <2>3, <2>4, <2>5, <2>6, <2>7, <2>8, <2>9, <2>10, <2>11, <2>16, <2>17, Zenon DEF Step, FetchAny
<1> HIDE DEF PhaseInv
<1> QED
  BY <1>1, <1>2, <1>3, <1>4, <1>5, <1>6, Zenon DEF Next, World, BeginAny

\* The memory of an origin names no epoch that the public files do not stand behind.
Good(m) == m.highest \notin Unpublished /\ m.cache.genesis \notin BadGenesis

\* No memory, wherever it is kept, records an unpublished epoch, and a process past its
\* judgement has anchored a published one.
PublishedInv ==
  /\ Good(file) /\ Good(tmp.memory)
  /\ \A p \in Procs :
       /\ Good(st[p])
       /\ pc[p] = "genesis" => served[p] \notin MisKeyed \cup DoubleKeyed
       /\ pc[p] \in {"save", "rename", "use", "ask"} /\ Anchored(verdict[p]) =>
            served[p] \notin Unpublished
       /\ result[p] = "ok" => pc[p] = "done" /\ served[p] \notin Unpublished

\* A memory with nothing in it is good.
LEMMA FreshGood == Good(FreshMemory) /\ Good(NoTmp.memory)
<1>1. NoEpoch \notin Unpublished /\ NoEpoch \notin BadGenesis
  BY EpochAssumption, Numbers, Zenon DEF Unpublished, Epochs
<1> QED
  BY <1>1, Zenon DEF Good, FreshMemory, NoCache, NoTmp


\* Recording the judgement of a published epoch leaves a good memory good.
LEMMA GoodUpdate ==
  ASSUME NEW m \in MemoryT, NEW e \in Epochs, NEW v \in Verdicts, NEW t \in Time,
         Good(m), Anchored(v) => e \notin Unpublished
  PROVE  Good(UpdateState(m, e, v, t))
<1> DEFINE u == UpdateState(m, e, v, t)
<1>1. u.cache = m.cache /\ (u.highest = m.highest \/ (Anchored(v) /\ u.highest = e))
  BY UpdateFacts
<1> HIDE DEF u
<1>2. Good(u)
  BY <1>1, Zenon DEF Good
<1> QED
  BY <1>2, Zenon DEF u

\* What a good memory's cache answers for is a published epoch.
LEMMA CachePublished ==
  ASSUME NEW m \in MemoryT, NEW e \in Epochs, NEW t \in Time, Good(m), CacheAnswers(m, e, t)
  PROVE  e \notin Unpublished
<1> DEFINE v == JudgeEpoch(e, CachedFiles(m), m, t)
<1>1. v = "legacy" \/ (v = "v3" /\ m.cache.genesis = e)
  BY Zenon DEF CacheAnswers
<1>2. CachedFiles(m) \in FilesT /\ Anchored(v)
  BY <1>1, CachedType, Zenon DEF Anchored
<1>3. (v = "legacy" => e = 1) /\ (v = "v3" => e \notin MisKeyed /\ e \notin DoubleKeyed)
  BY <1>2, JudgeAnchored, Zenon
<1> HIDE DEF v
<1> QED
  BY <1>1, <1>3, Zenon DEF Unpublished, Good

\* The steps that read an answer, begin a command or give a save up: they leave the world,
\* the disk and what the process has judged alone.
Quiet(p) ==
  \/ GenesisUnread(p) \/ SaveFails(p) \/ Use(p) \/ ReceiptRead(p) \/ RangeRead(p)
  \/ ProofRead(p) \/ AttestationRead(p) \/ ResponseRead(p) \/ ReadFails(p) \/ BeginAny(p)

\* Where a command that ends, or starts over, goes next.
Onward(p, r) ==
  \/ pc' = [pc EXCEPT ![p] = "done"] /\ result' = [result EXCEPT ![p] = r]
  \/ \E x \in {"bundle", "info"} : pc' = [pc EXCEPT ![p] = x] /\ UNCHANGED result

\* Ending and starting over are the two ways onward.
LEMMA EndOnward ==
  \A p, r : End(p, r) \/ OnceMore(p, r) \/ (\E e : EndOn(p, e, r)) => Onward(p, r)
  BY Zenon DEF End, EndOn, Close, OnceMore, FirstStep, Onward

\* What a quiet step does with the place and the result of its process.
QuietMove(p) ==
  \/ \E r \in {"retired", "unanchored", "epoch_changed", "failed", "violation"} : Onward(p, r)
  \/ pc[p] = "ask" /\ Anchored(verdict[p]) /\ Onward(p, "ok")
  \/ pc[p] = "save" /\ pc' = [pc EXCEPT ![p] = "use"] /\ UNCHANGED result
  \/ pc[p] = "use" /\ pc' = [pc EXCEPT ![p] = "ask"] /\ UNCHANGED result
  \/ pc[p] = "ask" /\ UNCHANGED <<pc, result>>
  \/ \E x \in {"bundle", "info"} : pc' = [pc EXCEPT ![p] = x] /\ UNCHANGED result

\* A quiet step moves its process as above and nothing else that the invariants read.
LEMMA QuietStep ==
  ASSUME PhaseInv, NEW p \in Procs, Quiet(p)
  PROVE  /\ UNCHANGED <<world, disk, served, now, st, shown, verdict>>
         /\ pc[p] # "done" /\ QuietMove(p)
<1>1. UNCHANGED <<world, disk, served, now, st, shown, verdict>>
  <2>1. CASE SaveFails(p) \/ BeginAny(p)
    BY <2>1, Zenon DEF SaveFails, BeginAny, Begin, local
  <2>2. CASE GenesisUnread(p) \/ Use(p)
    BY <2>2, Zenon DEF GenesisUnread, Use
  <2>3. CASE ReceiptRead(p) \/ RangeRead(p) \/ ProofRead(p)
    BY <2>3, Zenon DEF ReceiptRead, RangeRead, ProofRead
  <2>4. CASE AttestationRead(p) \/ ResponseRead(p) \/ ReadFails(p)
    BY <2>4, Zenon DEF AttestationRead, ResponseRead, ReadFails
  <2> QED
    BY <2>1, <2>2, <2>3, <2>4, Zenon DEF Quiet
<1>2. pc[p] # "done"
  BY Zenon DEF Quiet, GenesisUnread, SaveFails, Use, ReceiptRead, RangeRead, ProofRead, AttestationRead, ResponseRead, ReadFails, BeginAny, Begin
<1> SUFFICES QuietMove(p)
  BY <1>1, <1>2, Zenon
<1>3. CASE GenesisUnread(p)
  BY <1>3, EndOnward, Zenon DEF GenesisUnread, QuietMove
<1>4. CASE SaveFails(p)
  BY <1>4, Zenon DEF SaveFails, local, QuietMove
<1>5. CASE Use(p)
  BY <1>5, EndOnward, Zenon DEF Use, QuietMove
<1>6. CASE ReceiptRead(p)
  BY <1>6, EndOnward, Zenon DEF ReceiptRead, AskRefused, PhaseInv, QuietMove
<1>7. CASE RangeRead(p)
  BY <1>7, EndOnward, Zenon DEF RangeRead, AskRefused, PhaseInv, QuietMove
<1>8. CASE ProofRead(p)
  BY <1>8, EndOnward, Zenon DEF ProofRead, AskRefused, QuietMove
<1>9. CASE AttestationRead(p)
  BY <1>9, EndOnward, Zenon DEF AttestationRead, Attested, QuietMove
<1>10. CASE ResponseRead(p)
  BY <1>10, EndOnward, Zenon DEF ResponseRead, Attested, QuietMove
<1>11. CASE BeginAny(p)
  BY <1>11, Zenon DEF BeginAny, Begin, FirstStep, local, QuietMove
<1>12. CASE ReadFails(p)
  BY <1>12, EndOnward, Zenon DEF ReadFails, QuietMove
<1> HIDE DEF QuietMove
<1> QED
  BY <1>3, <1>4, <1>5, <1>6, <1>7, <1>8, <1>9, <1>10, <1>11, <1>12, Zenon DEF Quiet

\* A quiet step keeps the memories and the anchored epochs published ones.
LEMMA QuietPublished ==
  ASSUME TypeOK, PhaseInv, PublishedInv, NEW p \in Procs, Quiet(p)
  PROVE  PublishedInv'
<1>1. /\ UNCHANGED <<file, tmp, served, st, verdict>>
      /\ pc[p] # "done" /\ QuietMove(p)
  BY QuietStep, Zenon DEF disk
<1>2. \A q \in Procs : q # p => pc'[q] = pc[q] /\ result'[q] = result[q]
  BY <1>1 DEF QuietMove, Onward, TypeOK
<1>3. result[p] # "ok"
  BY <1>1, Zenon DEF PublishedInv
<1>4. /\ pc'[p] # "genesis"
      /\ pc'[p] \in {"save", "rename", "use", "ask"} => pc[p] \in {"save", "use", "ask"}
      /\ result'[p] = "ok" => pc'[p] = "done" /\ pc[p] = "ask" /\ Anchored(verdict[p])
  BY <1>1, <1>3 DEF QuietMove, Onward, TypeOK
<1>5. Good(file') /\ Good(tmp'.memory) /\ \A q \in Procs : Good(st'[q])
  BY <1>1, Zenon DEF PublishedInv
<1> HIDE DEF Good
<1> QED
  BY <1>1, <1>2, <1>4, <1>5, Zenon DEF PublishedInv

\* Every step keeps the memories and the anchored epochs published ones.
LEMMA NextPublished ==
  TypeOK /\ PhaseInv /\ PublishedInv /\ [Next]_vars => PublishedInv'
<1> SUFFICES ASSUME TypeOK, PhaseInv, PublishedInv, [Next]_vars PROVE PublishedInv'
  BY Zenon
<1> USE DEF PublishedInv
<1>1. CASE Tick
  BY <1>1, Zenon DEF Tick, world, disk, local, TypeOK
<1>2. CASE PublishEnd
  BY <1>2, Zenon DEF PublishEnd, world, disk, local, TypeOK
<1>3. CASE PublishKey
  BY <1>3, Zenon DEF PublishKey, world, disk, local, TypeOK
<1>4. CASE Serve
  BY <1>4, Zenon DEF Serve, world, disk, local, TypeOK
<1>5. CASE UNCHANGED vars
  BY <1>5, Zenon DEF vars, world, disk, local, TypeOK
<1>6. ASSUME NEW p \in Procs, Step(p) \/ Exit(p) \/ BeginAny(p) PROVE PublishedInv'
  <2>1. CASE ReadBundle(p)
    BY <2>1, Zenon DEF ReadBundle, world, disk, local, TypeOK
  <2>2. CASE ReadInfo(p)
    BY <2>2, ZenonT(60) DEF ReadInfo, world, disk, local, TypeOK
  <2>3. CASE Load(p)
    <3>0. served[p] \in Epochs /\ clock \in Time /\ file \in MemoryT
      BY <2>3, Zenon DEF Load, PhaseInv, TypeOK
    <3>1. CASE kind[p] = "write" /\ CacheAnswers(file, served[p], clock)
      <4> DEFINE v == JudgeEpoch(served[p], CachedFiles(file), file, clock)
                 u == UpdateState(file, served[p], v, clock)
      <4>1. v \in Verdicts /\ CachedFiles(file) \in FilesT
        BY <3>0, JudgeType, CachedType, Zenon
      <4>2. Good(file)
        BY Zenon
      <4>3. served[p] \notin Unpublished
        BY <3>0, <3>1, <4>2, CachePublished, Zenon
      <4>4. Good(u)
        BY <3>0, <4>1, <4>2, <4>3, GoodUpdate, Zenon
      <4>5. /\ pc' = [pc EXCEPT ![p] = "save"] /\ st' = [st EXCEPT ![p] = u]
            /\ verdict' = [verdict EXCEPT ![p] = v] /\ UNCHANGED <<served, result, file, tmp>>
        BY <2>3, <3>1, Zenon DEF Load, disk
      <4>6. pc[p] = "load"
        BY <2>3, Zenon DEF Load
      <4> HIDE DEF v, u
      <4> QED
        BY <4>3, <4>4, <4>5, <4>6, ZenonT(60) DEF TypeOK
    <3>2. CASE ~(kind[p] = "write" /\ CacheAnswers(file, served[p], clock))
      BY <2>3, <3>2 DEF Load, disk, TypeOK
    <3> QED
      BY <3>1, <3>2, Zenon
  <2>4. CASE FetchAny(p)
    <3>1. PICK files \in Readable : Fetch(p, files)
      BY <2>4, Zenon DEF FetchAny
    <3> DEFINE v == JudgeEpoch(served[p], files, st[p], now[p])
               r == Refreshed(st[p], files, NoEpoch, now[p])
               u == UpdateState(r, served[p], v, now[p])
    <3>2. files \in FilesT /\ served[p] \in Epochs /\ st[p] \in MemoryT /\ now[p] \in Time
          /\ NoEpoch \in Epochs \cup {NoEpoch}
      BY <3>1, ReadableType, Zenon DEF Fetch, PhaseInv, TypeOK
    <3>3. v \in Verdicts
      BY <3>2, JudgeType, Zenon
    <3>4. (v = "legacy" => served[p] = 1)
          /\ (v = "v3" => served[p] \notin MisKeyed \cup DoubleKeyed)
      BY <3>2, JudgeAnchored, ZenonT(60) DEF Anchored
    <3>5. r \in MemoryT /\ r.highest = st[p].highest
          /\ (r.cache.genesis = NoEpoch \/ r.cache.genesis = st[p].cache.genesis)
      <4> HIDE DEF v
      <4>1. r.cache.genesis = NoEpoch \/ r.cache.genesis = st[p].cache.genesis
        <5>1. CASE files.read
          BY <3>2, <5>1, RefreshedGenesis, ZenonT(60)
        <5>2. CASE ~files.read
          BY <3>2, <5>2, RefreshedNot, ZenonT(60)
        <5> QED
          BY <5>1, <5>2, Zenon
      <4>2. r \in MemoryT /\ r.highest = st[p].highest
        BY <3>2, RefreshedIs, ZenonT(60)
      <4> QED
        BY <4>1, <4>2, Zenon
    <3>6. NoEpoch \notin BadGenesis /\ (v = "legacy" => served[p] \notin Unpublished)
      BY <3>4, EpochAssumption, Numbers, Zenon DEF Unpublished, Epochs
    <3>7. v # "v3" => Good(u)
      <4>1. Good(r)
        BY <3>5, <3>6, Zenon DEF Good
      <4> HIDE DEF v, r
      <4> QED
        BY <3>2, <3>3, <3>5, <3>6, <4>1, GoodUpdate, Zenon DEF Anchored
    <3>8. verdict' = [verdict EXCEPT ![p] = v] /\ UNCHANGED <<served, result, file, tmp>> /\ pc[p] = "fetch"
      BY <3>1, Zenon DEF Fetch, disk
    <3>9. \/ pc' = pc /\ st' = st
          \/ v = "v3" /\ pc' = [pc EXCEPT ![p] = "genesis"] /\ st' = st
          \/ v # "v3" /\ pc' = [pc EXCEPT ![p] = "save"] /\ st' = [st EXCEPT ![p] = u]
      BY <3>1, Zenon DEF Fetch
    <3> HIDE DEF v, u
    <3> QED
      BY <3>3, <3>4, <3>6, <3>7, <3>8, <3>9 DEF TypeOK, Anchored, Verdicts
  <2>5. CASE Genesis(p)
    <3> DEFINE good == served[p] \notin BadGenesis
               v == IF good THEN "v3" ELSE "violation"
               g == IF good THEN served[p] ELSE NoEpoch
               f == shown[p]
               r == Refreshed(st[p], f, g, now[p])
               u == UpdateState(r, served[p], v, now[p])
    <3>1. served[p] \in Epochs /\ v \in Verdicts /\ g \in Epochs \cup {NoEpoch}
          /\ st[p] \in MemoryT /\ now[p] \in Time /\ f \in FilesT
      BY <2>5, Zenon DEF Genesis, PhaseInv, Verdicts, TypeOK
    <3>2. g \notin BadGenesis
      BY EpochAssumption, Numbers, Zenon DEF Epochs
    <3>3. Anchored(v) => served[p] \notin Unpublished
      BY <2>5, Zenon DEF Genesis, Unpublished, Anchored
    <3> HIDE DEF g
    <3>7. f.read
      BY <2>5, Zenon DEF Genesis, PhaseInv
    <3>8. served[p] \in Epochs /\ v \in Verdicts /\ g \in Epochs \cup {NoEpoch}
      BY <3>1, Zenon
    <3> HIDE DEF v, f
    <3>11. st[p] \in MemoryT /\ f \in FilesT /\ now[p] \in Time
      BY <3>1, Zenon
    <3>4. r \in MemoryT /\ r.highest = st[p].highest /\ r.cache.genesis = g
      <4>1. r.cache.genesis = g
        BY <3>7, <3>8, <3>11, RefreshedGenesis, ZenonT(60)
      <4>2. r \in MemoryT /\ r.highest = st[p].highest
        BY <3>8, <3>11, RefreshedIs, ZenonT(60)
      <4> QED
        BY <4>1, <4>2, Zenon
    <3>5. /\ verdict' = [verdict EXCEPT ![p] = v] /\ st' = [st EXCEPT ![p] = u]
      BY <2>5, Zenon DEF Genesis, g, v, f
    <3>9. /\ pc[p] = "genesis" /\ pc' = [pc EXCEPT ![p] = "save"]
          /\ UNCHANGED <<served, result, file, tmp>>
      BY <2>5, Zenon DEF Genesis, disk
    <3> HIDE DEF r
    <3>10. Good(r)
      BY <3>2, <3>4, Zenon DEF Good
    <3>6. Good(u)
      BY <3>3, <3>4, <3>8, <3>10, <3>11, GoodUpdate, Zenon
    <3> HIDE DEF u
    <3> QED
      BY <3>3, <3>5, <3>6, <3>9, ZenonT(60) DEF TypeOK
  <2>6. CASE GenesisUnread(p)
    BY <2>6, QuietPublished, Zenon DEF Quiet
  <2>7. CASE WriteTmp(p)
    BY <2>7, ZenonT(60) DEF WriteTmp, world, disk, local, TypeOK
  <2>8. CASE Rename(p)
    <3>1. Good(file') /\ Good(tmp'.memory)
      BY <2>8, FreshGood, Zenon DEF Rename
    <3> HIDE DEF Good
    <3> QED
      BY <2>8, <3>1, Zenon DEF Rename, local, TypeOK
  <2>9. CASE Quiet(p)
    BY <2>9, QuietPublished, Zenon
  <2>16. CASE Exit(p)
    <3> HIDE DEF Good
    <3> QED
      BY <2>16, FreshGood, ZenonT(60) DEF Exit, disk, TypeOK
  <2> HIDE DEF PublishedInv
  <2> QED
    BY <1>6, <2>1, <2>2, <2>3, <2>4, <2>5, <2>6, <2>7, <2>8, <2>9, <2>16, Zenon DEF Step, FetchAny, Quiet
<1> HIDE DEF PublishedInv
<1> QED
  BY <1>1, <1>2, <1>3, <1>4, <1>5, <1>6, Zenon DEF Next, World, BeginAny

AnchorInv == TypeOK /\ PhaseInv /\ PublishedInv

\* The invariant holds in the initial states and every step keeps it.
LEMMA AnchorInvariant == Spec => []AnchorInv
<1>1. Init => AnchorInv
  <2> SUFFICES ASSUME Init PROVE AnchorInv
    BY Zenon
  <2>1. TypeOK /\ PhaseInv
    BY InitTypeOK, Zenon
  <2>2. PublishedInv
    <3> HIDE DEF Good
    <3> QED
      BY FreshGood, Zenon DEF Init, PublishedInv
  <2> QED
    BY <2>1, <2>2, Zenon DEF AnchorInv
<1>2. AnchorInv /\ [Next]_vars => AnchorInv'
  BY NextTypeOK, NextPhase, NextPublished, Zenon DEF AnchorInv
<1> QED
  BY <1>1, <1>2, PTL DEF Spec

\* Type correctness.
THEOREM TypeCorrect == Spec => []TypeOK
<1>1. AnchorInv => TypeOK
  BY Zenon DEF AnchorInv
<1> QED
  BY <1>1, AnchorInvariant, PTL

\* For any number of processes sharing the state file, however their saves overwrite each
\* other, nothing is bound under an epoch whose key or genesis the files do not carry.
THEOREM PublishedOnly == Spec => []OnlyPublishedEpochs
<1>1. AnchorInv => OnlyPublishedEpochs
  BY Zenon DEF AnchorInv, PublishedInv, Good, OnlyPublishedEpochs
<1> QED
  BY <1>1, AnchorInvariant, PTL

-----------------------------------------------------------------------------
(* How long an ended epoch may be used, that a command uses the answers of one epoch, and how
   long a disagreement is borne: the anchor cache, the state file and the commands' reads. *)


\* The memory knows every epoch the public files ended before its files were read.
Knows(m) ==
  m.cache.at # Never =>
    /\ m.cache.at <= clock
    /\ \A e \in Epochs :
         endAt[e] # Never /\ endAt[e] < m.cache.at - CdnLag => e \in m.cache.ends

\* Every memory knows the ends before its files were read, so do the files waiting for a
\* genesis check, and an anchored epoch is not one ended long before.
FreshInv ==
  /\ \A e \in Epochs : endAt[e] <= clock
  /\ Knows(file) /\ Knows(tmp.memory)
  /\ \A p \in Procs :
       /\ Knows(st[p]) /\ now[p] <= clock
       /\ pc[p] = "genesis" =>
            \A e \in Epochs :
              endAt[e] # Never /\ endAt[e] < now[p] - CdnLag => e \in shown[p].ends
       /\ pc[p] = "genesis" => served[p] \notin shown[p].ends
       /\ /\ pc[p] \in {"save", "rename", "use", "ask"}
          /\ Anchored(verdict[p]) /\ shown[p].read /\ endAt[served[p]] # Never
          => now[p] - endAt[served[p]] < CacheAge + CdnLag


\* Times are integers, so that they can be compared and subtracted.
LEMMA TimesInt ==
  ASSUME TypeOK
  PROVE  /\ clock \in Nat /\ CdnLag \in Nat /\ CacheAge \in Nat /\ CacheAge >= 1
         /\ \A e \in Epochs : endAt[e] \in Int
         /\ \A p \in Procs : now[p] \in Nat
         /\ \A m \in MemoryT : m.cache.at \in Int
<1>1. clock \in Nat /\ CdnLag \in Nat /\ CacheAge \in Nat /\ CacheAge >= 1
  BY NumberAssumption, Numbers DEF TypeOK
<1>2. \A t \in Time \cup {Never} : t \in Int
  BY Numbers
<1>3. \A m \in MemoryT : m.cache.at \in Time \cup {Never}
  BY Zenon DEF MemoryT, CacheT
<1>4. /\ \A e \in Epochs : endAt[e] \in Time \cup {Never}
      /\ \A p \in Procs : now[p] \in Nat
  BY Numbers, Zenon DEF TypeOK
<1> QED
  BY <1>1, <1>2, <1>3, <1>4, Zenon

\* A memory whose cache is another's, or holds nothing, knows what that one knows.
LEMMA KnowsFacts ==
  /\ Knows(FreshMemory) /\ Knows(NoTmp.memory)
  /\ \A m, n \in MemoryT : m.cache = n.cache /\ Knows(m) => Knows(n)
  BY Zenon DEF Knows, FreshMemory, NoTmp, NoCache

\* Files read now show every end older than the lag.
LEMMA ReadableKnows ==
  ASSUME TypeOK, NEW files \in Readable, files.read, NEW e \in Epochs,
         endAt[e] # Never, endAt[e] < clock - CdnLag
  PROVE  e \in files.ends
<1>1. files # NoFiles
  BY DEF NoFiles
<1>2. PICK r, k \in clock - CdnLag .. clock :
        files = [read |-> TRUE, ends |-> Lines(endAt, r), keys |-> Lines(keyAt, k)]
  BY <1>1 DEF Readable
<1>3. endAt[e] <= r
  BY <1>2, TimesInt
<1> QED
  BY <1>2, <1>3, Zenon DEF Lines

\* Time passing, and an end line published now, leave what a memory knows.
LEMMA KnowsStays ==
  ASSUME TypeOK, NEW m \in MemoryT, Knows(m), Tick \/ PublishEnd
  PROVE  Knows(m)'
<1>1. m.cache.at \in Int /\ clock \in Nat /\ CdnLag \in Nat
  BY TimesInt, Zenon
<1>2. CASE Tick
  BY <1>1, <1>2 DEF Knows, Tick
<1>3. CASE PublishEnd
  <2>1. \A e \in Epochs : endAt'[e] = endAt[e] \/ endAt'[e] = clock
    BY <1>3, Zenon DEF PublishEnd, TypeOK
  <2>2. clock' = clock /\ \A e \in Epochs : endAt[e] \in Int
    BY <1>3, TimesInt, Zenon DEF PublishEnd
  <2> QED
    BY <1>1, <2>1, <2>2 DEF Knows
<1> QED
  BY <1>2, <1>3, Zenon


\* A quiet step keeps what every memory knows, and moves its process to a place where
\* nothing more is promised.
LEMMA QuietFresh ==
  ASSUME TypeOK, PhaseInv, FreshInv, NEW p \in Procs, Quiet(p)
  PROVE  FreshInv'
<1>1. /\ UNCHANGED <<clock, endAt, file, tmp, served, now, st, shown, verdict>>
      /\ QuietMove(p)
  BY QuietStep, Zenon DEF world, disk
<1>2. \A q \in Procs : q # p => pc'[q] = pc[q]
  BY <1>1, SMTT(60) DEF QuietMove, Onward, TypeOK
<1>3. /\ pc'[p] # "genesis"
      /\ pc'[p] \in {"save", "rename", "use", "ask"} => pc[p] \in {"save", "use", "ask"}
  BY <1>1 DEF QuietMove, Onward, TypeOK
<1>4. Knows(file)' /\ Knows(tmp.memory)' /\ \A q \in Procs : Knows(st[q])'
  BY <1>1, ZenonT(60) DEF Knows, FreshInv
<1> HIDE DEF Knows
<1> QED
  BY <1>1, <1>2, <1>3, <1>4, ZenonT(60) DEF FreshInv

\* Every step keeps what the memories know of ended epochs.
LEMMA NextFresh ==
  TypeOK /\ PhaseInv /\ FreshInv /\ [Next]_vars => FreshInv'
<1> SUFFICES ASSUME TypeOK, PhaseInv, FreshInv, [Next]_vars PROVE FreshInv'
  BY Zenon
<1>1. CASE Tick
  <2>1. Knows(file)' /\ Knows(tmp.memory)' /\ \A q \in Procs : Knows(st[q])'
    <3>1. file \in MemoryT /\ tmp.memory \in MemoryT /\ \A q \in Procs : st[q] \in MemoryT
      BY Zenon DEF TypeOK
    <3>2. UNCHANGED <<file, tmp, st>>
      BY <1>1, Zenon DEF Tick, disk, local
    <3>3. ASSUME NEW m \in MemoryT, Knows(m) PROVE Knows(m)'
      BY <1>1, <3>3, KnowsStays, Zenon
    <3> QED
      BY <3>1, <3>2, <3>3, Zenon DEF Knows, FreshInv
  <2>2. clock \in Nat /\ clock' = clock + 1 /\ UNCHANGED <<endAt, pc, now, served, shown, verdict>>
    BY <1>1, TimesInt, ZenonT(60) DEF Tick, local, FreshInv
  <2>3. (\A e \in Epochs : endAt[e] <= clock + 1) /\ \A q \in Procs : now[q] <= clock + 1
    BY TimesInt, LagTimes, ZenonT(60) DEF FreshInv
  <2> HIDE DEF Knows
  <2> QED
    BY <2>1, <2>2, <2>3, ZenonT(60) DEF FreshInv
<1>2. CASE PublishEnd
  <2>1. Knows(file)' /\ Knows(tmp.memory)' /\ \A q \in Procs : Knows(st[q])'
    <3>1. file \in MemoryT /\ tmp.memory \in MemoryT /\ \A q \in Procs : st[q] \in MemoryT
      BY Zenon DEF TypeOK
    <3>2. UNCHANGED <<file, tmp, st>>
      BY <1>2, Zenon DEF PublishEnd, disk, local
    <3>3. ASSUME NEW m \in MemoryT, Knows(m) PROVE Knows(m)'
      BY <1>2, <3>3, KnowsStays, Zenon
    <3> QED
      BY <3>1, <3>2, <3>3, Zenon DEF Knows, FreshInv
  <2>2. clock \in Nat /\ UNCHANGED <<clock, pc, now, served, shown, verdict>>
    BY <1>2, TimesInt, Zenon DEF PublishEnd, local, FreshInv
  <2>3. \A e \in Epochs : endAt'[e] = endAt[e] \/ endAt'[e] = clock
    BY <1>2, ZenonT(60) DEF PublishEnd, TypeOK, FreshInv
  <2> HIDE DEF Knows
  <2> QED
    BY <2>1, <2>2, <2>3, TimesInt DEF PhaseInv, FreshInv
<1>3. CASE PublishKey
  <2>1. Knows(file)' /\ Knows(tmp.memory)' /\ \A q \in Procs : Knows(st[q])'
    BY <1>3, Zenon DEF PublishKey, world, disk, local, Knows, FreshInv
  <2> HIDE DEF Knows
  <2> QED
    BY <1>3, <2>1, Zenon DEF PublishKey, world, disk, local, TypeOK, FreshInv
<1>4. CASE Serve
  <2>1. Knows(file)' /\ Knows(tmp.memory)' /\ \A q \in Procs : Knows(st[q])'
    BY <1>4, Zenon DEF Serve, world, disk, local, Knows, FreshInv
  <2> HIDE DEF Knows
  <2> QED
    BY <1>4, <2>1, Zenon DEF Serve, world, disk, local, TypeOK, FreshInv
<1>5. CASE UNCHANGED vars
  BY <1>5, ZenonT(60) DEF vars, world, disk, local, TypeOK, Knows, FreshInv
<1>6. ASSUME NEW p \in Procs, Step(p) \/ Exit(p) \/ BeginAny(p) PROVE FreshInv'
  <2>1. CASE ReadBundle(p)
    <3>1. Knows(file)' /\ Knows(tmp.memory)' /\ \A q \in Procs : Knows(st[q])'
      BY <2>1, ZenonT(60) DEF ReadBundle, world, disk, local, Knows, FreshInv
    <3> HIDE DEF Knows
    <3> QED
      BY <2>1, <3>1, ZenonT(60) DEF ReadBundle, world, disk, local, TypeOK, FreshInv
  <2>2. CASE ReadInfo(p)
    <3>1. Knows(file)' /\ Knows(tmp.memory)' /\ \A q \in Procs : Knows(st[q])'
      BY <2>2, Zenon DEF ReadInfo, world, disk, local, Knows, FreshInv
    <3> HIDE DEF Knows
    <3> QED
      BY <2>2, <3>1 DEF ReadInfo, world, disk, local, TypeOK, FreshInv
  <2>3. CASE Load(p)
    <3>0. served[p] \in Epochs /\ clock \in Time /\ file \in MemoryT /\ pc[p] = "load"
      BY <2>3, Zenon DEF Load, PhaseInv, TypeOK, FreshInv
    <3>9. UNCHANGED <<clock, endAt, served, file, tmp>> /\ now' = [now EXCEPT ![p] = clock]
      BY <2>3, ZenonT(60) DEF Load, world, disk, FreshInv
    <3>10. clock <= clock /\ \A q \in Procs : now'[q] = IF q = p THEN clock ELSE now[q]
      BY <3>9, TimesInt, SMTT(60) DEF TypeOK
    <3>1. CASE kind[p] = "write" /\ CacheAnswers(file, served[p], clock)
      <4> DEFINE v == JudgeEpoch(served[p], CachedFiles(file), file, clock)
                 u == UpdateState(file, served[p], v, clock)
      <4>1. v \in Verdicts /\ CachedFiles(file) \in FilesT
        BY <3>0, JudgeType, CachedType, Zenon
      <4>2. Anchored(v) /\ file.cache.at # Never /\ clock - file.cache.at < CacheAge
        BY <3>1, Zenon DEF CacheAnswers, Anchored, FreshInv
      <4>3. served[p] \notin file.cache.ends
        BY <3>0, <4>1, <4>2, JudgeAnchored, CachedType, Zenon
      <4>4. endAt[served[p]] # Never => clock - endAt[served[p]] < CacheAge + CdnLag
        BY <3>0, <4>2, <4>3, TimesInt DEF Knows, FreshInv
      <4>5. /\ pc' = [pc EXCEPT ![p] = "save"] /\ st' = [st EXCEPT ![p] = u]
            /\ verdict' = [verdict EXCEPT ![p] = v]
            /\ shown' = [shown EXCEPT ![p] = CachedFiles(file)]
        BY <2>3, <3>1, ZenonT(60) DEF Load, FreshInv
      <4>6. u \in MemoryT /\ u.cache = file.cache
        BY <3>0, <4>1, UpdateFacts
      <4>7. Knows(u)
        BY <3>0, <4>6, KnowsFacts, Zenon DEF FreshInv
      <4> HIDE DEF v, u
      <4>8. \A q \in Procs : Knows(st[q])'
        BY <3>9, <4>5, <4>7, ZenonT(60) DEF Knows, TypeOK, FreshInv
      <4>9. Knows(file)' /\ Knows(tmp.memory)'
        BY <3>9, Zenon DEF Knows, FreshInv
      <4> HIDE DEF Knows
      <4> QED
        BY <3>0, <3>9, <3>10, <4>4, <4>5, <4>8, <4>9, ZenonT(60) DEF TypeOK, FreshInv
    <3>2. CASE ~(kind[p] = "write" /\ CacheAnswers(file, served[p], clock))
      <4>1. /\ pc' = [pc EXCEPT ![p] = "fetch"] /\ st' = [st EXCEPT ![p] = file]
            /\ UNCHANGED <<verdict, shown>>
        BY <2>3, <3>2, Zenon DEF Load, FreshInv
      <4>2. \A q \in Procs : Knows(st[q])'
        BY <3>9, <4>1, Zenon DEF Knows, TypeOK, FreshInv
      <4>3. Knows(file)' /\ Knows(tmp.memory)'
        BY <3>9, Zenon DEF Knows, FreshInv
      <4> HIDE DEF Knows
      <4> QED
        BY <3>0, <3>9, <3>10, <4>1, <4>2, <4>3, ZenonT(60) DEF TypeOK, FreshInv
    <3> QED
      BY <3>1, <3>2, Zenon DEF FreshInv
  <2>4. CASE FetchAny(p)
    <3>1. PICK files \in Readable : Fetch(p, files)
      BY <2>4, Zenon DEF FetchAny, FreshInv
    <3> DEFINE v == JudgeEpoch(served[p], files, st[p], now[p])
               r == Refreshed(st[p], files, NoEpoch, now[p])
               u == UpdateState(r, served[p], v, now[p])
    <3>2. files \in FilesT /\ served[p] \in Epochs /\ st[p] \in MemoryT /\ now[p] \in Time
          /\ NoEpoch \in Epochs \cup {NoEpoch} /\ now[p] <= clock
      BY <3>1, ReadableType, Zenon DEF Fetch, PhaseInv, TypeOK, FreshInv
    <3>3. v \in Verdicts
      BY <3>2, JudgeType, Zenon
    <3>4. files.read /\ Anchored(v) => served[p] \notin files.ends
      BY <3>2, JudgeAnchored, Zenon
    <3>5. v = "v3" => files.read
      BY <3>2, JudgeAnchored, Zenon DEF Anchored
    <3>6. \A e \in Epochs : files.read /\ endAt[e] # Never /\ endAt[e] < now[p] - CdnLag =>
            e \in files.ends
      <4>1. ASSUME NEW e \in Epochs, files.read, endAt[e] # Never, endAt[e] < now[p] - CdnLag
            PROVE  e \in files.ends
        <5>1. endAt[e] < clock - CdnLag
          <6>1. endAt[e] \in Int /\ now[p] \in Int /\ clock \in Int /\ CdnLag \in Int
            BY TimesInt, Order, ZenonT(60)
          <6> QED
            BY <3>2, <4>1, <6>1, Order, Zenon
        <5> QED
          BY <4>1, <5>1, ReadableKnows, ZenonT(60)
      <4> QED
        BY <4>1, Zenon DEF FreshInv
    <3>7. files.read /\ Anchored(v) /\ endAt[served[p]] # Never =>
            now[p] - endAt[served[p]] < CacheAge + CdnLag
      BY <3>2, <3>4, <3>6, TimesInt DEF FreshInv
    <3>8. Knows(u)
      <4> HIDE DEF v
      <4>1. r \in MemoryT
        BY <3>2, RefreshedFacts, Zenon
      <4>5. Knows(r)
        <5>7. CASE files.read
          <6>1. r.cache.at = now[p] /\ r.cache.ends = files.ends
            BY <3>2, <5>7, Zenon DEF Refreshed, MemoryT, FreshInv
          <6> QED
            BY <3>2, <3>6, <5>7, <6>1, Zenon DEF Knows, FreshInv
        <5>8. CASE ~files.read
          <6>1. r = st[p]
            BY <5>8, ZenonT(60) DEF Refreshed, FreshInv
          <6> QED
            BY <6>1, Zenon DEF FreshInv
        <5> QED
          BY <5>7, <5>8, Zenon DEF FreshInv
      <4> HIDE DEF r
      <4>4. u \in MemoryT /\ u.cache = r.cache
        BY <3>2, <3>3, <4>1, UpdateFacts
      <4> HIDE DEF u, Knows
      <4> QED
        BY <4>1, <4>4, <4>5, KnowsFacts, Zenon
    <3>9. verdict' = [verdict EXCEPT ![p] = v] /\ shown' = [shown EXCEPT ![p] = files]
          /\ UNCHANGED <<clock, endAt, served, now, file, tmp>> /\ pc[p] = "fetch"
      BY <3>1, Zenon DEF Fetch, disk, world, FreshInv
    <3>10. \/ pc' = pc /\ st' = st
           \/ v = "v3" /\ pc' = [pc EXCEPT ![p] = "genesis"] /\ st' = st
           \/ v # "v3" /\ pc' = [pc EXCEPT ![p] = "save"] /\ st' = [st EXCEPT ![p] = u]
      BY <3>1, ZenonT(60) DEF Fetch
    <3> HIDE DEF v, u
    <3>11. \A q \in Procs : Knows(st[q])'
      <4>1. \A q \in Procs : st'[q] = st[q] \/ st'[q] = u
        BY <3>10, ZenonT(60) DEF TypeOK
      <4>2. \A q \in Procs : Knows(st[q])
        BY Zenon DEF FreshInv
      <4> QED
        BY <3>8, <3>9, <4>1, <4>2, Zenon DEF Knows
    <3>12. Knows(file)' /\ Knows(tmp.memory)'
      BY <3>9, ZenonT(60) DEF Knows, FreshInv
    <3> HIDE DEF Knows
    <3>13. ASSUME NEW q \in Procs, q # p PROVE UNCHANGED <<pc[q], now[q], shown[q], served[q], verdict[q]>>
      BY <3>9, <3>10, <3>13, ZenonT(60) DEF TypeOK, FreshInv
    <3>14. /\ pc'[p] = "genesis" => v = "v3" 
           /\ pc'[p] \in {"fetch", "genesis", "save"}
           /\ now'[p] = now[p] /\ shown'[p] = files /\ served'[p] = served[p] /\ verdict'[p] = v
      BY <3>9, <3>10, ZenonT(60) DEF TypeOK, FreshInv
    <3> DEFINE Timely(q) ==
          /\ now[q] <= clock
          /\ pc[q] = "genesis" =>
               \A e \in Epochs :
                 endAt[e] # Never /\ endAt[e] < now[q] - CdnLag => e \in shown[q].ends
          /\ pc[q] = "genesis" => served[q] \notin shown[q].ends
          /\ /\ pc[q] \in {"save", "rename", "use", "ask"}
             /\ Anchored(verdict[q]) /\ shown[q].read /\ endAt[served[q]] # Never
             => now[q] - endAt[served[q]] < CacheAge + CdnLag
    <3>15. Timely(p)'
      BY <3>2, <3>4, <3>5, <3>6, <3>7, <3>9, <3>14, ZenonT(60) DEF Anchored
    <3>16. ASSUME NEW q \in Procs, q # p PROVE Timely(q)'
      <4>1. Timely(q)
        BY Zenon DEF FreshInv
      <4> QED
        BY <3>9, <3>13, <3>16, <4>1, ZenonT(60)
    <3>17. \A q \in Procs : Timely(q)'
      BY <3>15, <3>16, Zenon
    <3> QED
      BY <3>9, <3>11, <3>12, <3>17, ZenonT(60) DEF FreshInv
  <2>5. CASE Genesis(p)
    <3> DEFINE good == served[p] \notin BadGenesis
               v == IF good THEN "v3" ELSE "violation"
               g == IF good THEN served[p] ELSE NoEpoch
               f == shown[p]
               r == Refreshed(st[p], f, g, now[p])
               u == UpdateState(r, served[p], v, now[p])
    <3>1. served[p] \in Epochs /\ v \in Verdicts /\ g \in Epochs \cup {NoEpoch}
          /\ st[p] \in MemoryT /\ now[p] \in Time /\ f \in FilesT /\ f.read /\ now[p] <= clock
      BY <2>5, Zenon DEF Genesis, PhaseInv, Verdicts, TypeOK, FreshInv
    <3>2. \A e \in Epochs : endAt[e] # Never /\ endAt[e] < now[p] - CdnLag => e \in f.ends
      BY <2>5, Zenon DEF Genesis, FreshInv
    <3>3. endAt[served[p]] # Never => now[p] - endAt[served[p]] < CacheAge + CdnLag
      <4>1. pc[p] = "genesis" /\ served[p] \notin shown[p].ends
        BY <2>5, Zenon DEF Genesis, FreshInv
      <4>2. endAt[served[p]] \in Int /\ now[p] \in Int
        BY <3>1, TimesInt, LagTimes, Zenon
      <4>3. endAt[served[p]] # Never => ~(endAt[served[p]] < now[p] - CdnLag)
        BY <3>1, <3>2, <4>1, Zenon
      <4> QED
        BY <4>2, <4>3, LagTimes, Zenon
    <3>4. /\ verdict' = [verdict EXCEPT ![p] = v] /\ pc' = [pc EXCEPT ![p] = "save"]
          /\ st' = [st EXCEPT ![p] = u] /\ UNCHANGED <<clock, endAt, served, now, file, tmp, shown>>
          /\ pc[p] = "genesis"
      BY <2>5, Zenon DEF Genesis, disk, world
    <3> HIDE DEF f, g, v
    <3>9. r \in MemoryT
      BY <3>1, RefreshedFacts, Zenon
    <3>5. r \in MemoryT /\ r.cache.at = now[p] /\ r.cache.ends = f.ends
      BY <3>1, <3>9, Zenon DEF Refreshed, MemoryT
    <3> HIDE DEF r
    <3>6. Knows(r)
      BY <3>1, <3>2, <3>5, ZenonT(60) DEF Knows, FreshInv
    <3>7. u \in MemoryT /\ u.cache = r.cache
      BY <3>1, <3>5, UpdateFacts
    <3> HIDE DEF u
    <3>8. Knows(u)
      BY <3>5, <3>6, <3>7, KnowsFacts, Zenon
    <3>11. \A q \in Procs : Knows(st[q])'
      BY <3>4, <3>8, ZenonT(60) DEF Knows, TypeOK, FreshInv
    <3>12. Knows(file)' /\ Knows(tmp.memory)'
      BY <3>4, Zenon DEF Knows, FreshInv
    <3> HIDE DEF Knows
    <3> QED
      BY <3>1, <3>3, <3>4, <3>11, <3>12, ZenonT(60) DEF TypeOK, FreshInv
  <2>6. CASE GenesisUnread(p)
    BY <2>6, QuietFresh, Zenon DEF Quiet
  <2>7. CASE WriteTmp(p)
    <3>1. Knows(file)' /\ Knows(tmp.memory)' /\ \A q \in Procs : Knows(st[q])'
      BY <2>7, Zenon DEF WriteTmp, world, disk, local, Knows, FreshInv
    <3> HIDE DEF Knows
    <3> QED
      BY <2>7, <3>1, ZenonT(60) DEF WriteTmp, world, disk, local, TypeOK, FreshInv
  <2>8. CASE Rename(p)
    <3>1. Knows(file)' /\ Knows(tmp.memory)' /\ \A q \in Procs : Knows(st[q])'
      BY <2>8, Zenon DEF Rename, world, local, Knows, NoTmp, FreshMemory, NoCache, FreshInv
    <3> HIDE DEF Knows
    <3> QED
      BY <2>8, <3>1 DEF Rename, world, local, TypeOK, FreshInv
  <2>9. CASE Quiet(p)
    BY <2>9, QuietFresh, ZenonT(60)
  <2>16. CASE Exit(p)
    <3>1. Knows(file)' /\ Knows(tmp.memory)' /\ \A q \in Procs : Knows(st[q])'
      BY <2>16, ZenonT(60) DEF Exit, world, disk, Knows, FreshMemory, NoCache, TypeOK, FreshInv
    <3>2. 0 <= clock
      BY TimesInt
    <3> HIDE DEF Knows
    <3> QED
      BY <2>16, <3>1, <3>2, SMTT(60) DEF Exit, world, disk, TypeOK, FreshInv
  <2> QED
    BY <1>6, <2>1, <2>2, <2>3, <2>4, <2>5, <2>6, <2>7, <2>8, <2>9, <2>16, Zenon DEF Step, FetchAny, Quiet
<1> QED
  BY <1>1, <1>2, <1>3, <1>4, <1>5, <1>6, Zenon DEF Next, World, BeginAny

\* The cache never stretches the use of an ended epoch beyond its age and the lag of the
\* files it was made from, for any number of processes and any operator.
THEOREM EndedNotLong == Spec => []EndedEpochNotUsedLong
<1>1. Init => FreshInv
  <2> HIDE DEF Knows
  <2> QED
    BY KnowsFacts DEF Init, FreshInv, Never
<1>2. AnchorInv /\ FreshInv /\ [Next]_vars => FreshInv'
  BY NextFresh, Zenon DEF AnchorInv
<1>3. FreshInv => EndedEpochNotUsedLong
  BY Zenon DEF FreshInv, EndedEpochNotUsedLong
<1> QED
  BY <1>1, <1>2, <1>3, AnchorInvariant, PTL DEF Spec

-----------------------------------------------------------------------------
(* A command uses the answers of one epoch. *)

\* What a command has read under its verdict is of the anchored epoch, nothing before it
\* asks; a write or an owner's watch that asks has a bundle of that epoch; and a command
\* that succeeded, which then waits to be gone, has read something.
OneEpochInv ==
  \A p \in Procs :
    /\ pc[p] \notin {"ask", "done"} => answers[p] = {}
    /\ pc[p] = "ask" => answers[p] \subseteq {served[p]}
    /\ pc[p] = "ask" /\ kind[p] \in {"write", "self"} => bundle[p] = served[p]
    /\ result[p] = "ok" =>
         /\ pc[p] = "done" /\ answers[p] = {served[p]}
         /\ kind[p] \in {"write", "self"} => bundle[p] = served[p]

\* What the invariants read of process q.
Same(q) ==
  UNCHANGED <<pc[q], kind[q], attempt[q], bundle[q], served[q], now[q], st[q], verdict[q],
              answers[q], result[q]>>

\* A step of one process leaves the others where they are.
LEMMA OthersSame ==
  ASSUME TypeOK, NEW p \in Procs, Step(p) \/ Exit(p) \/ BeginAny(p), NEW q \in Procs, q # p
  PROVE  Same(q)
<1> USE DEF Same
<1>1. CASE ReadBundle(p) \/ ReadInfo(p) \/ BeginAny(p)
  BY <1>1, ZenonT(60) DEF ReadBundle, ReadInfo, BeginAny, Begin, TypeOK
<1>2. CASE Load(p)
  BY <1>2 DEF Load, TypeOK
<1>3. CASE FetchAny(p)
  <2>1. PICK files \in Readable : Fetch(p, files)
    BY <1>3, Zenon DEF FetchAny
  <2>2. pc'[q] = pc[q] /\ st'[q] = st[q]
    BY <2>1, ZenonT(60) DEF Fetch, TypeOK
  <2>3. verdict'[q] = verdict[q] /\ shown'[q] = shown[q]
    BY <2>1, ZenonT(60) DEF Fetch, TypeOK
  <2> QED
    BY <2>1, <2>2, <2>3, ZenonT(60) DEF Fetch
<1>4. CASE Genesis(p)
  BY <1>4, Zenon DEF Genesis, TypeOK
<1>5. ASSUME NEW r, End(p, r) \/ OnceMore(p, r) \/ (\E e : EndOn(p, e, r))
      PROVE  UNCHANGED <<pc[q], attempt[q], answers[q], result[q]>>
  <2>1. CASE End(p, r) \/ OnceMore(p, r)
    BY <2>1, ZenonT(60) DEF End, OnceMore, Close, TypeOK
  <2>2. CASE \E e : EndOn(p, e, r)
    BY <2>2, ZenonT(60) DEF EndOn, Close, Answer, TypeOK
  <2> QED
    BY <1>5, <2>1, <2>2, Zenon
<1>6. CASE GenesisUnread(p) \/ Use(p)
  <2>1. UNCHANGED <<kind, bundle, served, now, st, verdict>>
    BY <1>6, Zenon DEF GenesisUnread, Use
  <2>2. \/ \E r : End(p, r) \/ OnceMore(p, r)
        \/ pc' = [pc EXCEPT ![p] = "ask"] /\ UNCHANGED <<attempt, answers, result>>
    BY <1>6, Zenon DEF GenesisUnread, Use
  <2>3. UNCHANGED <<pc[q], attempt[q], answers[q], result[q]>>
    BY <1>5, <2>2, Zenon DEF TypeOK
  <2> QED
    BY <2>1, <2>3, Zenon
<1>7. CASE WriteTmp(p) \/ Rename(p) \/ SaveFails(p)
  BY <1>7, Zenon DEF WriteTmp, Rename, SaveFails, local, TypeOK
<1>8. CASE ReceiptRead(p) \/ RangeRead(p) \/ ProofRead(p) \/ AttestationRead(p) \/ ResponseRead(p)
           \/ ReadFails(p)
  <2>1. UNCHANGED <<kind, bundle, served, now, st, verdict>>
    BY <1>8, Zenon DEF ReceiptRead, RangeRead, ProofRead, AttestationRead, ResponseRead, ReadFails
  <2>2. \/ \E r : End(p, r) \/ OnceMore(p, r) \/ (\E e : EndOn(p, e, r))
        \/ Answer(p, serving) /\ UNCHANGED <<pc, attempt, result>>
    BY <1>8, Zenon DEF ReceiptRead, RangeRead, ProofRead, AttestationRead, ResponseRead, ReadFails,
                       AskRefused, Attested
  <2>3. UNCHANGED <<pc[q], attempt[q], answers[q], result[q]>>
    BY <1>5, <2>2, ZenonT(60) DEF Answer, TypeOK
  <2> QED
    BY <2>1, <2>3, Zenon
<1>9. CASE Exit(p)
  BY <1>9, ZenonT(60) DEF Exit, TypeOK
<1> QED
  BY <1>1, <1>2, <1>3, <1>4, <1>6, <1>7, <1>8, <1>9, ZenonT(60) DEF Step, FetchAny

\* OneEpochInv of one process.
OneOf(p) ==
  /\ pc[p] \notin {"ask", "done"} => answers[p] = {}
  /\ pc[p] = "ask" => answers[p] \subseteq {served[p]}
  /\ pc[p] = "ask" /\ kind[p] \in {"write", "self"} => bundle[p] = served[p]
  /\ result[p] = "ok" =>
       /\ pc[p] = "done" /\ answers[p] = {served[p]}
       /\ kind[p] \in {"write", "self"} => bundle[p] = served[p]

\* A step keeps its own process on the answers of one epoch.
LEMMA OwnOne ==
  ASSUME TypeOK, NEW p \in Procs, OneOf(p), Step(p) \/ Exit(p) \/ BeginAny(p)
  PROVE  OneOf(p)'
<1>0. pc[p] # "done" => result[p] # "ok"
  BY Zenon DEF OneOf
<1>1. CASE ReadBundle(p) \/ ReadInfo(p) \/ BeginAny(p)
  <2>1. /\ pc[p] \in {"idle", "bundle", "info"} /\ pc'[p] \in {"bundle", "info", "load"}
        /\ UNCHANGED <<answers, result>>
    BY <1>1, ZenonT(60) DEF ReadBundle, ReadInfo, BeginAny, Begin, FirstStep, TypeOK
  <2> QED
    BY <1>0, <2>1, Zenon DEF OneOf
<1>2. CASE Load(p)
  <2>1. pc[p] = "load" /\ pc'[p] \in {"fetch", "save"} /\ UNCHANGED <<answers, result>>
    BY <1>2, Zenon DEF Load, TypeOK
  <2> QED
    BY <1>0, <2>1, Zenon DEF OneOf
<1>3. CASE FetchAny(p)
  <2>1. /\ pc[p] = "fetch" /\ pc'[p] \in {"fetch", "genesis", "save"}
        /\ UNCHANGED <<answers, result>>
    BY <1>3, ZenonT(60) DEF FetchAny, Fetch, TypeOK
  <2> QED
    BY <1>0, <2>1, Zenon DEF OneOf
<1>4. CASE Genesis(p) \/ WriteTmp(p) \/ Rename(p) \/ SaveFails(p)
  <2>1. /\ pc[p] \in {"genesis", "save", "rename"} /\ pc'[p] \in {"save", "rename", "use"}
        /\ UNCHANGED <<answers, result>>
    BY <1>4, ZenonT(60) DEF Genesis, WriteTmp, Rename, SaveFails, local, TypeOK
  <2> QED
    BY <1>0, <2>1, Zenon DEF OneOf
<1>5. ASSUME NEW r, End(p, r) \/ OnceMore(p, r) \/ (\E e : EndOn(p, e, r)), pc[p] # "done", r # "ok"
      PROVE  OneOf(p)'
  <2>1. CASE pc'[p] = "done" /\ result'[p] = r
    BY <1>5, <2>1, Zenon DEF OneOf
  <2>2. CASE pc'[p] \in {"bundle", "info"} /\ answers'[p] = {} /\ result'[p] = result[p]
    BY <1>0, <1>5, <2>2, Zenon DEF OneOf
  <2> QED
    BY <1>5, <2>1, <2>2, ZenonT(60) DEF End, EndOn, OnceMore, Close, FirstStep, TypeOK
<1>6. CASE GenesisUnread(p)
  <2>1. /\ pc[p] # "done"
        /\ \E r \in {"epoch_changed", "failed"} : End(p, r) \/ OnceMore(p, r)
    BY <1>6, Zenon DEF GenesisUnread
  <2> QED
    BY <1>5, <2>1, Zenon
<1>7. CASE Use(p)
  <2>0. pc[p] = "use" /\ UNCHANGED <<kind, bundle, served>>
    BY <1>7, Zenon DEF Use
  <2>1. CASE \E r \in {"violation", "unanchored"} : End(p, r) \/ OnceMore(p, r)
    BY <1>5, <2>0, <2>1, Zenon
  <2>2. CASE ~BundleStale(p) /\ pc' = [pc EXCEPT ![p] = "ask"] /\ UNCHANGED <<answers, result>>
    <3>1. pc'[p] = "ask" /\ answers'[p] = {} /\ result'[p] # "ok"
      BY <1>0, <2>0, <2>2, Zenon DEF OneOf, TypeOK
    <3> QED
      BY <2>0, <2>2, <3>1, Zenon DEF OneOf, BundleStale
  <2> QED
    BY <1>7, <2>1, <2>2, Zenon DEF Use
<1>8. CASE ReceiptRead(p) \/ RangeRead(p) \/ ProofRead(p) \/ AttestationRead(p) \/ ResponseRead(p)
  <2>0. UNCHANGED <<kind, bundle, served>> /\ pc[p] = "ask"
    BY <1>8, Zenon DEF ReceiptRead, RangeRead, ProofRead, AttestationRead, ResponseRead
  <2>1. CASE \E r \in {"retired", "unanchored", "epoch_changed", "violation"} :
               OnceMore(p, r) \/ (\E e : EndOn(p, e, r))
    BY <1>5, <2>0, <2>1, Zenon
  <2>2. CASE serving = served[p] /\ EndOn(p, serving, "ok")
    <3>1. pc'[p] = "done" /\ answers'[p] = answers[p] \cup {served[p]}
      BY <2>2, ZenonT(60) DEF EndOn, Close, Answer, TypeOK
    <3>2. answers'[p] = {served[p]}
      BY <2>0, <3>1, Zenon DEF OneOf
    <3> QED
      BY <2>0, <3>1, <3>2, Zenon DEF OneOf
  <2>3. CASE serving = served[p] /\ Answer(p, serving) /\ UNCHANGED <<pc, attempt, result>>
    <3>1. answers'[p] = answers[p] \cup {served[p]}
      BY <2>3, Zenon DEF Answer, TypeOK
    <3> QED
      BY <1>0, <2>0, <2>3, <3>1, Zenon DEF OneOf
  <2> QED
    BY <1>8, <2>1, <2>2, <2>3, ZenonT(60) DEF ReceiptRead, RangeRead, ProofRead, AttestationRead,
         ResponseRead, AskRefused, Attested
<1>9. CASE ReadFails(p)
  BY <1>5, <1>9, Zenon DEF ReadFails
<1>10. CASE Exit(p)
  BY <1>10, Zenon DEF Exit, OneOf, TypeOK
<1> QED
  BY <1>1, <1>2, <1>3, <1>4, <1>6, <1>7, <1>8, <1>9, <1>10, Zenon DEF Step, FetchAny

\* Every step keeps every command on the answers of one epoch.
LEMMA NextOneEpoch ==
  TypeOK /\ OneEpochInv /\ [Next]_vars => OneEpochInv'
<1> SUFFICES ASSUME TypeOK, OneEpochInv, [Next]_vars PROVE OneEpochInv'
  BY Zenon
<1>1. CASE World \/ UNCHANGED vars
  BY <1>1, ZenonT(60) DEF World, Tick, PublishEnd, PublishKey, Serve, local, vars, OneEpochInv
<1>2. ASSUME NEW p \in Procs, Step(p) \/ Exit(p) \/ BeginAny(p)
      PROVE  OneEpochInv'
  <2>1. \A q \in Procs : q # p => Same(q)
    BY <1>2, OthersSame, Zenon
  <2>2. OneOf(p)'
    BY <1>2, OwnOne, Zenon DEF OneEpochInv, OneOf
  <2> QED
    BY <2>1, <2>2, ZenonT(60) DEF OneEpochInv, OneOf, Same
<1> QED
  BY <1>1, <1>2, Zenon DEF Next, BeginAny

\* A command that succeeds has used the bundle, server-info and the receipts, proof or
\* attestation of one epoch, for any number of processes and epochs (check_bundle_epoch,
\* the `epoch` each read names, once_more_on_epoch_change).
THEOREM OneEpoch == Spec => []OneEpochPerCommand
<1>1. Init => OneEpochInv
  BY Zenon DEF Init, OneEpochInv
<1>2. AnchorInv /\ OneEpochInv /\ [Next]_vars => OneEpochInv'
  BY NextOneEpoch, Zenon DEF AnchorInv
<1>3. OneEpochInv => OneEpochPerCommand
  BY Zenon DEF OneEpochInv, OneEpochPerCommand
<1> QED
  BY <1>1, <1>2, <1>3, AnchorInvariant, PTL DEF Spec

-----------------------------------------------------------------------------
(* How long a disagreement is borne. *)

\* One CLI process at a time uses the configuration directory.  Two may overwrite each
\* other's sightings in the state file.
Solo == \A p, q \in Procs : p = q

Sights(m, t) == \A e \in Epochs : m.sighted[e] <= t

\* The epochs whose sightings last: files that cannot be read make the first epoch legacy
\* again, which forgets it.
Lasting(e) == e # 1 \/ ~Unreachable

\* While a process anchors, the file is as it was loaded, and the memory about to be saved
\* is the file's with the verdict folded in.
Folding(p) ==
  /\ now[p] <= clock
  /\ pc[p] \in {"fetch", "genesis"} => st[p] = file
  /\ pc[p] \in {"fetch", "genesis", "save", "rename"} => Sights(file, now[p])
  /\ pc[p] \in {"save", "rename"} =>
       /\ verdict[p] \in Verdicts
       /\ st[p].sighted = UpdateState(file, served[p], verdict[p], now[p]).sighted
       /\ Anchored(verdict[p]) /\ ~shown[p].read => ~Lasting(served[p])
       /\ verdict[p] = "unanchored" /\ shown[p].read =>
            ~PastBound(file.sighted[served[p]], now[p])
  /\ pc[p] = "rename" => tmp.held /\ tmp.memory = st[p]

\* The state file has sighted every disagreement that was noted, no later than it was
\* noted.
NotedInv ==
  /\ Sights(file, clock)
  /\ \A e \in Epochs : Lasting(e) /\ noted[e] # Never =>
       file.sighted[e] # Never /\ file.sighted[e] <= noted[e]
  /\ \A p \in Procs : Folding(p)

\* What update_state makes of the sightings.
LEMMA UpdateSighted ==
  ASSUME NEW m \in MemoryT, NEW e \in Epochs, NEW v \in Verdicts, NEW t \in Time,
         NEW k \in Epochs
  PROVE  LET s == UpdateState(m, e, v, t).sighted
         IN  /\ Anchored(v) => s[k] = IF k > e THEN m.sighted[k] ELSE Never
             /\ v = "unanchored" =>
                  s[k] = IF k = e /\ m.sighted[k] = Never THEN t ELSE m.sighted[k]
             /\ v = "violation" => s[k] = m.sighted[k]
<1>1. CASE Anchored(v)
  <2>1. UpdateState(m, e, v, t).sighted = [j \in Epochs |-> IF j > e THEN m.sighted[j] ELSE Never]
    BY <1>1, Zenon DEF UpdateState, Anchored
  <2> QED
    BY <1>1, <2>1, Zenon DEF Anchored
<1>2. CASE v = "unanchored"
  <2>1. UpdateState(m, e, v, t).sighted = [m.sighted EXCEPT ![e] = IF @ = Never THEN t ELSE @]
    BY <1>2, Zenon DEF UpdateState, MemoryT, Anchored
  <2>2. m.sighted \in [Epochs -> Time \cup {Never}]
    BY Zenon DEF MemoryT
  <2> QED
    BY <1>2, <2>1, <2>2, Zenon DEF Anchored
<1>3. CASE v = "violation"
  BY <1>3, Zenon DEF UpdateState, Anchored
<1> QED
  BY <1>1, <1>2, <1>3, Zenon DEF Anchored, Verdicts

\* What update_state makes of the sightings depends on the sightings only.
LEMMA SameSighted ==
  ASSUME NEW m \in MemoryT, NEW n \in MemoryT, m.sighted = n.sighted,
         NEW e \in Epochs, NEW v \in Verdicts, NEW t \in Time
  PROVE  UpdateState(m, e, v, t).sighted = UpdateState(n, e, v, t).sighted
<1>1. CASE Anchored(v)
  BY <1>1, Zenon DEF UpdateState, Anchored
<1>2. CASE v = "unanchored"
  BY <1>2, Zenon DEF UpdateState, MemoryT, Anchored
<1>3. CASE v = "violation"
  BY <1>3, Zenon DEF UpdateState, Anchored
<1> QED
  BY <1>1, <1>2, <1>3, Zenon DEF Anchored, Verdicts

\* A verdict of Unanchored on files that were read is given only within the bound, and
\* without the files only the first epoch is anchored.
LEMMA JudgeBound ==
  ASSUME NEW e \in Epochs, NEW files \in FilesT, NEW m \in MemoryT, NEW t \in Time
  PROVE  LET v == JudgeEpoch(e, files, m, t)
         IN  /\ v = "unanchored" /\ files.read => ~PastBound(m.sighted[e], t)
             /\ Anchored(v) /\ ~files.read => e = 1
<1>1. e \in Nat /\ e >= 1 /\ m.highest \in Nat /\ files.read \in BOOLEAN
  BY Numbers DEF MemoryT, FilesT, Epochs
<1>2. CASE e < m.highest
  <2>1. ~(e >= m.highest)
    BY <1>1, <1>2
  <2>2. JudgeEpoch(e, files, m, t) = "violation"
    BY <1>2, <2>1, Zenon DEF JudgeEpoch
  <2> QED
    BY <2>2, Zenon DEF Anchored
<1>3. CASE ~(e < m.highest)
  <2>0. e >= m.highest
    BY <1>1, <1>3
  <2>1. CASE ~files.read
    <3>1. CASE e <= 1
      <4>1. JudgeEpoch(e, files, m, t) = "legacy"
        BY <1>3, <2>0, <2>1, <3>1, Zenon DEF JudgeEpoch
      <4>2. e = 1
        BY <1>1, <3>1
      <4> QED
        BY <2>1, <4>1, <4>2, Zenon
    <3>2. CASE ~(e <= 1)
      <4>1. JudgeEpoch(e, files, m, t) = "unanchored"
        BY <1>3, <2>0, <2>1, <3>2, Zenon DEF JudgeEpoch
      <4> QED
        BY <2>1, <4>1, Zenon DEF Anchored
    <3> QED
      BY <3>1, <3>2, Zenon
  <2>2. CASE files.read
    <3>1. JudgeEpoch(e, files, m, t) = "unanchored" =>
            SoftOrHard(m.sighted[e], t) = "unanchored"
      <4>1. CASE ShowsLater(files, e)
        <5>1. JudgeEpoch(e, files, m, t) = SoftOrHard(m.sighted[e], t)
          BY <1>3, <2>0, <2>2, <4>1, Zenon DEF JudgeEpoch
        <5> QED
          BY <5>1, Zenon
      <4>2. CASE ~ShowsLater(files, e)
        <5>1. JudgeEpoch(e, files, m, t) =
                IF e = 1 THEN "legacy"
                ELSE IF e \in files.keys /\ e \in DoubleKeyed THEN "violation"
                ELSE IF ~Carries(files, e) THEN SoftOrHard(m.sighted[e], t)
                ELSE IF e \in MisKeyed THEN "violation" ELSE "v3"
          BY <1>3, <2>0, <2>2, <4>2, Zenon DEF JudgeEpoch
        <5> HIDE DEF Carries, SoftOrHard, JudgeEpoch
        <5> QED
          BY <5>1, Zenon
      <4> QED
        BY <4>1, <4>2, Zenon
    <3>2. SoftOrHard(m.sighted[e], t) = "unanchored" => ~PastBound(m.sighted[e], t)
      BY Zenon DEF SoftOrHard
    <3> QED
      BY <2>2, <3>1, <3>2, Zenon
  <2> QED
    BY <1>1, <2>1, <2>2, Zenon
<1> QED
  BY <1>2, <1>3, Zenon

\* A read returns nothing only when the anchor host may fail to answer.
LEMMA UnreadFiles ==
  ASSUME NEW files \in Readable, ~files.read
  PROVE  Unreachable
  BY SMTT(60) DEF Readable

\* A quiet step keeps the file and the noted disagreements, and leaves the anchoring.
LEMMA QuietNoted ==
  ASSUME TypeOK, PhaseInv, NotedInv, NEW p \in Procs, Quiet(p)
  PROVE  NotedInv'
<1>1. UNCHANGED <<clock, file, tmp, served, now, st, shown, verdict>> /\ QuietMove(p)
  BY QuietStep, Zenon DEF world, disk
<1>2. UNCHANGED noted
  BY Zenon DEF Quiet, GenesisUnread, SaveFails, Use, ReceiptRead, RangeRead, ProofRead,
         AttestationRead, ResponseRead, ReadFails, BeginAny, Begin
<1>3. /\ \A q \in Procs : q # p => pc'[q] = pc[q]
      /\ pc'[p] \notin {"fetch", "genesis", "save", "rename"}
  BY <1>1 DEF QuietMove, Onward, TypeOK
<1>4. Sights(file, clock)' /\ \A q \in Procs : Folding(q)'
  BY <1>1, <1>3, ZenonT(60) DEF NotedInv, Folding, Sights
<1> QED
  BY <1>1, <1>2, <1>4, Zenon DEF NotedInv

\* Judging by the cache, or by files just read.
LEMMA LoadNoted ==
  ASSUME Solo, TypeOK, PhaseInv, NotedInv, NEW p \in Procs, Load(p)
  PROVE  NotedInv'
<1>0. served[p] \in Epochs /\ clock \in Time /\ file \in MemoryT /\ pc[p] = "load"
  BY Zenon DEF Load, PhaseInv, TypeOK
<1>1. UNCHANGED <<clock, served, file, tmp, noted>> /\ now' = [now EXCEPT ![p] = clock]
  BY Zenon DEF Load, world, disk
<1>2. now'[p] = clock /\ clock <= clock
  BY <1>1, TimesInt DEF TypeOK
<1>3. Sights(file, clock)' /\ Sights(file, now[p])'
  BY <1>1, <1>2, Zenon DEF NotedInv, Sights
<1>4. CASE kind[p] = "write" /\ CacheAnswers(file, served[p], clock)
  <2> DEFINE v == JudgeEpoch(served[p], CachedFiles(file), file, clock)
             u == UpdateState(file, served[p], v, clock)
  <2>1. v \in Verdicts /\ CachedFiles(file).read
    BY <1>0, JudgeType, CachedType, Zenon
  <2>2. Anchored(v)
    BY <1>4, Zenon DEF CacheAnswers, Anchored
  <2>3. /\ pc' = [pc EXCEPT ![p] = "save"] /\ st' = [st EXCEPT ![p] = u]
        /\ verdict' = [verdict EXCEPT ![p] = v]
        /\ shown' = [shown EXCEPT ![p] = CachedFiles(file)]
    BY <1>4, Zenon DEF Load
  <2> HIDE DEF v
  <2>4. /\ pc'[p] = "save" /\ st'[p] = u /\ verdict'[p] = v
        /\ shown'[p].read
    BY <2>1, <2>3, ZenonT(60) DEF TypeOK
  <2>5. st'[p].sighted = UpdateState(file, served[p], verdict[p], now[p]).sighted'
    BY <1>1, <1>2, <2>4, Zenon DEF UpdateState, Anchored
  <2>6. Folding(p)'
    BY <1>1, <1>2, <1>3, <2>1, <2>2, <2>4, <2>5, Zenon DEF Folding, Anchored
  <2> QED
    BY <1>1, <1>3, <2>6, Zenon DEF NotedInv, Solo
<1>5. CASE ~(kind[p] = "write" /\ CacheAnswers(file, served[p], clock))
  <2>1. pc' = [pc EXCEPT ![p] = "fetch"] /\ st' = [st EXCEPT ![p] = file]
    BY <1>5, Zenon DEF Load
  <2>2. pc'[p] = "fetch" /\ st'[p] = file
    BY <2>1, ZenonT(60) DEF TypeOK
  <2>3. Folding(p)'
    BY <1>1, <1>2, <1>3, <2>2, Zenon DEF Folding
  <2> QED
    BY <1>1, <1>3, <2>3, Zenon DEF NotedInv, Solo
<1> QED
  BY <1>4, <1>5, Zenon

\* A fresh read folds its verdict into the memory as it was loaded.
LEMMA FetchNoted ==
  ASSUME Solo, TypeOK, PhaseInv, NotedInv, NEW p \in Procs, NEW files \in Readable,
         Fetch(p, files)
  PROVE  NotedInv'
<1> DEFINE v == JudgeEpoch(served[p], files, st[p], now[p])
           r == Refreshed(st[p], files, NoEpoch, now[p])
           u == UpdateState(r, served[p], v, now[p])
<1>1. /\ files \in FilesT /\ served[p] \in Epochs /\ st[p] \in MemoryT /\ now[p] \in Time
      /\ NoEpoch \in Epochs \cup {NoEpoch} /\ file \in MemoryT
      /\ pc[p] = "fetch" /\ st[p] = file /\ now[p] <= clock /\ Sights(file, now[p])
  BY ReadableType, Zenon DEF Fetch, PhaseInv, TypeOK, NotedInv, Folding
<1>2. v \in Verdicts
  BY <1>1, JudgeType, Zenon
<1>3. /\ v = "unanchored" /\ files.read => ~PastBound(st[p].sighted[served[p]], now[p])
      /\ Anchored(v) /\ ~files.read => served[p] = 1
  BY <1>1, JudgeBound, Zenon
<1>4. ~files.read => Unreachable
  BY UnreadFiles, Zenon
<1>5. /\ verdict' = [verdict EXCEPT ![p] = v] /\ shown' = [shown EXCEPT ![p] = files]
      /\ UNCHANGED <<clock, served, now, file, tmp, noted>>
  BY Zenon DEF Fetch, disk, world
<1>6. \/ pc' = pc /\ st' = st
      \/ pc' = [pc EXCEPT ![p] = "genesis"] /\ st' = st
      \/ pc' = [pc EXCEPT ![p] = "save"] /\ st' = [st EXCEPT ![p] = u]
  BY ZenonT(60) DEF Fetch
<1>7. r \in MemoryT /\ r.sighted = st[p].sighted
  BY <1>1, RefreshedKeeps, ZenonT(60)
<1>8. u.sighted = UpdateState(file, served[p], v, now[p]).sighted
  <2> HIDE DEF v, r
  <2> QED
    BY <1>1, <1>2, <1>7, SameSighted, ZenonT(60)
<1> HIDE DEF v, r, u
<1>9. verdict'[p] = v /\ shown'[p] = files
  BY <1>5, ZenonT(60) DEF TypeOK
<1>10. \/ pc'[p] \in {"fetch", "genesis"} /\ st'[p] = st[p]
       \/ pc'[p] = "save" /\ st'[p] = u
  BY <1>1, <1>6 DEF TypeOK
<1>11. Sights(file, clock)' /\ Sights(file, now[p])'
  BY <1>1, <1>5, Zenon DEF NotedInv, Sights
<1>12. CASE pc'[p] \in {"fetch", "genesis"} /\ st'[p] = st[p]
  <2>1. Folding(p)'
    BY <1>1, <1>5, <1>11, <1>12, Zenon DEF Folding
  <2> QED
    BY <1>5, <1>11, <2>1, Zenon DEF NotedInv, Solo
<1>13. CASE pc'[p] = "save" /\ st'[p] = u
  <2>1. st'[p].sighted = UpdateState(file, served[p], verdict[p], now[p]).sighted'
    BY <1>5, <1>8, <1>9, <1>13, Zenon DEF UpdateState, Anchored
  <2>2. /\ verdict'[p] = "unanchored" /\ shown'[p].read =>
             ~PastBound(file.sighted[served[p]], now[p])'
        /\ Anchored(verdict[p])' /\ ~shown'[p].read => ~Lasting(served[p])'
    BY <1>1, <1>3, <1>4, <1>5, <1>9, Zenon DEF PastBound, Anchored, Lasting
  <2>3. Folding(p)'
    BY <1>1, <1>2, <1>5, <1>9, <1>11, <1>13, <2>1, <2>2, Zenon DEF Folding
  <2> QED
    BY <1>5, <1>11, <2>3, Zenon DEF NotedInv, Solo
<1> QED
  BY <1>10, <1>12, <1>13, Zenon

\* So does a genesis check.
LEMMA GenesisNoted ==
  ASSUME Solo, TypeOK, PhaseInv, NotedInv, NEW p \in Procs, Genesis(p)
  PROVE  NotedInv'
<1> DEFINE good == served[p] \notin BadGenesis
           v == IF good THEN "v3" ELSE "violation"
           g == IF good THEN served[p] ELSE NoEpoch
           f == shown[p]
           r == Refreshed(st[p], f, g, now[p])
           u == UpdateState(r, served[p], v, now[p])
<1>1. /\ served[p] \in Epochs /\ v \in Verdicts /\ g \in Epochs \cup {NoEpoch}
      /\ st[p] \in MemoryT /\ now[p] \in Time /\ f \in FilesT /\ f.read /\ file \in MemoryT
      /\ pc[p] = "genesis" /\ st[p] = file /\ now[p] <= clock /\ Sights(file, now[p])
      /\ v # "unanchored"
  BY ZenonT(60) DEF Genesis, PhaseInv, Verdicts, TypeOK, NotedInv, Folding
<1>2. /\ verdict' = [verdict EXCEPT ![p] = v] /\ pc' = [pc EXCEPT ![p] = "save"]
      /\ st' = [st EXCEPT ![p] = u] /\ UNCHANGED <<clock, served, now, file, tmp, shown, noted>>
  BY Zenon DEF Genesis, disk, world
<1> HIDE DEF f, g, v
<1>3. r \in MemoryT /\ r.sighted = st[p].sighted
  BY <1>1, RefreshedKeeps, ZenonT(60)
<1>4. u.sighted = UpdateState(file, served[p], v, now[p]).sighted
  <2> HIDE DEF r
  <2> QED
    BY <1>1, <1>3, SameSighted
<1> HIDE DEF r, u
<1>5. verdict'[p] = v /\ pc'[p] = "save" /\ st'[p] = u /\ shown'[p].read
  BY <1>1, <1>2, Zenon DEF TypeOK, f
<1>6. Sights(file, clock)' /\ Sights(file, now[p])'
  BY <1>1, <1>2, Zenon DEF NotedInv, Sights
<1>7. st'[p].sighted = UpdateState(file, served[p], verdict[p], now[p]).sighted'
  BY <1>2, <1>4, <1>5, Zenon DEF UpdateState, Anchored
<1>8. Folding(p)'
  BY <1>1, <1>2, <1>5, <1>6, <1>7, Zenon DEF Folding
<1> QED
  BY <1>2, <1>6, <1>8, Zenon DEF NotedInv, Solo

\* The temporary file holds the memory about to be saved.
LEMMA WriteTmpNoted ==
  ASSUME Solo, TypeOK, PhaseInv, NotedInv, NEW p \in Procs, WriteTmp(p)
  PROVE  NotedInv'
<1>1. /\ pc[p] = "save" /\ tmp' = [held |-> TRUE, memory |-> st[p]]
      /\ pc' = [pc EXCEPT ![p] = "rename"]
      /\ UNCHANGED <<clock, served, now, file, shown, noted, st, verdict>>
  BY Zenon DEF WriteTmp, world, local
<1>2. pc'[p] = "rename" /\ tmp'.held /\ tmp'.memory = st'[p]
  BY <1>1, Zenon DEF TypeOK
<1>3. Sights(file, clock)' /\ Sights(file, now[p])'
  BY <1>1, Zenon DEF NotedInv, Folding, Sights
<1>4. Folding(p)'
  BY <1>1, <1>2, <1>3, ZenonT(60) DEF Folding, NotedInv, UpdateState, Anchored, PastBound, Lasting
<1> QED
  BY <1>1, <1>3, <1>4, Zenon DEF NotedInv, Solo

\* The rename: the file takes over the folded sightings, and what is noted from now on is
\* sighted in it.
LEMMA RenameNoted ==
  ASSUME Solo, TypeOK, PhaseInv, NotedInv, NEW p \in Procs, Rename(p)
  PROVE  NotedInv'
<1> DEFINE e == served[p]
           v == verdict[p]
           t == now[p]
<1>1. /\ pc[p] = "rename" /\ pc' = [pc EXCEPT ![p] = "use"] /\ file' = st[p]
      /\ UNCHANGED <<clock, now>>
  BY Zenon DEF Rename, world, local, NotedInv, Folding
<1>2. /\ e \in Epochs /\ v \in Verdicts /\ t \in Time /\ file \in MemoryT
      /\ st[p].sighted = UpdateState(file, e, v, t).sighted
      /\ t <= clock /\ Sights(file, t) /\ Sights(file, clock)
      /\ Anchored(v) /\ ~shown[p].read => ~Lasting(e)
  BY <1>1, Zenon DEF NotedInv, Folding, TypeOK, PhaseInv
<1>3. ASSUME NEW k \in Epochs
      PROVE  /\ Anchored(v) => file'.sighted[k] = IF k > e THEN file.sighted[k] ELSE Never
             /\ v = "unanchored" =>
                  file'.sighted[k] = IF k = e /\ file.sighted[k] = Never THEN t
                                     ELSE file.sighted[k]
             /\ v = "violation" => file'.sighted[k] = file.sighted[k]
  <2> HIDE DEF e, v, t
  <2>1. file'.sighted = UpdateState(file, e, v, t).sighted
    BY <1>1, <1>2, Zenon
  <2> DEFINE s == UpdateState(file, e, v, t).sighted
  <2>2. /\ Anchored(v) => s[k] = IF k > e THEN file.sighted[k] ELSE Never
        /\ v = "unanchored" =>
             s[k] = IF k = e /\ file.sighted[k] = Never THEN t ELSE file.sighted[k]
        /\ v = "violation" => s[k] = file.sighted[k]
    BY <1>2, UpdateSighted, SMTT(60)
  <2> QED
    BY <2>1, <2>2, Zenon
<1>4. /\ clock \in Nat /\ t \in Nat /\ t # Never /\ t <= t /\ Never <= clock
      /\ \A k \in Epochs : file.sighted[k] \in Int
  <2>1. clock \in Nat /\ t \in Nat /\ t \in Time \cup {Never}
    BY <1>2, TimesInt, Zenon
  <2>2. \A k \in Epochs : file.sighted[k] \in Time \cup {Never}
    BY <1>2, Zenon DEF MemoryT
  <2> HIDE DEF t
  <2> QED
    BY <2>1, <2>2, TimeInt, Order, Zenon
<1>5. Anchored(v) \/ v = "unanchored" \/ v = "violation"
  BY <1>2, Zenon DEF Verdicts, Anchored
<1>6. Sights(file, clock)'
  <2> SUFFICES ASSUME NEW k \in Epochs PROVE file'.sighted[k] <= clock
    BY <1>1, Zenon DEF Sights
  <2>1. file'.sighted[k] = file.sighted[k] \/ file'.sighted[k] = t \/ file'.sighted[k] = Never
    BY <1>3, <1>5, Zenon
  <2> QED
    BY <1>2, <1>4, <2>1, Zenon DEF Sights
<1>7. ASSUME NEW k \in Epochs, Lasting(k), noted'[k] # Never
      PROVE  file'.sighted[k] # Never /\ file'.sighted[k] <= noted'[k]
  <2>0. noted[k] # Never => file.sighted[k] # Never /\ file.sighted[k] <= noted[k]
    BY <1>7, Zenon DEF NotedInv
  <2>1. CASE Anchored(v) /\ shown[p].read
    <3>1. noted'[k] = IF k > e THEN noted[k] ELSE Never
      BY <2>1, Zenon DEF Rename, Anchored
    <3> QED
      BY <1>3, <1>7, <2>0, <2>1, <3>1, Zenon
  <2>2. CASE Anchored(v) /\ ~shown[p].read
    <3>1. noted' = noted
      BY <2>2, Zenon DEF Rename, Anchored
    <3>2. k > e
      BY <1>2, <1>7, <2>2, Order, Zenon DEF Lasting
    <3> QED
      BY <1>3, <1>7, <2>0, <2>2, <3>1, <3>2, Zenon
  <2>3. CASE v = "unanchored" /\ shown[p].read /\ noted[e] = Never
    <3>1. noted' = [noted EXCEPT ![e] = t]
      BY <2>3, Zenon DEF Rename, Anchored
    <3>2. noted'[k] = IF k = e THEN t ELSE noted[k]
      BY <3>1, ZenonT(60) DEF TypeOK
    <3>3. file.sighted[k] <= t
      BY <1>2, Zenon DEF Sights
    <3> QED
      BY <1>3, <1>4, <1>7, <2>0, <2>3, <3>2, <3>3, Zenon
  <2>4. CASE ~Anchored(v) /\ ~(v = "unanchored" /\ shown[p].read /\ noted[e] = Never)
    <3>1. noted' = noted
      BY <2>4, Zenon DEF Rename
    <3> QED
      BY <1>3, <1>5, <1>7, <2>0, <2>4, <3>1, Zenon
  <2> QED
    BY <2>1, <2>2, <2>3, <2>4, Zenon DEF Anchored
<1>8. Folding(p)'
  BY <1>1, <1>2, Zenon DEF Folding, TypeOK
<1> QED
  BY <1>6, <1>7, <1>8, Zenon DEF NotedInv, Solo, Lasting

\* With one process at a time every step keeps the sightings of what was noted.
LEMMA NextNoted ==
  ASSUME Solo
  PROVE  TypeOK /\ PhaseInv /\ NotedInv /\ [Next]_vars => NotedInv'
<1> SUFFICES ASSUME TypeOK, PhaseInv, NotedInv, [Next]_vars PROVE NotedInv'
  BY Zenon
<1>1. CASE World \/ UNCHANGED vars
  <2>1. /\ UNCHANGED <<file, tmp, pc, served, now, st, shown, verdict, noted>>
        /\ clock' \in {clock, clock + 1}
    BY <1>1, Zenon DEF World, Tick, PublishEnd, PublishKey, Serve, disk, local, vars
  <2>2. \A k \in Epochs : file.sighted[k] \in Int
    <3>1. \A k \in Epochs : file.sighted[k] \in Time \cup {Never}
      BY ZenonT(60) DEF MemoryT, TypeOK
    <3> QED
      BY <3>1, TimeInt, Zenon
  <2>3. Sights(file, clock)' /\ \A p \in Procs : now'[p] <= clock'
    <3>1. clock \in Int /\ \A p \in Procs : now[p] \in Int /\ now[p] <= clock
      BY TimesInt, Order, Zenon DEF NotedInv, Folding
    <3> QED
      BY <2>1, <2>2, <3>1, Order, Zenon DEF NotedInv, Sights
  <2>4. \A p \in Procs : Folding(p)'
    BY <2>1, <2>3, Zenon DEF NotedInv, Folding, Sights
  <2> QED
    BY <2>1, <2>3, <2>4, Zenon DEF NotedInv
<1>2. ASSUME NEW p \in Procs, Step(p) \/ Exit(p) \/ BeginAny(p)
      PROVE  NotedInv'
  <2>1. CASE ReadBundle(p) \/ ReadInfo(p)
    <3>1. /\ UNCHANGED <<clock, file, now, noted>>
          /\ pc'[p] \in {"info", "load"}
      BY <2>1, Zenon DEF ReadBundle, ReadInfo, world, disk, TypeOK
    <3> QED
      BY <3>1, Zenon DEF NotedInv, Folding, Sights, Solo
  <2>2. CASE Exit(p)
    <3>1. UNCHANGED <<clock, file, noted>> /\ pc'[p] = "idle" /\ now'[p] = 0
      BY <2>2, Zenon DEF Exit, world, disk, TypeOK
    <3>2. 0 <= clock
      BY TimesInt, Order, Zenon
    <3> QED
      BY <3>1, <3>2, ZenonT(60) DEF NotedInv, Folding, Sights, Solo
  <2>3. CASE FetchAny(p)
    BY <2>3, FetchNoted, Zenon DEF FetchAny
  <2>4. CASE Load(p)
    BY <2>4, LoadNoted, Zenon
  <2>5. CASE Genesis(p)
    BY <2>5, GenesisNoted, Zenon
  <2>6. CASE WriteTmp(p)
    BY <2>6, WriteTmpNoted, Zenon
  <2>7. CASE Rename(p)
    BY <2>7, RenameNoted, Zenon
  <2>8. CASE Quiet(p)
    BY <2>8, QuietNoted, Zenon
  <2> QED
    BY <1>2, <2>1, <2>2, <2>3, <2>4, <2>5, <2>6, <2>7, <2>8, Zenon DEF Step, FetchAny, Quiet
<1> QED
  BY <1>1, <1>2, Zenon DEF Next, BeginAny

\* DisagreementBounded for the epochs whose sightings last.
LastingBounded ==
  \A p \in Procs :
    verdict[p] = "unanchored" /\ shown[p].read /\ pc[p] \in {"save", "rename"}
    /\ Lasting(served[p]) =>
      noted[served[p]] = Never \/ now[p] - noted[served[p]] < Bound

\* The invariant of the sightings, with one process at a time.
LEMMA NotedInvariant ==
  ASSUME Solo
  PROVE  Spec => [](AnchorInv /\ NotedInv)
<1>1. Init => NotedInv
  BY NumberAssumption, SMTT(60) DEF Init, NotedInv, Folding, Sights, FreshMemory, Never
<1>2. AnchorInv /\ NotedInv /\ [Next]_vars => NotedInv'
  BY NextNoted, Zenon DEF AnchorInv
<1> QED
  BY <1>1, <1>2, AnchorInvariant, PTL DEF Spec

\* One process at a time: once the memory has known of a disagreement over an epoch after
\* the first for TRANSITION_BOUND, a command that still sees it reports a violation, also
\* when the anchor host fails to answer in between (judge_epoch, past_bound, update_state).
THEOREM LaterDisagreementEnds ==
  ASSUME Solo
  PROVE  Spec => []LastingBounded
<1>1. AnchorInv /\ NotedInv => LastingBounded
  <2> SUFFICES ASSUME TypeOK, PhaseInv, NotedInv, NEW p \in Procs, verdict[p] = "unanchored",
                      shown[p].read, pc[p] \in {"save", "rename"}, Lasting(served[p]),
                      noted[served[p]] # Never
               PROVE  now[p] - noted[served[p]] < Bound
    BY Zenon DEF LastingBounded, AnchorInv
  <2> DEFINE s == file.sighted[served[p]]
             n == noted[served[p]]
  <2>1. served[p] \in Epochs /\ file \in MemoryT
    BY Zenon DEF PhaseInv, TypeOK
  <2>2. s # Never /\ s <= n /\ ~PastBound(s, now[p])
    BY <2>1, Zenon DEF NotedInv, Folding
  <2>3. s \in Time \cup {Never} /\ n \in Time \cup {Never} /\ now[p] \in Time
    BY <2>1, ZenonT(60) DEF MemoryT, TypeOK
  <2>4. s \in Int /\ n \in Int /\ now[p] \in Int
    BY <2>3, TimeInt, Zenon
  <2> QED
    BY <2>2, <2>4, WithinBound, Zenon
<1> QED
  BY <1>1, NotedInvariant, PTL

\* The same for every epoch, where the anchor host answers: a reading without files makes
\* the first epoch legacy, and update_state then forgets its sighting.
THEOREM DisagreementEnds ==
  ASSUME Solo, ~Unreachable
  PROVE  Spec => []DisagreementBounded
<1>1. LastingBounded => DisagreementBounded
  BY Zenon DEF LastingBounded, DisagreementBounded, Lasting
<1> QED
  BY <1>1, LaterDisagreementEnds, PTL

-----------------------------------------------------------------------------
(* The ratchet. *)

\* While a process anchors, the ratchet in the file is not ahead of the epoch it was
\* served, and what it is about to save does not lower it.
RatchetInv ==
  \A p \in Procs :
    /\ file.highest <= serving /\ served[p] <= serving
    /\ pc[p] \in {"load", "fetch", "genesis"} => file.highest <= served[p]
    /\ st[p].highest <= served[p]
    /\ pc[p] \in {"save", "rename"} => st[p].highest >= file.highest

\* Epochs as the arithmetic needs them.
LEMMA EpochInts ==
  ASSUME TypeOK
  PROVE  /\ serving \in Nat /\ file.highest \in Nat
         /\ \A p \in Procs : served[p] \in Nat /\ bundle[p] \in Nat /\ st[p].highest \in Nat
<1>1. \A e \in Epochs \cup {NoEpoch} : e \in Nat
  BY Numbers, Zenon
<1>2. /\ serving \in Epochs /\ file.highest \in Epochs \cup {NoEpoch}
      /\ \A p \in Procs : /\ served[p] \in Epochs \cup {NoEpoch}
                          /\ bundle[p] \in Epochs \cup {NoEpoch}
                          /\ st[p].highest \in Epochs \cup {NoEpoch}
  BY Zenon DEF TypeOK, MemoryT
<1> QED
  BY <1>1, <1>2, Zenon

\* What a fresh read or a genesis check makes of the memory does not lower the ratchet.
LEMMA FoldedHighest ==
  ASSUME NEW m \in MemoryT, NEW files \in FilesT, NEW g \in Epochs \cup {NoEpoch},
         NEW e \in Epochs, NEW v \in Verdicts, NEW t \in Time
  PROVE  LET u == UpdateState(Refreshed(m, files, g, t), e, v, t)
         IN  u \in MemoryT /\ u.highest >= m.highest /\ u.highest \in {m.highest, e}
<1> DEFINE r == Refreshed(m, files, g, t)
<1>1. r \in MemoryT /\ r.highest = m.highest
  BY RefreshedKeeps, Zenon
<1> HIDE DEF r
<1> DEFINE u == UpdateState(r, e, v, t)
<1>2. u \in MemoryT /\ u.highest >= r.highest /\ (u.highest = r.highest \/ u.highest = e)
  BY <1>1, UpdateHighest, Zenon
<1> HIDE DEF u
<1>3. u \in MemoryT /\ u.highest >= m.highest /\ u.highest \in {m.highest, e}
  BY <1>1, <1>2, Zenon
<1> QED
  BY <1>3, Zenon DEF u, r

\* Every step keeps the invariant, and none lowers the ratchet.
LEMMA NextRatchet ==
  ASSUME Solo
  PROVE  TypeOK /\ PhaseInv /\ NotedInv /\ RatchetInv /\ [Next]_vars
           => RatchetInv' /\ file'.highest >= file.highest
<1> SUFFICES ASSUME TypeOK, PhaseInv, NotedInv, RatchetInv, [Next]_vars
             PROVE  RatchetInv' /\ file'.highest >= file.highest
  BY Zenon
<1>0. file.highest >= file.highest
  BY EpochInts, Transitive, ZenonT(60)
<1>1. CASE World \/ UNCHANGED vars
  <2>1. UNCHANGED <<file, pc, served, st>> /\ serving' \in {serving, serving + 1}
    BY <1>1, Zenon DEF World, Tick, PublishEnd, PublishKey, Serve, disk, local, vars
  <2> QED
    BY <1>0, <2>1, EpochInts DEF RatchetInv
<1>2. ASSUME NEW p \in Procs, Step(p) \/ Exit(p) \/ BeginAny(p)
      PROVE  RatchetInv' /\ file'.highest >= file.highest
  <2>0. served[p] \in Nat /\ serving \in Nat /\ file.highest \in Nat /\ st[p].highest \in Nat
        /\ file.highest <= serving /\ served[p] <= serving /\ served[p] <= served[p]
    BY EpochInts, Order, Zenon DEF RatchetInv
  <2>1. CASE ReadBundle(p)
    <3>1. UNCHANGED <<file, serving, served, st>> /\ pc'[p] = "info"
      BY <2>1, Zenon DEF ReadBundle, world, disk, TypeOK
    <3> QED
      BY <1>0, <3>1, Zenon DEF RatchetInv, Solo
  <2>2. CASE ReadInfo(p)
    <3>1. UNCHANGED <<file, serving, st>> /\ pc'[p] = "load" /\ served'[p] = serving
      BY <2>2, ZenonT(60) DEF ReadInfo, world, disk, TypeOK
    <3>2. serving <= serving
      BY <2>0
    <3>3. st[p].highest <= serving
      BY <2>0 DEF RatchetInv
    <3> QED
      BY <1>0, <2>0, <3>1, <3>2, <3>3, Zenon DEF RatchetInv, Solo
  <2>3. CASE Exit(p)
    <3>1. UNCHANGED <<file, serving>> /\ pc'[p] = "idle" /\ served'[p] = NoEpoch
          /\ st'[p].highest = NoEpoch
      BY <2>3, ZenonT(60) DEF Exit, world, disk, FreshMemory, TypeOK
    <3>2. NoEpoch <= serving /\ NoEpoch <= NoEpoch
      BY <2>0 DEF NoEpoch
    <3> QED
      BY <1>0, <2>0, <3>1, <3>2, Zenon DEF RatchetInv, Solo
  <2>4. CASE Load(p)
    <3>0. /\ UNCHANGED <<file, serving, served>> /\ pc[p] = "load"
          /\ served[p] \in Epochs /\ clock \in Time /\ file \in MemoryT
      BY <2>4, Zenon DEF Load, world, disk, PhaseInv, TypeOK
    <3>1. CASE kind[p] = "write" /\ CacheAnswers(file, served[p], clock)
      <4> DEFINE v == JudgeEpoch(served[p], CachedFiles(file), file, clock)
                 u == UpdateState(file, served[p], v, clock)
      <4>1. v \in Verdicts
        BY <3>0, JudgeType, CachedType, Zenon
      <4>2. pc'[p] = "save" /\ st'[p] = u
        BY <2>4, <3>1, Zenon DEF Load, TypeOK
      <4> HIDE DEF v
      <4>3. u.highest >= file.highest /\ (u.highest = file.highest \/ u.highest = served[p])
        BY <3>0, <4>1, UpdateFacts, Zenon
      <4> HIDE DEF u
      <4>4. u.highest <= served[p]
        BY <2>0, <3>0, <4>3, Zenon DEF RatchetInv
      <4> QED
        BY <1>0, <2>0, <3>0, <4>2, <4>3, <4>4, Zenon DEF RatchetInv, Solo
    <3>2. CASE ~(kind[p] = "write" /\ CacheAnswers(file, served[p], clock))
      <4>1. pc'[p] = "fetch" /\ st'[p] = file
        BY <2>4, <3>2, ZenonT(60) DEF Load, TypeOK
      <4> QED
        BY <1>0, <3>0, <4>1, Zenon DEF RatchetInv, Solo
    <3> QED
      BY <3>1, <3>2, Zenon
  <2>5. CASE FetchAny(p)
    <3>1. PICK files \in Readable : Fetch(p, files)
      BY <2>5, Zenon DEF FetchAny
    <3> DEFINE v == JudgeEpoch(served[p], files, st[p], now[p])
               u == UpdateState(Refreshed(st[p], files, NoEpoch, now[p]), served[p], v, now[p])
    <3>2. files \in FilesT /\ served[p] \in Epochs /\ st[p] \in MemoryT /\ now[p] \in Time
          /\ NoEpoch \in Epochs \cup {NoEpoch} /\ pc[p] = "fetch"
      BY <3>1, ReadableType, ZenonT(60) DEF Fetch, PhaseInv, TypeOK
    <3>3. v \in Verdicts
      BY <3>2, JudgeType, Zenon
    <3>4. st[p] = file /\ file.highest <= served[p] /\ served[p] <= serving
      BY <3>2, Zenon DEF NotedInv, Folding, RatchetInv
    <3>5. /\ UNCHANGED <<file, serving, served>>
          /\ \/ pc'[p] \in {"fetch", "genesis"} /\ st'[p] = st[p]
             \/ pc'[p] = "save" /\ st'[p] = u
      BY <3>1, <3>2, ZenonT(60) DEF Fetch, world, disk, TypeOK
    <3> HIDE DEF v
    <3>6. u.highest >= file.highest /\ u.highest \in {file.highest, served[p]}
      BY <3>2, <3>3, <3>4, FoldedHighest, Zenon
    <3> HIDE DEF u
    <3>7. u.highest <= served[p]
      BY <2>0, <3>4, <3>6, Zenon
    <3> QED
      BY <1>0, <2>0, <3>4, <3>5, <3>6, <3>7, Zenon DEF RatchetInv, Solo
  <2>6. CASE Genesis(p)
    <3> DEFINE v == IF served[p] \notin BadGenesis THEN "v3" ELSE "violation"
               g == IF served[p] \notin BadGenesis THEN served[p] ELSE NoEpoch
               u == UpdateState(Refreshed(st[p], shown[p], g, now[p]), served[p], v, now[p])
    <3>1. served[p] \in Epochs /\ v \in Verdicts /\ g \in Epochs \cup {NoEpoch}
          /\ st[p] \in MemoryT /\ now[p] \in Time /\ shown[p] \in FilesT /\ pc[p] = "genesis"
      BY <2>6, Zenon DEF Genesis, PhaseInv, Verdicts, TypeOK
    <3>2. st[p] = file /\ file.highest <= served[p]
      BY <3>1, Zenon DEF NotedInv, Folding, RatchetInv
    <3>3. UNCHANGED <<file, serving, served>> /\ pc'[p] = "save" /\ st'[p] = u
      BY <2>6, ZenonT(60) DEF Genesis, world, disk, TypeOK
    <3> HIDE DEF v, g
    <3>4. u.highest >= file.highest /\ u.highest \in {file.highest, served[p]}
      BY <3>1, <3>2, FoldedHighest, Zenon
    <3> HIDE DEF u
    <3> QED
      BY <1>0, <2>0, <3>2, <3>3, <3>4, Zenon DEF RatchetInv, Solo
  <2>7. CASE WriteTmp(p)
    <3>1. UNCHANGED <<file, serving, served, st>> /\ pc[p] = "save" /\ pc'[p] = "rename"
      BY <2>7, Zenon DEF WriteTmp, world, local, TypeOK
    <3> QED
      BY <1>0, <3>1, Zenon DEF RatchetInv, Solo
  <2>8. CASE Rename(p)
    <3>1. UNCHANGED <<serving, served, st>> /\ pc[p] = "rename" /\ pc'[p] = "use"
          /\ file' = IF tmp.held THEN tmp.memory ELSE file
      BY <2>8, Zenon DEF Rename, world, local, TypeOK
    <3>2. file' = st[p]
      BY <3>1, Zenon DEF NotedInv, Folding
    <3>3. st[p].highest <= served[p] /\ st[p].highest >= file.highest
      BY <3>1, Zenon DEF RatchetInv
    <3>4. st[p].highest <= serving
      <4>1. st[p].highest \in Int /\ served[p] \in Int /\ serving \in Int
        BY <2>0, Order, Zenon
      <4> QED
        BY <2>0, <3>3, <4>1, Transitive, Zenon
    <3> QED
      BY <1>0, <2>0, <3>1, <3>2, <3>3, <3>4, ZenonT(60) DEF RatchetInv, Solo
  <2>9. CASE Quiet(p)
    <3>1. UNCHANGED <<file, serving, served, st>> /\ QuietMove(p)
      BY <2>9, QuietStep, ZenonT(60) DEF world, disk
    <3>2. pc'[p] \notin {"load", "fetch", "genesis", "save", "rename"}
      BY <3>1 DEF QuietMove, Onward, TypeOK
    <3> QED
      BY <1>0, <2>0, <3>1, <3>2, ZenonT(60) DEF RatchetInv, Solo, TypeOK
  <2> QED
    BY <1>2, <2>1, <2>2, <2>3, <2>4, <2>5, <2>6, <2>7, <2>8, <2>9, Zenon DEF Step, FetchAny, Quiet
<1> QED
  BY <1>1, <1>2, Zenon DEF Next, BeginAny

\* The invariant of the ratchet, with one process at a time.
LEMMA RatchetInvariant ==
  ASSUME Solo
  PROVE  Spec => [](AnchorInv /\ NotedInv /\ RatchetInv)
<1>1. Init => RatchetInv
  <2> SUFFICES ASSUME Init, NEW p \in Procs
               PROVE  /\ 0 <= 1 /\ 0 <= 0 /\ pc[p] = "idle" /\ file.highest = 0 /\ served[p] = 0
                      /\ st[p].highest = 0 /\ serving = 1
    BY Zenon DEF RatchetInv
  <2> QED
    BY DEF Init, FreshMemory, NoEpoch
<1>2. AnchorInv /\ NotedInv /\ RatchetInv /\ [Next]_vars => RatchetInv'
  BY NextRatchet, Zenon DEF AnchorInv
<1> QED
  BY <1>1, <1>2, NotedInvariant, PTL DEF Spec

\* A step never lowers the highest epoch the state file records.
HighestKept == [][file'.highest >= file.highest]_vars

\* One process at a time: the highest epoch the state file records never goes down,
\* whatever is killed and whichever save fails (load_state, update_state, save_state).
THEOREM RatchetKept ==
  ASSUME Solo
  PROVE  Spec => HighestKept
<1>1. AnchorInv /\ NotedInv /\ RatchetInv /\ [Next]_vars => [file'.highest >= file.highest]_vars
  BY NextRatchet, Zenon DEF AnchorInv
<1> QED
  BY <1>1, RatchetInvariant, PTL DEF Spec, HighestKept

---------------------------------------------------------------------------
(* An honest operator. *)

\* The operator's keys and genesis entries are the published ones, a cut is over, and a
\* command has anchored, within the transition bound, and the files are not served for
\* longer than that either.
HonestOperator ==
  /\ MisKeyed = {} /\ DoubleKeyed = {} /\ BadGenesis = {}
  /\ CutWindow + Span < Bound /\ CdnLag <= Bound

\* With the end lines out at E and the key lines at K: when the lines of the cut from e
\* came out; whether one did by t, and whether all that did are at t not older than the
\* window; and whether both lines that make e an epoch are out by t.
Cut(E, K, e) == ({E[e]} \cup {K[k] : k \in Epochs \cap {e + 1}}) \ {Never}
SomeBy(E, K, e, t) == \E at \in Cut(E, K, e) : at <= t
Recent(E, K, e, t) == \A at \in Cut(E, K, e) : t - at <= CutWindow
Begun(E, K, e, t) == K[e] # Never /\ K[e] <= t /\ E[e - 1] # Never /\ E[e - 1] <= t

\* A memory knows no epoch the server has not served, sighted the first epoch only when a
\* line of the cut from it was all but out, and a later one only when its lines were.
Grounded(m, E, K, s) ==
  /\ m.highest <= s
  /\ m.sighted[1] # Never => SomeBy(E, K, 1, m.sighted[1] + Span)
  /\ \A e \in Epochs \ {1} : m.sighted[e] # Never => Begun(E, K, e, m.sighted[e])

\* The memory's sighting of e is from before the cut from e.
Older(m, E, K, e, c) ==
  /\ m.sighted[e] # Never /\ e # 1 /\ m.sighted[e] + Span < c
  /\ \A at \in Cut(E, K, e) : m.sighted[e] + Span < at

\* The cuts come in order, and the one from the served epoch is within its window.
CutInv ==
  /\ \A e \in Epochs : endAt[e] <= clock /\ keyAt[e] <= clock
  /\ \A e \in Epochs : serving < e => endAt[e] = Never
  /\ \A e \in Epochs : serving + 1 < e => keyAt[e] = Never
  /\ \A e \in Epochs : e < serving => endAt[e] # Never
  /\ \A e \in Epochs : 1 < e /\ e <= serving => keyAt[e] # Never
  /\ Recent(endAt, keyAt, serving, clock)
  /\ Grounded(file, endAt, keyAt, serving) /\ Grounded(tmp.memory, endAt, keyAt, serving)

\* What a verdict of violation comes from: the ratchet, or a sighting from before the cut.
Alarmed(p) ==
  \/ served[p] < st[p].highest
  \/ served[p] \in Epochs /\ Older(st[p], endAt, keyAt, served[p], clock)

Reads(p) == kind[p] \in {"write", "self"}

\* A command: what it was served is current enough while it anchors, and no older than its
\* bundle; its second attempt is at a later epoch than the first.
Proc(p) ==
  /\ now[p] <= clock /\ served[p] <= serving /\ bundle[p] <= serving
  /\ Grounded(st[p], endAt, keyAt, serving)
  /\ pc[p] = "load" => Recent(endAt, keyAt, served[p], clock)
  /\ pc[p] = "fetch" =>
       /\ clock - now[p] <= Span
       /\ Recent(endAt, keyAt, served[p], now[p])
       /\ served[p] # 1 => Begun(endAt, keyAt, served[p], now[p])
  /\ Reads(p) /\ pc[p] \notin {"idle", "bundle", "done"} => bundle[p] # NoEpoch
  /\ Reads(p) /\ pc[p] \notin {"idle", "bundle", "info", "done"} => bundle[p] <= served[p]
  /\ attempt[p] = 2 =>
       /\ pc[p] # "idle" /\ serving # 1
       /\ Reads(p) /\ pc[p] \notin {"bundle", "done"} => bundle[p] # 1
       /\ pc[p] \notin {"bundle", "info", "done"} => served[p] # 1
  /\ pc[p] \in {"genesis", "save", "rename", "use", "ask"} =>
       /\ verdict[p] = "legacy" => served[p] = 1
       /\ verdict[p] = "v3" => served[p] # 1
       /\ verdict[p] = "violation" => Alarmed(p)
  /\ result[p] = "violation" =>
       /\ pc[p] = "done"
       /\ IF verdict[p] = "violation" THEN Alarmed(p)
          ELSE NoEpoch \in answers[p] \/ MovedAgain(p)

HonestInv == CutInv /\ \A p \in Procs : Proc(p)

\* The arithmetic of a judgement during a cut.
LEMMA CutTimes ==
  ASSUME HonestOperator
  PROVE  /\ \A s, t, at \in Int : t - at <= CutWindow /\ at <= s + Span => ~PastBound(s, t)
         /\ \A s, t, at, c \in Int : PastBound(s, t) /\ at <= s /\ t <= c => at <= c - CdnLag
         /\ \A a, c, t \in Int : a <= c /\ c - t <= Span => a <= t + Span
         /\ \A s, t, c \in Int : PastBound(s, t) /\ t <= c => s + Span < c
         /\ \A s, at \in Int : ~(at <= s + Span) => s + Span < at
  BY NumberAssumption DEF HonestOperator, PastBound

\* A line that has come out stays as it is; one that has not comes out now.
Grows(E, K, F, L, c) ==
  \A e \in Epochs :
    /\ E[e] # Never => F[e] = E[e]
    /\ F[e] \in {E[e], c}
    /\ K[e] # Never => L[e] = K[e]
    /\ L[e] \in {K[e], c}

\* The lines of a cut.
LEMMA CutIs ==
  ASSUME NEW E, NEW K, NEW e \in Epochs
  PROVE  /\ \A at \in Cut(E, K, e) :
              at # Never /\ (at = E[e] \/ (e + 1 \in Epochs /\ at = K[e + 1]))
         /\ E[e] # Never => E[e] \in Cut(E, K, e)
         /\ e + 1 \in Epochs /\ K[e + 1] # Never => K[e + 1] \in Cut(E, K, e)
<1>1. \A at \in Cut(E, K, e) :
        at # Never /\ (at = E[e] \/ (e + 1 \in Epochs /\ at = K[e + 1]))
  BY Zenon DEF Cut
<1>2. E[e] # Never => E[e] \in Cut(E, K, e)
  BY Zenon DEF Cut
<1>3. e + 1 \in Epochs /\ K[e + 1] # Never => K[e + 1] \in Cut(E, K, e)
  BY Zenon DEF Cut
<1> QED
  BY <1>1, <1>2, <1>3, Zenon

\* Their times are integers.
LEMMA CutInt ==
  ASSUME TypeOK, NEW e \in Epochs
  PROVE  \A at \in Cut(endAt, keyAt, e) : at \in Int
<1> SUFFICES ASSUME NEW at \in Cut(endAt, keyAt, e) PROVE at \in Int
  BY Zenon
<1>1. \A k \in Epochs : endAt[k] \in Int /\ keyAt[k] \in Int
  BY TimeInt, Zenon DEF TypeOK
<1>2. at = endAt[e] \/ (e + 1 \in Epochs /\ at = keyAt[e + 1])
  BY Zenon DEF Cut
<1> QED
  BY <1>1, <1>2, Zenon

\* A cut whose lines only come out.
LEMMA GrowsCut ==
  ASSUME NEW E, NEW K, NEW F, NEW L, NEW c, c # Never, Grows(E, K, F, L, c), NEW e \in Epochs
  PROVE  /\ \A at \in Cut(E, K, e) : at \in Cut(F, L, e)
         /\ \A at \in Cut(F, L, e) : at \in Cut(E, K, e) \/ at = c
<1>1. ASSUME NEW at \in Cut(E, K, e) PROVE at \in Cut(F, L, e)
  <2>1. at # Never /\ (at = E[e] \/ (e + 1 \in Epochs /\ at = K[e + 1]))
    BY <1>1, Zenon DEF Cut
  <2>2. at = F[e] \/ (e + 1 \in Epochs /\ at = L[e + 1])
    BY <2>1, Zenon DEF Grows
  <2> QED
    BY <2>1, <2>2, Zenon DEF Cut
<1>2. ASSUME NEW at \in Cut(F, L, e) PROVE at \in Cut(E, K, e) \/ at = c
  <2>1. at # Never /\ (at = F[e] \/ (e + 1 \in Epochs /\ at = L[e + 1]))
    BY <1>2, Zenon DEF Cut
  <2>2. at = c \/ at = E[e] \/ (e + 1 \in Epochs /\ at = K[e + 1])
    BY <2>1, Zenon DEF Grows
  <2> QED
    BY <2>1, <2>2, Zenon DEF Cut
<1> QED
  BY <1>1, <1>2, Zenon

\* The epoch before a later one.
LEMMA EpochBefore == \A e \in Epochs \ {1} : e - 1 \in Epochs /\ e \in Nat /\ (e - 1) + 1 = e
  BY NumberAssumption DEF Epochs

\* What is said of a cut stays so as its lines come out.
LEMMA GrowsKeeps ==
  ASSUME NEW E, NEW K, NEW F, NEW L, NEW c \in Int, c # Never, Grows(E, K, F, L, c),
         NEW e \in Epochs
  PROVE  /\ \A t : SomeBy(E, K, e, t) => SomeBy(F, L, e, t)
         /\ \A t \in Int : t <= c /\ Recent(E, K, e, t) => Recent(F, L, e, t)
         /\ \A t : e # 1 /\ Begun(E, K, e, t) => Begun(F, L, e, t)
         /\ \A m : Older(m, E, K, e, c) => Older(m, F, L, e, c)
<1>1. \A t : SomeBy(E, K, e, t) => SomeBy(F, L, e, t)
  BY GrowsCut, Zenon DEF SomeBy
<1>2. \A t \in Int : t <= c /\ Recent(E, K, e, t) => Recent(F, L, e, t)
  <2> SUFFICES ASSUME NEW t \in Int, t <= c, Recent(E, K, e, t), NEW at \in Cut(F, L, e)
               PROVE  t - at <= CutWindow
    BY Zenon DEF Recent
  <2>1. at \in Cut(E, K, e) \/ at = c
    BY GrowsCut, Zenon
  <2> QED
    BY <2>1, NowTimes, Zenon DEF Recent
<1>3. \A t : e # 1 /\ Begun(E, K, e, t) => Begun(F, L, e, t)
  <2> SUFFICES ASSUME NEW t, e # 1, Begun(E, K, e, t) PROVE Begun(F, L, e, t)
    BY Zenon
  <2>1. e - 1 \in Epochs
    BY EpochBefore, Zenon
  <2>2. L[e] = K[e] /\ F[e - 1] = E[e - 1]
    BY <2>1, Zenon DEF Grows, Begun
  <2> QED
    BY <2>2, Zenon DEF Begun
<1>4. \A m : Older(m, E, K, e, c) => Older(m, F, L, e, c)
  <2> SUFFICES ASSUME NEW m, Older(m, E, K, e, c), NEW at \in Cut(F, L, e)
               PROVE  m.sighted[e] + Span < at
    BY Zenon DEF Older
  <2>1. at \in Cut(E, K, e) \/ at = c
    BY GrowsCut, Zenon
  <2> QED
    BY <2>1, Zenon DEF Older
<1> QED
  BY <1>1, <1>2, <1>3, <1>4, Zenon

\* A memory stays grounded while lines only come out and the server only moves on.
LEMMA GroundedStays ==
  ASSUME NEW E, NEW K, NEW F, NEW L, NEW c \in Int, c # Never, Grows(E, K, F, L, c),
         NEW s \in Nat, NEW u \in Nat, s <= u, NEW m \in MemoryT, Grounded(m, E, K, s)
  PROVE  Grounded(m, F, L, u)
<1>1. m.highest \in Int /\ s \in Int /\ u \in Int /\ 1 \in Epochs
  BY Numbers, Order, Zenon DEF MemoryT
<1>2. m.highest <= u
  BY <1>1, Transitive, Zenon DEF Grounded
<1>3. m.sighted[1] # Never => SomeBy(F, L, 1, m.sighted[1] + Span)
  BY <1>1, GrowsKeeps, ZenonT(60) DEF Grounded
<1>4. \A e \in Epochs \ {1} : m.sighted[e] # Never => Begun(F, L, e, m.sighted[e])
  BY GrowsKeeps, Zenon DEF Grounded
<1> QED
  BY <1>2, <1>3, <1>4, Zenon DEF Grounded

\* Grounding reads the ratchet and the sightings only.
LEMMA GroundedSame ==
  ASSUME NEW E, NEW K, NEW s, NEW m, NEW n, m.highest = n.highest, m.sighted = n.sighted,
         Grounded(m, E, K, s)
  PROVE  Grounded(n, E, K, s)
  BY Zenon DEF Grounded

\* A fresh memory is grounded.
LEMMA GroundedFresh ==
  ASSUME NEW E, NEW K, NEW s \in Epochs
  PROVE  Grounded(FreshMemory, E, K, s) /\ Grounded(NoTmp.memory, E, K, s)
<1>1. NoEpoch <= s /\ 1 \in Epochs
  BY NumberAssumption DEF NoEpoch, Epochs
<1>2. NoTmp.memory = FreshMemory
  BY Zenon DEF NoTmp
<1>3. FreshMemory.highest = NoEpoch /\ \A e \in Epochs : FreshMemory.sighted[e] = Never
  BY Zenon DEF FreshMemory
<1> QED
  BY <1>1, <1>2, <1>3, Zenon DEF Grounded

\* A sighting of e that the verdict v stamps at time t is one of a cut.
Witnessed(E, K, e, v, t) ==
  v = "unanchored" => (e = 1 => SomeBy(E, K, 1, t + Span)) /\ (e # 1 => Begun(E, K, e, t))

\* update_state clears sightings, and stamps one of an unanchored epoch.
LEMMA UpdateStamps ==
  ASSUME NEW m \in MemoryT, NEW e \in Epochs, NEW v \in Verdicts, NEW t \in Time,
         NEW k \in Epochs
  PROVE  \/ UpdateState(m, e, v, t).sighted[k] \in {Never, m.sighted[k]}
         \/ v = "unanchored" /\ k = e /\ UpdateState(m, e, v, t).sighted[k] = t
<1> DEFINE s == UpdateState(m, e, v, t).sighted
<1>1. /\ Anchored(v) => s[k] = IF k > e THEN m.sighted[k] ELSE Never
      /\ v = "unanchored" => s[k] = IF k = e /\ m.sighted[k] = Never THEN t ELSE m.sighted[k]
      /\ v = "violation" => s[k] = m.sighted[k]
  BY UpdateSighted
<1>2. Anchored(v) \/ v = "unanchored" \/ v = "violation"
  BY Zenon DEF Verdicts, Anchored
<1> HIDE DEF s
<1>3. s[k] \in {Never, m.sighted[k]} \/ (v = "unanchored" /\ k = e /\ s[k] = t)
  BY <1>1, <1>2, Zenon
<1> QED
  BY <1>3, ZenonT(60) DEF s

\* update_state keeps a memory grounded, if a sighting it stamps is one of a cut.
LEMMA GroundedUpdate ==
  ASSUME NEW E, NEW K, NEW s \in Nat, NEW m \in MemoryT, NEW e \in Epochs, NEW v \in Verdicts,
         NEW t \in Time, Grounded(m, E, K, s), e <= s,
         Witnessed(E, K, e, v, t)
  PROVE  Grounded(UpdateState(m, e, v, t), E, K, s)
<1> DEFINE u == UpdateState(m, e, v, t)
<1>1. u.highest <= s
  <2>1. u.highest = m.highest \/ u.highest = e
    BY UpdateHighest, ZenonT(60)
  <2> HIDE DEF u
  <2> QED
    BY <2>1, Zenon DEF Grounded
<1>2. \A k \in Epochs :
        \/ u.sighted[k] \in {Never, m.sighted[k]}
        \/ v = "unanchored" /\ k = e /\ u.sighted[k] = t
  <2> TAKE k \in Epochs
  <2> QED
    BY UpdateStamps
<1> HIDE DEF u
<1>3. 1 \in Epochs
  BY Numbers, Zenon
<1>4. u.sighted[1] # Never => SomeBy(E, K, 1, u.sighted[1] + Span)
  BY <1>2, <1>3, Zenon DEF Grounded, Witnessed
<1>5. \A k \in Epochs \ {1} : u.sighted[k] # Never => Begun(E, K, k, u.sighted[k])
  BY <1>2, Zenon DEF Grounded, Witnessed
<1> QED
  BY <1>1, <1>4, <1>5, Zenon DEF Grounded, u

\* What the files read now show, and what they must show.
LEMMA ReadableLines ==
  ASSUME TypeOK, NEW files \in Readable, files.read
  PROVE  /\ \A d \in files.ends : d \in Epochs /\ endAt[d] # Never /\ endAt[d] <= clock
         /\ \A k \in files.keys : k \in Epochs /\ keyAt[k] # Never /\ keyAt[k] <= clock
         /\ \A d \in Epochs : endAt[d] # Never /\ endAt[d] <= clock - CdnLag => d \in files.ends
         /\ \A k \in Epochs : keyAt[k] # Never /\ keyAt[k] <= clock - CdnLag => k \in files.keys
<1>1. files # NoFiles
  BY DEF NoFiles
<1>2. PICK r, k \in clock - CdnLag .. clock :
        files = [read |-> TRUE, ends |-> Lines(endAt, r), keys |-> Lines(keyAt, k)]
  BY <1>1 DEF Readable
<1>3. \A e \in Epochs : endAt[e] \in Int /\ keyAt[e] \in Int
  BY TimeInt, ZenonT(60) DEF TypeOK
<1>4. \A x \in clock - CdnLag .. clock : \A at \in Int :
        (at <= x => at <= clock) /\ (at <= clock - CdnLag => at <= x)
  <2>1. clock \in Int /\ CdnLag \in Int
    BY NumberAssumption, Numbers DEF TypeOK
  <2> QED
    BY <2>1
<1>5. files.ends = Lines(endAt, r) /\ files.keys = Lines(keyAt, k)
  BY <1>2, Zenon
<1>6. /\ \A d \in files.ends : d \in Epochs /\ endAt[d] # Never /\ endAt[d] <= clock
      /\ \A d \in Epochs : endAt[d] # Never /\ endAt[d] <= clock - CdnLag => d \in files.ends
  BY <1>3, <1>4, <1>5, Zenon DEF Lines
<1>7. /\ \A d \in files.keys : d \in Epochs /\ keyAt[d] # Never /\ keyAt[d] <= clock
      /\ \A d \in Epochs : keyAt[d] # Never /\ keyAt[d] <= clock - CdnLag => d \in files.keys
  BY <1>3, <1>4, <1>5, Zenon DEF Lines
<1> QED
  BY <1>6, <1>7, Zenon

\* What shows a later epoch than e came after a line of the cut from e.
LEMMA LaterShown ==
  ASSUME TypeOK, CutInv, NEW e \in Epochs, NEW files \in Readable, files.read,
         ShowsLater(files, e)
  PROVE  SomeBy(endAt, keyAt, e, clock)
<1>1. /\ files.keys \subseteq Epochs /\ files.ends \subseteq Epochs
      /\ \A d \in files.ends : endAt[d] # Never
      /\ \A k \in files.keys : keyAt[k] # Never
  BY ReadableLines, Zenon
<1>2. serving \in Epochs
  BY Zenon DEF TypeOK
<1>3. endAt[e] # Never \/ (e + 1 \in Epochs /\ keyAt[e + 1] # Never)
  <2>1. CASE \E k \in files.keys : k > e
    <3>1. PICK k \in files.keys : k > e
      BY <2>1, Zenon
    <3>2. keyAt[k] # Never /\ k \in Epochs
      BY <1>1, <3>1, ZenonT(60)
    <3>3. k <= serving + 1
      BY <1>2, <3>2 DEF CutInv, Epochs
    <3>4. k = e + 1 \/ e < serving
      BY <1>2, <3>1, <3>2, <3>3 DEF Epochs
    <3> QED
      BY <3>2, <3>4, Zenon DEF CutInv
  <2>2. CASE \E d \in files.ends : d + 1 > e
    <3>1. PICK d \in files.ends : d + 1 > e
      BY <2>2, Zenon
    <3>2. endAt[d] # Never /\ d \in Epochs
      BY <1>1, <3>1, ZenonT(60)
    <3>3. d <= serving
      BY <1>2, <3>2 DEF CutInv, Epochs
    <3>4. d = e \/ e < serving
      BY <1>2, <3>1, <3>2, <3>3 DEF Epochs
    <3> QED
      BY <3>2, <3>4, Zenon DEF CutInv
  <2> QED
    BY <2>1, <2>2, ZenonT(60) DEF ShowsLater
<1> QED
  BY <1>3, CutIs, Zenon DEF CutInv, SomeBy

\* Against an honest operator judge_epoch finds a violation only in an epoch behind the
\* ratchet, or in one that the memory sighted before the cut from it: a sighting of the cut
\* is not old enough, and once one of the epoch's own cut is, the files carry the epoch.
LEMMA JudgeHonest ==
  ASSUME TypeOK, HonestOperator, CutInv, NEW e \in Epochs, NEW files \in Readable,
         NEW m \in MemoryT, NEW t \in Time, t <= clock, clock - t <= Span,
         Grounded(m, endAt, keyAt, serving), Recent(endAt, keyAt, e, t)
  PROVE  /\ JudgeEpoch(e, files, m, t) = "violation" =>
              e < m.highest \/ Older(m, endAt, keyAt, e, clock)
         /\ JudgeEpoch(e, files, m, t) = "unanchored" /\ e = 1 =>
              SomeBy(endAt, keyAt, 1, t + Span)
<1>0. /\ e \in Nat /\ m.highest \in Nat /\ files \in FilesT /\ files.read \in BOOLEAN
      /\ t \in Int /\ clock \in Int /\ 1 \in Epochs /\ m.sighted[e] \in Int
  BY Numbers, TimeInt, ReadableType, ZenonT(60) DEF TypeOK, MemoryT, FilesT
<1>1. CASE e < m.highest
  <2>1. ~(e >= m.highest)
    BY <1>0, <1>1
  <2>2. JudgeEpoch(e, files, m, t) = "violation"
    BY <1>1, <2>1, Zenon DEF JudgeEpoch
  <2> QED
    BY <1>1, <2>2, Zenon
<1>2. CASE ~(e < m.highest)
  <2>0. e >= m.highest
    BY <1>0, <1>2
  <2>1. CASE ~files.read
    <3>1. JudgeEpoch(e, files, m, t) = IF e <= 1 THEN "legacy" ELSE "unanchored"
      BY <1>2, <2>0, <2>1, Zenon DEF JudgeEpoch
    <3>2. e = 1 => e <= 1
      BY <1>0
    <3> QED
      BY <3>1, <3>2, Zenon
  <2>2. CASE files.read /\ ShowsLater(files, e)
    <3>1. JudgeEpoch(e, files, m, t) = SoftOrHard(m.sighted[e], t)
      BY <1>2, <2>0, <2>2, Zenon DEF JudgeEpoch
    <3>4. SomeBy(endAt, keyAt, e, clock)
      BY <2>2, LaterShown, Zenon
    <3>5. SomeBy(endAt, keyAt, e, t + Span)
      BY <1>0, <3>4, CutInt, CutTimes, Zenon DEF SomeBy
    <3>6. ASSUME PastBound(m.sighted[e], t)
          PROVE  Older(m, endAt, keyAt, e, clock)
      <4>1. m.sighted[e] # Never
        BY <3>6, Zenon DEF PastBound
      <4>2. ASSUME NEW at \in Cut(endAt, keyAt, e), at <= m.sighted[e] + Span PROVE FALSE
        <5>1. at \in Int /\ t - at <= CutWindow
          BY <4>2, CutInt, Zenon DEF Recent
        <5> QED
          BY <1>0, <3>6, <4>2, <5>1, CutTimes, Zenon
      <4>3. e # 1
        BY <4>1, <4>2, Zenon DEF Grounded, SomeBy
      <4>4. \A at \in Cut(endAt, keyAt, e) : m.sighted[e] + Span < at
        BY <1>0, <4>2, CutInt, CutTimes, Zenon
      <4>5. m.sighted[e] + Span < clock
        BY <1>0, <3>6, CutTimes, Zenon
      <4> QED
        BY <4>1, <4>3, <4>4, <4>5, Zenon DEF Older
    <3> QED
      BY <3>1, <3>5, <3>6, Zenon DEF SoftOrHard
  <2>3. CASE files.read /\ ~ShowsLater(files, e)
    <3>1. JudgeEpoch(e, files, m, t) =
            IF e = 1 THEN "legacy"
            ELSE IF e \in files.keys /\ e \in DoubleKeyed THEN "violation"
            ELSE IF ~Carries(files, e) THEN SoftOrHard(m.sighted[e], t)
            ELSE IF e \in MisKeyed THEN "violation" ELSE "v3"
      BY <1>2, <2>0, <2>3, Zenon DEF JudgeEpoch
    <3>2. e \notin DoubleKeyed /\ e \notin MisKeyed
      BY Zenon DEF HonestOperator
    <3>3. CASE e = 1
      BY <3>1, <3>3, Zenon
    <3>4. CASE e # 1 /\ PastBound(m.sighted[e], t)
      <4>1. e - 1 \in Epochs
        BY <3>4, EpochBefore, Zenon
      <4>2. m.sighted[e] # Never
        BY <3>4, Zenon DEF PastBound
      <4>3. Begun(endAt, keyAt, e, m.sighted[e])
        BY <3>4, <4>2, Zenon DEF Grounded
      <4>4. endAt[e - 1] \in Int /\ keyAt[e] \in Int
        BY <4>1, TimeInt, Zenon DEF TypeOK
      <4>5. endAt[e - 1] <= clock - CdnLag /\ keyAt[e] <= clock - CdnLag
        BY <1>0, <3>4, <4>3, <4>4, CutTimes, Zenon DEF Begun
      <4>6. e - 1 \in files.ends /\ e \in files.keys
        BY <2>3, <4>1, <4>3, <4>5, ReadableLines, Zenon DEF Begun
      <4>7. Carries(files, e)
        BY <4>6, Zenon DEF Carries
      <4> HIDE DEF Carries
      <4> QED
        BY <3>1, <3>2, <3>4, <4>7, Zenon
    <3>5. CASE e # 1 /\ ~PastBound(m.sighted[e], t)
      <4>1. SoftOrHard(m.sighted[e], t) = "unanchored"
        BY <3>5, Zenon DEF SoftOrHard
      <4> HIDE DEF Carries, SoftOrHard
      <4> QED
        BY <3>1, <3>2, <3>5, <4>1, Zenon
    <3> QED
      BY <3>3, <3>4, <3>5, Zenon
  <2> QED
    BY <1>0, <2>1, <2>2, <2>3, Zenon
<1> QED
  BY <1>1, <1>2, ZenonT(60)

\* Time passing, for the commands and for a cut under way.
Passes ==
  /\ clock' = clock + 1 /\ UNCHANGED <<serving, endAt, keyAt>>
  /\ Recent(endAt, keyAt, serving, clock + 1)
  /\ \A p \in Procs : pc[p] # "load" /\ (pc[p] = "fetch" => (clock + 1) - now[p] <= Span)

\* The numbers of a state.
LEMMA StateInts ==
  ASSUME TypeOK
  PROVE  /\ clock \in Int /\ clock # Never /\ 0 <= clock /\ serving \in Nat /\ serving \in Int
         /\ serving \in Epochs /\ clock <= clock /\ serving <= serving /\ clock <= clock + 1
         /\ file \in MemoryT /\ tmp.memory \in MemoryT
         /\ \A p \in Procs : /\ now[p] \in Int /\ now[p] \in Time /\ st[p] \in MemoryT
                             /\ served[p] \in Int /\ bundle[p] \in Int
<1>1. clock \in Nat /\ serving \in Nat /\ serving \in Epochs
  BY Numbers, Zenon DEF TypeOK
<1>2. \A p \in Procs : now[p] \in Time /\ now[p] \in Int /\ st[p] \in MemoryT
  BY Numbers, TimeInt, Zenon DEF TypeOK
<1>3. file \in MemoryT /\ tmp.memory \in MemoryT
  BY Zenon DEF TypeOK
<1> QED
  BY <1>1, <1>2, <1>3, EpochInts, Order, ZenonT(60)

\* The clock, the operator and the server: time passes, or a line comes out, or the server
\* moves on.
LEMMA WorldGrows ==
  ASSUME TypeOK, World
  PROVE  /\ Grows(endAt, keyAt, endAt', keyAt', clock)
         /\ serving' \in Nat /\ serving <= serving'
         /\ clock' = clock \/ Passes
         /\ UNCHANGED <<file, tmp, pc, kind, attempt, bundle, served, now, st, verdict, answers, result>>
<1>0. /\ endAt \in [Epochs -> Time \cup {Never}] /\ keyAt \in [Epochs -> Time \cup {Never}]
      /\ \A p \in Procs : now[p] \in Int
  BY StateInts, Zenon DEF TypeOK
<1>1. UNCHANGED <<file, tmp, pc, kind, attempt, bundle, served, now, st, verdict, answers, result>>
  BY Zenon DEF World, Tick, PublishEnd, PublishKey, Serve, disk, local
<1>2. CASE Tick
  <2>1. clock' = clock + 1 /\ UNCHANGED <<serving, endAt, keyAt>>
    BY <1>2, Zenon DEF Tick
  <2>2. Recent(endAt, keyAt, serving, clock + 1)
    <3> SUFFICES ASSUME NEW at \in Cut(endAt, keyAt, serving)
                 PROVE  (clock + 1) - at <= CutWindow
      BY Zenon DEF Recent
    <3>1. at \in Int /\ at # Never
      BY StateInts, CutInt, CutIs, Zenon
    <3>2. clock - at < CutWindow
      BY <1>2, <3>1, Zenon DEF Tick, Cut
    <3> QED
      BY <3>1, <3>2, StateInts, TickTimes, Zenon
  <2>3. \A p \in Procs : pc[p] # "load" /\ (pc[p] = "fetch" => clock - now[p] < Span)
    BY <1>2, Zenon DEF Tick
  <2>4. \A p \in Procs : pc[p] # "load" /\ (pc[p] = "fetch" => (clock + 1) - now[p] <= Span)
    BY <1>0, <2>3, StateInts, TickTimes, Zenon
  <2> QED
    BY <1>1, <2>1, <2>2, <2>4, StateInts, Zenon DEF Passes, Grows
<1>3. CASE PublishEnd
  <2>1. /\ endAt[serving] = Never /\ endAt' = [endAt EXCEPT ![serving] = clock]
        /\ UNCHANGED <<clock, serving, keyAt>>
    BY <1>3, Zenon DEF PublishEnd
  <2>2. Grows(endAt, keyAt, endAt', keyAt', clock)
    BY <1>0, <2>1, Zenon DEF Grows
  <2> QED
    BY <1>1, <2>1, <2>2, StateInts, Zenon
<1>4. CASE PublishKey
  <2>1. /\ keyAt[serving + 1] = Never /\ keyAt' = [keyAt EXCEPT ![serving + 1] = clock]
        /\ UNCHANGED <<clock, serving, endAt>>
    BY <1>4, Zenon DEF PublishKey
  <2>2. Grows(endAt, keyAt, endAt', keyAt', clock)
    BY <1>0, <2>1, Zenon DEF Grows
  <2> QED
    BY <1>1, <2>1, <2>2, StateInts, Zenon
<1>5. CASE Serve
  <2>1. serving' = serving + 1 /\ UNCHANGED <<clock, endAt, keyAt>>
    BY <1>5, Zenon DEF Serve
  <2>2. serving' \in Nat /\ serving <= serving'
    BY <2>1, StateInts
  <2> QED
    BY <1>1, <2>1, <2>2, Zenon DEF Grows
<1> QED
  BY <1>2, <1>3, <1>4, <1>5, Zenon DEF World

\* They keep the order of the cuts.
LEMMA WorldCut ==
  ASSUME TypeOK, CutInv, World
  PROVE  CutInv'
<1>0. /\ endAt \in [Epochs -> Time \cup {Never}] /\ keyAt \in [Epochs -> Time \cup {Never}]
      /\ clock \in Int /\ clock # Never /\ serving \in Epochs /\ Epochs \subseteq Nat
      /\ \A e \in Epochs : endAt[e] \in Int /\ keyAt[e] \in Int
  BY StateInts, Numbers, TimeInt, ZenonT(60) DEF TypeOK
<1>1. /\ Grows(endAt, keyAt, endAt', keyAt', clock) /\ serving' \in Nat /\ serving <= serving'
      /\ UNCHANGED <<file, tmp>>
  BY WorldGrows, Zenon
<1>2. Grounded(file', endAt', keyAt', serving') /\ Grounded(tmp'.memory, endAt', keyAt', serving')
  BY <1>1, StateInts, GroundedStays, Zenon DEF CutInv
<1>3. \A e \in Epochs : endAt'[e] <= clock' /\ keyAt'[e] <= clock'
  <2>1. \A e \in Epochs : endAt'[e] \in {endAt[e], clock} /\ keyAt'[e] \in {keyAt[e], clock}
    BY <1>1, Zenon DEF Grows
  <2>2. \A e \in Epochs : endAt[e] <= clock /\ keyAt[e] <= clock
    BY Zenon DEF CutInv
  <2>3. clock' = clock \/ clock' = clock + 1
    BY WorldGrows, Zenon DEF Passes
  <2> QED
    BY <1>0, <2>1, <2>2, <2>3
<1>4. /\ \A e \in Epochs : serving' < e => endAt'[e] = Never
      /\ \A e \in Epochs : serving' + 1 < e => keyAt'[e] = Never
      /\ \A e \in Epochs : e < serving' => endAt'[e] # Never
      /\ \A e \in Epochs : 1 < e /\ e <= serving' => keyAt'[e] # Never
  <2>0. /\ \A e \in Epochs : serving < e => endAt[e] = Never
        /\ \A e \in Epochs : serving + 1 < e => keyAt[e] = Never
        /\ \A e \in Epochs : e < serving => endAt[e] # Never
        /\ \A e \in Epochs : 1 < e /\ e <= serving => keyAt[e] # Never
    BY Zenon DEF CutInv
  <2>1. CASE Tick
    BY <2>0, <2>1, Zenon DEF Tick
  <2>2. CASE PublishEnd
    <3>1. endAt' = [endAt EXCEPT ![serving] = clock] /\ UNCHANGED <<serving, keyAt>>
      BY <2>2, Zenon DEF PublishEnd
    <3> QED
      BY <1>0, <2>0, <3>1
  <2>3. CASE PublishKey
    <3>1. keyAt' = [keyAt EXCEPT ![serving + 1] = clock] /\ UNCHANGED <<serving, endAt>>
      BY <2>3, Zenon DEF PublishKey
    <3> QED
      BY <1>0, <2>0, <3>1
  <2>4. CASE Serve
    <3>1. /\ endAt[serving] # Never /\ keyAt[serving + 1] # Never /\ serving' = serving + 1
          /\ UNCHANGED <<endAt, keyAt>>
      BY <2>4, Zenon DEF Serve
    <3> QED
      BY <1>0, <2>0, <3>1
  <2> QED
    BY <2>1, <2>2, <2>3, <2>4, Zenon DEF World
<1>5. Recent(endAt', keyAt', serving', clock')
  <2>1. CASE Tick
    <3>1. Passes
      <4>1. clock' = clock + 1
        BY <2>1, Zenon DEF Tick
      <4>2. clock' # clock
        BY <1>0, <4>1
      <4> QED
        BY <4>2, WorldGrows, Zenon
    <3> QED
      BY <3>1, Zenon DEF Passes
  <2>2. CASE PublishEnd \/ PublishKey
    <3>1. UNCHANGED <<clock, serving>>
      BY <2>2, Zenon DEF PublishEnd, PublishKey
    <3> QED
      BY <1>0, <1>1, <3>1, StateInts, GrowsKeeps, ZenonT(60) DEF CutInv
  <2>3. CASE Serve
    <3>1. /\ serving' = serving + 1 /\ serving + 1 \in Epochs /\ UNCHANGED <<endAt, keyAt>>
      BY <1>0, <2>3, NumberAssumption DEF Serve, Epochs
    <3>2. serving < serving + 1 /\ (serving + 1) + 1 > serving + 1
      BY <1>0
    <3>3. endAt[serving + 1] = Never
      BY <3>1, <3>2, Zenon DEF CutInv
    <3>4. (serving + 1) + 1 \in Epochs => keyAt[(serving + 1) + 1] = Never
      BY <1>0 DEF CutInv
    <3>5. \A at : at \notin Cut(endAt, keyAt, serving + 1)
      BY <3>1, <3>3, <3>4, CutIs, Zenon
    <3> QED
      BY <3>1, <3>5, Zenon DEF Recent
  <2> QED
    BY <2>1, <2>2, <2>3, Zenon DEF World
<1> QED
  BY <1>2, <1>3, <1>4, <1>5, ZenonT(60) DEF CutInv

\* They keep what is said of a command.
LEMMA WorldProc ==
  ASSUME TypeOK, PhaseInv, World, NEW p \in Procs, Proc(p)
  PROVE  Proc(p)'
<1>0. /\ clock \in Int /\ clock # Never /\ clock <= clock + 1 /\ now[p] \in Int
      /\ st[p] \in MemoryT /\ served[p] \in Int /\ bundle[p] \in Int /\ serving \in Int
      /\ serving \in Epochs /\ serving \in Nat
  BY StateInts, Zenon
<1>1. /\ Grows(endAt, keyAt, endAt', keyAt', clock) /\ serving' \in Nat /\ serving <= serving'
      /\ clock' = clock \/ Passes
  BY WorldGrows, Zenon
<1>2. UNCHANGED <<pc, kind, attempt, bundle, served, now, st, verdict, answers, result>>
  BY WorldGrows, Zenon
<1>3. /\ now[p] <= clock /\ served[p] <= serving /\ bundle[p] <= serving
      /\ Grounded(st[p], endAt, keyAt, serving)
  BY Zenon DEF Proc
<1>4. now[p] <= clock' /\ served[p] <= serving' /\ bundle[p] <= serving'
  <2>1. serving' \in Int /\ clock + 1 \in Int
    BY <1>0, <1>1
  <2>2. now[p] <= clock + 1
    BY <1>0, <1>3, Order, Zenon
  <2> QED
    BY <1>0, <1>1, <1>3, <2>1, <2>2, Transitive, ZenonT(60) DEF Passes
<1>5. Grounded(st[p], endAt', keyAt', serving')
  BY <1>0, <1>1, <1>3, GroundedStays, Zenon
<1>6. pc[p] = "load" => Recent(endAt', keyAt', served[p], clock')
  <2>1. SUFFICES ASSUME pc[p] = "load" PROVE Recent(endAt', keyAt', served[p], clock')
    BY Zenon
  <2>2. clock' = clock /\ served[p] \in Epochs /\ Recent(endAt, keyAt, served[p], clock)
    BY <1>1, <2>1, Zenon DEF Passes, PhaseInv, Proc
  <2>3. clock <= clock
    BY <1>0
  <2> QED
    BY <1>0, <1>1, <2>2, <2>3, GrowsKeeps, Zenon
<1>7. pc[p] = "fetch" =>
        /\ clock' - now[p] <= Span
        /\ Recent(endAt', keyAt', served[p], now[p])
        /\ served[p] # 1 => Begun(endAt', keyAt', served[p], now[p])
  <2>1. SUFFICES ASSUME pc[p] = "fetch"
                 PROVE  /\ clock' - now[p] <= Span
                        /\ Recent(endAt', keyAt', served[p], now[p])
                        /\ served[p] # 1 => Begun(endAt', keyAt', served[p], now[p])
    BY Zenon
  <2>2. /\ served[p] \in Epochs /\ clock - now[p] <= Span
        /\ Recent(endAt, keyAt, served[p], now[p])
        /\ served[p] # 1 => Begun(endAt, keyAt, served[p], now[p])
    BY <2>1, Zenon DEF PhaseInv, Proc
  <2>3. clock' - now[p] <= Span
    BY <1>1, <2>1, <2>2, Zenon DEF Passes
  <2>4. Recent(endAt', keyAt', served[p], now[p])
    BY <1>0, <1>1, <1>3, <2>2, GrowsKeeps, Zenon
  <2>5. served[p] # 1 => Begun(endAt', keyAt', served[p], now[p])
    BY <1>0, <1>1, <2>2, GrowsKeeps, ZenonT(60)
  <2> QED
    BY <2>3, <2>4, <2>5, Zenon
<1>8. serving # 1 => serving' # 1
  BY <1>0, <1>1 DEF Epochs
<1>9. Alarmed(p) => Alarmed(p)'
  <2>1. SUFFICES ASSUME served[p] \in Epochs, Older(st[p], endAt, keyAt, served[p], clock)
                 PROVE  Older(st[p], endAt', keyAt', served[p], clock')
    BY <1>2, Zenon DEF Alarmed
  <2>2. Older(st[p], endAt', keyAt', served[p], clock)
    BY <1>0, <1>1, <2>1, GrowsKeeps, Zenon
  <2>3. st[p].sighted[served[p]] \in Int
    BY <1>0, <2>1, TimeInt, ZenonT(60) DEF MemoryT
  <2>4. st[p].sighted[served[p]] + Span < clock'
    <3>1. clock' = clock \/ clock' = clock + 1
      BY <1>1, Zenon DEF Passes
    <3>2. st[p].sighted[served[p]] + Span < clock
      BY <2>1, Zenon DEF Older
    <3> QED
      BY <1>0, <2>3, <3>1, <3>2, NumberAssumption
  <2> QED
    BY <2>2, <2>4, Zenon DEF Older
<1>10. MovedAgain(p)' = MovedAgain(p)
  BY <1>2, Zenon DEF MovedAgain
<1> HIDE DEF Alarmed, MovedAgain
<1>11. /\ attempt[p] = 2 =>
            /\ pc[p] # "idle" /\ serving' # 1
            /\ kind[p] \in {"write", "self"} /\ pc[p] \notin {"bundle", "done"} => bundle[p] # 1
            /\ pc[p] \notin {"bundle", "info", "done"} => served[p] # 1
       /\ pc[p] \in {"genesis", "save", "rename", "use", "ask"} =>
            /\ verdict[p] = "legacy" => served[p] = 1
            /\ verdict[p] = "v3" => served[p] # 1
            /\ verdict[p] = "violation" => Alarmed(p)'
       /\ result[p] = "violation" =>
            /\ pc[p] = "done"
            /\ IF verdict[p] = "violation" THEN Alarmed(p)'
               ELSE NoEpoch \in answers[p] \/ MovedAgain(p)'
  BY <1>8, <1>9, <1>10, ZenonT(60) DEF Proc, Reads
<1> QED
  BY <1>2, <1>4, <1>5, <1>6, <1>7, <1>11, ZenonT(60) DEF Proc, Reads

\* A step of process p keeps its part of the invariant, and the state file's.
Kept(p) ==
  /\ UNCHANGED <<clock, serving, endAt, keyAt>>
  /\ Grounded(file', endAt, keyAt, serving) /\ Grounded(tmp'.memory, endAt, keyAt, serving)
  /\ Proc(p)'

\* The invariant at one process.
LEMMA HonestAt ==
  ASSUME TypeOK, HonestInv, NEW p \in Procs
  PROVE  /\ CutInv /\ Proc(p)
         /\ Grounded(file, endAt, keyAt, serving) /\ Grounded(tmp.memory, endAt, keyAt, serving)
         /\ Grounded(st[p], endAt, keyAt, serving)
  BY Zenon DEF HonestInv, CutInv, Proc

\* What a command reads first.
LEMMA ReadHonest ==
  ASSUME TypeOK, HonestInv, NEW p \in Procs, ReadBundle(p) \/ ReadInfo(p) \/ BeginAny(p)
  PROVE  Kept(p)
<1>1. UNCHANGED <<clock, serving, endAt, keyAt, file, tmp>>
  BY Zenon DEF ReadBundle, ReadInfo, BeginAny, Begin, world, disk
<1>2. UNCHANGED <<now[p], st[p], attempt[p], verdict[p], answers[p], result[p]>>
  BY Zenon DEF ReadBundle, ReadInfo, BeginAny, Begin
<1>0. serving \in Epochs /\ serving <= serving /\ bundle[p] \in Int /\ serving \in Int
  BY StateInts, Zenon
<1>6. result[p] # "violation"
  BY HonestAt, Zenon DEF ReadBundle, ReadInfo, BeginAny, Begin, Proc
<1>3. CASE ReadBundle(p)
  <2>1. /\ pc'[p] = "info" /\ bundle'[p] = serving /\ UNCHANGED <<kind[p], served[p]>>
        /\ pc[p] = "bundle" /\ serving # NoEpoch
    BY <1>0, <1>3, Numbers, ZenonT(60) DEF ReadBundle, TypeOK
  <2> QED
    BY <1>0, <1>1, <1>2, <1>6, <2>1, HonestAt, ZenonT(60) DEF Proc, Reads, Kept
<1>4. CASE ReadInfo(p)
  <2>1. /\ pc'[p] = "load" /\ served'[p] = serving /\ UNCHANGED <<kind[p], bundle[p]>>
        /\ pc[p] = "info"
    BY <1>4, Zenon DEF ReadInfo, TypeOK
  <2>2. Recent(endAt, keyAt, serving, clock)
    BY HonestAt, Zenon DEF CutInv
  <2> QED
    BY <1>0, <1>1, <1>2, <1>6, <2>1, <2>2, HonestAt, ZenonT(60) DEF Proc, Reads, Kept
<1>5. CASE BeginAny(p)
  <2>1. /\ pc'[p] \in {"bundle", "info"} /\ UNCHANGED <<served[p], bundle[p]>> /\ pc[p] = "idle"
        /\ kind'[p] \in {"write", "self"} => pc'[p] = "bundle"
    BY <1>5, ZenonT(60) DEF BeginAny, Begin, FirstStep, TypeOK
  <2>2. attempt[p] # 2
    BY <2>1, HonestAt, Zenon DEF Proc
  <2> QED
    BY <1>0, <1>1, <1>2, <1>6, <2>1, <2>2, HonestAt, ZenonT(60) DEF Proc, Reads, Kept
<1> QED
  BY <1>3, <1>4, <1>5, Zenon

\* Saving the memory, or failing to, and being gone.
LEMMA SaveHonest ==
  ASSUME TypeOK, HonestInv, NEW p \in Procs,
         WriteTmp(p) \/ Rename(p) \/ SaveFails(p) \/ Exit(p)
  PROVE  Kept(p)
<1>1. UNCHANGED <<clock, serving, endAt, keyAt>>
  BY Zenon DEF WriteTmp, Rename, SaveFails, Exit, world
<1>2. CASE Exit(p)
  <2>1. /\ UNCHANGED <<file, tmp>> /\ pc'[p] = "idle" /\ kind'[p] = "none" /\ attempt'[p] = 1
        /\ bundle'[p] = NoEpoch /\ served'[p] = NoEpoch /\ now'[p] = 0
        /\ st'[p] = FreshMemory /\ result'[p] = "none"
    BY <1>2, ZenonT(60) DEF Exit, disk, TypeOK
  <2>2. NoEpoch <= serving /\ 0 <= clock /\ 1 # 2
    BY StateInts, Order, OneTwo, Zenon DEF NoEpoch
  <2>3. Grounded(FreshMemory, endAt, keyAt, serving)
    BY StateInts, GroundedFresh, Zenon
  <2> QED
    BY <1>1, <2>1, <2>2, <2>3, HonestAt, ZenonT(60) DEF Proc, Reads, Kept
<1>3. CASE WriteTmp(p) \/ Rename(p) \/ SaveFails(p)
  <2>1. /\ UNCHANGED <<kind[p], attempt[p], bundle[p], served[p], now[p], st[p],
                       verdict[p], answers[p], result[p]>>
        /\ pc[p] \in {"save", "rename"} /\ pc'[p] \in {"rename", "use"}
    BY <1>3, Zenon DEF WriteTmp, Rename, SaveFails, local, TypeOK
  <2>2. Alarmed(p)' = Alarmed(p) /\ result[p] # "violation"
    BY <1>1, <2>1, HonestAt, Zenon DEF Alarmed, Proc
  <2>3. Proc(p)'
    <3> HIDE DEF Alarmed
    <3> QED
      BY <1>1, <2>1, <2>2, HonestAt, ZenonT(60) DEF Proc, Reads
  <2>4. /\ file' \in {file, tmp.memory}
        /\ tmp'.memory \in {tmp.memory, st[p], FreshMemory}
    <3>1. CASE WriteTmp(p)
      BY <3>1, Zenon DEF WriteTmp
    <3>2. CASE Rename(p)
      BY <3>2, Zenon DEF Rename, NoTmp
    <3>3. CASE SaveFails(p)
      BY <3>3, Zenon DEF SaveFails, disk
    <3> QED
      BY <1>3, <3>1, <3>2, <3>3, Zenon
  <2>5. Grounded(file', endAt, keyAt, serving) /\ Grounded(tmp'.memory, endAt, keyAt, serving)
    BY <2>4, HonestAt, StateInts, GroundedFresh, Zenon
  <2> QED
    BY <1>1, <2>3, <2>5, Zenon DEF Kept
<1> QED
  BY <1>2, <1>3, Zenon

\* Loading the memory: the cached files anchor the epoch outright, or it is judged afresh.
LEMMA LoadHonest ==
  ASSUME TypeOK, PhaseInv, HonestOperator, HonestInv, NEW p \in Procs, Load(p)
  PROVE  Kept(p)
<1>1. UNCHANGED <<clock, serving, endAt, keyAt, file, tmp>>
  BY Zenon DEF Load, world, disk
<1>2. /\ UNCHANGED <<kind[p], attempt[p], bundle[p], served[p], answers[p], result[p]>>
      /\ now'[p] = clock /\ pc[p] = "load" /\ served[p] \in Epochs /\ clock \in Time
  BY ZenonT(60) DEF Load, PhaseInv, TypeOK
<1>0. /\ result[p] # "violation" /\ served[p] <= serving
      /\ Grounded(file, endAt, keyAt, serving) /\ Recent(endAt, keyAt, served[p], clock)
      /\ clock <= clock /\ serving \in Nat /\ file \in MemoryT /\ clock \in Int /\ serving \in Epochs
  BY <1>2, HonestAt, StateInts, Zenon DEF Proc
<1>3. CASE kind[p] = "write" /\ CacheAnswers(file, served[p], clock)
  <2> DEFINE v == JudgeEpoch(served[p], CachedFiles(file), file, clock)
             u == UpdateState(file, served[p], v, clock)
  <2>1. pc'[p] = "save" /\ verdict'[p] = v /\ st'[p] = u
    BY <1>3, ZenonT(60) DEF Load, TypeOK
  <2>2. v \in {"legacy", "v3"}
    BY <1>3, Zenon DEF CacheAnswers
  <2>3. (v = "legacy" => served[p] = 1) /\ (v = "v3" => served[p] # 1)
    <3>1. Anchored(v) /\ CachedFiles(file) \in FilesT
      BY <1>0, <2>2, CachedType, Zenon DEF Anchored
    <3> QED
      BY <1>0, <1>2, <3>1, JudgeAnchored, ZenonT(60)
  <2> HIDE DEF v
  <2>4. v \in Verdicts /\ v # "unanchored" /\ v # "violation"
    BY <2>2, Zenon DEF Verdicts
  <2>6. Grounded(u, endAt, keyAt, serving)
    <3>1. Witnessed(endAt, keyAt, served[p], v, clock)
      BY <2>4, Zenon DEF Witnessed
    <3> QED
      BY <1>0, <1>2, <2>4, <3>1, GroundedUpdate, Zenon
  <2> HIDE DEF u
  <2>7. Proc(p)'
    BY <1>0, <1>1, <1>2, <2>1, <2>3, <2>4, <2>6, HonestAt, ZenonT(60) DEF Proc, Reads
  <2> QED
    BY <1>1, <2>7, HonestAt, Zenon DEF Kept
<1>4. CASE ~(kind[p] = "write" /\ CacheAnswers(file, served[p], clock))
  <2>1. pc'[p] = "fetch" /\ st'[p] = file /\ verdict'[p] = verdict[p]
    BY <1>4, ZenonT(60) DEF Load, TypeOK
  <2>2. clock - clock <= Span
    BY <1>0, NowTimes, Zenon
  <2>3. served[p] # 1 => Begun(endAt, keyAt, served[p], clock)
    <3>1. SUFFICES ASSUME served[p] # 1 PROVE Begun(endAt, keyAt, served[p], clock)
      BY Zenon
    <3>2. served[p] - 1 \in Epochs
      BY <1>2, <3>1, EpochBefore, ZenonT(60)
    <3>3. 1 < served[p] /\ served[p] - 1 < serving
      BY <1>0, <1>2, <3>1 DEF Epochs
    <3> QED
      BY <1>0, <1>2, <3>2, <3>3, HonestAt, Zenon DEF CutInv, Begun
  <2>4. Proc(p)'
    BY <1>0, <1>1, <1>2, <2>1, <2>2, <2>3, HonestAt, ZenonT(60) DEF Proc, Reads
  <2> QED
    BY <1>1, <2>4, HonestAt, Zenon DEF Kept
<1> QED
  BY <1>3, <1>4, Zenon

\* A verdict folded into the memory leaves it grounded.
LEMMA GroundedFold ==
  ASSUME NEW E, NEW K, NEW s \in Nat, NEW m \in MemoryT, NEW files \in FilesT,
         NEW g \in Epochs \cup {NoEpoch}, NEW e \in Epochs, NEW v \in Verdicts,
         NEW t \in Time, Grounded(m, E, K, s), e <= s,
         Witnessed(E, K, e, v, t)
  PROVE  Grounded(UpdateState(Refreshed(m, files, g, t), e, v, t), E, K, s)
<1> DEFINE r == Refreshed(m, files, g, t)
<1>1. r \in MemoryT /\ r.highest = m.highest /\ r.sighted = m.sighted
  BY RefreshedKeeps, Zenon
<1> HIDE DEF r
<1>2. Grounded(r, E, K, s)
  BY <1>1, GroundedSame, Zenon
<1>3. Grounded(UpdateState(r, e, v, t), E, K, s)
  BY <1>1, <1>2, GroundedUpdate, Zenon
<1> QED
  BY <1>3, Zenon DEF r

\* A violation is not folded into the memory.
LEMMA ViolationKeeps ==
  ASSUME NEW m, NEW e, NEW t
  PROVE  UpdateState(m, e, "violation", t) = m
  BY Zenon DEF UpdateState, Anchored

\* A fresh read.
LEMMA FetchHonest ==
  ASSUME TypeOK, PhaseInv, HonestOperator, HonestInv, NEW p \in Procs, FetchAny(p)
  PROVE  Kept(p)
<1>1. PICK files \in Readable : Fetch(p, files)
  BY Zenon DEF FetchAny
<1> DEFINE v == JudgeEpoch(served[p], files, st[p], now[p])
           u == UpdateState(Refreshed(st[p], files, NoEpoch, now[p]), served[p], v, now[p])
<1>2. UNCHANGED <<clock, serving, endAt, keyAt, file, tmp>>
  BY <1>1, Zenon DEF Fetch, world, disk
<1>3. /\ UNCHANGED <<kind[p], attempt[p], bundle[p], served[p], now[p], answers[p], result[p]>>
      /\ pc[p] = "fetch" /\ served[p] \in Epochs /\ files \in FilesT
      /\ NoEpoch \in Epochs \cup {NoEpoch}
  BY <1>1, ReadableType, ZenonT(60) DEF Fetch, PhaseInv, TypeOK
<1>4. /\ verdict'[p] = v
      /\ \/ pc'[p] = "fetch" /\ st'[p] = st[p]
         \/ pc'[p] = "genesis" /\ st'[p] = st[p] /\ v = "v3"
         \/ pc'[p] = "save" /\ st'[p] = u
  BY <1>1, ZenonT(60) DEF Fetch, TypeOK
<1>0. serving \in Nat /\ st[p] \in MemoryT /\ now[p] \in Time
  BY StateInts, Zenon
<1>5. v \in Verdicts
  BY <1>0, <1>3, JudgeType, Zenon
<1>6. /\ result[p] # "violation" /\ Grounded(st[p], endAt, keyAt, serving)
      /\ served[p] <= serving /\ now[p] <= clock /\ clock - now[p] <= Span
      /\ Recent(endAt, keyAt, served[p], now[p])
      /\ served[p] # 1 => Begun(endAt, keyAt, served[p], now[p])
  BY <1>3, HonestAt, Zenon DEF Proc
<1>7. /\ v = "violation" =>
           served[p] < st[p].highest \/ Older(st[p], endAt, keyAt, served[p], clock)
      /\ v = "unanchored" /\ served[p] = 1 => SomeBy(endAt, keyAt, 1, now[p] + Span)
  BY <1>0, <1>3, <1>6, HonestAt, JudgeHonest, ZenonT(60)
<1>8. (v = "legacy" => served[p] = 1) /\ (v = "v3" => served[p] # 1)
  <2>1. v \in {"legacy", "v3"} => Anchored(v)
    BY Zenon DEF Anchored
  <2> QED
    BY <1>0, <1>3, <2>1, JudgeAnchored, ZenonT(60)
<1> HIDE DEF v
<1>9. Witnessed(endAt, keyAt, served[p], v, now[p])
  BY <1>6, <1>7, Zenon DEF Witnessed
<1>10. Grounded(u, endAt, keyAt, serving)
  BY <1>0, <1>3, <1>5, <1>6, <1>9, GroundedFold, Zenon
<1>11. v = "violation" => u.highest = st[p].highest /\ u.sighted = st[p].sighted
  <2>1. /\ Refreshed(st[p], files, NoEpoch, now[p]).highest = st[p].highest
        /\ Refreshed(st[p], files, NoEpoch, now[p]).sighted = st[p].sighted
    BY <1>0, <1>3, RefreshedKeeps, Zenon
  <2>2. v = "violation" => u = Refreshed(st[p], files, NoEpoch, now[p])
    BY ViolationKeeps, Zenon
  <2> HIDE DEF u
  <2> QED
    BY <2>1, <2>2, Zenon
<1> HIDE DEF u
<1>12. pc'[p] = "save" /\ v = "violation" => Alarmed(p)'
  BY <1>2, <1>3, <1>4, <1>7, <1>11, Zenon DEF Alarmed, Older
<1>13. v = "v3" => v # "violation" /\ v # "legacy"
  BY Zenon
<1>14. Proc(p)'
  <2> HIDE DEF Alarmed
  <2> QED
    BY <1>2, <1>3, <1>4, <1>6, <1>8, <1>10, <1>12, <1>13, HonestAt, ZenonT(60) DEF Proc, Reads
<1> QED
  BY <1>2, <1>14, HonestAt, Zenon DEF Kept

\* The genesis check.
LEMMA GenesisHonest ==
  ASSUME TypeOK, PhaseInv, HonestOperator, HonestInv, NEW p \in Procs, Genesis(p)
  PROVE  Kept(p)
<1> DEFINE u == UpdateState(Refreshed(st[p], shown[p], served[p], now[p]), served[p], "v3", now[p])
<1>1. UNCHANGED <<clock, serving, endAt, keyAt, file, tmp>>
  BY Zenon DEF Genesis, world, disk
<1>2. served[p] \notin BadGenesis
  BY Zenon DEF HonestOperator
<1>3. /\ UNCHANGED <<kind[p], attempt[p], bundle[p], served[p], now[p], answers[p], result[p]>>
      /\ pc[p] = "genesis" /\ pc'[p] = "save" /\ served[p] \in Epochs /\ shown[p] \in FilesT
      /\ served[p] \in Epochs \cup {NoEpoch} /\ verdict[p] = "v3" /\ "v3" \in Verdicts
  BY Zenon DEF Genesis, PhaseInv, Verdicts, TypeOK
<1>4. verdict'[p] = "v3" /\ st'[p] = u
  BY <1>2, Zenon DEF Genesis, TypeOK
<1>5. /\ served[p] <= serving /\ Witnessed(endAt, keyAt, served[p], "v3", now[p])
      /\ result[p] # "violation" /\ served[p] # 1 /\ Grounded(st[p], endAt, keyAt, serving)
  BY <1>3, HonestAt, Zenon DEF Proc, Witnessed
<1>6. Grounded(u, endAt, keyAt, serving)
  BY <1>3, <1>5, StateInts, GroundedFold, Zenon
<1> HIDE DEF u
<1>7. Proc(p)'
  BY <1>1, <1>3, <1>4, <1>5, <1>6, HonestAt, ZenonT(60) DEF Proc, Reads
<1> QED
  BY <1>1, <1>7, HonestAt, Zenon DEF Kept

\* What a violation that a command reports is about.
Explained(p) ==
  IF verdict[p] = "violation" THEN Alarmed(p) ELSE NoEpoch \in answers[p] \/ MovedAgain(p)

\* A command that ends keeps the invariant, if a violation it reports is explained.
LEMMA EndHonest ==
  ASSUME TypeOK, NEW p \in Procs, Proc(p), NEW r, Close(p, r),
         UNCHANGED <<clock, serving, endAt, keyAt, kind, bundle, served, now, st, verdict>>,
         pc[p] \in {"bundle", "info", "genesis", "use", "ask"},
         r = "violation" => Explained(p)'
  PROVE  Proc(p)'
<1>1. pc'[p] = "done" /\ result'[p] = r /\ attempt'[p] = attempt[p]
  BY Zenon DEF Close, TypeOK
<1>2. result'[p] = "violation" =>
        IF verdict'[p] = "violation" THEN Alarmed(p)' ELSE NoEpoch \in answers'[p] \/ MovedAgain(p)'
  BY <1>1, Zenon DEF Explained
<1> HIDE DEF Alarmed, MovedAgain
<1> QED
  BY <1>1, <1>2, ZenonT(60) DEF Proc, Reads

\* A command that starts over after a cut keeps the invariant.
LEMMA AgainHonest ==
  ASSUME TypeOK, NEW p \in Procs, Proc(p), NEW r, OnceMore(p, r), attempt[p] # 2, serving # 1,
         UNCHANGED <<clock, serving, endAt, keyAt, kind, bundle, served, now, st, verdict>>,
         pc[p] \in {"genesis", "use", "ask"}
  PROVE  Proc(p)'
<1>1. /\ pc'[p] \in {"bundle", "info"} /\ result'[p] = result[p]
      /\ kind[p] \in {"write", "self"} => pc'[p] = "bundle"
  BY Zenon DEF OnceMore, FirstStep, TypeOK
<1>2. result[p] # "violation"
  BY Zenon DEF Proc
<1> QED
  BY <1>1, <1>2, ZenonT(60) DEF Proc, Reads

\* The order of the epochs that a command meets.
LEMMA LaterEpochs ==
  /\ \A a, b \in Epochs : a <= b /\ a # b => b # 1 /\ a < b
  /\ \A a, b, c \in Epochs : a <= b /\ a # b /\ b <= c => c # 1
  /\ \A a \in Epochs : a # 1 => 2 <= a
  BY DEF Epochs

\* An answer of another epoch than the anchored one: the command starts over, and the
\* second time it ends.
LEMMA MovedHonest ==
  ASSUME TypeOK, PhaseInv, HonestInv, NEW p \in Procs, NEW r, OnceMore(p, r),
         UNCHANGED <<world, kind, bundle, served, now, st, verdict>>,
         pc[p] \in {"genesis", "use", "ask"},
         serving # served[p] \/ BundleStale(p),
         r = "violation" => attempt[p] # 2 \/ (BundleStale(p) /\ verdict[p] # "violation")
  PROVE  Proc(p)'
<1>0. Proc(p) /\ served[p] \in Epochs /\ serving \in Epochs /\ served[p] <= serving
  BY HonestAt, Zenon DEF PhaseInv, TypeOK, Proc
<1>1. UNCHANGED <<clock, serving, endAt, keyAt>>
  BY Zenon DEF world
<1>2. BundleStale(p) => bundle[p] \in Epochs /\ bundle[p] <= served[p] /\ bundle[p] # served[p]
  BY <1>0, Zenon DEF BundleStale, Proc, Reads, TypeOK
<1>3. CASE attempt[p] # 2
  <2>1. serving # 1
    BY <1>0, <1>2, LaterEpochs, Zenon
  <2> QED
    BY <1>0, <1>1, <1>3, <2>1, AgainHonest, ZenonT(60)
<1>4. CASE attempt[p] = 2
  <2>1. Close(p, r) /\ UNCHANGED answers
    BY <1>4, OneTwo, Zenon DEF OnceMore, End
  <2>2. ASSUME r = "violation" PROVE Explained(p)'
    <3>1. BundleStale(p) /\ verdict[p] # "violation"
      BY <1>4, <2>2, Zenon
    <3>2. bundle[p] # 1
      BY <1>0, <1>4, <3>1, Zenon DEF BundleStale, Proc, Reads
    <3>3. 2 <= bundle[p] /\ bundle[p] < served[p]
      BY <1>0, <1>2, <3>1, <3>2, LaterEpochs, Zenon
    <3>4. UNCHANGED attempt
      BY <2>1, Zenon DEF Close
    <3> QED
      BY <1>4, <3>1, <3>3, <3>4, Zenon DEF Explained, MovedAgain
  <2> QED
    BY <1>0, <1>1, <2>1, <2>2, EndHonest, ZenonT(60)
<1> QED
  BY <1>3, <1>4, Zenon

\* The answers of the server, read under the anchored epoch.
LEMMA AskHonest ==
  ASSUME TypeOK, PhaseInv, HonestInv, NEW p \in Procs,
         \/ GenesisUnread(p) \/ Use(p) \/ ReceiptRead(p) \/ RangeRead(p) \/ ProofRead(p)
         \/ AttestationRead(p) \/ ResponseRead(p) \/ ReadFails(p)
  PROVE  Kept(p)
<1>1. UNCHANGED <<world, disk, kind, bundle, served, now, st, verdict>>
  BY Zenon DEF GenesisUnread, Use, ReceiptRead, RangeRead, ProofRead, AttestationRead,
       ResponseRead, ReadFails
<1>2. UNCHANGED <<clock, serving, endAt, keyAt, file, tmp>>
  BY <1>1, Zenon DEF world, disk
<1>3. Proc(p) /\ serving \in Epochs
  BY HonestAt, StateInts, Zenon
<1>4. ASSUME NEW r, End(p, r) \/ (\E e : EndOn(p, e, r)),
             pc[p] \in {"bundle", "info", "genesis", "use", "ask"},
             r = "violation" => Explained(p)'
      PROVE  Proc(p)'
  <2>1. Close(p, r)
    BY <1>4, Zenon DEF End, EndOn
  <2> QED
    BY <1>1, <1>2, <1>3, <1>4, <2>1, EndHonest, ZenonT(60)
<1>5. ASSUME NEW r, OnceMore(p, r), pc[p] \in {"genesis", "use", "ask"},
             serving # served[p] \/ BundleStale(p),
             r = "violation" => attempt[p] # 2 \/ (BundleStale(p) /\ verdict[p] # "violation")
      PROVE  Proc(p)'
  BY <1>1, <1>5, MovedHonest, Zenon
<1>9. ASSUME NEW r \in {"ok", "failed", "unanchored", "retired"},
             End(p, r) \/ EndOn(p, serving, r),
             pc[p] \in {"bundle", "info", "genesis", "use", "ask"}
      PROVE  Proc(p)'
  <2>1. r # "violation"
    BY <1>9, Zenon
  <2> QED
    BY <1>4, <1>9, <2>1, Zenon
<1>10. ASSUME OnceMore(p, "epoch_changed"), serving # served[p], pc[p] \in {"genesis", "use", "ask"}
       PROVE  Proc(p)'
  <2>1. "epoch_changed" # "violation"
    BY Zenon
  <2> QED
    BY <1>5, <1>10, <2>1, Zenon
<1>8. ASSUME pc[p] \in {"use", "ask"}, verdict[p] = "violation" PROVE Explained(p)'
  BY <1>1, <1>2, <1>3, <1>8, Zenon DEF Proc, Explained, Alarmed
<1>6. ASSUME Attested(p), pc[p] = "ask"
      PROVE  Proc(p)'
  <2>0. served[p] \in Epochs /\ served[p] <= serving
    BY <1>3, <1>6, Zenon DEF PhaseInv, Proc
  <2>1. CASE serving = served[p] /\ EndOn(p, serving, "ok")
    BY <1>6, <1>9, <2>1, ZenonT(60)
  <2>2. CASE verdict[p] = "legacy" /\ serving # served[p] /\ OnceMore(p, "violation")
    <3>1. attempt[p] # 2
      BY <1>3, <1>6, <2>2, Zenon DEF Proc
    <3> QED
      BY <1>5, <1>6, <2>2, <3>1, Zenon
  <2>3. CASE verdict[p] = "v3" /\ serving # served[p] /\ EndOn(p, serving, "violation")
    <3>1. served[p] # 1
      BY <1>3, <1>6, <2>3, Zenon DEF Proc
    <3>2. 2 <= served[p] /\ served[p] < serving
      BY <1>3, <2>0, <2>3, <3>1, LaterEpochs, ZenonT(60)
    <3>3. serving \in answers'[p]
      BY <2>3, Zenon DEF EndOn, Answer, TypeOK
    <3>4. MovedAgain(p)'
      BY <1>1, <3>2, <3>3, Zenon DEF MovedAgain
    <3>5. Explained(p)'
      BY <1>1, <2>3, <3>4, Zenon DEF Explained
    <3> QED
      BY <1>4, <1>6, <2>3, <3>5, Zenon
  <2> QED
    BY <1>6, <2>1, <2>2, <2>3, Zenon DEF Attested
<1>7. Proc(p)'
  <2>1. CASE GenesisUnread(p)
    BY <1>9, <1>10, <2>1, Zenon DEF GenesisUnread
  <2>2. CASE Use(p)
    <3>0. pc[p] = "use"
      BY <2>2, Zenon DEF Use
    <3>1. CASE Refused(p) /\ End(p, IF verdict[p] = "violation" THEN "violation" ELSE "unanchored")
      BY <1>4, <1>8, <3>0, <3>1, Zenon
    <3>2. CASE ~Refused(p) /\ BundleStale(p) /\ OnceMore(p, "violation")
      <4>1. verdict[p] # "violation"
        BY <3>2, Zenon DEF Refused, BundleStale, Anchored
      <4> QED
        BY <1>5, <3>0, <3>2, <4>1, Zenon
    <3>3. CASE pc' = [pc EXCEPT ![p] = "ask"] /\ UNCHANGED <<attempt, answers, result>>
      <4>1. pc'[p] = "ask" /\ result[p] # "violation" /\ Alarmed(p)' = Alarmed(p)
        BY <1>1, <1>2, <1>3, <3>0, <3>3, ZenonT(60) DEF TypeOK, Proc, Alarmed
      <4> HIDE DEF Alarmed
      <4> QED
        BY <1>1, <1>2, <1>3, <3>0, <3>3, <4>1, ZenonT(60) DEF Proc, Reads
    <3> QED
      BY <2>2, <3>1, <3>2, <3>3, Zenon DEF Use
  <2>3. CASE ReceiptRead(p)
    <3>0. pc[p] = "ask" /\ verdict[p] # "violation"
      BY <2>3, Zenon DEF ReceiptRead, PhaseInv, Anchored
    <3>1. CASE Answer(p, serving) /\ UNCHANGED <<pc, attempt, result>>
      <4>1. result[p] # "violation"
        BY <1>3, <3>0, Zenon DEF Proc
      <4> QED
        BY <1>1, <1>2, <1>3, <3>0, <3>1, <4>1, ZenonT(60) DEF Proc, Reads
    <3>2. CASE EndOn(p, NoEpoch, "violation")
      <4>1. NoEpoch \in answers'[p]
        BY <3>2, ZenonT(60) DEF EndOn, Answer, TypeOK
      <4>2. Explained(p)'
        BY <1>1, <3>0, <4>1, Zenon DEF Explained
      <4> QED
        BY <1>4, <3>0, <3>2, <4>2, ZenonT(60)
    <3>3. CASE AskRefused(p) \/ EndOn(p, serving, "ok")
      BY <1>9, <1>10, <3>0, <3>3, Zenon DEF AskRefused
    <3> QED
      BY <2>3, <3>1, <3>2, <3>3, Zenon DEF ReceiptRead
  <2>4. CASE RangeRead(p)
    BY <1>9, <1>10, <2>4, Zenon DEF RangeRead, AskRefused
  <2>5. CASE ProofRead(p)
    BY <1>9, <1>10, <2>5, Zenon DEF ProofRead, AskRefused
  <2>6. CASE AttestationRead(p)
    BY <1>6, <2>6, Zenon DEF AttestationRead
  <2>7. CASE ResponseRead(p)
    BY <1>4, <1>6, <1>8, <2>7, Zenon DEF ResponseRead
  <2>8. CASE ReadFails(p)
    BY <1>9, <2>8, Zenon DEF ReadFails
  <2> QED
    BY <2>1, <2>2, <2>3, <2>4, <2>5, <2>6, <2>7, <2>8, ZenonT(60)
<1> QED
  BY <1>2, <1>7, HonestAt, ZenonT(60) DEF Kept

\* Every step keeps the invariant.
LEMMA NextHonest ==
  ASSUME HonestOperator
  PROVE  TypeOK /\ PhaseInv /\ HonestInv /\ [Next]_vars => HonestInv'
<1> SUFFICES ASSUME TypeOK, PhaseInv, HonestInv, [Next]_vars PROVE HonestInv'
  BY Zenon
<1>1. CASE World
  BY <1>1, WorldCut, WorldProc, Zenon DEF HonestInv
<1>4. ASSUME UNCHANGED <<clock, serving, endAt, keyAt>>, NEW q \in Procs, Same(q), Proc(q)
      PROVE  Proc(q)'
  <2>1. /\ pc'[q] = pc[q] /\ kind'[q] = kind[q] /\ attempt'[q] = attempt[q]
        /\ bundle'[q] = bundle[q] /\ served'[q] = served[q] /\ now'[q] = now[q]
        /\ st'[q] = st[q] /\ verdict'[q] = verdict[q] /\ result'[q] = result[q]
        /\ answers'[q] = answers[q]
    BY <1>4, Zenon DEF Same
  <2>2. Alarmed(q)' = Alarmed(q) /\ MovedAgain(q)' = MovedAgain(q)
    BY <1>4, <2>1, Zenon DEF Alarmed, MovedAgain
  <2> HIDE DEF Alarmed, MovedAgain
  <2> QED
    BY <1>4, <2>1, <2>2, ZenonT(60) DEF Proc, Reads
<1>2. CASE UNCHANGED vars
  <2>1. UNCHANGED <<clock, serving, endAt, keyAt, file, tmp>> /\ \A q \in Procs : Same(q)
    BY <1>2, Zenon DEF vars, Same
  <2>2. \A q \in Procs : Proc(q)'
    BY <1>4, <2>1, Zenon DEF HonestInv
  <2> QED
    BY <2>1, <2>2, ZenonT(60) DEF HonestInv, CutInv
<1>3. ASSUME NEW p \in Procs, Step(p) \/ Exit(p) \/ BeginAny(p)
      PROVE  HonestInv'
  <2>1. Kept(p)
    BY <1>3, ReadHonest, SaveHonest, LoadHonest, FetchHonest, GenesisHonest, AskHonest, ZenonT(60)
       DEF Step, FetchAny
  <2>2. CutInv'
    BY <2>1, HonestAt, Zenon DEF Kept, CutInv
  <2>3. ASSUME NEW q \in Procs, q # p PROVE Proc(q)'
    <3>1. Same(q) /\ Proc(q)
      BY <1>3, <2>3, OthersSame, HonestAt, Zenon
    <3> QED
      BY <1>4, <2>1, <3>1, Zenon DEF Kept
  <2> QED
    BY <2>1, <2>2, <2>3, Zenon DEF HonestInv, Kept
<1> QED
  BY <1>1, <1>2, <1>3, Zenon DEF Next, BeginAny

\* At the start nothing is published and nothing is known.
LEMMA InitHonest == Init => HonestInv
<1> SUFFICES ASSUME Init PROVE HonestInv
  BY Zenon
<1>1. /\ clock = 0 /\ serving = 1 /\ file = FreshMemory /\ tmp = NoTmp /\ 1 \in Epochs
      /\ \A e \in Epochs : endAt[e] = Never /\ keyAt[e] = Never
      /\ \A p \in Procs : /\ pc[p] = "idle" /\ kind[p] = "none" /\ attempt[p] = 1
                          /\ bundle[p] = NoEpoch /\ served[p] = NoEpoch /\ now[p] = 0
                          /\ st[p] = FreshMemory /\ result[p] = "none"
  BY Numbers, Zenon DEF Init
<1>2. Grounded(FreshMemory, endAt, keyAt, serving) /\ Grounded(NoTmp.memory, endAt, keyAt, serving)
  BY <1>1, GroundedFresh, Zenon
<1>3. 0 <= 0 /\ Never <= 0 /\ NoEpoch <= 1 /\ 1 # 2 /\ \A e \in Epochs : ~(e < 1) /\ ~(1 < e /\ e <= 1)
  BY DEF Never, NoEpoch, Epochs
<1>4. Recent(endAt, keyAt, serving, clock)
  <2> SUFFICES ASSUME NEW at \in Cut(endAt, keyAt, serving) PROVE FALSE
    BY Zenon DEF Recent
  <2>0. serving \in Epochs
    BY <1>1, Zenon
  <2>1. at # Never /\ (at = endAt[serving] \/ (serving + 1 \in Epochs /\ at = keyAt[serving + 1]))
    BY <2>0, Zenon DEF Cut
  <2> QED
    BY <1>1, <2>1, ZenonT(60)
<1>5. CutInv
  BY <1>1, <1>2, <1>3, <1>4, ZenonT(60) DEF CutInv
<1>6. \A p \in Procs : Proc(p)
  BY <1>1, <1>2, <1>3, ZenonT(60) DEF Proc, Reads
<1> QED
  BY <1>5, <1>6, Zenon DEF HonestInv

\* A command reports a violation only when the memory it loaded knew a later epoch than the
\* one it had been served (another process anchored the next epoch in between), when that
\* memory had sighted the epoch before the cut from it, when a receipt could not be read, or
\* when a later epoch than the second came between its reads.
AlarmExplained ==
  \A p \in Procs : result[p] = "violation" =>
    IF verdict[p] = "violation" THEN served[p] < st[p].highest \/ OldSighting(p)
    ELSE NoEpoch \in answers[p] \/ MovedAgain(p)

\* What the invariant says of a violation.
LEMMA HonestExplained == HonestInv => AlarmExplained
<1> SUFFICES ASSUME HonestInv, NEW p \in Procs, result[p] = "violation", verdict[p] = "violation",
                    ~(served[p] < st[p].highest)
             PROVE  OldSighting(p)
  BY ZenonT(60) DEF HonestInv, Proc, AlarmExplained, Alarmed
<1>1. Proc(p)
  BY Zenon DEF HonestInv
<1>2. Older(st[p], endAt, keyAt, served[p], clock)
  BY <1>1, Zenon DEF Proc, Alarmed
<1>3. Cut(endAt, keyAt, served[p]) = CutLines(served[p])
  BY Zenon DEF Cut, CutLines
<1> QED
  BY <1>2, <1>3, Zenon DEF Older, OldSighting

\* Against an honest operator, for any number of processes and of cuts: what every reported
\* violation comes from (judge_epoch, verify_inline_receipts, check_bundle_epoch,
\* once_more_on_epoch_change).  The bound and a read that met the first cut half way are not
\* among the causes.
THEOREM HonestAlarms ==
  ASSUME HonestOperator
  PROVE  Spec => []AlarmExplained
<1>1. AnchorInv /\ HonestInv /\ [Next]_vars => HonestInv'
  BY NextHonest, Zenon DEF AnchorInv
<1> QED
  BY <1>1, HonestExplained, InitHonest, AnchorInvariant, PTL DEF Spec

\* One process at a time, and any number of cuts: the ratchet is no cause either, whatever
\* the CDN answers, whichever process is killed and whichever save fails.
THEOREM HonestUnalarmed ==
  ASSUME HonestOperator, Solo
  PROVE  Spec => []HonestServerUnalarmed
<1>1. AnchorInv /\ HonestInv /\ [Next]_vars => HonestInv'
  BY NextHonest, Zenon DEF AnchorInv
<1>2. Spec => []RatchetInv
  BY RatchetInvariant
<1>3. AnchorInv /\ HonestInv /\ RatchetInv => HonestServerUnalarmed
  <2> SUFFICES ASSUME AnchorInv, HonestInv, RatchetInv, NEW p \in Procs
               PROVE  ~(served[p] < st[p].highest)
    BY HonestExplained, Zenon DEF AlarmExplained, HonestServerUnalarmed
  <2>1. st[p].highest <= served[p]
    BY Zenon DEF RatchetInv
  <2>2. st[p].highest \in Int /\ served[p] \in Int
    BY EpochInts, Order, Zenon DEF AnchorInv
  <2> QED
    BY <2>1, <2>2, Transitive, Zenon
<1> QED
  BY <1>1, <1>2, <1>3, InitHonest, AnchorInvariant, PTL DEF Spec
=============================================================================
