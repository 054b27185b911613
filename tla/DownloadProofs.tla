--------------------------- MODULE DownloadProofs ---------------------------
(***************************************************************************)
(* Proofs about Download.  For every number of processes, threads and      *)
(* chunks: types, each chunk fetched once, the completeness assertion, and *)
(* the give-up bound.  For one process with any number of threads, kills   *)
(* and refreshes: it implements AtomicReplace.                             *)
(***************************************************************************)
EXTENDS Download, FiniteSetTheorems, TLAPS

\* The chunks are finitely many, and there are ChunkCount of them.
LEMMA ChunkFacts ==
  /\ IsFiniteSet(Chunks) /\ Cardinality(Chunks) = ChunkCount
  /\ NoChunk \notin Chunks /\ Chunks \subseteq Int
<1>1. ChunkCount \in Nat
  BY CountAssumption, Zenon
<1>2. IsFiniteSet(0 .. ChunkCount - 1)
  BY <1>1, FS_Interval
<1>3. Cardinality(0 .. ChunkCount - 1)
        = IF 0 > ChunkCount - 1 THEN 0 ELSE (ChunkCount - 1) - 0 + 1
  BY <1>1, FS_Interval
<1> QED
  BY <1>1, <1>2, <1>3 DEF Chunks, NoChunk

\* Generation spawns at least one thread: neither the pending chunks nor the threads of
\* the process are empty.
LEMMA SpawnsSome ==
  ASSUME NEW p \in Procs, NEW spawned \in SUBSET ThreadsOf(p), NEW pending \in SUBSET Chunks,
         pending # {},
         Cardinality(spawned)
           = IF Cardinality(ThreadsOf(p)) < Cardinality(pending)
             THEN Cardinality(ThreadsOf(p)) ELSE Cardinality(pending)
  PROVE  spawned # {}
<1>1. IsFiniteSet(ThreadsOf(p)) /\ ThreadsOf(p) # {}
  <2>1. ThreadsOf(p) \subseteq Threads /\ ThreadsOf(p) # {}
    BY ThreadAssumption, Zenon DEF ThreadsOf
  <2> QED
    BY <2>1, ThreadAssumption, FS_Subset, Zenon
<1>2. IsFiniteSet(pending)
  BY ChunkFacts, FS_Subset, Zenon
<1>3. Cardinality(ThreadsOf(p)) \in Nat /\ Cardinality(ThreadsOf(p)) # 0
  BY <1>1, FS_EmptySet, FS_CardinalityType, Zenon
<1>4. Cardinality(pending) \in Nat /\ Cardinality(pending) # 0
  BY <1>2, FS_EmptySet, FS_CardinalityType, Zenon
<1>5. Cardinality(spawned) # 0
  BY <1>3, <1>4, Zenon
<1> QED
  BY <1>5, FS_EmptySet, Zenon

\* The initial states are well typed.
LEMMA InitTypeOK == Init => TypeOK
  BY CountAssumption, FileAssumption DEF Init, TypeOK, Phases, Results, Earlier


\* What the threads of a process hold: a thread runs only while its scope is open, holds
\* a chunk that is neither written nor pending nor held by another, and, as long as no
\* error is recorded, every chunk is written, pending or held, and someone will take the
\* pending ones.
WorkInv ==
  /\ \A t \in Threads :
       /\ pc[t] # "off" => phase[Owner[t]] = "join"
       /\ pc[t] = "fetch" => /\ item[t] \in Chunks
                             /\ item[t] \notin completed[Owner[t]]
                             /\ item[t] \notin plan[Owner[t]]
  /\ \A t, u \in Threads :
       t # u /\ Owner[t] = Owner[u] /\ pc[t] = "fetch" /\ pc[u] = "fetch" => item[t] # item[u]
  /\ \A p \in Procs : \A c \in plan[p] : c \notin completed[p]

\* As long as a generation has no error, every chunk is written, pending or held by a
\* thread, and while some are pending a thread is there to take them.
FlowInv ==
  \A p \in Procs :
    /\ abort[p] => firstErr[p] # "none"
    /\ phase[p] = "join" /\ firstErr[p] = "none" =>
         /\ plan[p] = {} \/ \E t \in Threads : Owner[t] = p /\ pc[t] # "off"
         /\ \A c \in Chunks : \/ c \in completed[p] \/ c \in plan[p]
                              \/ \E t \in Threads : Owner[t] = p /\ pc[t] = "fetch" /\ item[t] = c
    /\ phase[p] = "commit" => completed[p] = Chunks
    /\ phase[p] = "start" => completed[p] = {}

\* The initial states satisfy both.
LEMMA InitWork == Init => WorkInv /\ FlowInv
  BY DEF Init, WorkInv, FlowInv

\* What a worker takes: nothing, or a planned chunk (cursor.fetch_add).
LEMMA TakeIs ==
  ASSUME NEW t \in Threads, Take(t)
  PROVE  /\ pc[t] = "take"
         /\ UNCHANGED <<part, out, content, fd, phase, result, completed, done, doneBefore,
                        stale, abort, firstErr, crashes, idle>>
         /\ \/ /\ plan[Owner[t]] = {} /\ pc' = [pc EXCEPT ![t] = "off"]
               /\ UNCHANGED <<item, tries, plan>>
            \/ \E c \in plan[Owner[t]] :
                 /\ pc' = [pc EXCEPT ![t] = "fetch"]
                 /\ item' = [item EXCEPT ![t] = c] /\ tries' = [tries EXCEPT ![t] = 1]
                 /\ plan' = [plan EXCEPT ![Owner[t]] = @ \ {c}]
  BY Zenon DEF Take, fileVars, procVars

\* Every step keeps the types.
LEMMA NextTypeOK ==
  TypeOK /\ WorkInv /\ [Next]_vars => TypeOK'
<1> SUFFICES ASSUME TypeOK, WorkInv, [Next]_vars PROVE TypeOK'
  BY Zenon
<1> USE DEF TypeOK, Phases, Results, ThreadsOf
<1>1. CASE UNCHANGED vars
  BY <1>1, CountAssumption, OwnerAssumption, Zenon DEF vars, fileVars, procVars, genVars, threadVars
<1>2. ASSUME NEW p \in Procs, MainStep(p) \/ Crash(p) PROVE TypeOK'
  <2>1. CASE RequestFails(p)
    BY <2>1, CountAssumption, OwnerAssumption, Zenon DEF RequestFails, Return, fileVars, procVars, genVars, threadVars
  <2>2. CASE NoChunkMetadata(p)
    BY <2>2, CountAssumption, OwnerAssumption, Zenon DEF NoChunkMetadata, Fails, Return, fileVars, procVars, genVars, threadVars
  <2>3. CASE Begin(p)
    BY <2>3, CountAssumption, OwnerAssumption, SMTT(60) DEF Begin, CreateTemp, FreshFile, fileVars, procVars, genVars, threadVars
  <2>4. CASE Generation(p)
    BY <2>4, CountAssumption, OwnerAssumption DEF Generation, fileVars, procVars, genVars, threadVars
  <2>5. CASE AllWritten(p)
    BY <2>5, CountAssumption, OwnerAssumption, Zenon DEF AllWritten, fileVars, procVars, genVars, threadVars
  <2>6. CASE JoinClean(p)
    BY <2>6, CountAssumption, OwnerAssumption, Zenon DEF JoinClean, Joined, fileVars, procVars, genVars, threadVars
  <2>7. CASE JoinRejected(p)
    <3>0. StaleAfter(p) \in Nat
      BY DEF StaleAfter
    <3>1. CASE RefreshEarned(p)
      BY <2>7, <3>0, <3>1, SMTT(60) DEF JoinRejected, fileVars, genVars, threadVars
    <3>2. CASE ~RefreshEarned(p)
      BY <2>7, <3>0, <3>2, SMTT(60) DEF JoinRejected, Fails, Return, genVars, threadVars
    <3> QED
      BY <3>1, <3>2, Zenon
  <2>8. CASE JoinFailed(p)
    BY <2>8, CountAssumption, OwnerAssumption, Zenon DEF JoinFailed, Joined, Fails, Return, fileVars, procVars, genVars, threadVars
  <2>9. CASE Refresh(p)
    <3>1. CASE phase' = [phase EXCEPT ![p] = "loop"] /\ UNCHANGED <<fileVars, fd, result>>
      BY <2>9, <3>1, Zenon DEF Refresh, fileVars, genVars, threadVars
    <3>2. CASE Fails(p, "error") /\ UNCHANGED content
      BY <2>9, <3>2, Zenon DEF Refresh, Fails, Return, genVars, threadVars
    <3> QED
      BY <2>9, <3>1, <3>2, Zenon DEF Refresh
  <2>10. CASE Commit(p)
    BY <2>10, CountAssumption, OwnerAssumption, Zenon DEF Commit, Return, fileVars, procVars, genVars, threadVars
  <2>11. CASE CommitFails(p)
    BY <2>11, CountAssumption, OwnerAssumption, Zenon DEF CommitFails, Fails, Return, fileVars, procVars, genVars, threadVars
  <2>12. CASE Crash(p)
    BY <2>12, CountAssumption, OwnerAssumption DEF Crash, fileVars, procVars, genVars, threadVars
  <2> HIDE DEF TypeOK, Phases, Results, ThreadsOf
  <2> QED
    BY <1>2, <2>1, <2>2, <2>3, <2>4, <2>5, <2>6, <2>7, <2>8, <2>9, <2>10, <2>11, <2>12, Zenon DEF MainStep
<1>3. ASSUME NEW t \in Threads, ThreadStep(t) PROVE TypeOK'
  <2>1. CASE CheckAbort(t)
    BY <2>1, CountAssumption, OwnerAssumption, Zenon DEF CheckAbort, fileVars, procVars, genVars, threadVars
  <2>2. CASE Take(t)
    <3>1. Owner[t] \in Procs /\ 1 \in 0 .. Attempts
      BY OwnerAssumption, CountAssumption
    <3>2. CASE plan[Owner[t]] = {}
      <4>1. pc' = [pc EXCEPT ![t] = "off"] /\ UNCHANGED <<item, tries, plan>>
        BY <2>2, <3>2, TakeIs, Zenon
      <4>2. UNCHANGED <<part, out, content, fd, phase, result, completed, done, doneBefore,
                        stale, abort, firstErr, crashes, idle>>
        BY <2>2, TakeIs, Zenon
      <4> QED
        BY <4>1, <4>2, ZenonT(60)
    <3>3. CASE plan[Owner[t]] # {}
      <4>1. PICK c \in plan[Owner[t]] :
              /\ pc' = [pc EXCEPT ![t] = "fetch"]
              /\ item' = [item EXCEPT ![t] = c] /\ tries' = [tries EXCEPT ![t] = 1]
              /\ plan' = [plan EXCEPT ![Owner[t]] = @ \ {c}]
        BY <2>2, <3>3, TakeIs, Zenon
      <4>2. c \in Chunks /\ plan' \in [Procs -> SUBSET Chunks]
        BY <3>1, <4>1, ZenonT(60)
      <4>3. UNCHANGED <<part, out, content, fd, phase, result, completed, done, doneBefore,
                        stale, abort, firstErr, crashes, idle>>
        BY <2>2, TakeIs, Zenon
      <4> QED
        BY <3>1, <4>1, <4>2, <4>3, ZenonT(60)
    <3> QED
      BY <3>2, <3>3, Zenon
  <2>3. CASE FetchRetry(t)
    BY <2>3, CountAssumption, OwnerAssumption DEF FetchRetry, fileVars, procVars, genVars, threadVars
  <2>4. CASE FetchRejected(t)
    <3>1. Owner[t] \in Procs
      BY OwnerAssumption, Zenon
    <3>2. \E e \in {"presigned_rejected", "error"} : RecordError(t, e)
      BY <2>4, Zenon DEF FetchRejected
    <3>3. PICK e \in {"presigned_rejected", "error"} : RecordError(t, e)
      BY <3>2, Zenon
    <3>4. firstErr' \in [Procs -> {"none", "presigned_rejected", "error"}]
      BY <3>1, <3>3, Zenon DEF RecordError
    <3>5. 0 \in 0 .. Attempts
      BY CountAssumption, SMTT(60)
    <3> QED
      BY <3>1, <3>3, <3>4, <3>5, Zenon DEF RecordError, fileVars, procVars
  <2>5. CASE ChunkFails(t)
    <3>1. Owner[t] \in Procs
      BY OwnerAssumption, Zenon
    <3>2. \E e \in {"presigned_rejected", "error"} : RecordError(t, e)
      BY <2>5, Zenon DEF ChunkFails
    <3>3. PICK e \in {"presigned_rejected", "error"} : RecordError(t, e)
      BY <3>2, Zenon
    <3>4. firstErr' \in [Procs -> {"none", "presigned_rejected", "error"}]
      BY <3>1, <3>3, Zenon DEF RecordError
    <3>5. 0 \in 0 .. Attempts
      BY CountAssumption
    <3> QED
      BY <3>1, <3>3, <3>4, <3>5, Zenon DEF RecordError, fileVars, procVars
  <2>6. CASE ChunkDone(t)
    <3>6. 0 \in 0 .. Attempts
      BY CountAssumption
    <3>7. item[t] \in Chunks
      BY <2>6, Zenon DEF ChunkDone, WorkInv
    <3>1. Owner[t] \in Procs /\ 0 \in 0 .. Attempts /\ item[t] \in Chunks
      BY <3>6, <3>7, OwnerAssumption, Zenon
    <3>2. done' \in [Procs -> Nat]
      BY <2>6, <3>1 DEF ChunkDone
    <3>4. idle' \in [Procs -> Nat]
      BY <2>6, <3>1, Zenon DEF ChunkDone
    <3>5. completed' \in [Procs -> SUBSET Chunks]
      BY <2>6, <3>1, Zenon DEF ChunkDone
    <3>3. content' \in [Files -> SUBSET (Chunks \cup {NoChunk})]
      BY <2>6, <3>1, ZenonT(60) DEF ChunkDone
    <3> QED
      BY <2>6, <3>1, <3>2, <3>3, <3>4, <3>5, Zenon DEF ChunkDone, genVars
  <2> HIDE DEF TypeOK, Phases, Results, ThreadsOf
  <2> QED
    BY <1>3, <2>1, <2>2, <2>3, <2>4, <2>5, <2>6, Zenon DEF ThreadStep
<1> HIDE DEF TypeOK, Phases, Results, ThreadsOf
<1> QED
  BY <1>1, <1>2, <1>3, Zenon DEF Next, Returned

\* Every step keeps what the threads hold apart.
LEMMA NextWork ==
  TypeOK /\ WorkInv /\ [Next]_vars => WorkInv'
<1> SUFFICES ASSUME TypeOK, WorkInv, [Next]_vars PROVE WorkInv'
  BY Zenon
<1> USE DEF WorkInv, ThreadsOf
<1>1. CASE UNCHANGED vars
  BY <1>1, OwnerAssumption, Zenon DEF vars, fileVars, procVars, genVars, threadVars, TypeOK
<1>2. ASSUME NEW p \in Procs, MainStep(p) \/ Crash(p) PROVE WorkInv'
  <2>1. CASE RequestFails(p)
    BY <2>1, OwnerAssumption, Zenon DEF RequestFails, Return, fileVars, procVars, genVars, threadVars, TypeOK
  <2>2. CASE NoChunkMetadata(p)
    BY <2>2, OwnerAssumption, Zenon DEF NoChunkMetadata, Fails, Return, fileVars, procVars, genVars, threadVars, TypeOK
  <2>3. CASE Begin(p)
    BY <2>3, OwnerAssumption DEF Begin, CreateTemp, FreshFile, fileVars, procVars, genVars, threadVars, TypeOK
  <2>4. CASE Generation(p)
    BY <2>4, OwnerAssumption DEF Generation, fileVars, procVars, genVars, threadVars, TypeOK
  <2>5. CASE AllWritten(p)
    BY <2>5, OwnerAssumption, ZenonT(60) DEF AllWritten, fileVars, procVars, genVars, threadVars, TypeOK
  <2>6. CASE JoinClean(p)
    BY <2>6, OwnerAssumption, Zenon DEF JoinClean, Joined, fileVars, procVars, genVars, threadVars, TypeOK
  <2>7. CASE JoinRejected(p)
    BY <2>7, OwnerAssumption DEF JoinRejected, Joined, Fails, Return, StaleAfter, RefreshEarned, Progressed, fileVars, procVars, genVars, threadVars, TypeOK
  <2>8. CASE JoinFailed(p)
    BY <2>8, OwnerAssumption, Zenon DEF JoinFailed, Joined, Fails, Return, fileVars, procVars, genVars, threadVars, TypeOK
  <2>9. CASE Refresh(p)
    BY <2>9, OwnerAssumption DEF Refresh, Fails, Return, fileVars, procVars, genVars, threadVars, TypeOK
  <2>10. CASE Commit(p)
    BY <2>10, OwnerAssumption, Zenon DEF Commit, Return, fileVars, procVars, genVars, threadVars, TypeOK
  <2>11. CASE CommitFails(p)
    BY <2>11, OwnerAssumption, Zenon DEF CommitFails, Fails, Return, fileVars, procVars, genVars, threadVars, TypeOK
  <2>12. CASE Crash(p)
    BY <2>12, OwnerAssumption, Zenon DEF Crash, fileVars, procVars, genVars, threadVars, TypeOK
  <2> HIDE DEF WorkInv, ThreadsOf
  <2> QED
    BY <1>2, <2>1, <2>2, <2>3, <2>4, <2>5, <2>6, <2>7, <2>8, <2>9, <2>10, <2>11, <2>12, Zenon DEF MainStep
<1>3. ASSUME NEW t \in Threads, ThreadStep(t) PROVE WorkInv'
  <2>1. CASE CheckAbort(t)
    BY <2>1, OwnerAssumption DEF CheckAbort, fileVars, procVars, genVars, threadVars, TypeOK
  <2>2. CASE Take(t)
    <3>1. Owner[t] \in Procs /\ UNCHANGED <<phase, completed>> /\ pc[t] = "take"
      BY <2>2, TakeIs, OwnerAssumption, Zenon
    <3>2. CASE pc' = [pc EXCEPT ![t] = "off"] /\ UNCHANGED <<item, plan>>
      BY <3>1, <3>2, ZenonT(60) DEF TypeOK
    <3>3. ASSUME NEW c \in plan[Owner[t]], pc' = [pc EXCEPT ![t] = "fetch"],
                 item' = [item EXCEPT ![t] = c], plan' = [plan EXCEPT ![Owner[t]] = @ \ {c}]
          PROVE  WorkInv'
      BY <3>1, <3>3 DEF TypeOK
    <3>4. CASE plan[Owner[t]] # {}
      <4>1. PICK c \in plan[Owner[t]] :
              /\ pc' = [pc EXCEPT ![t] = "fetch"] /\ item' = [item EXCEPT ![t] = c]
              /\ plan' = [plan EXCEPT ![Owner[t]] = @ \ {c}]
        BY <2>2, <3>4, TakeIs, Zenon
      <4> QED
        BY <3>3, <4>1, Zenon
    <3>5. CASE plan[Owner[t]] = {}
      <4>1. pc' = [pc EXCEPT ![t] = "off"] /\ UNCHANGED <<item, plan>>
        BY <2>2, <3>5, TakeIs, Zenon
      <4> QED
        BY <3>2, <3>5, <4>1, Zenon
    <3> QED
      BY <3>4, <3>5, Zenon
  <2>3. CASE FetchRetry(t)
    BY <2>3, OwnerAssumption, Zenon DEF FetchRetry, fileVars, procVars, genVars, threadVars, TypeOK
  <2>4. CASE FetchRejected(t)
    BY <2>4, OwnerAssumption, Zenon DEF FetchRejected, RecordError, fileVars, procVars, genVars, threadVars, TypeOK
  <2>5. CASE ChunkFails(t)
    BY <2>5, OwnerAssumption, SMTT(60) DEF ChunkFails, RecordError, fileVars, procVars, genVars, threadVars, TypeOK
  <2>6. CASE ChunkDone(t)
    BY <2>6, OwnerAssumption DEF ChunkDone, fileVars, procVars, genVars, threadVars, TypeOK
  <2> HIDE DEF WorkInv, ThreadsOf
  <2> QED
    BY <1>3, <2>1, <2>2, <2>3, <2>4, <2>5, <2>6, Zenon DEF ThreadStep
<1> HIDE DEF WorkInv, ThreadsOf
<1> QED
  BY <1>1, <1>2, <1>3, Zenon DEF Next, Returned

\* Every step keeps the chunks of an error-free generation accounted for.
LEMMA NextFlow ==
  TypeOK /\ WorkInv /\ FlowInv /\ [Next]_vars => FlowInv'
<1> SUFFICES ASSUME TypeOK, WorkInv, FlowInv, [Next]_vars PROVE FlowInv'
  BY Zenon
<1> USE DEF FlowInv, ThreadsOf
<1>1. CASE UNCHANGED vars
  BY <1>1, OwnerAssumption, SMTT(60) DEF vars, fileVars, procVars, genVars, threadVars, TypeOK, WorkInv
<1>2. ASSUME NEW p \in Procs, MainStep(p) \/ Crash(p) PROVE FlowInv'
  <2>1. CASE RequestFails(p)
    BY <2>1, OwnerAssumption, SMTT(60) DEF RequestFails, Return, fileVars, procVars, genVars, threadVars, TypeOK, WorkInv
  <2>2. CASE NoChunkMetadata(p)
    BY <2>2, OwnerAssumption, SMTT(60) DEF NoChunkMetadata, Fails, Return, fileVars, procVars, genVars, threadVars, TypeOK, WorkInv
  <2>3. CASE Begin(p)
    BY <2>3, OwnerAssumption, SMTT(60) DEF Begin, CreateTemp, FreshFile, fileVars, procVars, genVars, threadVars, TypeOK, WorkInv
  <2>4. CASE Generation(p)
    <3> DEFINE pending == Chunks \ completed[p]
    <3>1. PICK spawned \in SUBSET ThreadsOf(p) :
            /\ Cardinality(spawned)
                 = IF Cardinality(ThreadsOf(p)) < Cardinality(pending)
                   THEN Cardinality(ThreadsOf(p)) ELSE Cardinality(pending)
            /\ pc' = [t \in Threads |-> IF t \in spawned THEN "check" ELSE pc[t]]
      BY <2>4, Zenon DEF Generation
    <3>2. pending \in SUBSET Chunks /\ pending # {} /\ plan'[p] = pending
      BY <2>4, Zenon DEF Generation, TypeOK
    <3>3. spawned # {}
      BY <3>1, <3>2, SpawnsSome, Zenon
    <3>4. \E t \in Threads : Owner[t] = p /\ pc'[t] # "off"
      BY <3>1, <3>3, Zenon
    <3>5. \A c \in Chunks : c \in completed'[p] \/ c \in plan'[p]
      BY <2>4, <3>2, Zenon DEF Generation
    <3>6. abort' = [abort EXCEPT ![p] = FALSE] /\ firstErr' = [firstErr EXCEPT ![p] = "none"]
          /\ plan' = [plan EXCEPT ![p] = pending] /\ phase' = [phase EXCEPT ![p] = "join"]
          /\ UNCHANGED <<completed, item>>
      BY <2>4, Zenon DEF Generation
    <3>7. \A t \in Threads : Owner[t] # p => pc'[t] = pc[t]
      BY <3>1, Zenon
    <3> HIDE DEF pending
    <3> QED
      BY <3>4, <3>5, <3>6, <3>7, SMTT(60) DEF TypeOK
  <2>5. CASE AllWritten(p)
    BY <2>5, OwnerAssumption, SMTT(60) DEF AllWritten, fileVars, procVars, genVars, threadVars, TypeOK, WorkInv
  <2>6. CASE JoinClean(p)
    BY <2>6, OwnerAssumption, SMTT(60) DEF JoinClean, Joined, fileVars, procVars, genVars, threadVars, TypeOK, WorkInv
  <2>7. CASE JoinRejected(p)
    BY <2>7, OwnerAssumption, SMTT(60) DEF JoinRejected, Joined, Fails, Return, StaleAfter, RefreshEarned, Progressed, fileVars, procVars, genVars, threadVars, TypeOK, WorkInv
  <2>8. CASE JoinFailed(p)
    BY <2>8, OwnerAssumption, SMTT(60) DEF JoinFailed, Joined, Fails, Return, fileVars, procVars, genVars, threadVars, TypeOK, WorkInv
  <2>9. CASE Refresh(p)
    BY <2>9, OwnerAssumption, SMTT(60) DEF Refresh, Fails, Return, fileVars, procVars, genVars, threadVars, TypeOK, WorkInv
  <2>10. CASE Commit(p)
    BY <2>10, OwnerAssumption, SMTT(60) DEF Commit, Return, fileVars, procVars, genVars, threadVars, TypeOK, WorkInv
  <2>11. CASE CommitFails(p)
    BY <2>11, OwnerAssumption, SMTT(60) DEF CommitFails, Fails, Return, fileVars, procVars, genVars, threadVars, TypeOK, WorkInv
  <2>12. CASE Crash(p)
    <3>1. /\ abort'[p] = FALSE /\ phase'[p] = "start" /\ completed'[p] = {}
          /\ \A q \in Procs \ {p} : /\ abort'[q] = abort[q] /\ firstErr'[q] = firstErr[q]
                                   /\ phase'[q] = phase[q] /\ plan'[q] = plan[q]
                                   /\ completed'[q] = completed[q]
      BY <2>12, ZenonT(60) DEF Crash, TypeOK
    <3>2. \A t \in Threads : Owner[t] # p => pc'[t] = pc[t] /\ item'[t] = item[t]
      BY <2>12, ZenonT(60) DEF Crash
    <3>3. \A q \in Procs \ {p}, c \in Chunks :
            (\E t \in Threads : Owner[t] = q /\ pc[t] = "fetch" /\ item[t] = c)
            => (\E t \in Threads : Owner[t] = q /\ pc'[t] = "fetch" /\ item'[t] = c)
      BY <3>2, ZenonT(60)
    <3>4. \A q \in Procs \ {p} :
            (\E t \in Threads : Owner[t] = q /\ pc[t] # "off")
            => (\E t \in Threads : Owner[t] = q /\ pc'[t] # "off")
      BY <3>2, ZenonT(60)
    <3> QED
      BY <3>1, <3>3, <3>4, SMTT(60)
  <2> HIDE DEF FlowInv, ThreadsOf
  <2> QED
    BY <1>2, <2>1, <2>2, <2>3, <2>4, <2>5, <2>6, <2>7, <2>8, <2>9, <2>10, <2>11, <2>12, Zenon DEF MainStep
<1>3. ASSUME NEW t \in Threads, ThreadStep(t) PROVE FlowInv'
  <2>1. CASE CheckAbort(t)
    BY <2>1, OwnerAssumption, SMTT(60) DEF CheckAbort, fileVars, procVars, genVars, threadVars, TypeOK, WorkInv
  <2>2. CASE Take(t)
    <3>1. Owner[t] \in Procs /\ UNCHANGED <<phase, completed, abort, firstErr>> /\ pc[t] = "take"
      BY <2>2, TakeIs, OwnerAssumption, Zenon
    <3>2. CASE plan[Owner[t]] = {} /\ pc' = [pc EXCEPT ![t] = "off"] /\ UNCHANGED <<item, plan>>
      BY <3>1, <3>2 DEF TypeOK
    <3>3. ASSUME NEW c \in plan[Owner[t]], pc' = [pc EXCEPT ![t] = "fetch"],
                 item' = [item EXCEPT ![t] = c], plan' = [plan EXCEPT ![Owner[t]] = @ \ {c}]
          PROVE  FlowInv'
      BY <3>1, <3>3 DEF TypeOK
    <3>4. CASE plan[Owner[t]] # {}
      <4>1. PICK c \in plan[Owner[t]] :
              /\ pc' = [pc EXCEPT ![t] = "fetch"] /\ item' = [item EXCEPT ![t] = c]
              /\ plan' = [plan EXCEPT ![Owner[t]] = @ \ {c}]
        BY <2>2, <3>4, TakeIs, Zenon
      <4> QED
        BY <3>3, <4>1, Zenon
    <3>5. CASE plan[Owner[t]] = {}
      <4>1. pc' = [pc EXCEPT ![t] = "off"] /\ UNCHANGED <<item, plan>>
        BY <2>2, <3>5, TakeIs, Zenon
      <4> QED
        BY <3>2, <3>5, <4>1, Zenon
    <3> QED
      BY <3>4, <3>5, Zenon
  <2>3. CASE FetchRetry(t)
    BY <2>3, OwnerAssumption DEF FetchRetry, fileVars, procVars, genVars, threadVars, TypeOK, WorkInv
  <2>4. CASE FetchRejected(t)
    BY <2>4, SMTT(60) DEF FetchRejected, RecordError, procVars, TypeOK
  <2>5. CASE ChunkFails(t)
    BY <2>5, SMTT(60) DEF ChunkFails, RecordError, procVars, TypeOK
  <2>6. CASE ChunkDone(t)
    BY <2>6, OwnerAssumption, SMTT(60) DEF ChunkDone, fileVars, procVars, genVars, threadVars, TypeOK, WorkInv
  <2> HIDE DEF FlowInv, ThreadsOf
  <2> QED
    BY <1>3, <2>1, <2>2, <2>3, <2>4, <2>5, <2>6, Zenon DEF ThreadStep
<1> HIDE DEF FlowInv, ThreadsOf
<1> QED
  BY <1>1, <1>2, <1>3, Zenon DEF Next, Returned

\* The counter counts the completed chunks, so the completeness assertion cannot fail;
\* a process has a result exactly when it returned.
CountInv ==
  \A p \in Procs :
    /\ done[p] = Cardinality(completed[p])
    /\ result[p] # "incomplete"
    /\ result[p] # "none" <=> phase[p] = "returned"

\* The consecutive rejections and the budget counter: they differ by at most the one
\* rejection that ended a generation which had written a chunk.
GiveInv ==
  \A p \in Procs :
    /\ phase[p] = "start" => idle[p] = 0 /\ stale[p] = 0
    /\ phase[p] \in {"loop", "refresh"} =>
         completed[p] = Chunks \/ idle[p] = stale[p] \/ idle[p] = stale[p] + 1
    /\ phase[p] = "join" =>
         /\ done[p] >= doneBefore[p]
         /\ done[p] > doneBefore[p] => idle[p] = 0
         /\ done[p] = doneBefore[p] => idle[p] = stale[p] \/ idle[p] = stale[p] + 1
    /\ result[p] = "gave_up" => idle[p] >= Budget
    /\ phase[p] = "refresh" => idle[p] <= Budget
    /\ result[p] # "none" => phase[p] = "returned"

\* The initial states satisfy both.
LEMMA InitCounts == Init => CountInv /\ GiveInv
  BY FS_EmptySet, CountAssumption DEF Init, CountInv, GiveInv

\* Every step keeps the counter exact.
LEMMA NextCount ==
  TypeOK /\ WorkInv /\ FlowInv /\ CountInv /\ [Next]_vars => CountInv'
<1> SUFFICES ASSUME TypeOK, WorkInv, FlowInv, CountInv, [Next]_vars PROVE CountInv'
  BY Zenon
<1> USE DEF CountInv
<1>1. CASE UNCHANGED vars
  BY <1>1, OwnerAssumption, Zenon DEF vars, fileVars, procVars, genVars, threadVars, TypeOK
<1>2. ASSUME NEW p \in Procs, MainStep(p) \/ Crash(p) PROVE CountInv'
  <2>1. CASE RequestFails(p)
    BY <2>1, OwnerAssumption, Zenon DEF RequestFails, Return, fileVars, procVars, genVars, threadVars, TypeOK
  <2>2. CASE NoChunkMetadata(p)
    BY <2>2, OwnerAssumption, Zenon DEF NoChunkMetadata, Fails, Return, fileVars, procVars, genVars, threadVars, TypeOK
  <2>3. CASE Begin(p)
    BY <2>3, OwnerAssumption, Zenon DEF Begin, CreateTemp, FreshFile, fileVars, procVars, genVars, threadVars, TypeOK
  <2>4. CASE Generation(p)
    BY <2>4, OwnerAssumption, Zenon DEF Generation, fileVars, procVars, genVars, threadVars, TypeOK
  <2>5. CASE AllWritten(p)
    BY <2>5, OwnerAssumption, Zenon DEF AllWritten, fileVars, procVars, genVars, threadVars, TypeOK
  <2>6. CASE JoinClean(p)
    BY <2>6, OwnerAssumption, ZenonT(60) DEF JoinClean, Joined, fileVars, procVars, genVars, threadVars, TypeOK
  <2>7. CASE JoinRejected(p)
    BY <2>7, OwnerAssumption, SMTT(60) DEF JoinRejected, Joined, Fails, Return, StaleAfter, RefreshEarned, Progressed, fileVars, procVars, genVars, threadVars, TypeOK
  <2>8. CASE JoinFailed(p)
    BY <2>8, OwnerAssumption, Zenon DEF JoinFailed, Joined, Fails, Return, fileVars, procVars, genVars, threadVars, TypeOK
  <2>9. CASE Refresh(p)
    BY <2>9, OwnerAssumption, SMTT(60) DEF Refresh, Fails, Return, fileVars, procVars, genVars, threadVars, TypeOK
  <2>10. CASE Commit(p)
    BY <2>10, OwnerAssumption, Zenon DEF Commit, Return, fileVars, procVars, genVars, threadVars, TypeOK
  <2>11. CASE CommitFails(p)
    <3>1. done[p] = ChunkCount
      BY <2>11, ChunkFacts, ZenonT(60) DEF CommitFails, FlowInv
    <3> QED
      BY <2>11, <3>1, Zenon DEF CommitFails, Fails, Return, TypeOK
  <2>12. CASE Crash(p)
    BY <2>12, FS_EmptySet, Zenon DEF Crash, fileVars, TypeOK
  <2> HIDE DEF CountInv
  <2> QED
    BY <1>2, <2>1, <2>2, <2>3, <2>4, <2>5, <2>6, <2>7, <2>8, <2>9, <2>10, <2>11, <2>12, ZenonT(60) DEF MainStep
<1>3. ASSUME NEW t \in Threads, ThreadStep(t) PROVE CountInv'
  <2>1. CASE CheckAbort(t)
    BY <2>1, OwnerAssumption, Zenon DEF CheckAbort, fileVars, procVars, genVars, threadVars, TypeOK
  <2>2. CASE Take(t)
    BY <2>2, OwnerAssumption, Zenon DEF Take, fileVars, procVars, genVars, threadVars, TypeOK
  <2>3. CASE FetchRetry(t)
    BY <2>3, OwnerAssumption, Zenon DEF FetchRetry, fileVars, procVars, genVars, threadVars, TypeOK
  <2>4. CASE FetchRejected(t)
    BY <2>4, OwnerAssumption, Zenon DEF FetchRejected, RecordError, fileVars, procVars, genVars, threadVars, TypeOK
  <2>5. CASE ChunkFails(t)
    BY <2>5, OwnerAssumption, Zenon DEF ChunkFails, RecordError, fileVars, procVars, genVars, threadVars, TypeOK
  <2>6. CASE ChunkDone(t)
    <3>1. Owner[t] \in Procs /\ item[t] \in Chunks /\ item[t] \notin completed[Owner[t]]
      BY <2>6, OwnerAssumption, Zenon DEF ChunkDone, WorkInv
    <3>2. IsFiniteSet(completed[Owner[t]])
      BY <3>1, ChunkFacts, FS_Subset, Zenon DEF TypeOK
    <3>3. Cardinality(completed[Owner[t]] \cup {item[t]}) = Cardinality(completed[Owner[t]]) + 1
      BY <3>1, <3>2, FS_AddElement, Zenon
    <3> QED
      BY <2>6, <3>1, <3>3, Zenon DEF ChunkDone, TypeOK
  <2> HIDE DEF CountInv
  <2> QED
    BY <1>3, <2>1, <2>2, <2>3, <2>4, <2>5, <2>6, Zenon DEF ThreadStep
<1> HIDE DEF CountInv
<1> QED
  BY <1>1, <1>2, <1>3, Zenon DEF Next, Returned

\* Every step keeps the budget accounting.
LEMMA NextGive ==
  TypeOK /\ WorkInv /\ FlowInv /\ GiveInv /\ [Next]_vars => GiveInv'
<1> SUFFICES ASSUME TypeOK, WorkInv, FlowInv, GiveInv, [Next]_vars PROVE GiveInv'
  BY Zenon
<1> USE DEF GiveInv
<1>1. CASE UNCHANGED vars
  BY <1>1, OwnerAssumption, CountAssumption, ZenonT(60) DEF vars, fileVars, procVars, genVars, threadVars, TypeOK
<1>2. ASSUME NEW p \in Procs, MainStep(p) \/ Crash(p) PROVE GiveInv'
  <2>1. CASE RequestFails(p)
    BY <2>1, OwnerAssumption, CountAssumption, SMTT(60) DEF RequestFails, Return, fileVars, procVars, genVars, threadVars, TypeOK
  <2>2. CASE NoChunkMetadata(p)
    BY <2>2, OwnerAssumption, CountAssumption, ZenonT(60) DEF NoChunkMetadata, Fails, Return, fileVars, procVars, genVars, threadVars, TypeOK
  <2>3. CASE Begin(p)
    BY <2>3, OwnerAssumption, CountAssumption, ZenonT(60) DEF Begin, CreateTemp, FreshFile, fileVars, procVars, genVars, threadVars, TypeOK
  <2>4. CASE Generation(p)
    BY <2>4, OwnerAssumption, CountAssumption, SMTT(60) DEF Generation, fileVars, procVars, genVars, threadVars, TypeOK
  <2>5. CASE AllWritten(p)
    BY <2>5, OwnerAssumption, CountAssumption, Zenon DEF AllWritten, fileVars, procVars, genVars, threadVars, TypeOK
  <2>6. CASE JoinClean(p)
    <3>1. completed[p] = Chunks
      BY <2>6, ZenonT(60) DEF JoinClean, Joined, FlowInv, ThreadsOf, TypeOK
    <3> QED
      BY <2>6, <3>1, ZenonT(60) DEF JoinClean, Joined, fileVars, genVars, threadVars, TypeOK
  <2>7. CASE JoinRejected(p)
    <3>1. /\ stale[p] \in Nat /\ idle[p] \in Nat /\ done[p] \in Nat /\ doneBefore[p] \in Nat
          /\ Budget \in Nat /\ Budget >= 1 /\ phase[p] = "join"
      BY <2>7, CountAssumption, SMTT(60) DEF TypeOK, JoinRejected, Joined
    <3>2. /\ stale' = [stale EXCEPT ![p] = StaleAfter(p)]
          /\ idle' = [idle EXCEPT ![p] = idle[p] + 1]
          /\ UNCHANGED <<completed, done, doneBefore>>
      BY <2>7, ZenonT(60) DEF JoinRejected
    <3>3. CASE done[p] > doneBefore[p]
      <4>1. StaleAfter(p) = 0 /\ RefreshEarned(p)
        BY <3>3, Zenon DEF StaleAfter, RefreshEarned, Progressed
      <4>2. phase' = [phase EXCEPT ![p] = "refresh"] /\ UNCHANGED result
        BY <2>7, <4>1, Zenon DEF JoinRejected
      <4>3. idle[p] = 0
        BY <3>1, <3>3, Zenon
      <4> QED
        BY <3>1, <3>2, <4>1, <4>2, <4>3, SMTT(60) DEF TypeOK
    <3>4. CASE done[p] = doneBefore[p]
      <4>1. StaleAfter(p) = stale[p] + 1
        BY <3>1, <3>4, SMTT(60) DEF StaleAfter, Progressed
      <4>2. CASE RefreshEarned(p)
        <5>1. phase' = [phase EXCEPT ![p] = "refresh"] /\ UNCHANGED result
          BY <2>7, <4>2, ZenonT(60) DEF JoinRejected
        <5>2. stale[p] + 1 < Budget
          BY <3>1, <3>4, <4>1, <4>2, SMTT(60) DEF RefreshEarned, Progressed
        <5> QED
          BY <3>1, <3>2, <3>4, <4>1, <5>1, <5>2, SMTT(60) DEF TypeOK
      <4>3. CASE ~RefreshEarned(p)
        <5>1. phase' = [phase EXCEPT ![p] = "returned"] /\ result' = [result EXCEPT ![p] = "gave_up"]
          BY <2>7, <4>3, ZenonT(60) DEF JoinRejected, Fails, Return
        <5>2. idle[p] + 1 >= Budget
          BY <3>1, <3>4, <4>1, <4>3, SMTT(60) DEF RefreshEarned
        <5> QED
          BY <3>1, <3>2, <5>1, <5>2, SMTT(60) DEF TypeOK
      <4> QED
        BY <4>2, <4>3, ZenonT(60)
    <3> QED
      BY <3>1, <3>3, <3>4, SMTT(60)
  <2>8. CASE JoinFailed(p)
    BY <2>8, OwnerAssumption, CountAssumption, ZenonT(60) DEF JoinFailed, Joined, Fails, Return, fileVars, procVars, genVars, threadVars, TypeOK
  <2>9. CASE Refresh(p)
    BY <2>9, OwnerAssumption, CountAssumption, SMTT(60) DEF Refresh, Fails, Return, fileVars, procVars, genVars, threadVars, TypeOK
  <2>10. CASE Commit(p)
    BY <2>10, OwnerAssumption, CountAssumption, ZenonT(60) DEF Commit, Return, fileVars, procVars, genVars, threadVars, TypeOK
  <2>11. CASE CommitFails(p)
    BY <2>11, OwnerAssumption, CountAssumption, SMTT(60) DEF CommitFails, Fails, Return, fileVars, procVars, genVars, threadVars, TypeOK
  <2>12. CASE Crash(p)
    BY <2>12, OwnerAssumption, CountAssumption, ZenonT(60) DEF Crash, fileVars, procVars, genVars, threadVars, TypeOK
  <2> HIDE DEF GiveInv
  <2> QED
    BY <1>2, <2>1, <2>2, <2>3, <2>4, <2>5, <2>6, <2>7, <2>8, <2>9, <2>10, <2>11, <2>12, ZenonT(60) DEF MainStep
<1>3. ASSUME NEW t \in Threads, ThreadStep(t) PROVE GiveInv'
  <2>1. CASE CheckAbort(t)
    BY <2>1, OwnerAssumption, CountAssumption, Zenon DEF CheckAbort, fileVars, procVars, genVars, threadVars, TypeOK
  <2>2. CASE Take(t)
    BY <2>2, OwnerAssumption, CountAssumption, Zenon DEF Take, fileVars, procVars, genVars, threadVars, TypeOK
  <2>3. CASE FetchRetry(t)
    BY <2>3, OwnerAssumption, CountAssumption, Zenon DEF FetchRetry, fileVars, procVars, genVars, threadVars, TypeOK
  <2>4. CASE FetchRejected(t)
    BY <2>4, OwnerAssumption, CountAssumption, Zenon DEF FetchRejected, RecordError, fileVars, procVars, genVars, threadVars, TypeOK
  <2>5. CASE ChunkFails(t)
    BY <2>5, OwnerAssumption, CountAssumption, ZenonT(60) DEF ChunkFails, RecordError, fileVars, procVars, genVars, threadVars, TypeOK
  <2>6. CASE ChunkDone(t)
    <3> DEFINE o == Owner[t]
    <3>1. o \in Procs /\ pc[t] = "fetch"
      BY <2>6, OwnerAssumption, Zenon DEF ChunkDone
    <3>2. /\ completed' = [completed EXCEPT ![o] = completed[o] \cup {item[t]}]
          /\ done' = [done EXCEPT ![o] = done[o] + 1] /\ idle' = [idle EXCEPT ![o] = 0]
          /\ UNCHANGED <<phase, result, doneBefore, stale>>
      BY <2>6, Zenon DEF ChunkDone
    <3>3. phase[o] = "join" /\ result[o] = "none"
      BY <3>1, <2>6, ZenonT(60) DEF WorkInv, TypeOK, Phases
    <3> HIDE DEF o
    <3>4. done'[o] > doneBefore'[o] /\ idle'[o] = 0
      BY <3>1, <3>2, <3>3, SMTT(60) DEF TypeOK
    <3> QED
      BY <3>1, <3>2, <3>3, <3>4, SMTT(60) DEF TypeOK
  <2> HIDE DEF GiveInv
  <2> QED
    BY <1>3, <2>1, <2>2, <2>3, <2>4, <2>5, <2>6, Zenon DEF ThreadStep
<1> HIDE DEF GiveInv
<1> QED
  BY <1>1, <1>2, <1>3, Zenon DEF Next, Returned

\* Everything above is an invariant.
LEMMA Invariants == Spec => [](TypeOK /\ WorkInv /\ FlowInv /\ CountInv /\ GiveInv)
<1>1. Init => TypeOK /\ WorkInv /\ FlowInv /\ CountInv /\ GiveInv
  BY InitTypeOK, InitWork, InitCounts, Zenon
<1>2. TypeOK /\ WorkInv /\ FlowInv /\ CountInv /\ GiveInv /\ [Next]_vars
        => (TypeOK /\ WorkInv /\ FlowInv /\ CountInv /\ GiveInv)'
  BY NextTypeOK, NextWork, NextFlow, NextCount, NextGive, Zenon
<1> QED
  BY <1>1, <1>2, PTL DEF Spec

\* `download` keeps its types.
THEOREM TypeCorrect == Spec => []TypeOK
  BY Invariants, PTL

\* However many processes, workers and refreshes: no worker fetches a chunk that is
\* already written or that another worker of its process is fetching.
THEOREM EachChunkOnce == Spec => []NoRefetch
<1>1. WorkInv => NoRefetch
  BY Zenon DEF WorkInv, NoRefetch
<1> QED
  BY <1>1, Invariants, PTL

\* The completeness assertion of `download` cannot fail.
THEOREM Completeness == Spec => []CompletenessHolds
<1>1. CountInv => CompletenessHolds
  BY Zenon DEF CountInv, CompletenessHolds
<1> QED
  BY <1>1, Invariants, PTL

\* The download gives up only after Budget consecutive rejections without a chunk.
THEOREM GiveUp == Spec => []GiveUpJustified
<1>1. GiveInv => GiveUpJustified
  BY Zenon DEF GiveInv, GiveUpJustified
<1> QED
  BY <1>1, Invariants, PTL

-----------------------------------------------------------------------------
(* A single process implements AtomicReplace. *)

\* One process: its open file is the temporary and holds what it has written, and the
\* target is what it was until the process succeeded.
Solo == \E p \in Procs : \A q \in Procs : p = q

SoloInv ==
  /\ \A p \in Procs :
       /\ phase[p] \in {"loop", "join", "refresh", "commit"} =>
            fd[p] \in Files /\ fd[p] = part /\ content[part] = completed[p]
       /\ phase[p] \in {"start", "returned"} => fd[p] = NoFile
       /\ result[p] = "ok" => out # NoFile /\ content[out] = Chunks
       /\ phase[p] = "returned" /\ (crashes = 0 \/ result[p] = "ok") => part = NoFile
       /\ phase[p] = "start" /\ crashes = 0 => part = NoFile
       /\ result[p] # "ok" => out = NoFile \/ content[out] = Earlier
  /\ part # NoFile => part # out
  /\ out = NoFile \/ content[out] = Earlier \/ content[out] = Chunks

\* The initial states satisfy it.
LEMMA InitSolo == Init => SoloInv
  BY DEF Init, SoloInv

\* Every step of a single process keeps it.
LEMMA NextSolo ==
  Solo /\ TypeOK /\ WorkInv /\ FlowInv /\ CountInv /\ SoloInv /\ [Next]_vars => SoloInv'
<1> SUFFICES ASSUME Solo, TypeOK, WorkInv, FlowInv, CountInv, SoloInv, [Next]_vars PROVE SoloInv'
  BY Zenon
<1> USE DEF SoloInv, Solo
<1>1. CASE UNCHANGED vars
  BY <1>1, OwnerAssumption, FileAssumption, Zenon DEF vars, fileVars, procVars, genVars, threadVars, TypeOK, WorkInv, FlowInv, CountInv
<1>2. ASSUME NEW p \in Procs, MainStep(p) \/ Crash(p) PROVE SoloInv'
  <2>1. CASE RequestFails(p)
    BY <2>1, SMTT(60) DEF RequestFails, Return, fileVars, CountInv
  <2>2. CASE NoChunkMetadata(p)
    BY <2>2, ZenonT(60) DEF NoChunkMetadata, Fails, Return, TypeOK, CountInv
  <2>3. CASE Begin(p)
    <3>1. PICK f \in Files : CreateTemp(f) /\ fd' = [fd EXCEPT ![p] = f]
      BY <2>3, Zenon DEF Begin
    <3>2. /\ phase[p] = "start" /\ phase' = [phase EXCEPT ![p] = "loop"]
          /\ UNCHANGED <<result, completed, crashes, out>> /\ part' = f
          /\ content' = [content EXCEPT ![f] = {}] /\ f # out
      BY <2>3, <3>1, FileAssumption, Zenon DEF Begin, CreateTemp, FreshFile
    <3>3. completed[p] = {} /\ result[p] = "none"
      BY <3>2, Zenon DEF FlowInv, CountInv, TypeOK
    <3> QED
      BY <3>1, <3>2, <3>3, FileAssumption, SMTT(60) DEF TypeOK, CountInv
  <2>4. CASE Generation(p)
    BY <2>4, SMTT(60) DEF Generation, fileVars
  <2>5. CASE AllWritten(p)
    BY <2>5, SMTT(60) DEF AllWritten, fileVars
  <2>6. CASE JoinClean(p)
    BY <2>6, SMTT(60) DEF JoinClean, Joined, fileVars
  <2>7. CASE JoinRejected(p)
    BY <2>7, SMTT(60) DEF JoinRejected, Joined, Fails, Return, fileVars, TypeOK, CountInv
  <2>8. CASE JoinFailed(p)
    BY <2>8, SMTT(60) DEF JoinFailed, Joined, Fails, Return, TypeOK, CountInv
  <2>9. CASE Refresh(p)
    BY <2>9, SMTT(60) DEF Refresh, Fails, Return, fileVars, TypeOK, CountInv
  <2>10. CASE Commit(p)
    BY <2>10, ZenonT(60) DEF Commit, Return, TypeOK, FlowInv
  <2>11. CASE CommitFails(p)
    BY <2>11, ZenonT(60) DEF CommitFails, Fails, Return, TypeOK, CountInv
  <2>12. CASE Crash(p)
    BY <2>12, OwnerAssumption, FileAssumption, SMTT(60) DEF Crash, fileVars, procVars, genVars, threadVars, TypeOK, WorkInv, FlowInv, CountInv
  <2> HIDE DEF SoloInv, Solo
  <2> QED
    BY <1>2, <2>1, <2>2, <2>3, <2>4, <2>5, <2>6, <2>7, <2>8, <2>9, <2>10, <2>11, <2>12, ZenonT(60) DEF MainStep
<1>3. ASSUME NEW t \in Threads, ThreadStep(t) PROVE SoloInv'
  <2>1. CASE CheckAbort(t)
    BY <2>1, OwnerAssumption, FileAssumption, ZenonT(60) DEF CheckAbort, fileVars, procVars, genVars, threadVars, TypeOK, WorkInv, FlowInv, CountInv
  <2>2. CASE Take(t)
    BY <2>2, OwnerAssumption, FileAssumption, ZenonT(60) DEF Take, fileVars, procVars, genVars, threadVars, TypeOK, WorkInv, FlowInv, CountInv
  <2>3. CASE FetchRetry(t)
    BY <2>3, OwnerAssumption, FileAssumption, ZenonT(60) DEF FetchRetry, fileVars, procVars, genVars, threadVars, TypeOK, WorkInv, FlowInv, CountInv
  <2>4. CASE FetchRejected(t)
    BY <2>4, OwnerAssumption, FileAssumption, ZenonT(60) DEF FetchRejected, RecordError, fileVars, procVars, genVars, threadVars, TypeOK, WorkInv, FlowInv, CountInv
  <2>5. CASE ChunkFails(t)
    BY <2>5, OwnerAssumption, FileAssumption, ZenonT(60) DEF ChunkFails, RecordError, fileVars, procVars, genVars, threadVars, TypeOK, WorkInv, FlowInv, CountInv
  <2>6. CASE ChunkDone(t)
    <3> DEFINE o == Owner[t]
    <3>1. o \in Procs /\ pc[t] = "fetch" /\ phase[o] = "join" /\ fd[o] \in Files
      BY <2>6, OwnerAssumption, ZenonT(60) DEF ChunkDone, WorkInv
    <3>2. /\ completed' = [completed EXCEPT ![o] = completed[o] \cup {item[t]}]
          /\ content' = [content EXCEPT ![fd[o]] = content[fd[o]] \cup {item[t]}]
          /\ UNCHANGED <<part, out, fd, phase, result, crashes>>
      BY <2>6, ZenonT(60) DEF ChunkDone
    <3> HIDE DEF o
    <3>3. /\ fd[o] = part /\ part # NoFile /\ part # out /\ content[part] = completed[o]
          /\ result[o] = "none" /\ \A q \in Procs : q = o
      BY <3>1, FileAssumption, SMTT(60) DEF CountInv, TypeOK, Phases, Results
    <3>4. out # NoFile => content'[out] = content[out]
      BY <3>2, <3>3, Zenon DEF TypeOK
    <3>5. content'[part] = completed'[o]
      BY <3>1, <3>2, <3>3, ZenonT(60) DEF TypeOK
    <3> QED
      BY <3>1, <3>2, <3>3, <3>4, <3>5, ZenonT(60)
  <2> HIDE DEF SoloInv, Solo
  <2> QED
    BY <1>3, <2>1, <2>2, <2>3, <2>4, <2>5, <2>6, Zenon DEF ThreadStep
<1> HIDE DEF SoloInv, Solo
<1> QED
  BY <1>1, <1>2, <1>3, Zenon DEF Next, Returned

\* One process: a step changes the target only by committing, and a result is final.
TargetStep ==
  /\ UNCHANGED out \/ \E p \in Procs : result[p] = "none" /\ result'[p] = "ok"
  /\ \A p \in Procs : result'[p] = result[p] \/ result[p] = "none"

\* Every step of a single process is such a step.
LEMMA TargetSteps ==
  Solo /\ TypeOK /\ WorkInv /\ CountInv /\ [Next]_vars => TargetStep
<1> SUFFICES ASSUME Solo, TypeOK, WorkInv, CountInv, [Next]_vars PROVE TargetStep
  BY ZenonT(60)
<1> USE DEF TargetStep, Solo
<1>1. CASE UNCHANGED vars
  BY <1>1, OwnerAssumption, ZenonT(60) DEF vars, fileVars, procVars, genVars, threadVars, TypeOK, WorkInv, CountInv
<1>2. ASSUME NEW p \in Procs, MainStep(p) \/ Crash(p) PROVE TargetStep
  <2>1. CASE RequestFails(p)
    BY <2>1, Zenon DEF RequestFails, fileVars, CountInv
  <2>2. CASE NoChunkMetadata(p)
    BY <2>2, OwnerAssumption, SMTT(60) DEF NoChunkMetadata, Fails, Return, fileVars, procVars, genVars, threadVars, TypeOK, WorkInv, CountInv
  <2>3. CASE Begin(p)
    BY <2>3, OwnerAssumption, Zenon DEF Begin, CreateTemp, FreshFile, fileVars, procVars, genVars, threadVars, TypeOK, WorkInv, CountInv
  <2>4. CASE Generation(p)
    BY <2>4, OwnerAssumption, ZenonT(60) DEF Generation, fileVars, procVars, genVars, threadVars, TypeOK, WorkInv, CountInv
  <2>5. CASE AllWritten(p)
    BY <2>5, OwnerAssumption, ZenonT(60) DEF AllWritten, fileVars, procVars, genVars, threadVars, TypeOK, WorkInv, CountInv
  <2>6. CASE JoinClean(p)
    BY <2>6, OwnerAssumption, ZenonT(60) DEF JoinClean, Joined, fileVars, procVars, genVars, threadVars, TypeOK, WorkInv, CountInv
  <2>7. CASE JoinRejected(p)
    BY <2>7, OwnerAssumption, SMTT(60) DEF JoinRejected, Joined, Fails, Return, StaleAfter, RefreshEarned, Progressed, fileVars, procVars, genVars, threadVars, TypeOK, WorkInv, CountInv
  <2>8. CASE JoinFailed(p)
    BY <2>8, OwnerAssumption, ZenonT(60) DEF JoinFailed, Joined, Fails, Return, fileVars, procVars, genVars, threadVars, TypeOK, WorkInv, CountInv
  <2>9. CASE Refresh(p)
    BY <2>9, OwnerAssumption, SMTT(60) DEF Refresh, Fails, Return, fileVars, procVars, genVars, threadVars, TypeOK, WorkInv, CountInv
  <2>10. CASE Commit(p)
    BY <2>10, OwnerAssumption, SMTT(60) DEF Commit, Return, fileVars, procVars, genVars, threadVars, TypeOK, WorkInv, CountInv
  <2>11. CASE CommitFails(p)
    BY <2>11, OwnerAssumption, SMTT(60) DEF CommitFails, Fails, Return, fileVars, procVars, genVars, threadVars, TypeOK, WorkInv, CountInv
  <2>12. CASE Crash(p)
    BY <2>12, OwnerAssumption, Zenon DEF Crash, fileVars, procVars, genVars, threadVars, TypeOK, WorkInv, CountInv
  <2> HIDE DEF TargetStep, Solo
  <2> QED
    BY <1>2, <2>1, <2>2, <2>3, <2>4, <2>5, <2>6, <2>7, <2>8, <2>9, <2>10, <2>11, <2>12, ZenonT(60) DEF MainStep
<1>3. ASSUME NEW t \in Threads, ThreadStep(t) PROVE TargetStep
  <2>1. CASE CheckAbort(t)
    BY <2>1, OwnerAssumption, ZenonT(60) DEF CheckAbort, fileVars, procVars, genVars, threadVars, TypeOK, WorkInv, CountInv
  <2>2. CASE Take(t)
    BY <2>2, OwnerAssumption, ZenonT(60) DEF Take, fileVars, procVars, genVars, threadVars, TypeOK, WorkInv, CountInv
  <2>3. CASE FetchRetry(t)
    BY <2>3, OwnerAssumption, ZenonT(60) DEF FetchRetry, fileVars, procVars, genVars, threadVars, TypeOK, WorkInv, CountInv
  <2>4. CASE FetchRejected(t)
    BY <2>4, OwnerAssumption, ZenonT(60) DEF FetchRejected, RecordError, fileVars, procVars, genVars, threadVars, TypeOK, WorkInv, CountInv
  <2>5. CASE ChunkFails(t)
    BY <2>5, OwnerAssumption, ZenonT(60) DEF ChunkFails, RecordError, fileVars, procVars, genVars, threadVars, TypeOK, WorkInv, CountInv
  <2>6. CASE ChunkDone(t)
    BY <2>6, OwnerAssumption, Zenon DEF ChunkDone, fileVars, procVars, genVars, threadVars, TypeOK, WorkInv, CountInv
  <2> HIDE DEF TargetStep, Solo
  <2> QED
    BY <1>3, <2>1, <2>2, <2>3, <2>4, <2>5, <2>6, ZenonT(60) DEF ThreadStep
<1> HIDE DEF TargetStep, Solo
<1> QED
  BY <1>1, <1>2, <1>3, ZenonT(60) DEF Next, Returned

\* What a single process does is a step of AtomicReplace or changes nothing its caller sees.
LEMMA ReplaceStep ==
  ASSUME Solo, TypeOK, TypeOK', CountInv, CountInv', SoloInv, SoloInv', TargetStep
  PROVE  [Replace!Next]_(Replace!vars)
<1>1. CASE \A p \in Procs : result[p] = "none" /\ result'[p] = "none"
  <2>1. UNCHANGED out /\ Outcome = "running" /\ Outcome' = "running"
    BY <1>1, Zenon DEF TargetStep, Outcome
  <2>2. /\ out = NoFile \/ content[out] = Earlier
        /\ out' = NoFile \/ content'[out'] = Earlier
    BY <1>1, <2>1, Zenon DEF SoloInv, Solo
  <2>3. Target' = Target
    BY <2>1, <2>2, Zenon DEF Target
  <2> QED
    BY <2>1, <2>3, Zenon DEF Replace!vars
<1>2. ASSUME NEW p \in Procs, result[p] # "none" PROVE [Replace!Next]_(Replace!vars)
  <2>1. UNCHANGED <<out, result>> /\ \A q \in Procs : q = p
    BY <1>2, SMTT(60) DEF TargetStep, Solo, TypeOK
  <2>2. Outcome' = Outcome
    BY <2>1, Zenon DEF Outcome
  <2>3. Target' = Target
    BY <1>2, <2>1, Zenon DEF Target, SoloInv, Earlier, Chunks, NoChunk
  <2> QED
    BY <2>2, <2>3, ZenonT(60) DEF Replace!vars
<1>3. ASSUME NEW p \in Procs, result[p] = "none", result'[p] = "ok"
      PROVE  [Replace!Next]_(Replace!vars)
  <2>1. \A q \in Procs : q = p
    BY Zenon DEF Solo
  <2>2. Outcome = "running" /\ Outcome' = "ok"
    BY <1>3, <2>1, Zenon DEF Outcome
  <2>3. out' # NoFile /\ content'[out'] = Chunks
    BY <1>3, Zenon DEF SoloInv
  <2>4. Chunks # Earlier
    BY ChunkFacts, Zenon DEF Earlier
  <2>5. Target' = "complete"
    BY <2>3, <2>4, Zenon DEF Target
  <2> QED
    BY <2>2, <2>5, Zenon DEF Replace!Next, Replace!Succeed
<1>4. ASSUME NEW p \in Procs, result[p] = "none", result'[p] # "none", result'[p] # "ok"
      PROVE  [Replace!Next]_(Replace!vars)
  <2>1. \A q \in Procs : q = p
    BY Zenon DEF Solo
  <2>2. Outcome = "running" /\ Outcome' = "failed"
    BY <1>4, <2>1, Zenon DEF Outcome
  <2>3. UNCHANGED out
    BY <1>4, <2>1, Zenon DEF TargetStep
  <2>4. /\ out = NoFile \/ content[out] = Earlier
        /\ out' = NoFile \/ content'[out'] = Earlier
    BY <1>4, <2>1, <2>3, ZenonT(60) DEF SoloInv
  <2>5. Target' = Target
    BY <2>3, <2>4, ZenonT(60) DEF Target
  <2> QED
    BY <2>2, <2>5, ZenonT(60) DEF Replace!Next, Replace!Fail
<1> QED
  BY <1>1, <1>2, <1>3, <1>4, Zenon DEF Solo

\* The initial states are initial states of AtomicReplace.
LEMMA ReplaceInit == Init => Replace!Init
<1> SUFFICES ASSUME Init PROVE Replace!Init
  BY Zenon
<1>1. Outcome = "running"
  BY Zenon DEF Init, Outcome
<1>2. Target \in {"absent", "earlier"}
  BY FileAssumption, Zenon DEF Init, Target
<1> QED
  BY <1>1, <1>2, Zenon DEF Replace!Init

\* The invariants of a single process.
LEMMA SoloInvariants ==
  ASSUME Solo PROVE Spec => [](TypeOK /\ WorkInv /\ CountInv /\ SoloInv)
<1>1. Init => SoloInv
  BY InitSolo, Zenon
<1>2. TypeOK /\ WorkInv /\ FlowInv /\ CountInv /\ SoloInv /\ [Next]_vars => SoloInv'
  BY NextSolo, Zenon
<1> QED
  BY <1>1, <1>2, Invariants, PTL DEF Spec

\* One process, any number of workers, kills and URL refreshes: the target names nothing
\* or a complete file.
THEOREM TargetComplete == ASSUME Solo PROVE Spec => []OutComplete
<1>1. SoloInv => OutComplete
  BY Zenon DEF SoloInv, OutComplete
<1> QED
  BY <1>1, SoloInvariants, PTL

\* One process: a download that returned leaves no temporary, unless one was killed
\* before it and this one failed.
THEOREM TemporaryRemoved == ASSUME Solo PROVE Spec => []NoPartLeft
<1>1. SoloInv => NoPartLeft
  BY Zenon DEF SoloInv, NoPartLeft
<1> QED
  BY <1>1, SoloInvariants, PTL

\* One process: `download` implements the atomic replacement of its target.
THEOREM Implements == ASSUME Solo PROVE Spec => ImplementsAtomicReplace
<1>1. TypeOK /\ TypeOK' /\ WorkInv /\ CountInv /\ CountInv' /\ SoloInv /\ SoloInv' /\ [Next]_vars
        => [Replace!Next]_(Replace!vars)
  BY TargetSteps, ReplaceStep, Zenon
<1> QED
  BY <1>1, ReplaceInit, SoloInvariants, PTL DEF Spec, ImplementsAtomicReplace, Replace!Spec
=============================================================================
