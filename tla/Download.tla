------------------------------ MODULE Download ------------------------------
(***************************************************************************)
(* The chunked download of `download` in `src/cli/src/commands.rs`, with   *)
(* the range fetch of `src/cli/src/http.rs`.                               *)
(*                                                                         *)
(* A process writes the chunks of one file to `<out>.part` and renames it  *)
(* to `<out>` when all of them are there.  It works in generations: the    *)
(* chunks still missing are handed to worker threads through an atomic     *)
(* cursor; when storage rejects the pre-signed URL the generation ends, a  *)
(* fresh URL is requested, and the next generation takes what is missing.  *)
(*                                                                         *)
(* The file system is modelled as far as the code relies on it: a name     *)
(* refers to a file or to none, an open file survives its name, creating   *)
(* an existing name truncates the file it refers to, and a rename replaces *)
(* the target.  Several processes may download to the same target.         *)
(***************************************************************************)
EXTENDS Integers, FiniteSets

CONSTANTS
  Procs,         \* processes started for the same output path
  Threads,       \* worker threads, each owned by one process
  Owner,         \* [Threads -> Procs]
  ChunkCount,    \* multipart_chunks
  Attempts,      \* DOWNLOAD_ATTEMPTS of a range fetch
  Budget,        \* PRESIGNED_STALE_REFRESH_BUDGET
  Files,         \* files (inodes) the directory may hold
  NoFile,
  MaxCrashes     \* bound on the kills of a model-checked instance

ASSUME OwnerAssumption == Owner \in [Threads -> Procs]
ASSUME CountAssumption ==
  /\ ChunkCount \in Nat /\ Attempts \in Nat \ {0} /\ Budget \in Nat \ {0}
  /\ MaxCrashes \in Nat
ASSUME FileAssumption == NoFile \notin Files
ASSUME ThreadAssumption ==
  IsFiniteSet(Threads) /\ \A p \in Procs : \E t \in Threads : Owner[t] = p

Chunks == 0 .. ChunkCount - 1
ThreadsOf(p) == {t \in Threads : Owner[t] = p}

VARIABLES
  part, out,      \* the files named by download_temp_path and out_path
  content,        \* the chunks a file holds
  fd,             \* the file each process has open
  phase, result,  \* where the main thread of each process is, what it returned
  completed,      \* completed_chunks
  done,           \* the `done` counter
  doneBefore,     \* `done` when the generation started
  stale,          \* stale_refreshes
  plan,           \* the pending chunks the cursor has not passed
  abort, firstErr,
  pc, item, tries,                  \* the worker threads
  crashes,
  idle            \* history: rejected generations since a chunk was last written

fileVars == <<part, out, content>>
procVars == <<fd, phase, result, completed, done, doneBefore, stale>>
genVars == <<plan, abort, firstErr>>
threadVars == <<pc, item, tries>>
vars == <<fileVars, procVars, genVars, threadVars, crashes, idle>>

NoChunk == -1
\* What a target from before the download holds.
Earlier == {NoChunk}
Phases == {"start", "loop", "join", "refresh", "commit", "returned"}
Results == {"none", "ok", "gave_up", "error", "incomplete"}

\* The target is absent, or a complete file from before.
Init ==
  /\ part = NoFile
  /\ out \in Files \cup {NoFile}
  /\ content = [f \in Files |-> IF f = out THEN Earlier ELSE {}]
  /\ fd = [p \in Procs |-> NoFile]
  /\ phase = [p \in Procs |-> "start"] /\ result = [p \in Procs |-> "none"]
  /\ completed = [p \in Procs |-> {}]
  /\ done = [p \in Procs |-> 0] /\ doneBefore = [p \in Procs |-> 0]
  /\ stale = [p \in Procs |-> 0]
  /\ plan = [p \in Procs |-> {}]
  /\ abort = [p \in Procs |-> FALSE] /\ firstErr = [p \in Procs |-> "none"]
  /\ pc = [t \in Threads |-> "off"] /\ item = [t \in Threads |-> NoChunk]
  /\ tries = [t \in Threads |-> 0]
  /\ crashes = 0
  /\ idle = [p \in Procs |-> 0]

-----------------------------------------------------------------------------
(* The main thread. *)

\* The process returns; an error drops the TempFileGuard, which removes whatever file
\* the temporary name refers to by then.
Return(p, r) ==
  /\ phase' = [phase EXCEPT ![p] = "returned"]
  /\ result' = [result EXCEPT ![p] = r]
  /\ fd' = [fd EXCEPT ![p] = NoFile]

Fails(p, r) ==
  /\ Return(p, r)
  /\ part' = NoFile
  /\ UNCHANGED out

\* The key or the URL cannot be had: nothing has been created yet.
RequestFails(p) ==
  /\ phase[p] = "start"
  /\ Return(p, "error")
  /\ UNCHANGED <<fileVars, completed, done, doneBefore, stale, genVars, threadVars,
                 crashes, idle>>

\* File::create: an existing temporary is truncated, otherwise a new file appears.
FreshFile(f) == f # out /\ f # part /\ \A p \in Procs : f # fd[p]

CreateTemp(f) ==
  /\ IF part # NoFile THEN f = part ELSE FreshFile(f)
  /\ part' = f
  /\ content' = [content EXCEPT ![f] = {}]
  /\ UNCHANGED out

Begin(p) ==
  /\ phase[p] = "start"
  /\ \E f \in Files : CreateTemp(f) /\ fd' = [fd EXCEPT ![p] = f]
  /\ phase' = [phase EXCEPT ![p] = "loop"]
  /\ UNCHANGED <<result, completed, done, doneBefore, stale, genVars, threadVars,
                 crashes, idle>>

\* The temporary exists but the answer has no chunk metadata.
NoChunkMetadata(p) ==
  /\ phase[p] = "start"
  /\ Fails(p, "error")
  /\ content' = [f \in Files |-> IF f = part THEN {} ELSE content[f]]
  /\ UNCHANGED <<out, completed, done, doneBefore, stale, genVars, threadVars,
                 crashes, idle>>

\* A generation: the chunks not completed are handed to min(n, pending) workers.
Generation(p) ==
  LET pending == Chunks \ completed[p]
      n == Cardinality(ThreadsOf(p))
      workers == IF n < Cardinality(pending) THEN n ELSE Cardinality(pending)
  IN
  /\ phase[p] = "loop" /\ pending # {}
  /\ doneBefore' = [doneBefore EXCEPT ![p] = done[p]]
  /\ plan' = [plan EXCEPT ![p] = pending]
  /\ abort' = [abort EXCEPT ![p] = FALSE]
  /\ firstErr' = [firstErr EXCEPT ![p] = "none"]
  /\ \E spawned \in SUBSET ThreadsOf(p) :
       /\ Cardinality(spawned) = workers
       /\ pc' = [t \in Threads |-> IF t \in spawned THEN "check" ELSE pc[t]]
  /\ phase' = [phase EXCEPT ![p] = "join"]
  /\ UNCHANGED <<fileVars, fd, result, completed, done, stale, item, tries, crashes, idle>>

AllWritten(p) ==
  /\ phase[p] = "loop" /\ Chunks = completed[p]
  /\ phase' = [phase EXCEPT ![p] = "commit"]
  /\ UNCHANGED <<fileVars, fd, result, completed, done, doneBefore, stale, genVars,
                 threadVars, crashes, idle>>

\* A chunk completed in this generation.
Progressed(p) == done[p] > doneBefore[p]

\* presigned_refresh_decision: the count it leaves, and whether a fresh URL is earned.
StaleAfter(p) == IF Progressed(p) THEN 0 ELSE stale[p] + 1
RefreshEarned(p) == Progressed(p) \/ StaleAfter(p) < Budget

\* The scope has joined its threads.
Joined(p) == phase[p] = "join" /\ \A t \in ThreadsOf(p) : pc[t] = "off"

JoinClean(p) ==
  /\ Joined(p) /\ firstErr[p] = "none"
  /\ phase' = [phase EXCEPT ![p] = "loop"]
  /\ UNCHANGED <<fileVars, fd, result, completed, done, doneBefore, stale, genVars,
                 threadVars, crashes, idle>>

JoinRejected(p) ==
  /\ Joined(p) /\ firstErr[p] = "presigned_rejected"
  /\ stale' = [stale EXCEPT ![p] = StaleAfter(p)]
  /\ idle' = [idle EXCEPT ![p] = @ + 1]
  /\ IF RefreshEarned(p)
     THEN /\ phase' = [phase EXCEPT ![p] = "refresh"]
          /\ UNCHANGED <<fileVars, fd, result>>
     ELSE Fails(p, "gave_up") /\ UNCHANGED content
  /\ UNCHANGED <<completed, done, doneBefore, genVars, threadVars, crashes>>

JoinFailed(p) ==
  /\ Joined(p) /\ firstErr[p] = "error"
  /\ Fails(p, "error")
  /\ UNCHANGED <<content, completed, done, doneBefore, stale, genVars, threadVars, crashes, idle>>

\* A fresh URL is requested on the main thread.
Refresh(p) ==
  /\ phase[p] = "refresh"
  /\ \/ phase' = [phase EXCEPT ![p] = "loop"] /\ UNCHANGED <<fileVars, fd, result>>
     \/ Fails(p, "error") /\ UNCHANGED content
  /\ UNCHANGED <<completed, done, doneBefore, stale, genVars, threadVars, crashes, idle>>

\* The completeness assertion, then the rename, the only commit point.  It moves
\* whatever file the temporary name refers to, and fails if there is none.
Commit(p) ==
  /\ phase[p] = "commit" /\ done[p] = ChunkCount /\ part # NoFile
  /\ out' = part /\ part' = NoFile /\ UNCHANGED content
  /\ Return(p, "ok")
  /\ UNCHANGED <<completed, done, doneBefore, stale, genVars, threadVars, crashes, idle>>

\* Mutant: the temporary is renamed before the last check that can fail.
CommitFailsRenamed(p) ==
  /\ phase[p] = "commit" /\ done[p] = ChunkCount /\ part # NoFile
  /\ out' = part /\ part' = NoFile
  /\ Return(p, "error")
  /\ UNCHANGED <<content, completed, done, doneBefore, stale, genVars, threadVars, crashes, idle>>

CommitFails(p) ==
  /\ phase[p] = "commit"
  /\ Fails(p, IF done[p] = ChunkCount THEN "error" ELSE "incomplete")
  /\ UNCHANGED <<content, completed, done, doneBefore, stale, genVars, threadVars, crashes, idle>>

-----------------------------------------------------------------------------
(* The worker threads. *)

\* The abort flag is looked at before a slot is taken, not atomically with it.
CheckAbort(t) ==
  /\ pc[t] = "check"
  /\ pc' = [pc EXCEPT ![t] = IF abort[Owner[t]] THEN "off" ELSE "take"]
  /\ UNCHANGED <<fileVars, procVars, genVars, item, tries, crashes, idle>>

\* cursor.fetch_add: the next pending chunk, or the end of the plan.
Take(t) ==
  LET p == Owner[t] IN
  /\ pc[t] = "take"
  /\ IF plan[p] = {}
     THEN pc' = [pc EXCEPT ![t] = "off"] /\ UNCHANGED <<item, tries, plan>>
     ELSE \E c \in plan[p] :
          /\ \A y \in plan[p] : c <= y
          /\ pc' = [pc EXCEPT ![t] = "fetch"]
          /\ item' = [item EXCEPT ![t] = c] /\ tries' = [tries EXCEPT ![t] = 1]
          /\ plan' = [plan EXCEPT ![p] = @ \ {c}]
  /\ UNCHANGED <<fileVars, procVars, abort, firstErr, crashes, idle>>

\* Mutant: the attempts start over when they are used up.
FetchRetryWraps(t) ==
  /\ pc[t] = "fetch"
  /\ tries' = [tries EXCEPT ![t] = IF @ = Attempts THEN 1 ELSE @ + 1]
  /\ UNCHANGED <<fileVars, procVars, genVars, pc, item, crashes, idle>>

\* A transport error or a 5xx is retried on a fresh connection.
FetchRetry(t) ==
  /\ pc[t] = "fetch" /\ tries[t] < Attempts
  /\ tries' = [tries EXCEPT ![t] = @ + 1]
  /\ UNCHANGED <<fileVars, procVars, genVars, pc, item, crashes, idle>>

\* The first error of a generation is kept, and the other workers are told to stop.
RecordError(t, e) ==
  LET p == Owner[t] IN
  /\ firstErr' = [firstErr EXCEPT ![p] = IF @ = "none" THEN e ELSE @]
  /\ abort' = [abort EXCEPT ![p] = TRUE]
  /\ pc' = [pc EXCEPT ![t] = "off"]
  /\ item' = [item EXCEPT ![t] = NoChunk] /\ tries' = [tries EXCEPT ![t] = 0]
  /\ UNCHANGED <<fileVars, procVars, plan, crashes, idle>>

\* A 403 is not retried here: only a fresh URL can help.
FetchRejected(t) == pc[t] = "fetch" /\ RecordError(t, "presigned_rejected")

\* Attempts exhausted, another status, a chunk that does not open, a failed write, or a
\* panic of the worker.
ChunkFails(t) == pc[t] = "fetch" /\ RecordError(t, "error")

\* The chunk is fetched and opened, written at its own offset, and counted.
ChunkDone(t) ==
  LET p == Owner[t] IN
  /\ pc[t] = "fetch"
  /\ content' = [content EXCEPT ![fd[p]] = @ \cup {item[t]}]
  /\ completed' = [completed EXCEPT ![p] = @ \cup {item[t]}]
  /\ done' = [done EXCEPT ![p] = @ + 1]
  /\ idle' = [idle EXCEPT ![p] = 0]
  /\ pc' = [pc EXCEPT ![t] = "check"]
  /\ item' = [item EXCEPT ![t] = NoChunk] /\ tries' = [tries EXCEPT ![t] = 0]
  /\ UNCHANGED <<part, out, fd, phase, result, doneBefore, stale, genVars, crashes>>

-----------------------------------------------------------------------------
\* A process is killed: no guard runs, the temporary stays, and the command may be
\* started again.
Crash(p) ==
  /\ phase[p] \notin {"start", "returned"} /\ crashes < MaxCrashes
  /\ crashes' = crashes + 1
  /\ fd' = [fd EXCEPT ![p] = NoFile]
  /\ phase' = [phase EXCEPT ![p] = "start"]
  /\ completed' = [completed EXCEPT ![p] = {}]
  /\ done' = [done EXCEPT ![p] = 0] /\ doneBefore' = [doneBefore EXCEPT ![p] = 0]
  /\ stale' = [stale EXCEPT ![p] = 0] /\ idle' = [idle EXCEPT ![p] = 0]
  /\ plan' = [plan EXCEPT ![p] = {}] /\ abort' = [abort EXCEPT ![p] = FALSE]
  /\ firstErr' = [firstErr EXCEPT ![p] = "none"]
  /\ pc' = [t \in Threads |-> IF Owner[t] = p THEN "off" ELSE pc[t]]
  /\ item' = [t \in Threads |-> IF Owner[t] = p THEN NoChunk ELSE item[t]]
  /\ tries' = [t \in Threads |-> IF Owner[t] = p THEN 0 ELSE tries[t]]
  /\ UNCHANGED <<fileVars, result>>

MainStep(p) ==
  \/ RequestFails(p) \/ NoChunkMetadata(p) \/ Begin(p) \/ Generation(p) \/ AllWritten(p)
  \/ JoinClean(p) \/ JoinRejected(p) \/ JoinFailed(p) \/ Refresh(p)
  \/ Commit(p) \/ CommitFails(p)

ThreadStep(t) ==
  \/ CheckAbort(t) \/ Take(t) \/ FetchRetry(t) \/ FetchRejected(t)
  \/ ChunkFails(t) \/ ChunkDone(t)

Returned == (\A p \in Procs : phase[p] = "returned") /\ UNCHANGED vars

Next ==
  \/ \E p \in Procs : MainStep(p) \/ Crash(p)
  \/ \E t \in Threads : ThreadStep(t)
  \/ Returned

\* Every thread that can run does; a fetch ends because its transport is bounded.
Fairness ==
  /\ \A p \in Procs : WF_vars(MainStep(p))
  /\ \A t \in Threads : WF_vars(ThreadStep(t))

Spec == Init /\ [][Next]_vars /\ Fairness

-----------------------------------------------------------------------------
TypeOK ==
  /\ part \in Files \cup {NoFile} /\ out \in Files \cup {NoFile}
  /\ content \in [Files -> SUBSET (Chunks \cup {NoChunk})]
  /\ fd \in [Procs -> Files \cup {NoFile}]
  /\ phase \in [Procs -> Phases] /\ result \in [Procs -> Results]
  /\ completed \in [Procs -> SUBSET Chunks] /\ plan \in [Procs -> SUBSET Chunks]
  /\ done \in [Procs -> Nat] /\ doneBefore \in [Procs -> Nat]
  /\ stale \in [Procs -> Nat] /\ idle \in [Procs -> Nat]
  /\ abort \in [Procs -> BOOLEAN]
  /\ firstErr \in [Procs -> {"none", "presigned_rejected", "error"}]
  /\ pc \in [Threads -> {"off", "check", "take", "fetch"}]
  /\ item \in [Threads -> Chunks \cup {NoChunk}]
  /\ tries \in [Threads -> 0 .. Attempts]
  /\ crashes \in 0 .. MaxCrashes

\* No chunk is fetched again once it is on disk, and no two workers of a process fetch
\* the same one, across generations and URL refreshes: a resumed generation takes only
\* what is missing.
NoRefetch ==
  \A t \in Threads : pc[t] = "fetch" =>
    /\ item[t] \notin completed[Owner[t]]
    /\ \A u \in Threads :
         u # t /\ Owner[u] = Owner[t] /\ pc[u] = "fetch" => item[u] # item[t]

\* The completeness assertion of `download` never fires: when the loop is left without an
\* error the counter has counted every chunk exactly once.
CompletenessHolds == \A p \in Procs : result[p] # "incomplete"

\* `download` gives up on rejected URLs only after Budget rejected generations in a row
\* without a chunk written, and never asks for a fresh URL after Budget + 1 of them.
GiveUpJustified ==
  \A p \in Procs :
    /\ result[p] = "gave_up" => idle[p] >= Budget
    /\ phase[p] = "refresh" => idle[p] <= Budget

\* A download that returned leaves no temporary behind, unless one was killed before it.
NoPartLeft ==
  \A p \in Procs : phase[p] = "returned" /\ (crashes = 0 \/ result[p] = "ok")
    => part = NoFile

\* What commands.rs says of the rename: the requested path either does not exist or
\* names a complete file.
OutComplete == out # NoFile => content[out] \in {Earlier, Chunks}

\* The download as its caller sees it: the target is replaced in one step, with success.
Target ==
  IF out = NoFile THEN "absent"
  ELSE IF content[out] = Earlier THEN "earlier"
  ELSE IF content[out] = Chunks THEN "complete" ELSE "partial"
Outcome ==
  IF \E p \in Procs : result[p] = "ok" THEN "ok"
  ELSE IF \A p \in Procs : result[p] = "none" THEN "running" ELSE "failed"

Replace == INSTANCE AtomicReplace WITH target <- Target, outcome <- Outcome

\* `download` implements the atomic replacement of its target: a failed or killed download
\* leaves the target as it was, and success and the complete file appear together.
ImplementsAtomicReplace == Replace!Spec

\* Every download returns: workers end, generations that only reject are bounded, and
\* those that write a chunk are bounded by the chunks.
Terminates == <>(\A p \in Procs : phase[p] = "returned")
=============================================================================
