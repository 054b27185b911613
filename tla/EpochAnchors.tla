---------------------------- MODULE EpochAnchors ----------------------------
(***************************************************************************)
(* Anchoring a server's transparency-log epoch, `src/cli/src/anchors.rs`,  *)
(* and the commands that read under the anchored epoch                     *)
(* (`recipient_verify.rs`, `commands.rs`).                                 *)
(*                                                                         *)
(* The operator cuts from one epoch to the next: the end line of the old   *)
(* epoch goes into `roots.jsonl`, the key line of the new one into         *)
(* `vrf-keys.jsonl`, and only then does the server serve the new epoch.    *)
(* A CDN may answer with files up to `CdnLag` old.  Each command of the    *)
(* CLI reads what the server serves, loads its own memory of the origin    *)
(* (`translog-state.json`), judges the epoch by the cached or freshly read *)
(* files, saves the memory, and then makes its reads under that epoch.     *)
(* Several CLI processes share the state file.                             *)
(*                                                                         *)
(* One origin and one anchor repository are modelled.  Keys and genesis    *)
(* entries are abstracted to whether they are the published ones.  Time is *)
(* in ticks and never steps back.                                          *)
(***************************************************************************)
EXTENDS Integers

CONSTANTS
  Procs,         \* CLI processes sharing one configuration directory
  LastEpoch,     \* the last epoch of a behaviour
  Bound,         \* TRANSITION_BOUND
  CacheAge,      \* ANCHOR_CACHE_MAX_AGE
  Retries,       \* fresh reads after the first, inside one command
  CdnLag,        \* how old a file answered by the CDN may be
  CutWindow,     \* how long a cut may take from its first line to serving
  Span,          \* how long a command may take to anchor
  Horizon,       \* bound on the clock
  Unreachable,   \* whether the anchor host and the server may fail to answer
  MisKeyed,      \* epochs served under another key than the published one
  DoubleKeyed,   \* epochs vrf-keys.jsonl carries two lines for
  BadGenesis,    \* epochs whose first entry is not the pinned genesis
  Kinds          \* the commands run

ASSUME NumberAssumption ==
  /\ LastEpoch \in Nat \ {0} /\ Bound \in Nat \ {0} /\ CacheAge \in Nat \ {0}
  /\ Retries \in Nat /\ CdnLag \in Nat /\ CutWindow \in Nat /\ Span \in Nat /\ Horizon \in Nat
ASSUME FlagAssumption ==
  Unreachable \in BOOLEAN /\ Kinds \subseteq {"write", "self", "verify", "attest"}
ASSUME EpochAssumption == MisKeyed \cup DoubleKeyed \cup BadGenesis \subseteq 1 .. LastEpoch

Epochs == 1 .. LastEpoch
Time == 0 .. Horizon
Never == -1
NoEpoch == 0

VARIABLES
  clock,     \* the wall clock every process reads
  serving,   \* the epoch the server serves
  endAt,     \* when each epoch's end line was published, or Never
  keyAt,     \* when each epoch's key line was published, or Never
  file,      \* translog-state.json: the memory of the origin
  tmp,       \* translog-state.json.tmp: whose memory it holds, or none
  pc,        \* where each process is
  kind,      \* its command
  attempt,   \* 1, or 2 after once_more_on_epoch_change went round again
  bundle,    \* the epoch named by what it read before anchoring
  served,    \* the epoch /v1/server-info named
  now,       \* now_unix() of its anchoring
  st,        \* the memory it loaded and folds its verdict into
  shown,     \* the files its verdict is from
  tries,     \* fresh reads made
  verdict,   \* its EpochVerdict
  answers,   \* the epochs of what it read under the verdict, NoEpoch for a read that failed
  result,    \* how its last command ended
  noted      \* history: since when the memory should know of a disagreement

world == <<clock, serving, endAt, keyAt>>
disk == <<file, tmp>>
local == <<kind, attempt, bundle, served, now, st, shown, tries, verdict, answers, result>>
vars == <<clock, serving, endAt, keyAt, file, tmp, pc, kind, attempt, bundle,
          served, now, st, shown, tries, verdict, answers, result, noted>>

-----------------------------------------------------------------------------
(* The files and the memory.                                               *)

FilesT == [read : BOOLEAN, ends : SUBSET Epochs, keys : SUBSET Epochs]
NoFiles == [read |-> FALSE, ends |-> {}, keys |-> {}]
CacheT == [at : Time \cup {Never}, ends : SUBSET Epochs, keys : SUBSET Epochs,
           genesis : Epochs \cup {NoEpoch}]
NoCache == [at |-> Never, ends |-> {}, keys |-> {}, genesis |-> NoEpoch]
MemoryT == [highest : Epochs \cup {NoEpoch},
            sighted : [Epochs -> Time \cup {Never}], cache : CacheT]
FreshMemory ==
  [highest |-> NoEpoch, sighted |-> [e \in Epochs |-> Never], cache |-> NoCache]
NoTmp == [held |-> FALSE, memory |-> FreshMemory]

(* The lines a file answered as of time t shows. *)
Lines(at, t) == {e \in Epochs : at[e] # Never /\ at[e] <= t}

(* served.epoch < anchors.max_epoch(): a key line, or an end line, which   *)
(* implies its successor, shows a later epoch.  A root line of an epoch    *)
(* follows the end line of the one before it in the same file.             *)
ShowsLater(files, e) ==
  (\E k \in files.keys : k > e) \/ (\E d \in files.ends : d + 1 > e)

Carries(files, e) == e <= 1 \/ (e \in files.keys /\ e - 1 \in files.ends)

(* past_bound, for a sighting of an epoch at time `seen` judged at `t`. *)
PastBound(seen, t) == seen # Never /\ t - seen >= Bound
SoftOrHard(seen, t) == IF PastBound(seen, t) THEN "violation" ELSE "unanchored"

(* judge_epoch: the memory m and the files decide what epoch e, served at  *)
(* time t, is held for.                                                    *)
JudgeEpoch(e, files, m, t) ==
  CASE e < m.highest -> "violation"
    [] e >= m.highest /\ ~files.read -> IF e <= 1 THEN "legacy" ELSE "unanchored"
    [] e >= m.highest /\ files.read /\ ShowsLater(files, e) -> SoftOrHard(m.sighted[e], t)
    [] e >= m.highest /\ files.read /\ ~ShowsLater(files, e) ->
         IF e = 1 THEN "legacy"
         ELSE IF e \in files.keys /\ e \in DoubleKeyed THEN "violation"
         ELSE IF ~Carries(files, e) THEN SoftOrHard(m.sighted[e], t)
         ELSE IF e \in MisKeyed THEN "violation" ELSE "v3"

Anchored(v) == v \in {"legacy", "v3"}

(* Mutant: a sighting is stamped anew. *)
UpdateStateRestamped(m, e, v, t) ==
  CASE Anchored(v) ->
         [m EXCEPT !.highest = IF @ > e THEN @ ELSE e,
                   !.sighted = [k \in Epochs |-> IF k > e THEN @[k] ELSE Never]]
    [] v = "unanchored" -> [m EXCEPT !.sighted[e] = t]
    [] v = "violation" -> m

(* update_state *)
UpdateState(m, e, v, t) ==
  CASE Anchored(v) ->
         [highest |-> IF m.highest > e THEN m.highest ELSE e,
          sighted |-> [k \in Epochs |-> IF k > e THEN m.sighted[k] ELSE Never],
          cache |-> m.cache]
    [] v = "unanchored" ->
         [m EXCEPT !.sighted[e] = IF @ = Never THEN t ELSE @]
    [] v = "violation" -> m

(* AnchorCache::new over the files just read; `genesis` is the epoch whose *)
(* genesis entry was checked against them, if any.                         *)
Refreshed(m, files, genesis, t) ==
  IF files.read
  THEN [m EXCEPT !.cache = [at |-> t, ends |-> files.ends, keys |-> files.keys,
                            genesis |-> genesis]]
  ELSE m

CachedFiles(m) == [read |-> TRUE, ends |-> m.cache.ends, keys |-> m.cache.keys]

(* Mutant: the cache never ages. *)
CacheAnswersAged(m, e, t) ==
  /\ m.cache.at # Never
  /\ LET v == JudgeEpoch(e, CachedFiles(m), m, t)
     IN v = "legacy" \/ (v = "v3" /\ m.cache.genesis = e)

(* cached_verdict answers: the cache is young and anchors e outright. *)
CacheAnswers(m, e, t) ==
  /\ m.cache.at # Never /\ t - m.cache.at < CacheAge
  /\ LET v == JudgeEpoch(e, CachedFiles(m), m, t)
     IN v = "legacy" \/ (v = "v3" /\ m.cache.genesis = e)

-----------------------------------------------------------------------------
(* The operator, the server and the clock (external).                      *)

(* The clock advances; a cut that has begun is served within its window,   *)
(* and a command that has read server-info anchors within its span.        *)
Tick ==
  /\ clock < Horizon
  /\ \A at \in {endAt[serving]} \cup {keyAt[e] : e \in Epochs \cap {serving + 1}} :
       at # Never => clock - at < CutWindow
  /\ \A p \in Procs : pc[p] # "load"
                     /\ (pc[p] \in {"fetch", "genesis"} => clock - now[p] < Span)
  /\ clock' = clock + 1
  /\ UNCHANGED <<serving, endAt, keyAt, disk, pc, local, noted>>

PublishEnd ==
  /\ serving < LastEpoch /\ endAt[serving] = Never
  /\ endAt' = [endAt EXCEPT ![serving] = clock]
  /\ UNCHANGED <<clock, serving, keyAt, disk, pc, local, noted>>

PublishKey ==
  /\ serving < LastEpoch /\ keyAt[serving + 1] = Never
  /\ keyAt' = [keyAt EXCEPT ![serving + 1] = clock]
  /\ UNCHANGED <<clock, serving, endAt, disk, pc, local, noted>>

(* The cut publishes both lines before it serves. *)
Serve ==
  /\ serving < LastEpoch /\ endAt[serving] # Never /\ keyAt[serving + 1] # Never
  /\ serving' = serving + 1
  /\ UNCHANGED <<clock, endAt, keyAt, disk, pc, local, noted>>

-----------------------------------------------------------------------------
(* One command.                                                            *)

(* What it reads first: a recipient bundle or /v1/me, or server-info. *)
FirstStep(k) == IF k \in {"write", "self"} THEN "bundle" ELSE "info"

Begin(p, k) ==
  /\ pc[p] = "idle"
  /\ kind' = [kind EXCEPT ![p] = k]
  /\ pc' = [pc EXCEPT ![p] = FirstStep(k)]
  /\ UNCHANGED <<world, disk, attempt, bundle, served, now, st, shown, tries,
                 verdict, answers, result, noted>>

(* The command returns with exit r. *)
Close(p, r) ==
  /\ pc' = [pc EXCEPT ![p] = "done"]
  /\ result' = [result EXCEPT ![p] = r]
  /\ UNCHANGED attempt
End(p, r) == Close(p, r) /\ UNCHANGED answers

(* It returns with exit r on an answer of epoch e. *)
Answer(p, e) == answers' = [answers EXCEPT ![p] = @ \cup {e}]
EndOn(p, e, r) == Close(p, r) /\ Answer(p, e)

(* An error marked epoch_moved: once more from a fresh anchor, then it     *)
(* stands.                                                                 *)
OnceMore(p, r) ==
  \/ /\ attempt[p] = 1
     /\ attempt' = [attempt EXCEPT ![p] = 2]
     /\ pc' = [pc EXCEPT ![p] = FirstStep(kind[p])]
     /\ answers' = [answers EXCEPT ![p] = {}]
     /\ UNCHANGED result
  \/ attempt[p] = 2 /\ End(p, r)

ReadBundle(p) ==
  /\ pc[p] = "bundle"
  /\ bundle' = [bundle EXCEPT ![p] = serving]
  /\ pc' = [pc EXCEPT ![p] = "info"]
  /\ UNCHANGED <<world, disk, kind, attempt, served, now, st, shown, tries,
                 verdict, answers, result, noted>>

ReadInfo(p) ==
  /\ pc[p] = "info"
  /\ served' = [served EXCEPT ![p] = serving]
  /\ pc' = [pc EXCEPT ![p] = "load"]
  /\ UNCHANGED <<world, disk, kind, attempt, bundle, now, st, shown, tries,
                 verdict, answers, result, noted>>

(* anchor_served up to the cached answer: the memory is loaded, and a      *)
(* write may be judged by the files as last read.                          *)
Load(p) ==
  /\ pc[p] = "load"
  /\ now' = [now EXCEPT ![p] = clock]
  /\ tries' = [tries EXCEPT ![p] = 0]
  /\ \/ /\ kind[p] = "write" /\ CacheAnswers(file, served[p], clock)
        /\ LET v == JudgeEpoch(served[p], CachedFiles(file), file, clock)
           IN /\ verdict' = [verdict EXCEPT ![p] = v]
              /\ st' = [st EXCEPT ![p] = UpdateState(file, served[p], v, clock)]
        /\ shown' = [shown EXCEPT ![p] = CachedFiles(file)]
        /\ pc' = [pc EXCEPT ![p] = "save"]
     \/ /\ ~(kind[p] = "write" /\ CacheAnswers(file, served[p], clock))
        /\ st' = [st EXCEPT ![p] = file]
        /\ pc' = [pc EXCEPT ![p] = "fetch"]
        /\ UNCHANGED <<verdict, shown>>
  /\ UNCHANGED <<world, disk, kind, attempt, bundle, served, answers, result, noted>>

(* What a read of the two files may return: each file as the CDN has it,   *)
(* or nothing.                                                             *)
Readable ==
  {[read |-> TRUE, ends |-> Lines(endAt, r), keys |-> Lines(keyAt, k)] :
     r \in clock - CdnLag .. clock, k \in clock - CdnLag .. clock}
  \cup (IF Unreachable THEN {NoFiles} ELSE {})

(* A fresh read and its judgement; three more while it is Unanchored. *)
Fetch(p, files) ==
  /\ pc[p] = "fetch" /\ files \in Readable
  /\ shown' = [shown EXCEPT ![p] = files]
  /\ LET v == JudgeEpoch(served[p], files, st[p], now[p])
     IN /\ verdict' = [verdict EXCEPT ![p] = v]
        /\ \/ /\ v = "unanchored" /\ tries[p] < Retries
              /\ tries' = [tries EXCEPT ![p] = @ + 1]
              /\ UNCHANGED <<pc, st>>
           \/ /\ v = "v3"
              /\ pc' = [pc EXCEPT ![p] = "genesis"]
              /\ UNCHANGED <<st, tries>>
           \/ /\ ~(v = "unanchored" /\ tries[p] < Retries) /\ v # "v3"
              /\ pc' = [pc EXCEPT ![p] = "save"]
              /\ st' = [st EXCEPT ![p] =
                          UpdateState(Refreshed(@, files, NoEpoch, now[p]), served[p],
                                      v, now[p])]
              /\ UNCHANGED tries
  /\ UNCHANGED <<world, disk, kind, attempt, bundle, served, now, answers, result, noted>>

(* check_genesis on the epoch's first entry, asked for under the anchored  *)
(* epoch; the fresh read refreshes the cache whatever the verdict.         *)
Genesis(p) ==
  /\ pc[p] = "genesis" /\ serving = served[p]
  /\ LET good == served[p] \notin BadGenesis
         v == IF good THEN "v3" ELSE "violation"
         g == IF good THEN served[p] ELSE NoEpoch
     IN /\ verdict' = [verdict EXCEPT ![p] = v]
        /\ st' = [st EXCEPT ![p] =
                    UpdateState(Refreshed(@, shown[p], g, now[p]), served[p], v, now[p])]
  /\ pc' = [pc EXCEPT ![p] = "save"]
  /\ UNCHANGED <<world, disk, kind, attempt, bundle, served, now, shown, tries,
                 answers, result, noted>>

(* The genesis read is refused because the server has moved on, or fails;  *)
(* nothing is saved.                                                       *)
GenesisUnread(p) ==
  /\ pc[p] = "genesis"
  /\ \/ serving # served[p] /\ OnceMore(p, "epoch_changed")
     \/ Unreachable /\ End(p, "failed")
  /\ UNCHANGED <<world, disk, kind, bundle, served, now, st, shown, tries, verdict,
                 noted>>

(* save_state: the memory goes into a temporary file ... *)
WriteTmp(p) ==
  /\ pc[p] = "save"
  /\ tmp' = [held |-> TRUE, memory |-> st[p]]
  /\ pc' = [pc EXCEPT ![p] = "rename"]
  /\ UNCHANGED <<world, file, local, noted>>

(* ... that replaces the state file; the name is the same for every        *)
(* process, and a rename that finds it gone is a warning.                  *)
Rename(p) ==
  /\ pc[p] = "rename"
  /\ file' = IF tmp.held THEN tmp.memory ELSE file
  /\ tmp' = NoTmp
  /\ pc' = [pc EXCEPT ![p] = "use"]
  /\ noted' =
       CASE Anchored(verdict[p]) /\ shown[p].read ->
              [e \in Epochs |-> IF e > served[p] THEN noted[e] ELSE Never]
         [] verdict[p] = "unanchored" /\ shown[p].read /\ noted[served[p]] = Never ->
              [noted EXCEPT ![served[p]] = now[p]]
         [] OTHER -> noted
  /\ UNCHANGED <<world, local>>

(* save_or_warn: failing to save does not fail the command. *)
SaveFails(p) ==
  /\ pc[p] = "save"
  /\ pc' = [pc EXCEPT ![p] = "use"]
  /\ UNCHANGED <<world, disk, local, noted>>

Refused(p) ==
  \/ kind[p] = "write" /\ ~Anchored(verdict[p])
  \/ kind[p] = "self" /\ verdict[p] # "v3"
  \/ kind[p] = "verify" /\ verdict[p] = "violation"

(* check_bundle_epoch fails: what was read before the anchor names another *)
(* epoch.                                                                  *)
BundleStale(p) == kind[p] \in {"write", "self"} /\ bundle[p] # served[p]

(* Mutant: a change of the bundle's epoch is final. *)
UseFinal(p) ==
  /\ pc[p] = "use"
  /\ \/ Refused(p) /\ End(p, "unanchored")
     \/ ~Refused(p) /\ BundleStale(p) /\ End(p, "violation")
     \/ /\ ~Refused(p) /\ ~BundleStale(p)
        /\ pc' = [pc EXCEPT ![p] = "ask"]
        /\ UNCHANGED <<attempt, answers, result>>
  /\ UNCHANGED <<world, disk, kind, bundle, served, now, st, shown, tries, verdict,
                 noted>>

(* The verdict selects the receipt rule, and what was read before the      *)
(* anchor must name the anchored epoch (check_bundle_epoch).               *)
Use(p) ==
  /\ pc[p] = "use"
  /\ \/ /\ Refused(p)
        /\ End(p, IF verdict[p] = "violation" THEN "violation" ELSE "unanchored")
     \/ ~Refused(p) /\ BundleStale(p) /\ OnceMore(p, "violation")
     \/ /\ ~Refused(p) /\ ~BundleStale(p)
        /\ pc' = [pc EXCEPT ![p] = "ask"]
        /\ UNCHANGED <<attempt, answers, result>>
  /\ UNCHANGED <<world, disk, kind, bundle, served, now, st, shown, tries, verdict,
                 noted>>

(* A read that asks for the anchored epoch: another epoch refuses it. *)
AskRefused(p) == serving # served[p] /\ OnceMore(p, "epoch_changed")

(* Mutant: the receipts are asked for without naming the epoch. *)
ReceiptReadUnasked(p) ==
  /\ pc[p] = "ask" /\ kind[p] = "write"
  /\ \/ answers[p] = {} /\ Answer(p, serving) /\ UNCHANGED <<pc, attempt, result>>
     \/ answers[p] # {} /\ EndOn(p, serving, "ok")
  /\ UNCHANGED <<world, disk, kind, bundle, served, now, st, shown, tries, verdict,
                 noted>>

(* A human recipient's keys against their log receipts, one request for    *)
(* each half of the pair.  A receipt that cannot be read, for whatever     *)
(* reason but the epoch, is a violation.                                   *)
ReceiptRead(p) ==
  /\ pc[p] = "ask" /\ kind[p] = "write"
  /\ \/ AskRefused(p)
     \/ /\ serving = served[p] /\ answers[p] = {}
        /\ Answer(p, serving) /\ UNCHANGED <<pc, attempt, result>>
     \/ serving = served[p] /\ answers[p] # {} /\ EndOn(p, serving, "ok")
     \/ Unreachable /\ EndOn(p, NoEpoch, "violation")
  /\ UNCHANGED <<world, disk, kind, bundle, served, now, st, shown, tries, verdict,
                 noted>>

(* The owner's watch over the published prefix; without a published root,  *)
(* or with a key not in it yet, the answer is unanchored.                  *)
RangeRead(p) ==
  /\ pc[p] = "ask" /\ kind[p] = "self"
  /\ \/ AskRefused(p)
     \/ \E r \in {"ok", "unanchored"} : serving = served[p] /\ EndOn(p, serving, r)
  /\ UNCHANGED <<world, disk, kind, bundle, served, now, st, shown, tries, verdict,
                 noted>>

(* An inclusion proof: of an epoch the files have ended it is retired, and *)
(* without an anchored root it is unanchored.                              *)
ProofRead(p) ==
  /\ pc[p] = "ask" /\ kind[p] = "verify"
  /\ \/ AskRefused(p)
     \/ /\ serving = served[p]
        /\ LET retired == shown[p].read /\ served[p] \in shown[p].ends
               held == shown[p].read /\ Anchored(verdict[p])
           IN \/ retired /\ EndOn(p, serving, "retired")
              \/ ~retired /\ EndOn(p, serving, "unanchored")
              \/ ~retired /\ held /\ EndOn(p, serving, "ok")
  /\ UNCHANGED <<world, disk, kind, bundle, served, now, st, shown, tries, verdict,
                 noted>>

(* An attestation's response names its epoch in its receipts, but the      *)
(* account's proof is checked first, and under the anchored epoch's key.   *)
Attested(p) ==
  \/ Anchored(verdict[p]) /\ serving = served[p] /\ EndOn(p, serving, "ok")
  \/ verdict[p] = "legacy" /\ serving # served[p] /\ OnceMore(p, "violation")
  \/ verdict[p] = "v3" /\ serving # served[p] /\ EndOn(p, serving, "violation")

(* An agent recipient's keys against their attestation. *)
AttestationRead(p) ==
  /\ pc[p] = "ask" /\ kind[p] = "write" /\ answers[p] = {}
  /\ Attested(p)
  /\ UNCHANGED <<world, disk, kind, bundle, served, now, st, shown, tries, verdict,
                 noted>>

(* `attestation verify`: the response is read before the verdict is used. *)
ResponseRead(p) ==
  /\ pc[p] = "ask" /\ kind[p] = "attest"
  /\ \/ Attested(p)
     \/ \E v \in {"violation", "unanchored"} : verdict[p] = v /\ EndOn(p, serving, v)
  /\ UNCHANGED <<world, disk, kind, bundle, served, now, st, shown, tries, verdict,
                 noted>>

(* Any other read that fails ends the command. *)
ReadFails(p) ==
  /\ pc[p] \in {"bundle", "info", "ask"} /\ Unreachable
  /\ answers[p] = {} /\ End(p, "failed")
  /\ UNCHANGED <<world, disk, kind, bundle, served, now, st, shown, tries, verdict,
                 noted>>

(* The process is gone: it has returned, or it was killed.  Killed between *)
(* the two steps of a save, it leaves a temporary file that the next save  *)
(* overwrites: for the others that is a save that failed.                  *)
Exit(p) ==
  /\ pc[p] \notin {"idle", "rename"}
  /\ pc' = [pc EXCEPT ![p] = "idle"]
  /\ kind' = [kind EXCEPT ![p] = "none"]
  /\ attempt' = [attempt EXCEPT ![p] = 1]
  /\ bundle' = [bundle EXCEPT ![p] = NoEpoch]
  /\ served' = [served EXCEPT ![p] = NoEpoch]
  /\ now' = [now EXCEPT ![p] = 0]
  /\ st' = [st EXCEPT ![p] = FreshMemory]
  /\ shown' = [shown EXCEPT ![p] = NoFiles]
  /\ tries' = [tries EXCEPT ![p] = 0]
  /\ verdict' = [verdict EXCEPT ![p] = "none"]
  /\ answers' = [answers EXCEPT ![p] = {}]
  /\ result' = [result EXCEPT ![p] = "none"]
  /\ UNCHANGED <<world, disk, noted>>

-----------------------------------------------------------------------------
Init ==
  /\ clock = 0 /\ serving = 1
  /\ endAt = [e \in Epochs |-> Never] /\ keyAt = [e \in Epochs |-> Never]
  /\ file = FreshMemory /\ tmp = NoTmp
  /\ pc = [p \in Procs |-> "idle"] /\ kind = [p \in Procs |-> "none"]
  /\ attempt = [p \in Procs |-> 1]
  /\ bundle = [p \in Procs |-> NoEpoch] /\ served = [p \in Procs |-> NoEpoch]
  /\ now = [p \in Procs |-> 0]
  /\ st = [p \in Procs |-> FreshMemory] /\ shown = [p \in Procs |-> NoFiles]
  /\ tries = [p \in Procs |-> 0] /\ verdict = [p \in Procs |-> "none"]
  /\ answers = [p \in Procs |-> {}] /\ result = [p \in Procs |-> "none"]
  /\ noted = [e \in Epochs |-> Never]

World == Tick \/ PublishEnd \/ PublishKey \/ Serve

(* What a command does once begun. *)
Step(p) ==
  \/ ReadBundle(p) \/ ReadInfo(p) \/ Load(p) \/ (\E files \in Readable : Fetch(p, files))
  \/ Genesis(p) \/ GenesisUnread(p) \/ WriteTmp(p) \/ Rename(p) \/ SaveFails(p)
  \/ Use(p) \/ ReceiptRead(p) \/ RangeRead(p) \/ ProofRead(p)
  \/ AttestationRead(p) \/ ResponseRead(p) \/ ReadFails(p)

Next ==
  \/ World
  \/ \E p \in Procs : Step(p) \/ Exit(p) \/ (\E k \in Kinds : Begin(p, k))

Spec == Init /\ [][Next]_vars

-----------------------------------------------------------------------------
(* Type invariant: every variable holds a value of its type. *)
TypeOK ==
  /\ clock \in Time /\ serving \in Epochs
  /\ endAt \in [Epochs -> Time \cup {Never}]
  /\ keyAt \in [Epochs -> Time \cup {Never}]
  /\ file \in MemoryT /\ tmp \in [held : BOOLEAN, memory : MemoryT]
  /\ pc \in [Procs -> {"idle", "bundle", "info", "load", "fetch", "genesis", "save",
                       "rename", "use", "ask", "done"}]
  /\ kind \in [Procs -> Kinds \cup {"none"}]
  /\ attempt \in [Procs -> {1, 2}]
  /\ bundle \in [Procs -> Epochs \cup {NoEpoch}]
  /\ served \in [Procs -> Epochs \cup {NoEpoch}]
  /\ now \in [Procs -> Time]
  /\ st \in [Procs -> MemoryT] /\ shown \in [Procs -> FilesT]
  /\ tries \in [Procs -> 0 .. Retries]
  /\ verdict \in [Procs -> {"none", "legacy", "v3", "unanchored", "violation"}]
  /\ answers \in [Procs -> SUBSET (Epochs \cup {NoEpoch})]
  /\ result \in [Procs -> {"none", "ok", "retired", "unanchored", "epoch_changed",
                           "failed", "violation"}]
  /\ noted \in [Epochs -> Time \cup {Never}]

(* The lines of the cut from epoch e, as far as they are out. *)
CutLines(e) == ({endAt[e]} \cup {keyAt[k] : k \in Epochs \cap {e + 1}}) \ {Never}

(* The disagreement that its memory has of the served epoch is not one of  *)
(* the cut from it, but an older one that no command has cleared since.    *)
OldSighting(p) ==
  LET seen == st[p].sighted[served[p]]
  IN seen # Never /\ served[p] # 1 /\ \A at \in CutLines(served[p]) : seen + Span < at

(* A later epoch than the second came between the reads of the attempt.    *)
MovedAgain(p) ==
  \/ \E e \in answers[p] : 2 <= served[p] /\ served[p] < e
  \/ attempt[p] = 2 /\ 2 <= bundle[p] /\ bundle[p] < served[p]

(* When a command reports a transparency violation against an operator     *)
(* who publishes before serving and serves within the window.  At the      *)
(* first cut: only for a receipt it could not read, not by the bound, not  *)
(* by the ratchet, not by a read that met the cut half way.  At a later    *)
(* cut also when a sighting of the epoch from before the cut was never     *)
(* cleared, and when the epoch moved under an attestation, or twice under  *)
(* one command.                                                            *)
HonestServerUnalarmed ==
  \A p \in Procs : result[p] = "violation" =>
    IF verdict[p] = "violation" THEN OldSighting(p)
    ELSE NoEpoch \in answers[p] \/ MovedAgain(p)

(* A command that succeeds has used only answers of one epoch, although    *)
(* the bundle, server-info and each receipt, proof or attestation are      *)
(* separate requests and the server may move on between any two.           *)
OneEpochPerCommand ==
  \A p \in Procs : result[p] = "ok" =>
    /\ answers[p] = {served[p]}
    /\ kind[p] \in {"write", "self"} => bundle[p] = served[p]

(* An epoch the public files have ended is not accepted for longer than    *)
(* the cache may be old, plus the age of the file it was made from.        *)
EndedEpochNotUsedLong ==
  \A p \in Procs :
    /\ pc[p] \in {"save", "rename", "use", "ask"}
    /\ Anchored(verdict[p]) /\ shown[p].read /\ endAt[served[p]] # Never
    => now[p] - endAt[served[p]] < CacheAge + CdnLag

(* Once the memory knew of a disagreement for the bound, a command that    *)
(* still sees it reports a violation, not Unanchored.                      *)
DisagreementBounded ==
  \A p \in Procs :
    verdict[p] = "unanchored" /\ shown[p].read /\ pc[p] \in {"save", "rename"} =>
      noted[served[p]] = Never \/ now[p] - noted[served[p]] < Bound

(* Epochs whose key or genesis entry is not the published one. *)
Unpublished == (MisKeyed \cup DoubleKeyed \cup BadGenesis) \ {1}

(* Nothing is bound under such an epoch, in no process and not through the *)
(* shared cache, and the ratchet never records one.                        *)
OnlyPublishedEpochs ==
  /\ file.highest \notin Unpublished
  /\ \A p \in Procs : result[p] = "ok" => served[p] \notin Unpublished

=============================================================================
