-------------------------- MODULE UploadLifecycle --------------------------
(***************************************************************************)
(* The life of a resumable upload: `upload`, `try_resume` and the abort    *)
(* and finalize paths of `src/cli/src/commands.rs`, with the resume state  *)
(* of `src/cli/src/upload_state.rs`.                                       *)
(*                                                                         *)
(* The same command is run again and again, by one or several processes,   *)
(* until it succeeds.  Between runs the source may be edited.  The server  *)
(* is external: it keeps the parts of an upload, reserves quota for it,    *)
(* and sweeps uploads left idle.  Any call may fail, before or after it    *)
(* took effect, and any process may be killed.  How the parts of one run   *)
(* are sent is the subject of UploadParts.                                 *)
(***************************************************************************)
EXTENDS Integers, FiniteSets

CONSTANTS
  Procs,
  Uploads,       \* ids: 1 .. n, in the order they are initiated
  PartCount,     \* chunk_count
  Quota,         \* uploads the account has room for
  EditBumpsMtime,\* whether an edit is always more than a second after the last run
  MaxFaults,     \* bound on failing calls, kills and sweeps of a model-checked instance
  MaxEdits       \* bound on edits of the source

ASSUME BoundAssumption ==
  /\ PartCount \in Nat \ {0} /\ Quota \in Nat /\ EditBumpsMtime \in BOOLEAN
  /\ MaxFaults \in Nat /\ MaxEdits \in Nat
  /\ Uploads \subseteq Nat \ {0} /\ IsFiniteSet(Uploads)

Parts == 1 .. PartCount

VARIABLES
  source,             \* [mtime, chunk: the content of each chunk]
  status, stored,     \* server: the state of each upload and the parts it holds
  saved,              \* the resume-state files: [name, sig] or NoState
  phase, result,      \* per process
  name, sig,          \* the deduplicated name and the source signature of a run
  current,            \* the upload a run works on
  resumed,            \* whether it was found by find_match
  todo, etags,        \* part_urls still to send; what complete will list
  faults, edits,
  excused,            \* history: uploads whose record was dropped by design
  preserved,          \* history: uploads a run left preserved
  versions            \* history: the contents the source has had

serverVars == <<status, stored>>
procVars == <<phase, result, name, sig, current, resumed, todo, etags>>
history == <<excused, preserved, versions>>
vars == <<source, serverVars, saved, procVars, faults, edits, history>>

NoState == <<>>
NoUpload == 0
NoSig == <<>>
Phases == {"idle", "sign", "resume", "preflight", "initiate", "save", "parts", "abort", "complete"}
Results == {"none", "ok", "stalled", "error", "insufficient"}

\* The resume signature: second-granular mtime and the anchor over the two end chunks.
Signature == <<source.mtime, source.chunk[1], source.chunk[PartCount]>>
Reserved == {u \in Uploads : status[u] \in {"open", "completed"}}
Completed == {u \in Uploads : status[u] = "completed"}

Init ==
  /\ source = [mtime |-> 0, chunk |-> [c \in Parts |-> 0]]
  /\ status = [u \in Uploads |-> "none"]
  /\ stored = [u \in Uploads |-> [c \in {} |-> 0]]
  /\ saved = [u \in Uploads |-> NoState]
  /\ phase = [p \in Procs |-> "idle"] /\ result = [p \in Procs |-> "none"]
  /\ name = [p \in Procs |-> 0] /\ sig = [p \in Procs |-> NoSig]
  /\ current = [p \in Procs |-> NoUpload] /\ resumed = [p \in Procs |-> FALSE]
  /\ todo = [p \in Procs |-> {}] /\ etags = [p \in Procs |-> [c \in {} |-> 0]]
  /\ faults = 0 /\ edits = 0
  /\ excused = {} /\ preserved = {}
  /\ versions = {source.chunk}

Fault == faults < MaxFaults /\ faults' = faults + 1

\* A run ends.
Return(p, r) ==
  /\ phase' = [phase EXCEPT ![p] = "idle"]
  /\ result' = [result EXCEPT ![p] = r]
  /\ name' = [name EXCEPT ![p] = 0] /\ sig' = [sig EXCEPT ![p] = NoSig]
  /\ current' = [current EXCEPT ![p] = NoUpload]
  /\ resumed' = [resumed EXCEPT ![p] = FALSE]
  /\ todo' = [todo EXCEPT ![p] = {}] /\ etags' = [etags EXCEPT ![p] = [c \in {} |-> 0]]

Goto(p, ph) == phase' = [phase EXCEPT ![p] = ph]

-----------------------------------------------------------------------------
(* upload *)

\* The command is run, or run again.  The name is deduplicated against the listing, in
\* which pending uploads do not appear: every finished copy takes one more name.
Start(p) ==
  /\ phase[p] = "idle" /\ result[p] # "ok"
  /\ Goto(p, "sign")
  /\ name' = [name EXCEPT ![p] = Cardinality(Completed)]
  /\ UNCHANGED <<source, serverVars, saved, result, sig, current, resumed, todo, etags,
                 faults, edits, history>>

\* The listing or a key cannot be had, or a call before initiate fails: nothing was done.
CallFails(p) ==
  /\ phase[p] \in {"sign", "resume", "preflight", "initiate"} /\ Fault
  /\ Return(p, "error")
  /\ UNCHANGED <<source, serverVars, saved, edits, history>>

SameDest(p, u) == saved[u] # NoState /\ saved[u].name = name[p]

\* Mutant: the signature is not compared.
SameSourceByName(p, u) == SameDest(p, u)

SameSource(p, u) == SameDest(p, u) /\ saved[u].sig = Signature

\* find_match: the first state that matches; states for the same destination met before it
\* that do not match are removed.  The directory is listed in any order.
FindMatch(p) ==
  /\ phase[p] = "sign"
  /\ sig' = [sig EXCEPT ![p] = Signature]
  /\ LET changed == {u \in Uploads : SameDest(p, u) /\ ~SameSource(p, u)}
         matches == {u \in Uploads : SameSource(p, u)}
     IN \E dropped \in SUBSET changed :
          /\ saved' = [u \in Uploads |-> IF u \in dropped THEN NoState ELSE saved[u]]
          /\ excused' = excused \cup dropped
          /\ IF matches = {}
             THEN /\ dropped = changed
                  /\ Goto(p, "preflight") /\ UNCHANGED <<current, resumed>>
             ELSE /\ \E u \in matches : current' = [current EXCEPT ![p] = u]
                  /\ Goto(p, "resume") /\ resumed' = [resumed EXCEPT ![p] = TRUE]
  /\ UNCHANGED <<source, serverVars, result, name, todo, etags, faults, edits, preserved, versions>>

\* preflight_capacity fails open; the server bounds the reservation anyway.
NoRoom == Cardinality(Reserved) >= Quota

Preflight(p) ==
  /\ phase[p] = "preflight"
  /\ \/ /\ ~NoRoom /\ UNCHANGED faults
        /\ Goto(p, "initiate") /\ UNCHANGED <<result, name, sig, current, resumed, todo, etags>>
     \/ /\ NoRoom /\ UNCHANGED faults
        /\ Return(p, "insufficient")
     \/ /\ NoRoom /\ Fault
        /\ Goto(p, "initiate") /\ UNCHANGED <<result, name, sig, current, resumed, todo, etags>>
  /\ UNCHANGED <<source, serverVars, saved, edits, history>>

\* The server refuses a reservation it has no room for.
InitiateRefused(p) ==
  /\ phase[p] = "initiate" /\ NoRoom
  /\ Return(p, "insufficient")
  /\ UNCHANGED <<source, serverVars, saved, faults, edits, history>>

\* Mutant: the plan has one part too many.
InitiateOffByOne(p) ==
  /\ phase[p] = "initiate" /\ ~NoRoom
  /\ \E u \in Uploads :
       /\ status[u] = "none" /\ \A v \in Uploads : v < u => status[v] # "none"
       /\ status' = [status EXCEPT ![u] = "open"]
       /\ Goto(p, "save") /\ current' = [current EXCEPT ![p] = u]
       /\ todo' = [todo EXCEPT ![p] = 0 .. PartCount]
  /\ UNCHANGED <<source, stored, saved, result, name, sig, resumed, etags, faults, edits, history>>

\* A new upload is reserved; if the answer is lost nobody here knows of it.
Initiate(p) ==
  /\ phase[p] = "initiate" /\ ~NoRoom
  /\ \E u \in Uploads :
       /\ status[u] = "none" /\ \A v \in Uploads : v < u => status[v] # "none"
       /\ status' = [status EXCEPT ![u] = "open"]
       /\ \/ /\ Goto(p, "save") /\ current' = [current EXCEPT ![p] = u]
             /\ todo' = [todo EXCEPT ![p] = Parts]
             /\ UNCHANGED <<result, name, sig, resumed, etags, faults, excused>>
          \/ /\ Fault /\ Return(p, "error") /\ excused' = excused \cup {u}
  /\ UNCHANGED <<source, stored, saved, edits, preserved, versions>>

\* The resume state is written before any byte moves; a failure is only noted.
SaveState(p) ==
  LET u == current[p] IN
  /\ phase[p] = "save"
  /\ Goto(p, "parts")
  /\ \/ /\ saved' = [saved EXCEPT ![u] = [name |-> name[p], sig |-> sig[p]]]
        /\ UNCHANGED <<faults, excused>>
     \/ Fault /\ excused' = excused \cup {u} /\ UNCHANGED saved
  /\ UNCHANGED <<source, serverVars, result, name, sig, current, resumed, todo, etags, edits,
                 preserved, versions>>

-----------------------------------------------------------------------------
(* try_resume *)

\* The server still has the upload: its ListParts view says what is stored.
Resume(p) ==
  LET u == current[p] IN
  /\ phase[p] = "resume" /\ status[u] = "open"
  /\ Goto(p, "parts")
  /\ etags' = [etags EXCEPT ![p] = stored[u]]
  /\ todo' = [todo EXCEPT ![p] = Parts \ DOMAIN stored[u]]
  /\ UNCHANGED <<source, serverVars, saved, result, name, sig, current, resumed, faults, edits, history>>

\* Mutant: an upload the server no longer knows is an error like any other.
ResumeNotFoundFails(p) ==
  /\ phase[p] = "resume" /\ status[current[p]] # "open"
  /\ Return(p, "error")
  /\ UNCHANGED <<source, serverVars, saved, faults, edits, history>>

\* It is gone: the state is removed and the upload starts fresh.
ResumeNotFound(p) ==
  LET u == current[p] IN
  /\ phase[p] = "resume" /\ status[u] # "open"
  /\ saved' = [saved EXCEPT ![u] = NoState]
  /\ Goto(p, "preflight")
  /\ current' = [current EXCEPT ![p] = NoUpload] /\ resumed' = [resumed EXCEPT ![p] = FALSE]
  /\ UNCHANGED <<source, serverVars, result, name, sig, todo, etags, faults, edits, history>>

\* The answer's geometry is not the state's: abort, landed or not, and start fresh.
ResumeMismatch(p) ==
  LET u == current[p] IN
  /\ phase[p] = "resume" /\ status[u] = "open" /\ Fault
  /\ status' \in {status, [status EXCEPT ![u] = "aborted"]}
  /\ saved' = [saved EXCEPT ![u] = NoState]
  /\ excused' = excused \cup {u}
  /\ Goto(p, "preflight")
  /\ current' = [current EXCEPT ![p] = NoUpload] /\ resumed' = [resumed EXCEPT ![p] = FALSE]
  /\ UNCHANGED <<source, stored, result, name, sig, todo, etags, edits, preserved, versions>>

-----------------------------------------------------------------------------
(* The parts, and how a run that loses them ends. *)

\* A part is sealed from the source and stored.  The seal is deterministic: the same
\* content has the same ETag.
PutPart(p) ==
  LET u == current[p] IN
  /\ phase[p] = "parts" /\ status[u] = "open"
  /\ \E c \in todo[p] :
       /\ stored' = [stored EXCEPT ![u] =
                       [d \in DOMAIN @ \cup {c} |-> IF d = c THEN source.chunk[c] ELSE @[d]]]
       /\ etags' = [etags EXCEPT ![p] =
                      [d \in DOMAIN @ \cup {c} |-> IF d = c THEN source.chunk[c] ELSE @[d]]]
       /\ todo' = [todo EXCEPT ![p] = @ \ {c}]
  /\ UNCHANGED <<source, status, saved, phase, result, name, sig, current, resumed, faults, edits, history>>

PartsDone(p) ==
  /\ phase[p] = "parts" /\ todo[p] = {}
  /\ Goto(p, "complete")
  /\ UNCHANGED <<source, serverVars, saved, result, name, sig, current, resumed, todo, etags,
                 faults, edits, history>>

\* transfer_stalled: the upload and its state stay; the state is written again when a
\* rate was measured.
PartsStall(p) ==
  LET u == current[p] IN
  /\ phase[p] = "parts" /\ todo[p] # {} /\ Fault
  /\ saved' \in {saved, [saved EXCEPT ![u] = [name |-> name[p], sig |-> sig[p]]]}
  /\ Return(p, "stalled")
  /\ UNCHANGED <<source, serverVars, edits, history>>

\* Any other failure, of storage or because the upload is gone: a fresh run aborts it, a
\* resumed one leaves it.
PartsFail(p) ==
  /\ phase[p] = "parts" /\ todo[p] # {}
  /\ IF status[current[p]] = "open" THEN Fault ELSE UNCHANGED faults
  /\ IF resumed[p]
     THEN Return(p, "error")
     ELSE Goto(p, "abort") /\ UNCHANGED <<result, name, sig, current, resumed, todo, etags>>
  /\ UNCHANGED <<source, serverVars, saved, edits, history>>

\* Mutant: the state is forgotten whether or not the abort succeeded.
AbortAlwaysForgets(p) ==
  LET u == current[p] IN
  /\ phase[p] = "abort"
  /\ \/ status[u] = "open" /\ status' = [status EXCEPT ![u] = "aborted"]
     \/ UNCHANGED status
  /\ saved' = [saved EXCEPT ![u] = NoState]
  /\ Return(p, "error")
  /\ UNCHANGED <<source, stored, faults, edits, history>>

\* abort_then_forget: the state goes only when the server confirmed the abort.  The
\* abort may fail, or its answer be lost, in the outage that failed the part.
AbortThenForget(p) ==
  LET u == current[p] IN
  /\ phase[p] = "abort"
  /\ \/ /\ status[u] = "open" /\ status' = [status EXCEPT ![u] = "aborted"]
        /\ saved' \in {saved, [saved EXCEPT ![u] = NoState]}
     \/ UNCHANGED <<status, saved>>
  /\ Return(p, "error")
  /\ UNCHANGED <<source, stored, faults, edits, history>>

-----------------------------------------------------------------------------
(* Finalizing *)

Listed(p) == stored[current[p]] = etags[p] /\ DOMAIN etags[p] = Parts

\* The server assembles the listed parts; the state is removed with the success.
Complete(p) ==
  LET u == current[p] IN
  /\ phase[p] = "complete" /\ status[u] = "open" /\ Listed(p)
  /\ status' = [status EXCEPT ![u] = "completed"]
  /\ saved' = [saved EXCEPT ![u] = NoState]
  /\ Return(p, "ok")
  /\ UNCHANGED <<source, stored, faults, edits, excused, preserved, versions>>

\* The server does not know the upload: the state is dead.
CompleteNotFound(p) ==
  LET u == current[p] IN
  /\ phase[p] = "complete" /\ status[u] # "open"
  /\ saved' = [saved EXCEPT ![u] = NoState]
  /\ Return(p, "error")
  /\ UNCHANGED <<source, serverVars, faults, edits, history>>

\* Mutant: a failed finalize aborts the upload.
CompleteFailsAborts(p) ==
  LET u == current[p] IN
  /\ phase[p] = "complete" /\ status[u] = "open" /\ Fault
  /\ preserved' = preserved \cup {u}
  /\ Goto(p, "abort")
  /\ UNCHANGED <<source, serverVars, saved, result, name, sig, current, resumed, todo, etags,
                 edits, excused, versions>>

\* Any other failure, of the call or of its answer, keeps the state.
CompleteFails(p) ==
  LET u == current[p] IN
  /\ phase[p] = "complete" /\ status[u] = "open"
  /\ IF Listed(p) THEN Fault ELSE UNCHANGED faults
  /\ \/ UNCHANGED status
     \/ Listed(p) /\ status' = [status EXCEPT ![u] = "completed"]
  /\ preserved' = preserved \cup {u}
  /\ Return(p, "error")
  /\ UNCHANGED <<source, stored, saved, edits, excused, versions>>

-----------------------------------------------------------------------------
(* The environment. *)

\* A kill; between initiate and save nobody knows of the upload any more.
Kill(p) ==
  /\ phase[p] # "idle" /\ Fault
  /\ excused' = IF phase[p] = "save" THEN excused \cup {current[p]} ELSE excused
  /\ Return(p, "error")
  /\ UNCHANGED <<source, serverVars, saved, edits, preserved, versions>>

Held(u) == \E p \in Procs : current[p] = u

\* The server sweeps an upload left idle, wanted or not.
Sweep(u) ==
  /\ status[u] = "open"
  /\ IF u \in excused /\ ~Held(u) THEN UNCHANGED faults ELSE Fault
  /\ status' = [status EXCEPT ![u] = "swept"]
  /\ UNCHANGED <<source, stored, saved, procVars, edits, history>>

\* The source is edited while no run is reading it, keeping its size.
Edit ==
  /\ edits < MaxEdits /\ \A p \in Procs : phase[p] = "idle"
  /\ edits' = edits + 1
  /\ \E C \in SUBSET Parts \ {{}}, later \in BOOLEAN :
       /\ EditBumpsMtime => later
       /\ source' = [mtime |-> source.mtime + (IF later THEN 1 ELSE 0),
                     chunk |-> [c \in Parts |-> IF c \in C THEN edits + 1 ELSE source.chunk[c]]]
  /\ versions' = versions \cup {source'.chunk}
  /\ UNCHANGED <<serverVars, saved, procVars, faults, excused, preserved>>

RunStep(p) ==
  \/ FindMatch(p) \/ Preflight(p) \/ InitiateRefused(p) \/ Initiate(p) \/ SaveState(p)
  \/ Resume(p) \/ ResumeNotFound(p) \/ PutPart(p) \/ PartsDone(p)
  \/ AbortThenForget(p) \/ Complete(p) \/ CompleteNotFound(p)

FaultStep(p) ==
  \/ CallFails(p) \/ ResumeMismatch(p) \/ PartsStall(p) \/ PartsFail(p)
  \/ CompleteFails(p) \/ Kill(p)

AllDone == (\A p \in Procs : result[p] = "ok") /\ UNCHANGED vars

Next ==
  \/ \E p \in Procs : Start(p) \/ RunStep(p) \/ FaultStep(p)
  \/ \E u \in Uploads : Sweep(u)
  \/ Edit
  \/ AllDone

\* A failed command is run again, a running one goes on, a run whose upload vanished
\* returns, and the server sweeps uploads nobody holds a record of.
Fairness ==
  /\ \A p \in Procs : WF_vars(Start(p)) /\ WF_vars(RunStep(p) \/ PartsFail(p) \/ CompleteFails(p))
  /\ \A u \in Uploads : WF_vars(Sweep(u) /\ u \in excused /\ ~Held(u))

Spec == Init /\ [][Next]_vars /\ Fairness

-----------------------------------------------------------------------------
Contents == [Parts -> 0 .. MaxEdits]
PartialContents == UNION {[S -> 0 .. MaxEdits] : S \in SUBSET Parts}
Signatures == (0 .. MaxEdits) \X (0 .. MaxEdits) \X (0 .. MaxEdits)
SavedStates == {NoState} \cup [name : Nat, sig : Signatures]

TypeOK ==
  /\ source \in [mtime : 0 .. MaxEdits, chunk : Contents]
  /\ status \in [Uploads -> {"none", "open", "completed", "aborted", "swept"}]
  /\ stored \in [Uploads -> PartialContents]
  /\ saved \in [Uploads -> SavedStates]
  /\ phase \in [Procs -> Phases] /\ result \in [Procs -> Results]
  /\ name \in [Procs -> Nat] /\ sig \in [Procs -> Signatures \cup {NoSig}]
  /\ current \in [Procs -> Uploads \cup {NoUpload}] /\ resumed \in [Procs -> BOOLEAN]
  /\ todo \in [Procs -> SUBSET Parts] /\ etags \in [Procs -> PartialContents]
  /\ faults \in 0 .. MaxFaults /\ edits \in 0 .. MaxEdits
  /\ excused \subseteq Uploads /\ preserved \subseteq Uploads
  /\ versions \subseteq Contents

\* Whatever was interrupted, resumed, aborted or raced: a finished file is the source as
\* it was at one time, never chunks of two versions.
CompletedWhole == \A u \in Completed : stored[u] \in versions

\* An upload the server still holds open keeps its resume state, unless the answer to
\* initiate or the write of the state failed, the source changed, or the server disagreed
\* about the geometry: a failed abort or finalize never loses the only record of it.
NotForgotten ==
  \A u \in Uploads : status[u] = "open" /\ saved[u] = NoState =>
    u \in excused \/ \E p \in Procs : current[p] = u /\ phase[p] = "save"

\* An upload that a run left preserved after its finalize failed is not aborted later,
\* unless the server disagrees about its geometry, or another process was still sending
\* parts of its own to it and one of them failed.
PreservedStays ==
  [][\A u \in preserved :
       status'[u] = "aborted" =>
         \/ status[u] = "aborted" \/ u \in excused'
         \/ \E p \in Procs : current[p] = u /\ phase[p] = "abort" /\ todo[p] # {}]_vars

\* Re-running the command ends with a finished file, whatever was left behind by the runs
\* before: a stale state, a swept upload, a reservation that fills the quota.
EventuallyUploaded == <>(Completed # {})
=============================================================================
