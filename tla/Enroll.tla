------------------------------- MODULE Enroll -------------------------------
(***************************************************************************)
(* `signet enroll`: an agent joins the enrolment its guardian opened,      *)
(* waits for the guardian to confirm and name it, creates four keys,       *)
(* submits them, proves that it holds them, waits for the attestation and  *)
(* records a default identity; any failure from the first key on deletes   *)
(* the keys again.  Beside it: `keys delete`, and a signed command, which  *)
(* chooses the identity it acts as.                                        *)
(*                                                                         *)
(* The server and the guardian are external: an enrolment hands out its    *)
(* submit token once, takes keys only from the holder while confirmed, and *)
(* is completed, cancelled or expires on the guardian's side.              *)
(***************************************************************************)
EXTENDS Keystore, Http, Sequences

CONSTANTS
    Runs,           \* CLI processes, each one command
    Codes, NoCode,  \* enrolments the guardian opened
    HandleOf,       \* code -> the handle the guardian confirms it as
    NoHandle,
    Machine,        \* [forced, mac]: SIGNET_KEY_TIER ("none" when unset), Apple Silicon
    OldKeys,        \* labels already in the store
    OldDefault,     \* the handle config.toml already names, or NoHandle
    MaxMishaps      \* lost answers, locked screens, kills, failed writes

ASSUME EnrollAssumption ==
    /\ HandleOf \in [Codes -> Handles] /\ NoHandle \notin Handles /\ NoCode \notin Codes
    /\ Machine \in [forced : {"none", "software", "secure_enclave"}, mac : BOOLEAN]
    /\ OldKeys \subseteq Labels
    /\ OldDefault \in Handles \cup {NoHandle} /\ MaxMishaps \in Nat
    /\ "nobody" \notin Runs

VARIABLES
    store,      \* the key store of this machine
    birth,      \* label -> how many keys of that label were ever created
    enr,        \* server: [code -> [status, holder, keys]]
    attested,   \* server: handle -> the keys its account was attested with
    config,     \* the default identity of config.toml, or NoHandle
    run,        \* the processes
    mishaps

serverVars == <<enr, attested>>
vars == <<store, birth, enr, attested, config, run, mishaps>>

\* The tier of a native machine, and whether its store can be opened.
DetectTier(m) == IF m.forced # "none" THEN m.forced
                 ELSE IF m.mac THEN "secure_enclave" ELSE "software"

OpenNonBroker(m) == IF DetectTier(m) = "secure_enclave" /\ ~m.mac
                    THEN Err("unsupported_platform") ELSE Ok(DetectTier(m))

Tier == DetectTier(Machine)

Nobody == "nobody"
NoKeys == <<>>
NoLabel == [handle |-> NoHandle, purpose |-> "none"]

Order == <<"signing", "kem", "signing_pq", "kem_pq">>
Label(h, i) == [handle |-> h, purpose |-> Order[i]]

\* The four labels of one enrolment.
EnrollLabels(h) == {Label(h, i) : i \in 1 .. 4}

\* The keys of a handle, as the server sees them: one birth per purpose.
Births(h) == [i \in 1 .. 4 |-> birth[Label(h, i)]]

Live == {"pending", "confirmed", "keys_submitted"}
\* expired, cancelled or failed: all the same to the agent
Terminal == {"ended"}

Fresh == [pc |-> "start", code |-> NoCode, asserted |-> NoHandle, n |-> 0,
          tries |-> 0, made |-> {}, skipped |-> FALSE, did |-> NoLabel,
          handle |-> NoHandle, todo |-> {}, ask |-> FALSE, out |-> "none"]

H(p) == HandleOf[run[p].code]
Token(p) == enr[run[p].code].holder = p

Mishap == mishaps < MaxMishaps /\ mishaps' = mishaps + 1

\* Whether the screen is locked when the store is asked: a mishap.
Screen(locked) == IF locked THEN Mishap ELSE UNCHANGED mishaps

Locked(locked) == [store EXCEPT !.locked = locked /\ Tier = "secure_enclave"]

-----------------------------------------------------------------------------
(* How a command ends, or fails. *)

Done(r, out) == [Fresh EXCEPT !.pc = "over", !.out = out, !.made = r.made,
                               !.skipped = r.skipped, !.asserted = r.asserted]

\* Mutant: the keys stay.
FailedKeeping(r, err) == Done(r, err)

\* `enroll` cleans up when `complete` failed, whatever the failure was.
Failed(r, err) ==
    IF r.pc \in {"start", "join", "confirm"} THEN Done(r, err)
    ELSE [r EXCEPT !.pc = "cleanup", !.n = 1, !.out = err]

\* What an HTTP pass does to the process: on, again, or out.
After(r, pass, next) ==
    CASE pass.next = "answer" -> [r EXCEPT !.pc = next, !.tries = 0]
      [] pass.next = "again"  -> [r EXCEPT !.tries = @ + 1]
      [] pass.next = "fail"   -> Failed(r, pass.err)

Set(p, r) == run' = [run EXCEPT ![p] = r]

Exist(st, l) == LET e == Exists(st, l) IN e.ok /\ e.val

-----------------------------------------------------------------------------
(* The steps of `enroll`. *)

\* The harness asserts a handle whose classical pair exists: nothing to do.  A
\* store that cannot answer counts as not enrolled.
AlreadyEnrolled(st, h) ==
    h # NoHandle /\ Exist(st, Label(h, 1)) /\ Exist(st, Label(h, 2))

Start(p, asserted, code, locked) ==
    /\ run[p].pc = "start" /\ Screen(locked)
    /\ LET r == [run[p] EXCEPT !.code = code]
       IN  Set(p, CASE ~OpenNonBroker(Machine).ok -> Done(r, OpenNonBroker(Machine).val)
                    [] OpenNonBroker(Machine).ok /\ AlreadyEnrolled(Locked(locked), asserted) ->
                         Done(r, "already_enrolled")
                    [] ~AlreadyEnrolled(Locked(locked), asserted) /\ code = NoCode ->
                         Done(r, "invalid_arguments")
                    [] OTHER -> [r EXCEPT !.pc = "join"])
    /\ UNCHANGED <<store, birth, serverVars, config>>

\* Claim the submit token.  The server gives it out once; a POST whose answer
\* was lost is sent again like any other.
Join(p, o) ==
    /\ run[p].pc = "join"
    /\ LET c == run[p].code
           free == enr[c].holder = Nobody /\ enr[c].status \in Live
           taken == [enr EXCEPT ![c].holder = p]
       IN  \/ o = "ok" /\ free /\ enr' = taken /\ UNCHANGED mishaps
           \/ o = "404" /\ ~free /\ UNCHANGED <<enr, mishaps>>
           \/ o = "5xx" /\ UNCHANGED <<enr, mishaps>>
           \/ o = "transport" /\ Mishap /\ enr' \in {enr, IF free THEN taken ELSE enr}
    /\ Set(p, After(run[p], PostText(FALSE, run[p].tries, o), "confirm"))
    /\ UNCHANGED <<store, birth, attested, config>>

\* Mutant: no ceiling.
PollForever(p, at, target, next) ==
    /\ run[p].pc = at
    /\ LET s == enr[run[p].code].status
       IN  \/ s = target /\ Set(p, [run[p] EXCEPT !.pc = next, !.n = 1])
              /\ UNCHANGED mishaps
           \/ s \in Terminal /\ Set(p, Failed(run[p], s)) /\ UNCHANGED mishaps
           \/ Mishap /\ Set(p, Failed(run[p], GetText(MaxRetries, "transport").err))
    /\ UNCHANGED <<store, birth, serverVars, config>>

\* poll_until: the target ends the wait, so does any end of the enrolment, an
\* error of the GET, and the ceiling of an hour.
PollUntil(p, at, target, next) ==
    /\ run[p].pc = at
    /\ LET s == enr[run[p].code].status
       IN  \/ s = target /\ Set(p, [run[p] EXCEPT !.pc = next, !.n = 1])
              /\ UNCHANGED mishaps
           \/ s \in Terminal /\ Set(p, Failed(run[p], s)) /\ UNCHANGED mishaps
           \/ s \notin Terminal \cup {target} /\ Set(p, Failed(run[p], "timed_out"))
              /\ UNCHANGED mishaps
           \/ Mishap /\ Set(p, Failed(run[p], GetText(MaxRetries, "transport").err))
    /\ UNCHANGED <<store, birth, serverVars, config>>

PollConfirmed(p) == PollUntil(p, "confirm", "confirmed", "keygen")
\* Mutant: submitted is as good as attested.
PollSubmitted(p) == PollUntil(p, "attest", "keys_submitted", "config")
PollCompleted(p) == PollUntil(p, "attest", "completed", "config")

\* One of the four keys; a label that exists is an error like any other.
Keygen(p, locked) ==
    /\ run[p].pc = "keygen" /\ Screen(locked)
    /\ LET l == Label(H(p), run[p].n)
           g == Generate(Locked(locked), l, DefaultAlg(l.purpose))
       IN  /\ store' = [g.store EXCEPT !.locked = FALSE]
           /\ birth' = [birth EXCEPT ![l] = IF g.res.ok THEN @ + 1 ELSE @]
           /\ Set(p, IF g.res.ok
                     THEN [run[p] EXCEPT !.n = @ + 1, !.made = @ \cup {<<l, birth[l] + 1>>},
                             !.pc = IF run[p].n = 4 THEN "submit" ELSE @]
                     ELSE Failed(run[p], g.res.val))
    /\ UNCHANGED <<serverVars, config>>

\* Submit the four public keys: taken from the holder of the token while the
\* enrolment is confirmed, as often as it asks, from a Secure Enclave only.
SubmitKeys(p, o) ==
    /\ run[p].pc = "submit"
    /\ LET c == run[p].code
           good == Token(p) /\ enr[c].status = "confirmed" /\ Tier = "secure_enclave"
           kept == [enr EXCEPT ![c].keys = Births(H(p))]
       IN  \/ o = "ok" /\ good /\ enr' = kept /\ UNCHANGED mishaps
           \/ o = "409" /\ ~good /\ UNCHANGED <<enr, mishaps>>
           \/ o = "5xx" /\ UNCHANGED <<enr, mishaps>>
           \/ o = "transport" /\ Mishap /\ enr' \in {enr, IF good THEN kept ELSE enr}
    /\ Set(p, After(run[p], PostText(FALSE, run[p].tries, o), "prove"))
    /\ UNCHANGED <<store, birth, attested, config>>

\* The nonce comes wrapped to both KEM keys, whose metadata is read as well.
UnwrapKeyHybrid(st, h) ==
    {Ecdh(st, Label(h, 2)), MlKemDecapsulate(st, Label(h, 4)),
     Meta(st, Label(h, 2)), Meta(st, Label(h, 4))}

\* The proof of possession uses all four keys.
Proof(st, h) ==
    {Sign(st, Label(h, 1)), MlDsaSign(st, Label(h, 3))} \cup UnwrapKeyHybrid(st, h)

Prove(p, locked) ==
    /\ run[p].pc = "prove" /\ Screen(locked)
    /\ LET bad == {r \in Proof(Locked(locked), H(p)) : ~r.ok}
       IN  Set(p, IF bad = {} THEN [run[p] EXCEPT !.pc = "pop"]
                  ELSE Failed(run[p], (CHOOSE r \in bad : TRUE).val))
    /\ UNCHANGED <<store, birth, serverVars, config>>

\* The proof moves the enrolment on; a repeated proof may be refused.
SubmitPop(p, o) ==
    /\ run[p].pc = "pop"
    /\ LET c == run[p].code
           good == Token(p) /\ enr[c].status = "confirmed" /\ enr[c].keys # NoKeys
           moved == [enr EXCEPT ![c].status = "keys_submitted"]
           again == Token(p) /\ enr[c].status \in {"keys_submitted", "completed"}
       IN  \/ o = "ok" /\ good /\ enr' = moved /\ UNCHANGED mishaps
           \/ o = "ok" /\ again /\ UNCHANGED <<enr, mishaps>>
           \/ o = "409" /\ ~good /\ UNCHANGED <<enr, mishaps>>
           \/ o = "5xx" /\ UNCHANGED <<enr, mishaps>>
           \/ o = "transport" /\ Mishap /\ enr' \in {enr, IF good THEN moved ELSE enr}
    /\ Set(p, After(run[p], PostText(FALSE, run[p].tries, o), "attest"))
    /\ UNCHANGED <<store, birth, attested, config>>

\* The default of a machine that serves another PRSN is left alone.
ShouldWriteDefault(existing, h) == existing \in {NoHandle, h}

\* write_default_config loads the file, decides, and writes it; another process
\* may have written in between.
LoadDefault(p) ==
    /\ run[p].pc = "config"
    /\ Set(p, IF ShouldWriteDefault(config, H(p))
              THEN [run[p] EXCEPT !.pc = "write"]
              ELSE Done(run[p], "enrolled"))
    /\ UNCHANGED <<store, birth, serverVars, config, mishaps>>

\* The write is part of `complete`: its failure is an enrolment failure.
WriteDefaultConfig(p, fails) ==
    /\ run[p].pc = "write"
    /\ IF fails THEN Mishap /\ UNCHANGED config ELSE UNCHANGED mishaps /\ config' = H(p)
    /\ Set(p, IF fails THEN Failed(run[p], "filesystem_error") ELSE Done(run[p], "enrolled"))
    /\ UNCHANGED <<store, birth, serverVars>>

\* cleanup_keys: label by label, a store that does not answer is skipped.
CleanupKeys(p, locked) ==
    /\ run[p].pc = "cleanup" /\ Screen(locked)
    /\ LET l == Label(H(p), run[p].n)
           st == Locked(locked)
       IN  store' = [(IF Exist(st, l) THEN Delete(st, l).store ELSE st)
                       EXCEPT !.locked = FALSE]
    /\ LET r == [run[p] EXCEPT !.skipped = @ \/ locked]
       IN  Set(p, IF r.n = 4 THEN Done(r, r.out) ELSE [r EXCEPT !.n = @ + 1])
    /\ UNCHANGED <<birth, serverVars, config>>

\* The process is killed; nothing is cleaned up.
Killed(p) ==
    /\ run[p].pc \notin {"start", "over"} /\ Mishap
    /\ Set(p, Done(run[p], IF run[p].pc = "deleting" THEN "killed_deleting" ELSE "killed"))
    /\ UNCHANGED <<store, birth, serverVars, config>>

-----------------------------------------------------------------------------
(* Other commands. *)

\* resolve_label_for: --key, then SIGNET_HANDLE, then the configured default;
\* with SIGNET_HANDLE set the key must be that handle's.
ResolveLabelFor(asserted, arg, default, i) ==
    LET h == IF arg # NoHandle THEN arg
             ELSE IF asserted # NoHandle THEN asserted ELSE default
    IN  IF h = NoHandle THEN Err("invalid_arguments")
        ELSE IF asserted # NoHandle /\ h # asserted THEN Err("identity_mismatch")
        ELSE Ok(Label(h, i))

\* request_signature: the classical key signs, and with a post-quantum key
\* beside it so does that one.
RequestSignature(st, l) ==
    LET pq == Exists(st, Label(l.handle, 3))
    IN  IF ~pq.ok THEN pq
        ELSE IF ~pq.val \/ ~Sign(st, l).ok THEN Sign(st, l)
        ELSE MlDsaSign(st, Label(l.handle, 3))

\* auth_headers: the fingerprint of the key, then the signature.
AuthHeaders(st, l) == IF Meta(st, l).ok THEN RequestSignature(st, l) ELSE Meta(st, l)

\* What the server says to a signature: it knows the keys it attested.
Verified(l) ==
    IF attested[l.handle] # NoKeys /\ attested[l.handle] = Births(l.handle) THEN "ok" ELSE "401"

\* A command signed with the resolved key, for instance whoami.
SignedCommand(p, asserted, arg) ==
    /\ run[p].pc = "start"
    /\ LET l == ResolveLabelFor(asserted, arg, config, 1)
           s == IF l.ok THEN AuthHeaders(store, l.val) ELSE l
           pass == SignedCall(FALSE, "GET", 0, Verified(l.val))
           r == [run[p] EXCEPT !.asserted = asserted]
       IN  Set(p, IF ~s.ok THEN Done(r, s.val)
                  ELSE [Done(r, IF pass.next = "answer" THEN "acted" ELSE pass.err)
                          EXCEPT !.did = l.val])
    /\ UNCHANGED <<store, birth, serverVars, config, mishaps>>

\* keygen <label>: one key by hand.
KeygenCommand(p, l) ==
    /\ run[p].pc = "start" /\ Mishap
    /\ LET g == Generate(store, l, DefaultAlg(l.purpose))
       IN  /\ store' = g.store
           /\ birth' = [birth EXCEPT ![l] = IF g.res.ok THEN @ + 1 ELSE @]
           /\ Set(p, Done(run[p], IF g.res.ok THEN "generated" ELSE g.res.val))
    /\ UNCHANGED <<serverVars, config>>

\* keys delete <handle>: one purpose, or all that exist.  --force asks nothing,
\* but for more than one key wants --confirm-delete-both beside it.
KeysDelete(p, h, only, force, both) ==
    /\ run[p].pc = "start" /\ Mishap
    /\ LET todo == IF only # {} THEN only ELSE {i \in 1 .. 4 : Exist(store, Label(h, i))}
           r == [run[p] EXCEPT !.handle = h]
       IN  Set(p, IF todo = {} THEN Done(r, "key_not_found")
                  ELSE IF only = {} /\ Cardinality(todo) > 1 /\ force /\ ~both
                  THEN Done(r, "invalid_arguments")
                  ELSE [r EXCEPT !.pc = "deleting", !.todo = todo, !.ask = ~force,
                                 !.n = Cardinality(only)])
    /\ UNCHANGED <<store, birth, serverVars, config>>

\* One key of the list: asked for, looked up again, deleted.
DeleteOne(p, yes) ==
    /\ run[p].pc = "deleting" /\ (yes \/ run[p].ask)
    /\ LET i == CHOOSE k \in run[p].todo : \A j \in run[p].todo : k <= j
           l == Label(run[p].handle, i)
           r == [run[p] EXCEPT !.todo = @ \ {i}]
           on == IF r.todo = {} THEN Done(r, "deleted") ELSE r
       IN  \/ ~Exist(store, l) /\ UNCHANGED store
              /\ Set(p, IF run[p].n = 1 THEN Done(r, "key_not_found") ELSE on)
           \/ Exist(store, l) /\ ~yes /\ UNCHANGED store /\ Set(p, Done(r, "declined"))
           \/ Exist(store, l) /\ yes /\ store' = Delete(store, l).store /\ Set(p, on)
    /\ UNCHANGED <<birth, serverVars, config, mishaps>>

-----------------------------------------------------------------------------
(* The guardian and the server. *)

Confirm(c) ==
    /\ enr[c].status = "pending"
    /\ enr' = [enr EXCEPT ![c].status = "confirmed"]
    /\ UNCHANGED <<store, birth, attested, config, run, mishaps>>

Attest(c) ==
    /\ enr[c].status = "keys_submitted"
    /\ enr' = [enr EXCEPT ![c].status = "completed"]
    /\ attested' = [attested EXCEPT ![HandleOf[c]] = enr[c].keys]
    /\ UNCHANGED <<store, birth, config, run, mishaps>>

End(c, s) ==
    /\ enr[c].status \in Live
    /\ enr' = [enr EXCEPT ![c].status = s]
    /\ UNCHANGED <<store, birth, attested, config, run, mishaps>>

-----------------------------------------------------------------------------
Init ==
    /\ store = [tier |-> Tier, locked |-> FALSE, pq |-> TRUE, k3 |-> {}, keys |-> OldKeys]
    /\ birth = [l \in Labels |-> IF l \in OldKeys THEN 1 ELSE 0]
    /\ enr = [c \in Codes |-> [status |-> "pending", holder |-> Nobody, keys |-> NoKeys]]
    /\ attested = [h \in Handles |-> NoKeys]
    /\ config = OldDefault
    /\ run = [p \in Runs |-> Fresh]
    /\ mishaps = 0

Posts == {"ok", "404", "409", "5xx", "transport"}

RunStep(p) ==
    \/ \E o \in Posts : Join(p, o) \/ SubmitKeys(p, o) \/ SubmitPop(p, o)
    \/ PollConfirmed(p) \/ PollCompleted(p) \/ LoadDefault(p)
    \/ \E locked \in BOOLEAN : Keygen(p, locked) \/ Prove(p, locked) \/ CleanupKeys(p, locked)
    \/ \E b \in BOOLEAN : WriteDefaultConfig(p, b) \/ DeleteOne(p, b)

Begin(p) ==
    \/ \E a \in Handles \cup {NoHandle}, c \in Codes \cup {NoCode}, locked \in BOOLEAN :
         Start(p, a, c, locked)
    \/ \E a, arg \in Handles \cup {NoHandle} : SignedCommand(p, a, arg)
    \/ \E l \in Labels : KeygenCommand(p, l)
    \/ \E h \in Handles, only \in {{}} \cup {{i} : i \in 1 .. 4}, force, both \in BOOLEAN :
         KeysDelete(p, h, only, force, both)

Next ==
    \/ \E p \in Runs : Begin(p) \/ RunStep(p) \/ Killed(p)
    \/ \E c \in Codes : Confirm(c) \/ Attest(c) \/ \E s \in Terminal : End(c, s)

Spec == Init /\ [][Next]_vars /\ \A p \in Runs : WF_vars(RunStep(p))

-----------------------------------------------------------------------------
Stores == [tier : {Tier}, locked : {FALSE}, pq : {TRUE}, k3 : {{}}, keys : SUBSET Labels]

KeySets == {NoKeys} \cup [1 .. 4 -> Nat]

Failures == {"se_locked", "key_already_exists", "key_not_found", "unsupported_platform",
    "unsupported_algorithm", "invalid_arguments", "invalid_data", "identity_mismatch",
    "cli_outdated", "epoch_changed", "authentication_failed", "authorization_denied", "not_found",
    "conflict", "network_error", "generic_error", "filesystem_error", "timed_out", "ended"}

Outcomes == Failures \cup {"none", "already_enrolled", "enrolled", "acted", "generated",
    "deleted", "declined", "killed", "killed_deleting"}

Processes == [pc : {"start", "join", "confirm", "keygen", "submit", "prove", "pop", "attest",
                    "config", "write", "cleanup", "deleting", "over"},
              code : Codes \cup {NoCode}, asserted : Handles \cup {NoHandle},
              n : 0 .. 5, tries : 0 .. MaxRetries, made : SUBSET (Labels \X Nat),
              skipped : BOOLEAN, did : Labels \cup {NoLabel}, handle : Handles \cup {NoHandle},
              todo : SUBSET (1 .. 4), ask : BOOLEAN, out : Outcomes]

\* Types of the processes, the store and the server's records; a request is
\* tried at most 1 + MaxRetries times (the retry loop of http.rs).
TypeOK ==
    /\ store \in Stores
    /\ birth \in [Labels -> Nat]
    /\ enr \in [Codes -> [status : Live \cup Terminal \cup {"completed"},
                          holder : Runs \cup {Nobody}, keys : KeySets]]
    /\ attested \in [Handles -> KeySets]
    /\ config \in Handles \cup {NoHandle}
    /\ run \in [Runs -> Processes]
    /\ mishaps \in Nat

\* An enrolment that failed leaves none of its keys behind, unless the process
\* was killed or the store did not answer the clean-up (cleanup_keys).
FailureLeavesNoKey ==
    \A p \in Runs :
      run[p].pc = "over" /\ run[p].out \notin {"enrolled", "killed"} /\ ~run[p].skipped =>
        \A m \in run[p].made : m[1] \notin store.keys \/ birth[m[1]] # m[2]

\* A process that reports success leaves an account whose four attested keys
\* are the ones in this machine's store, unless somebody ran `keys delete`
\* meanwhile (the end of complete).
EnrolledIsUsable ==
    [][\A p \in Runs :
         /\ run[p].out # "enrolled" /\ run'[p].out = "enrolled"
         /\ ~\E q \in Runs : \/ run[q].pc = "deleting"
                             \/ run[q].out \in {"deleted", "declined", "killed_deleting"}
         =>
           /\ attested[H(p)] = Births(H(p))
           /\ EnrollLabels(H(p)) \subseteq store.keys]_vars

\* An enrolment that began ends, though nobody answers: every wait has a
\* ceiling and every retry loop a bound.
EnrollEnds == []<>(\A p \in Runs : run[p].pc \in {"start", "over"})

\* The clean-up of a failed enrolment removes only keys that this enrolment
\* generated.
OnlyJustGeneratedRemoved ==
    [][\A p \in Runs, l \in Labels :
         run[p].pc = "cleanup" /\ run'[p] # run[p] /\ l \in store.keys /\ l \notin store'.keys =>
           <<l, birth[l]>> \in run[p].made]_vars
=============================================================================
