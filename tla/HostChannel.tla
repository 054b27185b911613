---------------------------- MODULE HostChannel ----------------------------
(***************************************************************************)
(* Host delegation: a CLI in a container has no Secure Enclave, so it asks *)
(* the host-signer daemon on the Mac to run each key operation.  They talk *)
(* through files of a bind-mounted folder, one folder per channel: the     *)
(* client writes <id>.req, the daemon polls the folder, runs the request   *)
(* and writes <id>.resp.  The daemon binds a channel to the handle of the  *)
(* first key it creates and remembers the binding in a file.               *)
(*                                                                         *)
(* Modelled: the client's send, wait, time-out and clean-up; the daemon's  *)
(* poll loop one file operation at a time, its replay guard, the dispatch  *)
(* to the key store, the pin and its file, eviction, stop and restart; and *)
(* the administrator's provision and remove.  A frame is what it says, the *)
(* secret it is sealed with and what it is bound to; it opens only under   *)
(* the same secret for the same purpose.                                   *)
(***************************************************************************)
EXTENDS Keystore, Naturals, Sequences

CONSTANTS
    Channels,        \* channel ids
    Cmds,            \* CLI commands run in containers, each at most once
    Wired,           \* command -> the channel of the container it runs in
    Calls,           \* command -> the key operations it may ask for
    Asserted,        \* channel -> the handle its container asserts, or NoHandle
    NoHandle,
    Window,          \* nonces the replay guard remembers (4096 in the code)
    EvictAfter,      \* missing polls before a channel is dropped (20)
    HasPq,           \* the enclave has post-quantum keys
    MaxProvisions,   \* secrets ever issued
    MaxMishaps       \* stops, failed file operations, lost folders, killed clients

ASSUME HostChannelAssumption ==
    /\ Window \in Nat \ {0} /\ EvictAfter \in Nat \ {0}
    /\ MaxProvisions \in Nat /\ MaxMishaps \in Nat
    /\ HasPq \in BOOLEAN
    /\ Wired \in [Cmds -> Channels]
    /\ Asserted \in [Channels -> Handles \cup {NoHandle}]
    /\ NoHandle \notin Handles

VARIABLES
    registry,   \* registry.toml: channel -> its secret, 0 when not registered
    secret,     \* the secret file mounted in the container, 0 when absent
    folder,     \* channels whose folder exists
    reqs,       \* the .req files that exist
    resps,      \* the .resp files: request -> sealed answer, or NoFile
    pinFile,    \* state/<channel>.handle
    store,      \* the host's key store
    signer,     \* the daemon's memory
    cmd,        \* the containers' commands
    used,       \* [provisions, mishaps]: how often each happened; and history:
                \* kept, the requests a client's clean-up failed to remove
    age,        \* history: how many requests of its channel were run since each
                \* request was, itself included; 0 if not in this life of the daemon
    ran         \* history: the results of each command's own operation

files == <<reqs, resps>>
hostVars == <<registry, secret, folder, pinFile>>
history == <<age, ran>>
vars == <<registry, secret, folder, reqs, resps, pinFile, store, signer, cmd,
          used, age, ran>>

\* A sealed frame: what it says, the secret whose key sealed it, and the
\* associated data it is bound to.
Sealed(sec, aad, body) == [sec |-> sec, aad |-> aad, body |-> body]

\* request_aad, response_aad: the direction, the channel and the request; in
\* an answer the request's nonce too, which is as unique as its id.
Aad(direction, c, r) == <<direction, c, r>>

\* A frame opens under the secret that sealed it and for what it was bound to.
Opens(frame, sec, aad) == frame.sec = sec /\ frame.aad = aad

NoFile == Sealed(0, <<>>, Err("none"))
NoReq == <<"none", "none">>

Requests == Cmds \X {"identity", "op"}

ChannelOf(r) == Wired[r[1]]

\* The operations the wire format names.
WireOps == {"identity", "keygen", "sign", "ecdh", "ml_kem_decapsulate", "ml_dsa_sign",
            "list", "meta", "exists", "delete"}

\* Calls are the operations of a key store: the client asks for the identity
\* by itself, before each of them.
ASSUME CallsAssumption ==
    \A k \in Cmds : \A call \in Calls[k] : call.op \in WireOps \ {"identity"}

\* What the request file holds.
RequestFrame(r) ==
    Sealed(cmd[r[1]].sec, Aad("request", ChannelOf(r), r),
           IF r[2] = "identity" THEN [op |-> "identity"] ELSE cmd[r[1]].call)

Secrets == 1 .. MaxProvisions

Steps == {"rest", "batch", "read", "pinning", "ran", "done"}

-----------------------------------------------------------------------------
(* The daemon's handler. *)

\* A label outside the channel's own handle is refused before the store.
ScopedLabel(label, handle) ==
    LET p == Parse(label)
    IN  IF ~p.ok THEN p
        ELSE IF label.handle # handle THEN Err("authorization_denied")
        ELSE p

\* dispatch: each operation parses and scopes its label, checks its payload
\* and calls the store.
Dispatch(st, handle, c) ==
    LET l == ScopedLabel(c.label, handle)
    IN  CASE c.op = "list" ->
               LET r == SeList(st)
               IN  Same(st, IF r.ok THEN Ok({k \in r.val : k.handle = handle}) ELSE r)
          [] c.op # "list" /\ ~l.ok -> Same(st, l)
          [] c.op = "keygen" /\ l.ok -> SeGenerate(st, c.label, c.alg)
          [] c.op = "sign" /\ l.ok -> Same(st, SeSign(st, c.label))
          [] c.op = "ecdh" /\ l.ok -> Same(st, SeEcdh(st, c.label, c.good))
          [] c.op = "ml_kem_decapsulate" /\ l.ok ->
               Same(st, IF c.good THEN SeMlKemDecapsulate(st, c.label)
                        ELSE Err("invalid_arguments"))
          [] c.op = "ml_dsa_sign" /\ l.ok ->
               Same(st, IF c.good THEN SeMlDsaSign(st, c.label)
                        ELSE Err("invalid_arguments"))
          [] c.op = "meta" /\ l.ok -> Same(st, SeMeta(st, c.label))
          [] c.op = "exists" /\ l.ok -> Same(st, SeExists(st, c.label))
          [] c.op = "delete" /\ l.ok -> SeDelete(st, c.label)

\* Mutants: the window grows for ever; a nonce is never found.
RecordedForever(window, r) == Append(window, r)
SeenNever(window, r) == FALSE

\* ChannelState::handle: what a request does to the store and to the pin.
Handle(st, pin, c) ==
    IF c.op = "identity" THEN [store |-> st, res |-> Ok(pin), pin |-> pin]
    ELSE IF pin # NoHandle THEN
      LET d == Dispatch(st, pin, c) IN [store |-> d.store, res |-> d.res, pin |-> pin]
    ELSE IF c.op # "keygen" THEN
      [store |-> st, res |-> Err("authorization_denied"), pin |-> pin]
    ELSE IF ~Parse(c.label).ok THEN
      [store |-> st, res |-> Parse(c.label), pin |-> pin]
    ELSE
      LET d == Dispatch(st, c.label.handle, c)
      IN  [store |-> d.store, res |-> d.res,
           pin |-> IF d.res.ok THEN c.label.handle ELSE NoHandle]

\* ReplayGuard::check_and_record: a bounded first-in first-out window.
Recorded(window, r) ==
    Append(IF Len(window) >= Window THEN Tail(window) ELSE window, r)

Seen(window, r) == \E i \in DOMAIN window : window[i] = r

-----------------------------------------------------------------------------
(* The daemon, one file operation per step. *)

Down ==
    [up |-> FALSE, serving |-> {}, key |-> [c \in Channels |-> 0],
     pin |-> [c \in Channels |-> NoHandle], window |-> [c \in Channels |-> <<>>],
     missing |-> [c \in Channels |-> 0], left |-> {}, batch |-> {},
     pc |-> "rest", ch |-> CHOOSE c \in Channels : TRUE, req |-> NoReq,
     ans |-> Err("none")]

\* Mutant: the pins are not read back.
StartUnpinned ==
    /\ ~signer.up
    /\ signer' = [Down EXCEPT !.up = TRUE, !.key = registry,
                    !.serving = {c \in Channels : registry[c] # 0}]
    /\ age' = [r \in Requests |-> 0]
    /\ UNCHANGED <<hostVars, files, store, cmd, used, ran>>

\* run: the channels, their secrets and their pins are read once, at start.
StartSigner ==
    /\ ~signer.up
    /\ LET on == {c \in Channels : registry[c] # 0}
       IN  signer' = [Down EXCEPT !.up = TRUE, !.serving = on,
                        !.key = registry,
                        !.pin = [c \in Channels |->
                                   IF c \in on THEN pinFile[c] ELSE NoHandle]]
    /\ age' = [r \in Requests |-> 0]
    /\ UNCHANGED <<hostVars, files, store, cmd, used, ran>>

\* The outer loop visits every served channel in each round.
Due == IF signer.left = {} THEN signer.serving ELSE signer.left

\* The request the daemon holds opens on the channel it polls.
HeldOpens ==
    Opens(RequestFrame(signer.req), signer.key[signer.ch],
          Aad("request", signer.ch, signer.req))

\* The sealed answer of the daemon to the request it holds.
HeldAnswer ==
    Sealed(signer.key[signer.ch], Aad("response", signer.ch, signer.req), signer.ans)

\* poll_once goes to the next request of its listing; after the last one the
\* loop moves on to the next channel.
NextRequest(s, r) ==
    LET rest == s.batch \ {r}
    IN  [s EXCEPT !.batch = rest, !.req = NoReq, !.ans = Err("none"),
           !.pc = IF rest = {} THEN "rest" ELSE "batch",
           !.left = IF rest = {} THEN Due \ {s.ch} ELSE @]

\* Active::poll, folder present: the folder is listed once, before any request
\* of this poll is served.
PollFolder(c) ==
    /\ signer.up /\ signer.pc = "rest" /\ c \in Due
    /\ c \in folder
    /\ LET found == {r \in reqs : ChannelOf(r) = c}
       IN  signer' = IF found = {}
                     THEN [signer EXCEPT !.missing[c] = 0, !.left = Due \ {c}]
                     ELSE [signer EXCEPT !.missing[c] = 0, !.pc = "batch",
                             !.ch = c, !.batch = found]
    /\ UNCHANGED <<hostVars, files, store, cmd, used, history>>

\* Active::poll, folder gone: counted, and at the threshold evicted.
PollMissing(c) ==
    /\ signer.up /\ signer.pc = "rest" /\ c \in Due
    /\ c \notin folder
    /\ LET n == signer.missing[c] + 1
       IN  signer' = [signer EXCEPT !.missing[c] = n, !.left = Due \ {c},
                        !.serving = IF n = EvictAfter THEN @ \ {c} ELSE @]
    /\ UNCHANGED <<hostVars, files, store, cmd, used, history>>

\* Active::poll, any other error of the listing: logged, and the channel is
\* polled again in the next round.
PollFails(c) ==
    /\ signer.up /\ signer.pc = "rest" /\ c \in Due
    /\ c \in folder /\ used.mishaps < MaxMishaps
    /\ used' = [used EXCEPT !.mishaps = @ + 1]
    /\ signer' = [signer EXCEPT !.missing[c] = 0, !.left = Due \ {c}]
    /\ UNCHANGED <<hostVars, files, store, cmd, history>>

\* A request that vanished since the listing is skipped.
ReadRequest(r) ==
    /\ signer.up /\ signer.pc = "batch" /\ r \in signer.batch
    /\ signer' = IF r \in reqs
                 THEN [signer EXCEPT !.pc = "read", !.req = r]
                 ELSE NextRequest(signer, r)
    /\ UNCHANGED <<hostVars, files, store, cmd, used, history>>

\* Mutant: a refused request is left in the folder.
RefuseKeeps ==
    /\ signer.up /\ signer.pc = "read"
    /\ ~HeldOpens \/ Seen(signer.window[signer.ch], signer.req)
    /\ signer' = NextRequest(signer, signer.req)
    /\ UNCHANGED <<hostVars, files, store, cmd, used, history>>

\* process, refused: a frame that does not open or that was seen is answered
\* with nothing.
Refuse ==
    /\ signer.up /\ signer.pc = "read"
    /\ ~HeldOpens \/ Seen(signer.window[signer.ch], signer.req)
    /\ signer' = [signer EXCEPT !.pc = "done"]
    /\ UNCHANGED <<hostVars, files, store, cmd, used, history>>

\* process, accepted: the nonce is recorded, then the operation runs.  A first
\* successful keygen pins the channel in memory; the file comes next.  The
\* screen may be locked when the store is asked.
Process(locked) ==
    /\ signer.up /\ signer.pc = "read"
    /\ LET c == signer.ch
           r == signer.req
           h == Handle([store EXCEPT !.locked = locked], signer.pin[c],
                       RequestFrame(r).body)
       IN  /\ HeldOpens
           /\ ~Seen(signer.window[c], r)
           /\ store' = [h.store EXCEPT !.locked = FALSE]
           /\ signer' = [signer EXCEPT !.window[c] = Recorded(@, r),
                           !.pin[c] = h.pin, !.ans = h.res,
                           !.pc = IF h.pin # signer.pin[c] THEN "pinning" ELSE "ran"]
           /\ age' = [q \in Requests |->
                        CASE q = r -> 1
                          [] q # r /\ age[q] # 0 /\ ChannelOf(q) = c ->
                               IF age[q] > Window THEN age[q] ELSE age[q] + 1
                          [] OTHER -> age[q]]
           /\ ran' = IF r[2] = "op" THEN [ran EXCEPT ![r[1]] = @ \cup {h.res}] ELSE ran
    /\ UNCHANGED <<hostVars, files, cmd, used>>

\* persist: a failed write is only logged.
PersistPin ==
    /\ signer.up /\ signer.pc = "pinning"
    /\ \/ /\ pinFile' = [pinFile EXCEPT ![signer.ch] = signer.pin[signer.ch]]
          /\ used' = used
       \/ /\ used.mishaps < MaxMishaps
          /\ used' = [used EXCEPT !.mishaps = @ + 1]
          /\ pinFile' = pinFile
    /\ signer' = [signer EXCEPT !.pc = "ran"]
    /\ UNCHANGED <<registry, secret, folder, files, store, cmd, history>>

\* Mutant: the answer goes to any request of its kind that waits.
WriteResponseAnywhere ==
    /\ signer.up /\ signer.pc = "ran" /\ signer.ch \in folder
    /\ \E r \in {q \in signer.batch : q[2] = signer.req[2]} :
         resps' = [resps EXCEPT ![r] = [HeldAnswer EXCEPT !.aad[3] = r]]
    /\ signer' = [signer EXCEPT !.pc = "done"]
    /\ UNCHANGED <<hostVars, reqs, store, cmd, used, history>>

\* The answer is written by rename; a failure is ignored.
WriteResponse ==
    /\ signer.up /\ signer.pc = "ran"
    /\ \/ /\ signer.ch \in folder
          /\ resps' = [resps EXCEPT ![signer.req] = HeldAnswer]
          /\ used' = used
       \/ /\ signer.ch \notin folder
          /\ UNCHANGED <<resps, used>>
       \/ /\ signer.ch \in folder /\ used.mishaps < MaxMishaps
          /\ used' = [used EXCEPT !.mishaps = @ + 1]
          /\ resps' = resps
    /\ signer' = [signer EXCEPT !.pc = "done"]
    /\ UNCHANGED <<hostVars, reqs, store, cmd, history>>

\* The request is removed whatever became of it; a failed removal is ignored.
RemoveRequest ==
    /\ signer.up /\ signer.pc = "done"
    /\ \/ reqs' = reqs \ {signer.req} /\ used' = used
       \/ /\ signer.req \in reqs /\ used.mishaps < MaxMishaps
          /\ used' = [used EXCEPT !.mishaps = @ + 1]
          /\ reqs' = reqs
    /\ signer' = NextRequest(signer, signer.req)
    /\ UNCHANGED <<hostVars, resps, store, cmd, history>>

\* launchd may stop the daemon at any point, and starts it again.
SignerStops ==
    /\ signer.up /\ used.mishaps < MaxMishaps
    /\ used' = [used EXCEPT !.mishaps = @ + 1]
    /\ signer' = Down
    /\ UNCHANGED <<hostVars, files, store, cmd, history>>

-----------------------------------------------------------------------------
(* The administrator. *)

\* provision_core: refused for a registered id, otherwise the folders, a new
\* secret and the registry entry.
ProvisionCore(c) ==
    /\ registry[c] = 0 /\ used.provisions < MaxProvisions
    /\ LET s == used.provisions + 1
       IN  /\ registry' = [registry EXCEPT ![c] = s]
           /\ secret' = [secret EXCEPT ![c] = s]
           /\ used' = [used EXCEPT !.provisions = s]
    /\ folder' = folder \cup {c}

\* launchctl kickstart -k kills the daemon, or does nothing: best effort.
KickstartHostSigner == signer' \in {signer, Down}

\* The command provisions, then has the daemon read the registry again.
Provision(c) ==
    /\ ProvisionCore(c) /\ KickstartHostSigner
    /\ UNCHANGED <<files, pinFile, store, cmd, history>>

\* remove --force: the registry first, then the folder with every file in it,
\* the secret and the pin, each removal best effort.  The daemon is not told.
Remove(c) ==
    /\ registry[c] # 0
    /\ registry' = [registry EXCEPT ![c] = 0]
    /\ secret' = [secret EXCEPT ![c] = 0]
    /\ folder' = folder \ {c}
    /\ reqs' = {r \in reqs : ChannelOf(r) # c}
    /\ resps' = [r \in Requests |-> IF ChannelOf(r) = c THEN NoFile ELSE resps[r]]
    /\ \/ pinFile' = [pinFile EXCEPT ![c] = NoHandle] /\ used' = used
       \/ /\ used.mishaps < MaxMishaps
          /\ used' = [used EXCEPT !.mishaps = @ + 1]
          /\ pinFile' = pinFile
    /\ UNCHANGED <<store, signer, cmd, history>>

\* The container and its folder are deleted, the registry entry stays.
FolderLost(c) ==
    /\ c \in folder /\ used.mishaps < MaxMishaps
    /\ used' = [used EXCEPT !.mishaps = @ + 1]
    /\ folder' = folder \ {c}
    /\ reqs' = {r \in reqs : ChannelOf(r) # c}
    /\ resps' = [r \in Requests |-> IF ChannelOf(r) = c THEN NoFile ELSE resps[r]]
    /\ UNCHANGED <<registry, secret, pinFile, store, signer, cmd, history>>

-----------------------------------------------------------------------------
(* A command in a container. *)

Idle == [phase |-> "idle", sec |-> 0,
         call |-> [op |-> "identity"], out |-> Err("none")]

Finished(k, out) == cmd' = [cmd EXCEPT ![k].phase = "over", ![k].out = out]

\* Mutant: only the answer is removed.
CleanUpAnswer(r, sent) ==
    /\ resps' = [resps EXCEPT ![r] = NoFile]
    /\ reqs' = reqs \cup sent
    /\ UNCHANGED used

\* cleanup: the answer first, then the request; a failed removal of either is
\* ignored.  sent is what the command writes next.
CleanUp(r, sent) ==
    \/ /\ resps' = [resps EXCEPT ![r] = NoFile]
       /\ reqs' = (reqs \ {r}) \cup sent
       /\ UNCHANGED used
    \/ /\ used.mishaps < MaxMishaps /\ resps[r] # NoFile
       /\ used' = [used EXCEPT !.mishaps = @ + 1]
       /\ reqs' = (reqs \ {r}) \cup sent
       /\ UNCHANGED resps
    \/ /\ used.mishaps < MaxMishaps /\ r \in reqs
       /\ used' = [used EXCEPT !.mishaps = @ + 1, !.kept = @ \cup {r}]
       /\ resps' = [resps EXCEPT ![r] = NoFile]
       /\ reqs' = reqs \cup sent

\* host_delegation, then the identity request of verify_channel_identity.
Begin(k, call) ==
    /\ cmd[k].phase = "idle"
    /\ secret[Wired[k]] # 0 /\ Wired[k] \in folder
    /\ cmd' = [cmd EXCEPT ![k] = [Idle EXCEPT !.phase = "identity",
                                    !.sec = secret[Wired[k]], !.call = call]]
    /\ reqs' = reqs \cup {<<k, "identity">>}
    /\ UNCHANGED <<hostVars, resps, store, signer, used, history>>

\* await_response: an answer that does not open is as good as none.
Answered(k, kind) ==
    /\ cmd[k].phase = kind
    /\ resps[<<k, kind>>] # NoFile
    /\ Opens(resps[<<k, kind>>], cmd[k].sec, Aad("response", Wired[k], <<k, kind>>))

\* check_identity_match: a pin that is not the asserted handle stops the
\* command.
IdentityRefused(pinned, asserted) ==
    pinned # NoHandle /\ asserted # NoHandle /\ pinned # asserted

\* The identity answer is read, and the operation itself is sent.
GetIdentity(k) ==
    /\ Answered(k, "identity")
    /\ LET r == <<k, "identity">>
       IN  IF IdentityRefused(resps[r].body.val, Asserted[Wired[k]])
           THEN Finished(k, Err("identity_mismatch")) /\ CleanUp(r, {})
           ELSE /\ cmd' = [cmd EXCEPT ![k].phase = "op"]
                /\ CleanUp(r, {<<k, "op">>})
    /\ UNCHANGED <<hostVars, store, signer, history>>

\* cli_error_from_wire: the codes the client knows keep their name.
WireCode(code) ==
    IF code \in {"key_already_exists", "key_not_found", "unsupported_algorithm",
                 "invalid_arguments", "invalid_data", "unsupported_platform",
                 "authorization_denied"}
    THEN code ELSE "generic"

\* Every method of the delegated store sends one operation and returns its
\* result, or the error the wire names.
FromWire(res) == IF res.ok THEN res ELSE Err(WireCode(res.val))

GetAnswer(k) ==
    /\ Answered(k, "op")
    /\ Finished(k, FromWire(resps[<<k, "op">>].body))
    /\ CleanUp(<<k, "op">>, {})
    /\ UNCHANGED <<hostVars, store, signer, history>>

\* After OP_TIMEOUT the files are removed and the command fails; an answer that
\* arrives between the last read and the clock check is thrown away.
Timeout(k) ==
    /\ cmd[k].phase \in {"identity", "op"}
    /\ Finished(k, Err("timeout"))
    /\ CleanUp(<<k, cmd[k].phase>>, {})
    /\ UNCHANGED <<hostVars, store, signer, history>>

\* A killed client leaves its files behind.  So does await_response when the
\* answer is there but cannot be read: it returns without the clean-up.
Killed(k) ==
    /\ cmd[k].phase \in {"identity", "op"} /\ used.mishaps < MaxMishaps
    /\ used' = [used EXCEPT !.mishaps = @ + 1]
    /\ Finished(k, Err("killed"))
    /\ UNCHANGED <<hostVars, files, store, signer, history>>

\* send of the operation fails: the command has cleaned up after the identity
\* request and leaves no other.
SendFails(k) ==
    /\ Answered(k, "identity") /\ used.mishaps < MaxMishaps
    /\ used' = [used EXCEPT !.mishaps = @ + 1]
    /\ Finished(k, Err("unsent"))
    /\ resps' = [resps EXCEPT ![<<k, "identity">>] = NoFile]
    /\ reqs' = reqs \ {<<k, "identity">>}
    /\ UNCHANGED <<hostVars, store, signer, history>>

-----------------------------------------------------------------------------
Init ==
    /\ registry = [c \in Channels |-> 0]
    /\ secret = [c \in Channels |-> 0]
    /\ folder = {} /\ reqs = {} /\ resps = [r \in Requests |-> NoFile]
    /\ pinFile = [c \in Channels |-> NoHandle]
    /\ store \in [tier : {"secure_enclave"}, locked : {FALSE}, pq : {HasPq},
                  k3 : {{}}, keys : {{}}]
    /\ signer = Down
    /\ cmd = [k \in Cmds |-> Idle]
    /\ used = [provisions |-> 0, mishaps |-> 0, kept |-> {}]
    /\ age = [r \in Requests |-> 0] /\ ran = [k \in Cmds |-> {}]

SignerStep ==
    \/ Refuse
    \/ \E locked \in BOOLEAN : Process(locked)
    \/ PersistPin \/ WriteResponse \/ RemoveRequest
    \/ \E c \in Channels : PollFolder(c) \/ PollMissing(c) \/ PollFails(c)
    \/ \E r \in Requests : ReadRequest(r)

ClientStep(k) ==
    \/ \E call \in Calls[k] : Begin(k, call)
    \/ GetIdentity(k) \/ GetAnswer(k) \/ Timeout(k) \/ Killed(k) \/ SendFails(k)

Next ==
    \/ StartSigner \/ SignerStep \/ SignerStops
    \/ \E c \in Channels : Provision(c) \/ Remove(c) \/ FolderLost(c)
    \/ \E k \in Cmds : ClientStep(k)

\* launchd keeps the daemon alive and its loop never waits on anything.
Fairness == WF_vars(StartSigner) /\ WF_vars(SignerStep)

Spec == Init /\ [][Next]_vars /\ Fairness

-----------------------------------------------------------------------------
\* Types of everything the daemon, the containers and the folders hold.
TypeOK ==
    /\ registry \in [Channels -> {0} \cup Secrets]
    /\ secret \in [Channels -> {0} \cup Secrets]
    /\ folder \subseteq Channels /\ reqs \subseteq Requests
    /\ \A r \in Requests : resps[r].sec \in {0} \cup Secrets
    /\ pinFile \in [Channels -> Handles \cup {NoHandle}]
    /\ store.keys \subseteq Labels
    /\ signer.serving \subseteq Channels /\ signer.left \subseteq Channels
    /\ signer.pc \in Steps /\ signer.batch \subseteq Requests
    /\ signer.pin \in [Channels -> Handles \cup {NoHandle}]
    /\ \A c \in Channels : Len(signer.window[c]) <= Window
    /\ \A k \in Cmds : /\ cmd[k].phase \in {"idle", "identity", "op", "over"}
                       /\ cmd[k].call.op \in WireOps

\* This step runs request r.
Runs(r) ==
    signer.pc = "read" /\ signer.req = r /\ signer'.pc \in {"pinning", "ran"}

\* The replay guard runs a request twice in one life of the daemon only after
\* Window other requests of the same channel went by in between: a .req file
\* whose removal failed is read again by every later poll and must not sign,
\* create or delete again (ReplayGuard::check_and_record, poll_once).
ReplayWindow == [][Runs(signer.req) => age[signer.req] \notin 1 .. Window]_vars

\* The state file of a served channel names no other handle than the daemon
\* serves it as.
PinAgrees ==
    \A c \in signer.serving : pinFile[c] # NoHandle => pinFile[c] = signer.pin[c]

\* Once a handle has reached the pin file, the channel is served as that handle
\* and as no other until it is removed, through any stops, restarts, evictions
\* and late writes of the pin (ChannelState::load, handle, persist).  A stop
\* before the write leaves no pin, and the next life may bind another handle.
PinLasts ==
    [][\A c \in Channels :
          pinFile[c] # NoHandle /\ registry'[c] # 0 =>
            /\ pinFile'[c] = pinFile[c]
            /\ c \in signer'.serving => signer'.pin[c] = pinFile[c]]_vars

\* The errors a command reports without an answer to its operation.
NotRun == {"timeout", "killed", "unsent", "identity_mismatch"}

\* What a command reports is what a run of its own request returned: an answer
\* never comes from another command's request, even when ids are reused after
\* a removal and the folder holds leftovers (open_response binds the answer to
\* the request's id and secret).
AnswerFromOwnRun ==
    \A k \in Cmds :
      cmd[k].phase = "over"
      /\ (cmd[k].out.ok \/ cmd[k].out.val \notin NotRun) =>
        \E res \in ran[k] : FromWire(res) = cmd[k].out

\* After a command reported a time-out its operation runs only if the daemon
\* had already read the request, of which it holds at most one, or if the file
\* could not be removed: the clean-up of await_response keeps every other
\* request from lingering, whatever the daemon was doing at the time.
TimedOutNotRunLater ==
    [][\A k \in Cmds :
          Runs(<<k, "op">>) /\ cmd[k].phase = "over" /\ ~cmd[k].out.ok
          /\ cmd[k].out.val = "timeout" =>
            <<k, "op">> \notin reqs \/ <<k, "op">> \in used.kept]_vars

\* The folders of the served channels are clean again and again: every request
\* is answered, refused, or withdrawn by its client, and its file is gone,
\* although a stop, a failed removal or a killed client leaves files behind
\* (poll_once removes the request on every path and lists the folder anew).
RequestsDrain ==
    []<>(\A r \in reqs : signer.up /\ ChannelOf(r) \notin signer.serving)
=============================================================================
