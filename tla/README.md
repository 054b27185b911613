# Signet Drive: TLA+ verification project

Signet Drive is an end-to-end encrypted file store. The repository holds a Rust
command-line client (`src/cli`), the crates it rests on (`src/crypto`,
`src/channel`, `src/crypto-wasm`) and a web client (`src/web`). The server is not
part of it: where a module needs the server, it is modelled from how the client
uses it, and those definitions are marked external in `PROJECT.json`.

The client is not one program but a set of processes that meet in files and in
the server: commands run side by side and share a credential file, a state file
and a configuration; two daemons (the broker and the host signer) serve key
operations to agents; transfers run several threads. The modules follow those
meeting points.

## Modules

| Module | Models | State |
|---|---|---|
| `UploadParts` | `upload_parts`, `send_one` (`commands.rs`), `transfer_governor.rs` | channel, producer, workers, rate estimate |
| `UploadLifecycle` | `upload`, `try_resume`, abort and finalize, `upload_state.rs` | server uploads, resume files, processes, the source |
| `Download`, `AtomicReplace` | the multipart path of `download` | files and their names, generations, workers; the abstract replacement of a file |
| `Broker` | `broker.rs`, `garnet_revocation.rs`, grant-status client | clocks, leases, locks, requests |
| `EpochAnchors` | `anchors.rs` and the commands that read under an epoch | public files, served epoch, state file, commands |
| `Keystore` | the operations of `keystore/` by tier | (operators; the store is its users' variable) |
| `HostChannel` | `channel/`, `host_signer.rs`, `host_channel.rs`, `keystore/delegated.rs` | channel folders, registry, pins, daemon, clients |
| `Http` | retries and error mapping of `http.rs` | (operators) |
| `Enroll` | `enroll.rs`, `config.rs`, key selection | key store, enrolments, configuration, processes |
| `Pki` | certificates, tokens and TLS verifiers (`x509.rs`, `garnet_token.rs`, `broker_tls.rs`) | (operators) |
| `BrokerIdentity` | `broker_provision.rs`, `broker_credential.rs`, `broker_transport_key.rs` | enclave labels, broker credential, daemon |
| `AgentCredential` | `garnet.rs`, `garnet_credential.rs`, `garnet_pickup.rs`, `keystore/broker.rs` | grant, credential file, processes; extends `BrokerIdentity` |
| `Merkle` | `merkle.rs`: tree, proofs, verifiers | (operators) |
| `TransparencyLog` | `translog verify` and the owner's watch | log, published lines, audits |
| `KeyWrap` | `wrap.rs`, `hybrid_wrap.rs`, `keywrap.rs`, `hybrid.rs` | (operators, symbolic) |
| `RecipientKeys` | `recipient_verify.rs` | the directory a command is served |
| `Resolver` | `resolve.rs`, `names.rs`, `encname.rs` | a command's position in pages, paths, walks |
| `Drive` | the folder, file and share commands of `commands.rs` | folders, files, wraps, members, invitations, commands |

`Merkle`, `TransparencyLog`, `KeyWrap`, `RecipientKeys`, `Resolver` and `Drive`
form one composition: `RecipientKeys` extends the log and the wraps, `Resolver`
extends it, and `Drive` that. A command resolves a path, verifies keys against the
log, wraps to them, and writes. `HostChannel` and `Enroll` share `Keystore`;
`Enroll` and `AgentCredential` share `Http`.

An `MC` module and a `.cfg` of the same stem instantiate each specification. An
operator introduced by a `Mutant` comment is a plausible slip in the definition
that follows it; it is used by no specification and shows that the property it is
paired with in `PROJECT.json` would notice.

An action is a step between two points where another process, thread or message
can come in: a request and its answer, a file operation, a lock. Everything a
handler does between two such points is one action.

## What each run shows

Sizes are distinct states; each run ends within about two minutes on two cores.

**upload_parts** (401,526). Two workers, a one-slot buffer, five parts: more parts
than workers and buffer hold, so that producer and workers both wait for each
other, with every error path. Success means that every part was delivered
(`ResultComplete`), the attempts in flight at one link event halve the rate once
(`OneHalvingPerEvent`; retries begun later are not judged, see below), and the call
returns (`Termination`).

**lifecycle** (135,939). Two processes run and re-run one command over a source
edited once between runs, with room for two reservations and one fault (failing
call, kill, wanted sweep). Finished files are never mixed; the only record of an
open upload is not dropped by accident; a fully transferred upload is not thrown
away; re-running ends with a finished file.

**download** (115,608). Three workers, three chunks, a refresh budget of three and
one kill, over an earlier file at the target or none. `Download` refines
`AtomicReplace`: the target changes in one step, together with success, and never
otherwise; and every call returns (`Terminates`).

**broker_cut** (2,884,651). One worker, time to 6, server SLAs inside, over and
below the bounds, outages, steps of the server's clock, revocation, restart. A
revoked grant is cut within lease, grace and one attempt (`RevocationCut`).

**broker_pool** (47,096). Two workers race for one grant's lease, its query and
the enclave; a shutdown drains the pool (`ShutdownDrains`).

**anchors_cut** (2,758,904). An honest operator cuts from epoch 1 to 2 and to 3 while
a command writes or verifies an attestation at any moment, with old or unreachable files, receipts that cannot
be read, kills and failing saves. No success mixes epochs (`OneEpochPerCommand`), and
`HonestServerUnalarmed` names the violations that such an operator is reported for.
At the first cut that is only an unread receipt; at a later cut also a sighting that
nobody cleared since before it, and an epoch that moved on once under an attestation
or twice under one command.

**anchors_held** (800,260). A server that stays behind the files and then serves an
epoch with a wrong genesis entry: an ended epoch is not used past the age of the
cache (`EndedEpochNotUsedLong`), and the bound on a disagreement fires
(`DisagreementBounded`).

**host_channel** (468,242). Two commands of one container against the polling
daemon, a removal and a second provision of the same id, one mishap. A replay
window of one and eviction after one missing poll make both limits reachable.
A channel whose handle has reached the pin file is served as that handle until it is
removed, through stops, restarts, evictions and late writes (`PinLasts`); an answer is
that of the command's own operation (`AnswerFromOwnRun`); a request is not run again
within the window (`ReplayWindow`), nor after its client timed out, unless the daemon
had read it already or its file could not be removed (`TimedOutNotRunLater`); and the
folder drains (`RequestsDrain`).

**enroll** (261,155). Two processes, each an enrolment, a signed command, keygen or
`keys delete`, against two enrolments of the guardian, with one mishap. Failures
clean up (`FailureLeavesNoKey`), success is usable unless `keys delete` ran, runs
or was killed half-way (`EnrolledIsUsable`), and every enrolment ends
(`EnrollEnds`).

**enroll_again** (violation). A PRSN with classical keys enrols again: keygen
refuses because the key exists, and the clean-up deletes the old keys, although
the comment says it cleans up the just-generated ones (`enroll.rs:183`).

**agent_credential** (422,232). Two commands sharing one credential file, or one
using the broker twice while the broker is provisioned anew, with one event
(clock jump, lost answer, kill, pause, failed open or write, daemon death). Both
credential files are saved in place: opening truncates, so a kill or a failed write
leaves a torn file, which every later load refuses. The times a jump may reach are
those at which the code decides differently. Tokens stay bound
to their certificate (`TokenBoundToCert`); an operation is performed at most once
(`AtMostOnce`); a command left alone reaches the broker whatever whole credential the
file holds, short of a pause, an unserved key or an expired certificate, and only a
file torn before it began stops it earlier (`AloneItWorks`); the key that a whole
broker credential names, and the one the server has registered, survive the sweep
(`NamedKeyKept`); and a pickup follows a refused token, an answer that access is
paused, or a changed broker key (`RepickupEarned`).

**shared_drive** (143,878). Casts of up to three commands of three accounts, chosen
so that every pair of operations that read and write the same state meets:
invitations beside uploads, moves, cancellations and repeated requests; members
that leave; lists and paths over a changing tree; a directory or a log that
misbehaves; audits over a log that grows, is published, masked or rewritten. Reads of
metadata keys may fail, and an id may be given with the root of another tree. Pages
hold one entry (two for the log), so that every list is read in several requests.

- `ProofsExact` compares the Merkle verifiers with the definition over every log of
  the audits' sizes, powers of two and others, for every pair of sizes, the empty and
  the whole tree included. `HonestLogPasses` and `ValidMeansExtends` say what a verdict
  on the log means, the owner's watch included: an honest log raises no foreign key.
- Members can open what they share (`RecipientsOpen`).
- A name is bound to the root it lies under (`NamesReadable`), unless it was written for
  an id with a `--root-folder-id` of another tree.
- A path means one entry (`PathMeansOne`). When a key read failed, the command may miss
  an entry or take one of several, but never one the path does not stand for.
- A wrap to a key its account does not hold, human or PRSN, is made only for a key
  logged under that account's index. The account's watch over a published log that
  holds one does not end well, even if the server masks entries or leaves them out of
  a page (`SubstitutionVisible`). Writers check receipts, not inclusion: that a receipt
  is signed only for a logged entry is the server's promise, and assumed.

`TypeOK` is an invariant of five of the runs. It is proved for every specification
but `Drive`.

## Bounds

| Run | Bounds |
|---|---|
| upload_parts | 5 parts, 2 workers, prepare-ahead 2 (one slot), 2 attempts |
| lifecycle | 2 processes, 4 uploads, 2 parts, quota 2, 1 fault, 1 edit |
| download | 1 process, 3 threads, 3 chunks, refresh budget 3, 1 kill |
| broker_cut | 1 worker, 1 grant, lease 2, grace 1, token expiry 2 or 9, time 6 |
| broker_pool | 2 workers, time 2 |
| anchors_cut | 3 epochs, bound 2, cache age 1, horizon 2, commands that write or verify an attestation |
| anchors_held | 2 epochs, bound 2, cache age 2, horizon 5, wrong genesis in epoch 2, commands that write, check themselves or verify |
| host_channel | 2 commands, 1 channel, 2 provisions, window 1, eviction after 1, 1 mishap |
| enroll | 2 processes, 2 codes, 1 retry, 1 mishap |
| agent_credential | 2 processes at a time, 1 event, time 5, certificate validity 4, token 1 |
| shared_drive | 3 accounts, 3 processes, page size 1 (log: 2), logs of up to 6 entries |

Every bound is a constant, named where it is declared. Where faults are counted
the limit is one: the properties are about what a single fault does to steps that
are each correct alone, and every interleaving around it is explored; two faults
in one behaviour are not. Clocks run long enough for lease, grace, cache age and
transition bound to run out before the horizon; in `anchors_cut` the
bound runs out just at the horizon. `CHECK_DEADLOCK FALSE` is set
where all commands may end; the other specifications state their ends as actions
(`Returned`, `AllDone`) or have none.

## Fairness

- Threads of a transfer, workers of the broker and enrolments: weak fairness per
  process or thread. The scheduler runs them, and every wait in the code has a
  timeout, so that an answer or its failure is a step of the process.
- The host signer is restarted by launchd and polls for ever: weak fairness of its
  start and its step. The broker's restart carries no fairness.
- Re-running a failed upload is assumed in `lifecycle` (weak fairness of `Start`),
  as is the server's sweep of abandoned uploads nobody holds.
- `EpochAnchors`, `AgentCredential` and `Drive` assume no fairness; only safety is
  checked of them.

## Proofs

TLAPS proves, for every value of the constants under the assumptions named in the
modules:

| Module | Theorems | Inductive invariant |
|---|---|---|
| `UploadPartsProofs` | types, `PartsExactlyOnce`, `ResultComplete`, `MemoryBound`, `OneHalvingPerEvent` | `IInv`: who holds each part (custody), what the control state of producer and workers implies, and that without an error no part is lost; `StampInv`: a part in flight carries a generation of the estimate that is not ahead of the present one, and behind it if the estimate was halved meanwhile |
| `UploadLifecycleProofs` | types, `NotForgotten`, `PreservedStays`, `CompletedWhole`; of `KeyWrap`: a hybrid wrap opens for exactly the pair and the root it was made for, and rewrapping keeps the key | `PhaseInv`: what each phase of a run knows about its upload; `ContentInv`: the parts a run lists, those it resumes from and those a record stands for are of one version of the source |
| `DownloadProofs` | types, `NoRefetch`, `CompletenessHolds`, `GiveUpJustified`; for one process `OutComplete`, `NoPartLeft` and the refinement of `AtomicReplace` | `WorkInv` (a fetched chunk is neither planned nor written), `FlowInv` (each chunk is written, planned or held), `CountInv`, `GiveInv` (rejections against the budget counter); `SoloInv`: the temporary is the process's own and holds exactly the completed chunks |
| `BrokerProofs` | types, `LocksHeld`, `RevocationCut`, `ReachableCut`, `TokenNeverRevived` | `CutInv`: a confirm or an affirmative in hand was true when the server spoke; `TokenInv`: trusted time is not ahead of the server and not behind what was refused |
| `EpochAnchorsProofs` | types, `OnlyPublishedEpochs`, `EndedEpochNotUsedLong`, `OneEpochPerCommand`; for one process `LastingBounded`, `DisagreementBounded`, `HighestKept`; of an honest operator `AlarmExplained` and, for one process, `HonestServerUnalarmed` | `PublishedInv`: every memory, in file, temporary or process, is good; `FreshInv`: what a memory's files cannot know ended recently; `BundleInv`: a command that asks has a bundle of the anchored epoch; `NotedInv`: the state file has sighted every noted disagreement no later than it was noted, through every save; `RatchetInv`: the ratchet is not ahead of the epoch a command was served; `HonestInv`: a sighting is no older than the lines of the cut that explain it, and what a command was served is as recent while it anchors |
| `HostChannelProofs` | types, `PinLasts`, `AnswerFromOwnRun`, `ReplayWindow`, `TimedOutNotRunLater` | `SafeInv`: the request in the daemon's hands is in the listing of the channel it polls (`LoopInv`), a request that ran recently is in the guard's window at the place its age says (`WindowInv`), an answer in hand or in a file came from a run of that operation (`AnswerInv`), and a command that gave up has no request in the folder (`Withdrawn`) |
| `EnrollProofs` | types, `FailureLeavesNoKey`, `EnrolledIsUsable` | `FailInv`: the keys a process made are of its own handle, and its clean-up has removed those it is past; `UseInv`: unless keys were deleted, the keys a process has generated are in the store and, once submitted, are those the server has for its enrolment |
| `AgentCredentialProofs` | types, `TokenBoundToCert`, `AtMostOnce`, `RepickupEarned`, `AloneItWorks`, `NamedKeyKept` | `CredInv`: what each phase of a command has in hand, what it has performed and which of its retries are spent; `AloneInv`: what a pickup or a renewal gave a command nobody disturbed still fits; `NamedInv`: a provision's new key is in the enclave, and its sweep spares it |

The invariants the runs check are not inductive by themselves. `RevocationCut`
for instance bounds a decision; that it holds depends on when the confirm it rests
on was asked for, which only `CutInv` remembers while the answer is on its way.
`FailureLeavesNoKey` looks at a finished process; that its keys are gone depends on
each deletion of a loop that other processes interrupt, which `FailInv` follows.

The two largest proof modules take the library's facts on cardinality last, through a
named instance: their lemmas assume what they need of it (`Counted`, `OneCounted`), and
`ProvsFinite` and `CardOne` prove that before the theorems use it, so that no theorem
has it as a hypothesis.

Proved for every number of processes, channels, parts and faults, these results
lift the bounds of the runs, the limit of one fault included. The assumptions beside
the types of the constants:

- `CompletedWhole`: `SignatureTells`, an edit comes more than a second after the last
  run or every chunk is covered by the content anchor. Without it the property fails
  (below).
- `OutComplete`, `NoPartLeft` and the refinement: one process per target.
- `DisagreementBounded`: one process, because two can overwrite each other's
  sightings; and an anchor host that answers, because a reading without files counts
  epoch 1 as legacy and `update_state` forgets its sighting. `LastingBounded` is the
  part that holds of later epochs when the host is unreachable at times.
- `HonestServerUnalarmed`: `HonestOperator`, the published keys and genesis entries,
  the window of a cut and the span of an anchoring together within the transition
  bound, and files no older than the bound; any number of cuts; and one process. With
  two processes a command that has read server-info before a cut may load a memory
  that knows the next epoch already: `AlarmExplained` adds that cause, and no other,
  for any number of processes.
- `HighestKept`: one process (below).
- `EnrolledIsUsable`: one enrolment per handle (`OneCodePerHandle`). With two at once
  the clean-up of the one that fails deletes the keys of the other.
- `NamedKeyKept`: no two provisions at once (`[]OneAtATime`); the code holds no lock.
- `TokenNeverRevived` assumes nothing of the server's clock; it says what a step back
  of it can do.
- `CallsAssumption` (host channel): the calls of a command are operations of a key
  store. `EnrollAssumption` and `AgentAssumption` keep names apart.

26 of these properties are checked by a run as well (the type invariants of four
specifications among them). The others are carried by their proofs alone.

Only model-checked:

- all liveness (fairness and ENABLED are outside the prover): `Termination`,
  `EventuallyUploaded`, `Terminates`, `ShutdownDrains`, `RequestsDrain`, `EnrollEnds`;
- the properties of the shared drive: its modules rest on `Merkle`, whose tree is a
  recursive operator.

## Modelled, but without a property

The actions are there, and their effect on the properties above is checked, but no
property is stated of their own result: what a list shows, the deduplicated name
of an upload, the algorithm of
new wraps, the order of the parts handed to `complete`, the default identity an
enrolment records, the handle a signed command acts as, the success message of
`broker provision`, which roles the broker's TLS admits, how a pin comes about,
and that commands of the agent and of the drive end.

## Abstractions worth knowing

- Hashes, signatures, key derivation, AES-KW and VRF outputs are symbolic: a
  derived value is the tuple of what it was derived from.
- `UploadLifecycle`: the source is edited only while no run reads it, and edits are
  more than a second apart. A geometry that differs at resume is possible only in
  a malformed answer and counts as a fault.
- `Download`: one process per target. `TempFileGuard`'s removal succeeds. The rename,
  the disarming of the guard and the return are one step.
- `Broker`: `RevocationCut` bounds the decision to serve; the operation may wait for
  the enclave lock after it. On macOS `Instant` does not advance during sleep, so
  a lease measured in it does not either; the model's clock has no sleep.
- `EpochAnchors`: one origin and repository, a monotone clock. A torn write of the
  shared temporary is not modelled.
- `HostChannel`: removing a folder succeeds; removing one file may fail. Provisions do
  not overlap.
- `Enroll`: the terminal states of an enrolment are one.
- `AgentCredential`: one handle, the Secure Enclave home of the broker's key only;
  the broker's certificate does not expire within the horizon.
- `TransparencyLog`: `transparency verify` against a root given by hand
  (`commands.rs:1943`) and its branch for a retired epoch (`commands.rs:1876`) are left
  out.
- `Drive`: whether the server completes an upload under a share's lock is left
  open. Metadata keys of a page's roots are
  read in one step after the last page.

## Where code, comments and expectations part

Met while modelling. The first is a run. For the next four the named property
fails when the constants are changed as described. The others were found by
reading the code for the model, and most lie outside what a run covers.

- Re-enrolment: `enroll_again` above.
- A middle chunk edited within the same second resumes onto old parts: the content
  anchor hashes the first and last chunk only (`upload_state.rs:145`, "hashing the
  bytes closes it"). `CompletedWhole` fails with `EditBumpsMtime = FALSE` and four
  parts.
- Two downloads to one path share one temporary: `OutComplete` fails for two
  processes (`commands.rs`, `download_temp_path`).
- Two processes saving the anchor state can lower the highest epoch it records:
  `[][file'.highest >= file.highest]_vars` fails for two processes of
  `EpochAnchors` (`anchors.rs`, `load_state` and `save_state`); for one it is proved
  (`RatchetKept`).
- Two enrolments of one handle at once: the clean-up of the one that fails deletes the
  keys the other has had attested; `EnrolledIsUsable` fails when two codes name one
  handle (`enroll.rs`, `cleanup_keys`).
- At `prepare_ahead` 0 one more chunk is in memory than the comment of
  `upload_parts` counts; `MemoryBound` states the bound that holds.
- The rate estimate's generation is stamped per part, not per attempt
  (`transfer_governor.rs:194`, "each retry re-stamps"): a retry begun after a halving
  keeps its first stamp, and its own stall does not halve again.
- The broker's trusted-time floor keeps the time of a confirm and forgets the age
  counted since. A server clock stepped back revives a token that expired within that
  age (`garnet_revocation.rs:35`: "neither ... nor a server clock step can revive an
  expired token"). `TokenNeverRevived` states what holds.
- An honest operator is not always unalarmed. A receipt that cannot be read counts as
  a violation, and so does an attestation that meets a cut after the first: its answer
  of the later epoch is not re-anchored on, although the comment at `commands.rs:1069`
  has every later answer re-anchored.
- A request that timed out stays when its removal fails, and may still run: the error
  is ignored (`transport.rs:91`, "removes the request (so it can't linger").
- A finalize that took effect but whose answer was lost ends in a second copy.
- A stop between a keygen and the write of its pin leaves the channel unpinned
  (`main.rs:1005`: "an abrupt stop loses nothing").
- A kill between the server's issue of a certificate and the save leaves a cut
  certificate in the file (`garnet.rs:328`: "never a cut cert with nothing held"); the
  next command recovers by a pickup. The save itself is in place
  (`garnet_credential.rs:249`): cut short, it leaves a file that no command can parse,
  no command picks up again by itself, and only `garnet pickup` replaces. The broker's
  credential is saved the same way (`broker_credential.rs:393`); torn, it is replaced by
  the next `broker provision`.
- Recovery by pickup follows `access_paused`, which the broker also answers when it
  cannot reach the server: a healthy credential is then replaced.
- A saved inclusion proof older than the published root is reported as a log that
  shrank.
- An invitation's walk misses files that move or appear while it runs, and two
  uploads at once can take one name.
- A metadata key that cannot be read hides the entries under it, so a path that stands
  for several entries can be taken for the one that is left (`resolve.rs:14`:
  "Resolution is never a silent pick").
- `--root-folder-id` given with an id is not compared with the entry's own root; the
  name is then bound to the wrong tree and the members of the right one cannot read it
  (`commands.rs:2944`, `commands.rs:3040`).
- `fetch_paginated` relies on the server's cursor moving on; it has no guard.
- The broker decides before it waits for the enclave lock, so an operation may run
  after its lease; nothing bounds the queue before it.
- Two enrolments that finish together can overwrite each other's default identity,
  and a malformed configuration is read as one without a default (`enroll.rs:461`).
- Two provisions at once: of host channels, one registry entry is lost
  (`host_channel.rs:110`); of the broker, the sweep of one deletes the fresh key of
  the other (`broker_provision.rs:91`).
- Two first uses of the software tier can both write a key-encryption key
  (`software.rs:325`).
- The automatic renewal runs before the asserted handle is compared
  (`keystore/broker.rs:94`).

## Not modelled

- The server. It is external throughout.
- The web client: a second, TypeScript client of the same server. The operations it
  shares with the command line are modelled from the Rust sources; its own
  concurrency (upload batches, server-sent events, service worker) is not.
- `bucket_transport.rs` below the outcome of an attempt: socket polling, stall
  measurement and the connection pool are about bytes and milliseconds.
- Cryptographic primitives and their WebAssembly bindings: computations over bytes.
- The software key store's files, Apple's frameworks and the Swift shim.
- Installer, uninstaller, update, menu bar, status, power assertion, argument
  parsing, output: sequences of operating-system calls and presentation.
- Offline `encrypt`, `decrypt` and `encrypt-name`, `whoami`, quota and audit
  listings: they change no shared state.
- Release, export and verification scripts.
