--------------------------- MODULE TransparencyLog --------------------------
(***************************************************************************)
(* The transparency log as its readers see it: what an entry hashes, what  *)
(* a receipt must name, how a served entry is bound to the key asked about *)
(* (anchors.rs bind_leaf), how a proof is held to the published root       *)
(* (commands.rs transparency_verify_once, judge_published_root) and how an *)
(* account watches for keys logged in its name (owner_watch).              *)
(*                                                                         *)
(* The server and the public file are the environment: the log grows, its  *)
(* root is published from time to time, and at most once the server        *)
(* rewrites what it had logged.  The epoch is fixed: crossing one is the   *)
(* subject of EpochAnchors.                                                *)
(***************************************************************************)
EXTENDS Merkle, FiniteSets

CONSTANTS
    Accounts,       \* accounts with keys in the log
    Purposes,       \* the purposes of the keys the model logs
    MaxLines,       \* how often a root is published
    Strangers,      \* entries the server may log with a key their account does not hold
    LogPage         \* entries in one page of the log

VARIABLES
    epoch,          \* the anchored epoch: 1 (account ids) or 2 (indices)
    bound,          \* how far the log grows
    lines,          \* how many roots were published
    log,            \* the server's entries
    lined,          \* the log the newest line of the public roots file is of
    kept,           \* a proof saved to a file, with the line of that moment
    fault,          \* what the server did to what it had logged
    audit           \* the verify and watch commands

logVars == <<epoch, bound, lines, log, lined, kept, fault, audit>>

None == <<"none">>
NoLine == [size |-> 0, root |-> EmptyRoot]
Nobody == "nobody"

-----------------------------------------------------------------------------
(* Keys, accounts and entries. *)

\* A key of purpose u; who holds its private half, and a number apart for one
\* its account does not hold.
KeyOf(a, u) == [of |-> a, purpose |-> u, made |-> "here"]
StrangeKey(a, u) == [of |-> a, purpose |-> u, made |-> "elsewhere"]

\* The fingerprint rule of a purpose: P-256 keys over their SubjectPublicKeyInfo,
\* the others over the raw bytes.
FingerprintFor(u, key) == <<IF u \in {"signing", "kem"} THEN "spki" ELSE "raw", key>>

\* The account's index in a V3 epoch comes from the response's VRF proof under
\* the pinned key; a missing proof or one for another account yields none.
VrfProof(a) == <<"proof", a>>
AccountIndex(a, proof) == IF proof = VrfProof(a) THEN <<"index", a>> ELSE None

\* What a receipt for the account must name: nothing but the account in epoch 1.
IndexUnder(e, a, proof) == IF e = 1 THEN <<"account", a>> ELSE AccountIndex(a, proof)

EntryHashV2(id, account, u, key, prev) == <<"v2", id, account, u, key, prev>>
EntryHashV3(id, index, u, key, prev) == <<"v3", id, index, u, key, prev>>

\* The payload of an epoch's first entry; the sizes and the root of the epoch
\* before are those of EpochAnchors.
EpochPayload(e) == [of |-> Nobody, purpose |-> "epoch", made |-> "epoch"]

OwnerIn(e, a) == IF a = Nobody THEN None ELSE IF e = 1 THEN <<"account", a>> ELSE <<"index", a>>

\* The hashes of a log's entries, each over the one before.
RECURSIVE Leaves(_, _)
Leaves(e, s) ==
    IF s = <<>> THEN <<>>
    ELSE LET before == Leaves(e, Front(s))
             prev == IF before = <<>> THEN None ELSE Last(before)
             x == Last(s)
         IN  Append(before,
                IF e = 1 THEN EntryHashV2(Len(s), OwnerIn(e, x.under), x.key.purpose, x.key, prev)
                         ELSE EntryHashV3(Len(s), OwnerIn(e, x.under), x.key.purpose, x.key, prev))

\* An entry as the server serves it.
ServedEntry(e, s, i) ==
    LET h == Leaves(e, SubSeq(s, 1, i)) IN
    [entry_id |-> i, entry_version |-> e + 1, owner |-> OwnerIn(e, s[i].under),
     purpose |-> s[i].key.purpose, key |-> s[i].key,
     prev |-> IF i = 1 THEN None ELSE h[i - 1], hash |-> h[i],
     fingerprint |-> FingerprintFor(s[i].key.purpose, s[i].key)]

\* A line of the public roots file.
LineOf(e, s) == IF s = <<>> THEN NoLine ELSE [size |-> Len(s), root |-> MerkleRoot(Leaves(e, s))]

Entry(a, key) == [under |-> a, key |-> key]
Genesis(e) == <<Entry(Nobody, EpochPayload(e))>>

-----------------------------------------------------------------------------
(* Binding a served entry to the key asked about. *)

\* Mutant: the leaf is taken as served, whatever its fields hash to.
BindServedLeaf(x, fp, u) == [ok |-> TRUE, leaf |-> x.hash]

\* The leaf recomputed from the served fields, or a refusal; fp and u are None
\* when no key was asked about.
BindLeaf(x, fp, u) ==
    LET recomputed == IF x.entry_version = 2
                      THEN EntryHashV2(x.entry_id, x.owner, x.purpose, x.key, x.prev)
                      ELSE EntryHashV3(x.entry_id, x.owner, x.purpose, x.key, x.prev)
        own == FingerprintFor(x.purpose, x.key)
    IN  [ok |-> /\ x.entry_version \in {2, 3}
                /\ recomputed = x.hash
                /\ x.fingerprint = own
                /\ fp = None \/ fp = own
                /\ u = None \/ u = <<x.purpose>>,
         leaf |-> recomputed]

-----------------------------------------------------------------------------
(* Receipts. *)

\* The receipt the server signs for an entry; a stripped one has lost the
\* post-quantum co-signature on the way.
Receipt(e, x, stripped) ==
    [v |-> e, entry_version |-> e + 1, epoch |-> e, owner |-> OwnerIn(e, x.under),
     purpose |-> x.key.purpose, fingerprint |-> FingerprintFor(x.key.purpose, x.key),
     es256 |-> TRUE, names_pq_key |-> TRUE, mldsa87 |-> ~stripped]

\* The receipt of an epoch with indices: its shape, the epoch and the index.
CheckReceiptIndex(r, e, index) ==
    /\ r.v = 2 /\ r.entry_version = 3
    /\ r.epoch = e
    /\ r.owner = index

\* Mutant: whose key the receipt names is not asked.
VerifyReceiptOfAnyone(r, fp, e, binding, u) ==
    /\ r.fingerprint = fp
    /\ r.purpose = u
    /\ r.es256
    /\ r.names_pq_key => r.mldsa87

\* binding is what the receipt must name: None when an attestation already
\* binds the key (epoch 1), else the account or its index.
VerifyOneReceipt(r, fp, e, binding, u) ==
    /\ r.fingerprint = fp
    /\ CASE binding = None -> TRUE
         [] binding # None /\ e = 1 -> r.owner = binding
         [] OTHER -> CheckReceiptIndex(r, e, binding)
    /\ r.purpose = u
    /\ r.es256
    /\ r.names_pq_key => r.mldsa87

\* The receipts beside an attestation: inline is a function from some of the
\* purposes.  A receipt of another epoch sends the command back to re-anchor.
CheckReceiptEpoch(r, e) == r.epoch = e

VerifyInlineReceipts(inline, attested, e, binding) ==
    IF \E u \in DOMAIN inline :
        \/ ~CheckReceiptEpoch(inline[u], e)
        \/ ~VerifyOneReceipt(inline[u], FingerprintFor(u, attested[u]), e, binding, u)
    THEN "violation"
    ELSE IF DOMAIN inline = {} THEN "absent"
    ELSE IF DOMAIN inline = DOMAIN attested THEN "verified"
    ELSE "partial"

\* A server with a published ML-DSA key must sign its response twice.
EnforceResponseDualSignature(publishesPq, response) ==
    publishesPq => response.mldsa87

-----------------------------------------------------------------------------
(* The owner's watch. *)

Held(a) == {KeyOf(a, u) : u \in Purposes}

\* The scan is the published prefix, entry by entry and under its root; then the
\* keys it carries for the account are compared with those the account holds.
OwnerWatch(scanned, published, index, held) ==
    LET leaf == [i \in DOMAIN scanned |-> BindLeaf(scanned[i], None, None)]
        mine == {i \in DOMAIN scanned : scanned[i].owner = index}
        logged == {scanned[i].key : i \in mine}
    IN  IF \/ Len(scanned) # published.size
           \/ \E i \in DOMAIN scanned :
                \/ scanned[i].entry_id # i \/ scanned[i].entry_version # 3
                \/ ~leaf[i].ok
           \/ MerkleRoot([i \in DOMAIN scanned |-> leaf[i].leaf]) # published.root
        THEN "violation"
        ELSE IF logged \ held # {} THEN "foreign_key"
        ELSE IF held \ logged # {} THEN "not_yet_published"
        ELSE "clean"

-----------------------------------------------------------------------------
(* A proof held to the published root. *)

\* Mutant: a log that has grown is taken for another log.
JudgeGrownRoot(root, size, committed, nodes) ==
    CASE committed = NoLine -> "no_published_root"
      [] committed # NoLine /\ committed.size = size ->
            IF committed.root = root THEN "match" ELSE "root_mismatch_at_same_size"
      [] committed # NoLine /\ committed.size > size -> "log_shrank"
      [] OTHER -> "not_an_extension"

\* The verdict; nodes is the server's consistency proof, used only when the log
\* has grown past the published line.
JudgePublishedRoot(root, size, committed, nodes) ==
    CASE committed = NoLine -> "no_published_root"
      [] committed # NoLine /\ committed.size = size ->
            IF committed.root = root THEN "match" ELSE "root_mismatch_at_same_size"
      [] committed # NoLine /\ committed.size > size -> "log_shrank"
      [] OTHER -> IF VerifyConsistency(committed.size, size, committed.root, root, nodes)
                  THEN "consistent_advance" ELSE "not_an_extension"

\* A proof document: the entry, its path, and the size and root it was taken at.
ProofDoc(s, i) ==
    LET h == Leaves(epoch, s) IN
    [entry |-> ServedEntry(epoch, s, i), size |-> Len(s), root |-> MerkleRoot(h),
     path |-> InclusionProof(h, i - 1)]

Exit(verdict) ==
    CASE verdict \in {"match", "consistent_advance"} -> "valid"
      [] verdict = "no_published_root" -> "unanchored"
      [] OTHER -> "violation"

-----------------------------------------------------------------------------
(* The server and the public file. *)

RECURSIVE InOrder(_)
InOrder(S) == IF S = {} THEN <<>> ELSE LET x == CHOOSE x \in S : TRUE IN <<x>> \o InOrder(S \ {x})

\* The accounts register their keys, in one order.
Registered == InOrder({Entry(a, KeyOf(a, u)) : a \in Accounts, u \in Purposes})

Entries(s) == {s[i] : i \in DOMAIN s}
Strange(s) == {x \in Entries(s) : x.key.made = "elsewhere"}

LogKey ==
    /\ Len(log) < bound
    /\ \E i \in DOMAIN Registered :
        /\ Registered[i] \notin Entries(log)
        /\ \A j \in 1..(i - 1) : Registered[j] \in Entries(log)
        /\ log' = Append(log, Registered[i])
    /\ UNCHANGED <<epoch, bound, lines, lined, kept, fault, audit>>

\* A key its account does not hold, logged under that account or another.
LogStrangeKey(x) ==
    /\ Len(log) < bound
    /\ x \notin Entries(log)
    /\ log' = Append(log, x)
    /\ UNCHANGED <<epoch, bound, lines, lined, kept, fault, audit>>

Publish ==
    /\ Len(log) > Len(lined) /\ lines < MaxLines
    /\ lined' = log /\ lines' = lines + 1
    /\ UNCHANGED <<epoch, bound, log, kept, fault, audit>>

\* The server puts another key in the place of an early entry or of the last, or
\* drops what it logged since.
Rewrite ==
    /\ fault = "none"
    /\ \E i \in {2, Len(log)} \ {1} :
        \/ i <= Len(log) /\ log' = [log EXCEPT ![i].key.made = "elsewhere"] /\ log' # log
        \/ i <= Len(log) /\ log' = SubSeq(log, 1, i - 1)
    /\ fault' = "rewrote"
    /\ UNCHANGED <<epoch, bound, lines, lined, kept, audit>>

\* The server sets out to hide the entries with strange keys: it serves them
\* without their account, or leaves them out of a page.
Mask ==
    /\ fault = "none"
    /\ Strange(log) # {}
    /\ fault' = "masks"
    /\ UNCHANGED <<epoch, bound, lines, log, lined, kept, audit>>

Answered(x) ==
    IF fault = "masks" /\ x.key.made = "elsewhere" THEN [x EXCEPT !.owner = None] ELSE x

\* The pages it may serve of entries from to end.
Pages(from, end) ==
    LET whole == [i \in 1..(end - from + 1) |-> ServedEntry(epoch, log, from + i - 1)] IN
    {[i \in DOMAIN whole |-> Answered(whole[i])]}
        \cup {SelectSeq(whole, LAMBDA x : x.key.made # "elsewhere") : f \in {fault} \cap {"masks"}}

\* Someone keeps a proof in a file, with the line of the day.
SaveProof(i) ==
    /\ kept = <<>> /\ i \in {2, Len(log)}
    /\ lined # <<>>
    /\ \E c \in DOMAIN audit : c.kind \in {"saved", "offline"} /\ audit[c].pc = "start"
    /\ kept' = <<[of |-> log, at |-> i, lined |-> lined]>>
    /\ UNCHANGED <<epoch, bound, lines, log, lined, fault, audit>>

-----------------------------------------------------------------------------
(* transparency verify: the fingerprint form, a saved proof, and a saved proof
   with the line it is to be held to. *)

Over(c, result) == [c EXCEPT !.pc = "over", !.result = result]

\* The anchor files are read before anything that depends on the epoch; a
\* saved proof checked against an explicit line asks no server.
VerifyAnchor(c) ==
    /\ c \in DOMAIN audit
    /\ audit[c].pc = "start" /\ c.kind \in {"fetched", "saved", "offline"}
    /\ c.kind # "fetched" => kept # <<>>
    /\ audit' = [audit EXCEPT ![c].pc = "anchored",
                    ![c].lined = IF c.kind = "offline" THEN kept[1].lined ELSE lined]
    /\ UNCHANGED <<epoch, bound, lines, log, lined, kept, fault>>

\* The proof of entry at of the log of, answered with the entry x: its leaf, its
\* tree, then the published root, which needs the server again only when the log
\* has grown past it.  fp and u are None when no key was asked about.
Judged(a, of, at, x, fp, u) ==
    LET doc == ProofDoc(of, at)
        leaf == BindLeaf(x, fp, u)
        line == LineOf(epoch, a.lined)
        held == [a EXCEPT !.of = of, !.asked = IF fp = None THEN x.fingerprint ELSE fp]
    IN  IF ~leaf.ok THEN Over(held, "violation")
        ELSE IF ~VerifyInclusion(leaf.leaf, x.entry_id - 1, doc.size, doc.path, doc.root)
        THEN Over(held, "signature_invalid")
        ELSE IF line # NoLine /\ line.size < doc.size THEN [held EXCEPT !.pc = "grown"]
        ELSE Over(held, Exit(JudgePublishedRoot(doc.root, doc.size, line, <<>>)))

\* --fingerprint and --purpose: the server proves the entry of that key, or a
\* faulty one proves another; a key not in the log is refused.
VerifyFetched(c) ==
    /\ c \in DOMAIN audit
    /\ audit[c].pc = "anchored" /\ c.kind = "fetched"
    /\ LET key == KeyOf(c.by, "kem")
           at == {i \in DOMAIN log : log[i].key = key}
           answers == IF fault = "masks" THEN DOMAIN log ELSE at
       IN  \/ /\ at = {}
              /\ audit' = [audit EXCEPT ![c] = Over(@, "refused")]
           \/ \E i \in answers :
                audit' = [audit EXCEPT ![c] =
                    Judged(@, log, i, Answered(ServedEntry(epoch, log, i)),
                           FingerprintFor("kem", key), <<"kem">>)]
    /\ UNCHANGED <<epoch, bound, lines, log, lined, kept, fault>>

VerifySaved(c) ==
    /\ c \in DOMAIN audit
    /\ audit[c].pc = "anchored" /\ c.kind \in {"saved", "offline"}
    /\ audit' = [audit EXCEPT ![c] =
            Judged(@, kept[1].of, kept[1].at, ServedEntry(epoch, kept[1].of, kept[1].at), None, None)]
    /\ UNCHANGED <<epoch, bound, lines, log, lined, kept, fault>>

\* The server answers for its present log; one too short has no such proof.
FetchConsistencyNodes(from, to) ==
    IF to <= Len(log) THEN ConsistencyProof(Leaves(epoch, SubSeq(log, 1, to)), from) ELSE <<>>

VerifyGrowth(c) ==
    /\ c \in DOMAIN audit
    /\ audit[c].pc = "grown"
    /\ LET a == audit[c]
           doc == LineOf(epoch, a.of)
       IN audit' = [audit EXCEPT ![c] =
            IF doc.size > Len(log) THEN Over(a, "refused")
            ELSE Over(a, Exit(JudgePublishedRoot(doc.root, doc.size, LineOf(epoch, a.lined),
                                FetchConsistencyNodes(Len(a.lined), doc.size))))]
    /\ UNCHANGED <<epoch, bound, lines, log, lined, kept, fault>>

-----------------------------------------------------------------------------
(* transparency verify --self: the watch of one account. *)

WatchAnchor(c) ==
    /\ c \in DOMAIN audit
    /\ audit[c].pc = "start" /\ c.kind = "watch"
    /\ audit' = [audit EXCEPT ![c] =
            IF epoch = 1 \/ lined = <<>> THEN Over(@, "unanchored")
            ELSE [@ EXCEPT !.pc = "scanning", !.lined = lined]]
    /\ UNCHANGED <<epoch, bound, lines, log, lined, kept, fault>>

\* One page of the published prefix, from the number of entries read so far; the
\* last one brings the verdict, and an empty one is a violation.
WatchPage(c) ==
    /\ c \in DOMAIN audit
    /\ audit[c].pc = "scanning"
    /\ LET a == audit[c]
           size == Len(a.lined)
           next == Len(a.scanned) + 1
           end == Min({size, next + LogPage - 1, Len(log)})
           Verdict(got) == OwnerWatch(got, LineOf(epoch, a.lined), AccountIndex(c.by, VrfProof(c.by)), Held(c.by))
       IN \E page \in IF end < next THEN {<<>>} ELSE Pages(next, end) :
            LET got == a.scanned \o page IN
            audit' = [audit EXCEPT ![c] =
                IF page = <<>> THEN Over([a EXCEPT !.scanned = <<>>], "violation")
                ELSE IF Len(got) < size THEN [a EXCEPT !.scanned = got]
                ELSE Over([a EXCEPT !.scanned = <<>>],
                          IF Verdict(got) = "not_yet_published" THEN "unanchored" ELSE Verdict(got))]
    /\ UNCHANGED <<epoch, bound, lines, log, lined, kept, fault>>

-----------------------------------------------------------------------------
Asleep == [pc |-> "start", lined |-> <<>>, of |-> <<>>, asked |-> None,
           scanned |-> <<>>, result |-> "none"]

\* cast: the epoch, how far the log grows, the fault the server starts with, and
\* the commands that audit the log, each [kind, by].
LogInit(cast, s) ==
    /\ epoch = cast.epoch /\ bound = cast.bound /\ lines = 0
    /\ log = s
    /\ lined = <<>> /\ kept = <<>> /\ fault = cast.fault
    /\ audit = [c \in cast.audits |-> Asleep]

AuditStep ==
    \E c \in DOMAIN audit :
        VerifyAnchor(c) \/ VerifyFetched(c) \/ VerifySaved(c) \/ VerifyGrowth(c) \/ WatchAnchor(c) \/ WatchPage(c)

\* The server moves while a command runs.
LogServer ==
    /\ \E c \in DOMAIN audit : audit[c].pc # "over"
    /\ \/ LogKey
       \/ \E x \in Strangers : LogStrangeKey(x)
       \/ Publish \/ Rewrite \/ Mask
       \/ \E i \in DOMAIN log : SaveProof(i)

-----------------------------------------------------------------------------
\* For every log, the proof built for a position verifies for the entry at that
\* position and for no other; the proof that a prefix was extended verifies for
\* the root of that prefix, and no such proof for any other claim, of the empty
\* and of the whole log included (merkle.rs: the verifiers work from shifting
\* positions, the proofs from recursion on the leaves).  Every log is met before
\* a command begins.
ProofsExact ==
    (lines = 0 /\ \A c \in DOMAIN audit : audit[c].pc = "start") =>
    LET h == Leaves(epoch, log)
        n == Len(h)
        root == MerkleRoot(h)
    IN  /\ \A i, j \in 1..n :
            VerifyInclusion(h[j], i - 1, n, InclusionProof(h, i - 1), root) <=> i = j
        /\ \A made \in 1..(n - 1) :
            LET proof == ConsistencyProof(h, made) IN
            \A m, k \in 0..n :
                LET holds == VerifyConsistency(m, n, MerkleRoot(SubSeq(h, 1, k)), root, proof) IN
                /\ holds => m = k /\ k \in 1..(n - 1)
                /\ made = m /\ m = k => holds

\* A log that only ever grew is never reported as a violation, nor one of the
\* watcher's own keys as foreign, however appends and publications fall between
\* the reads of a command; the one exception is a saved proof held to a line
\* published after it was taken (commands.rs judge_published_root calls that a
\* log that shrank).
HonestLogPasses ==
    \A c \in DOMAIN audit :
        (fault = "none" /\ audit[c].pc = "over") =>
            /\ audit[c].result # "signature_invalid"
            /\ audit[c].result = "violation" =>
                c.kind = "saved" /\ Len(audit[c].lined) > Len(audit[c].of)
            /\ audit[c].result = "foreign_key" =>
                \E x \in Strange(audit[c].lined) : x.under = c.by

\* A verification that passes has seen a log that extends the one the published
\* line was taken from, with the key asked about in it, whatever the server did
\* to its log between the publication and the answer.
ValidMeansExtends ==
    \A c \in DOMAIN audit :
        audit[c].result = "valid" =>
            /\ IsPrefix(audit[c].lined, audit[c].of)
            /\ audit[c].asked \in {FingerprintFor(x.key.purpose, x.key) : x \in Entries(audit[c].of)}

=============================================================================
