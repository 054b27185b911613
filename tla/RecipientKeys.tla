---------------------------- MODULE RecipientKeys ---------------------------
(***************************************************************************)
(* The keys something is wrapped to: the account's own pair, and the pair  *)
(* of another account, taken from the server's directory only after the    *)
(* receipts of the log (a human account) or the attestation with its       *)
(* receipts (a PRSN) vouch for it (recipient_verify.rs, commands.rs).      *)
(* The directory is the environment; fault says what is wrong with it.     *)
(***************************************************************************)
EXTENDS TransparencyLog, KeyWrap

CONSTANT Prsns      \* the accounts whose handles end in -ai

IsPrsn(a) == a \in Prsns
Other(a) == CHOOSE b \in Accounts : b # a

Pair(a) == [ec |-> KeyOf(a, "kem"), pq |-> <<KeyOf(a, "kem_pq")>>]

Offered(a, k) ==
    [handle |-> a, type |-> IF IsPrsn(a) THEN "prsn" ELSE "human", account |-> a,
     proof |-> VrfProof(a), epoch |-> epoch,
     ec |-> k, ecfp |-> FingerprintFor("kem", k),
     pq |-> <<KeyOf(a, "kem_pq")>>, pqfp |-> FingerprintFor("kem_pq", KeyOf(a, "kem_pq"))]

\* The directory's answers for account a: its own keys, or a logged key it does
\* not hold; or one not even logged, or an answer with something missing or wrong.
Bundles(a) ==
    LET b == Offered(a, KeyOf(a, "kem")) IN
    CASE fault = "no_pq"    -> {[b EXCEPT !.pq = <<>>, !.pqfp = None]}
      [] fault = "half_pq"  -> {[b EXCEPT !.pqfp = None]}
      [] fault = "no_proof" -> {[b EXCEPT !.proof = None]}
      [] fault = "misnamed" -> {[b EXCEPT !.handle = Other(a)], [b EXCEPT !.type = "other"]}
      [] fault = "unlogged" -> {Offered(a, StrangeKey(a, "kem"))}
      [] fault = "misprint" -> {[b EXCEPT !.ecfp = FingerprintFor("kem", KeyOf(Other(a), "kem"))]}
      [] OTHER -> {b} \cup {Offered(a, x.key) : x \in {y \in Strange(log) : y.key.of = a}}

Keys(ok, b) == [ok |-> ok, keys |-> [ec |-> b.ec, pq |-> b.pq]]

VerifyRecipientKemPub(b) == b.ecfp = FingerprintFor("kem", b.ec)

\* Both halves or nothing: a classical or half-stripped bundle is refused.
VerifyRecipientWrapKeys(b) ==
    /\ VerifyRecipientKemPub(b)
    /\ b.pq # <<>> /\ b.pqfp # None
    /\ b.pqfp = FingerprintFor("kem_pq", b.pq[1])

\* The server key that signs: ES256 alone is never enough.
ActivePqKey == fault # "no_pq_key"
FindKeyById(info, id) == id \in info
KeyById(id) == FindKeyById({"current", "retired"}, id)

IndexFor(b) == IndexUnder(epoch, b.account, b.proof)

\* Each half needs a receipt that names the account; the server may answer with
\* the receipt of any entry of that key.
VerifyAgainstReceipts(b) ==
    LET index == IndexFor(b)
        Vouched(fp, u) ==
            \E x \in Entries(log) :
                /\ x.key.purpose = u /\ FingerprintFor(u, x.key) = fp
                /\ VerifyOneReceipt(Receipt(epoch, x, fault = "stripped"), fp, epoch, index, u)
    IN  /\ index # None
        /\ ActivePqKey
        /\ Vouched(b.ecfp, "kem") /\ Vouched(b.pqfp, "kem_pq")

\* The signed answer about a PRSN's attestation: the server attests whatever
\* KEM key it offers.
Attestation(b) ==
    [subject |-> b.account, handle |-> b.account,
     status |-> IF fault = "revoked" THEN "revoked" ELSE "active",
     keys |-> [u \in Purposes |-> IF u = "kem" THEN b.ec ELSE KeyOf(b.account, u)],
     key_id |-> "current", mldsa87 |-> fault # "stripped"]

\* The receipts beside it: for each key, that of any entry of the key, whoever
\* it is logged under; none for a key that is not logged.
InlineReceipts(att) ==
    LET Of(u) == {Receipt(epoch, x, FALSE) : x \in {y \in Entries(log) : y.key = att.keys[u]}}
        given == {u \in IF fault = "partial" THEN {"kem"} ELSE Purposes : Of(u) # {}}
    IN  {f \in [given -> UNION {Of(u) : u \in given}] : \A u \in given : f[u] \in Of(u)}

VerifyVerificationResponse(att, inline, b) ==
    /\ KeyById(att.key_id)
    /\ EnforceResponseDualSignature(ActivePqKey, att)
    /\ IndexFor(b) # None
    /\ VerifyInlineReceipts(inline, att.keys, epoch, IF epoch = 1 THEN None ELSE IndexFor(b))
            = "verified"

VerifyAgainstAttestation(b) ==
    LET att == Attestation(b) IN
    /\ \E inline \in InlineReceipts(att) : VerifyVerificationResponse(att, inline, b)
    /\ att.status = "active"
    /\ att.subject = b.account /\ att.handle = b.handle
    /\ att.keys["kem"] = b.ec /\ <<att.keys["kem_pq"]>> = b.pq

CheckBundleEpoch(b) == b.epoch = epoch

\* named is <<handle>> when the user typed it, None when the server listed it.
VerifiedWrapKeys(b, named) ==
    Keys(/\ named # None => named = <<b.handle>>
         /\ VerifyRecipientWrapKeys(b)
         /\ (b.type = "prsn") = IsPrsn(b.handle)
         /\ CheckBundleEpoch(b)
         /\ ActivePqKey
         /\ IF IsPrsn(b.handle) THEN VerifyAgainstAttestation(b) ELSE VerifyAgainstReceipts(b), b)

\* The account's own pair: its local keys, the ML-KEM half confirmed by /v1/me.
SelfWrapKeys(a) ==
    LET me == IF fault = "no_pq" THEN <<>> ELSE Pair(a).pq IN
    [ok |-> me # <<>> /\ me = Pair(a).pq, keys |-> Pair(a)]

\* The key of a file, and the metadata key of a root folder, are named by them.
Dek(f) == <<"dek", f>>
MetaKey(root) == <<"mk", root>>

\* Whoever holds a's keys opens a wrap, and gets that key.
OpensDek(a, env, f) == UnwrapDekValue(Pair(a), env) = <<Dek(f)>>
OpensMetaKey(a, env, root) == UnwrapMetadataKeyEnvelope(Pair(a), env, root) = <<MetaKey(root)>>
=============================================================================
