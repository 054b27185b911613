------------------------------ MODULE Keystore ------------------------------
(***************************************************************************)
(* The key store behind every PRSN identity: four keys per handle, each    *)
(* found by its label "<handle>-<purpose>", kept by the Secure Enclave or, *)
(* on the software tier, in sealed files.  A store is a record             *)
(*   [tier, locked, pq, k3, keys]                                          *)
(* where locked says that the keychain refuses to answer (the Mac's screen *)
(* is locked), pq that the enclave has post-quantum keys (macOS 26), k3    *)
(* the broker's own transport keys, which share the keychain but have      *)
(* labels no PRSN can have, and keys the labels that exist.  An operation  *)
(* that may change the store returns the new store with its result; the    *)
(* others return only a result.                                            *)
(***************************************************************************)
EXTENDS FiniteSets

CONSTANTS Handles

Purposes == {"signing", "kem", "signing_pq", "kem_pq"}

Labels == [handle : Handles, purpose : Purposes]

\* A label text that names no purpose, or whose handle is not a PRSN handle.
Unparsable == [handle |-> "-", purpose |-> "none"]

Ok(v) == [ok |-> TRUE, val |-> v]

Err(code) == [ok |-> FALSE, val |-> code]

\* KeyLabel::parse without an expected purpose: the suffix must be one of the
\* four, and what precedes it a valid handle.
Parse(label) == IF label \in Labels THEN Ok(label) ELSE Err("invalid_arguments")

\* The algorithm each purpose has when none is named.
DefaultAlg(purpose) ==
    CASE purpose = "signing"    -> "ES256"
      [] purpose = "kem"        -> "ECDH-ES+A256KW"
      [] purpose = "signing_pq" -> "ML-DSA-87"
      [] purpose = "kem_pq"     -> "ML-KEM-1024"

IsPq(l) == l.purpose \in {"signing_pq", "kem_pq"}

Same(st, res) == [store |-> st, res |-> res]

-----------------------------------------------------------------------------
(* The Secure Enclave tier. *)

\* An elliptic key is looked up in the keychain by its label.
SeFind(st, l) ==
    IF st.locked THEN Err("se_locked") ELSE Ok(l \in st.keys)

\* A post-quantum key is a generic-password item holding the enclave's blob.
PqBlobFind(st, l) ==
    IF st.locked THEN Err("se_locked") ELSE Ok(l \in st.keys)

SeExists(st, l) == IF IsPq(l) THEN PqBlobFind(st, l) ELSE SeFind(st, l)

PqBlobStore(st, l) == [st EXCEPT !.keys = @ \cup {l}]

PqBlobDelete(st, l) == [st EXCEPT !.keys = @ \ {l}]

\* A keygen of an existing label is refused: no operation replaces a key.
Minted(st, here, new) ==
    IF ~here.ok THEN Same(st, here)
    ELSE IF here.val THEN Same(st, Err("key_already_exists"))
    ELSE [store |-> new, res |-> Ok("keygen")]

\* The post-quantum half checks the platform and the algorithm first.
SeGeneratePq(st, l, alg) ==
    IF ~st.pq THEN Same(st, Err("unsupported_platform"))
    ELSE IF alg # DefaultAlg(l.purpose) THEN Same(st, Err("unsupported_algorithm"))
    ELSE Minted(st, PqBlobFind(st, l), PqBlobStore(st, l))

\* The elliptic half records the algorithm it is given and checks nothing.
SeGenerate(st, l, alg) ==
    IF IsPq(l) THEN SeGeneratePq(st, l, alg)
    ELSE Minted(st, SeFind(st, l), [st EXCEPT !.keys = @ \cup {l}])

\* What every use of a key does with the answer of the lookup.
Using(here, res) ==
    IF ~here.ok THEN here ELSE IF ~here.val THEN Err("key_not_found") ELSE Ok(res)

SeMetaPq(st, l) == Using(PqBlobFind(st, l), "meta")

SeMeta(st, l) == IF IsPq(l) THEN SeMetaPq(st, l) ELSE Using(SeFind(st, l), "meta")

SeSign(st, l) ==
    IF l.purpose # "signing" THEN Err("unsupported_algorithm")
    ELSE Using(SeFind(st, l), "sign")

\* The peer's point is read after the key is found.
SeEcdh(st, l, good) ==
    IF l.purpose # "kem" THEN Err("unsupported_algorithm")
    ELSE LET r == Using(SeFind(st, l), "ecdh")
         IN  IF r.ok /\ ~good THEN Err("invalid_data") ELSE r

SeMlKemDecapsulate(st, l) ==
    IF l.purpose # "kem_pq" THEN Err("unsupported_algorithm")
    ELSE Using(PqBlobFind(st, l), "ml_kem_decapsulate")

SeMlDsaSign(st, l) ==
    IF l.purpose # "signing_pq" THEN Err("unsupported_algorithm")
    ELSE Using(PqBlobFind(st, l), "ml_dsa_sign")

PqBlobLabels(st) == {l \in st.keys : IsPq(l)}

\* The list enumerates the elliptic keys first and answers with an empty list
\* when there are none, before it looks at the post-quantum items.  The
\* broker's keys count as elliptic keys here and are then left out, because
\* their labels do not parse.
SeList(st) ==
    LET elliptic == st.keys \ PqBlobLabels(st)
    IN  IF st.locked THEN Err("se_locked")
        ELSE IF elliptic = {} /\ st.k3 = {} THEN Ok({})
        ELSE Ok(elliptic \cup PqBlobLabels(st))

SeDelete(st, l) ==
    LET here == SeExists(st, l)
    IN  IF ~here.ok THEN Same(st, here)
        ELSE IF ~here.val THEN Same(st, Err("key_not_found"))
        ELSE [store |-> IF IsPq(l) THEN PqBlobDelete(st, l)
                        ELSE [st EXCEPT !.keys = @ \ {l}],
              res   |-> Ok("delete")]

-----------------------------------------------------------------------------
(* The software tier: one sealed JSON file per label. *)

SwExists(st, l) == l \in st.keys

\* Every purpose is minted here, with whatever algorithm name was given.
SwGenerate(st, l) ==
    IF SwExists(st, l) THEN Same(st, Err("key_already_exists"))
    ELSE [store |-> [st EXCEPT !.keys = @ \cup {l}], res |-> Ok("keygen")]

ReadStored(st, l) == IF l \in st.keys THEN Ok(l) ELSE Err("key_not_found")

SwUse(st, l, purpose, res) ==
    IF l.purpose # purpose THEN Err("unsupported_algorithm")
    ELSE IF ~ReadStored(st, l).ok THEN ReadStored(st, l) ELSE Ok(res)

SwSign(st, l) == SwUse(st, l, "signing", "sign")

SwEcdh(st, l) == SwUse(st, l, "kem", "ecdh")

SwMlKemDecapsulate(st, l) == SwUse(st, l, "kem_pq", "ml_kem_decapsulate")

SwMlDsaSign(st, l) == SwUse(st, l, "signing_pq", "ml_dsa_sign")

SwDelete(st, l) ==
    IF ~SwExists(st, l) THEN Same(st, Err("key_not_found"))
    ELSE [store |-> [st EXCEPT !.keys = @ \ {l}], res |-> Ok("delete")]

-----------------------------------------------------------------------------
(* What a caller of the Keystore trait sees, whichever tier was opened. *)

Generate(st, l, alg) ==
    IF st.tier = "software" THEN SwGenerate(st, l) ELSE SeGenerate(st, l, alg)

Exists(st, l) ==
    IF st.tier = "software" THEN Ok(SwExists(st, l)) ELSE SeExists(st, l)

Delete(st, l) == IF st.tier = "software" THEN SwDelete(st, l) ELSE SeDelete(st, l)

Meta(st, l) == IF st.tier = "software" THEN ReadStored(st, l) ELSE SeMeta(st, l)

\* The four uses the enrolment's proof of possession makes, one per purpose.
Sign(st, l) == IF st.tier = "software" THEN SwSign(st, l) ELSE SeSign(st, l)

Ecdh(st, l) == IF st.tier = "software" THEN SwEcdh(st, l) ELSE SeEcdh(st, l, TRUE)

MlKemDecapsulate(st, l) ==
    IF st.tier = "software" THEN SwMlKemDecapsulate(st, l) ELSE SeMlKemDecapsulate(st, l)

MlDsaSign(st, l) ==
    IF st.tier = "software" THEN SwMlDsaSign(st, l) ELSE SeMlDsaSign(st, l)
=============================================================================
