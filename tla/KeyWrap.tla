------------------------------- MODULE KeyWrap ------------------------------
(***************************************************************************)
(* A key wrapped to the keys of an account (crypto/src/wrap.rs,            *)
(* hybrid_wrap.rs, cli/src/hybrid.rs), symbolically: a derived key is what *)
(* it was derived from, and AES-KW opens only under the very same one.     *)
(* A pair of keys is [ec, pq], pq <<>> or <<key>>; its holder has the      *)
(* private halves.  Every wrap draws its own ephemeral key; the model      *)
(* names it by what is wrapped and to whom.                                *)
(***************************************************************************)
EXTENDS Naturals, Sequences

Classical == "ECDH-ES+A256KW"
Hybrid == "ECDH-ES+ML-KEM-1024+A256KW"
Algs == {Classical, Hybrid}

NoRoot == <<>>                      \* the party of a file key's wrap

\* The same secret from the ephemeral private half and the recipient's public
\* one, and the other way round.
EcdhP256(ephemeral, pub) == <<"ecdh", ephemeral, pub>>

Encapsulate(pub, ephemeral) ==
    [ct |-> <<"ct", ephemeral, pub>>, z |-> <<"kem", ephemeral, pub>>]
\* A ciphertext for another key gives a secret nobody else has.
MlKemDecapsulate(pub, ct) ==
    IF ct[3] = pub THEN <<"kem", ct[2], pub>> ELSE <<"rejected", ct, pub>>

Wrap(kek, key) == [kek |-> kek, key |-> key]
Unwrap(kek, wk) == IF wk.kek = kek THEN <<wk.key>> ELSE <<>>

-----------------------------------------------------------------------------
(* The classical wrap: still read, no longer written. *)

WrapTo(keys, key, party) ==
    LET epk == <<key, keys.ec>> IN
    [alg |-> Classical, epk |-> epk, ek |-> <<>>, rfp |-> <<keys.ec>>,
     wk |-> Wrap(<<EcdhP256(epk, keys.ec), party>>, key)]

FinishUnwrap(z, env, party) ==
    IF env.alg # Classical THEN <<>> ELSE Unwrap(<<z, party>>, env.wk)

-----------------------------------------------------------------------------
(* The hybrid wrap: both secrets, and both public keys, enter the key. *)

BuildFixedInfo(epk, ek, ec, pq, party) == <<Hybrid, epk, ek, ec, pq, party>>
ContentWrapKek(zEcdh, zMlkem, info) == <<zEcdh, zMlkem, info>>
HybridRfp(keys) == <<keys.ec, keys.pq[1]>>

\* Both halves, and nothing for a folder but a folder's root.
ValidateRecipientKeys(keys) == Len(keys.pq) = 1
ValidatePartyV(party) == Len(party) \in {0, 1}

WrapFromSecrets(zEcdh, zMlkem, epk, ek, keys, key, party) ==
    [alg |-> Hybrid, epk |-> epk, ek |-> ek, rfp |-> HybridRfp(keys),
     wk |-> Wrap(ContentWrapKek(zEcdh, zMlkem, BuildFixedInfo(epk, ek, keys.ec, keys.pq[1], party)), key)]

UnwrapWithSharedSecrets(zEcdh, zMlkem, env, keys, party) ==
    IF env.alg # Hybrid \/ ~ValidateRecipientKeys(keys) \/ ~ValidatePartyV(party) THEN <<>>
    ELSE Unwrap(ContentWrapKek(zEcdh, zMlkem, BuildFixedInfo(env.epk, env.ek, keys.ec, keys.pq[1], party)), env.wk)

WrapKeyHybrid(keys, key, party) ==
    LET epk == <<key, keys.ec>>
        enc == Encapsulate(keys.pq[1], epk)
    IN  WrapFromSecrets(EcdhP256(epk, keys.ec), enc.z, epk, enc.ct, keys, key, party)

\* The holder of keys: both secrets come out of its keystore.
UnwrapKeyHybrid(keys, env, party) ==
    UnwrapWithSharedSecrets(EcdhP256(env.epk, keys.ec), MlKemDecapsulate(keys.pq[1], env.ek), env, keys, party)

-----------------------------------------------------------------------------
(* What the commands call: the code path is chosen from alg alone. *)

WrapAlgOf(env) == env.alg \in Algs

UnwrapDekValue(keys, env) ==
    CASE ~WrapAlgOf(env) -> <<>>
      [] env.alg = Classical -> FinishUnwrap(EcdhP256(env.epk, keys.ec), env, NoRoot)
      [] env.alg = Hybrid -> UnwrapKeyHybrid(keys, env, NoRoot)

UnwrapMetadataKeyEnvelope(keys, env, root) ==
    CASE ~WrapAlgOf(env) -> <<>>
      [] env.alg = Classical -> FinishUnwrap(EcdhP256(env.epk, keys.ec), env, <<root>>)
      [] env.alg = Hybrid -> UnwrapKeyHybrid(keys, env, <<root>>)

\* A classical-only recipient is refused.
RefuseClassicalWrite(keys) == keys.pq = <<>>

WrapDekFor(keys, dek) ==
    IF RefuseClassicalWrite(keys) THEN <<>> ELSE <<WrapKeyHybrid(keys, dek, NoRoot)>>

WrapMetadataKeyFor(keys, mk, root) ==
    IF RefuseClassicalWrite(keys) THEN <<>> ELSE <<WrapKeyHybrid(keys, mk, <<root>>)>>

\* From the holder of mine to another pair, whatever the old wrap's algorithm.
RewrapDekTo(mine, env, keys) ==
    LET dek == UnwrapDekValue(mine, env) IN
    IF dek = <<>> THEN <<>> ELSE WrapDekFor(keys, dek[1])
=============================================================================
