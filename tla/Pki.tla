-------------------------------- MODULE Pki ---------------------------------
(***************************************************************************)
(* Certificates and tokens of the agent path: what the one CA ("K2")       *)
(* issues for each role, what the TLS verifiers at both ends accept, and   *)
(* what the broker checks of a token.  Keys are numbers, a signature is    *)
(* the number of the key that made it; a certificate is known by its       *)
(* serial number `n`, which stands for its SHA-256 thumbprint.             *)
(***************************************************************************)
EXTENDS Naturals

CONSTANT TokenTtl      \* how long a token is valid

ASSUME PkiAssumption == TokenTtl \in Nat

CaKey == 0
Yes(v) == [ok |-> TRUE, val |-> v]
No(e) == [ok |-> FALSE, val |-> e]

-----------------------------------------------------------------------------
(* Requests and certificates. *)

BuildCsr(key) == [key |-> key, by |-> key]

VerifyCsr(csr) == IF csr.by = csr.key THEN Yes(csr.key) ELSE No("SignatureInvalid")

BuildLeaf(key, role, id, eku, n, now, secs) ==
    [n |-> n, key |-> key, role |-> role, id |-> id, eku |-> {eku}, isCa |-> FALSE,
     issuer |-> CaKey, by |-> CaKey, nb |-> now, na |-> now + secs]

\* The URI prefixes of the subject alternative name are the roles.
IssueAgentCert(csr, handle, n, now, secs) ==
    BuildLeaf(VerifyCsr(csr).val, "prsn", handle, "clientAuth", n, now, secs)

IssueBrokerClientCert(csr, brokerId, n, now, secs) ==
    BuildLeaf(VerifyCsr(csr).val, "broker", brokerId, "clientAuth", n, now, secs)

BuildServerLeaf(key, serverId, n, now, secs) ==
    BuildLeaf(key, "server", serverId, "serverAuth", n, now, secs)

\* The CA's own certificate: self-signed, no name, no extended key usage.
BuildCaCert(now, secs) ==
    [n |-> 0, key |-> CaKey, role |-> "none", id |-> 0, eku |-> {}, isCa |-> TRUE,
     issuer |-> CaKey, by |-> CaKey, nb |-> now, na |-> now + secs]

CertSanUri(c) == IF c.role = "none" THEN No("none") ELSE Yes(<<c.role, c.id>>)

CertSanHandle(c) == IF c.role = "prsn" THEN Yes(c.id) ELSE No("none")

CertValidityWindow(c) == <<c.nb, c.na>>

CertSpki(c) == c.key

\* The one chain check: issuer, signature, dates, not a CA, the right usage.
VerifyLeafChainsToCaUri(leaf, ca, eku, now) ==
    CASE leaf.issuer # ca.key  -> No("issuer mismatch")
      [] leaf.by # ca.key      -> No("SignatureInvalid")
      [] now < leaf.nb         -> No("not yet valid")
      [] now > leaf.na         -> No("expired")
      [] leaf.isCa             -> No("is a CA")
      [] eku \notin leaf.eku   -> No("eku mismatch")
      [] OTHER                 -> CertSanUri(leaf)

\* An agent's leaf: the name must be a PRSN's.
VerifyLeafChainsToCa(leaf, ca, eku, now) ==
    IF VerifyLeafChainsToCaUri(leaf, ca, eku, now).ok THEN CertSanHandle(leaf)
    ELSE VerifyLeafChainsToCaUri(leaf, ca, eku, now)

-----------------------------------------------------------------------------
(* The verifiers of the mutual-TLS connections. *)

\* The CA certificate every credential carries.
Anchor == BuildCaCert(0, 0)

\* The broker's: only agents may connect.
K2ClientCertVerifier(leaf, now) ==
    VerifyLeafChainsToCa(leaf, Anchor, "clientAuth", now).ok

\* The client's, of a server of the CA, and of the broker with its key pinned.
K2PinnedVerifier(leaf, now) ==
    VerifyLeafChainsToCaUri(leaf, Anchor, "serverAuth", now).ok

K2ServerCertVerifier(leaf, pin, now) ==
    IF ~K2PinnedVerifier(leaf, now) THEN "UnknownIssuer"
    ELSE IF CertSpki(leaf) # pin THEN "ApplicationVerificationFailure" ELSE "ok"

-----------------------------------------------------------------------------
(* Tokens, bound to the certificate they were issued to. *)

EncodeSigningInput(aud, sub, thumb, now) ==
    [aud |-> aud, sub |-> sub, cnf |-> thumb, iat |-> now, exp |-> now + TokenTtl]

VerifyStructural(t, aud, sub, thumb) ==
    CASE t.aud # aud   -> "AudMismatch"
      [] t.sub # sub   -> "SubMismatch"
      [] t.cnf # thumb -> "CnfMismatch"
      [] OTHER         -> "ok"
=============================================================================
